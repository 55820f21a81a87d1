---------------------------- MODULE PriceStreams ----------------------------
(* The price streams of one price_monitor process (price_monitor/main.cpp):  *)
(* a kucoin, an okex and a binance stream on one io_context.  They share     *)
(* nothing but the process, which ends with whatever is thrown in one of     *)
(* them, and which supervisord starts again.                                  *)
EXTENDS Naturals

CONSTANTS
    BatchSize,       \* instruments of one subscription, 100 in the code
    MaxInstruments,  \* bound on what kucoin lists
    Instruments,     \* what okex may list
    MaxDoubled       \* bound on the close frames that meet a first read of okex

ASSUME BatchAssumption ==
    BatchSize \in Nat \ {0} /\ MaxInstruments \in Nat \ {0} /\ MaxDoubled \in Nat

VARIABLES
    alive,      \* the process runs
    \* of the kucoin stream
    kind, kPending, sink, kInstruments, tokenCounter, subscribed, token, servers,
    kWs, kSending, kRequested, pingTimer, pingWait, pingSent,
    \* of the okex stream
    oPending, asleep, oInstruments, oSending, oWs, listed, oRequested, doubled,
    \* of the binance stream
    bPending, bWs

kucoin == <<kind, kPending, sink, kInstruments, tokenCounter, subscribed, token,
            servers, kWs, kSending, kRequested, pingTimer, pingWait, pingSent>>
okex == <<oPending, asleep, oInstruments, oSending, oWs, listed, oRequested, doubled>>
binance == <<bPending, bWs>>
vars == <<alive, kucoin, okex, binance>>

K == INSTANCE KucoinPriceStream WITH
         pending <- kPending, instruments <- kInstruments, ws <- kWs,
         sending <- kSending, requested <- kRequested
O == INSTANCE OkexPriceStream WITH
         pending <- oPending, instruments <- oInstruments, ws <- oWs,
         sending <- oSending, requested <- oRequested
B == INSTANCE BinancePriceStream WITH pending <- bPending, ws <- bWs

Init == K!Init /\ O!Init /\ B!Init

(* A handler leaves the other streams alone, unless it ends the process and  *)
(* so all of them.                                                            *)
KucoinHandler ==
    /\ K!Connection \/ K!Pings \/ K!SinkChanges
    /\ IF alive' THEN UNCHANGED <<okex, binance>> ELSE O!Fresh /\ B!Fresh
OkexHandler ==
    /\ O!Connection
    /\ IF alive' THEN UNCHANGED <<kucoin, binance>> ELSE K!Fresh /\ B!Fresh
BinanceHandler ==
    /\ B!Connection
    /\ IF alive' THEN UNCHANGED <<kucoin, okex>> ELSE K!Fresh /\ O!Fresh
ProcessRestarts == K!Reborn /\ O!Reborn /\ B!Reborn

Next == KucoinHandler \/ OkexHandler \/ BinanceHandler \/ ProcessRestarts

Spec == Init /\ [][Next]_vars

(* kucoin acknowledges every subscription, and the io threads run what is    *)
(* ready: messages keep coming.                                               *)
FairSpec ==
    /\ Spec
    /\ WF_vars(K!ReadMessage /\ UNCHANGED <<okex, binance>>)
    /\ WF_vars(K!Written /\ UNCHANGED <<okex, binance>>)
-----------------------------------------------------------------------------
TypeOK == K!TypeOK /\ O!TypeOK /\ B!TypeOK

(* Kucoin, through the ends and restarts of the process: a stream that takes *)
(* itself to be subscribed has all its instruments on this connection; the   *)
(* counter never passes the end of the list; an open connection goes on to   *)
(* be subscribed to everything.                                               *)
AllSubscribed == K!AllSubscribed
CounterInRange == K!CounterInRange
SubscribesAll == K!SubscribesAll

(* Okex: a connection that is read was subscribed to the last list.          *)
SubscribedToLatest == O!SubscribedToLatest

(* Okex and binance, which both begin again in the middle of a read.  Okex:  *)
(* retries that meet replace each other's connections but do not multiply.   *)
(* Binance: there is one connection at a time, and a handler that uses the   *)
(* websocket finds one.                                                       *)
ChainsCounted == O!RetriesAccounted /\ B!OneChain
-----------------------------------------------------------------------------
(* What is inductive, for the proofs: the streams keep out of each other's   *)
(* way but for the end of the process.                                       *)
IInv == K!IInv /\ O!IInv /\ B!IInv
=============================================================================
