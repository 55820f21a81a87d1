-------------------------- MODULE KucoinPriceStream -------------------------
(* One kucoin price stream of price_monitor                                  *)
(* (price_monitor/src/kucoin_price_stream.cpp), of one kind; the stream of   *)
(* the other kind appears by what it does to the sink that both share.       *)
(* A stream fetches the instruments unless there is something in the sink,   *)
(* gets a token, connects, and subscribes as messages come in: a spot stream *)
(* to one topic, a futures stream to its instruments, a batch at a time.     *)
(*                                                                            *)
(* As in KucoinUserStream an action is one handler.  The io_context of       *)
(* price_monitor is run by three threads, which take handlers first come,    *)
(* first served; those of a kucoin stream overlap only where a ping meets the     *)
(* five seconds of a retry, which is as if it came right after.  Instruments *)
(* are numbers from 1 in the order of m_fInstruments.                        *)
EXTENDS Naturals, FiniteSets

CONSTANTS
    BatchSize,       \* instruments of one subscription, 100 in the code
    MaxInstruments   \* bound on what kucoin lists

VARIABLES
    alive,          \* price_monitor runs
    kind,           \* m_tradeType
    pending,        \* asynchronous operations of the connection: see Operations
    sink,           \* whether m_tradedInstruments has elements
    instruments,    \* the size of m_fInstruments, or 1 (the topic of all spot tickers)
    tokenCounter,   \* m_tokenCounter
    subscribed,     \* m_tokensSubscribedFor
    token,          \* m_requestToken is not empty
    servers,        \* m_instanceServers has an element (with encryption)
    ws,             \* m_sslWebStream: "none", "raw" (no websocket yet), "open", "failed"
    sending,        \* the instruments in m_subscriptionString
    requested,      \* the instruments this connection was subscribed to
    pingTimer,      \* m_pingTimer has a value
    pingWait,       \* its wait: "none", "waiting", "expired" (handler queued)
    pingSent        \* an async_ping is outstanding

vars == <<alive, kind, pending, sink, instruments, tokenCounter, subscribed,
          token, servers, ws, sending, requested, pingTimer, pingWait, pingSent>>
lists == <<sink, instruments>>
progress == <<tokenCounter, subscribed, sending, requested>>
access == <<token, servers>>
ping == <<pingTimer, pingWait, pingSent>>

Operations == {"instruments", "token", "resolve", "connect", "tls", "upgrade",
               "read", "write"}

Completes(op) == alive /\ op \in pending
Become(op) == pending' = (pending \ {op})
Start(op, next) == pending' = (pending \ {op}) \cup {next}
-----------------------------------------------------------------------------
(* rest_api_initiate_connection and rest_api_obtain_token.                   *)
BeginAgain(op) ==
    /\ Start(op, IF sink' THEN "token" ELSE "instruments")
    /\ ws' = "raw" /\ sending' = {} /\ requested' = {}

(* run(): nothing is in the sink yet.                                         *)
Init ==
    /\ alive = TRUE /\ kind \in {"spot", "futures"}
    /\ pending = {"instruments"} /\ ws = "raw"
    /\ sink = FALSE /\ instruments = IF kind = "spot" THEN 1 ELSE 0
    /\ tokenCounter = 0 /\ subscribed = FALSE
    /\ sending = {} /\ requested = {}
    /\ token = FALSE /\ servers = FALSE
    /\ pingTimer = FALSE /\ pingWait = "none" /\ pingSent = FALSE

(* What a new process begins with.                                            *)
Fresh ==
    /\ UNCHANGED kind
    /\ pending' = {"instruments"} /\ ws' = "raw"
    /\ sink' = FALSE /\ instruments' = IF kind = "spot" THEN 1 ELSE 0
    /\ tokenCounter' = 0 /\ subscribed' = FALSE
    /\ sending' = {} /\ requested' = {}
    /\ token' = FALSE /\ servers' = FALSE
    /\ pingTimer' = FALSE /\ pingWait' = "none" /\ pingSent' = FALSE

(* autorestart: a new process.                                                *)
Reborn == ~alive /\ alive' = TRUE /\ Fresh

(* reset_counter of a futures stream.  That of the base class, which a spot  *)
(* stream has, leaves m_tokenCounter alone: for a spot stream, which does    *)
(* not count, the same; for a futures stream the faulty variant.             *)
FlagReset == subscribed' = FALSE /\ UNCHANGED tokenCounter
ResetCounter == subscribed' = FALSE /\ tokenCounter' = 0

WaitAfterCancel == IF pingWait = "waiting" THEN "none" ELSE pingWait

(* report_error_and_retry.  In the five seconds between the clearing of the  *)
(* sink and the test of it the other stream may have appended.               *)
Retry(op) ==
    /\ sink' \in BOOLEAN
    /\ pingTimer' = FALSE /\ pingWait' = WaitAfterCancel
    /\ ResetCounter
    /\ BeginAgain(op)
    /\ UNCHANGED <<alive, kind, instruments, access, pingSent>>

GiveUp(op) ==
    /\ Become(op)
    /\ UNCHANGED <<alive, kind, lists, progress, access, ws, ping>>

Terminate ==
    /\ alive' = FALSE
    /\ UNCHANGED <<kind, pending, lists, progress, access, ws, ping>>
-----------------------------------------------------------------------------
(* Handlers of an old connection run before any answer to the new one.       *)
OldPingsDone == pingWait # "expired" /\ ~pingSent

(* on_instruments_received and rest_api_obtain_token.  A futures answer that *)
(* is rejected or cannot be parsed leaves what was read of it, maybe nothing.*)
InstrumentsArrive ==
    /\ Completes("instruments") /\ OldPingsDone
    /\ \E n \in 0 .. MaxInstruments :
          /\ instruments' = IF kind = "futures" THEN n ELSE 1
          /\ sink' = (sink \/ n > 0)
    /\ Start("instruments", "token")
    /\ UNCHANGED <<alive, kind, progress, access, ws, ping>>

(* A spot answer that cannot be parsed throws out of the handler.            *)
SpotListThrows == Completes("instruments") /\ kind = "spot" /\ Terminate

RequestFails(op) == Completes(op) /\ OldPingsDone /\ GiveUp(op)

(* on_token_obtained, initiate_websocket_connection: see KucoinUserStream.   *)
TokenArrives ==
    /\ Completes("token") /\ OldPingsDone
    /\ \/ UNCHANGED access
       \/ token' = TRUE /\ servers' \in BOOLEAN
    /\ IF token' /\ servers' THEN Start("token", "resolve") ELSE Become("token")
    /\ UNCHANGED <<alive, kind, lists, progress, ws, ping>>

Resolved ==
    /\ Completes("resolve") /\ Start("resolve", "connect") /\ ws' = "raw"
    /\ UNCHANGED <<alive, kind, lists, progress, access, ping>>
Connected ==
    /\ Completes("connect") /\ (Start("connect", "tls") \/ Become("connect"))
    /\ UNCHANGED <<alive, kind, lists, progress, access, ws, ping>>
TlsDone ==
    /\ Completes("tls") /\ Start("tls", "upgrade")
    /\ UNCHANGED <<alive, kind, lists, progress, access, ws, ping>>
TlsFails == Completes("tls") /\ GiveUp("tls")

Upgraded ==
    /\ Completes("upgrade") /\ pingWait # "expired"
    /\ Start("upgrade", "read")
    /\ ws' = "open" /\ pingTimer' = TRUE /\ pingWait' = "waiting"
    /\ UNCHANGED <<alive, kind, lists, progress, access, pingSent>>
-----------------------------------------------------------------------------
Lesser(a, b) == IF a < b THEN a ELSE b

(* get_subscription_json.  The size of a batch is computed in size_t and     *)
(* would wrap around.  The faulty variants take any batch for the last one,  *)
(* or do not look at the end of the list.                                     *)
WholeBatch == BatchSize
Batch == IF tokenCounter <= instruments
         THEN Lesser(BatchSize, instruments - tokenCounter) ELSE BatchSize
OneBatch == TRUE
AllRequested == tokenCounter' = instruments
NextSubscription ==
    /\ tokenCounter' = tokenCounter + Batch
    /\ subscribed' = AllRequested
    /\ sending' = tokenCounter + 1 .. tokenCounter'

(* get_instrument_from_json, interpret_generic_messages: a price goes to the *)
(* sink, and any message lets the next batch be sent.                        *)
ReadMessage ==
    /\ Completes("read") /\ ws = "open"
    /\ sink' \in {TRUE, sink}
    /\ IF ~subscribed THEN NextSubscription /\ Start("read", "write")
                      ELSE UNCHANGED <<tokenCounter, subscribed, sending, pending>>
    /\ UNCHANGED <<alive, kind, instruments, access, ws, requested, ping>>

(* What is not JSON throws out of the handler.                               *)
MessageThrows == Completes("read") /\ ws = "open" /\ Terminate

(* The faulty variant forgets to read on.                                     *)
NoReadOn == Become("write")
ReadOn == Start("write", "read")
Written ==
    /\ Completes("write") /\ ws = "open"
    /\ ReadOn
    /\ sending' = {} /\ requested' = requested \cup sending
    /\ UNCHANGED <<alive, kind, lists, tokenCounter, subscribed, access, ws, ping>>

OperationFails(op) ==
    /\ Completes(op)
    /\ op = "read" => ws = "open"
    /\ Retry(op)

ReadAborted == Completes("read") /\ ws = "failed" /\ GiveUp("read")
-----------------------------------------------------------------------------
(* The ping timer: see KucoinUserStream.                                      *)
PingExpires ==
    /\ alive /\ pingWait = "waiting" /\ pingWait' = "expired"
    /\ UNCHANGED <<alive, kind, pending, lists, progress, access, ws, pingTimer, pingSent>>
PingTick ==
    /\ alive /\ pingWait = "expired" /\ ~pingSent
    /\ pingWait' = "none" /\ pingSent' = TRUE
    /\ UNCHANGED <<alive, kind, pending, lists, progress, access, ws, pingTimer>>
PingDone ==
    /\ alive /\ pingSent
    /\ pingSent' = FALSE /\ pingWait' = "waiting"
    /\ ws' \in IF ws = "open" THEN {"open", "failed"} ELSE {ws}
    /\ UNCHANGED <<alive, kind, pending, lists, progress, access, pingTimer>>
DestroyedTimerFaults == alive /\ pingSent /\ ~pingTimer /\ Terminate

(* The other stream of kucoin appends, or clears the sink in a retry; the    *)
(* publisher (external_messaging_stream.cpp) takes what there is.            *)
SinkChanges ==
    /\ alive /\ sink' = ~sink
    /\ UNCHANGED <<alive, kind, pending, instruments, progress, access, ws, ping>>
-----------------------------------------------------------------------------
Connection ==
    \/ InstrumentsArrive \/ SpotListThrows \/ TokenArrives
    \/ \E op \in {"instruments", "token"} : RequestFails(op)
    \/ Resolved \/ Connected \/ TlsDone \/ TlsFails \/ Upgraded
    \/ ReadMessage \/ MessageThrows \/ Written \/ ReadAborted
    \/ \E op \in {"resolve", "connect", "upgrade", "read", "write"} : OperationFails(op)
Pings == PingExpires \/ PingTick \/ PingDone \/ DestroyedTimerFaults
Next == Connection \/ Pings \/ SinkChanges \/ Reborn

Spec == Init /\ [][Next]_vars
FairSpec == Spec /\ WF_vars(ReadMessage) /\ WF_vars(Written)
-----------------------------------------------------------------------------
TypeOK ==
    /\ alive \in BOOLEAN /\ kind \in {"spot", "futures"}
    /\ pending \subseteq Operations
    /\ sink \in BOOLEAN /\ instruments \in 0 .. MaxInstruments
    /\ tokenCounter \in 0 .. MaxInstruments /\ subscribed \in BOOLEAN
    /\ sending \subseteq 1 .. MaxInstruments /\ requested \subseteq 1 .. MaxInstruments
    /\ token \in BOOLEAN /\ servers \in BOOLEAN
    /\ ws \in {"none", "raw", "open", "failed"}
    /\ pingTimer \in BOOLEAN /\ pingWait \in {"none", "waiting", "expired"}
    /\ pingSent \in BOOLEAN

(* Whatever failed and was retried, with the instruments fetched again or    *)
(* not, a stream that takes itself to be subscribed has subscribed this very *)
(* connection to every instrument it knows.                                  *)
AllSubscribed ==
    subscribed /\ "read" \in pending => requested = 1 .. instruments

(* m_tokenCounter, which outlives the list it counts, never passes its end:  *)
(* size - m_tokenCounter does not wrap around and no index is out of range.  *)
CounterInRange == tokenCounter <= instruments

(* An open connection goes on to be subscribed to everything, unless it is   *)
(* lost.                                                                      *)
SubscribesAll ==
    ws = "open" ~> requested = 1 .. instruments \/ ws # "open" \/ ~alive
-----------------------------------------------------------------------------
(* What is inductive, for the proofs: one operation is outstanding at a time; *)
(* nothing is counted before a connection is read, and what was counted was  *)
(* requested on this connection, or is being requested.                      *)
OneOperation == \A a, b \in pending : a = b
CountInv ==
    /\ CounterInRange
    /\ subscribed => tokenCounter = instruments
    /\ pending # {} /\ pending \cap {"read", "write"} = {} =>
           tokenCounter = 0 /\ ~subscribed /\ requested = {}
    /\ "read" \in pending => requested = 1 .. tokenCounter
    /\ "write" \in pending => requested \cup sending = 1 .. tokenCounter
IInv == TypeOK /\ OneOperation /\ CountInv
=============================================================================
