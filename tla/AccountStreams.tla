--------------------------- MODULE AccountStreams ---------------------------
(* The account streams of one account_monitor process: a kucoin stream and a *)
(* binance stream on the single io thread that watches_launcher.cpp starts.  *)
(* The thread is started (runIOContext) by the tasks of binance and not by   *)
(* those of kucoin, and what ends the process in one stream ends the other.  *)
(* supervisord restarts the process, which remembers no account.             *)
EXTENDS Naturals

VARIABLES
    alive,      \* the process runs
    io,         \* runIOContext has been called: handlers run
    \* of the kucoin stream
    added, kPending, token, servers, kWs, stage, topics, pingTimer, pingWait, pingSent,
    \* of the binance stream
    life, bPending, client, key, bWs, retry, keyTimer, renewal

kucoin == <<added, kPending, token, servers, kWs, stage, topics,
            pingTimer, pingWait, pingSent>>
binance == <<life, bPending, client, key, bWs, retry, keyTimer, renewal>>
vars == <<alive, io, kucoin, binance>>

K == INSTANCE KucoinUserStream WITH pending <- kPending, ws <- kWs
B == INSTANCE BinanceUserStream WITH pending <- bPending, ws <- bWs

Init == io = FALSE /\ K!Init /\ B!Init

(* kucoinAccountMonitor and binanceAccountMonitor: a task is carried out.    *)
KucoinTask == K!Add /\ UNCHANGED <<io, binance>>
BinanceTask == (B!Add \/ B!Remove) /\ io' = TRUE /\ UNCHANGED kucoin

KucoinHandler == io /\ (K!Connection \/ K!Pings) /\ UNCHANGED <<io, binance>>
BinanceHandler == io /\ (B!Connection \/ B!Timers) /\ UNCHANGED <<io, kucoin>>

(* autorestart=true                                                           *)
ProcessRestarts == K!Reborn /\ B!Reborn /\ io' = FALSE

Next == KucoinTask \/ BinanceTask \/ KucoinHandler \/ BinanceHandler \/ ProcessRestarts

Spec == Init /\ [][Next]_vars

(* The io thread runs what is ready, and timers expire.                      *)
IoRuns(Handler) == io /\ Handler /\ UNCHANGED <<io, kucoin>>
FairSpec ==
    /\ Spec
    /\ WF_vars(IoRuns(B!ClosingReadEnds)) /\ WF_vars(IoRuns(B!RetryExpires))
    /\ WF_vars(IoRuns(B!RenewKey))
    /\ WF_vars(IoRuns(B!RenewalRepeats \/ B!NullTimerFaults))
-----------------------------------------------------------------------------
TypeOK == io \in BOOLEAN /\ K!TypeOK /\ B!TypeOK

(* What the streams promise alone they keep side by side, through the ends   *)
(* and restarts of the process.  Kucoin: a stream that takes itself to be    *)
(* subscribed asked for all topics on this connection (m_stage is reset by   *)
(* every retry); one chain of operations; an open connection is pinged.      *)
FullySubscribed == K!FullySubscribed
OneChain == K!OneChain
PingsGoOn == K!PingsGoOn

(* Binance: one attempt at a connection at a time; the key of a connection   *)
(* that is read is renewed; a removed account stays away; a close frame is   *)
(* followed by a new attempt.                                                 *)
OneAttempt == B!OneAttempt
KeyKeptAlive == B!KeyKeptAlive
RemovedStaysAway == B!RemovedStaysAway
ClosedIsRetried == B!ClosedIsRetried

(* "Receive alerts for critical account transactions" (README.md:22): a      *)
(* subscribed connection is listened to.                                      *)
SubscribedIsRead == K!SubscribedIsRead
-----------------------------------------------------------------------------
(* What is inductive, for the proofs: each stream keeps its own.             *)
IInv == io \in BOOLEAN /\ K!IInv /\ B!IInv
=============================================================================
