------------------------ MODULE AccountStreamsProofs ------------------------
(* Proofs of the safety properties of AccountStreams.  Each stream keeps an  *)
(* invariant of its own; the other can only end the process under it.        *)
EXTENDS AccountStreams, FiniteSetTheorems, TLAPS

-----------------------------------------------------------------------------
(* Kucoin.                                                                    *)

(* A process that has just started.                                           *)
LEMMA KucoinBegins ==
    ASSUME alive' = TRUE, added' = FALSE, kPending' = {}, token' = FALSE, servers' = FALSE,
           kWs' = "none", stage' = "none", topics' = {},
           pingTimer' = FALSE, pingWait' = "none", pingSent' = FALSE
    PROVE  K!IInv'
  BY DEF K!IInv, K!TypeOK, K!OneOperation, K!AddedInv, K!StageInv, K!AskedUpTo, K!PingsGoOn,
         K!Stages, K!Topics, K!Operations

LEMMA KucoinUntouched ==
    ASSUME K!IInv, alive' \in BOOLEAN, alive' => alive, UNCHANGED kucoin
    PROVE  K!IInv'
  BY DEF kucoin, K!IInv, K!TypeOK, K!OneOperation, K!AddedInv, K!StageInv, K!PingsGoOn

(* Before anything is read, a handler begins, or goes on with, an attempt at  *)
(* a connection that was asked for no topic.                                  *)
LEMMA KucoinConnects ==
    ASSUME kPending' \subseteq {"token", "resolve", "connect", "tls", "upgrade", "read"},
           \A a, b \in kPending' : a = b, added', stage' = "none", topics' = {}
    PROVE  K!OneOperation' /\ K!AddedInv' /\ K!StageInv'
  BY DEF K!OneOperation, K!AddedInv, K!StageInv, K!AskedUpTo, K!Topics

(* Handlers that leave the subscriptions alone.                               *)
LEMMA KucoinKeepsStage ==
    ASSUME K!IInv, kPending' = kPending, UNCHANGED <<added, stage, topics>>
    PROVE  K!OneOperation' /\ K!AddedInv' /\ K!StageInv'
  BY DEF K!IInv, K!OneOperation, K!AddedInv, K!StageInv

(* The account is added.                                                      *)
LEMMA KucoinAdded == ASSUME K!IInv, K!Add
                     PROVE  K!IInv'
<1> USE DEF K!Add, K!ObtainToken, K!BeginAgain, K!Start, K!ping
<1>1. kPending = {} /\ stage = "none"
  BY DEF K!IInv, K!AddedInv
<1>2. kPending' = {"token"} /\ stage' = "none" /\ topics' = {} /\ added' /\ kWs' = "raw"
  BY <1>1
<1>3. K!OneOperation' /\ K!AddedInv' /\ K!StageInv'
  BY <1>2, KucoinConnects
<1>4. K!TypeOK' /\ K!PingsGoOn'
  BY <1>2 DEF K!IInv, K!TypeOK, K!Operations, K!PingsGoOn
<1> QED
  BY <1>3, <1>4 DEF K!IInv

LEMMA KucoinStep == ASSUME K!IInv, K!Connection \/ K!Pings
                    PROVE  K!IInv'
<1> USE DEF K!Completes, K!Start, K!Become, K!GiveUp, K!ping, K!connection
<1>t. K!TypeOK /\ K!OneOperation /\ K!AddedInv /\ K!StageInv /\ K!PingsGoOn
  BY DEF K!IInv
<1>e. \A op \in kPending : kPending = {op} /\ added
  BY <1>t DEF K!OneOperation, K!AddedInv
<1>n. kPending \cap {"token", "resolve", "connect", "tls", "upgrade"} # {} =>
          stage = "none" /\ topics = {}
  BY <1>t, <1>e DEF K!StageInv, K!AskedUpTo
<1>1. CASE K!TokenArrives \/ K!TokenFails \/ K!Resolved \/ K!Connected \/ K!TlsDone \/ K!TlsFails
  <2>1. kPending \cap {"token", "resolve", "connect", "tls", "upgrade"} # {} /\ added' = added
    BY <1>1 DEF K!TokenArrives, K!TokenFails, K!Resolved, K!Connected, K!TlsDone, K!TlsFails
  <2>2. kPending' \in {{}, {"resolve"}, {"connect"}, {"tls"}, {"upgrade"}}
    BY <1>1, <1>e
       DEF K!TokenArrives, K!TokenFails, K!Resolved, K!Connected, K!TlsDone, K!TlsFails
  <2>3. stage' = "none" /\ topics' = {}
    BY <1>1, <1>n, <2>1
       DEF K!TokenArrives, K!TokenFails, K!Resolved, K!Connected, K!TlsDone, K!TlsFails
  <2>4. K!OneOperation' /\ K!AddedInv' /\ K!StageInv'
    BY <1>e, <2>1, <2>2, <2>3, KucoinConnects
  <2>5. /\ kWs' \in {kWs, "raw"} /\ token' \in BOOLEAN /\ servers' \in BOOLEAN
        /\ UNCHANGED <<alive, pingTimer, pingWait, pingSent>>
    BY <1>1, <1>t DEF K!TokenArrives, K!TokenFails, K!Resolved, K!Connected, K!TlsDone,
                      K!TlsFails, K!TypeOK
  <2>6. K!TypeOK' /\ K!PingsGoOn'
    BY <1>t, <2>1, <2>2, <2>3, <2>5 DEF K!TypeOK, K!PingsGoOn, K!Operations, K!Stages, K!Topics
  <2> QED
    BY <2>4, <2>6 DEF K!IInv
<1>2. CASE K!Upgraded
  <2>1. kPending' = {"read"} /\ added' /\ stage' = "none" /\ topics' = {}
    BY <1>2, <1>e, <1>n DEF K!Upgraded
  <2>2. K!OneOperation' /\ K!AddedInv' /\ K!StageInv'
    BY <2>1, KucoinConnects
  <2>3. K!TypeOK' /\ K!PingsGoOn'
    BY <1>2, <1>t, <2>1 DEF K!Upgraded, K!TypeOK, K!PingsGoOn, K!Operations, K!Stages, K!Topics
  <2> QED
    BY <2>2, <2>3 DEF K!IInv
<1>3. CASE K!ReadMessage
  <2>1. /\ kPending = {"read"} /\ topics' = topics /\ topics = K!AskedUpTo[stage]
        /\ UNCHANGED <<alive, added, token, servers, kWs, pingTimer, pingWait, pingSent>>
    BY <1>3, <1>e, <1>t DEF K!ReadMessage, K!StageInv
  <2>2. CASE stage = "nothing_left"
    <3>1. kPending' = kPending /\ stage' = stage
      BY <1>3, <2>2 DEF K!ReadMessage
    <3>2. K!OneOperation' /\ K!AddedInv' /\ K!StageInv'
      BY <2>1, <3>1, KucoinKeepsStage
    <3>3. K!TypeOK' /\ K!PingsGoOn'
      BY <1>t, <2>1, <3>1 DEF K!TypeOK, K!PingsGoOn
    <3> QED
      BY <3>2, <3>3 DEF K!IInv
  <2>3. CASE stage # "nothing_left"
    <3>1. /\ stage' = K!NextStage[stage]
          /\ kPending' = IF stage' = "nothing_left" THEN {} ELSE {"write"}
      BY <1>3, <2>1, <2>3 DEF K!ReadMessage, K!SendNext
    <3>2. stage \in K!Stages
      BY <1>t DEF K!TypeOK
    <3>3. K!StageInv' /\ stage' \in K!Stages
      BY <2>1, <2>3, <3>1, <3>2
         DEF K!Stages, K!Topics, K!NextStage, K!StageInv, K!AskedUpTo
    <3>4. K!OneOperation' /\ K!AddedInv'
      BY <1>e, <2>1, <3>1 DEF K!OneOperation, K!AddedInv
    <3>5. K!TypeOK' /\ K!PingsGoOn'
      BY <1>t, <2>1, <3>1, <3>3 DEF K!TypeOK, K!PingsGoOn, K!Operations
    <3> QED
      BY <3>3, <3>4, <3>5 DEF K!IInv
  <2> QED
    BY <2>2, <2>3
<1>4. CASE K!Written
  <2>1. /\ kPending = {"write"} /\ kPending' = {"read"} /\ stage \in K!Topics
        /\ topics' = topics \cup {stage} /\ topics = K!AskedUpTo[stage] \ {stage}
        /\ UNCHANGED <<alive, added, token, servers, kWs, stage, pingTimer, pingWait, pingSent>>
    BY <1>4, <1>e, <1>t DEF K!Written, K!StageInv
  <2>2. topics' = K!AskedUpTo[stage] /\ topics' \subseteq K!Topics
    BY <2>1 DEF K!Topics, K!AskedUpTo
  <2>3. K!StageInv' /\ K!OneOperation' /\ K!AddedInv'
    BY <1>e, <2>1, <2>2 DEF K!StageInv, K!OneOperation, K!AddedInv
  <2>4. K!TypeOK' /\ K!PingsGoOn'
    BY <1>t, <2>1, <2>2 DEF K!TypeOK, K!PingsGoOn, K!Operations
  <2> QED
    BY <2>3, <2>4 DEF K!IInv
<1>5. CASE K!ReadAborted
  <2>1. /\ kPending = {"read"} /\ kPending' = {}
        /\ UNCHANGED <<alive, added, token, servers, kWs, stage, topics, pingTimer, pingWait,
                       pingSent>>
    BY <1>5, <1>e DEF K!ReadAborted
  <2> QED
    BY <1>e, <1>t, <2>1
       DEF K!IInv, K!TypeOK, K!OneOperation, K!AddedInv, K!StageInv, K!PingsGoOn
<1>6. ASSUME NEW op \in {"resolve", "connect", "upgrade", "read", "write"}, K!OperationFails(op)
      PROVE  K!IInv'
  <2>1. /\ kPending' = {"token"} /\ stage' = "none" /\ topics' = {} /\ kWs' = "raw"
        /\ UNCHANGED <<alive, added, token, servers, pingSent>> /\ added
    BY <1>6, <1>e DEF K!OperationFails, K!Retry, K!ObtainToken, K!BeginAgain, K!StageAfterReset
  <2>2. pingTimer' \in BOOLEAN /\ pingWait' \in {"none", "waiting", "expired"}
    BY <1>6, <1>t DEF K!OperationFails, K!Retry, K!WaitAfterCancel, K!TypeOK
  <2>3. K!OneOperation' /\ K!AddedInv' /\ K!StageInv'
    BY <2>1, KucoinConnects
  <2>4. K!TypeOK' /\ K!PingsGoOn'
    BY <1>t, <2>1, <2>2 DEF K!TypeOK, K!PingsGoOn, K!Operations, K!Stages, K!Topics
  <2> QED
    BY <2>3, <2>4 DEF K!IInv
<1>7. CASE K!Pings
  <2>1. kPending' = kPending /\ UNCHANGED <<added, token, servers, stage, topics, pingTimer>>
    BY <1>7 DEF K!Pings, K!PingExpires, K!PingTick, K!PingDone, K!DestroyedTimerFaults
  <2>2. K!OneOperation' /\ K!AddedInv' /\ K!StageInv'
    BY <2>1, KucoinKeepsStage
  <2>3. /\ alive' \in BOOLEAN /\ pingSent' \in BOOLEAN
        /\ kWs' \in {kWs, "failed"} /\ pingWait' \in {"none", "waiting", "expired"}
    BY <1>7, <1>t DEF K!Pings, K!PingExpires, K!PingTick, K!PingDone, K!NextPing,
                      K!DestroyedTimerFaults, K!TypeOK
  <2>n. alive' => alive /\ (pingWait' # "none" \/ pingSent')
    BY <1>7 DEF K!Pings, K!PingExpires, K!PingTick, K!PingDone, K!NextPing,
                K!DestroyedTimerFaults
  <2>4. K!TypeOK'
    BY <1>t, <2>1, <2>3 DEF K!TypeOK
  <2>5. K!PingsGoOn'
    BY <1>t, <2>1, <2>3, <2>n DEF K!PingsGoOn
  <2> QED
    BY <2>2, <2>4, <2>5 DEF K!IInv
<1> QED
  BY <1>1, <1>2, <1>3, <1>4, <1>5, <1>6, <1>7 DEF K!Connection

-----------------------------------------------------------------------------
(* Binance.                                                                   *)

LEMMA BinanceBegins ==
    ASSUME alive' = TRUE, life' = "new", bPending' = {}, client' = FALSE, key' = FALSE,
           bWs' = "null", retry' = FALSE, keyTimer' = FALSE, renewal' = "none"
    PROVE  B!IInv'
  BY DEF B!IInv, B!TypeOK, B!AttemptInv, B!KeyInv, B!Operations, B!Websockets

LEMMA BinanceUntouched ==
    ASSUME B!IInv, alive' \in BOOLEAN, UNCHANGED binance
    PROVE  B!IInv'
  BY DEF binance, B!IInv, B!TypeOK, B!AttemptInv, B!KeyInv

(* A key is asked for only where nothing else is going on.                    *)
LEMMA BinanceRequests ==
    ASSUME B!IInv, bPending = {}, B!RequestListenKey,
           alive' \in BOOLEAN, life' \in {"listed", "stopped"}, key' = key, retry' = FALSE
    PROVE  B!IInv'
<1>1. CASE life' = "stopped"
  BY <1>1 DEF B!RequestListenKey, B!IsStopped, B!IInv, B!TypeOK, B!AttemptInv, B!KeyInv
<1>2. CASE life' = "listed"
  <2>1. bPending' = {"token"} /\ ~keyTimer' /\ bWs' = "raw" /\ client' = TRUE
    BY <1>2 DEF B!RequestListenKey, B!IsStopped
  <2>2. renewal' \in {"none", "waiting", "expired", "posted"} /\ keyTimer' \in BOOLEAN
    BY <1>2 DEF B!RequestListenKey, B!IsStopped, B!RenewalAfterReset, B!IInv, B!TypeOK
  <2> QED
    BY <1>2, <2>1, <2>2
       DEF B!IInv, B!TypeOK, B!AttemptInv, B!KeyInv, B!Operations, B!Websockets
<1> QED
  BY <1>1, <1>2

LEMMA BinanceTasks == ASSUME B!IInv, B!Add \/ B!Remove
                      PROVE  B!IInv'
<1>1. CASE B!Add
  <2>1. bPending = {} /\ ~retry /\ life' = "listed" /\ retry' = FALSE /\ key' = key
    BY <1>1 DEF B!Add, B!IInv, B!TypeOK, B!AttemptInv
  <2> QED
    BY <1>1, <2>1, BinanceRequests DEF B!Add, B!IInv, B!TypeOK
<1>2. CASE B!Remove
  BY <1>2 DEF B!Remove, B!Survives, B!DestructorThrows, B!IInv, B!TypeOK, B!AttemptInv,
              B!KeyInv, B!Websockets
<1> QED
  BY <1>1, <1>2

LEMMA BinanceStep == ASSUME B!IInv, B!Connection \/ B!Timers
                     PROVE  B!IInv'
<1> USE DEF B!Completes, B!Start, B!Become, B!Terminate, B!Survives, B!DestructorThrows,
            B!Operations, B!Websockets
<1>t. B!TypeOK /\ B!AttemptInv /\ B!KeyInv
  BY DEF B!IInv
<1>e. \A op \in bPending : bPending = {op}
  BY <1>t DEF B!AttemptInv
<1>1. CASE B!KeyArrives
  BY <1>1, <1>t, <1>e DEF B!KeyArrives, B!IInv, B!TypeOK, B!AttemptInv, B!KeyInv
<1>2. CASE B!KeyFails
  BY <1>2, <1>t, <1>e DEF B!KeyFails, B!IInv, B!TypeOK, B!AttemptInv, B!KeyInv
<1>3. CASE B!Resolved \/ B!Connected \/ B!TlsDone
  BY <1>3, <1>t, <1>e
     DEF B!Resolved, B!Connected, B!TlsDone, B!IInv, B!TypeOK, B!AttemptInv, B!KeyInv
<1>4. ASSUME NEW op \in {"resolve", "connect", "tls", "upgrade"}, B!SetupFails(op)
      PROVE  B!IInv'
  BY <1>4, <1>t, <1>e DEF B!SetupFails, B!IInv, B!TypeOK, B!AttemptInv, B!KeyInv
<1>5. CASE B!Upgraded
  BY <1>5, <1>t, <1>e DEF B!Upgraded, B!IInv, B!TypeOK, B!AttemptInv, B!KeyInv
<1>6. CASE B!ReadMessage \/ B!ReadFails
  <2>1. bPending' = bPending /\ alive' \in BOOLEAN
    BY <1>6, <1>t, <1>e DEF B!ReadMessage, B!ReadFails, B!TypeOK
  <2>2. UNCHANGED <<life, client, key, bWs, retry, keyTimer, renewal>>
    BY <1>6 DEF B!ReadMessage, B!ReadFails
  <2> QED
    BY <1>t, <2>1, <2>2 DEF B!IInv, B!TypeOK, B!AttemptInv, B!KeyInv
<1>7. CASE B!CloseFrame \/ B!ClosingReadEnds
  <2>1. /\ bPending' \in {{"closing_read"}, {}} /\ UNCHANGED <<alive, life, client>>
        /\ bWs' = "null" /\ key' = FALSE /\ keyTimer' = FALSE /\ retry' = TRUE
    BY <1>7, <1>e DEF B!CloseFrame, B!ClosingReadEnds, B!ErrorEnds, B!Severed, B!ArmRetry
  <2>2. renewal' \in {"none", "waiting", "expired", "posted"}
    BY <1>7, <1>t
       DEF B!CloseFrame, B!ClosingReadEnds, B!Severed, B!RenewalAfterReset, B!TypeOK
  <2>3. life # "new"
    BY <1>7, <1>t DEF B!CloseFrame, B!ClosingReadEnds, B!AttemptInv
  <2> QED
    BY <1>t, <2>1, <2>2, <2>3 DEF B!IInv, B!TypeOK, B!AttemptInv, B!KeyInv
<1>8. CASE B!RetryExpires
  <2>1. /\ bPending = {} /\ life' = life /\ life \in {"listed", "stopped"}
        /\ key' = key /\ retry' = FALSE
    BY <1>8, <1>t DEF B!RetryExpires, B!NothingReady, B!TypeOK, B!AttemptInv
  <2> QED
    BY <1>8, <2>1, BinanceRequests DEF B!RetryExpires
<1>9. CASE B!RenewalExpires \/ B!RenewKey \/ B!RenewalRepeats \/ B!NullTimerFaults
  <2>1. UNCHANGED <<life, bPending, client, key, bWs, retry, keyTimer>>
    BY <1>9 DEF B!RenewalExpires, B!RenewKey, B!RenewalRepeats, B!NullTimerFaults
  <2>2. /\ renewal' \in {"none", "waiting", "expired", "posted"}
        /\ "read" \in bPending => renewal' # "none"
    BY <1>9, <1>t DEF B!RenewalExpires, B!RenewKey, B!NextRenewal, B!RenewalRepeats,
                      B!NullTimerFaults, B!TypeOK, B!KeyInv
  <2>3. alive' \in BOOLEAN
    BY <1>9, <1>t DEF B!RenewalExpires, B!RenewKey, B!RenewalRepeats, B!NullTimerFaults,
                      B!TypeOK
  <2> QED
    BY <1>t, <2>1, <2>2, <2>3 DEF B!IInv, B!TypeOK, B!AttemptInv, B!KeyInv
<1> QED
  BY <1>1, <1>2, <1>3, <1>4, <1>5, <1>6, <1>7, <1>8, <1>9 DEF B!Connection, B!Timers

-----------------------------------------------------------------------------
(* The process.                                                               *)

LEMMA InitIInv == Init => IInv
<1> SUFFICES ASSUME Init
             PROVE  IInv
  OBVIOUS
<1>1. K!IInv
  BY DEF Init, K!Init, K!IInv, K!TypeOK, K!OneOperation, K!AddedInv, K!StageInv, K!AskedUpTo,
         K!PingsGoOn, K!Stages, K!Topics, K!Operations
<1>2. B!IInv
  BY DEF Init, B!Init, B!IInv, B!TypeOK, B!AttemptInv, B!KeyInv, B!Operations, B!Websockets
<1> QED
  BY <1>1, <1>2 DEF Init, IInv

LEMMA StepIInv == ASSUME IInv, [Next]_vars
                  PROVE  IInv'
<1>t. io \in BOOLEAN /\ K!IInv /\ B!IInv
  BY DEF IInv
<1>l. K!IInv' \/ B!IInv' => alive' \in BOOLEAN
  BY DEF K!IInv, K!TypeOK, B!IInv, B!TypeOK
<1>a. ASSUME BinanceTask \/ BinanceHandler
      PROVE  alive' => alive
  BY <1>a DEF BinanceTask, BinanceHandler, B!Add, B!Remove, B!Connection, B!Timers,
       B!KeyArrives, B!KeyFails, B!Resolved, B!Connected, B!TlsDone, B!SetupFails, B!Upgraded,
       B!ReadMessage, B!ReadFails, B!CloseFrame, B!ClosingReadEnds, B!RetryExpires,
       B!RenewalExpires, B!RenewKey, B!RenewalRepeats, B!NullTimerFaults, B!Completes
<1>1. CASE KucoinTask
  BY <1>1, <1>t, <1>l, KucoinAdded, BinanceUntouched DEF KucoinTask, IInv
<1>2. CASE KucoinHandler
  BY <1>2, <1>t, <1>l, KucoinStep, BinanceUntouched DEF KucoinHandler, IInv
<1>3. CASE BinanceTask
  <2>1. B!IInv' /\ io' \in BOOLEAN
    BY <1>3, <1>t, BinanceTasks DEF BinanceTask
  <2> QED
    BY <1>3, <1>a, <1>t, <1>l, <2>1, KucoinUntouched DEF BinanceTask, IInv
<1>4. CASE BinanceHandler
  <2>1. B!IInv'
    BY <1>4, <1>t, BinanceStep DEF BinanceHandler
  <2> QED
    BY <1>4, <1>a, <1>t, <1>l, <2>1, KucoinUntouched DEF BinanceHandler, IInv
<1>5. CASE ProcessRestarts
  BY <1>5, KucoinBegins, BinanceBegins DEF ProcessRestarts, K!Reborn, B!Reborn, IInv
<1>6. CASE UNCHANGED vars
  <2>1. alive' = alive /\ alive \in BOOLEAN
    BY <1>6, <1>t DEF vars, K!IInv, K!TypeOK
  <2> QED
    BY <1>6, <1>t, <2>1, KucoinUntouched, BinanceUntouched DEF vars, IInv
<1> QED
  BY <1>1, <1>2, <1>3, <1>4, <1>5, <1>6 DEF Next

(* Each stream keeps its invariant through the handlers of the other, and     *)
(* through the ends and restarts of the process.                              *)
THEOREM Invariance == Spec => []IInv
<1> QED
  BY InitIInv, StepIInv, PTL DEF Spec

(* The variables of both streams keep their types.                            *)
THEOREM TypeCorrect == Spec => []TypeOK
<1>1. IInv => TypeOK
  BY DEF IInv, K!IInv, B!IInv, TypeOK
<1> QED
  BY <1>1, Invariance, PTL

(* A kucoin stream that takes itself to be subscribed asked this connection   *)
(* for all three topics, however often it was retried.                        *)
THEOREM SubscriptionsAreComplete == Spec => []FullySubscribed
<1>1. ASSUME IInv
      PROVE  FullySubscribed
  <2>1. CASE stage = "nothing_left"
    <3>1. "write" \notin kPending /\ topics = K!AskedUpTo["nothing_left"]
      BY <1>1, <2>1 DEF IInv, K!IInv, K!StageInv, K!Topics
    <3> QED
      BY <3>1 DEF K!AskedUpTo, FullySubscribed, K!FullySubscribed
  <2> QED
    BY <2>1 DEF FullySubscribed, K!FullySubscribed
<1> QED
  BY <1>1, Invariance, PTL

(* An open kucoin connection has its next ping coming, whatever handlers of   *)
(* an older timer are still about.                                            *)
THEOREM PingsAreComing == Spec => []PingsGoOn
<1>1. IInv => PingsGoOn
  BY DEF IInv, K!IInv, PingsGoOn
<1> QED
  BY <1>1, Invariance, PTL

(* The modules of the streams count as this one does.                         *)
LEMMA AtMostOne == ASSUME NEW S, \A a, b \in S : a = b
                   PROVE  K!Cardinality(S) <= 1 /\ B!Cardinality(S) <= 1
<1>1. Cardinality(S) <= 1
  <2>1. CASE S = {}
    BY <2>1, FS_EmptySet
  <2>2. CASE S # {}
    <3>1. PICK x \in S : S = {x}
      BY <2>2
    <3> QED
      BY <3>1, FS_Singleton
  <2> QED
    BY <2>1, <2>2
<1>2. K!Cardinality(S) = Cardinality(S) /\ B!Cardinality(S) = Cardinality(S)
  BY DEF K!Cardinality, B!Cardinality, Cardinality
<1> QED
  BY <1>1, <1>2

(* No failed handler of kucoin goes on beside the retry it started.           *)
THEOREM OneConnection == Spec => []OneChain
<1>1. IInv => OneChain
  BY AtMostOne DEF IInv, K!IInv, K!OneOperation, OneChain, K!OneChain
<1> QED
  BY <1>1, Invariance, PTL

(* A severed binance connection leaves one retry, though the severing is      *)
(* handled twice, and no retry begins beside a connection.                    *)
THEOREM AttemptsDoNotOverlap == Spec => []OneAttempt
<1>1. IInv => OneAttempt
  BY AtMostOne DEF IInv, B!IInv, B!AttemptInv, OneAttempt, B!OneAttempt
<1> QED
  BY <1>1, Invariance, PTL

(* A binance connection that is read has its key and the key's renewal.       *)
THEOREM KeysAreRenewed == Spec => []KeyKeptAlive
<1>1. IInv => KeyKeptAlive
  BY DEF IInv, B!IInv, B!KeyInv, KeyKeptAlive, B!KeyKeptAlive
<1> QED
  BY <1>1, Invariance, PTL

(* A removed binance account never asks for a listen key again: not by its    *)
(* retry timer, the only handler left that could.                             *)
THEOREM RemovalIsFinal == Spec => RemovedStaysAway
<1>1. ASSUME [Next]_vars, life = "stopped", "token" \in bPending'
      PROVE  "token" \in bPending
  <2>1. CASE KucoinTask \/ KucoinHandler \/ UNCHANGED vars
    BY <1>1, <2>1 DEF KucoinTask, KucoinHandler, binance, vars
  <2>2. CASE BinanceTask
    BY <1>1, <2>2 DEF BinanceTask, B!Add, B!Remove
  <2>3. CASE BinanceHandler /\ B!Connection
    <3>1. CASE B!KeyArrives \/ B!KeyFails \/ B!ReadFails
      BY <1>1, <3>1 DEF B!KeyArrives, B!KeyFails, B!ReadFails, B!Completes, B!Terminate
    <3>2. CASE B!Resolved \/ B!Connected \/ B!TlsDone \/ B!Upgraded \/ B!ReadMessage
      BY <1>1, <3>2
         DEF B!Resolved, B!Connected, B!TlsDone, B!Upgraded, B!ReadMessage, B!Start
    <3>3. CASE B!CloseFrame \/ B!ClosingReadEnds
      BY <1>1, <3>3 DEF B!CloseFrame, B!ClosingReadEnds, B!ErrorEnds, B!Start, B!Become
    <3>4. ASSUME NEW op \in {"resolve", "connect", "tls", "upgrade"}, B!SetupFails(op)
          PROVE  "token" \in bPending
      BY <1>1, <3>4 DEF B!SetupFails, B!Become
    <3> QED
      BY <2>3, <3>1, <3>2, <3>3, <3>4 DEF B!Connection
  <2>4. CASE BinanceHandler /\ B!Timers
    BY <1>1, <2>4
       DEF B!Timers, B!RetryExpires, B!RequestListenKey, B!IsStopped, B!RenewalExpires,
           B!RenewKey, B!RenewalRepeats, B!NullTimerFaults, B!Terminate
  <2>5. CASE ProcessRestarts
    BY <1>1, <2>5 DEF ProcessRestarts, B!Reborn
  <2> QED
    BY <1>1, <2>1, <2>2, <2>3, <2>4, <2>5 DEF Next, BinanceHandler
<1>2. [Next]_vars =>
          [life = "stopped" /\ "token" \in bPending' => "token" \in bPending]_(B!vars)
  BY <1>1
<1> QED
  BY <1>2, PTL DEF Spec, RemovedStaysAway, B!RemovedStaysAway
=============================================================================
