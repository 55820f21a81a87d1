------------------------- MODULE PriceStreamsProofs -------------------------
(* Proofs that the safety properties of PriceStreams hold for batches of any *)
(* size, any number of instruments of kucoin and any set of okex's.  Each    *)
(* stream keeps an invariant of its own, which the others cannot break.      *)
EXTENDS PriceStreams, FiniteSetTheorems, TLAPS

LEMMA Bounds == BatchSize \in Nat \ {0} /\ MaxInstruments \in Nat \ {0} /\ MaxDoubled \in Nat
  BY BatchAssumption

-----------------------------------------------------------------------------
(* Kucoin.                                                                    *)

LEMMA KucoinBegins ==
    ASSUME kPending' = {"instruments"}, kWs' = "raw", alive' \in BOOLEAN,
           sink' = FALSE, kInstruments' = IF kind' = "spot" THEN 1 ELSE 0,
           kind' \in {"spot", "futures"}, tokenCounter' = 0, subscribed' = FALSE,
           kSending' = {}, kRequested' = {}, token' = FALSE, servers' = FALSE,
           pingTimer' = FALSE, pingWait' = "none", pingSent' = FALSE
    PROVE  K!IInv'
<1>1. K!TypeOK'
  <2>1. kInstruments' \in 0 .. MaxInstruments /\ tokenCounter' \in 0 .. MaxInstruments
    BY Bounds
  <2> QED
    BY <2>1 DEF K!TypeOK, K!Operations
<1>2. K!OneOperation' /\ K!CountInv'
  BY DEF K!OneOperation, K!CountInv, K!CounterInRange
<1> QED
  BY <1>1, <1>2 DEF K!IInv

(* The life of the process is all that the streams share.                     *)
LEMMA KucoinUntouched ==
    ASSUME K!IInv, alive' \in BOOLEAN, UNCHANGED kucoin
    PROVE  K!IInv'
  BY DEF kucoin, K!IInv, K!TypeOK, K!OneOperation, K!CountInv, K!CounterInRange

(* Handlers that only move on to the next operation, or leave it at that.     *)
LEMMA KucoinMovesOn ==
    ASSUME K!IInv, UNCHANGED <<tokenCounter, subscribed, kRequested, kSending>>,
           \/ kPending' \in {kPending, {}} /\ UNCHANGED kInstruments
           \/ /\ kInstruments' \in Nat
              /\ \E op \in kPending \ {"read", "write"}, next \in K!Operations \ {"write"} :
                    kPending' = {next}
    PROVE  K!OneOperation' /\ K!CountInv'
<1>1. CASE kPending' \in {kPending, {}} /\ UNCHANGED kInstruments
  BY <1>1 DEF K!IInv, K!OneOperation, K!CountInv, K!CounterInRange
<1>2. ASSUME kInstruments' \in Nat, NEW op \in kPending \ {"read", "write"},
             NEW next \in K!Operations \ {"write"}, kPending' = {next}
      PROVE  K!OneOperation' /\ K!CountInv'
  <2>1. tokenCounter = 0 /\ ~subscribed /\ kRequested = {}
    BY <1>2 DEF K!IInv, K!OneOperation, K!CountInv
  <2> QED
    BY <1>2, <2>1 DEF K!OneOperation, K!CountInv, K!CounterInRange
<1> QED
  BY <1>1, <1>2

LEMMA KucoinStep == ASSUME K!IInv, K!Connection \/ K!Pings \/ K!SinkChanges
                    PROVE  K!IInv'
<1> USE Bounds DEF K!IInv, K!Completes, K!Start, K!Become, K!GiveUp, K!Terminate,
                   K!lists, K!progress, K!access, K!ping, K!Operations
<1>e. \A op \in kPending : kPending = {op}
  BY DEF K!OneOperation
<1>t. K!TypeOK /\ "instruments" \in K!Operations
  OBVIOUS
<1>1. CASE K!InstrumentsArrive
  <2>1. kInstruments' \in 0 .. MaxInstruments /\ sink' \in BOOLEAN
    BY <1>1 DEF K!InstrumentsArrive, K!TypeOK
  <2>2. kPending' = {"token"} /\ "instruments" \in kPending
    BY <1>1, <1>e DEF K!InstrumentsArrive
  <2>3. K!OneOperation' /\ K!CountInv'
    BY <1>1, <2>1, <2>2, KucoinMovesOn DEF K!InstrumentsArrive
  <2>4. K!TypeOK'
    BY <1>1, <2>1, <2>2 DEF K!InstrumentsArrive, K!TypeOK
  <2> QED
    BY <2>3, <2>4
<1>2. CASE K!SpotListThrows \/ K!MessageThrows \/ K!DestroyedTimerFaults
  <2>1. K!OneOperation' /\ K!CountInv'
    BY <1>2, KucoinMovesOn DEF K!SpotListThrows, K!MessageThrows, K!DestroyedTimerFaults
  <2>2. K!TypeOK'
    BY <1>2 DEF K!SpotListThrows, K!MessageThrows, K!DestroyedTimerFaults, K!TypeOK
  <2> QED
    BY <2>1, <2>2
<1>3. CASE K!TokenArrives
  <2>1. token' \in BOOLEAN /\ servers' \in BOOLEAN
    BY <1>3 DEF K!TokenArrives, K!TypeOK
  <2>2. kPending' \in {{"resolve"}, {}} /\ "token" \in kPending
    BY <1>3, <1>e DEF K!TokenArrives
  <2>3. kInstruments' = kInstruments /\ kInstruments \in Nat
    BY <1>3 DEF K!TokenArrives, K!TypeOK
  <2>4. K!OneOperation' /\ K!CountInv'
    BY <1>3, <2>2, <2>3, KucoinMovesOn DEF K!TokenArrives
  <2>5. K!TypeOK'
    BY <1>3, <2>1, <2>2 DEF K!TokenArrives, K!TypeOK
  <2> QED
    BY <2>4, <2>5
<1>4. CASE K!Resolved \/ K!Connected \/ K!TlsDone \/ K!TlsFails
  <2>1. \E op \in kPending \ {"read", "write"} :
            \E next \in K!Operations \ {"write"} : kPending' \in {{next}, {}}
    BY <1>4, <1>e DEF K!Resolved, K!Connected, K!TlsDone, K!TlsFails
  <2>2. kInstruments' = kInstruments /\ kInstruments \in Nat
    BY <1>4 DEF K!Resolved, K!Connected, K!TlsDone, K!TlsFails, K!TypeOK
  <2>3. UNCHANGED <<tokenCounter, subscribed, kRequested, kSending>>
    BY <1>4 DEF K!Resolved, K!Connected, K!TlsDone, K!TlsFails
  <2>4. K!OneOperation' /\ K!CountInv'
    BY <2>1, <2>2, <2>3, KucoinMovesOn
  <2>5. K!TypeOK'
    <3>1. kWs' \in {kWs, "raw"} /\ kPending' \subseteq K!Operations
      BY <2>1, <1>4 DEF K!Resolved, K!Connected, K!TlsDone, K!TlsFails
    <3>2. UNCHANGED <<alive, kind, sink, kInstruments, tokenCounter, subscribed, kSending,
                      kRequested, token, servers, pingTimer, pingWait, pingSent>>
      BY <1>4 DEF K!Resolved, K!Connected, K!TlsDone, K!TlsFails
    <3> QED
      BY <3>1, <3>2 DEF K!TypeOK
  <2> QED
    BY <2>4, <2>5
<1>5. CASE K!Upgraded
  <2>1. kPending' = {"read"} /\ "upgrade" \in kPending
    BY <1>5, <1>e DEF K!Upgraded
  <2>2. kInstruments' = kInstruments /\ kInstruments \in Nat
    BY <1>5 DEF K!Upgraded, K!TypeOK
  <2>3. K!OneOperation' /\ K!CountInv'
    BY <1>5, <2>1, <2>2, KucoinMovesOn DEF K!Upgraded
  <2>4. K!TypeOK'
    <3>1. kWs' = "open" /\ pingTimer' = TRUE /\ pingWait' = "waiting"
      BY <1>5 DEF K!Upgraded
    <3>2. UNCHANGED <<alive, kind, sink, kInstruments, tokenCounter, subscribed, kSending,
                      kRequested, token, servers, pingSent>>
      BY <1>5 DEF K!Upgraded
    <3> QED
      BY <2>1, <3>1, <3>2 DEF K!TypeOK
  <2> QED
    BY <2>3, <2>4
<1>6. CASE K!ReadMessage
  <2>0. K!Batch \in Nat /\ tokenCounter + K!Batch <= kInstruments
    BY DEF K!TypeOK, K!CountInv, K!CounterInRange, K!Batch, K!Lesser
  <2>1. K!TypeOK'
    <3>1. tokenCounter' \in 0 .. MaxInstruments /\ kSending' \subseteq 1 .. MaxInstruments
      <4>1. CASE ~subscribed
        <5>1. tokenCounter' = tokenCounter + K!Batch
          BY <1>6, <4>1 DEF K!ReadMessage, K!NextSubscription
        <5>2. kSending' = tokenCounter + 1 .. tokenCounter'
          BY <1>6, <4>1 DEF K!ReadMessage, K!NextSubscription
        <5>3. tokenCounter \in Nat /\ kInstruments \in 0 .. MaxInstruments
          BY DEF K!TypeOK
        <5> QED
          BY <2>0, <5>1, <5>2, <5>3
      <4>2. CASE subscribed
        BY <1>6, <4>2 DEF K!ReadMessage, K!TypeOK
      <4> QED
        BY <4>1, <4>2
    <3>2. sink' \in BOOLEAN /\ subscribed' \in BOOLEAN
      BY <1>6 DEF K!TypeOK, K!ReadMessage, K!NextSubscription, K!AllRequested
    <3>3. kPending' \subseteq K!Operations
      BY <1>6 DEF K!TypeOK, K!ReadMessage
    <3>4. UNCHANGED <<alive, kind, kInstruments, token, servers, kWs, kRequested, pingTimer,
                      pingWait, pingSent>>
      BY <1>6 DEF K!ReadMessage
    <3> QED
      BY <3>1, <3>2, <3>3, <3>4 DEF K!TypeOK
  <2>2. K!OneOperation'
    BY <1>6 DEF K!OneOperation, K!ReadMessage
  <2>3. K!CountInv'
    BY <1>6 DEF K!TypeOK, K!OneOperation, K!CountInv, K!CounterInRange, K!ReadMessage,
                K!NextSubscription, K!Batch, K!Lesser, K!AllRequested
  <2> QED
    BY <2>1, <2>2, <2>3
<1>7. CASE K!Written
  <2>1. K!TypeOK'
    BY <1>7 DEF K!TypeOK, K!Written, K!ReadOn
  <2>2. K!OneOperation'
    BY <1>7 DEF K!OneOperation, K!Written, K!ReadOn
  <2>3. K!CountInv'
    BY <1>7 DEF K!TypeOK, K!OneOperation, K!CountInv, K!CounterInRange, K!Written, K!ReadOn
  <2> QED
    BY <2>1, <2>2, <2>3
<1>8. ASSUME NEW op \in K!Operations, K!Completes(op), K!GiveUp(op)
      PROVE  K!IInv'
  <2>1. kPending' = {}
    BY <1>8, <1>e
  <2>2. K!OneOperation' /\ K!CountInv'
    BY <1>8, <2>1, KucoinMovesOn
  <2>3. K!TypeOK'
    BY <1>8, <2>1 DEF K!TypeOK
  <2> QED
    BY <2>2, <2>3
<1>9. CASE K!ReadAborted \/ \E op \in {"instruments", "token"} : K!RequestFails(op)
  <2> HIDE DEF K!IInv, K!GiveUp, K!Completes
  <2> QED
    BY <1>8, <1>9 DEF K!ReadAborted, K!RequestFails
<1>10. ASSUME NEW op \in {"resolve", "connect", "upgrade", "read", "write"},
              K!OperationFails(op)
       PROVE  K!IInv'
  <2>1. kPending' \in {{"token"}, {"instruments"}}
    BY <1>10, <1>e DEF K!OperationFails, K!Retry, K!BeginAgain
  <2>2. tokenCounter' = 0 /\ ~subscribed' /\ subscribed' \in BOOLEAN
    BY <1>10 DEF K!OperationFails, K!Retry, K!ResetCounter
  <2>3. kRequested' = {} /\ kSending' = {} /\ kWs' = "raw"
    BY <1>10 DEF K!OperationFails, K!Retry, K!BeginAgain
  <2>4. UNCHANGED <<alive, kind, kInstruments, token, servers, pingSent>>
    BY <1>10 DEF K!OperationFails, K!Retry
  <2>5. sink' \in BOOLEAN /\ pingTimer' \in BOOLEAN
    BY <1>10 DEF K!OperationFails, K!Retry
  <2>6. pingWait' \in {"none", "waiting", "expired"}
    BY <1>10 DEF K!OperationFails, K!Retry, K!WaitAfterCancel, K!TypeOK
  <2>7. K!TypeOK'
    BY <2>1, <2>2, <2>3, <2>4, <2>5, <2>6 DEF K!TypeOK
  <2>8. K!OneOperation' /\ K!CountInv'
    BY <2>1, <2>2, <2>3, <2>4 DEF K!TypeOK, K!OneOperation, K!CountInv, K!CounterInRange
  <2> QED
    BY <2>7, <2>8
<1>11. CASE K!Pings \/ K!SinkChanges
  <2>1. CASE K!DestroyedTimerFaults
    BY <1>2, <2>1
  <2>2. CASE K!PingExpires \/ K!PingTick \/ K!PingDone \/ K!SinkChanges
    <3>1. UNCHANGED <<alive, kind, kPending, kInstruments, tokenCounter, subscribed,
                      kSending, kRequested, token, servers>>
      BY <2>2 DEF K!PingExpires, K!PingTick, K!PingDone, K!SinkChanges
    <3>2. sink' \in BOOLEAN /\ pingTimer' \in BOOLEAN /\ pingSent' \in BOOLEAN
      BY <2>2 DEF K!PingExpires, K!PingTick, K!PingDone, K!SinkChanges, K!TypeOK
    <3>3. pingWait' \in {"none", "waiting", "expired"} /\ kWs' \in {"none", "raw", "open", "failed"}
      BY <2>2 DEF K!PingExpires, K!PingTick, K!PingDone, K!SinkChanges, K!TypeOK
    <3>4. K!TypeOK'
      BY <3>1, <3>2, <3>3 DEF K!TypeOK
    <3> QED
      BY <3>1, <3>4, KucoinMovesOn
  <2> QED
    BY <1>11, <2>1, <2>2 DEF K!Pings
<1> HIDE DEF K!IInv
<1> QED
  BY <1>1, <1>2, <1>3, <1>4, <1>5, <1>6, <1>7, <1>9, <1>10, <1>11 DEF K!Connection

-----------------------------------------------------------------------------
(* Okex.                                                                      *)

LEMMA OkexBegins ==
    ASSUME alive' \in BOOLEAN, O!Fresh
    PROVE  O!IInv'
<1>1. O!TypeOK'
  BY Bounds DEF O!Fresh, O!TypeOK, O!Operations, O!Places
<1>2. O!OnePending' /\ O!ListInv'
  BY DEF O!Fresh, O!OnePending, O!ListInv, O!SubscribedToLatest, O!Reads
<1>3. O!CountInv'
  BY DEF O!Fresh, O!CountInv, O!Weight, O!Places, O!Reads
<1> QED
  BY <1>1, <1>2, <1>3 DEF O!IInv

LEMMA OkexUntouched ==
    ASSUME O!IInv, alive' \in BOOLEAN, UNCHANGED okex
    PROVE  O!IInv'
  BY DEF okex, O!IInv, O!TypeOK, O!OnePending, O!CountInv, O!Weight, O!ListInv,
         O!SubscribedToLatest

(* Steps that move on to the next operation, or leave it at that, count the  *)
(* same connections and retries, or fewer.                                    *)
LEMMA OkexMovesOn ==
    ASSUME O!IInv, UNCHANGED <<asleep, doubled>>,
           oPending' = {} \/ \E op \in oPending, next \in O!Operations : oPending' = {next}
    PROVE  O!OnePending' /\ O!CountInv'
<1>1. O!Weight' = O!Weight /\ O!Weight \in Nat
  BY DEF O!IInv, O!TypeOK, O!Weight, O!Places, O!Reads
<1> QED
  BY <1>1 DEF O!IInv, O!TypeOK, O!OnePending, O!CountInv

LEMMA OkexStep == ASSUME O!IInv, O!Connection
                  PROVE  O!IInv'
<1> USE Bounds DEF O!IInv, O!Operations, O!Completes, O!Start, O!Become, O!data
<1>e. \A op \in oPending : oPending = {op}
  BY DEF O!OnePending
<1>a. asleep \in [O!Places -> Nat] /\ doubled \in 0 .. MaxDoubled
  BY DEF O!TypeOK
<1>1. CASE O!InstrumentsArrive \/ O!InstrumentsRejected
  <2>1. oPending' \in {{"resolve"}, {}} /\ "instruments" \in oPending
    BY <1>1, <1>e DEF O!InstrumentsArrive, O!InstrumentsRejected
  <2>2. UNCHANGED <<alive, asleep, oSending, oWs, oRequested, doubled>>
    BY <1>1 DEF O!InstrumentsArrive, O!InstrumentsRejected
  <2>3. oInstruments' \subseteq Instruments /\ listed' \subseteq Instruments
    BY <1>1 DEF O!InstrumentsArrive, O!InstrumentsRejected, O!OldCleared, O!TypeOK
  <2>4. oPending' = {"resolve"} => oInstruments' = listed'
    BY <1>1, <1>e DEF O!InstrumentsArrive, O!InstrumentsRejected, O!OldCleared
  <2>5. O!TypeOK'
    BY <2>1, <2>2, <2>3 DEF O!TypeOK
  <2>6. O!OnePending' /\ O!CountInv'
    BY <2>1, <2>2, OkexMovesOn
  <2>7. O!ListInv'
    BY <2>1, <2>2, <2>4 DEF O!ListInv, O!SubscribedToLatest, O!Reads
  <2> QED
    BY <2>5, <2>6, <2>7
<1>2. CASE O!Resolved \/ O!Connected \/ O!TlsDone \/ O!Upgraded \/ O!Written
           \/ O!ReadMessage \/ O!ReadAborted
  <2>1. \E op \in oPending, next \in O!Operations : oPending' \in {{}, {next}}
    BY <1>2, <1>e DEF O!Resolved, O!Connected, O!TlsDone, O!Upgraded, O!Written,
                      O!ReadMessage, O!ReadAborted
  <2>2. UNCHANGED <<alive, asleep, listed, doubled>>
    BY <1>2 DEF O!Resolved, O!Connected, O!TlsDone, O!Upgraded, O!Written,
                O!ReadMessage, O!ReadAborted
  <2>3. O!OnePending' /\ O!CountInv'
    BY <2>1, <2>2, OkexMovesOn
  <2>4. O!TypeOK'
    <3>1. oPending' \subseteq O!Operations
      BY <2>1
    <3>2. /\ oInstruments' \subseteq Instruments /\ oSending' \subseteq Instruments
          /\ oRequested' \subseteq Instruments /\ oWs' \in {"raw", "open"}
      BY <1>2 DEF O!Resolved, O!Connected, O!TlsDone, O!Upgraded, O!Written,
                  O!ReadMessage, O!ReadAborted, O!TypeOK
    <3> QED
      BY <2>2, <3>1, <3>2 DEF O!TypeOK
  <2>5. O!ListInv'
    BY <1>2, <1>e DEF O!Resolved, O!Connected, O!TlsDone, O!Upgraded, O!Written,
                      O!ReadMessage, O!ReadAborted, O!ListInv, O!SubscribedToLatest, O!Reads
  <2> QED
    BY <2>3, <2>4, <2>5
<1>3. CASE O!CloseFrame \/ \E op \in O!Operations : O!OperationFails(op)
  <2>1. PICK op \in oPending, k \in O!Places :
            /\ oPending' = oPending \ {op}
            /\ asleep' = [asleep EXCEPT ![k] = @ + 1]
            /\ doubled' = IF k = "first_read" THEN doubled + 1 ELSE doubled
            /\ k = "first_read" => doubled < MaxDoubled
    BY <1>3 DEF O!CloseFrame, O!OperationFails, O!Places, O!Reads
  <2>2. oPending = {op} /\ oPending' = {}
    BY <2>1, <1>e
  <2>3. UNCHANGED <<alive, oInstruments, oSending, oWs, listed, oRequested>>
    BY <1>3 DEF O!CloseFrame, O!OperationFails
  <2>4. O!TypeOK'
    <3>1. asleep' \in [O!Places -> Nat] /\ doubled' \in 0 .. MaxDoubled
      BY <2>1, <1>a
    <3> QED
      BY <2>2, <2>3, <3>1 DEF O!TypeOK
  <2>5. O!CountInv'
    <3>1. /\ asleep["handler"] \in Nat /\ asleep["first_read"] \in Nat
          /\ asleep["read"] \in Nat /\ doubled \in Nat
      BY <1>a DEF O!Places, O!Reads
    <3>2. 1 + O!Weight <= 1 + doubled
      BY <2>2 DEF O!CountInv
    <3>3. O!Weight' <= 1 + doubled'
      BY <2>1, <1>a, <3>1, <3>2 DEF O!Weight, O!Places, O!Reads
    <3> QED
      BY <2>2, <3>1, <3>3, <2>4 DEF O!CountInv, O!TypeOK, O!Weight, O!Places, O!Reads
  <2>6. O!OnePending' /\ O!ListInv'
    BY <2>2 DEF O!OnePending, O!ListInv, O!SubscribedToLatest
  <2> QED
    BY <2>4, <2>5, <2>6
<1>4. CASE O!DestroyedFaults
  <2>1. UNCHANGED okex /\ alive' \in BOOLEAN
    BY <1>4 DEF O!DestroyedFaults, okex
  <2> QED
    BY <2>1, OkexUntouched
<1>5. ASSUME NEW k \in O!Places, O!RetryBegins(k)
      PROVE  O!IInv'
  <2> DEFINE own == IF k \in O!FirstRetried THEN 1 ELSE 0
  <2>1. PICK left \in O!Left :
            asleep' = [j \in O!Places |->
                          asleep[j] - (IF j = k THEN 1 ELSE 0)
                                    + (IF j = "handler" THEN left + own ELSE 0)]
    BY <1>5 DEF O!RetryBegins
  <2>2. left \in {0, 1} /\ (oPending = {} => left = 0)
    BY <2>1 DEF O!Left, O!RetriesOf
  <2>3. /\ oPending' = {"instruments"} /\ oWs' = "raw" /\ oRequested' = {}
        /\ UNCHANGED <<alive, listed, doubled>> /\ asleep[k] > 0
        /\ oInstruments' \in {oInstruments, {}} /\ oSending' \in {oSending, oInstruments}
    BY <1>5 DEF O!RetryBegins
  <2>4. /\ asleep["handler"] \in Nat /\ asleep["first_read"] \in Nat
        /\ asleep["read"] \in Nat /\ doubled \in Nat /\ own \in {0, 1}
    BY <1>a DEF O!Places, O!Reads
  <2>5. asleep' \in [O!Places -> Nat] /\ O!Weight' <= O!Weight - 1 + left
    <3>1. CASE k = "handler"
      BY <3>1, <2>1, <2>2, <2>3, <2>4, <1>a DEF O!Weight, O!Places, O!Reads, O!FirstRetried
    <3>2. CASE k = "first_read"
      BY <3>2, <2>1, <2>2, <2>3, <2>4, <1>a DEF O!Weight, O!Places, O!Reads, O!FirstRetried
    <3>3. CASE k = "read"
      BY <3>3, <2>1, <2>2, <2>3, <2>4, <1>a DEF O!Weight, O!Places, O!Reads, O!FirstRetried
    <3> QED
      BY <3>1, <3>2, <3>3 DEF O!Places, O!Reads
  <2>6. O!CountInv'
    <3>1. O!Weight \in Nat /\ O!Weight' \in Nat
      BY <2>4, <2>5 DEF O!Weight, O!Places, O!Reads
    <3>2. left + O!Weight <= 1 + doubled
      BY <2>2, <2>4, <3>1 DEF O!CountInv
    <3>3. 1 + O!Weight' <= 1 + doubled'
      <4>1. \A w, v, d, l \in Nat : l + w <= 1 + d /\ v <= w - 1 + l => 1 + v <= 1 + d
        OBVIOUS
      <4>2. O!Weight' <= O!Weight - 1 + left /\ doubled' = doubled /\ doubled \in Nat
        BY <2>3, <2>4, <2>5
      <4> HIDE DEF own, O!IInv
      <4> QED
        BY <4>1, <4>2, <3>1, <3>2, <2>2
    <3> QED
      BY <2>3, <3>3 DEF O!CountInv
  <2>7. O!TypeOK'
    BY <2>3, <2>5 DEF O!TypeOK
  <2>8. O!OnePending' /\ O!ListInv'
    BY <2>3 DEF O!OnePending, O!ListInv, O!SubscribedToLatest, O!Reads
  <2> QED
    BY <2>6, <2>7, <2>8
<1> HIDE DEF O!IInv
<1> QED
  BY <1>1, <1>2, <1>3, <1>4, <1>5 DEF O!Connection

-----------------------------------------------------------------------------
(* Binance.                                                                   *)

LEMMA BinanceBegins ==
    ASSUME alive' \in BOOLEAN, B!Fresh
    PROVE  B!IInv'
  BY DEF B!Fresh, B!IInv, B!TypeOK, B!ChainInv, B!Operations, B!NeedWebsocket

LEMMA BinanceUntouched ==
    ASSUME B!IInv, alive' \in BOOLEAN, UNCHANGED binance
    PROVE  B!IInv'
  BY DEF binance, B!IInv, B!TypeOK, B!ChainInv

LEMMA BinanceStep == ASSUME B!IInv, B!Connection
                     PROVE  B!IInv'
<1> USE DEF B!IInv, B!TypeOK, B!ChainInv, B!Operations, B!NeedWebsocket,
            B!Completes, B!Start, B!Become
<1>1. CASE B!InstrumentsArrive \/ B!Resolved \/ B!Connected \/ B!TlsDone \/ B!Upgraded
  BY <1>1 DEF B!InstrumentsArrive, B!Resolved, B!Connected, B!TlsDone, B!Upgraded
<1>2. ASSUME NEW op \in {"instruments", "resolve", "connect", "tls", "upgrade"},
             B!SetupFails(op)
      PROVE  B!IInv'
  BY <1>2 DEF B!SetupFails
<1>3. CASE B!ReadMessage
  BY <1>3 DEF B!ReadMessage, B!vars
<1>4. CASE B!ReadFails \/ B!CloseFrame
  BY <1>4 DEF B!ReadFails, B!CloseFrame, B!Lost
<1>5. CASE B!ReadAborted \/ B!AbortedReadEnds \/ B!DestroyedFaults
  BY <1>5 DEF B!ReadAborted, B!AbortedReadEnds, B!LeavesIt, B!DestroyedFaults
<1> HIDE DEF B!IInv
<1> QED
  BY <1>1, <1>2, <1>3, <1>4, <1>5 DEF B!Connection

-----------------------------------------------------------------------------
(* The process.                                                               *)

LEMMA InitIInv == Init => IInv
<1> SUFFICES ASSUME Init
             PROVE  IInv
  OBVIOUS
<1>1. K!IInv
  <2>1. K!TypeOK
    <3>1. kInstruments \in 0 .. MaxInstruments /\ tokenCounter \in 0 .. MaxInstruments
      BY Bounds DEF Init, K!Init
    <3> QED
      BY <3>1 DEF Init, K!Init, K!TypeOK, K!Operations
  <2>2. K!OneOperation /\ K!CountInv
    BY DEF Init, K!Init, K!OneOperation, K!CountInv, K!CounterInRange
  <2> QED
    BY <2>1, <2>2 DEF K!IInv
<1>2. O!IInv
  <2>1. O!TypeOK
    BY Bounds DEF Init, O!Init, O!TypeOK, O!Operations, O!Places
  <2>2. O!OnePending /\ O!ListInv
    BY DEF Init, O!Init, O!OnePending, O!ListInv, O!SubscribedToLatest, O!Reads
  <2>3. O!CountInv
    BY DEF Init, O!Init, O!CountInv, O!Weight, O!Places, O!Reads
  <2> QED
    BY <2>1, <2>2, <2>3 DEF O!IInv
<1>3. B!IInv
  BY DEF Init, B!Init, B!IInv, B!TypeOK, B!ChainInv, B!Operations, B!NeedWebsocket
<1> QED
  BY <1>1, <1>2, <1>3 DEF IInv

LEMMA StepIInv == ASSUME IInv, [Next]_vars
                  PROVE  IInv'
<1> USE DEF IInv
<1>l. K!IInv' \/ O!IInv' \/ B!IInv' => alive' \in BOOLEAN
  BY DEF K!IInv, K!TypeOK, O!IInv, O!TypeOK, B!IInv, B!TypeOK
<1>b. O!Fresh /\ alive' \in BOOLEAN => O!IInv'
  BY OkexBegins
<1>c. B!Fresh /\ alive' \in BOOLEAN => B!IInv'
  BY BinanceBegins
<1>d. K!Fresh /\ alive' \in BOOLEAN => K!IInv'
  <2> SUFFICES ASSUME K!Fresh, alive' \in BOOLEAN
               PROVE  K!IInv'
    OBVIOUS
  <2>1. kind' = kind /\ kind \in {"spot", "futures"}
    BY DEF K!Fresh, K!IInv, K!TypeOK
  <2> QED
    BY <2>1, KucoinBegins DEF K!Fresh
<1>1. CASE KucoinHandler
  BY <1>1, <1>l, <1>b, <1>c, KucoinStep, OkexUntouched, BinanceUntouched DEF KucoinHandler
<1>2. CASE OkexHandler
  BY <1>2, <1>l, <1>c, <1>d, OkexStep, KucoinUntouched, BinanceUntouched DEF OkexHandler
<1>3. CASE BinanceHandler
  BY <1>3, <1>l, <1>b, <1>d, BinanceStep, KucoinUntouched, OkexUntouched DEF BinanceHandler
<1>4. CASE ProcessRestarts
  <2>1. alive' \in BOOLEAN /\ K!Fresh /\ O!Fresh /\ B!Fresh
    BY <1>4 DEF ProcessRestarts, K!Reborn, O!Reborn, B!Reborn
  <2> QED
    BY <2>1, <1>b, <1>c, <1>d
<1>5. CASE UNCHANGED vars
  <2>1. alive' \in BOOLEAN
    BY <1>5 DEF vars, K!IInv, K!TypeOK
  <2> QED
    BY <1>5, <2>1, KucoinUntouched, OkexUntouched, BinanceUntouched DEF vars
<1> QED
  BY <1>1, <1>2, <1>3, <1>4, <1>5 DEF Next

(* Every stream keeps its invariant through the handlers of the others and    *)
(* the ends of the process.                                                   *)
THEOREM Invariance == Spec => []IInv
<1> QED
  BY InitIInv, StepIInv, PTL DEF Spec

(* Every variable stays in its type: m_tokenCounter and the numbers of the    *)
(* instruments that are asked for stay within the longest list.               *)
THEOREM TypeCorrect == Spec => []TypeOK
<1>1. IInv => TypeOK
  BY DEF IInv, K!IInv, O!IInv, B!IInv, TypeOK
<1> QED
  BY <1>1, Invariance, PTL

(* A kucoin stream that takes itself to be subscribed and reads has asked     *)
(* this connection for every instrument it knows, whatever the size of a      *)
(* batch and the length of the list, and whatever was retried before.         *)
THEOREM SubscriptionsAreComplete == Spec => []AllSubscribed
<1>1. IInv => AllSubscribed
  BY DEF IInv, K!IInv, K!CountInv, AllSubscribed, K!AllSubscribed
<1> QED
  BY <1>1, Invariance, PTL

(* The counter of a kucoin stream never passes the end of its list, so that   *)
(* the subtraction in size_t cannot wrap around.                              *)
THEOREM CounterStaysInRange == Spec => []CounterInRange
<1>1. IInv => CounterInRange
  BY DEF IInv, K!IInv, K!CountInv, CounterInRange
<1> QED
  BY <1>1, Invariance, PTL

(* An okex connection that is read was subscribed to the last list fetched.   *)
THEOREM LatestListIsUsed == Spec => []SubscribedToLatest
<1>1. IInv => SubscribedToLatest
  BY DEF IInv, O!IInv, O!ListInv, SubscribedToLatest
<1> QED
  BY <1>1, Invariance, PTL

(* The modules of the streams count as this one does.                         *)
LEMMA AtMostOne == ASSUME NEW S, \A a, b \in S : a = b
                   PROVE  Cardinality(S) = IF S = {} THEN 0 ELSE 1
<1>1. CASE S = {}
  BY <1>1, FS_EmptySet
<1>2. CASE S # {}
  <2>1. PICK x \in S : S = {x}
    BY <1>2
  <2> QED
    BY <1>2, <2>1, FS_Singleton
<1> QED
  BY <1>1, <1>2

LEMMA SameCardinality == ASSUME NEW S
                         PROVE  /\ O!Cardinality(S) = Cardinality(S)
                                /\ B!Cardinality(S) = Cardinality(S)
  BY DEF O!Cardinality, B!Cardinality, Cardinality

(* However retries of a control callback, of the read it interrupts and of a  *)
(* request meet, those of okex are no more than one and one for each close    *)
(* frame in a first read, and one connection of binance is under way, whose   *)
(* handlers find the websocket they use without a test.                       *)
THEOREM RetriesDoNotMultiply == Spec => []ChainsCounted
<1>1. IInv => O!RetriesAccounted
  <2> SUFFICES ASSUME IInv
               PROVE  O!RetriesAccounted
    OBVIOUS
  <2>1. O!Cardinality(oPending) = IF oPending = {} THEN 0 ELSE 1
    BY AtMostOne, SameCardinality DEF IInv, O!IInv, O!OnePending
  <2>2. /\ asleep["handler"] \in Nat /\ asleep["first_read"] \in Nat
        /\ asleep["read"] \in Nat /\ doubled \in Nat
    BY Bounds DEF IInv, O!IInv, O!TypeOK, O!Places, O!Reads
  <2> QED
    BY <2>1, <2>2 DEF IInv, O!IInv, O!CountInv, O!Weight, O!RetriesAccounted
<1>2. IInv => B!OneChain
  BY AtMostOne, SameCardinality DEF IInv, B!IInv, B!ChainInv, B!OneChain
<1> QED
  BY <1>1, <1>2, Invariance, PTL DEF ChainsCounted
=============================================================================
