--------------------------- MODULE TimeTasksProofs ---------------------------
(* Proofs that every safety property of TimeTasks holds for all sets of       *)
(* tokens, keys and watchers and all bounds, and that it implements           *)
(* PriceReports.                                                              *)
EXTENDS TimeTasks, TLAPS

(* The initial state.                                                         *)
LEMMA InitIInv == Init => IInv
<1> SUFFICES ASSUME Init
             PROVE  IInv
  OBVIOUS
<1> USE DEF Init
<1>1. TypeOK
  BY DEF TypeOK, NoPrices
<1>2. \A w \in Watchers : LateInv(w)
  BY NoneAssumption DEF LateInv
<1>3. FetchInv /\ ReportComing
  BY DEF FetchInv, ReportComing
<1>4. OrderInv
  BY DEF OrderInv, Follows, NoPrices
<1> QED
  BY <1>1, <1>2, <1>3, <1>4 DEF IInv

(* A price of a token in the instrument set is a natural number.              *)
LEMMA NoPricesType == NoPrices \in [Tokens -> Nat]
  BY DEF NoPrices

(* Every variable keeps its type.                                             *)
LEMMA StepTypeOK ==
    ASSUME TypeOK, FetchInv, [Next]_vars
    PROVE  TypeOK'
<1> USE NoPricesType DEF TypeOK
<1>1. ASSUME NEW t \in Tokens, PriceReceived(t)
      PROVE  TypeOK'
  BY <1>1 DEF PriceReceived
<1>2. ASSUME NEW w \in Watchers, NEW key \in Keys, NEW T \in SUBSET Tokens,
                ScheduleTask(w, key, T)
      PROVE  TypeOK'
  BY <1>2 DEF ScheduleTask, Task
<1>3. ASSUME NEW key \in Keys, RemoveTasks(key)
      PROVE  TypeOK'
  BY <1>3 DEF RemoveTasks
<1>4. ASSUME NEW w \in Watchers, RemoveWatcher(w)
      PROVE  TypeOK'
  BY <1>4 DEF RemoveWatcher
<1>5. CASE RemoveDone
  BY <1>5 DEF RemoveDone
<1>6. CASE IoStart
  BY <1>6 DEF IoStart
<1>7. CASE IoExit
  BY <1>7 DEF IoExit
<1>8. ASSUME NEW w \in Watchers, TimerExpires(w)
      PROVE  TypeOK'
  BY <1>8 DEF TimerExpires
<1>9. ASSUME NEW w \in Watchers, HandleAborted(w)
      PROVE  TypeOK'
  BY <1>9 DEF HandleAborted
<1>10. ASSUME NEW w \in Watchers, FetchPrices(w)
      PROVE  TypeOK'
  <2>1. prices' \in [Tokens -> Nat]
    BY <1>10 DEF FetchPrices
  <2> QED
    BY <1>10, <2>1 DEF FetchPrices
<1>11. CASE FinishFetch
  <2>1. fetching \in Watchers
    BY <1>11 DEF FinishFetch, FetchInv
  <2>2. prices # NoPrices => [watcher |-> fetching, seen |-> prices] \in Result
    BY <2>1 DEF Result
  <2>3. queue' \in Seq(Result)
    BY <1>11, <2>2 DEF FinishFetch, Queued, Report
  <2> QED
    BY <1>11, <2>3 DEF FinishFetch
<1>12. CASE NextTimer
  BY <1>12 DEF NextTimer
<1>13. CASE TakeResult
  BY <1>13 DEF TakeResult
<1>14. CASE SendResult
  <2>1. shown' \in [Tokens -> Nat]
    BY <1>14 DEF SendResult, ShownAfter, Result
  <2> QED
    BY <1>14, <2>1 DEF SendResult
<1>15. CASE SendFails
  <2>1. shown' \in [Tokens -> Nat]
    BY <1>15 DEF SendFails, ShownAfter, Result
  <2> QED
    BY <1>15, <2>1 DEF SendFails, Terminated
<1>16. CASE DestroyedTimerFaults
  BY <1>16 DEF DestroyedTimerFaults, Terminated
<1>17. CASE UNCHANGED vars
  BY <1>17 DEF vars
<1> QED
  BY <1>1, <1>2, <1>3, <1>4, <1>5, <1>6, <1>7, <1>8, <1>9,
     <1>10, <1>11, <1>12, <1>13, <1>14, <1>15, <1>16, <1>17
     DEF Next, Feed, DBus, Io, Sender

(* fetch_prices runs for a watcher, or for none.                              *)
LEMMA StepFetchInv ==
    ASSUME TypeOK, FetchInv, [Next]_vars
    PROVE  FetchInv'
<1> USE NoneAssumption DEF TypeOK, FetchInv
<1>1. ASSUME NEW t \in Tokens, PriceReceived(t)
      PROVE  FetchInv'
  BY <1>1 DEF PriceReceived
<1>2. ASSUME NEW w \in Watchers, NEW key \in Keys, NEW T \in SUBSET Tokens,
                ScheduleTask(w, key, T)
      PROVE  FetchInv'
  BY <1>2 DEF ScheduleTask
<1>3. ASSUME NEW key \in Keys, RemoveTasks(key)
      PROVE  FetchInv'
  BY <1>3 DEF RemoveTasks
<1>4. ASSUME NEW w \in Watchers, RemoveWatcher(w)
      PROVE  FetchInv'
  BY <1>4 DEF RemoveWatcher
<1>5. CASE RemoveDone
  BY <1>5 DEF RemoveDone
<1>6. CASE IoStart
  BY <1>6 DEF IoStart
<1>7. CASE IoExit
  BY <1>7 DEF IoExit
<1>8. ASSUME NEW w \in Watchers, TimerExpires(w)
      PROVE  FetchInv'
  BY <1>8 DEF TimerExpires
<1>9. ASSUME NEW w \in Watchers, HandleAborted(w)
      PROVE  FetchInv'
  BY <1>9 DEF HandleAborted
<1>10. ASSUME NEW w \in Watchers, FetchPrices(w)
      PROVE  FetchInv'
  BY <1>10 DEF FetchPrices
<1>11. CASE FinishFetch
  BY <1>11 DEF FinishFetch, Rearms
<1>12. CASE NextTimer
  BY <1>12 DEF NextTimer
<1>13. CASE TakeResult
  BY <1>13 DEF TakeResult
<1>14. CASE SendResult
  BY <1>14 DEF SendResult
<1>15. CASE SendFails
  BY <1>15 DEF SendFails, Terminated
<1>16. CASE DestroyedTimerFaults
  BY <1>16 DEF DestroyedTimerFaults, Terminated
<1>17. CASE UNCHANGED vars
  BY <1>17 DEF vars
<1> QED
  BY <1>1, <1>2, <1>3, <1>4, <1>5, <1>6, <1>7, <1>8, <1>9,
     <1>10, <1>11, <1>12, <1>13, <1>14, <1>15, <1>16, <1>17
     DEF Next, Feed, DBus, Io, Sender

(* The budget of late fetches.                                                *)
LEMMA StepLateInv ==
    ASSUME TypeOK, FetchInv, \A w \in Watchers : LateInv(w), [Next]_vars
    PROVE  \A w \in Watchers : LateInv(w)'
<1> SUFFICES ASSUME NEW v \in Watchers
             PROVE  LateInv(v)'
  OBVIOUS
<1> USE NoneAssumption DEF TypeOK, FetchInv, LateInv
<1>1. ASSUME NEW t \in Tokens, PriceReceived(t)
      PROVE  LateInv(v)'
  BY <1>1 DEF PriceReceived
<1>2. ASSUME NEW w \in Watchers, NEW key \in Keys, NEW T \in SUBSET Tokens,
                ScheduleTask(w, key, T)
      PROVE  LateInv(v)'
  BY <1>2 DEF ScheduleTask, Task
<1>3. ASSUME NEW key \in Keys, RemoveTasks(key)
      PROVE  LateInv(v)'
  BY <1>3 DEF RemoveTasks
<1>4. ASSUME NEW w \in Watchers, RemoveWatcher(w)
      PROVE  LateInv(v)'
  BY <1>4 DEF RemoveWatcher
<1>5. CASE RemoveDone
  BY <1>5 DEF RemoveDone
<1>6. CASE IoStart
  BY <1>6 DEF IoStart
<1>7. CASE IoExit
  BY <1>7 DEF IoExit
<1>8. ASSUME NEW w \in Watchers, TimerExpires(w)
      PROVE  LateInv(v)'
  BY <1>8 DEF TimerExpires
<1>9. ASSUME NEW w \in Watchers, HandleAborted(w)
      PROVE  LateInv(v)'
  BY <1>9 DEF HandleAborted
<1>10. ASSUME NEW w \in Watchers, FetchPrices(w)
      PROVE  LateInv(v)'
  BY <1>10 DEF FetchPrices
<1>11. CASE FinishFetch
  BY <1>11 DEF FinishFetch, Rearms
<1>12. CASE NextTimer
  BY <1>12 DEF NextTimer
<1>13. CASE TakeResult
  BY <1>13 DEF TakeResult
<1>14. CASE SendResult
  BY <1>14 DEF SendResult
<1>15. CASE SendFails
  BY <1>15 DEF SendFails, Terminated
<1>16. CASE DestroyedTimerFaults
  BY <1>16 DEF DestroyedTimerFaults, Terminated
<1>17. CASE UNCHANGED vars
  BY <1>17 DEF vars
<1> QED
  BY <1>1, <1>2, <1>3, <1>4, <1>5, <1>6, <1>7, <1>8, <1>9,
     <1>10, <1>11, <1>12, <1>13, <1>14, <1>15, <1>16, <1>17
     DEF Next, Feed, DBus, Io, Sender

(* No watcher in the registry is forgotten.                                   *)
LEMMA StepReportComing ==
    ASSUME TypeOK, FetchInv, ReportComing, \A w \in Watchers : LateInv(w), [Next]_vars
    PROVE  ReportComing'
<1> USE NoneAssumption DEF TypeOK, FetchInv, ReportComing, LateInv
<1>1. ASSUME NEW t \in Tokens, PriceReceived(t)
      PROVE  ReportComing'
  BY <1>1 DEF PriceReceived
<1>2. ASSUME NEW w \in Watchers, NEW key \in Keys, NEW T \in SUBSET Tokens,
                ScheduleTask(w, key, T)
      PROVE  ReportComing'
  BY <1>2 DEF ScheduleTask
<1>3. ASSUME NEW key \in Keys, RemoveTasks(key)
      PROVE  ReportComing'
  BY <1>3 DEF RemoveTasks
<1>4. ASSUME NEW w \in Watchers, RemoveWatcher(w)
      PROVE  ReportComing'
  BY <1>4 DEF RemoveWatcher
<1>5. CASE RemoveDone
  BY <1>5 DEF RemoveDone
<1>6. CASE IoStart
  BY <1>6 DEF IoStart
<1>7. CASE IoExit
  BY <1>7 DEF IoExit
<1>8. ASSUME NEW w \in Watchers, TimerExpires(w)
      PROVE  ReportComing'
  BY <1>8 DEF TimerExpires
<1>9. ASSUME NEW w \in Watchers, HandleAborted(w)
      PROVE  ReportComing'
  BY <1>9 DEF HandleAborted
<1>10. ASSUME NEW w \in Watchers, FetchPrices(w)
      PROVE  ReportComing'
  BY <1>10 DEF FetchPrices
<1>11. CASE FinishFetch
  BY <1>11 DEF FinishFetch, Rearms
<1>12. CASE NextTimer
  BY <1>12 DEF NextTimer
<1>13. CASE TakeResult
  BY <1>13 DEF TakeResult
<1>14. CASE SendResult
  BY <1>14 DEF SendResult
<1>15. CASE SendFails
  BY <1>15 DEF SendFails, Terminated
<1>16. CASE DestroyedTimerFaults
  BY <1>16 DEF DestroyedTimerFaults, Terminated
<1>17. CASE UNCHANGED vars
  BY <1>17 DEF vars
<1> QED
  BY <1>1, <1>2, <1>3, <1>4, <1>5, <1>6, <1>7, <1>8, <1>9,
     <1>10, <1>11, <1>12, <1>13, <1>14, <1>15, <1>16, <1>17
     DEF Next, Feed, DBus, Io, Sender

(* What results say of prices.                                                *)
LEMMA SeenType ==
    ASSUME TypeOK
    PROVE  /\ \A i \in DOMAIN queue : queue[i].seen \in [Tokens -> Nat]
           /\ flight # None => flight.seen \in [Tokens -> Nat]
<1>1. \A result \in Result : result.seen \in [Tokens -> Nat]
  BY DEF Result
<1>2. \A i \in DOMAIN queue : queue[i] \in Result
  BY DEF TypeOK
<1> QED
  BY <1>1, <1>2 DEF TypeOK

(* Prices stay in the order of their age on their way to the user.            *)
LEMMA StepOrderInv ==
    ASSUME TypeOK, FetchInv, OrderInv, [Next]_vars
    PROVE  OrderInv'
<1> USE NoneAssumption DEF TypeOK, FetchInv, OrderInv, Follows
<1>1. ASSUME NEW t \in Tokens, PriceReceived(t)
      PROVE  OrderInv'
  <2>1. \A u \in Tokens : instruments'[u] = IF u = t THEN ticks + 1 ELSE instruments[u]
    BY <1>1 DEF PriceReceived
  <2> QED
    BY <1>1, <2>1, SeenType DEF PriceReceived
<1>2. ASSUME NEW w \in Watchers, NEW key \in Keys, NEW T \in SUBSET Tokens,
                ScheduleTask(w, key, T)
      PROVE  OrderInv'
  BY <1>2 DEF ScheduleTask
<1>3. ASSUME NEW key \in Keys, RemoveTasks(key)
      PROVE  OrderInv'
  BY <1>3 DEF RemoveTasks
<1>4. ASSUME NEW w \in Watchers, RemoveWatcher(w)
      PROVE  OrderInv'
  BY <1>4 DEF RemoveWatcher
<1>5. CASE RemoveDone
  BY <1>5 DEF RemoveDone
<1>6. CASE IoStart
  BY <1>6 DEF IoStart
<1>7. CASE IoExit
  BY <1>7 DEF IoExit
<1>8. ASSUME NEW w \in Watchers, TimerExpires(w)
      PROVE  OrderInv'
  BY <1>8 DEF TimerExpires
<1>9. ASSUME NEW w \in Watchers, HandleAborted(w)
      PROVE  OrderInv'
  BY <1>9 DEF HandleAborted
<1>10. ASSUME NEW w \in Watchers, FetchPrices(w)
      PROVE  OrderInv'
  BY <1>10 DEF FetchPrices
<1>11. CASE FinishFetch
  <2> DEFINE r == [watcher |-> fetching, seen |-> prices]
  <2>1. CASE prices = NoPrices
    BY <1>11, <2>1 DEF FinishFetch, Queued, Report
  <2>2. CASE prices # NoPrices
    <3>1. r \in Result
      BY <1>11, <2>2 DEF FinishFetch, Result
    <3>2. /\ DOMAIN queue' = DOMAIN queue \cup {Len(queue) + 1}
          /\ \A i \in DOMAIN queue : queue'[i] = queue[i]
          /\ queue'[Len(queue) + 1] = r
      BY <1>11, <2>2, <3>1 DEF FinishFetch, Queued, Report
    <3>3. \A i \in DOMAIN queue : ~(Len(queue) + 1 < i)
      OBVIOUS
    <3>4. prices' = NoPrices /\ flight' = flight /\ shown' = shown
          /\ ticks' = ticks /\ instruments' = instruments
      BY <1>11 DEF FinishFetch
    <3>5. r.seen = prices
      OBVIOUS
    <3> HIDE DEF r
    <3> QED
      BY <3>2, <3>3, <3>4, <3>5 DEF NoPrices
  <2> QED
    BY <2>1, <2>2
<1>12. CASE NextTimer
  BY <1>12 DEF NextTimer
<1>13. CASE TakeResult
  <2>1. Head(queue) = queue[1] /\ 1 \in DOMAIN queue
    BY <1>13 DEF TakeResult
  <2>2. \A i \in DOMAIN Tail(queue) :
           i + 1 \in DOMAIN queue /\ 1 < i + 1 /\ Tail(queue)[i] = queue[i + 1]
    BY <1>13 DEF TakeResult
  <2>3. \A i, j \in DOMAIN Tail(queue) : i < j => i + 1 < j + 1
    BY <1>13 DEF TakeResult
  <2> QED
    BY <1>13, <2>1, <2>2, <2>3 DEF TakeResult
<1>14. CASE SendResult
  <2> SUFFICES ASSUME NEW t \in Tokens
               PROVE  /\ shown'[t] <= ticks
                      /\ Follows(t, shown', instruments)
                      /\ Follows(t, shown', prices)
                      /\ \A i \in DOMAIN queue : Follows(t, shown', queue[i].seen)
    BY <1>14 DEF SendResult
  <2>1. flight.seen[t] \in Nat /\ shown[t] \in Nat
    BY <1>14, SeenType DEF SendResult
  <2>2. shown'[t] = IF flight.seen[t] = 0 THEN shown[t] ELSE flight.seen[t]
    BY <1>14 DEF SendResult, ShownAfter
  <2>3. /\ flight.seen[t] <= ticks
        /\ Follows(t, flight.seen, instruments)
        /\ Follows(t, flight.seen, prices)
        /\ \A i \in DOMAIN queue : Follows(t, flight.seen, queue[i].seen)
    BY <1>14, <2>1 DEF SendResult
  <2> QED
    BY <2>1, <2>2, <2>3
<1>15. CASE SendFails
  <2>1. \A t \in Tokens : flight.seen[t] \in Nat /\ flight.seen[t] <= instruments[t]
    BY <1>15, SeenType DEF SendFails
  <2>2. \A t \in Tokens : shown'[t] <= ticks
    <3>1. CASE shown' = shown
      BY <3>1
    <3>2. CASE shown' = ShownAfter(flight)
      BY <2>1, <3>2 DEF ShownAfter
    <3> QED
      BY <1>15, <3>1, <3>2 DEF SendFails
  <2> QED
    BY <1>15, <2>2 DEF SendFails, Terminated, NoPrices
<1>16. CASE DestroyedTimerFaults
  BY <1>16 DEF DestroyedTimerFaults, Terminated
<1>17. CASE UNCHANGED vars
  BY <1>17 DEF vars
<1> QED
  BY <1>1, <1>2, <1>3, <1>4, <1>5, <1>6, <1>7, <1>8, <1>9,
     <1>10, <1>11, <1>12, <1>13, <1>14, <1>15, <1>16, <1>17
     DEF Next, Feed, DBus, Io, Sender

(* The inductive invariant holds in every reachable state.                    *)
THEOREM Invariance == Spec => []IInv
<1>1. IInv /\ [Next]_vars => IInv'
  BY StepTypeOK, StepFetchInv, StepLateInv, StepReportComing, StepOrderInv DEF IInv
<1> QED
  BY InitIInv, <1>1, PTL DEF Spec

(* All variables of time_tasks keep their types.                              *)
THEOREM TypeCorrect == Spec => []TypeOK
<1>1. IInv => TypeOK
  BY DEF IInv
<1> QED
  BY Invariance, <1>1, PTL

(* A removed watcher runs fetch_prices at most once more, even when stop()    *)
(* destroys the timer next_timer is about to use.                             *)
THEOREM RemovalTakesHold == Spec => []OneLateFetch
<1>1. IInv => OneLateFetch
  BY DEF IInv, LateInv, OneLateFetch
<1> QED
  BY Invariance, <1>1, PTL

(* A task that is listed is fetching its prices or will.                      *)
THEOREM TasksStayArmed == Spec => []ReportComing
<1>1. IInv => ReportComing
  BY DEF IInv
<1> QED
  BY Invariance, <1>1, PTL

(* No user is shown an older price of a token after a newer one, whatever the *)
(* tasks the two come from, and over restarts of the process.                 *)
THEOREM PricesNeverGoBack == Spec => PricesMoveForward
<1>1. IInv /\ [Next]_vars => [\A t \in Tokens : shown'[t] >= shown[t]]_vars
  <2> SUFFICES ASSUME TypeOK, OrderInv, Next, NEW t \in Tokens
               PROVE  shown'[t] >= shown[t]
    BY DEF IInv
  <2>1. shown' = shown \/ (flight # None /\ shown' = ShownAfter(flight))
    BY DEF Next, Feed, DBus, Io, Sender, PriceReceived, ScheduleTask, RemoveTasks,
           RemoveWatcher, RemoveDone, IoStart, IoExit, TimerExpires, HandleAborted,
           FetchPrices, FinishFetch, NextTimer, TakeResult, SendResult, SendFails,
           DestroyedTimerFaults
  <2>2. CASE shown' = shown
    BY <2>2 DEF TypeOK
  <2>3. CASE flight # None /\ shown' = ShownAfter(flight)
    <3>1. flight.seen \in [Tokens -> Nat] /\ Follows(t, shown, flight.seen)
      BY <2>3 DEF TypeOK, OrderInv, Result
    <3> QED
      BY <2>3, <3>1 DEF ShownAfter, Follows, TypeOK
  <2> QED
    BY <2>1, <2>2, <2>3
<1> QED
  BY Invariance, <1>1, PTL DEF Spec, PricesMoveForward

-----------------------------------------------------------------------------
(* The refinement: every step of TimeTasks is a step of PriceReports, or      *)
(* none, under the mapping in TimeTasks.                                      *)
Phase == [w \in Watchers |-> PhaseOf(w)]
Watched == [w \in Watchers |-> IF task[w] = None THEN {} ELSE task[w].tokens]
Outbox == Sending \o queue \o Fetched

LEMMA PhaseChange ==
    ASSUME NEW w \in Watchers, NEW p, PhaseOf(w)' = p,
           \A u \in Watchers \ {w} : PhaseOf(u)' = PhaseOf(u)
    PROVE  Phase' = [Phase EXCEPT ![w] = p]
<1>1. Phase' = [u \in Watchers |-> PhaseOf(u)']
  BY DEF Phase
<1> QED
  BY <1>1 DEF Phase

LEMMA PhaseSame ==
    ASSUME \A u \in Watchers : PhaseOf(u)' = PhaseOf(u)
    PROVE  Phase' = Phase
<1>1. Phase' = [u \in Watchers |-> PhaseOf(u)']
  BY DEF Phase
<1> QED
  BY <1>1 DEF Phase

LEMMA WatchedSame == task' = task => Watched' = Watched
  BY DEF Watched

LEMMA OutboxSame ==
    ASSUME UNCHANGED <<queue, flight, prices, fetching>>
    PROVE  Outbox' = Outbox
  BY DEF Outbox, Sending, Fetched

(* The mapping by its names.                                                  *)
LEMMA MappedVars ==
    ASSUME UNCHANGED <<Phase, Watched, ticks, instruments, Outbox, shown>>
    PROVE  UNCHANGED Reports!vars
  BY DEF Reports!vars, Phase, Watched, Outbox

(* What the outbox is put together from.                                      *)
LEMMA OutboxParts ==
    ASSUME TypeOK, FetchInv
    PROVE  /\ queue \in Seq(Result) /\ Sending \in Seq(Result) /\ Fetched \in Seq(Result)
           /\ Sending \o queue \in Seq(Result) /\ Outbox \in Seq(Result)
           /\ prices = NoPrices => Outbox = Sending \o queue
<1>1. queue \in Seq(Result) /\ Sending \in Seq(Result)
  BY DEF TypeOK, Sending
<1>2. prices # NoPrices => [watcher |-> fetching, seen |-> prices] \in Result
  BY NoneAssumption DEF TypeOK, FetchInv, Result
<1>3. Fetched \in Seq(Result)
  BY <1>2 DEF Fetched
<1>4. Sending \o queue \in Seq(Result)
  BY <1>1
<1>5. Outbox \in Seq(Result)
  BY <1>3, <1>4 DEF Outbox
<1>6. prices = NoPrices => Outbox = Sending \o queue
  BY <1>4 DEF Outbox, Fetched
<1> QED
  BY <1>1, <1>3, <1>4, <1>5, <1>6

(* Steps the service does not see.                                            *)
Unseen ==
    \/ \E key \in Keys : RemoveTasks(key)
    \/ RemoveDone \/ IoStart \/ IoExit \/ FinishFetch \/ NextTimer \/ TakeResult
    \/ \E w \in Watchers : TimerExpires(w) \/ HandleAborted(w)

LEMMA StepUnseen ==
    ASSUME IInv, Unseen
    PROVE  UNCHANGED Reports!vars
<1>1. TypeOK /\ FetchInv /\ \A w \in Watchers : LateInv(w)
  BY DEF IInv
<1>2. \A u \in Watchers : PhaseOf(u)' = PhaseOf(u)
  <2> USE DEF PhaseOf
  <2>1. CASE (\E key \in Keys : RemoveTasks(key)) \/ RemoveDone \/ TakeResult
    BY <2>1 DEF RemoveTasks, RemoveDone, TakeResult
  <2>2. CASE IoStart \/ IoExit
    BY <2>2 DEF IoStart, IoExit
  <2>3. CASE NextTimer
    BY <1>1, <2>3, NoneAssumption DEF NextTimer, TypeOK, FetchInv
  <2>4. CASE FinishFetch
    BY <1>1, <2>4, NoneAssumption DEF FinishFetch, Rearms, LateInv, FetchInv
  <2>5. ASSUME NEW w \in Watchers, TimerExpires(w) \/ HandleAborted(w)
        PROVE  \A u \in Watchers : PhaseOf(u)' = PhaseOf(u)
    BY <1>1, <2>5 DEF TimerExpires, HandleAborted, TypeOK
  <2> QED
    BY <2>1, <2>2, <2>3, <2>4, <2>5 DEF Unseen
<1>3. UNCHANGED <<task, ticks, instruments, shown>>
  BY DEF Unseen, RemoveTasks, RemoveDone, IoStart, IoExit, FinishFetch, NextTimer,
         TakeResult, TimerExpires, HandleAborted
<1>4. Outbox' = Outbox
  <2>1. CASE TakeResult
    <3>1. /\ queue # << >> /\ flight = None
          /\ flight' = Head(queue) /\ queue' = Tail(queue)
          /\ UNCHANGED <<prices, fetching>>
      BY <2>1 DEF TakeResult
    <3>2. Head(queue) \in Result /\ <<Head(queue)>> \o Tail(queue) = queue
      BY <1>1, <3>1 DEF TypeOK
    <3>3. Sending' = <<Head(queue)>> /\ Sending = << >>
      BY <3>1, <3>2, NoneAssumption DEF Sending
    <3>4. Sending' \o queue' = Sending \o queue
      BY <1>1, <3>1, <3>2, <3>3 DEF TypeOK
    <3>5. Fetched' = Fetched
      BY <3>1 DEF Fetched
    <3> QED
      BY <3>4, <3>5 DEF Outbox
  <2>2. CASE FinishFetch
    <3>1. queue' = queue \o Fetched /\ prices' = NoPrices /\ Sending' = Sending
      BY <2>2 DEF FinishFetch, Queued, Report, Fetched, Sending
    <3>2. Fetched' = << >>
      BY <3>1 DEF Fetched, NoPrices
    <3>3. (Sending \o queue) \o Fetched = Sending \o (queue \o Fetched)
      BY <1>1, OutboxParts
    <3>4. Sending \o (queue \o Fetched) \in Seq(Result)
      BY <1>1, <3>3, OutboxParts
    <3> QED
      BY <3>1, <3>2, <3>3, <3>4 DEF Outbox
  <2>3. CASE NextTimer
    <3>1. prices = NoPrices /\ prices' = NoPrices
      BY <1>1, <2>3 DEF NextTimer, FetchInv
    <3>2. Fetched = << >> /\ Fetched' = << >>
      BY <3>1 DEF Fetched, NoPrices
    <3> QED
      BY <2>3, <3>2 DEF NextTimer, Outbox, Sending
  <2>4. CASE ~TakeResult /\ ~FinishFetch /\ ~NextTimer
    <3>1. UNCHANGED <<queue, flight, prices, fetching>>
      BY <2>4 DEF Unseen, RemoveTasks, RemoveDone, IoStart, IoExit, TimerExpires,
                  HandleAborted
    <3> QED
      BY <3>1, OutboxSame
  <2> QED
    BY <2>1, <2>2, <2>3, <2>4
<1> QED
  BY <1>2, <1>3, <1>4, PhaseSame, WatchedSame, MappedVars

-----------------------------------------------------------------------------
(* The steps the service sees.                                                *)

(* A price from the exchange is a tick of the market.                         *)
LEMMA PriceTicks ==
    ASSUME IInv, NEW t \in Tokens, PriceReceived(t)
    PROVE  Reports!Tick(t)
<1>1. Phase' = Phase
  BY PhaseSame DEF PriceReceived, PhaseOf
<1>2. Watched' = Watched /\ Outbox' = Outbox
  BY WatchedSame, OutboxSame DEF PriceReceived
<1> QED
  BY <1>1, <1>2 DEF PriceReceived, Reports!Tick, Phase, Watched, Outbox

(* The constructor opens a task.                                              *)
LEMMA ScheduleOpens ==
    ASSUME IInv, NEW w \in Watchers, NEW key \in Keys, NEW T \in SUBSET Tokens,
           ScheduleTask(w, key, T)
    PROVE  Reports!Open(w, T)
<1>1. TypeOK /\ task[w] = None
  BY DEF IInv, ScheduleTask
<1>2. [key |-> key, tokens |-> T] # None
  BY NoneAssumption DEF Task
<1>3. Phase[w] = "unused" /\ PhaseOf(w)' = "active"
  BY <1>1, <1>2 DEF ScheduleTask, Phase, PhaseOf, TypeOK
<1>4. \A u \in Watchers \ {w} : PhaseOf(u)' = PhaseOf(u)
  <2>1. ioState = "rearming" <=> ioState' = "rearming"
    BY DEF ScheduleTask
  <2> QED
    BY <1>1, <2>1 DEF ScheduleTask, PhaseOf, TypeOK
<1>5. Phase' = [Phase EXCEPT ![w] = "active"]
  BY <1>3, <1>4, PhaseChange
<1>6. Watched' = [Watched EXCEPT ![w] = T]
  BY <1>1, <1>2 DEF ScheduleTask, Watched, TypeOK
<1>7. Outbox' = Outbox
  BY OutboxSame DEF ScheduleTask
<1> QED
  BY <1>3, <1>5, <1>6, <1>7 DEF ScheduleTask, Reports!Open, Phase, Watched, Outbox

(* stop() and the erasure withdraw it.                                        *)
LEMMA RemovalWithdraws ==
    ASSUME IInv, NEW w \in Watchers, RemoveWatcher(w)
    PROVE  Reports!Withdraw(w)
<1>1. TypeOK /\ LateInv(w) /\ w \in registry /\ task[w] # None
  BY DEF IInv, RemoveWatcher, Matching, LateInv
<1>2. Phase[w] = "active" /\ PhaseOf(w)' \in {"lingering", "over"}
  BY <1>1 DEF RemoveWatcher, Phase, PhaseOf, TypeOK
<1>3. \A u \in Watchers \ {w} : PhaseOf(u)' = PhaseOf(u)
  BY <1>1 DEF RemoveWatcher, PhaseOf, TypeOK
<1>4. Phase' = [Phase EXCEPT ![w] = PhaseOf(w)']
  BY <1>3, PhaseChange
<1>5. Watched' = Watched /\ Outbox' = Outbox
  BY WatchedSame, OutboxSame DEF RemoveWatcher
<1> QED
  BY <1>2, <1>4, <1>5 DEF RemoveWatcher, Reports!Withdraw, Phase, Watched, Outbox

(* The copy of the instrument set is the moment of a report.                  *)
LEMMA FetchReports ==
    ASSUME IInv, NEW w \in Watchers, FetchPrices(w)
    PROVE  Reports!Report(w)
<1>1. /\ TypeOK /\ FetchInv /\ LateInv(w)
      /\ task[w] # None /\ wait[w] = "expired" /\ prices = NoPrices
  BY DEF IInv, FetchPrices, FetchInv, LateInv
<1>2. Phase[w] = IF w \in registry THEN "active" ELSE "lingering"
  BY <1>1 DEF Phase, PhaseOf
<1>3. PhaseOf(w)' = IF w \in registry THEN "active" ELSE "over"
  BY <1>1 DEF FetchPrices, PhaseOf, TypeOK
<1>4. \A u \in Watchers \ {w} : PhaseOf(u)' = PhaseOf(u)
  BY <1>1 DEF FetchPrices, PhaseOf, TypeOK
<1>5. Phase' = [Phase EXCEPT ![w] = IF @ = "active" THEN @ ELSE "over"]
  BY <1>2, <1>3, <1>4, PhaseChange DEF Phase
<1>6. Watched' = Watched
  BY WatchedSame DEF FetchPrices
<1>7. prices' = Reports!Seen(Watched[w])
  BY <1>1 DEF FetchPrices, Reports!Seen, Watched
<1>8. Outbox' = IF prices' = Reports!Unknown THEN Outbox
                ELSE Append(Outbox, [watcher |-> w, seen |-> prices'])
  <2>1. Outbox = Sending \o queue /\ Outbox \in Seq(Result)
    BY <1>1, OutboxParts
  <2>2. Sending' \o queue' = Sending \o queue
    BY DEF FetchPrices, Sending
  <2>3. NoPrices' = Reports!Unknown
    BY DEF NoPrices, Reports!Unknown
  <2>4. Fetched' = IF prices' = Reports!Unknown THEN << >>
                   ELSE <<[watcher |-> w, seen |-> prices']>>
    BY <2>3 DEF FetchPrices, Fetched
  <2>5. Outbox' = Outbox \o Fetched'
    BY <2>1, <2>2 DEF Outbox
  <2>6. prices' \in [Tokens -> Nat]
    BY <1>1 DEF FetchPrices, TypeOK
  <2>7. prices' # Reports!Unknown => [watcher |-> w, seen |-> prices'] \in Result
    BY <2>6 DEF Result, NoPrices, Reports!Unknown
  <2> DEFINE r == [watcher |-> w, seen |-> prices']
  <2>8. r \in Result => Outbox \o <<r>> = Append(Outbox, r)
    <3> HIDE DEF r
    <3> QED
      BY <2>1
  <2>9. Outbox \o << >> = Outbox
    BY <2>1
  <2> QED
    BY <2>4, <2>5, <2>7, <2>8, <2>9
<1>9. UNCHANGED <<ticks, instruments, shown>>
  BY DEF FetchPrices
<1> QED
  BY <1>2, <1>5, <1>6, <1>7, <1>8, <1>9 DEF Reports!Report, Phase, Watched, Outbox

(* A D-Bus call that returns delivers the first report of the outbox.         *)
LEMMA OutboxHead ==
    ASSUME TypeOK, FetchInv, flight # None
    PROVE  Outbox # << >> /\ Head(Outbox) = flight /\ Tail(Outbox) = queue \o Fetched
<1>1. flight \in Result /\ queue \in Seq(Result) /\ Fetched \in Seq(Result)
  BY OutboxParts DEF TypeOK
<1>2. /\ (<<flight>> \o queue) \o Fetched # << >>
      /\ Head((<<flight>> \o queue) \o Fetched) = flight
      /\ Tail((<<flight>> \o queue) \o Fetched) = queue \o Fetched
  BY <1>1
<1> QED
  BY <1>2 DEF Outbox, Sending

LEMMA SendDelivers ==
    ASSUME IInv, SendResult
    PROVE  Reports!Deliver
<1>1. TypeOK /\ FetchInv /\ flight # None
  BY DEF IInv, SendResult
<1>2. Outbox # << >> /\ Head(Outbox) = flight /\ Tail(Outbox) = queue \o Fetched
  BY <1>1, OutboxHead
<1>3. Sending' \o queue' = queue
  BY <1>1 DEF SendResult, Sending, TypeOK
<1>4. Fetched' = Fetched
  BY DEF SendResult, Fetched
<1>5. Outbox' = Tail(Outbox)
  BY <1>2, <1>3, <1>4 DEF Outbox
<1>6. shown' = Reports!ShownAfter(Head(Outbox))
  BY <1>2 DEF SendResult, ShownAfter, Reports!ShownAfter
<1>7. Phase' = Phase /\ Watched' = Watched
  BY PhaseSame, WatchedSame DEF SendResult, PhaseOf
<1> QED
  BY <1>2, <1>5, <1>6, <1>7 DEF SendResult, Reports!Deliver, Phase, Watched, Outbox

(* The death of the process forgets every task, price and report.             *)
LEMMA DeathRestarts ==
    ASSUME IInv, SendFails \/ DestroyedTimerFaults
    PROVE  Reports!Restart
<1>1. Terminated /\ TypeOK /\ FetchInv
  BY DEF IInv, SendFails, DestroyedTimerFaults
<1>2. \A u \in Watchers :
         /\ Phase[u] = "unused" <=> task[u] = None
         /\ PhaseOf(u)' = IF task[u] = None THEN "unused" ELSE "over"
  BY <1>1, NoneAssumption DEF Terminated, Phase, PhaseOf
<1>3. Phase' = [u \in Watchers |-> IF Phase[u] = "unused" THEN "unused" ELSE "over"]
  <2>1. Phase' = [u \in Watchers |-> PhaseOf(u)']
    BY DEF Phase
  <2> QED
    BY <1>2, <2>1
<1>4. Watched' = Watched /\ ticks' = ticks
  BY <1>1, WatchedSame DEF Terminated
<1>5. Outbox' = << >>
  <2>1. Sending' = << >> /\ queue' = << >> /\ Fetched' = << >>
    BY <1>1 DEF Terminated, Sending, Fetched, NoPrices
  <2> QED
    BY <2>1 DEF Outbox
<1>6. instruments' = Reports!Unknown
  BY <1>1 DEF Terminated, NoPrices, Reports!Unknown
<1>7. \/ shown' = shown
      \/ Outbox # << >> /\ shown' = Reports!ShownAfter(Head(Outbox))
  BY <1>1, OutboxHead DEF SendFails, DestroyedTimerFaults, ShownAfter, Reports!ShownAfter
<1> QED
  BY <1>3, <1>4, <1>5, <1>6, <1>7 DEF Reports!Restart, Phase, Watched, Outbox

-----------------------------------------------------------------------------
(* Every behaviour of time_tasks is one of a price report service: a report   *)
(* shows the market at one moment, the reports of all tasks leave in the      *)
(* order of these moments, and a removed task makes at most one more, through *)
(* every race on the timers and every death of the process.                   *)
THEOREM Refinement == Spec => ImplementsPriceReports
<1>1. Init => Reports!Init
  <2> SUFFICES ASSUME Init
               PROVE  Reports!Init
    OBVIOUS
  <2>1. Phase = [w \in Watchers |-> "unused"] /\ Watched = [w \in Watchers |-> {}]
    BY DEF Init, Phase, PhaseOf, Watched
  <2>2. Outbox = << >>
    BY DEF Init, Outbox, Sending, Fetched
  <2> QED
    BY <2>1, <2>2 DEF Init, NoPrices, Reports!Init, Reports!Unknown, Phase, Watched, Outbox
<1>2. IInv /\ [Next]_vars => [Reports!Next]_(Reports!vars)
  <2> SUFFICES ASSUME IInv, [Next]_vars
               PROVE  [Reports!Next]_(Reports!vars)
    OBVIOUS
  <2>1. CASE Unseen
    BY <2>1, StepUnseen
  <2>2. ASSUME NEW t \in Tokens, PriceReceived(t)
        PROVE  Reports!Next
    BY <2>2, PriceTicks DEF Reports!Next
  <2>3. ASSUME NEW w \in Watchers, NEW key \in Keys, NEW T \in SUBSET Tokens,
               ScheduleTask(w, key, T)
        PROVE  Reports!Next
    BY <2>3, ScheduleOpens DEF Reports!Next
  <2>4. ASSUME NEW w \in Watchers, RemoveWatcher(w)
        PROVE  Reports!Next
    BY <2>4, RemovalWithdraws DEF Reports!Next
  <2>5. ASSUME NEW w \in Watchers, FetchPrices(w)
        PROVE  Reports!Next
    BY <2>5, FetchReports DEF Reports!Next
  <2>6. CASE SendResult
    BY <2>6, SendDelivers DEF Reports!Next
  <2>7. CASE SendFails \/ DestroyedTimerFaults
    BY <2>7, DeathRestarts DEF Reports!Next
  <2>8. CASE UNCHANGED vars
    <3>1. Phase' = Phase
      BY <2>8, PhaseSame DEF vars, PhaseOf
    <3>2. Watched' = Watched /\ Outbox' = Outbox
      BY <2>8, WatchedSame, OutboxSame DEF vars
    <3> QED
      BY <2>8, <3>1, <3>2, MappedVars DEF vars
  <2> QED
    BY <2>1, <2>2, <2>3, <2>4, <2>5, <2>6, <2>7, <2>8
       DEF Next, Feed, DBus, Io, Sender, Unseen
<1> QED
  BY <1>1, <1>2, Invariance, PTL DEF Spec, ImplementsPriceReports, Reports!Spec
=============================================================================
