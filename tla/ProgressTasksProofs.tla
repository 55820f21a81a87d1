------------------------- MODULE ProgressTasksProofs -------------------------
(* Proofs that every safety property of ProgressTasks holds for all sets of   *)
(* tokens, prices, percentages, keys and watchers, and that it implements the *)
(* abstract alert service of PriceAlerts.                                     *)
EXTENDS ProgressTasks, TLAPS

(* The initial state.                                                         *)
LEMMA InitIInv == Init => IInv
<1> SUFFICES ASSUME Init
             PROVE  IInv
  OBVIOUS
<1> USE DEF Init
<1>1. TypeOK
  BY DEF TypeOK
<1>2. \A w \in Watchers : LateInv(w)
  BY NoneAssumption DEF LateInv
<1>3. CheckInv /\ ArmedInv /\ CoverInv
  BY DEF CheckInv, ArmedInv, CoverInv
<1>4. NoticeInv /\ NotifiedOnce
  BY DEF NoticeInv, NotifiedOnce, Told
<1> QED
  BY <1>1, <1>2, <1>3, <1>4 DEF IInv

(* Every variable keeps its type.                                             *)
LEMMA StepTypeOK ==
    ASSUME TypeOK, CheckInv, [Next]_vars
    PROVE  TypeOK'
<1> USE DEF TypeOK
<1>1. ASSUME NEW t \in Tokens, NEW p \in Prices, PriceReceived(t, p)
      PROVE  TypeOK'
  BY <1>1 DEF PriceReceived
<1>2. ASSUME NEW w \in Watchers, NEW key \in Keys, NEW percentage \in Percentages,
                 NEW T \in SUBSET Tokens, ScheduleTask(w, key, percentage, T)
      PROVE  TypeOK'
  BY <1>2 DEF ScheduleTask, SnapshotOf, Snapshot, Task
<1>3. ASSUME NEW key \in Keys, RemoveTasks(key)
      PROVE  TypeOK'
  BY <1>3 DEF RemoveTasks
<1>4. ASSUME NEW w \in Watchers, RemoveWatcher(w)
      PROVE  TypeOK'
  BY <1>4 DEF RemoveWatcher
<1>5. CASE RemoveDone
  BY <1>5 DEF RemoveDone
<1>6. CASE IoStart
  BY <1>6 DEF IoStart
<1>7. CASE IoExit
  BY <1>7 DEF IoExit
<1>8. ASSUME NEW w \in Watchers, TimerExpires(w)
      PROVE  TypeOK'
  BY <1>8 DEF TimerExpires
<1>9. ASSUME NEW w \in Watchers, HandleAborted(w)
      PROVE  TypeOK'
  BY <1>9 DEF HandleAborted
<1>10. ASSUME NEW w \in Watchers, CheckPrices(w)
      PROVE  TypeOK'
  BY <1>10 DEF CheckPrices
<1>11. ASSUME NEW s \in unread, ComparePrice(s)
      PROVE  TypeOK'
  BY <1>11 DEF ComparePrice, Snapshot
<1>12. CASE FinishCheck
  <2>1. checking \in Watchers
    BY <1>12 DEF FinishCheck, CheckInv
  <2>2. snapshots' \in [Watchers -> SUBSET Snapshot]
    BY <1>12, <2>1 DEF FinishCheck, Rearms, Remaining
  <2>3. [watcher |-> checking, tokens |-> hits] \in Result
    BY <2>1 DEF Result
  <2>4. queue' \in Seq(Result)
    BY <1>12, <2>3 DEF FinishCheck
  <2>5. timer' \in [Watchers -> BOOLEAN]
    BY <1>12, <2>1 DEF FinishCheck
  <2> QED
    BY <1>12, <2>2, <2>4, <2>5 DEF FinishCheck
<1>13. CASE NextTimer
  BY <1>13 DEF NextTimer
<1>14. CASE TakeResult
  BY <1>14 DEF TakeResult
<1>15. CASE SendResult
  BY <1>15 DEF SendResult, Notices, Result
<1>16. CASE SendFails
  BY <1>16 DEF SendFails, Terminated, Notices, Result
<1>17. CASE DestroyedTimerFaults
  BY <1>17 DEF DestroyedTimerFaults, Terminated
<1>18. CASE UNCHANGED vars
  BY <1>18 DEF vars
<1> QED
  BY <1>1, <1>2, <1>3, <1>4, <1>5, <1>6, <1>7, <1>8, <1>9,
     <1>10, <1>11, <1>12, <1>13, <1>14, <1>15, <1>16, <1>17, <1>18
     DEF Next, Feed, DBus, Io, Sender

(* The check in progress stays within its watcher.                            *)
LEMMA StepCheckInv ==
    ASSUME TypeOK, CheckInv, \A w \in Watchers : LateInv(w), [Next]_vars
    PROVE  CheckInv'
<1> USE NoneAssumption DEF TypeOK, CheckInv
<1>1. ASSUME NEW t \in Tokens, NEW p \in Prices, PriceReceived(t, p)
      PROVE  CheckInv'
  BY <1>1 DEF PriceReceived
<1>2. ASSUME NEW w \in Watchers, NEW key \in Keys, NEW percentage \in Percentages,
                 NEW T \in SUBSET Tokens, ScheduleTask(w, key, percentage, T)
      PROVE  CheckInv'
  BY <1>2 DEF ScheduleTask, LateInv, TokensOf
<1>3. ASSUME NEW key \in Keys, RemoveTasks(key)
      PROVE  CheckInv'
  BY <1>3 DEF RemoveTasks
<1>4. ASSUME NEW w \in Watchers, RemoveWatcher(w)
      PROVE  CheckInv'
  BY <1>4 DEF RemoveWatcher
<1>5. CASE RemoveDone
  BY <1>5 DEF RemoveDone
<1>6. CASE IoStart
  BY <1>6 DEF IoStart
<1>7. CASE IoExit
  BY <1>7 DEF IoExit
<1>8. ASSUME NEW w \in Watchers, TimerExpires(w)
      PROVE  CheckInv'
  BY <1>8 DEF TimerExpires
<1>9. ASSUME NEW w \in Watchers, HandleAborted(w)
      PROVE  CheckInv'
  BY <1>9 DEF HandleAborted
<1>10. ASSUME NEW w \in Watchers, CheckPrices(w)
      PROVE  CheckInv'
  BY <1>10 DEF CheckPrices, TokensOf
<1>11. ASSUME NEW s \in unread, ComparePrice(s)
      PROVE  CheckInv'
  BY <1>11 DEF ComparePrice, TokensOf
<1>12. CASE FinishCheck
  BY <1>12 DEF FinishCheck, Rearms, Remaining
<1>13. CASE NextTimer
  BY <1>13 DEF NextTimer
<1>14. CASE TakeResult
  BY <1>14 DEF TakeResult
<1>15. CASE SendResult
  BY <1>15 DEF SendResult
<1>16. CASE SendFails
  BY <1>16 DEF SendFails, Terminated
<1>17. CASE DestroyedTimerFaults
  BY <1>17 DEF DestroyedTimerFaults, Terminated
<1>18. CASE UNCHANGED vars
  BY <1>18 DEF vars
<1> QED
  BY <1>1, <1>2, <1>3, <1>4, <1>5, <1>6, <1>7, <1>8, <1>9,
     <1>10, <1>11, <1>12, <1>13, <1>14, <1>15, <1>16, <1>17, <1>18
     DEF Next, Feed, DBus, Io, Sender

(* The budget of late checks.                                                 *)
LEMMA StepLateInv ==
    ASSUME TypeOK, CheckInv, ArmedInv, \A w \in Watchers : LateInv(w), [Next]_vars
    PROVE  \A w \in Watchers : LateInv(w)'
<1> SUFFICES ASSUME NEW v \in Watchers
             PROVE  LateInv(v)'
  OBVIOUS
<1> USE NoneAssumption DEF TypeOK, CheckInv
<1> USE DEF LateInv
<1>1. ASSUME NEW t \in Tokens, NEW p \in Prices, PriceReceived(t, p)
      PROVE  LateInv(v)'
  BY <1>1 DEF PriceReceived
<1>2. ASSUME NEW w \in Watchers, NEW key \in Keys, NEW percentage \in Percentages,
                 NEW T \in SUBSET Tokens, ScheduleTask(w, key, percentage, T)
      PROVE  LateInv(v)'
  BY <1>2 DEF ScheduleTask, Task
<1>3. ASSUME NEW key \in Keys, RemoveTasks(key)
      PROVE  LateInv(v)'
  BY <1>3 DEF RemoveTasks
<1>4. ASSUME NEW w \in Watchers, RemoveWatcher(w)
      PROVE  LateInv(v)'
  BY <1>4 DEF RemoveWatcher
<1>5. CASE RemoveDone
  BY <1>5 DEF RemoveDone
<1>6. CASE IoStart
  BY <1>6 DEF IoStart
<1>7. CASE IoExit
  BY <1>7 DEF IoExit
<1>8. ASSUME NEW w \in Watchers, TimerExpires(w)
      PROVE  LateInv(v)'
  BY <1>8 DEF TimerExpires
<1>9. ASSUME NEW w \in Watchers, HandleAborted(w)
      PROVE  LateInv(v)'
  BY <1>9 DEF HandleAborted
<1>10. ASSUME NEW w \in Watchers, CheckPrices(w)
      PROVE  LateInv(v)'
  BY <1>10 DEF CheckPrices, ArmedInv
<1>11. ASSUME NEW s \in unread, ComparePrice(s)
      PROVE  LateInv(v)'
  BY <1>11 DEF ComparePrice
<1>12. CASE FinishCheck
  <2>1. checking \in Watchers /\ wait[checking] = "none" /\ task[checking] # None
    BY <1>12 DEF FinishCheck
  <2>2. CASE Remaining # {} /\ timer[checking]
    BY <1>12, <2>1, <2>2 DEF FinishCheck, Rearms
  <2>3. CASE ~(Remaining # {} /\ timer[checking])
    BY <1>12, <2>1, <2>3 DEF FinishCheck, Rearms
  <2> QED
    BY <2>2, <2>3
<1>13. CASE NextTimer
  BY <1>13 DEF NextTimer
<1>14. CASE TakeResult
  BY <1>14 DEF TakeResult
<1>15. CASE SendResult
  BY <1>15 DEF SendResult
<1>16. CASE SendFails
  BY <1>16 DEF SendFails, Terminated
<1>17. CASE DestroyedTimerFaults
  BY <1>17 DEF DestroyedTimerFaults, Terminated
<1>18. CASE UNCHANGED vars
  BY <1>18 DEF vars
<1> QED
  BY <1>1, <1>2, <1>3, <1>4, <1>5, <1>6, <1>7, <1>8, <1>9,
     <1>10, <1>11, <1>12, <1>13, <1>14, <1>15, <1>16, <1>17, <1>18
     DEF Next, Feed, DBus, Io, Sender

(* No watcher in the registry is forgotten.                                   *)
LEMMA StepArmedInv ==
    ASSUME TypeOK, CheckInv, ArmedInv, \A w \in Watchers : LateInv(w), [Next]_vars
    PROVE  ArmedInv'
<1> USE NoneAssumption DEF TypeOK, CheckInv, ArmedInv, LateInv
<1>1. ASSUME NEW t \in Tokens, NEW p \in Prices, PriceReceived(t, p)
      PROVE  ArmedInv'
  BY <1>1 DEF PriceReceived
<1>2. ASSUME NEW w \in Watchers, NEW key \in Keys, NEW percentage \in Percentages,
                 NEW T \in SUBSET Tokens, ScheduleTask(w, key, percentage, T)
      PROVE  ArmedInv'
  BY <1>2 DEF ScheduleTask
<1>3. ASSUME NEW key \in Keys, RemoveTasks(key)
      PROVE  ArmedInv'
  BY <1>3 DEF RemoveTasks
<1>4. ASSUME NEW w \in Watchers, RemoveWatcher(w)
      PROVE  ArmedInv'
  BY <1>4 DEF RemoveWatcher
<1>5. CASE RemoveDone
  BY <1>5 DEF RemoveDone
<1>6. CASE IoStart
  BY <1>6 DEF IoStart
<1>7. CASE IoExit
  BY <1>7 DEF IoExit
<1>8. ASSUME NEW w \in Watchers, TimerExpires(w)
      PROVE  ArmedInv'
  BY <1>8 DEF TimerExpires
<1>9. ASSUME NEW w \in Watchers, HandleAborted(w)
      PROVE  ArmedInv'
  BY <1>9 DEF HandleAborted
<1>10. ASSUME NEW w \in Watchers, CheckPrices(w)
      PROVE  ArmedInv'
  BY <1>10 DEF CheckPrices
<1>11. ASSUME NEW s \in unread, ComparePrice(s)
      PROVE  ArmedInv'
  BY <1>11 DEF ComparePrice
<1>12. CASE FinishCheck
  BY <1>12 DEF FinishCheck, Rearms, Remaining
<1>13. CASE NextTimer
  BY <1>13 DEF NextTimer
<1>14. CASE TakeResult
  BY <1>14 DEF TakeResult
<1>15. CASE SendResult
  BY <1>15 DEF SendResult
<1>16. CASE SendFails
  BY <1>16 DEF SendFails, Terminated
<1>17. CASE DestroyedTimerFaults
  BY <1>17 DEF DestroyedTimerFaults, Terminated
<1>18. CASE UNCHANGED vars
  BY <1>18 DEF vars
<1> QED
  BY <1>1, <1>2, <1>3, <1>4, <1>5, <1>6, <1>7, <1>8, <1>9,
     <1>10, <1>11, <1>12, <1>13, <1>14, <1>15, <1>16, <1>17, <1>18
     DEF Next, Feed, DBus, Io, Sender

(* Tokens move from the snapshots to a result and on to the user.             *)
LEMMA StepCoverInv ==
    ASSUME TypeOK, CheckInv, CoverInv, \A w \in Watchers : LateInv(w), [Next]_vars
    PROVE  CoverInv'
<1> SUFFICES ASSUME NEW v \in registry', NEW u \in task'[v].priced
             PROVE  u \in TokensOf(snapshots[v])' \/ Reported(v, u)'
  BY DEF CoverInv
<1> USE NoneAssumption DEF TypeOK
<1>r. v \in registry => u \in TokensOf(snapshots[v]) \/ Reported(v, u) \/ task'[v] # task[v]
  BY DEF CoverInv
<1>t. ASSUME UNCHANGED task, registry' \subseteq registry, UNCHANGED snapshots,
             Reported(v, u) => Reported(v, u)'
      PROVE  u \in TokensOf(snapshots[v])' \/ Reported(v, u)'
  BY <1>t, <1>r DEF TokensOf
<1>s. ASSUME UNCHANGED <<queue, flight, delivered>>
      PROVE  Reported(v, u) => Reported(v, u)'
  BY <1>s DEF Reported, Raised, Notices
<1>1. ASSUME NEW w \in Watchers, NEW key \in Keys, NEW percentage \in Percentages,
             NEW T \in SUBSET Tokens, ScheduleTask(w, key, percentage, T)
      PROVE  u \in TokensOf(snapshots[v])' \/ Reported(v, u)'
  <2>1. CASE v = w
    <3>1. task'[v].priced = {t \in T : instruments[t] # Unlisted}
      BY <1>1, <2>1 DEF ScheduleTask
    <3>2. snapshots'[v] = SnapshotOf(T)
      BY <1>1, <2>1 DEF ScheduleTask
    <3>3. u \in T /\ instruments[u] # Unlisted
      BY <3>1
    <3>4. [token |-> u, base |-> instruments[u]] \in snapshots'[v]
      BY <3>2, <3>3 DEF SnapshotOf
    <3>5. \E x \in snapshots'[v] : x.token = u
      BY <3>4
    <3> QED
      BY <3>5 DEF TokensOf
  <2>2. CASE v # w
    <3>1. v \in registry /\ task'[v] = task[v] /\ snapshots'[v] = snapshots[v]
      BY <1>1, <2>2 DEF ScheduleTask
    <3>2. UNCHANGED <<queue, flight, delivered>>
      BY <1>1 DEF ScheduleTask
    <3> QED
      BY <3>1, <3>2, <1>r, <1>s DEF TokensOf
  <2> QED
    BY <2>1, <2>2
<1>2. CASE Feed \/ (\E key \in Keys : RemoveTasks(key)) \/ RemoveDone
  BY <1>2, <1>t, <1>s DEF Feed, PriceReceived, RemoveTasks, RemoveDone
<1>3. ASSUME NEW w \in Watchers, RemoveWatcher(w)
      PROVE  u \in TokensOf(snapshots[v])' \/ Reported(v, u)'
  BY <1>3, <1>t, <1>s DEF RemoveWatcher
<1>4. ASSUME NEW w \in Watchers, TimerExpires(w) \/ HandleAborted(w) \/ CheckPrices(w)
      PROVE  u \in TokensOf(snapshots[v])' \/ Reported(v, u)'
  BY <1>4, <1>t, <1>s DEF TimerExpires, HandleAborted, CheckPrices
<1>5. CASE IoStart \/ IoExit \/ NextTimer \/ \E s \in unread : ComparePrice(s)
  BY <1>5, <1>t, <1>s DEF IoStart, IoExit, NextTimer, ComparePrice
<1>6. CASE FinishCheck
  <2>0. checking \in Watchers
    BY <1>6 DEF FinishCheck, CheckInv
  <2>1. UNCHANGED <<task, registry, flight, delivered>>
    BY <1>6 DEF FinishCheck
  <2>2. snapshots' = [snapshots EXCEPT ![checking] = Remaining]
    BY <1>6 DEF FinishCheck
  <2>3. Reported(v, u) => Reported(v, u)'
    <3>1. \A i \in DOMAIN queue : i \in DOMAIN queue' /\ queue'[i] = queue[i]
      <4> DEFINE res == [watcher |-> checking, tokens |-> hits]
      <4>1. queue' = queue \/ queue' = Append(queue, res)
        BY <1>6 DEF FinishCheck
      <4>2. queue \in Seq(Result) /\ res \in Result
        BY <2>0 DEF Result
      <4> HIDE DEF res
      <4>3. CASE queue' = Append(queue, res)
        BY <4>2, <4>3
      <4> QED
        BY <4>1, <4>3
    <3> QED
      BY <3>1, <2>1 DEF Reported, Raised, Notices
  <2>4. CASE v = checking /\ u \in hits
    <3>1. queue' = Append(queue, [watcher |-> checking, tokens |-> hits])
      BY <1>6, <2>4 DEF FinishCheck
    <3>2. Len(queue') \in DOMAIN queue'
          /\ queue'[Len(queue')] = [watcher |-> checking, tokens |-> hits]
      <4> DEFINE res == [watcher |-> checking, tokens |-> hits]
      <4>1. queue \in Seq(Result) /\ res \in Result
        BY <2>0 DEF Result
      <4>2. queue' = Append(queue, res)
        BY <3>1
      <4> HIDE DEF res
      <4>3. Len(queue') \in DOMAIN queue' /\ queue'[Len(queue')] = res
        BY <4>1, <4>2
      <4> QED
        BY <4>3 DEF res
    <3>3. Raised(v, u)'
      BY <3>2, <2>4 DEF Raised, Notices
    <3> QED
      BY <3>3 DEF Reported
  <2>5. CASE ~(v = checking /\ u \in hits)
    <3>1. u \in TokensOf(snapshots[v]) => u \in TokensOf(snapshots[v])'
      BY <2>0, <2>1, <2>2, <2>5 DEF TokensOf, Remaining
    <3> QED
      BY <3>1, <2>1, <2>3, <1>r
  <2> QED
    BY <2>4, <2>5
<1>7. CASE TakeResult
  <2>1. Reported(v, u) => Reported(v, u)'
    <3> SUFFICES ASSUME Reported(v, u)
                 PROVE  Reported(v, u)'
      OBVIOUS
    <3>1. /\ queue \in Seq(Result) /\ queue # << >> /\ flight = None
          /\ flight' = Head(queue) /\ queue' = Tail(queue) /\ delivered' = delivered
      BY <1>7 DEF TakeResult
    <3>2. flight' \in Result /\ flight' # None
      BY <3>1
    <3>3. CASE \E i \in DOMAIN queue : <<v, u>> \in Notices(queue[i])
      <4>1. PICK i \in DOMAIN queue : <<v, u>> \in Notices(queue[i])
        BY <3>3
      <4>2. CASE i = 1
        <5>1. queue[1] = flight'
          BY <3>1
        <5> QED
          BY <4>1, <4>2, <5>1, <3>2 DEF Reported, Raised, Notices
      <4>3. CASE i # 1
        <5>1. i - 1 \in DOMAIN queue' /\ queue'[i - 1] = queue[i]
          BY <3>1, <4>3
        <5> QED
          BY <4>1, <5>1 DEF Reported, Raised, Notices
      <4> QED
        BY <4>2, <4>3
    <3> QED
      BY <3>1, <3>3 DEF Reported, Raised
  <2> QED
    BY <2>1, <1>7, <1>t DEF TakeResult
<1>8. CASE SendResult
  <2>1. Reported(v, u) => Reported(v, u)'
    BY <1>8 DEF SendResult, Reported, Raised, Notices
  <2> QED
    BY <2>1, <1>8, <1>t DEF SendResult
<1>9. CASE SendFails \/ DestroyedTimerFaults
  BY <1>9 DEF SendFails, DestroyedTimerFaults, Terminated
<1>10. CASE UNCHANGED vars
  BY <1>10, <1>t, <1>s DEF vars
<1> QED
  BY <1>1, <1>2, <1>3, <1>4, <1>5, <1>6, <1>7, <1>8, <1>9, <1>10
     DEF Next, Feed, DBus, Io, Sender

(* What the user is told about is no longer watched.                          *)
LEMMA StepNoticeInv ==
    ASSUME TypeOK, CheckInv, NoticeInv, \A w \in Watchers : LateInv(w), [Next]_vars
    PROVE  NoticeInv'
<1> USE NoneAssumption DEF NoticeInv, Silent
<1>1. ASSUME NEW t \in Tokens, NEW p \in Prices, PriceReceived(t, p)
      PROVE  NoticeInv'
  BY <1>1 DEF PriceReceived
<1>2. ASSUME NEW w \in Watchers, NEW key \in Keys, NEW percentage \in Percentages,
                 NEW T \in SUBSET Tokens, ScheduleTask(w, key, percentage, T)
      PROVE  NoticeInv'
  <2>1. \A v \in Watchers, t \in Tokens : Silent(v, t) => v # w
    BY <1>2 DEF ScheduleTask
  <2> QED
    BY <1>2, <2>1 DEF ScheduleTask, TypeOK, Task, Result
<1>3. ASSUME NEW key \in Keys, RemoveTasks(key)
      PROVE  NoticeInv'
  BY <1>3 DEF RemoveTasks
<1>4. ASSUME NEW w \in Watchers, RemoveWatcher(w)
      PROVE  NoticeInv'
  BY <1>4 DEF RemoveWatcher
<1>5. CASE RemoveDone
  BY <1>5 DEF RemoveDone
<1>6. CASE IoStart
  BY <1>6 DEF IoStart
<1>7. CASE IoExit
  BY <1>7 DEF IoExit
<1>8. ASSUME NEW w \in Watchers, TimerExpires(w)
      PROVE  NoticeInv'
  BY <1>8 DEF TimerExpires
<1>9. ASSUME NEW w \in Watchers, HandleAborted(w)
      PROVE  NoticeInv'
  BY <1>9 DEF HandleAborted
<1>10. ASSUME NEW w \in Watchers, CheckPrices(w)
      PROVE  NoticeInv'
  BY <1>10 DEF CheckPrices
<1>11. ASSUME NEW s \in unread, ComparePrice(s)
      PROVE  NoticeInv'
  BY <1>11 DEF ComparePrice
<1>12. CASE FinishCheck
  <2> QED
    BY <1>12 DEF FinishCheck, Rearms, Remaining, TypeOK, CheckInv, LateInv, Result
<1>13. CASE NextTimer
  BY <1>13 DEF NextTimer
<1>14. CASE TakeResult
  <2>1. Head(queue) = queue[1] /\ 1 \in DOMAIN queue
    BY <1>14 DEF TakeResult, TypeOK
  <2>2. \A i \in DOMAIN Tail(queue) : i + 1 \in DOMAIN queue /\ Tail(queue)[i] = queue[i + 1]
    BY <1>14 DEF TakeResult, TypeOK
  <2> QED
    BY <1>14, <2>1, <2>2 DEF TakeResult
<1>15. CASE SendResult
  <2>1. \A n \in Notices(flight) : n[1] = flight.watcher /\ n[2] \in flight.tokens
    BY DEF Notices
  <2> QED
    BY <1>15, <2>1 DEF SendResult
<1>16. CASE SendFails
  <2>1. flight \in Result
    BY <1>16 DEF SendFails, TypeOK
  <2>2. \A n \in delivered' : /\ n[1] \in Watchers
                             /\ task[n[1]] # None
    <3>1. \A n \in delivered : n[1] \in Watchers /\ task[n[1]] # None
      BY DEF TypeOK
    <3>2. \A n \in Notices(flight) : n[1] \in Watchers /\ task[n[1]] # None
      BY <1>16, <2>1 DEF SendFails, Notices, Result
    <3> QED
      BY <1>16, <3>1, <3>2 DEF SendFails
  <2> QED
    BY <1>16, <2>2 DEF SendFails, Terminated
<1>17. CASE DestroyedTimerFaults
  BY <1>17 DEF DestroyedTimerFaults, Terminated, TypeOK
<1>18. CASE UNCHANGED vars
  BY <1>18 DEF vars
<1> QED
  BY <1>1, <1>2, <1>3, <1>4, <1>5, <1>6, <1>7, <1>8, <1>9,
     <1>10, <1>11, <1>12, <1>13, <1>14, <1>15, <1>16, <1>17, <1>18
     DEF Next, Feed, DBus, Io, Sender

(* No token of an alert is told about twice.                                  *)
LEMMA StepNotifiedOnce ==
    ASSUME TypeOK, CheckInv, NoticeInv, NotifiedOnce, [Next]_vars
    PROVE  NotifiedOnce'
<1> USE NoneAssumption DEF NotifiedOnce, Told
<1>1. ASSUME NEW t \in Tokens, NEW p \in Prices, PriceReceived(t, p)
      PROVE  NotifiedOnce'
  BY <1>1 DEF PriceReceived
<1>2. ASSUME NEW w \in Watchers, NEW key \in Keys, NEW percentage \in Percentages,
                 NEW T \in SUBSET Tokens, ScheduleTask(w, key, percentage, T)
      PROVE  NotifiedOnce'
  BY <1>2 DEF ScheduleTask
<1>3. ASSUME NEW key \in Keys, RemoveTasks(key)
      PROVE  NotifiedOnce'
  BY <1>3 DEF RemoveTasks
<1>4. ASSUME NEW w \in Watchers, RemoveWatcher(w)
      PROVE  NotifiedOnce'
  BY <1>4 DEF RemoveWatcher
<1>5. CASE RemoveDone
  BY <1>5 DEF RemoveDone
<1>6. CASE IoStart
  BY <1>6 DEF IoStart
<1>7. CASE IoExit
  BY <1>7 DEF IoExit
<1>8. ASSUME NEW w \in Watchers, TimerExpires(w)
      PROVE  NotifiedOnce'
  BY <1>8 DEF TimerExpires
<1>9. ASSUME NEW w \in Watchers, HandleAborted(w)
      PROVE  NotifiedOnce'
  BY <1>9 DEF HandleAborted
<1>10. ASSUME NEW w \in Watchers, CheckPrices(w)
      PROVE  NotifiedOnce'
  BY <1>10 DEF CheckPrices
<1>11. ASSUME NEW s \in unread, ComparePrice(s)
      PROVE  NotifiedOnce'
  BY <1>11 DEF ComparePrice
<1>12. CASE FinishCheck
  <2>1. checking \in Watchers /\ hits \subseteq TokensOf(snapshots[checking])
    BY <1>12 DEF FinishCheck, TypeOK, CheckInv
  <2>2. \A t \in hits : ~Silent(checking, t)
    BY <2>1 DEF Silent, TokensOf
  <2>3. CASE hits = {}
    BY <1>12, <2>3 DEF FinishCheck
  <2>4. CASE hits # {}
    <3> DEFINE r == [watcher |-> checking, tokens |-> hits]
    <3>1. /\ DOMAIN queue' = DOMAIN queue \cup {Len(queue) + 1}
          /\ \A i \in DOMAIN queue : queue'[i] = queue[i]
          /\ queue'[Len(queue) + 1] = r
      BY <1>12, <2>1, <2>4 DEF FinishCheck, TypeOK
    <3>2. \A i \in DOMAIN queue : Notices(queue[i]) \cap Notices(r) = {}
      BY <2>2 DEF NoticeInv, Notices
    <3>3. flight # None => Notices(flight) \cap Notices(r) = {}
      BY <2>2 DEF NoticeInv, Notices
    <3>4. delivered \cap Notices(r) = {}
      BY <2>2 DEF NoticeInv, Notices
    <3> HIDE DEF r
    <3> QED
      BY <1>12, <3>1, <3>2, <3>3, <3>4 DEF FinishCheck
  <2> QED
    BY <2>3, <2>4
<1>13. CASE NextTimer
  BY <1>13 DEF NextTimer
<1>14. CASE TakeResult
  BY <1>14 DEF TakeResult
<1>15. CASE SendResult
  BY <1>15 DEF SendResult
<1>16. CASE SendFails
  BY <1>16 DEF SendFails, Terminated
<1>17. CASE DestroyedTimerFaults
  BY <1>17 DEF DestroyedTimerFaults, Terminated
<1>18. CASE UNCHANGED vars
  BY <1>18 DEF vars
<1> QED
  BY <1>1, <1>2, <1>3, <1>4, <1>5, <1>6, <1>7, <1>8, <1>9,
     <1>10, <1>11, <1>12, <1>13, <1>14, <1>15, <1>16, <1>17, <1>18
     DEF Next, Feed, DBus, Io, Sender

(* The inductive invariant holds in every reachable state.                    *)
THEOREM Invariance == Spec => []IInv
<1>1. IInv /\ [Next]_vars => IInv'
  BY StepTypeOK, StepCheckInv, StepLateInv, StepArmedInv, StepCoverInv, StepNoticeInv,
     StepNotifiedOnce DEF IInv
<1> QED
  BY InitIInv, <1>1, PTL DEF Spec

(* All variables of progress_tasks keep their types.                          *)
THEOREM TypeCorrect == Spec => []TypeOK
<1>1. IInv => TypeOK
  BY DEF IInv
<1> QED
  BY Invariance, <1>1, PTL

(* progress_tasks never tells a user twice about one token of one alert,      *)
(* whatever is queued, in flight or delivered when it does.                   *)
THEOREM NotifiedAtMostOnce == Spec => []NotifiedOnce
<1>1. IInv => NotifiedOnce
  BY DEF IInv
<1> QED
  BY Invariance, <1>1, PTL

(* A removed watcher runs check_prices at most once more, even when stop()    *)
(* destroys the timer next_timer is about to use.                             *)
THEOREM RemovalTakesHold == Spec => []OneLateCheck
<1>1. IInv => OneLateCheck
  BY DEF IInv, LateInv, OneLateCheck
<1> QED
  BY Invariance, <1>1, PTL

(* A watcher that is listed is being checked, will be, or has reported every  *)
(* token that had a price when it was scheduled.                              *)
THEOREM WatchersStayArmed == Spec => []ChainUnbroken
<1>1. IInv => ChainUnbroken
  BY DEF IInv, ArmedInv, CoverInv, ChainUnbroken, TokensOf
<1> QED
  BY Invariance, <1>1, PTL

-----------------------------------------------------------------------------
(* The refinement: every step of ProgressTasks is a step of PriceAlerts, or   *)
(* none, under the mapping at the end of ProgressTasks.                       *)
Phase == [w \in Watchers |-> PhaseOf(w)]
OpenTokens == [w \in Watchers |-> TokensOf(snapshots[w])]
Outbox == IF flight = None THEN queue ELSE <<flight>> \o queue

(* Steps that concern one alert, and steps that concern none.                 *)
LEMMA PhaseChange ==
    ASSUME NEW w \in Watchers, NEW p, PhaseOf(w)' = p,
           \A u \in Watchers \ {w} : PhaseOf(u)' = PhaseOf(u)
    PROVE  Phase' = [Phase EXCEPT ![w] = p]
<1>1. Phase' = [u \in Watchers |-> PhaseOf(u)']
  BY DEF Phase
<1> QED
  BY <1>1 DEF Phase

LEMMA PhaseSame ==
    ASSUME \A u \in Watchers : PhaseOf(u)' = PhaseOf(u)
    PROVE  Phase' = Phase
<1>1. Phase' = [u \in Watchers |-> PhaseOf(u)']
  BY DEF Phase
<1> QED
  BY <1>1 DEF Phase

LEMMA OpenSame == snapshots' = snapshots => OpenTokens' = OpenTokens
  BY DEF OpenTokens

LEMMA OutboxSame == queue' = queue /\ flight' = flight => Outbox' = Outbox
  BY DEF Outbox

(* The mapping by its names.                                                  *)
LEMMA MappedVars ==
    /\ Phase' = Phase /\ OpenTokens' = OpenTokens /\ Outbox' = Outbox /\ delivered' = delivered
          => UNCHANGED Alerts!vars
  BY DEF Alerts!vars, Phase, OpenTokens, Outbox

(* Steps the service does not see.                                            *)
Unseen ==
    \/ \E t \in Tokens, p \in Prices : PriceReceived(t, p)
    \/ \E key \in Keys : RemoveTasks(key)
    \/ RemoveDone \/ IoStart \/ IoExit \/ NextTimer \/ TakeResult
    \/ \E w \in Watchers : TimerExpires(w) \/ HandleAborted(w) \/ CheckPrices(w)
    \/ \E s \in unread : ComparePrice(s)

LEMMA StepUnseen ==
    ASSUME IInv, Unseen
    PROVE  UNCHANGED Alerts!vars
<1>1. TypeOK /\ CheckInv /\ \A w \in Watchers : LateInv(w)
  BY DEF IInv
<1> USE DEF PhaseOf
<1>2. \A u \in Watchers : PhaseOf(u)' = PhaseOf(u)
  <2>1. CASE \E t \in Tokens, p \in Prices : PriceReceived(t, p)
    BY <2>1 DEF PriceReceived
  <2>2. CASE \/ \E key \in Keys : RemoveTasks(key)
             \/ RemoveDone \/ IoStart \/ IoExit \/ TakeResult
             \/ \E s \in unread : ComparePrice(s)
    BY <2>2 DEF RemoveTasks, RemoveDone, IoStart, IoExit, TakeResult, ComparePrice
  <2>3. CASE NextTimer
    BY <1>1, <2>3, NoneAssumption DEF NextTimer, TypeOK, CheckInv
  <2>4. ASSUME NEW w \in Watchers, TimerExpires(w) \/ HandleAborted(w)
        PROVE  \A u \in Watchers : PhaseOf(u)' = PhaseOf(u)
    BY <1>1, <2>4 DEF TimerExpires, HandleAborted, TypeOK
  <2>5. ASSUME NEW w \in Watchers, CheckPrices(w)
        PROVE  \A u \in Watchers : PhaseOf(u)' = PhaseOf(u)
    BY <1>1, <2>5, NoneAssumption DEF CheckPrices, TypeOK, CheckInv
  <2> QED
    BY <2>1, <2>2, <2>3, <2>4, <2>5 DEF Unseen
<1>3. snapshots' = snapshots /\ delivered' = delivered
  BY DEF Unseen, PriceReceived, RemoveTasks, RemoveDone, IoStart, IoExit, NextTimer,
         TakeResult, TimerExpires, HandleAborted, CheckPrices, ComparePrice
<1>4. Outbox' = Outbox
  <2>1. CASE TakeResult
    <3>1. /\ queue \in Seq(Result) /\ queue # << >> /\ flight = None
          /\ flight' = Head(queue) /\ queue' = Tail(queue)
      BY <1>1, <2>1 DEF TakeResult, TypeOK
    <3>2. Head(queue) \in Result
      BY <3>1
    <3>3. flight' # None
      BY <3>1, <3>2, NoneAssumption
    <3>4. <<Head(queue)>> \o Tail(queue) = queue
      BY <3>1
    <3> QED
      BY <3>1, <3>3, <3>4 DEF Outbox
  <2>2. CASE ~TakeResult
    <3>1. queue' = queue /\ flight' = flight
      BY <2>2 DEF Unseen, PriceReceived, RemoveTasks, RemoveDone, IoStart, IoExit, NextTimer,
                  TimerExpires, HandleAborted, CheckPrices, ComparePrice
    <3> QED
      BY <3>1, OutboxSame
  <2> QED
    BY <2>1, <2>2
<1> QED
  BY <1>2, <1>3, <1>4, PhaseSame, OpenSame, MappedVars

-----------------------------------------------------------------------------
(* The steps the service sees.                                                *)

(* The constructor opens an alert.                                            *)
LEMMA ScheduleOpens ==
    ASSUME IInv, NEW w \in Watchers, NEW key \in Keys, NEW percentage \in Percentages,
           NEW T \in SUBSET Tokens, ScheduleTask(w, key, percentage, T)
    PROVE  Alerts!Open(w, TokensOf(SnapshotOf(T)))
<1>1. TypeOK /\ task[w] = None
  BY DEF IInv, ScheduleTask
<1>2. task'[w] # None
  <2>1. task'[w] \in Task
    BY <1>1 DEF ScheduleTask, TypeOK, Task
  <2> QED
    BY <2>1, NoneAssumption
<1>3. Phase[w] = "unused" /\ PhaseOf(w)' = "active"
  BY <1>1, <1>2 DEF ScheduleTask, Phase, PhaseOf, TypeOK
<1>4. \A u \in Watchers \ {w} : PhaseOf(u)' = PhaseOf(u)
  BY <1>1 DEF ScheduleTask, PhaseOf, TypeOK
<1>5. Phase' = [Phase EXCEPT ![w] = "active"]
  BY <1>3, <1>4, PhaseChange
<1>6. OpenTokens' = [OpenTokens EXCEPT ![w] = TokensOf(SnapshotOf(T))]
  BY <1>1 DEF ScheduleTask, OpenTokens, TypeOK
<1>7. Outbox' = Outbox /\ delivered' = delivered
  BY OutboxSame DEF ScheduleTask
<1> QED
  BY <1>3, <1>5, <1>6, <1>7 DEF Alerts!Open, Phase, OpenTokens, Outbox

(* stop() and the erasure withdraw it.                                        *)
LEMMA RemovalWithdraws ==
    ASSUME IInv, NEW w \in Watchers, RemoveWatcher(w)
    PROVE  Alerts!Withdraw(w)
<1>1. TypeOK /\ LateInv(w) /\ w \in registry /\ task[w] # None
  BY DEF IInv, RemoveWatcher, Matching, LateInv
<1>2. Phase[w] = "active" /\ PhaseOf(w)' \in {"lingering", "over"}
  BY <1>1 DEF RemoveWatcher, Phase, PhaseOf, TypeOK
<1>3. \A u \in Watchers \ {w} : PhaseOf(u)' = PhaseOf(u)
  BY <1>1 DEF RemoveWatcher, PhaseOf, TypeOK
<1>4. Phase' = [Phase EXCEPT ![w] = PhaseOf(w)']
  BY <1>3, PhaseChange
<1>5. OpenTokens' = OpenTokens /\ Outbox' = Outbox /\ delivered' = delivered
  BY OpenSame, OutboxSame DEF RemoveWatcher
<1> QED
  BY <1>2, <1>4, <1>5 DEF Alerts!Withdraw, Phase, OpenTokens, Outbox

(* The end of a check tells about the tokens it has hit.  If it has hit none, *)
(* the last check of a removed watcher is all that ends.                      *)
LEMMA CheckFiresOrLapses ==
    ASSUME IInv, FinishCheck
    PROVE  \/ Alerts!Fire(checking, hits)
           \/ Alerts!Lapse(checking)
           \/ UNCHANGED Alerts!vars
<1>0. PICK w \in Watchers : w = checking
  BY DEF IInv, FinishCheck, TypeOK, CheckInv
<1>1. /\ TypeOK /\ CheckInv /\ LateInv(w)
      /\ task[w] # None /\ wait[w] = "none"
      /\ hits \subseteq TokensOf(snapshots[w])
  BY <1>0, NoneAssumption DEF IInv, FinishCheck, TypeOK, CheckInv, LateInv
<1>2. Phase[w] = IF w \in registry THEN "active" ELSE "lingering"
  BY <1>0, <1>1 DEF Phase, PhaseOf
<1>3. \A u \in Watchers \ {w} : PhaseOf(u)' = PhaseOf(u)
  BY <1>0, <1>1, NoneAssumption DEF FinishCheck, PhaseOf
<1>4. PhaseOf(w)' = IF w \in registry THEN "active" ELSE "over"
  <2>1. CASE w \in registry
    BY <1>0, <1>1, <2>1, NoneAssumption DEF FinishCheck, PhaseOf
  <2>2. CASE w \notin registry
    <3>1. ~timer[w]
      BY <1>1, <2>2 DEF LateInv
    <3>2. ~Rearms /\ checking' = None
      BY <1>0, <3>1 DEF FinishCheck, Rearms
    <3> QED
      BY <1>0, <1>1, <2>2, <3>2, NoneAssumption DEF FinishCheck, PhaseOf
  <2> QED
    BY <2>1, <2>2
<1>5. Phase' = [Phase EXCEPT ![w] = IF w \in registry THEN "active" ELSE "over"]
  BY <1>3, <1>4, PhaseChange
<1>6. delivered' = delivered /\ flight' = flight
  BY DEF FinishCheck
<1>7. TokensOf(Remaining) = TokensOf(snapshots[w]) \ hits
  BY <1>0, <1>1 DEF Remaining, TokensOf, TypeOK, Snapshot
<1>8. CASE hits = {}
  <2>1. Remaining = snapshots[w]
    BY <1>0, <1>8 DEF Remaining
  <2>2. snapshots' = snapshots /\ queue' = queue
    BY <1>0, <1>1, <1>8, <2>1 DEF FinishCheck, TypeOK
  <2>3. OpenTokens' = OpenTokens /\ Outbox' = Outbox
    BY <1>6, <2>2, OpenSame, OutboxSame
  <2>4. CASE w \in registry
    <3>1. Phase' = Phase
      BY <1>2, <1>5, <2>4 DEF Phase
    <3> QED
      BY <1>6, <2>3, <3>1, MappedVars
  <2>5. CASE w \notin registry
    BY <1>0, <1>2, <1>5, <1>6, <2>3, <2>5 DEF Alerts!Lapse, Phase, OpenTokens, Outbox
  <2> QED
    BY <2>4, <2>5
<1>9. CASE hits # {}
  <2> DEFINE r == [watcher |-> w, tokens |-> hits]
  <2>1. r \in Result
    BY <1>1 DEF Result, TypeOK
  <2>2. queue' = Append(queue, r) /\ queue \in Seq(Result)
    BY <1>0, <1>1, <1>9 DEF FinishCheck, TypeOK
  <2> HIDE DEF r
  <2>3. Outbox' = Append(Outbox, r)
    <3>1. CASE flight = None
      BY <1>6, <2>2, <3>1 DEF Outbox
    <3>2. CASE flight # None
      <4>1. flight \in Result
        BY <1>1, <3>2 DEF TypeOK
      <4>2. <<flight>> \o Append(queue, r) = Append(<<flight>> \o queue, r)
        BY <2>1, <2>2, <4>1
      <4> QED
        BY <1>6, <2>2, <3>2, <4>2 DEF Outbox
    <3> QED
      BY <3>1, <3>2
  <2>4. OpenTokens' = [OpenTokens EXCEPT ![w] = @ \ hits]
    BY <1>0, <1>1, <1>7 DEF FinishCheck, OpenTokens, TypeOK
  <2>5. hits \subseteq OpenTokens[w] /\ Phase[w] \in {"active", "lingering"}
    BY <1>1, <1>2 DEF OpenTokens
  <2>6. Phase' = [Phase EXCEPT ![w] = IF @ = "active" THEN @ ELSE "over"]
    BY <1>2, <1>5 DEF Phase
  <2> QED
    BY <1>0, <1>6, <1>9, <2>3, <2>4, <2>5, <2>6 DEF Alerts!Fire, Phase, OpenTokens, Outbox, r
<1> QED
  BY <1>8, <1>9

(* A D-Bus call that returns delivers the first notice of the outbox.         *)
LEMMA OutboxHead ==
    ASSUME TypeOK, flight # None
    PROVE  Outbox # << >> /\ Head(Outbox) = flight /\ Tail(Outbox) = queue
<1>1. flight \in Result /\ queue \in Seq(Result)
  BY DEF TypeOK
<1>2. /\ <<flight>> \o queue # << >>
      /\ Head(<<flight>> \o queue) = flight
      /\ Tail(<<flight>> \o queue) = queue
  BY <1>1
<1> QED
  BY <1>2 DEF Outbox

LEMMA SendDelivers ==
    ASSUME IInv, SendResult
    PROVE  Alerts!Deliver
<1>1. Outbox # << >> /\ Head(Outbox) = flight /\ Tail(Outbox) = queue
  BY OutboxHead DEF IInv, SendResult
<1>2. Outbox' = queue /\ delivered' = delivered \cup Notices(flight)
  BY DEF SendResult, Outbox
<1>3. snapshots' = snapshots /\ \A u \in Watchers : PhaseOf(u)' = PhaseOf(u)
  BY DEF SendResult, PhaseOf
<1>4. Phase' = Phase /\ OpenTokens' = OpenTokens
  BY <1>3, PhaseSame, OpenSame
<1> QED
  BY <1>1, <1>2, <1>4 DEF Alerts!Deliver, Alerts!Notices, Notices, Phase, OpenTokens, Outbox

(* The death of the process forgets every alert and every notice.             *)
LEMMA DeathRestarts ==
    ASSUME IInv, SendFails \/ DestroyedTimerFaults
    PROVE  Alerts!Restart
<1>1. Terminated /\ TypeOK
  BY DEF IInv, SendFails, DestroyedTimerFaults
<1>2. \A u \in Watchers :
         /\ Phase[u] = "unused" <=> task[u] = None
         /\ PhaseOf(u)' = IF task[u] = None THEN "unused" ELSE "over"
  BY <1>1, NoneAssumption DEF Terminated, Phase, PhaseOf
<1>3. Phase' = [u \in Watchers |-> IF Phase[u] = "unused" THEN "unused" ELSE "over"]
  <2>1. Phase' = [u \in Watchers |-> PhaseOf(u)']
    BY DEF Phase
  <2> QED
    BY <1>2, <2>1
<1>4. OpenTokens' = [u \in Watchers |-> {}] /\ Outbox' = << >>
  BY <1>1 DEF Terminated, OpenTokens, Outbox, TokensOf
<1>5. \/ delivered' = delivered
      \/ Outbox # << >> /\ delivered' = delivered \cup Notices(Head(Outbox))
  BY <1>1, OutboxHead DEF SendFails, DestroyedTimerFaults
<1> QED
  BY <1>3, <1>4, <1>5 DEF Alerts!Restart, Alerts!Notices, Notices, Phase, OpenTokens, Outbox

-----------------------------------------------------------------------------
(* Every behaviour of progress_tasks is one of a price alert service: it      *)
(* tells about a token of an alert at most once, speaks at most once after    *)
(* the alert was withdrawn, and hands its notices over in order, through      *)
(* every race on the timers and every death of the process.                   *)
THEOREM Refinement == Spec => ImplementsPriceAlerts
<1>1. Init => Alerts!Init
  <2> SUFFICES ASSUME Init
               PROVE  Alerts!Init
    OBVIOUS
  <2>1. Phase = [w \in Watchers |-> "unused"]
    BY DEF Init, Phase, PhaseOf
  <2>2. OpenTokens = [w \in Watchers |-> {}] /\ Outbox = << >> /\ delivered = {}
    BY DEF Init, OpenTokens, TokensOf, Outbox
  <2> QED
    BY <2>1, <2>2 DEF Alerts!Init, Phase, OpenTokens, Outbox
<1>2. IInv /\ [Next]_vars => [Alerts!Next]_(Alerts!vars)
  <2> SUFFICES ASSUME IInv, [Next]_vars
               PROVE  [Alerts!Next]_(Alerts!vars)
    OBVIOUS
  <2>1. CASE Unseen
    BY <2>1, StepUnseen
  <2>2. ASSUME NEW w \in Watchers, NEW key \in Keys, NEW percentage \in Percentages,
               NEW T \in SUBSET Tokens, ScheduleTask(w, key, percentage, T)
        PROVE  Alerts!Next
    <3>1. TokensOf(SnapshotOf(T)) \in SUBSET Tokens
      BY DEF TokensOf, SnapshotOf
    <3> QED
      BY <2>2, <3>1, ScheduleOpens DEF Alerts!Next
  <2>3. ASSUME NEW w \in Watchers, RemoveWatcher(w)
        PROVE  Alerts!Next
    BY <2>3, RemovalWithdraws DEF Alerts!Next
  <2>4. CASE FinishCheck
    <3>1. checking \in Watchers /\ hits \in SUBSET Tokens
      BY <2>4 DEF FinishCheck, IInv, TypeOK, CheckInv
    <3> QED
      BY <2>4, <3>1, CheckFiresOrLapses DEF Alerts!Next
  <2>5. CASE SendResult
    BY <2>5, SendDelivers DEF Alerts!Next
  <2>6. CASE SendFails \/ DestroyedTimerFaults
    BY <2>6, DeathRestarts DEF Alerts!Next
  <2>7. CASE UNCHANGED vars
    <3>1. snapshots' = snapshots /\ \A u \in Watchers : PhaseOf(u)' = PhaseOf(u)
      BY <2>7 DEF vars, PhaseOf
    <3>2. Outbox' = Outbox /\ delivered' = delivered
      BY <2>7, OutboxSame DEF vars
    <3> QED
      BY <3>1, <3>2, PhaseSame, OpenSame, MappedVars
  <2> QED
    BY <2>1, <2>2, <2>3, <2>4, <2>5, <2>6, <2>7 DEF Next, Feed, DBus, Io, Sender, Unseen
<1> QED
  BY <1>1, <1>2, Invariance, PTL DEF Spec, ImplementsPriceAlerts, Alerts!Spec
=============================================================================
