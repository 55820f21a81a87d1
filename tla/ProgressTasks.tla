---------------------------- MODULE ProgressTasks ----------------------------
(* The progress_tasks process: alerts on a percentage change of a price.      *)
(* Four kinds of threads share its state.                                     *)
(*   - one price thread per exchange inserts the latest price of a token;     *)
(*   - the D-Bus thread schedules and removes tasks, one call at a time;      *)
(*   - the io thread runs the timer handlers of every watcher;                *)
(*   - the sender thread hands each result to price_result_stream.            *)
(* A watcher is one progress_based_watch_price_t object.  m_periodicTimer is  *)
(* touched by the D-Bus thread and by the io thread with no lock between      *)
(* them, and so is modelled with a step for the test and a step for the use.  *)
EXTENDS Integers, Sequences, FiniteSets

CONSTANTS Tokens,       (* instrument names of one exchange and trade type    *)
          Prices,       (* prices an exchange may announce                    *)
          Percentages,  (* percentages a task may ask for, positive or not    *)
          Keys,         (* <user_id, task_id> pairs                           *)
          Watchers,     (* objects that may be constructed, each once         *)
          Unlisted,     (* no price of the token has been received            *)
          None          (* no task, no watcher, no result                     *)

ASSUME DataAssumption == /\ Prices \subseteq Nat
                         /\ Percentages \subseteq Int
                         /\ Unlisted \notin Prices

(* priced is history: the tokens that had a price when the task came.        *)
Task == [key : Keys, percentage : Percentages, tokens : SUBSET Tokens,
         priced : SUBSET Tokens]
Snapshot == [token : Tokens, base : Prices]
Result == [watcher : Watchers, tokens : SUBSET Tokens]

ASSUME NoneAssumption == None \notin Watchers \cup Keys \cup Task \cup Result

VARIABLES instruments,  (* uniqueInstruments: the last price of each token    *)
          task,         (* m_task of each watcher, None before construction   *)
          registry,     (* watchers in global_task_list                       *)
          snapshots,    (* m_snapshots of each watcher                        *)
          timer,        (* does m_periodicTimer hold a timer?                 *)
          wait,         (* the handler passed to async_wait                   *)
          removing,     (* key the D-Bus thread is removing, or None          *)
          ioState,      (* where the io thread is                             *)
          checking,     (* watcher whose check_prices runs, or None           *)
          unread,       (* snapshots check_prices has still to compare        *)
          hits,         (* tokens check_prices has put in its result          *)
          queue,        (* scheduled_task_results                             *)
          flight,       (* result the sender has popped, or None              *)
          delivered,    (* history: <<watcher, token>> pairs handed over      *)
          lateChecks    (* history: checks begun after removal, per watcher   *)

vars == <<instruments, task, registry, snapshots, timer, wait, removing,
          ioState, checking, unread, hits, queue, flight, delivered, lateChecks>>

Notices(result) == {result.watcher} \X result.tokens
TokensOf(S) == {s.token : s \in S}

(* A hundred times the price the constructor stores for the comparator.       *)
Target(percentage, base) ==
    LET t == base * percentage
    IN  IF percentage < 0 THEN base * 100 - t ELSE base * 100 + t

(* m_comparator(target, current), the current price read under the lock of    *)
(* the instrument set; a token that is not there is skipped.                  *)
Reached(percentage, base, current) ==
    /\ current # Unlisted
    /\ IF percentage < 0 THEN Target(percentage, base) <= current * 100
                         ELSE Target(percentage, base) >= current * 100

Init == /\ instruments = [t \in Tokens |-> Unlisted]
        /\ task = [w \in Watchers |-> None]
        /\ registry = {}
        /\ snapshots = [w \in Watchers |-> {}]
        /\ timer = [w \in Watchers |-> FALSE]
        /\ wait = [w \in Watchers |-> "none"]
        /\ removing = None
        /\ ioState = "unstarted"
        /\ checking = None
        /\ unread = {}
        /\ hits = {}
        /\ queue = << >>
        /\ flight = None
        /\ delivered = {}
        /\ lateChecks = [w \in Watchers |-> 0]
-----------------------------------------------------------------------------
(* Price threads.                                                             *)

PriceReceived(t, p) ==
    /\ instruments' = [instruments EXCEPT ![t] = p]
    /\ UNCHANGED <<task, registry, snapshots, timer, wait, removing, ioState,
                   checking, unread, hits, queue, flight, delivered, lateChecks>>
-----------------------------------------------------------------------------
(* D-Bus thread.                                                              *)

(* A token with no price yet is left out of the snapshot without a word; the  *)
(* faulty variant copies the missing price.                                   *)
SnapshotUnchecked(T) == {[token |-> t, base |-> instruments[t]] : t \in T}
SnapshotOf(T) ==
    {[token |-> t, base |-> instruments[t]] : t \in {u \in T : instruments[u] # Unlisted}}

(* Constructor, push_back, run() and, the first time, the thread that runs    *)
(* the io_context.  Nothing here looks whether that thread is still there.    *)
ScheduleTask(w, key, percentage, T) ==
    /\ removing = None
    /\ task[w] = None
    /\ task' = [task EXCEPT ![w] = [key |-> key, percentage |-> percentage, tokens |-> T,
                                    priced |-> {t \in T : instruments[t] # Unlisted}]]
    /\ registry' = registry \cup {w}
    /\ snapshots' = [snapshots EXCEPT ![w] = SnapshotOf(T)]
    /\ timer' = [timer EXCEPT ![w] = TRUE]
    /\ wait' = [wait EXCEPT ![w] = "pending"]
    /\ ioState' = IF ioState = "unstarted" THEN "starting" ELSE ioState
    /\ UNCHANGED <<instruments, removing, checking, unread, hits, queue, flight,
                   delivered, lateChecks>>

Matching(key) == {w \in registry : task[w].key = key}

RemoveTasks(key) ==
    /\ removing = None
    /\ Matching(key) # {}
    /\ removing' = key
    /\ UNCHANGED <<instruments, task, registry, snapshots, timer, wait, ioState,
                   checking, unread, hits, queue, flight, delivered, lateChecks>>

(* stop() and erase of one watcher of the loop.  cancel() only reaches a      *)
(* handler whose timer has not expired yet.                                   *)
RemoveWatcher(w) ==
    /\ removing # None
    /\ w \in Matching(removing)
    /\ registry' = registry \ {w}
    /\ timer' = [timer EXCEPT ![w] = FALSE]
    /\ wait' = [wait EXCEPT ![w] = IF timer[w] /\ @ = "pending" THEN "aborted" ELSE @]
    /\ UNCHANGED <<instruments, task, snapshots, removing, ioState, checking,
                   unread, hits, queue, flight, delivered, lateChecks>>

RemoveDone ==
    /\ removing # None
    /\ Matching(removing) = {}
    /\ removing' = None
    /\ UNCHANGED <<instruments, task, registry, snapshots, timer, wait, ioState,
                   checking, unread, hits, queue, flight, delivered, lateChecks>>
-----------------------------------------------------------------------------
(* The io thread.                                                             *)

(* start_io_context_if_stopped reaches io_context::run().                     *)
IoStart ==
    /\ ioState = "starting"
    /\ ioState' = "polling"
    /\ UNCHANGED <<instruments, task, registry, snapshots, timer, wait, removing,
                   checking, unread, hits, queue, flight, delivered, lateChecks>>

(* run() returns when no handler is outstanding.  The static initialiser that *)
(* started the thread has run, so nothing calls run() again.                  *)
IoExit ==
    /\ ioState = "polling"
    /\ \A w \in Watchers : wait[w] = "none"
    /\ ioState' = "exited"
    /\ UNCHANGED <<instruments, task, registry, snapshots, timer, wait, removing,
                   checking, unread, hits, queue, flight, delivered, lateChecks>>

(* The reactor finds the 100 ms of a timer elapsed and queues its handler.    *)
TimerExpires(w) ==
    /\ ioState = "polling"
    /\ wait[w] = "pending"
    /\ wait' = [wait EXCEPT ![w] = "expired"]
    /\ UNCHANGED <<instruments, task, registry, snapshots, timer, removing, ioState,
                   checking, unread, hits, queue, flight, delivered, lateChecks>>

(* The handler of a cancelled timer returns at once.                          *)
HandleAborted(w) ==
    /\ ioState = "polling"
    /\ wait[w] = "aborted"
    /\ wait' = [wait EXCEPT ![w] = "none"]
    /\ UNCHANGED <<instruments, task, registry, snapshots, timer, removing, ioState,
                   checking, unread, hits, queue, flight, delivered, lateChecks>>

(* The handler of an expired timer enters check_prices.                       *)
CheckPrices(w) ==
    /\ ioState = "polling"
    /\ wait[w] = "expired"
    /\ wait' = [wait EXCEPT ![w] = "none"]
    /\ ioState' = "checking"
    /\ checking' = w
    /\ unread' = snapshots[w]
    /\ hits' = {}
    /\ lateChecks' = [lateChecks EXCEPT ![w] = IF w \in registry THEN @ ELSE @ + 1]
    /\ UNCHANGED <<instruments, task, registry, snapshots, timer, removing, queue,
                   flight, delivered>>

(* One turn of its loop: find_item locks the prices for one token at a time.  *)
ComparePrice(s) ==
    /\ ioState = "checking"
    /\ s \in unread
    /\ unread' = unread \ {s}
    /\ hits' = IF Reached(task[checking].percentage, s.base, instruments[s.token])
               THEN hits \cup {s.token}
               ELSE hits
    /\ UNCHANGED <<instruments, task, registry, snapshots, timer, wait, removing,
                   ioState, checking, queue, flight, delivered, lateChecks>>

(* The faulty variants keep the reported tokens, forget to test the timer or  *)
(* go on only after a hit.                                                    *)
RemainingUnerased == snapshots[checking]
Remaining == {s \in snapshots[checking] : s.token \notin hits}
RearmsUntested == Remaining # {}
RearmsAfterHit == Remaining # {} /\ timer[checking] /\ hits # {}
Rearms == Remaining # {} /\ timer[checking]

(* After the loop: forget the tokens that are reported, queue the result and, *)
(* if no token is left, stop().  Otherwise next_timer tests m_periodicTimer.  *)
FinishCheck ==
    /\ ioState = "checking"
    /\ unread = {}
    /\ snapshots' = [snapshots EXCEPT ![checking] = Remaining]
    /\ queue' = IF hits = {} THEN queue
                ELSE Append(queue, [watcher |-> checking, tokens |-> hits])
    /\ hits' = {}
    /\ IF Rearms
       THEN ioState' = "rearming" /\ UNCHANGED <<checking, timer>>
       ELSE /\ ioState' = "polling"
            /\ checking' = None
            /\ timer' = IF Remaining = {} THEN [timer EXCEPT ![checking] = FALSE] ELSE timer
    /\ UNCHANGED <<instruments, task, registry, wait, removing, unread, flight,
                   delivered, lateChecks>>

(* next_timer uses the timer it tested.  When the D-Bus thread has destroyed  *)
(* it since, the wait still goes through: the storage of the optional is part *)
(* of the watcher, which the handler keeps alive.                             *)
NextTimer ==
    /\ ioState = "rearming"
    /\ wait' = [wait EXCEPT ![checking] = "pending"]
    /\ ioState' = "polling"
    /\ checking' = None
    /\ UNCHANGED <<instruments, task, registry, snapshots, timer, removing, unread,
                   hits, queue, flight, delivered, lateChecks>>
-----------------------------------------------------------------------------
(* The sender thread, and the end of the process.                             *)

TakeResult ==
    /\ flight = None
    /\ queue # << >>
    /\ flight' = Head(queue)
    /\ queue' = Tail(queue)
    /\ UNCHANGED <<instruments, task, registry, snapshots, timer, wait, removing,
                   ioState, checking, unread, hits, delivered, lateChecks>>

SendResult ==
    /\ flight # None
    /\ delivered' = delivered \cup Notices(flight)
    /\ flight' = None
    /\ UNCHANGED <<instruments, task, registry, snapshots, timer, wait, removing,
                   ioState, checking, unread, hits, queue, lateChecks>>

(* The process dies, supervisord starts it again, and nothing was on disk.    *)
Terminated ==
    /\ instruments' = [t \in Tokens |-> Unlisted]
    /\ registry' = {}
    /\ snapshots' = [w \in Watchers |-> {}]
    /\ timer' = [w \in Watchers |-> FALSE]
    /\ wait' = [w \in Watchers |-> "none"]
    /\ removing' = None
    /\ ioState' = "unstarted"
    /\ checking' = None
    /\ unread' = {}
    /\ hits' = {}
    /\ queue' = << >>
    /\ flight' = None
    /\ UNCHANGED <<task, lateChecks>>

(* The D-Bus error of a failed call leaves the sender thread uncaught.  The   *)
(* other side may have handled the call before its reply went wrong.          *)
SendFails ==
    /\ flight # None
    /\ delivered' \in {delivered, delivered \cup Notices(flight)}
    /\ Terminated

(* The other outcome of a timer that is used after it was destroyed.          *)
DestroyedTimerFaults ==
    /\ ioState = "rearming"
    /\ ~timer[checking]
    /\ delivered' = delivered
    /\ Terminated
-----------------------------------------------------------------------------
Feed == \E t \in Tokens, p \in Prices : PriceReceived(t, p)
DBus == \/ \E w \in Watchers, key \in Keys, percentage \in Percentages,
              T \in SUBSET Tokens \ {{}} : ScheduleTask(w, key, percentage, T)
        \/ \E key \in Keys : RemoveTasks(key)
        \/ \E w \in Watchers : RemoveWatcher(w)
        \/ RemoveDone
Io == \/ IoStart
      \/ IoExit
      \/ \E w \in Watchers : TimerExpires(w) \/ HandleAborted(w) \/ CheckPrices(w)
      \/ \E s \in unread : ComparePrice(s)
      \/ FinishCheck
      \/ NextTimer
      \/ DestroyedTimerFaults
Sender == TakeResult \/ SendResult \/ SendFails

Next == Feed \/ DBus \/ Io \/ Sender

Spec == Init /\ [][Next]_vars

(* The io_context runs its ready handlers first come first served, so a       *)
(* watcher whose timer elapsed is not passed over for ever; the sender loops  *)
(* on a blocking get(); the D-Bus thread finishes a removal it has begun.     *)
(* Nothing is assumed of users and of exchanges.                              *)
Fairness ==
    /\ WF_vars(RemoveDone \/ \E w \in Watchers : RemoveWatcher(w))
    /\ WF_vars(IoStart)
    /\ \A w \in Watchers : SF_vars(TimerExpires(w)) /\ SF_vars(CheckPrices(w))
    /\ WF_vars(\E s \in unread : ComparePrice(s))
    /\ WF_vars(FinishCheck)
    /\ WF_vars(NextTimer)
    /\ WF_vars(TakeResult)
    /\ WF_vars(SendResult \/ SendFails)

FairSpec == Spec /\ Fairness
-----------------------------------------------------------------------------
(* Types of all variables.                                                    *)
TypeOK ==
    /\ instruments \in [Tokens -> Prices \cup {Unlisted}]
    /\ task \in [Watchers -> Task \cup {None}]
    /\ registry \subseteq Watchers
    /\ snapshots \in [Watchers -> SUBSET Snapshot]
    /\ timer \in [Watchers -> BOOLEAN]
    /\ wait \in [Watchers -> {"none", "pending", "expired", "aborted"}]
    /\ removing \in Keys \cup {None}
    /\ ioState \in {"unstarted", "starting", "polling", "checking", "rearming", "exited"}
    /\ checking \in Watchers \cup {None}
    /\ unread \subseteq Snapshot
    /\ hits \subseteq Tokens
    /\ queue \in Seq(Result)
    /\ flight \in Result \cup {None}
    /\ delivered \subseteq Watchers \X Tokens
    /\ lateChecks \in [Watchers -> Nat]

(* A user is told about a token of an alert at most once: no two results on   *)
(* their way, and none on its way and one delivered, name the same token of   *)
(* the same watcher (check_prices erases what it reports).                    *)
Told == delivered \cup (IF flight = None THEN {} ELSE Notices(flight))
NotifiedOnce ==
    /\ \A i, j \in DOMAIN queue : i # j => Notices(queue[i]) \cap Notices(queue[j]) = {}
    /\ \A i \in DOMAIN queue : Notices(queue[i]) \cap Told = {}
    /\ flight # None => Notices(flight) \cap delivered = {}

(* Whatever the race between stop() and next_timer() comes to, a watcher that *)
(* was removed starts at most one more check.                                 *)
OneLateCheck == \A w \in Watchers : lateChecks[w] <= 1

(* The user was told, or is about to be: a result is queued or in flight.    *)
Raised(w, t) ==
    \/ \E i \in DOMAIN queue : <<w, t>> \in Notices(queue[i])
    \/ flight # None /\ <<w, t>> \in Notices(flight)
Reported(w, t) == Raised(w, t) \/ <<w, t>> \in delivered

(* A watcher in the registry waits for its next check, is in one, or has     *)
(* reported every token that had a price when it was scheduled: no such      *)
(* token is forgotten, whatever was cancelled, missed or failed.  A token    *)
(* that had no price then is watched by nobody and an alert may stop without *)
(* a word, although the assertion at progress_based_task.cpp:76 (which a     *)
(* release does not have) takes it that there is none; the property says     *)
(* nothing of those.                                                          *)
ChainUnbroken ==
    \A w \in registry :
        \/ w = checking
        \/ timer[w] /\ wait[w] \in {"pending", "expired"}
        \/ ~timer[w] /\ wait[w] = "none" /\ \A t \in task[w].priced : Reported(w, t)

(* The price of a watched token is at its target.                             *)
Due(w, t) ==
    /\ w \in registry
    /\ \E s \in snapshots[w] :
          s.token = t /\ Reached(task[w].percentage, s.base, instruments[t])

(* While the io thread runs, a price that stays at the target of an alert is  *)
(* reported, and the report leaves the process, unless the alert is removed   *)
(* or the process ends first.                                                 *)
AlertGetsOut ==
    \A w \in Watchers, t \in Tokens :
        LET P == (Due(w, t) /\ ioState # "exited") \/ Raised(w, t)
        IN  P ~> ~P

(* A price has changed by a percentage, up or down.                          *)
ChangedBy(percentage, base, current) ==
    IF percentage < 0 THEN current * 100 <= base * (100 + percentage)
                      ELSE current * 100 >= base * (100 + percentage)

(* README.md:12, "Receive notifications directly on Telegram when a price     *)
(* threshold is met": a listed alert does not go on watching a price that    *)
(* has changed by its percentage and stays there.                             *)
Met(w, t) ==
    /\ w \in registry
    /\ \E s \in snapshots[w] :
          /\ s.token = t /\ instruments[t] # Unlisted
          /\ ChangedBy(task[w].percentage, s.base, instruments[t])
ThresholdIsNotified ==
    \A w \in Watchers, t \in Tokens : Met(w, t) ~> ~Met(w, t)

(* README.md:16, "Percentage Change: Be alerted if a coin's price changes by  *)
(* a specific percentage": what is reported has changed by it.                *)
PercentageHonoured ==
    [][\A s \in unread : s.token \in hits' \ hits =>
          ChangedBy(task[checking].percentage, s.base, instruments[s.token])]_vars
-----------------------------------------------------------------------------
(* Refinement of PriceAlerts.  A removed watcher lingers while a check of it  *)
(* is running, queued or, on a destroyed timer, waited for.                   *)
PhaseOf(w) ==
    IF task[w] = None THEN "unused"
    ELSE IF w \in registry THEN "active"
    ELSE IF checking = w \/ wait[w] \in {"pending", "expired"} THEN "lingering"
    ELSE "over"

Alerts == INSTANCE PriceAlerts
            WITH phase <- [w \in Watchers |-> PhaseOf(w)],
                 open <- [w \in Watchers |-> TokensOf(snapshots[w])],
                 outbox <- IF flight = None THEN queue ELSE <<flight>> \o queue,
                 delivered <- delivered

(* The threads and timers together keep the promise of PriceAlerts.           *)
ImplementsPriceAlerts == Alerts!Spec
-----------------------------------------------------------------------------
(* What makes the safety properties inductive.                                *)

(* How much of its one late check a watcher has left.                         *)
LateInv(w) ==
    /\ lateChecks[w] <= 1
    /\ w \in registry \/ task[w] = None => lateChecks[w] = 0
    /\ w \in registry => task[w] # None
    /\ w \notin registry => ~timer[w]
    /\ w \notin registry /\ wait[w] \in {"pending", "expired"} => lateChecks[w] = 0
    /\ w \notin registry /\ checking = w /\ ioState = "rearming" => lateChecks[w] = 0
    /\ checking = w => wait[w] = "none" /\ task[w] # None
    /\ checking = w /\ w \in registry => timer[w]
    /\ task[w] = None => wait[w] = "none" /\ snapshots[w] = {}

(* Who is armed, and where the tokens of an alert are.                       *)
ArmedInv ==
    \A w \in registry : \/ w = checking
                        \/ timer[w] /\ wait[w] \in {"pending", "expired"}
                        \/ ~timer[w] /\ wait[w] = "none" /\ snapshots[w] = {}
CoverInv ==
    \A w \in registry : \A t \in task[w].priced :
        t \in TokensOf(snapshots[w]) \/ Reported(w, t)

(* The check in progress works on tokens its watcher still watches.           *)
CheckInv ==
    /\ checking = None <=> ioState \notin {"checking", "rearming"}
    /\ ioState = "checking" => unread \subseteq snapshots[checking]
    /\ ioState = "checking" => hits \subseteq TokensOf(snapshots[checking])
    /\ ioState # "checking" => unread = {} /\ hits = {}

(* A token of which the user was or will be told is no longer watched.        *)
Silent(w, t) == task[w] # None /\ \A s \in snapshots[w] : s.token # t
NoticeInv ==
    /\ \A i \in DOMAIN queue : \A t \in queue[i].tokens : Silent(queue[i].watcher, t)
    /\ flight # None => \A t \in flight.tokens : Silent(flight.watcher, t)
    /\ \A n \in delivered : Silent(n[1], n[2])

IInv == /\ TypeOK
        /\ \A w \in Watchers : LateInv(w)
        /\ CheckInv
        /\ ArmedInv
        /\ CoverInv
        /\ NoticeInv
        /\ NotifiedOnce
=============================================================================
