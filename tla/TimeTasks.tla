------------------------------ MODULE TimeTasks ------------------------------
(* The time_tasks process: the prices of a set of tokens, sent at a fixed     *)
(* interval until the task is removed.  Its threads are those of              *)
(* ProgressTasks; its watchers never stop of their own accord.  A price is    *)
(* represented by its age: the number of the ticker that brought it.          *)
EXTENDS Integers, Sequences, FiniteSets

CONSTANTS Tokens,     (* instrument names of one exchange and trade type *)
          Keys,       (* <user_id, task_id> pairs                        *)
          Watchers,   (* objects that may be constructed, each once      *)
          None,       (* no task, no watcher, no result                  *)
          MaxTicks,   (* bound: tickers received                         *)
          MaxQueue    (* bound: results waiting for the sender           *)

Task == [key : Keys, tokens : SUBSET Tokens]
NoPrices == [t \in Tokens |-> 0]
Result == [watcher : Watchers, seen : [Tokens -> Nat] \ {NoPrices}]

ASSUME BoundAssumption == MaxTicks \in Nat /\ MaxQueue \in Nat
ASSUME NoneAssumption == None \notin Watchers \cup Keys \cup Task /\ None \notin Result

VARIABLES ticks,        (* tickers received so far                            *)
          instruments,  (* uniqueInstruments: the last price, 0 when unlisted *)
          task,         (* m_task of each watcher, None before construction   *)
          registry,     (* watchers in global_task_list                       *)
          timer,        (* does m_timer hold a timer?                         *)
          wait,         (* the handler passed to async_wait                   *)
          removing,     (* key the D-Bus thread is removing, or None          *)
          ioState,      (* where the io thread is                             *)
          fetching,     (* watcher whose fetch_prices runs, or None           *)
          prices,       (* what to_list told fetch_prices about its tokens    *)
          queue,        (* scheduled_task_results                             *)
          flight,       (* result the sender has popped, or None              *)
          shown,        (* history: the last price of each token sent on      *)
          lateFetches   (* history: fetches begun after removal, per watcher  *)

vars == <<ticks, instruments, task, registry, timer, wait, removing, ioState,
          fetching, prices, queue, flight, shown, lateFetches>>

Init == /\ ticks = 0
        /\ instruments = NoPrices
        /\ task = [w \in Watchers |-> None]
        /\ registry = {}
        /\ timer = [w \in Watchers |-> FALSE]
        /\ wait = [w \in Watchers |-> "none"]
        /\ removing = None
        /\ ioState = "unstarted"
        /\ fetching = None
        /\ prices = NoPrices
        /\ queue = << >>
        /\ flight = None
        /\ shown = NoPrices
        /\ lateFetches = [w \in Watchers |-> 0]
-----------------------------------------------------------------------------
(* Price threads.                                                             *)

PriceReceived(t) ==
    /\ ticks < MaxTicks
    /\ ticks' = ticks + 1
    /\ instruments' = [instruments EXCEPT ![t] = ticks + 1]
    /\ UNCHANGED <<task, registry, timer, wait, removing, ioState, fetching,
                   prices, queue, flight, shown, lateFetches>>
-----------------------------------------------------------------------------
(* D-Bus thread.                                                              *)

(* Constructor, push_back, run() and, the first time, the io thread.          *)
ScheduleTask(w, key, T) ==
    /\ removing = None
    /\ task[w] = None
    /\ task' = [task EXCEPT ![w] = [key |-> key, tokens |-> T]]
    /\ registry' = registry \cup {w}
    /\ timer' = [timer EXCEPT ![w] = TRUE]
    /\ wait' = [wait EXCEPT ![w] = "pending"]
    /\ ioState' = IF ioState = "unstarted" THEN "starting" ELSE ioState
    /\ UNCHANGED <<ticks, instruments, removing, fetching, prices, queue, flight,
                   shown, lateFetches>>

Matching(key) == {w \in registry : task[w].key = key}

RemoveTasks(key) ==
    /\ removing = None
    /\ Matching(key) # {}
    /\ removing' = key
    /\ UNCHANGED <<ticks, instruments, task, registry, timer, wait, ioState,
                   fetching, prices, queue, flight, shown, lateFetches>>

(* stop() and erase of one watcher of the loop.                               *)
RemoveWatcher(w) ==
    /\ removing # None
    /\ w \in Matching(removing)
    /\ registry' = registry \ {w}
    /\ timer' = [timer EXCEPT ![w] = FALSE]
    /\ wait' = [wait EXCEPT ![w] = IF timer[w] /\ @ = "pending" THEN "aborted" ELSE @]
    /\ UNCHANGED <<ticks, instruments, task, removing, ioState, fetching, prices,
                   queue, flight, shown, lateFetches>>

RemoveDone ==
    /\ removing # None
    /\ Matching(removing) = {}
    /\ removing' = None
    /\ UNCHANGED <<ticks, instruments, task, registry, timer, wait, ioState,
                   fetching, prices, queue, flight, shown, lateFetches>>
-----------------------------------------------------------------------------
(* The io thread.                                                             *)

IoStart ==
    /\ ioState = "starting"
    /\ ioState' = "polling"
    /\ UNCHANGED <<ticks, instruments, task, registry, timer, wait, removing,
                   fetching, prices, queue, flight, shown, lateFetches>>

(* run() returns when no handler is outstanding, and is not called again.     *)
IoExit ==
    /\ ioState = "polling"
    /\ \A w \in Watchers : wait[w] = "none"
    /\ ioState' = "exited"
    /\ UNCHANGED <<ticks, instruments, task, registry, timer, wait, removing,
                   fetching, prices, queue, flight, shown, lateFetches>>

TimerExpires(w) ==
    /\ ioState = "polling"
    /\ wait[w] = "pending"
    /\ wait' = [wait EXCEPT ![w] = "expired"]
    /\ UNCHANGED <<ticks, instruments, task, registry, timer, removing, ioState,
                   fetching, prices, queue, flight, shown, lateFetches>>

HandleAborted(w) ==
    /\ ioState = "polling"
    /\ wait[w] = "aborted"
    /\ wait' = [wait EXCEPT ![w] = "none"]
    /\ UNCHANGED <<ticks, instruments, task, registry, timer, removing, ioState,
                   fetching, prices, queue, flight, shown, lateFetches>>

(* fetch_prices copies the whole instrument set under its lock and picks the  *)
(* tokens of the task out of the copy.                                        *)
FetchPrices(w) ==
    /\ ioState = "polling"
    /\ wait[w] = "expired"
    /\ Len(queue) < MaxQueue
    /\ wait' = [wait EXCEPT ![w] = "none"]
    /\ ioState' = "fetching"
    /\ fetching' = w
    /\ prices' = [t \in Tokens |-> IF t \in task[w].tokens THEN instruments[t] ELSE 0]
    /\ lateFetches' = [lateFetches EXCEPT ![w] = IF w \in registry THEN @ ELSE @ + 1]
    /\ UNCHANGED <<ticks, instruments, task, registry, timer, removing, queue,
                   flight, shown>>

(* A result with no token is not sent.  The faulty variants send it, queue    *)
(* results at the front, forget to test the timer, or go on only after a      *)
(* result.                                                                    *)
ReportUnchecked == <<[watcher |-> fetching, seen |-> prices]>>
Report == IF prices = NoPrices THEN << >>
          ELSE <<[watcher |-> fetching, seen |-> prices]>>
QueuedFirst(results) == results \o queue
Queued(results) == queue \o results
RearmsUntested == TRUE
RearmsAfterReport == timer[fetching] /\ prices # NoPrices
Rearms == timer[fetching]

(* After the result is queued, or not, next_timer tests m_timer.              *)
FinishFetch ==
    /\ ioState = "fetching"
    /\ queue' = Queued(Report)
    /\ prices' = NoPrices
    /\ IF Rearms THEN ioState' = "rearming" /\ UNCHANGED fetching
                 ELSE ioState' = "polling" /\ fetching' = None
    /\ UNCHANGED <<ticks, instruments, task, registry, timer, wait, removing,
                   flight, shown, lateFetches>>

(* The timer it tested may have been destroyed since: see ProgressTasks.      *)
NextTimer ==
    /\ ioState = "rearming"
    /\ wait' = [wait EXCEPT ![fetching] = "pending"]
    /\ ioState' = "polling"
    /\ fetching' = None
    /\ UNCHANGED <<ticks, instruments, task, registry, timer, removing, prices,
                   queue, flight, shown, lateFetches>>
-----------------------------------------------------------------------------
(* The sender thread, and the end of the process.                             *)

TakeResult ==
    /\ flight = None
    /\ queue # << >>
    /\ flight' = Head(queue)
    /\ queue' = Tail(queue)
    /\ UNCHANGED <<ticks, instruments, task, registry, timer, wait, removing,
                   ioState, fetching, prices, shown, lateFetches>>

ShownAfter(result) ==
    [t \in Tokens |-> IF result.seen[t] = 0 THEN shown[t] ELSE result.seen[t]]

SendResult ==
    /\ flight # None
    /\ shown' = ShownAfter(flight)
    /\ flight' = None
    /\ UNCHANGED <<ticks, instruments, task, registry, timer, wait, removing,
                   ioState, fetching, prices, queue, lateFetches>>

(* The process dies and supervisord starts it again with nothing.             *)
Terminated ==
    /\ instruments' = NoPrices
    /\ registry' = {}
    /\ timer' = [w \in Watchers |-> FALSE]
    /\ wait' = [w \in Watchers |-> "none"]
    /\ removing' = None
    /\ ioState' = "unstarted"
    /\ fetching' = None
    /\ prices' = NoPrices
    /\ queue' = << >>
    /\ flight' = None
    /\ UNCHANGED <<ticks, task, lateFetches>>

(* The D-Bus error of a failed call leaves the sender thread uncaught.        *)
SendFails ==
    /\ flight # None
    /\ shown' \in {shown, ShownAfter(flight)}
    /\ Terminated

DestroyedTimerFaults ==
    /\ ioState = "rearming"
    /\ ~timer[fetching]
    /\ shown' = shown
    /\ Terminated
-----------------------------------------------------------------------------
Feed == \E t \in Tokens : PriceReceived(t)
DBus == \/ \E w \in Watchers, key \in Keys, T \in SUBSET Tokens \ {{}} :
              ScheduleTask(w, key, T)
        \/ \E key \in Keys : RemoveTasks(key)
        \/ \E w \in Watchers : RemoveWatcher(w)
        \/ RemoveDone
Io == \/ IoStart
      \/ IoExit
      \/ \E w \in Watchers : TimerExpires(w) \/ HandleAborted(w) \/ FetchPrices(w)
      \/ FinishFetch
      \/ NextTimer
      \/ DestroyedTimerFaults
Sender == TakeResult \/ SendResult \/ SendFails

Next == Feed \/ DBus \/ Io \/ Sender

Spec == Init /\ [][Next]_vars

(* The io_context runs its ready handlers first come first served; the sender *)
(* loops on a blocking get(); the D-Bus thread finishes what it has begun.    *)
Fairness ==
    /\ WF_vars(RemoveDone \/ \E w \in Watchers : RemoveWatcher(w))
    /\ WF_vars(IoStart)
    /\ \A w \in Watchers : SF_vars(TimerExpires(w)) /\ SF_vars(FetchPrices(w))
    /\ WF_vars(FinishFetch)
    /\ WF_vars(NextTimer)
    /\ WF_vars(TakeResult)
    /\ WF_vars(SendResult \/ SendFails)

FairSpec == Spec /\ Fairness
-----------------------------------------------------------------------------
(* Types of all variables.                                                    *)
TypeOK ==
    /\ ticks \in Nat
    /\ instruments \in [Tokens -> Nat]
    /\ task \in [Watchers -> Task \cup {None}]
    /\ registry \subseteq Watchers
    /\ timer \in [Watchers -> BOOLEAN]
    /\ wait \in [Watchers -> {"none", "pending", "expired", "aborted"}]
    /\ removing \in Keys \cup {None}
    /\ ioState \in {"unstarted", "starting", "polling", "fetching", "rearming", "exited"}
    /\ fetching \in Watchers \cup {None}
    /\ prices \in [Tokens -> Nat]
    /\ queue \in Seq(Result)
    /\ flight \in Result \cup {None}
    /\ shown \in [Tokens -> Nat]
    /\ lateFetches \in [Watchers -> Nat]

(* A watcher that was removed fetches prices at most once more, whatever the  *)
(* race between stop() on one thread and next_timer() on the other comes to.  *)
OneLateFetch == \A w \in Watchers : lateFetches[w] <= 1

(* A listed task always has its next report coming: its watcher is fetching,  *)
(* or holds a timer with a handler that was not cancelled.                    *)
ReportComing ==
    \A w \in registry : \/ w = fetching
                        \/ timer[w] /\ wait[w] \in {"pending", "expired"}

(* The price of a token a user is shown never goes back to an older one, over *)
(* all tasks that report the token and over restarts.                         *)
PricesMoveForward == [][\A t \in Tokens : shown'[t] >= shown[t]]_vars

(* While the io thread runs, a listed task reports again and again.           *)
ReportsKeepComing ==
    \A w \in Watchers : []<>(w \notin registry \/ ioState = "exited" \/ fetching = w)
-----------------------------------------------------------------------------
(* Refinement of PriceReports.  A report is made in the moment fetch_prices   *)
(* copies the instrument set, though it is queued later; a removed watcher    *)
(* lingers while its timer has expired or it is about to re-arm it.           *)
PhaseOf(w) ==
    IF task[w] = None THEN "unused"
    ELSE IF w \in registry THEN "active"
    ELSE IF wait[w] \in {"pending", "expired"} \/ (fetching = w /\ ioState = "rearming")
         THEN "lingering"
    ELSE "over"
Sending == IF flight = None THEN << >> ELSE <<flight>>
Fetched == IF prices = NoPrices THEN << >> ELSE <<[watcher |-> fetching, seen |-> prices]>>

Reports == INSTANCE PriceReports
             WITH phase <- [w \in Watchers |-> PhaseOf(w)],
                  watched <- [w \in Watchers |-> IF task[w] = None THEN {} ELSE task[w].tokens],
                  market <- instruments,
                  outbox <- Sending \o queue \o Fetched

(* Every report a user gets is the market at one moment, and users see these  *)
(* moments in their order, although the copy, the queueing and the sending    *)
(* are steps of two threads among removals, ticks and restarts; and a removed *)
(* task makes at most one more report.                                        *)
ImplementsPriceReports == Reports!Spec
-----------------------------------------------------------------------------
(* What makes the safety properties inductive.                                *)

(* How much of its one late fetch a watcher has left.                         *)
LateInv(w) ==
    /\ lateFetches[w] <= 1
    /\ w \in registry \/ task[w] = None => lateFetches[w] = 0
    /\ w \in registry => task[w] # None
    /\ timer[w] <=> w \in registry
    /\ w \notin registry /\ wait[w] \in {"pending", "expired"} => lateFetches[w] = 0
    /\ w \notin registry /\ fetching = w /\ ioState = "rearming" => lateFetches[w] = 0
    /\ fetching = w => wait[w] = "none" /\ task[w] # None
    /\ task[w] = None => wait[w] = "none"

FetchInv ==
    /\ fetching = None <=> ioState \notin {"fetching", "rearming"}
    /\ ioState # "fetching" => prices = NoPrices

(* Prices on their way to the user are in the order of their age: what was    *)
(* shown, the result in flight, the queue, the prices being fetched, the      *)
(* instrument set.  A token that a result does not have does not count, and   *)
(* a restart empties all but what was shown.                                  *)
Follows(t, older, newer) == newer[t] # 0 => older[t] <= newer[t]
OrderInv ==
    \A t \in Tokens :
        /\ shown[t] <= ticks /\ instruments[t] <= ticks
        /\ Follows(t, shown, instruments)
        /\ prices[t] <= instruments[t] /\ Follows(t, shown, prices)
        /\ \A i \in DOMAIN queue :
              /\ Follows(t, shown, queue[i].seen)
              /\ queue[i].seen[t] <= instruments[t]
              /\ Follows(t, queue[i].seen, prices)
              /\ \A j \in DOMAIN queue : i < j => Follows(t, queue[i].seen, queue[j].seen)
        /\ flight # None =>
              /\ Follows(t, shown, flight.seen)
              /\ flight.seen[t] <= instruments[t]
              /\ Follows(t, flight.seen, prices)
              /\ \A i \in DOMAIN queue : Follows(t, flight.seen, queue[i].seen)

IInv == /\ TypeOK
        /\ \A w \in Watchers : LateInv(w)
        /\ FetchInv
        /\ ReportComing
        /\ OrderInv
=============================================================================
