---------------------------- MODULE AccountTasks ----------------------------
(* How an account comes to be monitored.  A session of http_stream queues a   *)
(* task; a writer thread publishes it to the thread of account_monitor that   *)
(* serves its exchange; that thread adds a user stream and queues a status,   *)
(* which is published back; a thread of http_stream appends it to the deque   *)
(* monitoredTaskResults, where the session looks every 100 ms, for 20 s.      *)
(*                                                                            *)
(* The deque has no lock.  A session keeps an iterator over its sleep, while  *)
(* others append, erase and pop, so iterators are modelled as libstdc++ has   *)
(* them: they name a cell, and erase moves whichever side of it is shorter.   *)
(* A result is represented by the request that caused it.                     *)
EXTENDS Integers, Sequences, SequencesExt

CONSTANTS Requests,     (* POST /add_account_monitoring, each sent once        *)
          TaskIds,      (* task_id, chosen by the client                       *)
          Exchanges,    (* exchanges accounts are held at                      *)
          MaxSessions,  (* bound: requests in progress at a time               *)
          MaxPolls,     (* looks at the deque in 20 s (200 in the code)        *)
          MaxBacklog,   (* resultBufferLimit (5000 in the code)                *)
          None          (* no request, no answer                               *)

ASSUME ExchangeAssumption == Exchanges \subseteq {"binance", "kucoin", "okex"}
ASSUME BoundAssumption == {MaxSessions, MaxPolls, MaxBacklog} \subseteq Nat \ {0}
ASSUME NoneAssumption == None \notin Requests

VARIABLES request,    (* what each request asks for, None before it is sent    *)
          phase,      (* where its session is in queue_account_stream_tasks    *)
          polls,      (* now, in looks at the deque                            *)
          iter,       (* its iterator, as an offset from begin() plus one      *)
          answer,     (* the result it was answered with, else None            *)
          tasks,      (* taskMonitorQueue                                      *)
          wire,       (* tasks published to each exchange's thread             *)
          listening,  (* is that thread's socket connected?                    *)
          streams,    (* requests with a user stream, of each exchange         *)
          ioRunning,  (* has runIOContext started the io thread?               *)
          statuses,   (* monitorStatusResults                                  *)
          replies,    (* results published to http_stream                      *)
          hearing,    (* is http_stream's receiving socket connected?          *)
          results,    (* monitoredTaskResults                                  *)
          handled,    (* history: requests account_monitor has dealt with      *)
          severed,    (* history: those whose process has died since           *)
          overlapped  (* history: have two requests been in progress at once?  *)

session == <<request, phase, polls, iter, answer, overlapped>>
network == <<wire, listening, replies, hearing>>
monitor == <<streams, ioRunning, statuses, handled, severed>>
vars == <<session, tasks, results, network, monitor>>

Phases == {"unsent", "waiting", "sleeping", "taking", "answered", "refused", "dropped"}
InProgress == {r \in Requests : phase[r] \in {"waiting", "sleeping", "taking"}}
End == Len(results) + 1
Nowhere == [e \in Exchanges |-> << >>]
Nobody == [e \in Exchanges |-> FALSE]

Init == /\ request = [r \in Requests |-> None]
        /\ phase = [r \in Requests |-> "unsent"]
        /\ polls = [r \in Requests |-> 0]
        /\ iter = [r \in Requests |-> 0]
        /\ answer = [r \in Requests |-> None]
        /\ tasks = << >>
        /\ wire = Nowhere
        /\ listening = Nobody
        /\ streams = [e \in Exchanges |-> {}]
        /\ ioRunning = FALSE
        /\ statuses = << >>
        /\ replies = << >>
        /\ hearing = FALSE
        /\ results = << >>
        /\ handled = {}
        /\ severed = {}
        /\ overlapped = FALSE
-----------------------------------------------------------------------------
(* Sessions of http_stream.                                                   *)

MonitorUserAccount(r, id, e) ==
    /\ phase[r] = "unsent"
    /\ Cardinality(InProgress) < MaxSessions
    /\ request' = [request EXCEPT ![r] = [task |-> id, exchange |-> e]]
    /\ phase' = [phase EXCEPT ![r] = "waiting"]
    /\ tasks' = Append(tasks, r)
    /\ overlapped' = (overlapped \/ InProgress # {})
    /\ UNCHANGED <<polls, iter, answer, results, network, monitor>>

Own(r) == {i \in DOMAIN results : request[results[i]].task = request[r].task}

(* find_if: the first result with the task id, or end().                      *)
Poll(r) ==
    /\ phase[r] = "waiting"
    /\ IF Own(r) = {} THEN /\ phase' = [phase EXCEPT ![r] = "sleeping"]
                           /\ iter' = [iter EXCEPT ![r] = End]
       ELSE /\ phase' = [phase EXCEPT ![r] = "taking"]
            /\ \E i \in Own(r) : /\ \A j \in Own(r) : i <= j
                                 /\ iter' = [iter EXCEPT ![r] = i]
    /\ UNCHANGED <<request, polls, answer, overlapped, tasks, results, network, monitor>>

(* After the sleep the old end() is compared with the new one: if something   *)
(* was appended they differ, and the loop ends as if a result had been found. *)
(* The faulty variant does not advance the clock.                             *)
PollsUncounted(r) == polls[r]
PollsAfter(r) == polls[r] + 1

Wake(r) ==
    /\ phase[r] = "sleeping"
    /\ polls' = [polls EXCEPT ![r] = PollsAfter(r)]
    /\ phase' = [phase EXCEPT ![r] = IF iter[r] # End THEN "taking"
                                     ELSE IF PollsAfter(r) < MaxPolls THEN "waiting"
                                     ELSE "refused"]
    /\ UNCHANGED <<request, iter, answer, overlapped, tasks, results, network, monitor>>

(* Iterators of the other sessions after begin() has moved up a cell.         *)
Shifted(r) == [q \in Requests |-> IF q # r /\ phase[q] \in {"sleeping", "taking"}
                                  THEN iter[q] - 1 ELSE iter[q]]

(* std::deque::erase; the faulty variant forgets it.                          *)
EraseForgotten(r, i) == UNCHANGED <<results, iter>>
Erase(r, i) ==
    /\ results' = RemoveAt(results, i)
    /\ iter' = IF i - 1 < Len(results) \div 2 THEN Shifted(r) ELSE iter

TakeResult(r) ==
    /\ phase[r] = "taking"
    /\ iter[r] \in DOMAIN results
    /\ answer' = [answer EXCEPT ![r] = results[iter[r]]]
    /\ phase' = [phase EXCEPT ![r] = "answered"]
    /\ Erase(r, iter[r])
    /\ UNCHANGED <<request, polls, overlapped, tasks, network, monitor>>

(* The cell is not in the deque any more.  Reading it and erasing it may kill *)
(* http_stream ...                                                            *)
TakeFaults(r) ==
    /\ phase[r] = "taking"
    /\ iter[r] \notin DOMAIN results
    /\ phase' = [q \in Requests |-> IF q \in InProgress THEN "dropped" ELSE phase[q]]
    /\ iter' = [q \in Requests |-> 0]
    /\ tasks' = << >>
    /\ results' = << >>
    /\ replies' = << >>
    /\ hearing' = FALSE
    /\ listening' = Nobody
    /\ wire' \in {wire, Nowhere}
    /\ UNCHANGED <<request, polls, answer, overlapped, monitor>>

(* ... or answer the request with what the cell used to hold, at the expense  *)
(* of another result.                                                         *)
TakeGarbage(r) ==
    /\ phase[r] = "taking"
    /\ iter[r] \notin DOMAIN results
    /\ \E q \in handled : answer' = [answer EXCEPT ![r] = q]
    /\ phase' = [phase EXCEPT ![r] = "answered"]
    /\ \E i \in DOMAIN results : Erase(r, i)
    /\ UNCHANGED <<request, polls, overlapped, tasks, network, monitor>>
-----------------------------------------------------------------------------
(* The two other threads of http_stream.                                      *)

(* A publisher drops what nobody is connected to receive.                     *)
WriteTask ==
    /\ tasks # << >>
    /\ LET r == Head(tasks)
           e == request[r].exchange
       IN  wire' = IF listening[e] THEN [wire EXCEPT ![e] = Append(@, r)] ELSE wire
    /\ tasks' = Tail(tasks)
    /\ UNCHANGED <<session, results, listening, replies, hearing, monitor>>

(* At the limit the oldest result goes, and begin() moves up a cell.  The     *)
(* faulty variant notices the limit when it is passed.                        *)
LimitPassed == Len(results) > MaxBacklog
LimitReached == Len(results) = MaxBacklog

ReceiveResult ==
    /\ replies # << >>
    /\ replies' = Tail(replies)
    /\ IF LimitReached
       THEN /\ results' = Append(Tail(results), Head(replies))
            /\ iter' = Shifted(None)
       ELSE /\ results' = Append(results, Head(replies))
            /\ UNCHANGED iter
    /\ UNCHANGED <<request, phase, polls, answer, overlapped, tasks, wire, listening,
                   hearing, monitor>>
-----------------------------------------------------------------------------
(* account_monitor.                                                           *)

Connect(e) == /\ ~listening[e]
              /\ listening' = [listening EXCEPT ![e] = TRUE]
              /\ UNCHANGED <<session, tasks, results, wire, replies, hearing, monitor>>

ConnectReplies == /\ ~hearing
                  /\ hearing' = TRUE
                  /\ UNCHANGED <<session, tasks, results, wire, listening, replies, monitor>>

(* addOkexAccountStream has an empty body, and the kucoin thread does not     *)
(* call runIOContext.  In the faulty variant the binance thread does not.     *)
Adds(e) == e # "okex"
RunsIoForOkex(e) == e = "okex"
RunsIo(e) == e # "kucoin"

MonitorAccount(e) ==
    /\ wire[e] # << >>
    /\ LET r == Head(wire[e])
       IN  /\ streams' = IF Adds(e) THEN [streams EXCEPT ![e] = @ \cup {r}] ELSE streams
           /\ statuses' = Append(statuses, r)
           /\ handled' = handled \cup {r}
    /\ wire' = [wire EXCEPT ![e] = Tail(@)]
    /\ ioRunning' = (ioRunning \/ RunsIo(e))
    /\ UNCHANGED <<session, tasks, results, listening, replies, hearing, severed>>

WriteStatus ==
    /\ statuses # << >>
    /\ statuses' = Tail(statuses)
    /\ replies' = IF hearing THEN Append(replies, Head(statuses)) ELSE replies
    /\ UNCHANGED <<session, tasks, results, wire, listening, hearing, streams,
                   ioRunning, handled, severed>>

(* account_monitor dies and is started again: it has no streams, and its      *)
(* sockets connect anew.  Nobody sends the tasks again.                       *)
MonitorRestarts ==
    /\ streams' = [e \in Exchanges |-> {}]
    /\ ioRunning' = FALSE
    /\ statuses' = << >>
    /\ severed' = handled
    /\ wire' = Nowhere
    /\ listening' = Nobody
    /\ hearing' = FALSE
    /\ UNCHANGED <<session, tasks, results, replies, handled>>
-----------------------------------------------------------------------------
Next ==
    \/ \E r \in Requests :
          \/ \E id \in TaskIds, e \in Exchanges : MonitorUserAccount(r, id, e)
          \/ Poll(r) \/ Wake(r) \/ TakeResult(r) \/ TakeFaults(r) \/ TakeGarbage(r)
    \/ WriteTask
    \/ ReceiveResult
    \/ \E e \in Exchanges : Connect(e) \/ MonitorAccount(e)
    \/ ConnectReplies
    \/ WriteStatus
    \/ MonitorRestarts

Spec == Init /\ [][Next]_vars

(* A session is a loop on a thread of its own: nothing but its sleep delays   *)
(* it.  Nothing is assumed of the network and of account_monitor.             *)
Fairness == \A r \in Requests :
                /\ WF_vars(Poll(r)) /\ WF_vars(Wake(r))
                /\ WF_vars(TakeResult(r) \/ TakeFaults(r) \/ TakeGarbage(r))

FairSpec == Spec /\ Fairness
-----------------------------------------------------------------------------
(* Types of all variables; tasks and results are of requests that were sent.  *)
Sent == {r \in Requests : phase[r] # "unsent"}
TypeOK ==
    /\ request \in [Requests -> [task : TaskIds, exchange : Exchanges] \cup {None}]
    /\ phase \in [Requests -> Phases]
    /\ polls \in [Requests -> 0..MaxPolls]
    /\ iter \in [Requests -> Int]
    /\ answer \in [Requests -> handled \cup {None}]
    /\ {tasks, statuses, replies, results} \subseteq Seq(Sent)
    /\ wire \in [Exchanges -> Seq(Sent)]
    /\ listening \in [Exchanges -> BOOLEAN]
    /\ streams \in [Exchanges -> SUBSET Sent]
    /\ ioRunning \in BOOLEAN
    /\ hearing \in BOOLEAN
    /\ Len(results) <= MaxBacklog
    /\ severed \subseteq handled
    /\ overlapped \in BOOLEAN

(* The stream of a request exists and its handlers are run.                   *)
Monitored(r) == r \in streams[request[r].exchange] /\ ioRunning

(* Whatever result a session runs off with, if it tells of a binance account, *)
(* that account is monitored, unless account_monitor has died since: the      *)
(* stream and the io thread come before the answer, over both processes.      *)
AnswerTellsTruth ==
    \A r \in Requests :
        LET q == answer[r]
        IN  q # None /\ q \notin severed /\ request[q].exchange = "binance" => Monitored(q)

(* Requests that come one at a time, none of which was given up, get their    *)
(* own answers: the iterator that outlives the sleep then points at the right *)
(* result, and no earlier result is left to be found by the same task id.     *)
AloneGetsOwn ==
    ~overlapped /\ (\A r \in Requests : phase[r] \notin {"refused", "dropped"}) =>
        \A r \in Requests : answer[r] \in {None, r}

(* Every request is answered in the end, whatever is lost on the way.         *)
EveryRequestEnds ==
    \A r \in Requests : phase[r] = "waiting" ~> phase[r] \in {"answered", "refused", "dropped"}
-----------------------------------------------------------------------------
(* What is inductive, for the proofs.                                         *)

(* A result tells of a request account_monitor has dealt with, and a task is  *)
(* on its way to the thread of its exchange.                                  *)
KnownInv ==
    /\ \A r \in Sent : request[r] \in [task : TaskIds, exchange : Exchanges]
    /\ handled \subseteq Sent
    /\ {statuses, replies, results} \subseteq Seq(handled)
    /\ \A e \in Exchanges : wire[e] \in Seq({r \in Sent : request[r].exchange = e})
PollsInv == \A r \in Requests : phase[r] \in {"unsent", "waiting", "sleeping"} => polls[r] < MaxPolls
MonitoredInv == \A q \in handled \ severed : request[q].exchange = "binance" => Monitored(q)

(* As long as requests come one at a time and none is given up, there is one  *)
(* thing under way at most, which belongs to the one in progress.             *)
NoneGivenUp == \A r \in Requests : phase[r] \notin {"refused", "dropped"}
Lanes == <<tasks, wire, statuses, replies, results>>
Quiet == Lanes = <<<< >>, Nowhere, << >>, << >>, << >>>>
Travels(r) ==
    \/ Quiet
    \/ Lanes = <<<<r>>, Nowhere, << >>, << >>, << >>>>
    \/ \E e \in Exchanges : Lanes = <<<< >>, [Nowhere EXCEPT ![e] = <<r>>], << >>, << >>, << >>>>
    \/ Lanes = <<<< >>, Nowhere, <<r>>, << >>, << >>>>
    \/ Lanes = <<<< >>, Nowhere, << >>, <<r>>, << >>>>
    \/ Lanes = <<<< >>, Nowhere, << >>, << >>, <<r>>>>
OneAtATime ==
    /\ \A r \in Requests : answer[r] \in {None, r}
    /\ InProgress = {} => Quiet
    /\ \A r \in InProgress :
          /\ InProgress = {r}
          /\ Travels(r)
          /\ phase[r] = "sleeping" => iter[r] = 1
          /\ phase[r] = "taking" => iter[r] = 1 /\ results = <<r>>
AloneInv == ~overlapped /\ NoneGivenUp => OneAtATime

IInv == TypeOK /\ KnownInv /\ PollsInv /\ MonitoredInv /\ AloneInv
=============================================================================
