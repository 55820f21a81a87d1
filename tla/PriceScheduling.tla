--------------------------- MODULE PriceScheduling ---------------------------
(* How http_stream schedules, stops and lists price tasks.  Sessions run on   *)
(* several threads; each request is a series of D-Bus calls to two services,  *)
(* time_tasks and progress_tasks, which answer one call at a time and lose    *)
(* everything when they restart.  A request holds no lock across its calls,   *)
(* and any call may fail, before or after the service has acted on it.  The   *)
(* error of a call that adds or stops is answered; that of a listing is not   *)
(* caught and ends the process, with every session in it.                     *)
(* The services appear here by what TimeTasks and ProgressTasks make of a     *)
(* call: schedule adds to a list and answers TRUE, remove takes every task    *)
(* with the same user and task id off it.                                     *)
EXTENDS Naturals, Sequences, FiniteSets

CONSTANTS Sessions,           (* connections served at the same time           *)
          Users,              (* user_id                                       *)
          TaskIds,            (* task_id, chosen by the client                 *)
          TimeContracts,      (* contracts with an interval, each sent once    *)
          ProgressContracts,  (* contracts with a percentage, each sent once   *)
          MaxBatch,           (* bound: contracts of a request, ids of a stop  *)
          None                (* no user or task id                            *)

ASSUME KindAssumption == TimeContracts \cap ProgressContracts = {}
ASSUME BatchAssumption == MaxBatch \in Nat \ {0}

Keys == Users \X TaskIds
Contracts == TimeContracts \cup ProgressContracts

ASSUME NoneAssumption == None \notin Keys \cup Users

VARIABLES owner,      (* <<user, task id>> of each contract sent, else None     *)
          scheduled,  (* contracts in global_task_list of either service        *)
          session,    (* what each session is in the middle of                  *)
          acked,      (* history: contracts of requests answered NoError        *)
          revoked,    (* history: contracts a stop or a restart may have caught *)
          buried      (* history: contracts an answered stop was to remove      *)

vars == <<owner, scheduled, session, acked, revoked, buried>>

Ops == {"idle", "add", "stop", "list"}

(* contracts, keys, user: arguments not dealt with yet, where a listing for   *)
(* user None is for all; service: the one to call next, "none" after the      *)
(* second; targets: the contracts the answer is about; seen: what a listing   *)
(* has collected.                                                             *)
Session == [op : Ops, contracts : Seq(Contracts), keys : Seq(Keys),
            user : Users \cup {None}, service : {"time", "progress", "none"},
            targets : SUBSET Contracts, seen : SUBSET Contracts]

Idle == [op |-> "idle", contracts |-> << >>, keys |-> << >>, user |-> None,
         service |-> "time", targets |-> {}, seen |-> {}]

ElementsOf(seq) == {seq[i] : i \in DOMAIN seq}
Of(service) == IF service = "time" THEN TimeContracts ELSE ProgressContracts
Owned(key) == {c \in Contracts : owner[c] = key}
Caught(keys) == UNION {Owned(key) : key \in ElementsOf(keys)}
BeingAdded == UNION {session[s].targets : s \in {r \in Sessions : session[r].op = "add"}}
BeingStopped == UNION {ElementsOf(session[s].keys) : s \in {r \in Sessions : session[r].op = "stop"}}
Batches(S) == UNION {[1..n -> S] : n \in 1..MaxBatch}

Init == /\ owner = [c \in Contracts |-> None]
        /\ scheduled = {}
        /\ session = [s \in Sessions |-> Idle]
        /\ acked = {}
        /\ revoked = {}
        /\ buried = {}
-----------------------------------------------------------------------------
(* add_new_pricing_tasks.  A request whose contracts do not all pass the      *)
(* check is refused before the first call and is not modelled.                *)
AddRequest(s, key, batch) ==
    /\ session[s].op = "idle"
    /\ \A c \in ElementsOf(batch) : owner[c] = None
    /\ Cardinality(ElementsOf(batch)) = Len(batch)
    /\ owner' = [c \in Contracts |-> IF c \in ElementsOf(batch) THEN key ELSE owner[c]]
    /\ session' = [session EXCEPT ![s] = [Idle EXCEPT !.op = "add", !.contracts = batch,
                                                      !.targets = ElementsOf(batch)]]
    /\ revoked' = IF key \in BeingStopped THEN revoked \cup ElementsOf(batch) ELSE revoked
    /\ UNCHANGED <<scheduled, acked, buried>>

(* push_progress_based_task_to_wire or push_time_based_task_to_wire; both     *)
(* services answer TRUE whatever they are given.                              *)
PushTask(s) ==
    /\ session[s].op = "add"
    /\ session[s].contracts # << >>
    /\ scheduled' = scheduled \cup {Head(session[s].contracts)}
    /\ session' = [session EXCEPT ![s].contracts = Tail(@)]
    /\ UNCHANGED <<owner, acked, revoked, buried>>

AddReply(s) ==
    /\ session[s].op = "add"
    /\ session[s].contracts = << >>
    /\ acked' = acked \cup session[s].targets
    /\ session' = [session EXCEPT ![s] = Idle]
    /\ UNCHANGED <<owner, scheduled, revoked, buried>>

(* The D-Bus error passes through schedule_new_price_tasks, which undoes      *)
(* nothing, and is answered "JSON object is invalid".  The faulty variant     *)
(* leaves the rest of the request for the next one of the session.            *)
AddFailsHalfway(s) ==
    /\ session[s].op = "add"
    /\ session[s].contracts # << >>
    /\ session' = [session EXCEPT ![s].op = "idle"]
    /\ UNCHANGED <<owner, scheduled, acked, revoked, buried>>
AddFails(s) ==
    /\ session[s].op = "add"
    /\ session[s].contracts # << >>
    /\ scheduled' \in {scheduled, scheduled \cup {Head(session[s].contracts)}}
    /\ session' = [session EXCEPT ![s] = Idle]
    /\ UNCHANGED <<owner, acked, revoked, buried>>
-----------------------------------------------------------------------------
(* stop_prices_task: the time service, then the progress service, per id.     *)
StopRequest(s, user, ids) ==
    LET keys == [i \in DOMAIN ids |-> <<user, ids[i]>>]
    IN  /\ session[s].op = "idle"
        /\ session' = [session EXCEPT ![s] = [Idle EXCEPT !.op = "stop", !.keys = keys,
                                                          !.targets = Caught(keys) \ BeingAdded]]
        /\ revoked' = revoked \cup Caught(keys)
        /\ UNCHANGED <<owner, scheduled, acked, buried>>

(* What the next call takes off a list: the tasks with this user and task id. *)
(* The faulty variants ignore the user, or know one service only.             *)
RemovedOfAnyUser(s) ==
    {c \in Of(session[s].service) : owner[c] # None /\ owner[c][2] = Head(session[s].keys)[2]}
RemovedFromTime(s) == Owned(Head(session[s].keys)) \cap TimeContracts
RemovedBy(s) == Owned(Head(session[s].keys)) \cap Of(session[s].service)

RemoveTimeTask(s) ==
    /\ session[s].op = "stop"
    /\ session[s].keys # << >>
    /\ session[s].service = "time"
    /\ scheduled' = scheduled \ RemovedBy(s)
    /\ session' = [session EXCEPT ![s].service = "progress"]
    /\ UNCHANGED <<owner, acked, revoked, buried>>

RemoveProgressTask(s) ==
    /\ session[s].op = "stop"
    /\ session[s].keys # << >>
    /\ session[s].service = "progress"
    /\ scheduled' = scheduled \ RemovedBy(s)
    /\ session' = [session EXCEPT ![s].service = "time", ![s].keys = Tail(@)]
    /\ UNCHANGED <<owner, acked, revoked, buried>>

StopReply(s) ==
    /\ session[s].op = "stop"
    /\ session[s].keys = << >>
    /\ buried' = buried \cup session[s].targets
    /\ session' = [session EXCEPT ![s] = Idle]
    /\ UNCHANGED <<owner, scheduled, acked, revoked>>

StopFails(s) ==
    /\ session[s].op = "stop"
    /\ session[s].keys # << >>
    /\ scheduled' \in {scheduled, scheduled \ RemovedBy(s)}
    /\ session' = [session EXCEPT ![s] = Idle]
    /\ UNCHANGED <<owner, acked, revoked, buried>>
-----------------------------------------------------------------------------
(* get_price_tasks_for_user and get_price_tasks_for_all: one list after the   *)
(* other.                                                                     *)
OfUser(user) == {c \in Contracts : owner[c] # None /\ (user = None \/ owner[c][1] = user)}

ListRequest(s, user) ==
    /\ session[s].op = "idle"
    /\ session' = [session EXCEPT ![s] =
                     [Idle EXCEPT !.op = "list", !.user = user,
                                  !.targets = (acked \ revoked) \cap OfUser(user)]]
    /\ UNCHANGED <<owner, scheduled, acked, revoked, buried>>

(* The faulty variant forgets to select the tasks of the user.                *)
ListedOfAnyUser(s) == scheduled \cap Of(session[s].service)
Listed(s) == scheduled \cap Of(session[s].service) \cap OfUser(session[s].user)

ListService(s) ==
    /\ session[s].op = "list"
    /\ session[s].service # "none"
    /\ session' = [session EXCEPT
         ![s].seen = @ \cup Listed(s),
         ![s].service = IF @ = "time" THEN "progress" ELSE "none"]
    /\ UNCHANGED <<owner, scheduled, acked, revoked, buried>>

ListReply(s) ==
    /\ session[s].op = "list"
    /\ session[s].service = "none"
    /\ session' = [session EXCEPT ![s] = Idle]
    /\ UNCHANGED <<owner, scheduled, acked, revoked, buried>>
-----------------------------------------------------------------------------
(* A task service dies (its result sender let an error escape) and restarts.  *)
ServiceRestarts(service) ==
    /\ scheduled' = scheduled \ Of(service)
    /\ revoked' = revoked \cup {c \in Of(service) : owner[c] # None}
    /\ UNCHANGED <<owner, session, acked, buried>>

(* http_stream dies and restarts: no handler around a listing, or around a    *)
(* call to telegram_client, catches a D-Bus error, nor does ioContext.run().  *)
HttpStreamRestarts ==
    /\ session' = [s \in Sessions |-> Idle]
    /\ UNCHANGED <<owner, scheduled, acked, revoked, buried>>

Next ==
    \/ \E s \in Sessions :
          \/ \E key \in Keys, batch \in Batches(Contracts) : AddRequest(s, key, batch)
          \/ PushTask(s) \/ AddReply(s) \/ AddFails(s)
          \/ \E user \in Users, ids \in Batches(TaskIds) : StopRequest(s, user, ids)
          \/ RemoveTimeTask(s) \/ RemoveProgressTask(s) \/ StopReply(s) \/ StopFails(s)
          \/ \E user \in Users \cup {None} : ListRequest(s, user)
          \/ ListService(s) \/ ListReply(s)
    \/ HttpStreamRestarts
    \/ \E service \in {"time", "progress"} : ServiceRestarts(service)

Spec == Init /\ [][Next]_vars
-----------------------------------------------------------------------------
(* Types of all variables; a request leaves nothing behind in its session.    *)
TypeOK ==
    /\ owner \in [Contracts -> Keys \cup {None}]
    /\ scheduled \subseteq Contracts
    /\ session \in [Sessions -> Session]
    /\ \A s \in Sessions : session[s].op = "idle" => session[s] = Idle
    /\ acked \subseteq Contracts
    /\ revoked \subseteq Contracts
    /\ buried \subseteq Contracts

(* A request answered NoError has all its contracts running, whatever other   *)
(* sessions do, until a stop of its task id or a restart of its service.      *)
AcceptedRuns == acked \ revoked \subseteq scheduled

(* Once a stop is answered, nothing is left of the requests with that task id *)
(* that were settled when it began, in either service; no later step brings   *)
(* one back.                                                                  *)
StoppedIsGone == buried \cap scheduled = {}

(* A listing that has asked both services shows every contract that was       *)
(* accepted before it began and is still untouched when it ends, though the   *)
(* two lists are read at different times, and none of another user.           *)
ListingComplete ==
    \A s \in Sessions :
        session[s].op = "list" /\ session[s].service = "none" =>
            /\ session[s].targets \ revoked \subseteq session[s].seen
            /\ session[s].seen \subseteq OfUser(session[s].user)

(* A contract leaves a service's list only when a stop of its own task id has *)
(* begun or its service restarts, also while a failing stop is cut short.     *)
LeavesOnlyWhenRevoked == [][scheduled \ scheduled' \subseteq revoked']_vars
-----------------------------------------------------------------------------
(* What is inductive, for the proofs.                                         *)
Settled == {c \in Contracts : owner[c] # None}
OwnersInv == scheduled \cup acked \cup buried \subseteq Settled

AddInv(s) ==
    session[s].op = "add" =>
        /\ ElementsOf(session[s].contracts) \subseteq session[s].targets
        /\ session[s].targets \subseteq Settled
        /\ session[s].targets \ (ElementsOf(session[s].contracts) \cup revoked) \subseteq scheduled

(* A target still listed has the call that removes it ahead of it.            *)
RemovalAhead(s, c) ==
    \E i \in DOMAIN session[s].keys :
        /\ session[s].keys[i] = owner[c]
        /\ i = 1 /\ session[s].service = "progress" => c \in ProgressContracts

StopInv(s) ==
    session[s].op = "stop" =>
        /\ session[s].targets \subseteq Settled \ BeingAdded
        /\ \A c \in session[s].targets \cap scheduled : RemovalAhead(s, c)
        /\ \A key \in ElementsOf(session[s].keys) : Owned(key) \subseteq revoked

ListInv(s) ==
    session[s].op = "list" =>
        /\ session[s].targets \subseteq acked \cap OfUser(session[s].user)
        /\ session[s].seen \subseteq OfUser(session[s].user)
        /\ session[s].service # "time" =>
              (session[s].targets \cap TimeContracts) \ revoked \subseteq session[s].seen
        /\ session[s].service = "none" => session[s].targets \ revoked \subseteq session[s].seen

BuriedInv == buried \cap (scheduled \cup BeingAdded) = {}

IInv == /\ TypeOK
        /\ OwnersInv
        /\ AcceptedRuns
        /\ BuriedInv
        /\ \A s \in Sessions : AddInv(s) /\ StopInv(s) /\ ListInv(s)
=============================================================================
