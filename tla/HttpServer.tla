----------------------------- MODULE HttpServer -----------------------------
(* The connections of http_stream (server.cpp, session.cpp) and the threads   *)
(* that serve them.  A session handles one request after the other; what a    *)
(* handler asks of another process it waits for on the thread it runs on, and *)
(* while every thread waits no handler of any session runs.                   *)
(* How a request is routed is the matter of Requests; here its handler may    *)
(* answer at once or make any of the calls.                                   *)
EXTENDS Naturals, FiniteSets

CONSTANTS Sessions,  (* connections at the same time                          *)
          Threads    (* number of threads that run the io_context             *)

VARIABLES accepting,  (* an async_accept is pending                           *)
          session     (* the phase of each connection, and the call it makes  *)

(* The kinds of calls: those whose error, or time-out, the handler turns into *)
(* an answer (schedule, stop, monitor an account), and those whose error no   *)
(* handler catches.                                                           *)
Caught == {"tasks"}
Telegram == {"text", "code", "password"}
Calls == {"list"} \cup Caught \cup Telegram

Free == [phase |-> "free", call |-> "none"]
Is(s, phase) == session[s].phase = phase
(* The faulty variant leaves the call of the last request behind.             *)
EnterOnly(s, phase) == session' = [session EXCEPT ![s].phase = phase]
Enter(s, phase) == session' = [session EXCEPT ![s] = [phase |-> phase, call |-> "none"]]
ThreadFree == Cardinality({s \in Sessions : Is(s, "running")}) < Threads

Init == accepting = TRUE /\ session = [s \in Sessions |-> Free]

(* A handler of session s that takes it from one phase to another.            *)
Handler(s, from, to) ==
    /\ ThreadFree /\ Is(s, from)
    /\ Enter(s, to)
    /\ UNCHANGED accepting
-----------------------------------------------------------------------------
(* onConnectionAccepted.  An error is logged, and nothing accepts again.      *)
Accept(s) == accepting /\ Handler(s, "free", "reading")
AcceptFails ==
    /\ accepting /\ ThreadFree
    /\ accepting' = FALSE
    /\ UNCHANGED session

(* on_data_read: at the end of the connection the socket is shut down, after  *)
(* an error (that of no request in five minutes, too) when it is answered.    *)
ReadFails(s) == Handler(s, "reading", "free")

(* A request has been received and its handler is ready to run.               *)
Arrive(s) ==
    /\ Is(s, "reading")
    /\ Enter(s, "arrived")
    /\ UNCHANGED accepting

(* handle_requests, up to the response or to the call it waits for.           *)
Start(s) ==
    /\ ThreadFree /\ Is(s, "arrived")
    /\ \/ Enter(s, "writing")
       \/ \E call \in Calls :
             session' = [session EXCEPT ![s] = [phase |-> "running", call |-> call]]
    /\ UNCHANGED accepting

CallReturns(s) ==
    /\ Is(s, "running")
    /\ Enter(s, "writing")
    /\ UNCHANGED accepting

(* http_stream ends, and supervisord starts it again.                         *)
ProcessDies == accepting' = TRUE /\ session' = [s \in Sessions |-> Free]

(* A D-Bus error, or twenty seconds without the answer of account_monitor.    *)
(* The faulty variant of the answer waits on.                                 *)
WaitsOn(s) == UNCHANGED <<accepting, session>>
AnswersError(s) == Enter(s, "writing") /\ UNCHANGED accepting
CallFails(s) ==
    /\ Is(s, "running")
    /\ IF session[s].call \in Caught THEN AnswersError(s) ELSE ProcessDies

(* on_data_written.  After an error the session does not read on, and nothing *)
(* closes its socket: the callbacks in m_endpoints keep the session alive.    *)
Written(s) == Handler(s, "writing", "reading")
WriteFails(s) == Handler(s, "writing", "stuck")
-----------------------------------------------------------------------------
Connection(s) ==
    \/ Accept(s) \/ ReadFails(s) \/ Arrive(s)
    \/ Written(s) \/ WriteFails(s)

(* Types of all variables; no more calls are waited for than there are        *)
(* threads, and none once the handler has gone on.                            *)
TypeOK ==
    /\ accepting \in BOOLEAN
    /\ session \in [Sessions -> [phase : {"free", "reading", "arrived", "running",
                                          "writing", "stuck"}, call : Calls \cup {"none"}]]
    /\ \A s \in Sessions : session[s].call # "none" <=> Is(s, "running")
    /\ Cardinality({s \in Sessions : Is(s, "running")}) <= Threads

(* Every request that arrives is answered, or goes down with the process,     *)
(* though handlers wait for other processes on the threads all sessions share.*)
RequestsAreAnswered ==
    \A s \in Sessions :
        session[s].phase \in {"arrived", "running"} ~> session[s].phase \in {"writing", "free"}
=============================================================================
