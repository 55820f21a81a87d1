---------------------------- MODULE PriceReports -----------------------------
(* What a price report service promises its callers, whatever threads and    *)
(* timers it is built from.  A report shows the market as it was at one       *)
(* moment, for the tokens its task asked for; reports leave the service in    *)
(* the order of these moments.  A withdrawn task makes at most one more.  A   *)
(* restart of the service forgets every task, the market, and every report    *)
(* that has not left it; the ticks of the market go on.                       *)
EXTENDS Naturals, Sequences

CONSTANTS Watchers,   (* the tasks ever opened *)
          Tokens      (* the tokens of the market *)

VARIABLES phase,      (* life of each task *)
          watched,    (* the tokens each task asked for *)
          ticks,      (* changes of the market so far *)
          market,     (* the change that made the price of a token, 0 if unknown *)
          outbox,     (* reports made and not yet handed over *)
          shown       (* the last price of each token a user was shown *)

vars == <<phase, watched, ticks, market, outbox, shown>>

Unknown == [t \in Tokens |-> 0]

(* The market as a task sees it, and what users have seen after a report.     *)
Seen(T) == [t \in Tokens |-> IF t \in T THEN market[t] ELSE 0]
ShownAfter(report) ==
    [t \in Tokens |-> IF report.seen[t] = 0 THEN shown[t] ELSE report.seen[t]]

Init == /\ phase = [w \in Watchers |-> "unused"]
        /\ watched = [w \in Watchers |-> {}]
        /\ ticks = 0 /\ market = Unknown
        /\ outbox = << >>
        /\ shown = Unknown

Tick(t) == /\ ticks' = ticks + 1
           /\ market' = [market EXCEPT ![t] = ticks + 1]
           /\ UNCHANGED <<phase, watched, outbox, shown>>

Open(w, T) == /\ phase[w] = "unused"
              /\ phase' = [phase EXCEPT ![w] = "active"]
              /\ watched' = [watched EXCEPT ![w] = T]
              /\ UNCHANGED <<ticks, market, outbox, shown>>

(* A task that sees no price keeps quiet.                                     *)
Report(w) == /\ phase[w] \in {"active", "lingering"}
             /\ LET seen == Seen(watched[w]) IN
                outbox' = IF seen = Unknown THEN outbox
                          ELSE Append(outbox, [watcher |-> w, seen |-> seen])
             /\ phase' = [phase EXCEPT ![w] = IF @ = "active" THEN @ ELSE "over"]
             /\ UNCHANGED <<watched, ticks, market, shown>>

Withdraw(w) == /\ phase[w] = "active"
               /\ \E p \in {"lingering", "over"} : phase' = [phase EXCEPT ![w] = p]
               /\ UNCHANGED <<watched, ticks, market, outbox, shown>>

Deliver == /\ outbox # << >>
           /\ shown' = ShownAfter(Head(outbox))
           /\ outbox' = Tail(outbox)
           /\ UNCHANGED <<phase, watched, ticks, market>>

Restart == /\ phase' = [w \in Watchers |-> IF phase[w] = "unused" THEN "unused" ELSE "over"]
           /\ market' = Unknown
           /\ outbox' = << >>
           /\ \/ shown' = shown
              \/ outbox # << >> /\ shown' = ShownAfter(Head(outbox))
           /\ UNCHANGED <<watched, ticks>>

Next == \/ \E t \in Tokens : Tick(t)
        \/ \E w \in Watchers, T \in SUBSET Tokens : Open(w, T)
        \/ \E w \in Watchers : Report(w) \/ Withdraw(w)
        \/ Deliver
        \/ Restart

Spec == Init /\ [][Next]_vars
=============================================================================
