----------------------------- MODULE PriceAlerts -----------------------------
(* What a price alert service promises its callers, whatever threads and     *)
(* timers it is built from.  An alert watches a set of tokens.  It may tell   *)
(* the user about a token it still watches, and stops watching that token as  *)
(* it does so.  A withdrawn alert may speak at most once more, with whatever  *)
(* it was about to say.  Notices leave the service in the order they were     *)
(* raised.  A restart of the service forgets every alert and every notice     *)
(* that has not left it.                                                      *)
EXTENDS Sequences, FiniteSets

CONSTANTS Watchers,   (* the alerts ever opened *)
          Tokens      (* the tokens an alert may watch *)

VARIABLES phase,      (* life of each alert *)
          open,       (* tokens each alert has not told about yet *)
          outbox,     (* notices raised and not yet handed over *)
          delivered   (* <<alert, token>> pairs the user was told about *)

vars == <<phase, open, outbox, delivered>>

Phases == {"unused", "active", "lingering", "over"}

Notices(result) == {result.watcher} \X result.tokens

Init == /\ phase = [w \in Watchers |-> "unused"]
        /\ open = [w \in Watchers |-> {}]
        /\ outbox = << >>
        /\ delivered = {}

Open(w, T) == /\ phase[w] = "unused"
              /\ phase' = [phase EXCEPT ![w] = "active"]
              /\ open' = [open EXCEPT ![w] = T]
              /\ UNCHANGED <<outbox, delivered>>

Fire(w, T) == /\ phase[w] \in {"active", "lingering"}
              /\ T # {} /\ T \subseteq open[w]
              /\ open' = [open EXCEPT ![w] = @ \ T]
              /\ outbox' = Append(outbox, [watcher |-> w, tokens |-> T])
              /\ phase' = [phase EXCEPT ![w] = IF @ = "active" THEN @ ELSE "over"]
              /\ UNCHANGED delivered

Withdraw(w) == /\ phase[w] = "active"
               /\ \E p \in {"lingering", "over"} : phase' = [phase EXCEPT ![w] = p]
               /\ UNCHANGED <<open, outbox, delivered>>

Lapse(w) == /\ phase[w] = "lingering"
            /\ phase' = [phase EXCEPT ![w] = "over"]
            /\ UNCHANGED <<open, outbox, delivered>>

Deliver == /\ outbox # << >>
           /\ delivered' = delivered \cup Notices(Head(outbox))
           /\ outbox' = Tail(outbox)
           /\ UNCHANGED <<phase, open>>

Restart == /\ phase' = [w \in Watchers |-> IF phase[w] = "unused" THEN "unused" ELSE "over"]
           /\ open' = [w \in Watchers |-> {}]
           /\ outbox' = << >>
           /\ \/ delivered' = delivered
              \/ outbox # << >> /\ delivered' = delivered \cup Notices(Head(outbox))

Next == \/ \E w \in Watchers, T \in SUBSET Tokens : Open(w, T) \/ Fire(w, T)
        \/ \E w \in Watchers : Withdraw(w) \/ Lapse(w)
        \/ Deliver
        \/ Restart

Spec == Init /\ [][Next]_vars
=============================================================================
