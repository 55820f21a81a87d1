------------------------- MODULE BinancePriceStream -------------------------
(* One binance price stream of price_monitor                                 *)
(* (price_monitor/src/binance_price_stream.cpp): it fetches the instruments  *)
(* once, connects to a stream of all tickers and reads.  A connection that   *)
(* is lost is made again, beginning with the name; a connection that cannot  *)
(* be made is given up.                                                       *)
(*                                                                            *)
(* As in OkexPriceStream an action is one handler, and the control callback  *)
(* runs in the middle of a read, which is then aborted with its websocket.   *)
EXTENDS Naturals, FiniteSets

VARIABLES
    alive,      \* price_monitor runs
    pending,    \* asynchronous operations of the connection: see Operations
    ws          \* m_sslWebStream: "none", "raw" (no websocket yet) or "open"

vars == <<alive, pending, ws>>

Operations == {"instruments", "resolve", "connect", "tls", "upgrade", "read",
               "aborted_read"}
(* Operations whose handlers use *m_sslWebStream without a test.             *)
NeedWebsocket == {"instruments", "connect", "tls", "upgrade", "read"}

Init == alive = TRUE /\ pending = {"instruments"} /\ ws = "raw"

(* autorestart: a new process, and what it begins with.                       *)
Fresh == pending' = {"instruments"} /\ ws' = "raw"
Reborn == ~alive /\ alive' = TRUE /\ Fresh

Completes(op) == alive /\ op \in pending
Become(op) == pending' = (pending \ {op})
Start(op, next) == pending' = (pending \ {op}) \cup {next}
-----------------------------------------------------------------------------
(* rest_api_on_data_received, initiate_websocket_connection                  *)
InstrumentsArrive ==
    /\ Completes("instruments") /\ Start("instruments", "resolve")
    /\ UNCHANGED <<alive, ws>>

(* websocket_connect_to_resolved_names constructs a websocket.               *)
Resolved ==
    /\ Completes("resolve") /\ Start("resolve", "connect")
    /\ ws' = "raw"
    /\ UNCHANGED alive

Connected ==
    /\ Completes("connect") /\ Start("connect", "tls")
    /\ UNCHANGED <<alive, ws>>
TlsDone ==
    /\ Completes("tls") /\ Start("tls", "upgrade")
    /\ UNCHANGED <<alive, ws>>
Upgraded ==
    /\ Completes("upgrade") /\ Start("upgrade", "read")
    /\ ws' = "open"
    /\ UNCHANGED alive

(* An error before the first read is logged, and that is all; so is an        *)
(* answer that cannot be parsed, and a name of the host that is refused.      *)
SetupFails(op) ==
    /\ Completes(op) /\ Become(op)
    /\ UNCHANGED <<alive, ws>>
-----------------------------------------------------------------------------
(* interpret_generic_messages: prices go to the sink.                        *)
ReadMessage ==
    /\ Completes("read") /\ ws = "open"
    /\ UNCHANGED vars

(* A lost connection and a close frame both begin again with the name.        *)
Lost(rest) ==
    /\ Completes("read") /\ ws = "open"
    /\ pending' = {"resolve"} \cup rest
    /\ ws' = "none"
    /\ UNCHANGED alive
ReadFails == Lost({})
CloseFrame == Lost({"aborted_read"})

(* A read that ends as aborted is not followed by anything, with or without  *)
(* a close frame.                                                             *)
ReadAborted ==
    /\ Completes("read") /\ Become("read")
    /\ UNCHANGED <<alive, ws>>

(* The handler of the aborted read leaves it at that (the faulty variant     *)
(* takes the abortion for a lost connection), ...                            *)
ReconnectsToo(op) == Start(op, "resolve")
LeavesIt(op) == Become(op)
AbortedReadEnds ==
    /\ Completes("aborted_read") /\ LeavesIt("aborted_read")
    /\ UNCHANGED <<alive, ws>>

(* ... or the rest of the read, on the destroyed websocket, faults.          *)
DestroyedFaults ==
    /\ Completes("aborted_read")
    /\ alive' = FALSE /\ UNCHANGED <<pending, ws>>
-----------------------------------------------------------------------------
Connection ==
    \/ InstrumentsArrive \/ Resolved \/ Connected \/ TlsDone \/ Upgraded
    \/ \E op \in {"instruments", "resolve", "connect", "tls", "upgrade"} : SetupFails(op)
    \/ ReadMessage \/ ReadFails \/ ReadAborted \/ CloseFrame
    \/ AbortedReadEnds \/ DestroyedFaults
Next == Connection \/ Reborn

Spec == Init /\ [][Next]_vars
-----------------------------------------------------------------------------
TypeOK ==
    /\ alive \in BOOLEAN /\ pending \subseteq Operations
    /\ ws \in {"none", "raw", "open"}

(* The control callback and the read it interrupts start one attempt.        *)
(* Handlers dereference m_sslWebStream, which two others reset, without a    *)
(* test: whatever fails or closes while another operation ends, it is there. *)
OneChain ==
    /\ Cardinality(pending \ {"aborted_read"}) <= 1
    /\ pending \cap NeedWebsocket # {} => ws # "none"
-----------------------------------------------------------------------------
(* What is inductive, for the proofs.                                         *)
ChainInv ==
    /\ \A a, b \in pending \ {"aborted_read"} : a = b
    /\ pending \cap NeedWebsocket # {} => ws # "none"
IInv == TypeOK /\ ChainInv
=============================================================================
