--------------------------- MODULE OkexPriceStream --------------------------
(* One okex price stream of price_monitor                                    *)
(* (price_monitor/src/okex_price_stream.cpp): it fetches the instruments,    *)
(* connects, subscribes to all of them in one message, reads, and after any  *)
(* error starts again with the instruments.                                   *)
(*                                                                            *)
(* An action is one handler, or the half of it before or after the five      *)
(* seconds that report_error_and_retry sleeps: three threads run the         *)
(* io_context, and while a retry sleeps the others take the handlers of the  *)
(* connection that another retry has begun.  The retry that wakes up then    *)
(* replaces the resolver, the websocket and the HTTP client of that one.     *)
(* Where several retries meet, this module lets them sleep at the same time  *)
(* whatever the number of threads.                                            *)
EXTENDS Naturals, FiniteSets

CONSTANTS
    Instruments,   \* what okex may list
    MaxDoubled     \* bound on the close frames that meet a first read

VARIABLES
    alive,        \* price_monitor runs
    pending,      \* the operation on the present connection: see Operations
    asleep,       \* how many retries sleep, by where they do: see Places
    instruments,  \* m_instruments
    sending,      \* the instruments in m_sendingBufferText
    ws,           \* m_sslWebStream: "raw" or "open"
    listed,       \* history: the instruments of the last answer
    requested,    \* what this connection was subscribed to
    doubled       \* history: close frames that met a first read

vars == <<alive, pending, asleep, instruments, sending, ws, listed, requested, doubled>>
data == <<instruments, sending, ws, listed, requested, doubled>>

(* The first read and the later ones differ in what they do when aborted.    *)
Operations == {"instruments", "resolve", "connect", "tls", "upgrade", "write",
               "first_read", "read"}
Reads == {"first_read", "read"}
(* A retry sleeps in the handler of an operation that has ended, or in the   *)
(* control callback in the middle of a read.                                 *)
Places == {"handler"} \cup Reads

Init ==
    /\ alive = TRUE /\ pending = {"instruments"} /\ ws = "raw"
    /\ asleep = [k \in Places |-> 0] /\ doubled = 0
    /\ instruments = {} /\ sending = {} /\ listed = {} /\ requested = {}

Completes(op) == alive /\ op \in pending
Become(op) == pending' = pending \ {op} /\ UNCHANGED asleep
Start(op, next) == pending' = (pending \ {op}) \cup {next} /\ UNCHANGED asleep
-----------------------------------------------------------------------------
(* m_instruments.clear() before the new list is taken; the faulty variant    *)
(* adds to what there is.                                                     *)
OldKept == instruments
OldCleared == {}

(* rest_api_on_data_received, initiate_websocket_connection                  *)
InstrumentsArrive ==
    /\ Completes("instruments")
    /\ \E list \in SUBSET Instruments :
          instruments' = OldCleared \cup list /\ listed' = list
    /\ Start("instruments", "resolve")
    /\ UNCHANGED <<alive, sending, ws, requested, doubled>>

(* An answer with another code, or that cannot be parsed to its end, is the  *)
(* end of the stream.                                                         *)
InstrumentsRejected ==
    /\ Completes("instruments") /\ Become("instruments")
    /\ \/ UNCHANGED <<instruments, listed>>
       \/ \E list \in SUBSET Instruments : instruments' = list /\ listed' = list
    /\ UNCHANGED <<alive, sending, ws, requested, doubled>>

Resolved ==
    /\ Completes("resolve") /\ Start("resolve", "connect") /\ ws' = "raw"
    /\ UNCHANGED <<alive, instruments, sending, listed, requested, doubled>>
(* perform_ssl_handshake may refuse the name of the host.                    *)
Connected ==
    /\ Completes("connect") /\ (Start("connect", "tls") \/ Become("connect"))
    /\ UNCHANGED <<alive, data>>
TlsDone == Completes("tls") /\ Start("tls", "upgrade") /\ UNCHANGED <<alive, data>>

(* The handler of async_handshake and ticker_subscribe                       *)
Upgraded ==
    /\ Completes("upgrade") /\ Start("upgrade", "write")
    /\ ws' = "open"
    /\ sending' = instruments /\ instruments' = {}
    /\ UNCHANGED <<alive, listed, requested, doubled>>

Written ==
    /\ Completes("write") /\ ws = "open" /\ Start("write", "first_read")
    /\ requested' = sending
    /\ UNCHANGED <<alive, instruments, sending, ws, listed, doubled>>

(* interpret_generic_messages: prices go to the sink, a list of instruments  *)
(* that is pushed would be added to m_instruments.                           *)
ReadMessage ==
    /\ ws = "open"
    /\ \E op \in Reads : Completes(op) /\ Start(op, "read")
    /\ UNCHANGED <<alive, data>>

(* report_error_and_retry: the error is reported and a retry sleeps.         *)
OperationFails(op) ==
    /\ Completes(op)
    /\ pending' = pending \ {op}
    /\ asleep' = [asleep EXCEPT !["handler"] = @ + 1]
    /\ UNCHANGED <<alive, data>>

(* A later read that ends as aborted is not followed by anything.            *)
ReadAborted == Completes("read") /\ Become("read") /\ UNCHANGED <<alive, data>>

(* The server closes the connection, and the control callback sleeps in the  *)
(* middle of the read.                                                        *)
CloseFrame ==
    /\ ws = "open"
    /\ \E op \in Reads :
          /\ Completes(op) /\ pending' = pending \ {op}
          /\ asleep' = [asleep EXCEPT ![op] = @ + 1]
          /\ op = "first_read" => doubled < MaxDoubled
          /\ doubled' = IF op = "first_read" THEN doubled + 1 ELSE doubled
    /\ UNCHANGED <<alive, instruments, sending, ws, listed, requested>>
-----------------------------------------------------------------------------
(* Of the reads, those that are retried when they are aborted (lines 203 and *)
(* 214); the faulty variant retries both.                                     *)
AllRetried == Reads
FirstRetried == {"first_read"}

(* The retries that an operation may leave whose objects are replaced.  It   *)
(* is aborted, or what its handler has yet to start fails on the new ones.   *)
(* The callback of an HTTP client that is destroyed may not run; a name that *)
(* is refused, and a first message, are not followed by a retry.  (That a    *)
(* list or an address which arrives in this moment replaces the objects once *)
(* more is as if the retry had woken up after it.)                           *)
RetriesOf(op) ==
    CASE op \in Reads \ FirstRetried -> {0}
      [] op \in {"instruments", "connect", "first_read"} -> {0, 1}
      [] OTHER -> {1}

Left == IF pending = {} THEN {0} ELSE UNION {RetriesOf(op) : op \in pending}

(* rest_api_initiate_connection, after the sleep: whatever another retry has *)
(* under way is replaced, and a read that was interrupted is aborted.  The   *)
(* handler of a handshake may still empty the list.                           *)
RetryBegins(k) ==
    /\ alive /\ asleep[k] > 0
    /\ pending' = {"instruments"} /\ ws' = "raw" /\ requested' = {}
    /\ \E left \in Left :
          LET own == IF k \in FirstRetried THEN 1 ELSE 0
          IN  asleep' = [j \in Places |->
                            asleep[j] - (IF j = k THEN 1 ELSE 0)
                                      + (IF j = "handler" THEN left + own ELSE 0)]
    /\ \/ UNCHANGED <<instruments, sending>>
       \/ "upgrade" \in pending /\ sending' = instruments /\ instruments' = {}
    /\ UNCHANGED <<alive, listed, doubled>>

(* The handlers of the HTTP client that is destroyed, or the rest of the     *)
(* read, may fault.                                                           *)
DestroyedFaults ==
    /\ alive
    /\ \E k \in Places : asleep[k] > 0 /\ (pending # {} \/ k \in Reads)
    /\ alive' = FALSE /\ UNCHANGED <<pending, asleep, data>>

(* autorestart: a new process, and what it begins with.                       *)
Fresh ==
    /\ pending' = {"instruments"} /\ ws' = "raw"
    /\ asleep' = [k \in Places |-> 0] /\ doubled' = 0
    /\ instruments' = {} /\ sending' = {} /\ listed' = {} /\ requested' = {}
Reborn == ~alive /\ alive' = TRUE /\ Fresh
-----------------------------------------------------------------------------
Connection ==
    \/ InstrumentsArrive \/ InstrumentsRejected \/ Resolved \/ Connected \/ TlsDone
    \/ Upgraded \/ Written \/ ReadMessage \/ ReadAborted \/ CloseFrame
    \/ DestroyedFaults
    \/ \E op \in Operations : OperationFails(op)
    \/ \E k \in Places : RetryBegins(k)
Next == Connection \/ Reborn

Spec == Init /\ [][Next]_vars
-----------------------------------------------------------------------------
TypeOK ==
    /\ alive \in BOOLEAN /\ pending \subseteq Operations /\ ws \in {"raw", "open"}
    /\ asleep \in [Places -> Nat] /\ doubled \in 0 .. MaxDoubled
    /\ instruments \subseteq Instruments /\ sending \subseteq Instruments
    /\ listed \subseteq Instruments /\ requested \subseteq Instruments

(* However many lists were fetched for connections that failed, or that      *)
(* another retry replaced, before they were used, a connection that is read  *)
(* was subscribed to the instruments of the last answer, no more and no      *)
(* fewer: m_instruments is filled and emptied by different handlers (lines   *)
(* 71, 184 and 260).                                                          *)
SubscribedToLatest ==
    pending \cap Reads # {} => requested = listed

(* A close frame that meets a first read is retried twice, by the control    *)
(* callback and by the read it interrupts, and the two then replace each     *)
(* other's connections for as long as they stay together.  Such retries do   *)
(* not multiply on their own: connections and sleeping retries together are  *)
(* never more than one and one for each such close frame.                    *)
RetriesAccounted ==
    Cardinality(pending) + asleep["handler"] + asleep["first_read"] + asleep["read"]
        <= 1 + doubled
-----------------------------------------------------------------------------
(* What is inductive, for the proofs: one operation on the present objects;  *)
(* a control callback in a first read will turn into two retries; and where  *)
(* the last list is on its way from the answer to the connection.            *)
OnePending == \A a, b \in pending : a = b
Weight == asleep["handler"] + 2 * asleep["first_read"] + asleep["read"]
CountInv == (IF pending = {} THEN 0 ELSE 1) + Weight <= 1 + doubled
ListInv ==
    /\ pending \cap {"resolve", "connect", "tls", "upgrade"} # {} => instruments = listed
    /\ "write" \in pending => sending = listed
    /\ SubscribedToLatest
IInv == TypeOK /\ OnePending /\ CountInv /\ ListInv
=============================================================================
