-------------------------- MODULE BinanceUserStream -------------------------
(* One binance account stream of account_monitor                             *)
(* (account_monitor/src/binance_user_stream.cpp): a listen key from the REST *)
(* API, a websocket, a timer that renews the key every thirty minutes, a     *)
(* timer of ten seconds before a severed connection is made again, and       *)
(* stop(), called by the thread that takes the tasks.                        *)
(*                                                                            *)
(* Every action is one handler of the io thread, or the removal.  Beast's    *)
(* close(reason) throws unless the websocket is open; nothing catches what a *)
(* handler throws, and a destructor may not throw: the process ends.         *)
EXTENDS Naturals, FiniteSets

VARIABLES
    alive,     \* account_monitor runs
    life,      \* "new", "listed" in the list of streams, "stopped": m_isStopped, erased
    pending,   \* asynchronous operations of the connection: see Operations
    client,    \* m_httpClient is not null
    key,       \* m_listenKey is not null
    ws,        \* m_sslWebStream: see Websockets
    retry,     \* a wait of m_onErrorTimer
    keyTimer,  \* m_listenKeyTimer is not null
    renewal    \* "none", the "waiting" wait of m_listenKeyTimer, its "expired"
               \* handler, or the "posted" on_periodic_time_timeout

vars == <<alive, life, pending, client, key, ws, retry, keyTimer, renewal>>

Operations == {"token", "resolve", "connect", "tls", "upgrade", "read", "closing_read"}
(* null; constructed; with the control callback, which holds a reference to  *)
(* the stream; open; no longer open.                                          *)
Websockets == {"null", "raw", "hooked", "open", "ended"}

Init ==
    /\ alive = TRUE /\ life = "new"
    /\ pending = {} /\ client = FALSE /\ key = FALSE /\ ws = "null"
    /\ retry = FALSE /\ keyTimer = FALSE /\ renewal = "none"

(* autorestart: a new process, without the account.                          *)
Reborn ==
    /\ ~alive /\ alive' = TRUE /\ life' = "new"
    /\ pending' = {} /\ client' = FALSE /\ key' = FALSE /\ ws' = "null"
    /\ retry' = FALSE /\ keyTimer' = FALSE /\ renewal' = "none"

Completes(op) == alive /\ op \in pending
Become(op) == pending' = (pending \ {op})
Start(op, next) == pending' = (pending \ {op}) \cup {next}
RenewalAfterReset == IF renewal = "waiting" THEN "none" ELSE renewal
-----------------------------------------------------------------------------
(* The stream is destroyed with its last reference: the list, the handlers   *)
(* of operations and timers, the callbacks of the HTTP client and of the     *)
(* websocket.  Its destructor closes the websocket.                          *)
Referenced ==
    \/ life' = "listed" \/ pending' # {} \/ client' \/ retry'
    \/ renewal' # "none" \/ ws' \in {"hooked", "open", "ended"}
DestructorThrows == ~Referenced /\ ws' # "null"

Survives == alive' = ~DestructorThrows

Terminate ==
    /\ alive' = FALSE
    /\ UNCHANGED <<life, pending, client, key, ws, retry, keyTimer, renewal>>
-----------------------------------------------------------------------------
(* rest_api_initiate_connection, after the test of m_isStopped (which the     *)
(* faulty variant forgets).                                                   *)
StopForgotten == FALSE
IsStopped == life' = "stopped"
RequestListenKey ==
    IF IsStopped
    THEN UNCHANGED <<pending, client, ws, keyTimer, renewal>>
    ELSE /\ keyTimer' = FALSE /\ renewal' = RenewalAfterReset
         /\ ws' = "raw" /\ client' = TRUE
         /\ pending' = pending \cup {"token"}

(* addBinanceAccountStream                                                    *)
Add ==
    /\ alive /\ life = "new"
    /\ life' = "listed"
    /\ RequestListenKey
    /\ UNCHANGED <<alive, key, retry>>

(* removeBinanceAccountStream: stop(), whose async_close works only on an    *)
(* open websocket, and the erasure from the list.                            *)
Remove ==
    /\ alive /\ life = "listed"
    /\ life' = "stopped"
    /\ ws' = IF ws = "open" THEN "ended" ELSE ws
    /\ UNCHANGED <<pending, client, key, retry, keyTimer, renewal>>
    /\ Survives

(* rest_api_on_data_received with a key, or with an answer that cannot be    *)
(* parsed and leaves the key as it was; ws_initiate_connection.  The client  *)
(* destroyed here holds the callback that is running: once the stream is not *)
(* listed, that is its last reference, and its destructor throws.            *)
KeyArrives ==
    /\ Completes("token")
    /\ key' \in {TRUE, key}
    /\ IF life = "stopped"
       THEN alive' = FALSE /\ UNCHANGED <<pending, client, ws>>
       ELSE /\ client' = FALSE
            /\ IF key' THEN Start("token", "resolve") /\ ws' = "raw"
                       ELSE Become("token") /\ ws' = "null"
            /\ UNCHANGED alive
    /\ UNCHANGED <<life, retry, keyTimer, renewal>>

(* The request fails, or is answered without a key.                          *)
KeyFails ==
    /\ Completes("token")
    /\ Become("token")
    /\ UNCHANGED <<alive, life, client, key, ws, retry, keyTimer, renewal>>

Resolved ==
    /\ Completes("resolve") /\ Start("resolve", "connect")
    /\ UNCHANGED <<alive, life, client, key, ws, retry, keyTimer, renewal>>
Connected ==
    /\ Completes("connect") /\ Start("connect", "tls")
    /\ UNCHANGED <<alive, life, client, key, ws, retry, keyTimer, renewal>>
TlsDone ==
    /\ Completes("tls") /\ Start("tls", "upgrade")
    /\ ws' = "hooked"
    /\ UNCHANGED <<alive, life, client, key, retry, keyTimer, renewal>>

(* None of these errors is retried.                                          *)
SetupFails(op) ==
    /\ Completes(op) /\ Become(op)
    /\ UNCHANGED <<life, client, key, ws, retry, keyTimer, renewal>>
    /\ Survives

(* The handler of async_handshake: activate_listen_key_keepalive and the     *)
(* first read.                                                                *)
Upgraded ==
    /\ Completes("upgrade") /\ Start("upgrade", "read")
    /\ ws' = "open"
    /\ keyTimer' = TRUE
    /\ renewal' = IF keyTimer THEN renewal ELSE "waiting"
    /\ UNCHANGED <<alive, life, client, key, retry>>
-----------------------------------------------------------------------------
(* on_ws_connection_severed, once close() is done with.  The faulty variant  *)
(* only drops the timer if there is one.                                      *)
ArmRetryOnce == retry' = ~retry
ArmRetry == retry' = TRUE
Severed ==
    /\ ws' = "null" /\ key' = FALSE
    /\ keyTimer' = FALSE /\ renewal' = RenewalAfterReset
    /\ ArmRetry

(* ws_interpret_generic_messages: events go to the sink of results, whatever *)
(* comes is followed by the next read.                                        *)
ReadMessage ==
    /\ Completes("read") /\ ws = "open"
    /\ Start("read", "read")
    /\ UNCHANGED <<alive, life, client, key, ws, retry, keyTimer, renewal>>

(* The handler of a failed read calls on_ws_connection_severed, which closes *)
(* a websocket that is not open any more: close() throws.                    *)
ReadFails == Completes("read") /\ Terminate

(* A close frame of the server, seen by the control callback in the middle   *)
(* of a read: here close() finds the websocket open, and throws only if the  *)
(* connection is gone as well.                                               *)
CloseFrame ==
    /\ Completes("read") /\ ws = "open" /\ life = "listed"
    /\ Start("read", "closing_read")
    /\ Severed
    /\ UNCHANGED <<alive, life, client>>

(* The read ends in an error: the second call finds no websocket to close    *)
(* and starts the timer afresh.  The faulty variant does not return.         *)
ErrorReadOn(op) == Start(op, "read")
ErrorEnds(op) == Become(op)
ClosingReadEnds ==
    /\ Completes("closing_read")
    /\ ErrorEnds("closing_read")
    /\ Severed
    /\ UNCHANGED <<alive, life, client>>

(* Handlers that are ready run long before a timer of ten seconds.           *)
NothingReady == "closing_read" \notin pending /\ renewal \notin {"expired", "posted"}
RetryExpires ==
    /\ alive /\ retry /\ NothingReady
    /\ retry' = FALSE
    /\ UNCHANGED <<life, key>>
    /\ RequestListenKey
    /\ Survives
-----------------------------------------------------------------------------
(* on_periodic_time_timeout: the wait of thirty minutes, its handler, which  *)
(* sends the renewal (userstream_keyalive) and posts the next call (which    *)
(* the faulty variant forgets).                                               *)
NoNextRenewal == "none"
NextRenewal == IF ws = "null" THEN "none" ELSE "posted"
RenewalExpires ==
    /\ alive /\ renewal = "waiting"
    /\ renewal' = "expired"
    /\ UNCHANGED <<alive, life, pending, client, key, ws, retry, keyTimer>>

RenewKey ==
    /\ alive /\ renewal = "expired"
    /\ renewal' = NextRenewal
    /\ UNCHANGED <<life, pending, client, key, ws, retry, keyTimer>>
    /\ Survives

(* If the connection was severed between the post and the call, the call     *)
(* goes through a null pointer.                                              *)
RenewalRepeats ==
    /\ alive /\ renewal = "posted" /\ keyTimer
    /\ renewal' = "waiting"
    /\ UNCHANGED <<alive, life, pending, client, key, ws, retry, keyTimer>>

NullTimerFaults == alive /\ renewal = "posted" /\ ~keyTimer /\ Terminate
-----------------------------------------------------------------------------
Connection ==
    \/ KeyArrives \/ KeyFails \/ Resolved \/ Connected \/ TlsDone \/ Upgraded
    \/ \E op \in {"resolve", "connect", "tls", "upgrade"} : SetupFails(op)
    \/ ReadMessage \/ ReadFails \/ CloseFrame \/ ClosingReadEnds
Timers == RetryExpires \/ RenewalExpires \/ RenewKey \/ RenewalRepeats \/ NullTimerFaults

Next == Add \/ Remove \/ Connection \/ Timers \/ Reborn

Spec == Init /\ [][Next]_vars
-----------------------------------------------------------------------------
TypeOK ==
    /\ alive \in BOOLEAN /\ life \in {"new", "listed", "stopped"}
    /\ pending \subseteq Operations
    /\ client \in BOOLEAN /\ key \in BOOLEAN /\ ws \in Websockets
    /\ retry \in BOOLEAN /\ keyTimer \in BOOLEAN
    /\ renewal \in {"none", "waiting", "expired", "posted"}

(* However closing, failing and retrying interleave, there is one attempt at *)
(* a connection at a time: on_ws_connection_severed, which is called twice   *)
(* for a close frame (lines 172-176 and 198-201), leaves one retry, and      *)
(* none begins while a connection is being made or used.                     *)
OneAttempt ==
    /\ Cardinality(pending) <= 1
    /\ retry => pending \subseteq {"closing_read"}

(* A connection that is read has a listen key and a renewal on its way: the  *)
(* key is not left to run out (on_periodic_time_timeout), whichever handlers *)
(* of older connections were still around when it was made.                  *)
KeyKeptAlive ==
    alive /\ "read" \in pending => key /\ keyTimer /\ renewal # "none"

(* A removed account, whatever timers it had, never asks for a listen key    *)
(* again (the test of m_isStopped in rest_api_initiate_connection).          *)
RemovedStaysAway ==
    [][life = "stopped" /\ "token" \in pending' => "token" \in pending]_vars

(* After a close frame of the server the stream asks for a new key, unless   *)
(* it is removed or the process ends.                                        *)
ClosedIsRetried ==
    "closing_read" \in pending ~> "token" \in pending \/ life = "stopped" \/ ~alive
-----------------------------------------------------------------------------
(* What is inductive, for the proofs: attempts and retries exclude each      *)
(* other; the timer of an old connection is gone before a new one is made,   *)
(* and the key is there from its arrival on.                                  *)
AttemptInv ==
    /\ \A a, b \in pending : a = b
    /\ retry => pending \subseteq {"closing_read"}
    /\ life = "new" => pending = {} /\ ~retry
KeyInv ==
    /\ pending \cap {"token", "resolve", "connect", "tls", "upgrade"} # {} => ~keyTimer
    /\ pending \cap {"resolve", "connect", "tls", "upgrade", "read"} # {} => key
    /\ "read" \in pending =>
           ws \in {"open", "ended"} /\ keyTimer /\ renewal # "none"
IInv == TypeOK /\ AttemptInv /\ KeyInv
=============================================================================
