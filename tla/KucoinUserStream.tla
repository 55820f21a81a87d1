-------------------------- MODULE KucoinUserStream --------------------------
(* One kucoin account stream of account_monitor                              *)
(* (account_monitor/src/kucoin_user_stream.cpp): a token from the REST API,  *)
(* a websocket, three subscriptions sent one after the other as messages     *)
(* come in, a ping timer, and a retry that starts again with the token.      *)
(*                                                                            *)
(* Every action is one handler of the io thread: what a failed operation     *)
(* starts (report_error_and_retry, with its five seconds of sleep) is part   *)
(* of the handler.  Boost.Asio and Beast appear by what they promise: an     *)
(* operation completes once, well or badly; destroying a websocket aborts    *)
(* what is outstanding on it; a websocket that failed in one operation       *)
(* aborts the others.                                                         *)
EXTENDS Naturals, FiniteSets

VARIABLES
    alive,      \* account_monitor runs
    added,      \* the stream was added to the list of kucoin streams
    pending,    \* asynchronous operations of the connection: see Operations
    token,      \* m_requestToken is not empty
    servers,    \* m_instanceServers has an element (with encryption)
    ws,         \* m_sslWebStream: "none", "raw" (no websocket yet), "open", "failed"
    stage,      \* m_stage
    topics,     \* what the server was asked for on this connection
    pingTimer,  \* m_pingTimer has a value
    pingWait,   \* the wait of the timer: "none", "waiting", "expired" (handler queued)
    pingSent    \* an async_ping is outstanding

vars == <<alive, added, pending, token, servers, ws, stage, topics,
          pingTimer, pingWait, pingSent>>
connection == <<pending, token, servers, ws, stage, topics>>
ping == <<pingTimer, pingWait, pingSent>>

Operations == {"token", "resolve", "connect", "tls", "upgrade", "read", "write"}
Topics == {"private_order_change_v2", "account_balance_change", "stop_order_event"}
Stages == Topics \cup {"none", "nothing_left"}
NextStage == [none |-> "private_order_change_v2",
              private_order_change_v2 |-> "account_balance_change",
              account_balance_change |-> "stop_order_event",
              stop_order_event |-> "nothing_left",
              nothing_left |-> "nothing_left"]

Init ==
    /\ alive = TRUE /\ added = FALSE
    /\ pending = {} /\ token = FALSE /\ servers = FALSE
    /\ ws = "none" /\ stage = "none" /\ topics = {}
    /\ pingTimer = FALSE /\ pingWait = "none" /\ pingSent = FALSE

(* autorestart: a new process, without the account.                          *)
Reborn ==
    /\ ~alive /\ alive' = TRUE /\ added' = FALSE
    /\ pending' = {} /\ token' = FALSE /\ servers' = FALSE
    /\ ws' = "none" /\ stage' = "none" /\ topics' = {}
    /\ pingTimer' = FALSE /\ pingWait' = "none" /\ pingSent' = FALSE

Completes(op) == alive /\ op \in pending
Become(op) == pending' = (pending \ {op})
Start(op, next) == pending' = (pending \ {op}) \cup {next}
-----------------------------------------------------------------------------
(* The pieces that handlers share.                                            *)

(* rest_api_obtain_token: a new websocket replaces the old one.  In the      *)
(* faulty variant the handler that failed goes on to read.                   *)
BeginAgainAndRead(op) == pending' = (pending \ {op}) \cup {"token", "read"}
BeginAgain(op) == Start(op, "token")
ObtainToken(op) ==
    /\ BeginAgain(op)
    /\ ws' = "raw"
    /\ topics' = {}

(* reset_ping_timer: a wait is cancelled unless its handler is queued.       *)
WaitAfterCancel == IF pingWait = "waiting" THEN "none" ELSE pingWait

(* reset_counter, or nothing, as a subclass that overrides it might do.      *)
StageKept == stage
StageAfterReset == "none"

Retry(op) ==
    /\ pingTimer' = FALSE
    /\ pingWait' = WaitAfterCancel
    /\ stage' = StageAfterReset
    /\ ObtainToken(op)
    /\ UNCHANGED <<token, servers, pingSent>>

GiveUp(op) ==
    /\ Become(op)
    /\ UNCHANGED <<token, servers, ws, stage, topics, ping>>
-----------------------------------------------------------------------------
(* addKucoinAccountStream, by the thread that takes the tasks of kucoin.  A  *)
(* removal only erases the stream from the list: stop() is empty, and the    *)
(* handlers keep the stream alive.                                            *)
Add ==
    /\ alive /\ ~added
    /\ added' = TRUE
    /\ ObtainToken("none")
    /\ UNCHANGED <<alive, token, servers, stage, ping>>

(* Handlers run in the order they become ready: those of the old connection  *)
(* before any answer to a request of the new one.                            *)
OldPingsDone == pingWait # "expired" /\ ~pingSent

(* on_token_obtained, initiate_websocket_connection.  A rejected answer      *)
(* leaves the old token and servers; servers without encryption are erased.  *)
TokenArrives ==
    /\ Completes("token") /\ OldPingsDone
    /\ \/ UNCHANGED <<token, servers>>
       \/ token' = TRUE /\ servers' \in BOOLEAN
    /\ IF token' /\ servers' THEN Start("token", "resolve") ELSE Become("token")
    /\ UNCHANGED <<alive, added, ws, stage, topics, ping>>

TokenFails ==
    /\ Completes("token") /\ OldPingsDone
    /\ GiveUp("token")
    /\ UNCHANGED <<alive, added>>

Resolved ==
    /\ Completes("resolve")
    /\ Start("resolve", "connect") /\ ws' = "raw"
    /\ UNCHANGED <<alive, added, token, servers, stage, topics, ping>>

(* websocket_perform_ssl_handshake may refuse the name of the host.          *)
Connected ==
    /\ Completes("connect")
    /\ Start("connect", "tls") \/ Become("connect")
    /\ UNCHANGED <<alive, added, token, servers, ws, stage, topics, ping>>

TlsDone ==
    /\ Completes("tls")
    /\ Start("tls", "upgrade")
    /\ UNCHANGED <<alive, added, token, servers, ws, stage, topics, ping>>

TlsFails ==
    /\ Completes("tls")
    /\ GiveUp("tls")
    /\ UNCHANGED <<alive, added>>

(* perform_websocket_handshake: start_ping_timer and the first read.         *)
Upgraded ==
    /\ Completes("upgrade") /\ pingWait # "expired"
    /\ ws' = "open"
    /\ pingTimer' = TRUE /\ pingWait' = "waiting"
    /\ Start("upgrade", "read")
    /\ UNCHANGED <<alive, added, token, servers, stage, topics, pingSent>>

(* interpret_generic_messages and send_next_subscription: what is read does  *)
(* not matter, it only paces the subscriptions.  The handler that finds the  *)
(* last subscription sent starts neither a write nor a read (the faulty      *)
(* variant writes on).                                                        *)
SendAlways ==
    /\ stage' = NextStage[stage]
    /\ Start("read", "write")
SendNext ==
    /\ stage' = NextStage[stage]
    /\ IF stage' = "nothing_left" THEN Become("read") ELSE Start("read", "write")
ReadMessage ==
    /\ Completes("read") /\ ws = "open"
    /\ IF stage # "nothing_left" THEN SendNext ELSE UNCHANGED <<stage, pending>>
    /\ UNCHANGED <<alive, added, token, servers, ws, topics, ping>>

Written ==
    /\ Completes("write") /\ ws = "open"
    /\ topics' = topics \cup {stage}
    /\ Start("write", "read")
    /\ UNCHANGED <<alive, added, token, servers, ws, stage, ping>>

(* Errors that report_error_and_retry deals with.                            *)
OperationFails(op) ==
    /\ Completes(op)
    /\ op = "read" => ws = "open"
    /\ Retry(op)
    /\ UNCHANGED <<alive, added>>

(* A read that is aborted because a ping failed first is not retried.        *)
ReadAborted ==
    /\ Completes("read") /\ ws = "failed"
    /\ GiveUp("read")
    /\ UNCHANGED <<alive, added>>
-----------------------------------------------------------------------------
(* The ping timer.                                                            *)
PingExpires ==
    /\ alive /\ pingWait = "waiting"
    /\ pingWait' = "expired"
    /\ UNCHANGED <<alive, added, connection, pingTimer, pingSent>>

(* on_ping_timer_tick: async_ping on whatever websocket there is now.        *)
PingTick ==
    /\ alive /\ pingWait = "expired" /\ ~pingSent
    /\ pingWait' = "none" /\ pingSent' = TRUE
    /\ UNCHANGED <<alive, added, connection, pingTimer>>

(* The handler of async_ping, whatever the outcome, arms m_pingTimer again.  *)
(* If a retry has destroyed it meanwhile, the storage in the std::optional   *)
(* may still serve (the wait is there, the optional is empty).  The faulty   *)
(* variant does not arm the timer.                                            *)
NoNextPing == "none"
NextPing == "waiting"
PingDone ==
    /\ alive /\ pingSent
    /\ pingSent' = FALSE
    /\ pingWait' = NextPing
    /\ ws' \in IF ws = "open" THEN {"open", "failed"} ELSE {ws}
    /\ UNCHANGED <<alive, added, pending, token, servers, stage, topics, pingTimer>>

(* ... or may not.                                                            *)
DestroyedTimerFaults ==
    /\ alive /\ pingSent /\ ~pingTimer
    /\ alive' = FALSE
    /\ UNCHANGED <<added, connection, ping>>
-----------------------------------------------------------------------------
Connection ==
    \/ TokenArrives \/ TokenFails \/ Resolved \/ Connected \/ TlsDone \/ TlsFails
    \/ Upgraded \/ ReadMessage \/ Written \/ ReadAborted
    \/ \E op \in {"resolve", "connect", "upgrade", "read", "write"} : OperationFails(op)

Pings == PingExpires \/ PingTick \/ PingDone \/ DestroyedTimerFaults

Next == Add \/ Connection \/ Pings \/ Reborn

Spec == Init /\ [][Next]_vars
-----------------------------------------------------------------------------
TypeOK ==
    /\ alive \in BOOLEAN /\ added \in BOOLEAN
    /\ pending \subseteq Operations
    /\ token \in BOOLEAN /\ servers \in BOOLEAN
    /\ ws \in {"none", "raw", "open", "failed"}
    /\ stage \in Stages /\ topics \subseteq Topics
    /\ pingTimer \in BOOLEAN /\ pingWait \in {"none", "waiting", "expired"}
    /\ pingSent \in BOOLEAN

(* When the stream takes itself to be subscribed, this very connection was   *)
(* asked for all three topics, also after any number of retries: m_stage     *)
(* belongs to the stream and not to the connection, and report_error_and_    *)
(* retry has to take it back (reset_counter).                                *)
FullySubscribed == stage = "nothing_left" => topics = Topics

(* There is at most one chain of operations: no handler that failed goes on  *)
(* besides the retry it started.                                             *)
OneChain == Cardinality(pending) <= 1

(* An open connection, which kucoin closes if it stays silent, has the timer *)
(* of its next ping running or a ping under way, although handlers of the    *)
(* timer of an older connection may still be about.                          *)
PingsGoOn == alive /\ ws = "open" => pingTimer /\ (pingWait # "none" \/ pingSent)

(* A subscribed connection is listened to.                                   *)
SubscribedIsRead ==
    alive /\ ws = "open" /\ stage = "nothing_left" => "read" \in pending
-----------------------------------------------------------------------------
(* What is inductive, for the proofs: one operation is outstanding at a time, *)
(* and none before the account is added; the server was asked for the topics *)
(* up to the stage, the last of which may still be being written.            *)
OneOperation == \A a, b \in pending : a = b
AddedInv == ~added => pending = {} /\ stage = "none"
AskedUpTo == [none |-> {},
              private_order_change_v2 |-> {"private_order_change_v2"},
              account_balance_change |-> {"private_order_change_v2", "account_balance_change"},
              stop_order_event |-> Topics,
              nothing_left |-> Topics]
StageInv ==
    /\ pending \subseteq {"read", "write"} \/ stage = "none"
    /\ "write" \in pending => stage \in Topics
    /\ topics = IF "write" \in pending THEN AskedUpTo[stage] \ {stage} ELSE AskedUpTo[stage]
IInv == TypeOK /\ OneOperation /\ AddedInv /\ StageInv /\ PingsGoOn
=============================================================================
