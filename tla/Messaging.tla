------------------------------ MODULE Messaging ------------------------------
(* Who uses telegram_client: the sessions of http_stream, which pass on texts *)
(* and login secrets of clients, and price_result_stream, which passes on the *)
(* results of the task services.  telegram_client takes one call after the    *)
(* other; a call to it returns when its handler does, and without a           *)
(* telegram_client, or if it ends in the middle of the call, it fails.  The   *)
(* error ends http_stream, and goes back to the caller of price_result_stream,*)
(* which survives.  The calls of an http_stream that ended remain.            *)
EXTENDS Naturals, Sequences, FiniteSets

CONSTANTS Sessions,   (* of HttpServer                                        *)
          Threads,
          MaxPending  (* of TelegramClient                                    *)

ASSUME BoundsAssumption ==
    /\ IsFiniteSet(Sessions) /\ Threads \in Nat \ {0} /\ MaxPending \in Nat
    /\ {"notifier", "nobody"} \cap Sessions = {}

VARIABLES accepting, session,                        (* http_stream           *)
          td, news, asked, refused, authorized, loop, contacts_gotten,
          sending,                                   (* telegram_client       *)
          calls,                                     (* whose calls it has    *)
          notifier                                   (* price_result_stream   *)

http == <<accepting, session>>
telegram == <<td, news, asked, refused, authorized, loop, contacts_gotten, sending>>
vars == <<http, telegram, calls, notifier>>

Http == INSTANCE HttpServer
Tg == INSTANCE TelegramClient

Init == Http!Init /\ Tg!Init /\ calls = << >> /\ notifier = "idle"
-----------------------------------------------------------------------------
(* http_stream by itself: its connections, and calls to other services.  If   *)
(* it ends, nobody waits for the calls it has made.                           *)
HttpStart(s) ==
    /\ Http!Start(s)
    /\ calls' = IF session'[s].call \in Http!Telegram THEN Append(calls, s) ELSE calls
    /\ UNCHANGED <<telegram, notifier>>
HttpConnection ==
    /\ Http!AcceptFails \/ \E s \in Sessions : Http!Connection(s)
    /\ UNCHANGED <<telegram, calls, notifier>>
OtherCallReturns(s) ==
    /\ session[s].call \notin Http!Telegram
    /\ Http!CallReturns(s)
    /\ UNCHANGED <<telegram, calls, notifier>>
Remaining(seq) ==
    [i \in DOMAIN seq |-> IF seq[i] \in Sessions /\ session'[seq[i]].call = "none"
                          THEN "nobody" ELSE seq[i]]
OtherCallFails(s) ==
    /\ session[s].call \notin Http!Telegram
    /\ Http!CallFails(s)
    /\ calls' = Remaining(calls)
    /\ UNCHANGED <<telegram, notifier>>

(* broadcast_progress_price_result and broadcast_time_price_result.           *)
Broadcast ==
    /\ notifier = "idle"
    /\ notifier' = "calling"
    /\ calls' = Append(calls, "notifier")
    /\ UNCHANGED <<http, telegram>>

(* What a call asks for: a session for what it was asked, price_result_stream *)
(* for a text; of a call that was left behind the caller is not known.        *)
AsksFor(c) == IF c \in Sessions THEN {session[c].call}
              ELSE IF c = "notifier" THEN {"text"} ELSE Tg!Messages

(* How the first call ends: send_telegram_registration_code,                  *)
(* send_telegram_registration_password and send_new_telegram_text, and the    *)
(* two broadcasts.                                                            *)
NotifierAfter(c) == IF c = "notifier" THEN "idle" ELSE notifier
Returns(c) ==
    /\ IF c \in Sessions THEN Http!CallReturns(c) ELSE UNCHANGED http
    /\ calls' = Tail(calls)
    /\ notifier' = NotifierAfter(c)
Fails(c) ==
    /\ IF c \in Sessions THEN Http!CallFails(c) ELSE UNCHANGED http
    /\ calls' = Remaining(Tail(calls))
    /\ notifier' = NotifierAfter(c)

CallTaken ==
    /\ calls # << >>
    /\ \E message \in AsksFor(Head(calls)) :
          \/ Tg!Drops(message) /\ Returns(Head(calls))
          \/ Tg!Admits(message) /\ UNCHANGED <<http, calls, notifier>>
CallEnds ==
    /\ calls # << >>
    /\ \/ Tg!Sends /\ Returns(Head(calls))
       \/ Tg!UnlockedMapFaults /\ Fails(Head(calls))
       \/ loop = "dead" /\ UNCHANGED telegram /\ Fails(Head(calls))

Alone(A) == A /\ UNCHANGED <<http, calls, notifier>>

Next ==
    \/ HttpConnection
    \/ \E s \in Sessions : HttpStart(s) \/ OtherCallReturns(s) \/ OtherCallFails(s)
    \/ Broadcast \/ CallTaken \/ CallEnds
    \/ Alone(Tg!LoginThread) \/ Alone(Tg!TdLib) \/ Alone(Tg!Reborn)

Spec == Init /\ [][Next]_vars

(* The login thread receives what there is, and TDLib takes what it is asked. *)
(* telegram_client takes its calls in the order they came, and goes on to the *)
(* end of each; another service need not, but a call that is not answered     *)
(* fails: after the time-out of D-Bus, or the twenty seconds account_monitor  *)
(* has.  A handler that is ready is started some time after a thread is free  *)
(* again: they start in the order they became ready.                          *)
FairSpec ==
    /\ Spec
    /\ WF_vars(Alone(Tg!LoginThread))
    /\ WF_vars(Alone(Tg!TdAccepts \/ Tg!TdRefuses))
    /\ WF_vars(CallTaken \/ CallEnds)
    /\ \A s \in Sessions : SF_vars(HttpStart(s)) /\ WF_vars(OtherCallFails(s))
-----------------------------------------------------------------------------
(* Types of all variables, and the threads of http_stream; nobody has two     *)
(* calls in telegram_client, whoever has one waits for it, and what is being  *)
(* sent is what the first call asked for.                                     *)
Waits(c) == IF c \in Sessions THEN session[c].call \in Http!Telegram ELSE notifier = "calling"
TypeOK ==
    /\ Http!TypeOK /\ Tg!TypeOK
    /\ notifier \in {"idle", "calling"}
    /\ calls \in Seq(Sessions \cup {"notifier", "nobody"})
    /\ \A i, j \in DOMAIN calls : calls[i] = calls[j] => i = j \/ calls[i] = "nobody"
    /\ \A i \in DOMAIN calls : calls[i] = "nobody" \/ Waits(calls[i])
    /\ sending # "none" => calls # << >> /\ sending \in AsksFor(Head(calls))

(* telegram_client: a stale flag admits no texts but while a log-out is on its*)
(* way, and none that was admitted is sent to a client not logged in; the     *)
(* login goes on by itself.                                                   *)
GrantedMeansOpen == Tg!GrantedMeansOpen
LoginGoesOn == Tg!LoginGoesOn

(* http_stream answers, and price_result_stream returns, whatever becomes of  *)
(* telegram_client.                                                           *)
RequestsAreAnswered ==
    /\ Http!RequestsAreAnswered
    /\ notifier = "calling" ~> notifier = "idle"
=============================================================================
