--------------------------- MODULE TelegramClient ---------------------------
(* The telegram_client process (telegram_client/main.cpp).                    *)
(*   - The login thread receives the updates of one TDLib client and answers  *)
(*     its authorization states as far as it can by itself; once authorized   *)
(*     it goes on receiving in a second loop, until it is logged out.         *)
(*   - The D-Bus thread takes one call at a time, and sends texts, codes and  *)
(*     passwords through the same client and the same table of handlers, with *)
(*     no lock between the two: what it has tested may change before it sends.*)
(* TDLib is external: it takes one request at a time, in the order they were  *)
(* sent, and keeps a database on disk.  An authorization state is named for   *)
(* the request it waits for.  Users and chats are left out: they are only     *)
(* stored and logged.                                                         *)
EXTENDS Naturals, Sequences

CONSTANT MaxPending  (* bound: D-Bus requests are recorded up to this number  *)
                     (* of such requests and of answers that wait             *)

VARIABLES td,          (* the authorization state of the TDLib client         *)
          news,        (* updates and answers the login thread has to receive *)
          asked,       (* requests TDLib has to take                          *)
          refused,     (* TDLib refused the request its state waits for       *)
          authorized,  (* the database on disk holds a session                *)
          loop,        (* where the login thread is                           *)
          contacts_gotten, (* it has asked for the contacts                   *)
          sending      (* what the D-Bus thread has decided to send, or none  *)

vars == <<td, news, asked, refused, authorized, loop, contacts_gotten, sending>>

(* The requests the login thread makes by itself, and those of the D-Bus.     *)
Automatic == {"params", "key", "phone"}
Messages == {"text", "code", "password"}
States == Automatic \cup {"code", "password", "registration", "ready", "loggingOut", "closed"}

(* "login" and "main" are the loops of initiate_login_sequence; "restart" is  *)
(* the first with m_needsRestart set; "over" is the end of the thread, and    *)
(* "dead" of the process.                                                     *)
Loops == {"login", "restart", "main", "over", "dead"}
m_authorizationGranted == loop = "main"

NewClient == /\ td' = "params"
             /\ news' = <<"params">>
             /\ asked' = << >>
             /\ refused' = FALSE

Init == /\ td = "params"
        /\ news = <<"params">>
        /\ asked = << >>
        /\ refused = FALSE
        /\ authorized = FALSE
        /\ loop = "login"
        /\ contacts_gotten = FALSE
        /\ sending = "none"
-----------------------------------------------------------------------------
(* The login thread.                                                          *)

(* on_authorization_state_update, and the loop it leads to.  The second loop  *)
(* ends when the flag goes, so a restart is only ever made in the first.  The *)
(* faulty variant takes a log-out for something that passes.                  *)
StaysInLoop(update) == IF update = "ready" THEN "main" ELSE loop
LoopAfter(update) ==
    CASE update = "ready" -> "main"
      [] update \in {"loggingOut", "closed"} /\ m_authorizationGranted -> "over"
      [] update = "closed" /\ ~m_authorizationGranted -> "restart"
      [] OTHER -> loop

(* The faulty variant waits for somebody to supply the phone number.          *)
AskedButPhone(update) ==
    IF update \in Automatic \ {"phone"} THEN Append(asked, update) ELSE asked
AskedAfter(update) == IF update \in Automatic THEN Append(asked, update) ELSE asked

(* process_response.  Answers are only printed, errors too: whatever TDLib    *)
(* refuses is not asked again.  After the first response of the second loop   *)
(* it asks for the contacts, whatever the response was.                       *)
GetsContacts == loop = "main" /\ ~contacts_gotten
Receive ==
    /\ loop \in {"login", "main"}
    /\ news # << >>
    /\ news' = Tail(news)
    /\ loop' = LoopAfter(Head(news))
    /\ asked' = IF GetsContacts THEN Append(AskedAfter(Head(news)), "contacts")
                ELSE AskedAfter(Head(news))
    /\ contacts_gotten' = (contacts_gotten \/ GetsContacts)
    /\ UNCHANGED <<td, refused, authorized, sending>>

restart ==
    /\ loop = "restart"
    /\ loop' = "login"
    /\ NewClient
    /\ UNCHANGED <<authorized, contacts_gotten, sending>>
-----------------------------------------------------------------------------
(* The D-Bus thread.                                                          *)

(* A text is dropped unless the client is authorized; a code and a password   *)
(* are dropped if they are for another number, and sent in any state.         *)
Drops(message) ==
    /\ loop # "dead" /\ sending = "none"
    /\ message = "text" => ~m_authorizationGranted
    /\ UNCHANGED vars
Admits(message) ==
    /\ loop # "dead" /\ sending = "none"
    /\ message = "text" => m_authorizationGranted
    /\ sending' = message
    /\ UNCHANGED <<td, news, asked, refused, authorized, loop, contacts_gotten>>

(* send_request, to the client there is by then.                              *)
Pending == SelectSeq(asked \o news, LAMBDA item : item \in Messages \cup {"answer"})
Record(message) ==
    asked' = IF Len(Pending) < MaxPending THEN Append(asked, message) ELSE asked
Sends ==
    /\ sending # "none"
    /\ Record(sending)
    /\ sending' = "none"
    /\ UNCHANGED <<td, news, refused, authorized, loop, contacts_gotten>>

(* send_request inserts into m_requestHandlers, and uses m_client, while the  *)
(* login thread searches, inserts into or clears the one, or replaces the     *)
(* other.  It may go well, as if one came after the other, or end the         *)
(* process.                                                                   *)
InRequestHandlers ==
    \/ loop = "restart"
    \/ /\ loop \in {"login", "main"}
       /\ news # << >>
       /\ GetsContacts \/ Head(news) \in Automatic \cup {"answer"}

UnlockedMapFaults ==
    /\ sending # "none" /\ InRequestHandlers
    /\ sending' = "none"
    /\ loop' = "dead"
    /\ contacts_gotten' = FALSE
    /\ NewClient
    /\ UNCHANGED authorized

(* supervisord starts the process again.                                      *)
Reborn ==
    /\ loop = "dead"
    /\ loop' = "login"
    /\ UNCHANGED <<td, news, asked, refused, authorized, contacts_gotten, sending>>
-----------------------------------------------------------------------------
(* TDLib.                                                                     *)

(* With a session on disk a client is ready once the database is open, or     *)
(* learns that the session was revoked meanwhile.                             *)
StatesAfter(state) ==
    CASE state = "params" -> {"key"}
      [] state = "key" -> IF authorized THEN {"ready", "loggingOut"} ELSE {"phone"}
      [] state = "phone" -> {"code"}
      [] state = "code" -> {"password", "registration", "ready"}
      [] state = "password" -> {"ready"}
      [] OTHER -> {}

TdAccepts ==
    /\ loop # "dead"
    /\ asked # << >> /\ Head(asked) = td
    /\ asked' = Tail(asked)
    /\ \E state \in StatesAfter(td) :
          /\ td' = state
          /\ news' = news \o <<state, "answer">>
          /\ authorized' = (state = "ready" \/ (authorized /\ state # "loggingOut"))
    /\ refused' = FALSE
    /\ UNCHANGED <<loop, contacts_gotten, sending>>

(* Any request may fail, one that does not fit the state always does; a text  *)
(* that was sent is answered like one that was not.                           *)
TdRefuses ==
    /\ loop # "dead"
    /\ asked # << >>
    /\ asked' = Tail(asked)
    /\ news' = Append(news, "answer")
    /\ refused' = (refused \/ Head(asked) = td)
    /\ UNCHANGED <<td, authorized, loop, contacts_gotten, sending>>

(* The user ends the session on another device; then the client closes.       *)
SignedOut ==
    /\ loop # "dead"
    /\ \/ td = "ready" /\ td' = "loggingOut"
       \/ td = "loggingOut" /\ td' = "closed"
    /\ news' = Append(news, td')
    /\ authorized' = FALSE
    /\ UNCHANGED <<asked, refused, loop, contacts_gotten, sending>>
-----------------------------------------------------------------------------
LoginThread == Receive \/ restart
TdLib == TdAccepts \/ TdRefuses \/ SignedOut
DBusThread == \/ \E message \in Messages : Drops(message) \/ Admits(message)
              \/ Sends \/ UnlockedMapFaults

Next == LoginThread \/ TdLib \/ DBusThread \/ Reborn

Spec == Init /\ [][Next]_vars
-----------------------------------------------------------------------------
Says(seq, item) == \E i \in DOMAIN seq : seq[i] = item

(* Types of all variables.                                                    *)
TypeOK ==
    /\ td \in States
    /\ news \in Seq(States \cup {"answer"})
    /\ asked \in Seq(Automatic \cup Messages \cup {"contacts"})
    /\ refused \in BOOLEAN /\ authorized \in BOOLEAN
    /\ loop \in Loops
    /\ contacts_gotten \in BOOLEAN
    /\ sending \in Messages \cup {"none"}

(* Texts are admitted while the client is logged in, or its log-out has still *)
(* to be received by the login thread: the flag does not go stale.  One that  *)
(* was admitted and is not sent yet may come after the log-out, but never to  *)
(* a client that replaced the one it was admitted to, and is not logged in.   *)
Served == {"ready", "loggingOut", "closed"}
GrantedMeansOpen ==
    /\ m_authorizationGranted => td = "ready" \/ Says(news, "loggingOut")
    /\ sending = "text" => td \in Served

(* Nothing the login thread has to do is forgotten: a client that waits for   *)
(* an automatic request has it coming, or has refused it, or will be replaced *)
(* together with it.                                                          *)
RequestIsComing ==
    td \in Automatic =>
        \/ refused
        \/ loop = "restart"
        \/ loop \in {"login", "dead"} /\ Says(news, td)
        \/ Says(asked, td)

(* The login goes on by itself wherever nobody has to supply a secret: a      *)
(* state that waits for an automatic request is left unless TDLib refuses it, *)
(* a client that is ready is used, and one that closes without having been    *)
(* ready is replaced; requests from D-Bus may come at any point between.      *)
LoginGoesOn ==
    /\ \A state \in Automatic :
          td = state ~> td # state \/ refused \/ loop = "dead"
    /\ td = "ready" /\ loop = "login" ~> loop \in {"main", "dead"}
    /\ td = "closed" /\ loop = "login" /\ ~Says(news, "ready")
          ~> td = "params"
-----------------------------------------------------------------------------
(* What is inductive, for the proofs: a client that was ever ready is ready   *)
(* or on its way out, and what says so comes after what says it is ready.     *)
EndAnnounced(seq) ==
    \A i \in DOMAIN seq : seq[i] = "ready" =>
        \E j \in DOMAIN seq : i < j /\ seq[j] = "loggingOut"
NewsInv ==
    /\ Says(news, "ready") \/ loop \in {"main", "over"} => td \in Served
    /\ sending = "text" => loop \in {"main", "over"}
    /\ sending # "none" => loop # "dead"
    /\ td = "ready" \/ EndAnnounced(news)

IInv == TypeOK /\ GrantedMeansOpen /\ RequestIsComing /\ NewsInv
=============================================================================
