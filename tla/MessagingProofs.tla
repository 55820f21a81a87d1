--------------------------- MODULE MessagingProofs ---------------------------
(* Proofs about Messaging, for any number of sessions and threads and any     *)
(* MaxPending: first of telegram_client, whose variables only its own         *)
(* operations change, then of the handlers of http_stream, then of the queue  *)
(* of calls between them.                                                     *)
EXTENDS Messaging, FiniteSetTheorems, SequenceTheorems, TLAPS

(* Who may have a call in telegram_client.                                    *)
Callers == Sessions \cup {"notifier", "nobody"}

(* What telegram_client hears from TDLib, and what it asks of it.             *)
Updates == Tg!States \cup {"answer"}
Asked == Tg!Automatic \cup Tg!Messages \cup {"contacts"}

(* The items of a sequence that grew by one, and of one that shrank.          *)
LEMMA AppendItems ==
    ASSUME NEW S, NEW seq \in Seq(S), NEW item \in S
    PROVE  /\ Append(seq, item) \in Seq(S)
           /\ Len(seq) \in Nat
           /\ DOMAIN seq = 1..Len(seq)
           /\ DOMAIN Append(seq, item) = 1..(Len(seq) + 1)
           /\ \A i \in 1..Len(seq) : Append(seq, item)[i] = seq[i]
           /\ Append(seq, item)[Len(seq) + 1] = item
BY AppendProperties, LenProperties

LEMMA TailItems ==
    ASSUME NEW S, NEW seq \in Seq(S), seq # << >>
    PROVE  /\ Head(seq) \in S /\ Head(seq) = seq[1]
           /\ Tail(seq) \in Seq(S)
           /\ Len(seq) \in Nat \ {0}
           /\ DOMAIN seq = 1..Len(seq)
           /\ DOMAIN Tail(seq) = 1..(Len(seq) - 1)
           /\ \A i \in 1..(Len(seq) - 1) : Tail(seq)[i] = seq[i + 1]
BY HeadTailProperties, LenProperties, EmptySeq

(* What is said stays said when more is said.                                 *)
LEMMA SaysAppend ==
    ASSUME NEW S, NEW seq \in Seq(S), NEW item \in S
    PROVE  /\ Append(seq, item) \in Seq(S)
           /\ Tg!Says(Append(seq, item), item)
           /\ \A x : Tg!Says(seq, x) => Tg!Says(Append(seq, item), x)
           /\ \A x : Tg!Says(Append(seq, item), x) => Tg!Says(seq, x) \/ x = item
BY AppendItems DEF Tg!Says

(* Taking the first item leaves every other.                                  *)
LEMMA SaysTail ==
    ASSUME NEW S, NEW seq \in Seq(S), seq # << >>
    PROVE  /\ Head(seq) \in S
           /\ Tail(seq) \in Seq(S)
           /\ \A x : Tg!Says(seq, x) => x = Head(seq) \/ Tg!Says(Tail(seq), x)
<1>1. ASSUME NEW x, NEW i \in DOMAIN seq, seq[i] = x, x # Head(seq)
      PROVE  Tg!Says(Tail(seq), x)
  <2>1. i - 1 \in DOMAIN Tail(seq) /\ Tail(seq)[i - 1] = x
    BY <1>1, TailItems
  <2> QED
    BY <2>1 DEF Tg!Says
<1> QED
  BY <1>1, TailItems DEF Tg!Says

(* A pair of items said at the end.                                           *)
LEMMA SaysConcat ==
    ASSUME NEW S, NEW seq \in Seq(S), NEW a \in S, NEW b \in S
    PROVE  /\ seq \o <<a, b>> \in Seq(S)
           /\ Tg!Says(seq \o <<a, b>>, a)
           /\ \A x : Tg!Says(seq, x) => Tg!Says(seq \o <<a, b>>, x)
           /\ \A x : Tg!Says(seq \o <<a, b>>, x) => Tg!Says(seq, x) \/ x \in {a, b}
<1> DEFINE t == <<a, b>>
           both == seq \o t
<1>1. t \in Seq(S) /\ Len(t) = 2 /\ t[1] = a /\ t[2] = b
  OBVIOUS
<1> HIDE DEF t
<1>2. /\ Len(seq) \in Nat
      /\ DOMAIN seq = 1..Len(seq)
      /\ both \in Seq(S)
      /\ Len(both) = Len(seq) + 2
      /\ \A i \in 1..(Len(seq) + 2) :
            both[i] = IF i <= Len(seq) THEN seq[i] ELSE t[i - Len(seq)]
  <2>1. /\ seq \o t \in Seq(S)
        /\ Len(seq \o t) = Len(seq) + Len(t)
        /\ \A i \in 1..(Len(seq) + Len(t)) :
              (seq \o t)[i] = IF i <= Len(seq) THEN seq[i] ELSE t[i - Len(seq)]
    BY <1>1, ConcatProperties
  <2> QED
    BY <1>1, <2>1, LenProperties
<1>3. DOMAIN both = 1..(Len(seq) + 2)
  BY <1>2, LenProperties
<1> HIDE DEF both
<1>4. Tg!Says(both, a)
  <2>1. Len(seq) + 1 \in DOMAIN both /\ both[Len(seq) + 1] = a
    BY <1>1, <1>2, <1>3
  <2> QED
    BY <2>1 DEF Tg!Says
<1>5. ASSUME NEW x, Tg!Says(seq, x)
      PROVE  Tg!Says(both, x)
  <2>1. PICK i \in DOMAIN seq : seq[i] = x
    BY <1>5 DEF Tg!Says
  <2>2. i \in DOMAIN both /\ both[i] = x
    BY <1>2, <1>3, <2>1
  <2> QED
    BY <2>2 DEF Tg!Says
<1>6. ASSUME NEW x, Tg!Says(both, x)
      PROVE  Tg!Says(seq, x) \/ x \in {a, b}
  <2>1. PICK i \in DOMAIN both : both[i] = x
    BY <1>6 DEF Tg!Says
  <2>2. CASE i <= Len(seq)
    BY <1>2, <1>3, <2>1, <2>2 DEF Tg!Says
  <2>3. CASE i = Len(seq) + 1 \/ i = Len(seq) + 2
    BY <1>1, <1>2, <1>3, <2>1, <2>3
  <2> QED
    BY <1>2, <1>3, <2>2, <2>3
<1> QED
  BY <1>2, <1>4, <1>5, <1>6 DEF both, t

(* The order in which two items are said is kept, too.                        *)
LEMMA EndAppend ==
    ASSUME NEW S, NEW seq \in Seq(S), NEW item \in S, item # "ready",
           Tg!EndAnnounced(seq) \/ item = "loggingOut"
    PROVE  Tg!EndAnnounced(Append(seq, item))
<1>1. /\ Len(seq) \in Nat
      /\ DOMAIN seq = 1..Len(seq)
      /\ DOMAIN Append(seq, item) = 1..(Len(seq) + 1)
      /\ \A i \in 1..Len(seq) : Append(seq, item)[i] = seq[i]
      /\ Append(seq, item)[Len(seq) + 1] = item
  BY AppendProperties, LenProperties
<1> DEFINE longer == Append(seq, item)
<1> HIDE DEF longer
<1>2. SUFFICES ASSUME NEW i \in DOMAIN longer, longer[i] = "ready"
               PROVE  \E j \in DOMAIN longer : i < j /\ longer[j] = "loggingOut"
  BY DEF Tg!EndAnnounced, longer
<1>3. i \in DOMAIN seq /\ seq[i] = "ready" /\ i < Len(seq) + 1
  BY <1>1, <1>2 DEF longer
<1>4. CASE item = "loggingOut"
  <2>1. Len(seq) + 1 \in DOMAIN longer /\ longer[Len(seq) + 1] = "loggingOut"
    BY <1>1, <1>4 DEF longer
  <2> QED
    BY <1>3, <2>1
<1>5. CASE Tg!EndAnnounced(seq)
  <2>1. PICK j \in DOMAIN seq : i < j /\ seq[j] = "loggingOut"
    BY <1>3, <1>5 DEF Tg!EndAnnounced
  <2>2. j \in DOMAIN longer /\ longer[j] = "loggingOut"
    BY <1>1, <2>1 DEF longer
  <2> QED
    BY <2>1, <2>2
<1> QED
  BY <1>4, <1>5

LEMMA EndTail ==
    ASSUME NEW S, NEW seq \in Seq(S), seq # << >>, Tg!EndAnnounced(seq)
    PROVE  /\ Tg!EndAnnounced(Tail(seq))
           /\ Head(seq) = "ready" => Tg!Says(Tail(seq), "loggingOut")
<1>1. /\ Len(seq) \in Nat \ {0}
      /\ DOMAIN seq = 1..Len(seq)
      /\ DOMAIN Tail(seq) = 1..(Len(seq) - 1)
      /\ \A i \in 1..(Len(seq) - 1) : Tail(seq)[i] = seq[i + 1]
      /\ Head(seq) = seq[1]
  BY HeadTailProperties, LenProperties, EmptySeq
<1> DEFINE rest == Tail(seq)
<1> HIDE DEF rest
<1>2. ASSUME NEW i \in DOMAIN rest, rest[i] = "ready"
      PROVE  \E j \in DOMAIN rest : i < j /\ rest[j] = "loggingOut"
  <2>1. i + 1 \in DOMAIN seq /\ seq[i + 1] = "ready"
    BY <1>1, <1>2 DEF rest
  <2>2. PICK j \in DOMAIN seq : i + 1 < j /\ seq[j] = "loggingOut"
    BY <2>1 DEF Tg!EndAnnounced
  <2>3. j - 1 \in DOMAIN rest /\ i < j - 1 /\ rest[j - 1] = "loggingOut"
    BY <1>1, <1>2, <2>2 DEF rest
  <2> QED
    BY <2>3
<1>3. ASSUME Head(seq) = "ready"
      PROVE  Tg!Says(rest, "loggingOut")
  <2>1. 1 \in DOMAIN seq /\ seq[1] = "ready"
    BY <1>1, <1>3
  <2>2. PICK j \in DOMAIN seq : 1 < j /\ seq[j] = "loggingOut"
    BY <2>1 DEF Tg!EndAnnounced
  <2>3. j - 1 \in DOMAIN rest /\ rest[j - 1] = "loggingOut"
    BY <1>1, <2>2 DEF rest
  <2> QED
    BY <2>3 DEF Tg!Says
<1> QED
  BY <1>2, <1>3 DEF Tg!EndAnnounced, rest
-----------------------------------------------------------------------------
LEMMA InitTelegram == Tg!Init => Tg!IInv
<1> SUFFICES ASSUME Tg!Init
             PROVE  Tg!IInv
  OBVIOUS
<1> USE DEF Tg!Init
<1>1. Tg!TypeOK
  <2>1. news \in Seq(Tg!States \cup {"answer"}) /\ asked \in Seq(Asked)
    BY DEF Tg!States, Tg!Automatic
  <2> QED
    BY <2>1 DEF Tg!TypeOK, Asked, Tg!States, Tg!Automatic, Tg!Loops
<1>2. news[1] = "params" /\ DOMAIN news = {1}
  OBVIOUS
<1>3. Tg!GrantedMeansOpen /\ Tg!RequestIsComing
  BY <1>2 DEF Tg!GrantedMeansOpen, Tg!RequestIsComing, Tg!m_authorizationGranted, Tg!Says
<1>4. Tg!NewsInv
  BY <1>2 DEF Tg!NewsInv, Tg!EndAnnounced, Tg!Says
<1> QED
  BY <1>1, <1>3, <1>4 DEF Tg!IInv

(* A new client has one update to receive, the request for its parameters.    *)
LEMMA NewClientNews ==
    ASSUME Tg!NewClient
    PROVE  /\ td' = "params" /\ asked' = << >> /\ refused' = FALSE
           /\ news' \in Seq(Updates)
           /\ Tg!Says(news, "params")'
           /\ ~Tg!Says(news, "ready")'
           /\ Tg!EndAnnounced(news)'
<1>1. news' = <<"params">> /\ DOMAIN news' = {1} /\ news'[1] = "params"
  BY DEF Tg!NewClient
<1> QED
  BY <1>1 DEF Tg!NewClient, Tg!Says, Tg!EndAnnounced, Updates, Tg!States, Tg!Automatic

(* The states TDLib may go on to.                                             *)
LEMMA StatesAfterType ==
    ASSUME td \in Tg!States, NEW state \in Tg!StatesAfter(td)
    PROVE  /\ state \in Tg!States
           /\ td \notin Tg!Served
           /\ state \in Tg!Automatic
                         \cup {"code", "password", "registration", "ready", "loggingOut"}
  BY DEF Tg!StatesAfter, Tg!States, Tg!Automatic, Tg!Served

(* What a step of the login thread does to news and asked.                    *)
LEMMA ReceiveEffect ==
    ASSUME Tg!TypeOK, Tg!Receive
    PROVE  /\ Head(news) \in Updates
           /\ news' \in Seq(Updates) /\ asked' \in Seq(Asked)
           /\ \A x : Tg!Says(news, x) => x = Head(news) \/ Tg!Says(news, x)'
           /\ \A x : Tg!Says(asked, x) => Tg!Says(asked, x)'
           /\ \A x : x = Head(news) /\ x \in Tg!Automatic => Tg!Says(asked, x)'
<1>1. news \in Seq(Updates) /\ news # << >> /\ news' = Tail(news)
  BY DEF Tg!TypeOK, Tg!Receive, Updates
<1>2. /\ Head(news) \in Updates
      /\ news' \in Seq(Updates)
      /\ \A x : Tg!Says(news, x) => x = Head(news) \/ Tg!Says(news', x)
  BY <1>1, SaysTail
<1> DEFINE more == Tg!AskedAfter(Head(news))
<1>3. asked \in Seq(Asked) /\ "contacts" \in Asked
  BY DEF Tg!TypeOK, Asked
<1>4. /\ more \in Seq(Asked)
      /\ \A x : Tg!Says(asked, x) => Tg!Says(more, x)
      /\ Head(news) \in Tg!Automatic => Tg!Says(more, Head(news))
  <2>1. CASE Head(news) \in Tg!Automatic
    <3>1. Head(news) \in Asked /\ more = Append(asked, Head(news))
      BY <2>1 DEF Tg!AskedAfter, Asked
    <3> HIDE DEF more
    <3> QED
      BY <1>3, <3>1, SaysAppend
  <2>2. CASE Head(news) \notin Tg!Automatic
    <3>1. more = asked
      BY <2>2 DEF Tg!AskedAfter
    <3> HIDE DEF more
    <3> QED
      BY <1>3, <2>2, <3>1
  <2> QED
    BY <2>1, <2>2
<1>5. asked' = more \/ asked' = Append(more, "contacts")
  BY DEF Tg!Receive
<1> HIDE DEF more
<1>6. /\ Append(more, "contacts") \in Seq(Asked)
      /\ \A x : Tg!Says(more, x) => Tg!Says(Append(more, "contacts"), x)
  BY <1>3, <1>4, SaysAppend
<1>7. asked' \in Seq(Asked) /\ \A x : Tg!Says(more, x) => Tg!Says(asked', x)
  BY <1>4, <1>5, <1>6
<1> QED
  BY <1>2, <1>4, <1>7 DEF Tg!Says

(* What TDLib's answer does to news.                                          *)
LEMMA TdAcceptsEffect ==
    ASSUME Tg!TypeOK, Tg!TdAccepts
    PROVE  /\ td' \in Tg!States /\ td \notin Tg!Served /\ td \in Asked
           /\ td' \in Tg!Automatic
                       \cup {"code", "password", "registration", "ready", "loggingOut"}
           /\ asked' \in Seq(Asked)
           /\ authorized' \in BOOLEAN
           /\ news' \in Seq(Updates)
           /\ Tg!Says(news, td)'
           /\ \A x : Tg!Says(news, x)' => Tg!Says(news, x) \/ x \in {td', "answer"}
<1>1. asked \in Seq(Asked) /\ asked # << >> /\ asked' = Tail(asked) /\ td = Head(asked)
  BY DEF Tg!TypeOK, Tg!TdAccepts, Asked
<1>2. td \in Asked /\ asked' \in Seq(Asked)
  BY <1>1, SaysTail
<1>3. td \in Tg!States
  BY DEF Tg!TypeOK
<1>4. PICK state \in Tg!StatesAfter(td) :
         /\ td' = state
         /\ news' = news \o <<state, "answer">>
         /\ authorized' = (state = "ready" \/ (authorized /\ state # "loggingOut"))
  BY DEF Tg!TdAccepts
<1>5. /\ state \in Tg!States
      /\ td \notin Tg!Served
      /\ state \in Tg!Automatic
                         \cup {"code", "password", "registration", "ready", "loggingOut"}
  BY <1>3, StatesAfterType
<1>6. news \in Seq(Updates) /\ state \in Updates /\ "answer" \in Updates
  BY <1>5 DEF Tg!TypeOK, Updates
<1>7. /\ news' \in Seq(Updates)
      /\ Tg!Says(news', state)
      /\ \A x : Tg!Says(news', x) => Tg!Says(news, x) \/ x \in {state, "answer"}
  BY <1>4, <1>6, SaysConcat
<1>8. authorized' \in BOOLEAN
  BY <1>4
<1> QED
  BY <1>2, <1>4, <1>5, <1>7, <1>8 DEF Tg!Says

(* What an answer that only refuses, and the news of a log-out, do.           *)
LEMMA TdRefusesEffect ==
    ASSUME Tg!TypeOK, Tg!TdRefuses
    PROVE  /\ asked' \in Seq(Asked)
           /\ \A x : Tg!Says(asked, x) => x = Head(asked) \/ Tg!Says(asked, x)'
           /\ news' \in Seq(Updates)
           /\ \A x : Tg!Says(news, x) => Tg!Says(news, x)'
           /\ \A x : Tg!Says(news, x)' => Tg!Says(news, x) \/ x = "answer"
           /\ Tg!EndAnnounced(news) => Tg!EndAnnounced(news)'
<1>1. asked \in Seq(Asked) /\ asked # << >> /\ asked' = Tail(asked)
  BY DEF Tg!TypeOK, Tg!TdRefuses, Asked
<1>2. /\ asked' \in Seq(Asked)
      /\ \A x : Tg!Says(asked, x) => x = Head(asked) \/ Tg!Says(asked', x)
  BY <1>1, SaysTail
<1>3. news \in Seq(Updates) /\ "answer" \in Updates /\ news' = Append(news, "answer")
  BY DEF Tg!TypeOK, Tg!TdRefuses, Updates
<1>4. /\ news' \in Seq(Updates)
      /\ \A x : Tg!Says(news, x) => Tg!Says(news', x)
      /\ \A x : Tg!Says(news', x) => Tg!Says(news, x) \/ x = "answer"
  BY <1>3, SaysAppend
<1>5. Tg!EndAnnounced(news) => Tg!EndAnnounced(news')
  BY <1>3, EndAppend
<1> QED
  BY <1>2, <1>4, <1>5 DEF Tg!Says, Tg!EndAnnounced

LEMMA SignedOutEffect ==
    ASSUME Tg!TypeOK, Tg!SignedOut
    PROVE  /\ td \in {"ready", "loggingOut"} /\ td' \in {"loggingOut", "closed"}
           /\ td = "ready" => Tg!Says(news, "loggingOut")'
           /\ news' \in Seq(Updates)
           /\ \A x : Tg!Says(news, x) => Tg!Says(news, x)'
           /\ td = "ready" \/ Tg!EndAnnounced(news) => Tg!EndAnnounced(news)'
<1>1. /\ td \in {"ready", "loggingOut"} /\ td' \in {"loggingOut", "closed"}
      /\ td = "ready" => td' = "loggingOut"
      /\ news' = Append(news, td')
  BY DEF Tg!SignedOut
<1>2. news \in Seq(Updates) /\ td' \in Updates
  BY <1>1 DEF Tg!TypeOK, Updates, Tg!States
<1>3. /\ news' \in Seq(Updates)
      /\ Tg!Says(news', td')
      /\ \A x : Tg!Says(news, x) => Tg!Says(news', x)
  BY <1>1, <1>2, SaysAppend
<1>4. td = "ready" \/ Tg!EndAnnounced(news) => Tg!EndAnnounced(news')
  BY <1>1, <1>2, EndAppend
<1> QED
  BY <1>1, <1>3, <1>4 DEF Tg!Says, Tg!EndAnnounced

(* A step of the D-Bus thread in which nothing faults.                        *)
DBusGoesOn == Tg!Sends \/ \E message \in Tg!Messages : Tg!Drops(message) \/ Tg!Admits(message)

LEMMA DBusEffect ==
    ASSUME Tg!TypeOK, DBusGoesOn
    PROVE  /\ asked' \in Seq(Asked)
           /\ \A x : Tg!Says(asked, x) => Tg!Says(asked, x)'
           /\ sending' \in Tg!Messages \cup {"none"}
           /\ sending' # "none" => loop # "dead" \/ sending' = sending
           /\ sending' = "text" => Tg!m_authorizationGranted \/ sending' = sending
           /\ UNCHANGED <<td, news, refused, authorized, loop, contacts_gotten>>
<1>1. asked \in Seq(Asked) /\ sending \in Tg!Messages \cup {"none"}
  BY DEF Tg!TypeOK, Asked
<1>2. CASE Tg!Sends
  <2>1. /\ sending \in Asked /\ sending' = "none"
        /\ asked' = asked \/ asked' = Append(asked, sending)
        /\ UNCHANGED <<td, news, refused, authorized, loop, contacts_gotten>>
    BY <1>1, <1>2 DEF Tg!Sends, Tg!Record, Asked
  <2>2. /\ Append(asked, sending) \in Seq(Asked)
        /\ \A x : Tg!Says(asked, x) => Tg!Says(Append(asked, sending), x)
    BY <1>1, <2>1, SaysAppend
  <2>3. asked' \in Seq(Asked) /\ \A x : Tg!Says(asked, x) => Tg!Says(asked', x)
    BY <1>1, <2>1, <2>2
  <2> QED
    BY <2>1, <2>3 DEF Tg!Says
<1>3. ASSUME NEW message \in Tg!Messages, Tg!Drops(message)
      PROVE  UNCHANGED Tg!vars
  BY <1>3 DEF Tg!Drops
<1>4. ASSUME NEW message \in Tg!Messages, Tg!Admits(message)
      PROVE  /\ sending' = message /\ loop # "dead"
             /\ message = "text" => Tg!m_authorizationGranted
             /\ UNCHANGED <<td, news, asked, refused, authorized, loop, contacts_gotten>>
  BY <1>4 DEF Tg!Admits
<1> QED
  BY <1>1, <1>2, <1>3, <1>4 DEF DBusGoesOn, Tg!vars, Tg!Says

-----------------------------------------------------------------------------
(* Every variable keeps its type.                                             *)
LEMMA StepTelegramTypeOK ==
    ASSUME Tg!TypeOK, Tg!Next
    PROVE  Tg!TypeOK'
<1> USE DEF Updates, Asked
<1>1. CASE Tg!Receive
  <2>1. loop' \in Tg!Loops
    BY <1>1 DEF Tg!Receive, Tg!LoopAfter, Tg!m_authorizationGranted, Tg!Loops
  <2> QED
    BY <1>1, <2>1, ReceiveEffect DEF Tg!Receive, Tg!TypeOK
<1>2. CASE Tg!restart
  BY <1>2, NewClientNews DEF Tg!restart, Tg!TypeOK, Tg!States, Tg!Automatic, Tg!Loops
<1>3. CASE DBusGoesOn
  BY <1>3, DBusEffect DEF Tg!TypeOK
<1>4. CASE Tg!UnlockedMapFaults
  <2>1. /\ loop' \in Tg!Loops /\ sending' \in Tg!Messages \cup {"none"}
        /\ contacts_gotten' \in BOOLEAN /\ refused' \in BOOLEAN /\ authorized' \in BOOLEAN
    BY <1>4, NewClientNews DEF Tg!UnlockedMapFaults, Tg!TypeOK, Tg!Loops
  <2>2. td' \in Tg!States /\ asked' \in Seq(Asked)
    BY <1>4, NewClientNews DEF Tg!UnlockedMapFaults, Tg!States, Tg!Automatic
  <2> QED
    BY <1>4, <2>1, <2>2, NewClientNews DEF Tg!UnlockedMapFaults, Tg!TypeOK
<1>5. CASE Tg!Reborn
  BY <1>5 DEF Tg!Reborn, Tg!TypeOK, Tg!Loops
<1>6. CASE Tg!TdAccepts
  BY <1>6, TdAcceptsEffect DEF Tg!TdAccepts, Tg!TypeOK
<1>7. CASE Tg!TdRefuses
  BY <1>7, TdRefusesEffect DEF Tg!TdRefuses, Tg!TypeOK
<1>8. CASE Tg!SignedOut
  BY <1>8, SignedOutEffect DEF Tg!SignedOut, Tg!TypeOK, Tg!States
<1> QED
  BY <1>1, <1>2, <1>3, <1>4, <1>5, <1>6, <1>7, <1>8
     DEF Tg!Next, Tg!LoginThread, Tg!TdLib, Tg!DBusThread, DBusGoesOn

(* A client leaves Served only when it is replaced, and what says that its    *)
(* end has begun is never behind what says it is ready.                       *)
LEMMA StepNewsInv ==
    ASSUME Tg!TypeOK, Tg!NewsInv, Tg!Next
    PROVE  Tg!NewsInv'
<1> USE DEF Tg!NewsInv
<1>1. CASE Tg!Receive
  <2>1. news \in Seq(Updates) /\ news # << >> /\ news' = Tail(news) /\ td' = td
    BY <1>1 DEF Tg!Receive, Tg!TypeOK, Updates
  <2>2. Tg!Says(news, Head(news))
    BY <2>1, EmptySeq, LenProperties DEF Tg!Says
  <2>3. \A x : Tg!Says(news', x) => Tg!Says(news, x)
    BY <2>1, HeadTailProperties, LenProperties DEF Tg!Says
  <2>4. td = "ready" \/ Tg!EndAnnounced(news')
    BY <2>1, EndTail
  <2>5. loop' \in {"main", "over"} => Head(news) = "ready" \/ loop = "main"
    BY <1>1 DEF Tg!Receive, Tg!LoopAfter, Tg!m_authorizationGranted
  <2>6. /\ sending' = "text" => loop' \in {"main", "over"}
        /\ sending' # "none" => loop' # "dead"
    BY <1>1 DEF Tg!Receive, Tg!LoopAfter, Tg!m_authorizationGranted
  <2>7. Tg!Says(news, "ready")' \/ loop' \in {"main", "over"} => td' \in Tg!Served
    BY <2>1, <2>2, <2>3, <2>5 DEF Tg!Says, Tg!Served
  <2> QED
    BY <2>1, <2>4, <2>6, <2>7 DEF Tg!EndAnnounced
<1>2. CASE Tg!restart
  BY <1>2, NewClientNews DEF Tg!restart
<1>3. CASE DBusGoesOn
  BY <1>3, DBusEffect DEF Tg!Says, Tg!EndAnnounced, Tg!m_authorizationGranted
<1>4. CASE Tg!UnlockedMapFaults
  BY <1>4, NewClientNews DEF Tg!UnlockedMapFaults
<1>5. CASE Tg!Reborn
  BY <1>5 DEF Tg!Reborn, Tg!Says, Tg!EndAnnounced
<1>6. CASE Tg!TdAccepts
  <2>1. td \notin Tg!Served /\ ~Tg!Says(news, "ready") /\ loop' \notin {"main", "over"}
    BY <1>6, TdAcceptsEffect DEF Tg!TdAccepts
  <2>2. Tg!Says(news, "ready")' => td' = "ready"
    BY <1>6, <2>1, TdAcceptsEffect
  <2>3. Tg!EndAnnounced(news)' \/ Tg!Says(news, "ready")'
    BY DEF Tg!EndAnnounced, Tg!Says
  <2>4. /\ sending' = "text" => loop' \in {"main", "over"}
        /\ sending' # "none" => loop' # "dead"
    BY <1>6 DEF Tg!TdAccepts
  <2> QED
    BY <2>1, <2>2, <2>3, <2>4 DEF Tg!Served
<1>7. CASE Tg!TdRefuses
  BY <1>7, TdRefusesEffect DEF Tg!TdRefuses
<1>8. CASE Tg!SignedOut
  BY <1>8, SignedOutEffect DEF Tg!SignedOut, Tg!Served
<1> QED
  BY <1>1, <1>2, <1>3, <1>4, <1>5, <1>6, <1>7, <1>8
     DEF Tg!Next, Tg!LoginThread, Tg!TdLib, Tg!DBusThread, DBusGoesOn

(* The flag of the login thread and the state of the client.                  *)
LEMMA StepGrantedMeansOpen ==
    ASSUME Tg!TypeOK, Tg!NewsInv, Tg!GrantedMeansOpen, Tg!Next
    PROVE  Tg!GrantedMeansOpen'
<1> USE DEF Tg!GrantedMeansOpen, Tg!m_authorizationGranted
<1>1. CASE Tg!Receive
  <2> SUFFICES ASSUME loop' = "main", td # "ready"
               PROVE  Tg!Says(news, "loggingOut")'
    BY <1>1 DEF Tg!Receive, Tg!Served
  <2>1. CASE Head(news) = "ready"
    <3>1. news \in Seq(Updates) /\ news # << >> /\ news' = Tail(news) /\ Tg!EndAnnounced(news)
      BY <1>1 DEF Tg!Receive, Tg!TypeOK, Updates, Tg!NewsInv
    <3>2. Tg!Says(news', "loggingOut")
      BY <2>1, <3>1, EndTail
    <3> QED
      BY <3>2 DEF Tg!Says
  <2>2. CASE Head(news) # "ready"
    <3>1. loop = "main" /\ Head(news) # "loggingOut"
      BY <1>1, <2>2 DEF Tg!Receive, Tg!LoopAfter
    <3> QED
      BY <1>1, <3>1, ReceiveEffect
  <2> QED
    BY <2>1, <2>2
<1>2. CASE Tg!restart
  <2>1. loop' = "login" /\ sending # "text" /\ sending' = sending
    BY <1>2 DEF Tg!restart, Tg!NewsInv
  <2> QED
    BY <2>1
<1>3. CASE DBusGoesOn
  <2>1. sending' = "text" => td \in Tg!Served
    BY <1>3, DBusEffect DEF Tg!NewsInv
  <2> QED
    BY <1>3, <2>1, DBusEffect DEF Tg!Says, Tg!Served
<1>4. CASE Tg!UnlockedMapFaults
  <2>1. loop' = "dead" /\ sending' = "none"
    BY <1>4 DEF Tg!UnlockedMapFaults
  <2> QED
    BY <2>1
<1>5. CASE Tg!Reborn
  <2>1. loop' = "login" /\ sending' = sending /\ td' = td
    BY <1>5 DEF Tg!Reborn
  <2> QED
    BY <2>1 DEF Tg!Served
<1>6. CASE Tg!TdAccepts
  BY <1>6, TdAcceptsEffect DEF Tg!TdAccepts, Tg!NewsInv
<1>7. CASE Tg!TdRefuses
  BY <1>7, TdRefusesEffect DEF Tg!TdRefuses, Tg!Served
<1>8. CASE Tg!SignedOut
  BY <1>8, SignedOutEffect DEF Tg!SignedOut, Tg!Served
<1> QED
  BY <1>1, <1>2, <1>3, <1>4, <1>5, <1>6, <1>7, <1>8
     DEF Tg!Next, Tg!LoginThread, Tg!TdLib, Tg!DBusThread, DBusGoesOn

(* The request the client waits for.                                          *)
LEMMA StepRequestIsComing ==
    ASSUME Tg!TypeOK, Tg!NewsInv, Tg!RequestIsComing, Tg!Next
    PROVE  Tg!RequestIsComing'
<1> USE DEF Tg!RequestIsComing
<1>1. CASE Tg!Receive
  <2> SUFFICES ASSUME td \in Tg!Automatic, ~refused, loop' # "restart", ~Tg!Says(asked, td)'
               PROVE  loop' \in {"login", "dead"} /\ Tg!Says(news, td)'
    BY <1>1 DEF Tg!Receive
  <2>1. td' = td /\ loop \in {"login", "main"} /\ td \notin Tg!Served
    BY <1>1 DEF Tg!Receive, Tg!Served, Tg!Automatic
  <2>2. Tg!Says(news, td) /\ loop = "login"
    BY <1>1, <2>1, ReceiveEffect DEF Tg!NewsInv
  <2>3. Tg!Says(news, Head(news))
    <3>1. news \in Seq(Updates) /\ news # << >>
      BY <1>1 DEF Tg!Receive, Tg!TypeOK, Updates
    <3> QED
      BY <3>1, EmptySeq, LenProperties DEF Tg!Says
  <2>4. Head(news) # "ready" /\ loop' = "login"
    BY <1>1, <2>1, <2>2, <2>3 DEF Tg!NewsInv, Tg!Receive, Tg!LoopAfter, Tg!m_authorizationGranted
  <2> QED
    BY <1>1, <2>1, <2>2, <2>4, ReceiveEffect
<1>2. CASE Tg!restart
  BY <1>2, NewClientNews DEF Tg!restart
<1>3. CASE DBusGoesOn
  BY <1>3, DBusEffect DEF Tg!Says
<1>4. CASE Tg!UnlockedMapFaults
  BY <1>4, NewClientNews DEF Tg!UnlockedMapFaults
<1>5. CASE Tg!Reborn
  BY <1>5 DEF Tg!Reborn, Tg!Says
<1>6. CASE Tg!TdAccepts
  <2>1. loop' = loop /\ loop \in {"login", "restart"}
    BY <1>6, TdAcceptsEffect DEF Tg!TdAccepts, Tg!NewsInv, Tg!TypeOK, Tg!Loops
  <2> QED
    BY <1>6, <2>1, TdAcceptsEffect
<1>7. CASE Tg!TdRefuses
  BY <1>7, TdRefusesEffect DEF Tg!TdRefuses
<1>8. CASE Tg!SignedOut
  BY <1>8, SignedOutEffect DEF Tg!Automatic
<1> QED
  BY <1>1, <1>2, <1>3, <1>4, <1>5, <1>6, <1>7, <1>8
     DEF Tg!Next, Tg!LoginThread, Tg!TdLib, Tg!DBusThread, DBusGoesOn

-----------------------------------------------------------------------------
(* All of it is kept by every step, whichever thread takes it.                *)
LEMMA StepTelegram ==
    ASSUME Tg!IInv, [Tg!Next]_(Tg!vars)
    PROVE  Tg!IInv'
<1>1. CASE Tg!Next
  BY <1>1, StepTelegramTypeOK, StepNewsInv, StepGrantedMeansOpen, StepRequestIsComing DEF Tg!IInv
<1>2. CASE UNCHANGED Tg!vars
  BY <1>2 DEF Tg!vars, Tg!IInv, Tg!TypeOK, Tg!GrantedMeansOpen, Tg!RequestIsComing,
              Tg!NewsInv, Tg!EndAnnounced, Tg!Says, Tg!m_authorizationGranted
<1> QED
  BY <1>1, <1>2

-----------------------------------------------------------------------------
(* The threads of http_stream.  Handlers that wait for a call hold one each.  *)
Running == {s \in Sessions : Http!Is(s, "running")}
Phases == {"free", "reading", "arrived", "running", "writing", "stuck"}
Connections == [phase : Phases, call : Http!Calls \cup {"none"}]
CallOnlyWhileRunning(c) == c.call # "none" <=> c.phase = "running"

HttpInv ==
    /\ accepting \in BOOLEAN
    /\ session \in [Sessions -> Connections]
    /\ \A s \in Sessions : CallOnlyWhileRunning(session[s])
    /\ Cardinality(Running) <= Threads

(* HttpServer counts as this module does.                                     *)
LEMMA SameCardinality == ASSUME NEW S
                         PROVE  Http!Cardinality(S) = Cardinality(S)
  BY DEF Http!Cardinality, Cardinality

LEMMA HttpInvIsTypeOK == HttpInv => Http!TypeOK
<1> SUFFICES ASSUME HttpInv
             PROVE  Http!TypeOK
  OBVIOUS
<1>1. Cardinality({s \in Sessions : Http!Is(s, "running")}) <= Threads
  BY DEF HttpInv, Running
<1>2. \A s \in Sessions : session[s].call # "none" <=> Http!Is(s, "running")
  BY DEF HttpInv, CallOnlyWhileRunning, Http!Is
<1>3. session \in [Sessions -> Connections]
  BY DEF HttpInv
<1> QED
  BY <1>1, <1>2, <1>3, SameCardinality DEF HttpInv, Http!TypeOK, Phases, Connections

LEMMA RunningFinite == IsFiniteSet(Running) /\ Cardinality(Running) \in Nat
<1>1. IsFiniteSet(Sessions)
  BY BoundsAssumption
<1>2. Running \subseteq Sessions
  BY DEF Running
<1> QED
  BY <1>1, <1>2, FS_Subset, FS_CardinalityType

(* A session that enters a phase holds no thread in it, or has taken one that *)
(* was free.                                                                  *)
LEMMA EnterKeeps ==
    ASSUME HttpInv, NEW s \in Sessions, NEW c \in Connections, CallOnlyWhileRunning(c),
           session' = [session EXCEPT ![s] = c], accepting' \in BOOLEAN,
           c.phase = "running" => Http!ThreadFree
    PROVE  HttpInv'
<1>1. session' \in [Sessions -> Connections]
  BY DEF HttpInv
<1>2. \A r \in Sessions : CallOnlyWhileRunning(session'[r])
  BY DEF HttpInv
<1>3. Running' = {r \in Sessions : session'[r].phase = "running"}
  BY DEF Running, Http!Is
<1>4. Cardinality(Running') <= Threads
  <2>1. CASE c.phase = "running"
    <3>1. Running' = Running \cup {s}
      BY <1>3, <2>1 DEF Running, Http!Is, HttpInv
    <3>2. Cardinality(Running) < Threads
      BY <2>1, SameCardinality DEF Http!ThreadFree, Running
    <3>3. Cardinality(Running \cup {s}) \in {Cardinality(Running), Cardinality(Running) + 1}
      BY RunningFinite, FS_AddElement
    <3> QED
      BY <3>1, <3>2, <3>3, RunningFinite, BoundsAssumption
  <2>2. CASE c.phase # "running"
    <3>1. Running' \subseteq Running
      BY <1>3, <2>2 DEF Running, Http!Is, HttpInv
    <3>2. Cardinality(Running') <= Cardinality(Running) /\ Cardinality(Running') \in Nat
      BY <3>1, RunningFinite, FS_Subset, FS_CardinalityType
    <3> QED
      BY <3>2, RunningFinite, BoundsAssumption DEF HttpInv
  <2> QED
    BY <2>1, <2>2
<1> QED
  BY <1>1, <1>2, <1>4 DEF HttpInv

(* A process that has just started.                                           *)
LEMMA FreshHttp ==
    /\ Http!Init => HttpInv
    /\ Http!ProcessDies => HttpInv'
<1>1. Http!Free \in Connections /\ CallOnlyWhileRunning(Http!Free) /\ Http!Free.phase # "running"
  BY DEF Http!Free, Connections, Phases, CallOnlyWhileRunning
<1>2. Cardinality({}) <= Threads
  BY FS_EmptySet, BoundsAssumption
<1>3. Http!Init => HttpInv
  <2> SUFFICES ASSUME Http!Init
               PROVE  HttpInv
    OBVIOUS
  <2>1. Running = {}
    BY <1>1 DEF Running, Http!Is, Http!Init
  <2> QED
    BY <1>1, <1>2, <2>1 DEF HttpInv, Http!Init
<1>4. Http!ProcessDies => HttpInv'
  <2> SUFFICES ASSUME Http!ProcessDies
               PROVE  HttpInv'
    OBVIOUS
  <2>1. Running' = {}
    BY <1>1 DEF Running, Http!Is, Http!ProcessDies
  <2> QED
    BY <1>1, <1>2, <2>1 DEF HttpInv, Http!ProcessDies
<1> QED
  BY <1>3, <1>4

LEMMA HttpUntouched == HttpInv /\ UNCHANGED http => HttpInv'
  BY DEF http, HttpInv, Running, Http!Is

(* Entering a phase other than running.                                       *)
LEMMA LeavesThread ==
    ASSUME HttpInv, NEW s \in Sessions, NEW to \in Phases \ {"running"}, Http!Enter(s, to),
           accepting' \in BOOLEAN
    PROVE  HttpInv'
<1> DEFINE c == [phase |-> to, call |-> "none"]
<1>1. c \in Connections /\ CallOnlyWhileRunning(c) /\ c.phase # "running"
  BY DEF Connections, CallOnlyWhileRunning
<1>2. session' = [session EXCEPT ![s] = c]
  BY DEF Http!Enter
<1> HIDE DEF c
<1> QED
  BY <1>1, <1>2, EnterKeeps

LEMMA StartKeeps ==
    ASSUME HttpInv, NEW s \in Sessions, Http!Start(s)
    PROVE  HttpInv'
<1>1. accepting' \in BOOLEAN
  BY DEF HttpInv, Http!Start
<1>2. CASE Http!Enter(s, "writing")
  BY <1>1, <1>2, LeavesThread DEF Phases
<1>3. ASSUME NEW call \in Http!Calls,
             session' = [session EXCEPT ![s] = [phase |-> "running", call |-> call]]
      PROVE  HttpInv'
  <2> DEFINE c == [phase |-> "running", call |-> call]
  <2>1. c \in Connections /\ CallOnlyWhileRunning(c)
    BY DEF Connections, CallOnlyWhileRunning, Phases, Http!Calls, Http!Caught, Http!Telegram
  <2>2. session' = [session EXCEPT ![s] = c] /\ Http!ThreadFree
    BY <1>3 DEF Http!Start
  <2> HIDE DEF c
  <2> QED
    BY <1>1, <2>1, <2>2, EnterKeeps
<1> QED
  BY <1>2, <1>3 DEF Http!Start

LEMMA CallKeeps ==
    ASSUME HttpInv, NEW s \in Sessions, Http!CallReturns(s) \/ Http!CallFails(s)
    PROVE  HttpInv'
<1>1. accepting \in BOOLEAN
  BY DEF HttpInv
<1> QED
  BY <1>1, LeavesThread, FreshHttp DEF Http!CallReturns, Http!CallFails, Http!AnswersError, Phases

(* Which handlers wait for which call only changes where a call is made, or   *)
(* ends.                                                                      *)
CallsKept == \A s \in Sessions : session'[s].call = session[s].call

LEMMA ConnectionKeeps ==
    ASSUME HttpInv, HttpConnection
    PROVE  HttpInv' /\ CallsKept
<1>1. accepting \in BOOLEAN
  BY DEF HttpInv
<1>2. CASE Http!AcceptFails
  BY <1>2 DEF Http!AcceptFails, HttpInv, Running, Http!Is, CallsKept
<1>3. ASSUME NEW s \in Sessions, Http!Connection(s)
      PROVE  HttpInv' /\ CallsKept
  <2>1. PICK to \in Phases \ {"running"} : Http!Enter(s, to)
    BY <1>3 DEF Http!Connection, Http!Accept, Http!ReadFails, Http!Arrive, Http!Written,
                Http!WriteFails, Http!Handler, Phases
  <2>2. accepting' \in BOOLEAN
    BY <1>1, <1>3 DEF Http!Connection, Http!Accept, Http!ReadFails, Http!Arrive,
                      Http!Written, Http!WriteFails, Http!Handler
  <2>3. session[s].call = "none"
    BY <1>3 DEF HttpInv, CallOnlyWhileRunning, Http!Is, Http!Connection, Http!Accept,
                Http!ReadFails, Http!Arrive, Http!Written, Http!WriteFails, Http!Handler
  <2>4. CallsKept
    BY <2>1, <2>3 DEF HttpInv, Http!Enter, CallsKept
  <2> QED
    BY <2>1, <2>2, <2>4, LeavesThread
<1> QED
  BY <1>2, <1>3 DEF HttpConnection

LEMMA StepHttpInv ==
    ASSUME HttpInv, calls # << >> => Head(calls) \in Callers, [Next]_vars
    PROVE  HttpInv'
<1>1. CASE HttpConnection
  BY <1>1, ConnectionKeeps
<1>2. ASSUME NEW s \in Sessions, HttpStart(s)
      PROVE  HttpInv'
  BY <1>2, StartKeeps DEF HttpStart
<1>3. ASSUME NEW s \in Sessions, OtherCallReturns(s) \/ OtherCallFails(s)
      PROVE  HttpInv'
  BY <1>3, CallKeeps DEF OtherCallReturns, OtherCallFails
<1>4. CASE CallTaken \/ CallEnds
  <2>1. UNCHANGED http \/ Returns(Head(calls)) \/ Fails(Head(calls))
    BY <1>4 DEF CallTaken, CallEnds
  <2>2. \/ UNCHANGED http
        \/ \E s \in Sessions : Http!CallReturns(s) \/ Http!CallFails(s)
    BY <2>1 DEF Returns, Fails
  <2> QED
    BY <2>2, CallKeeps, HttpUntouched
<1>5. CASE \/ Broadcast \/ UNCHANGED vars
           \/ Alone(Tg!LoginThread) \/ Alone(Tg!TdLib) \/ Alone(Tg!Reborn)
  BY <1>5, HttpUntouched DEF Broadcast, Alone, vars
<1> QED
  BY <1>1, <1>2, <1>3, <1>4, <1>5 DEF Next

-----------------------------------------------------------------------------
(* The calls that telegram_client has: who waits for which of them.           *)
EachOnce == \A i, j \in DOMAIN calls : calls[i] = calls[j] => i = j \/ calls[i] = "nobody"
EachWaits == \A i \in DOMAIN calls : calls[i] = "nobody" \/ Waits(calls[i])
FirstAsks == sending # "none" => calls # << >> /\ sending \in AsksFor(Head(calls))

QueueInv ==
    /\ notifier \in {"idle", "calling"}
    /\ calls \in Seq(Callers)
    /\ EachOnce /\ EachWaits /\ FirstAsks

LEMMA CallerNames == "notifier" \notin Sessions /\ "nobody" \notin Sessions
BY BoundsAssumption

(* What the first call asks for is a message.                                 *)
LEMMA AsksForMessages ==
    ASSUME QueueInv, calls # << >>
    PROVE  Head(calls) \in Callers /\ AsksFor(Head(calls)) \subseteq Tg!Messages
<1>1. calls \in Seq(Callers)
  BY DEF QueueInv
<1>2. Head(calls) \in Callers /\ 1 \in DOMAIN calls /\ Head(calls) = calls[1]
  BY <1>1, TailItems
<1>3. Head(calls) = "nobody" \/ Waits(Head(calls))
  BY <1>2 DEF QueueInv, EachWaits
<1> QED
  BY <1>2, <1>3, CallerNames DEF Waits, AsksFor, Http!Telegram, Tg!Messages

(* A step that makes and ends no call of telegram_client.                     *)
LEMMA QueueKept ==
    ASSUME QueueInv, UNCHANGED <<calls, notifier>>,
           \A s \in Sessions : session[s].call \in Http!Telegram
                               => session'[s].call = session[s].call,
           sending' \in {sending, "none"} \/ (calls # << >> /\ sending' \in AsksFor(Head(calls)))
    PROVE  QueueInv'
<1>1. calls \in Seq(Callers)
  BY DEF QueueInv
<1>2. \A i \in DOMAIN calls : calls[i] = "nobody" \/ (Waits(calls[i]) /\ Waits(calls[i])')
  BY DEF QueueInv, EachWaits, Waits
<1>3. ASSUME calls # << >>
      PROVE  AsksFor(Head(calls))' = AsksFor(Head(calls))
  <2>1. 1 \in DOMAIN calls /\ Head(calls) = calls[1]
    BY <1>1, <1>3, TailItems
  <2> QED
    BY <1>2, <2>1, CallerNames DEF AsksFor, Waits
<1>4. sending' # "none" => calls # << >> /\ sending' \in AsksFor(Head(calls))
  BY DEF QueueInv, FirstAsks
<1> QED
  BY <1>2, <1>3, <1>4 DEF QueueInv, EachOnce, EachWaits, FirstAsks

(* A caller that had no call makes one.                                       *)
LEMMA QueueJoined ==
    ASSUME QueueInv, NEW c \in Callers \ {"nobody"}, ~Waits(c), Waits(c)',
           calls' = Append(calls, c), sending' = sending,
           notifier' \in {"idle", "calling"}, c # "notifier" => notifier' = notifier,
           \A s \in Sessions \ {c} : session'[s].call = session[s].call
    PROVE  QueueInv'
<1>1. calls \in Seq(Callers)
  BY DEF QueueInv
<1> DEFINE n == Len(calls)
<1>2. /\ calls' \in Seq(Callers)
      /\ n \in Nat /\ DOMAIN calls = 1..n /\ DOMAIN calls' = 1..(n + 1)
      /\ \A i \in 1..n : calls'[i] = calls[i]
      /\ calls'[n + 1] = c
  BY <1>1, AppendItems
<1> HIDE DEF n
<1>3. \A i \in 1..n : calls[i] # c
  BY <1>2 DEF QueueInv, EachWaits
<1>4. EachOnce'
  <2> SUFFICES ASSUME NEW i \in DOMAIN calls', NEW j \in DOMAIN calls',
                      calls'[i] = calls'[j], i # j
               PROVE  calls'[i] = "nobody"
    BY DEF EachOnce
  <2>1. i \in 1..n /\ j \in 1..n
    BY <1>2, <1>3
  <2> QED
    BY <1>2, <2>1 DEF QueueInv, EachOnce
<1>5. \A i \in 1..n : calls[i] = "nobody" \/ Waits(calls[i])'
  BY <1>2, <1>3, CallerNames DEF QueueInv, EachWaits, Waits
<1>6. EachWaits'
  BY <1>2, <1>5 DEF EachWaits, Waits
<1>7. FirstAsks'
  <2> SUFFICES ASSUME sending # "none"
               PROVE  FirstAsks'
    BY DEF FirstAsks
  <2>1. calls # << >> /\ sending \in AsksFor(Head(calls))
    BY DEF QueueInv, FirstAsks
  <2>2. Head(calls) = calls[1] /\ 1 \in 1..n
    BY <1>1, <2>1, TailItems DEF n
  <2>3. calls' # << >>
    BY <1>2
  <2>4. Head(calls') = Head(calls)
    BY <1>2, <2>2, <2>3, TailItems
  <2>5. AsksFor(Head(calls))' = AsksFor(Head(calls))
    BY <1>2, <1>3, <2>2, <2>4, CallerNames DEF AsksFor
  <2> QED
    BY <2>1, <2>3, <2>5 DEF FirstAsks
<1> QED
  BY <1>2, <1>4, <1>6, <1>7 DEF QueueInv

(* The first call is over; of the others some may be left behind.             *)
LEMMA QueueShortened ==
    ASSUME QueueInv, calls # << >>, sending' = "none", notifier' = NotifierAfter(Head(calls)),
           calls' \in Seq(Callers), DOMAIN calls' = DOMAIN Tail(calls),
           \A i \in DOMAIN calls' :
              \/ calls'[i] = "nobody"
              \/ /\ calls'[i] = Tail(calls)[i]
                 /\ \A s \in Sessions \ {Head(calls)} :
                       calls'[i] = s => session'[s].call = session[s].call
    PROVE  QueueInv'
<1> DEFINE n == Len(calls)
<1>1. calls \in Seq(Callers)
  BY DEF QueueInv
<1>2. /\ n \in Nat \ {0} /\ DOMAIN calls = 1..n /\ DOMAIN Tail(calls) = 1..(n - 1)
      /\ Head(calls) = calls[1]
      /\ \A i \in 1..(n - 1) : Tail(calls)[i] = calls[i + 1]
  BY <1>1, TailItems
<1> HIDE DEF n
<1>3. ASSUME NEW i \in DOMAIN calls', calls'[i] # "nobody"
      PROVE  /\ i + 1 \in DOMAIN calls /\ 1 \in DOMAIN calls /\ i + 1 # 1
             /\ calls'[i] = calls[i + 1] /\ calls[i + 1] # Head(calls)
  <2>1. i + 1 \in DOMAIN calls /\ 1 \in DOMAIN calls /\ i + 1 # 1 /\ calls'[i] = calls[i + 1]
    BY <1>2, <1>3
  <2> QED
    BY <1>2, <1>3, <2>1 DEF QueueInv, EachOnce
<1>4. EachOnce'
  <2> SUFFICES ASSUME NEW i \in DOMAIN calls', NEW j \in DOMAIN calls',
                      calls'[i] = calls'[j], calls'[i] # "nobody"
               PROVE  i = j
    BY DEF EachOnce
  <2>1. /\ i + 1 \in DOMAIN calls /\ j + 1 \in DOMAIN calls
        /\ calls[i + 1] = calls[j + 1] /\ calls[i + 1] # "nobody"
    BY <1>3
  <2>2. i + 1 = j + 1
    BY <2>1 DEF QueueInv, EachOnce
  <2> QED
    BY <1>2, <2>2
<1>5. EachWaits'
  <2> SUFFICES ASSUME NEW i \in DOMAIN calls', calls'[i] # "nobody"
               PROVE  IF calls'[i] \in Sessions
                      THEN session'[calls'[i]].call \in Http!Telegram
                      ELSE notifier' = "calling"
    BY DEF EachWaits, Waits
  <2>1. Waits(calls'[i])
    BY <1>3 DEF QueueInv, EachWaits
  <2>2. calls'[i] \in Sessions => session'[calls'[i]].call = session[calls'[i]].call
    BY <1>3
  <2>3. calls'[i] \notin Sessions => notifier' = notifier
    <3>1. calls'[i] \notin Sessions => calls'[i] = "notifier"
      BY DEF Callers
    <3> QED
      BY <1>3, <3>1 DEF NotifierAfter
  <2> QED
    BY <2>1, <2>2, <2>3 DEF Waits
<1> QED
  BY <1>4, <1>5 DEF QueueInv, FirstAsks, NotifierAfter

(* What is left of a queue when sessions have gone.                           *)
LEMMA RemainingItems ==
    ASSUME NEW seq \in Seq(Callers)
    PROVE  /\ Remaining(seq) \in Seq(Callers)
           /\ DOMAIN Remaining(seq) = DOMAIN seq
           /\ \A i \in DOMAIN seq :
                 Remaining(seq)[i] = IF seq[i] \in Sessions /\ session'[seq[i]].call = "none"
                                     THEN "nobody" ELSE seq[i]
<1>1. Len(seq) \in Nat /\ DOMAIN seq = 1..Len(seq) /\ \A i \in DOMAIN seq : seq[i] \in Callers
  BY LenProperties, ElementOfSeq
<1>2. \A i \in 1..Len(seq) :
         (IF seq[i] \in Sessions /\ session'[seq[i]].call = "none" THEN "nobody" ELSE seq[i])
            \in Callers
  BY <1>1 DEF Callers
<1>3. Remaining(seq) \in [1..Len(seq) -> Callers]
  BY <1>1, <1>2 DEF Remaining
<1> QED
  BY <1>1, <1>3, SeqDef DEF Remaining

(* The calls of an http_stream stay, or it has ended and has none.            *)
CallsGone == \A s \in Sessions : session'[s].call = "none"

LEMMA EndOfProcess == ASSUME Http!ProcessDies
                      PROVE  CallsGone
BY DEF Http!ProcessDies, Http!Free, CallsGone

LEMMA ReturnsKeeps ==
    ASSUME QueueInv, HttpInv, calls # << >>, sending' = "none", Returns(Head(calls))
    PROVE  QueueInv'
<1>1. calls \in Seq(Callers)
  BY DEF QueueInv
<1>2. \A s \in Sessions \ {Head(calls)} : session'[s].call = session[s].call
  BY DEF Returns, Http!CallReturns, Http!Enter, HttpInv, http
<1>3. calls' = Tail(calls) /\ calls' \in Seq(Callers) /\ notifier' = NotifierAfter(Head(calls))
  BY <1>1, TailItems DEF Returns
<1> QED
  BY <1>2, <1>3, QueueShortened

LEMMA FailsKeeps ==
    ASSUME QueueInv, HttpInv, calls # << >>, sending' = "none", Fails(Head(calls))
    PROVE  QueueInv'
<1>1. calls \in Seq(Callers)
  BY DEF QueueInv
<1>2. \/ \A s \in Sessions \ {Head(calls)} : session'[s].call = session[s].call
      \/ CallsGone
  BY EndOfProcess DEF Fails, Http!CallFails, Http!AnswersError, Http!Enter, HttpInv, http
<1>3. Tail(calls) \in Seq(Callers)
  BY <1>1, TailItems
<1>4. calls' = Remaining(Tail(calls)) /\ notifier' = NotifierAfter(Head(calls))
  BY DEF Fails
<1>5. /\ calls' \in Seq(Callers) /\ DOMAIN calls' = DOMAIN Tail(calls)
      /\ \A i \in DOMAIN calls' :
            calls'[i] = IF Tail(calls)[i] \in Sessions /\ session'[Tail(calls)[i]].call = "none"
                        THEN "nobody" ELSE Tail(calls)[i]
  BY <1>3, <1>4, RemainingItems
<1> QED
  BY <1>2, <1>4, <1>5, QueueShortened DEF CallsGone

LEMMA OtherCallFailsKeeps ==
    ASSUME QueueInv, HttpInv, Tg!TypeOK, NEW s \in Sessions, OtherCallFails(s)
    PROVE  QueueInv'
<1>1. calls \in Seq(Callers)
  BY DEF QueueInv
<1>2. notifier' = notifier /\ sending' = sending /\ calls' = Remaining(calls)
  BY DEF OtherCallFails, telegram
<1>3. /\ calls' \in Seq(Callers) /\ DOMAIN calls' = DOMAIN calls
      /\ \A i \in DOMAIN calls' :
            calls'[i] = IF calls[i] \in Sessions /\ session'[calls[i]].call = "none"
                        THEN "nobody" ELSE calls[i]
  BY <1>1, <1>2, RemainingItems
<1>4. CallsGone \/ \A r \in Sessions \ {s} : session'[r].call = session[r].call
  BY EndOfProcess DEF OtherCallFails, Http!CallFails, Http!AnswersError, Http!Enter, HttpInv
<1>5. \A i \in DOMAIN calls : calls[i] # s
  BY CallerNames DEF QueueInv, EachWaits, Waits, OtherCallFails
<1>6. ASSUME NEW i \in DOMAIN calls', calls'[i] # "nobody"
      PROVE  /\ calls'[i] = calls[i] /\ Waits(calls[i])
             /\ calls[i] \in Sessions => session'[calls[i]].call = session[calls[i]].call
  BY <1>3, <1>4, <1>5, <1>6 DEF QueueInv, EachWaits, CallsGone
<1>7. EachOnce'
  BY <1>3, <1>6 DEF QueueInv, EachOnce
<1>8. EachWaits'
  BY <1>2, <1>6 DEF EachWaits, Waits
<1>9. FirstAsks'
  <2> SUFFICES ASSUME sending # "none"
               PROVE  FirstAsks'
    BY <1>2 DEF FirstAsks
  <2>1. calls # << >> /\ sending \in AsksFor(Head(calls)) /\ sending \in Tg!Messages
    BY DEF QueueInv, FirstAsks, Tg!TypeOK
  <2>2. 1 \in DOMAIN calls /\ Head(calls) = calls[1]
    BY <1>1, <2>1, TailItems
  <2>3. calls' # << >> /\ Head(calls') = calls'[1]
    <3>1. calls' # << >>
      BY <1>3, <2>2
    <3> QED
      BY <1>3, <3>1, TailItems
  <2>4. sending \in IF calls'[1] \in Sessions THEN {session'[calls'[1]].call}
                    ELSE IF calls'[1] = "notifier" THEN {"text"} ELSE Tg!Messages
    BY <1>3, <1>6, <2>1, <2>2, CallerNames DEF AsksFor
  <2> QED
    BY <1>2, <2>3, <2>4 DEF FirstAsks, AsksFor
<1> QED
  BY <1>2, <1>3, <1>7, <1>8, <1>9 DEF QueueInv

LEMMA StepQueueInv ==
    ASSUME QueueInv, HttpInv, Tg!IInv, [Next]_vars
    PROVE  QueueInv'
<1>1. Tg!TypeOK /\ (sending # "none" => loop # "dead")
  BY DEF Tg!IInv, Tg!NewsInv
<1>2. CASE HttpConnection
  <2>1. CallsKept /\ UNCHANGED <<calls, notifier, sending>>
    BY <1>2, ConnectionKeeps DEF HttpConnection, telegram
  <2> QED
    BY <2>1, QueueKept DEF CallsKept
<1>3. ASSUME NEW s \in Sessions, HttpStart(s)
      PROVE  QueueInv'
  <2>1. session[s].call = "none" /\ ~Waits(s)
    BY <1>3 DEF HttpStart, Http!Start, HttpInv, CallOnlyWhileRunning, Http!Is, Waits,
                Http!Telegram
  <2>2. \A r \in Sessions \ {s} : session'[r].call = session[r].call
    BY <1>3 DEF HttpStart, Http!Start, Http!Enter, HttpInv
  <2>3. UNCHANGED <<notifier, sending>>
    BY <1>3 DEF HttpStart, telegram
  <2>4. CASE session'[s].call \in Http!Telegram
    <3>1. calls' = Append(calls, s) /\ s \in Callers \ {"nobody"} /\ s # "notifier" /\ Waits(s)'
      BY <1>3, <2>4, CallerNames DEF HttpStart, Callers, Waits
    <3>2. notifier' \in {"idle", "calling"}
      BY <2>3 DEF QueueInv
    <3> QED
      BY <2>1, <2>2, <2>3, <3>1, <3>2, QueueJoined
  <2>5. CASE session'[s].call \notin Http!Telegram
    <3>1. calls' = calls
      BY <1>3, <2>5 DEF HttpStart
    <3>2. "none" \notin Http!Telegram
      BY DEF Http!Telegram
    <3> QED
      BY <2>1, <2>2, <2>3, <3>1, <3>2, QueueKept
  <2> QED
    BY <2>4, <2>5
<1>4. ASSUME NEW s \in Sessions, OtherCallReturns(s)
      PROVE  QueueInv'
  <2>1. UNCHANGED <<calls, notifier, sending>> /\ session[s].call \notin Http!Telegram
    BY <1>4 DEF OtherCallReturns, telegram
  <2>2. \A r \in Sessions \ {s} : session'[r].call = session[r].call
    BY <1>4 DEF OtherCallReturns, Http!CallReturns, Http!Enter, HttpInv
  <2> QED
    BY <2>1, <2>2, QueueKept
<1>5. ASSUME NEW s \in Sessions, OtherCallFails(s)
      PROVE  QueueInv'
  BY <1>1, <1>5, OtherCallFailsKeeps
<1>6. CASE Broadcast
  <2>1. /\ "notifier" \in Callers \ {"nobody"} /\ ~Waits("notifier") /\ Waits("notifier")'
        /\ calls' = Append(calls, "notifier") /\ notifier' = "calling"
        /\ UNCHANGED <<session, sending>>
    BY <1>6, CallerNames DEF Broadcast, Callers, Waits, http, telegram
  <2> QED
    BY <2>1, QueueJoined
<1>7. CASE CallTaken
  <2>1. PICK message \in AsksFor(Head(calls)) :
           \/ Tg!Drops(message) /\ Returns(Head(calls))
           \/ Tg!Admits(message) /\ UNCHANGED <<http, calls, notifier>>
    BY <1>7 DEF CallTaken
  <2>2. CASE Tg!Drops(message) /\ Returns(Head(calls))
    BY <1>7, <2>2, ReturnsKeeps DEF CallTaken, Tg!Drops, Tg!vars
  <2>3. CASE Tg!Admits(message) /\ UNCHANGED <<http, calls, notifier>>
    BY <1>7, <2>1, <2>3, QueueKept DEF CallTaken, Tg!Admits, http
  <2> QED
    BY <2>1, <2>2, <2>3
<1>8. CASE CallEnds
  <2>1. CASE Tg!Sends /\ Returns(Head(calls))
    BY <1>8, <2>1, ReturnsKeeps DEF CallEnds, Tg!Sends
  <2>2. CASE Tg!UnlockedMapFaults /\ Fails(Head(calls))
    BY <1>8, <2>2, FailsKeeps DEF CallEnds, Tg!UnlockedMapFaults
  <2>3. CASE loop = "dead" /\ UNCHANGED telegram /\ Fails(Head(calls))
    BY <1>1, <1>8, <2>3, FailsKeeps DEF CallEnds, telegram
  <2> QED
    BY <1>8, <2>1, <2>2, <2>3 DEF CallEnds
<1>9. CASE \/ UNCHANGED vars
           \/ Alone(Tg!LoginThread) \/ Alone(Tg!TdLib) \/ Alone(Tg!Reborn)
  <2>1. UNCHANGED <<session, calls, notifier, sending>>
    BY <1>9 DEF Alone, http, telegram, vars, Tg!LoginThread, Tg!Receive, Tg!restart, Tg!TdLib,
                Tg!TdAccepts, Tg!TdRefuses, Tg!SignedOut, Tg!Reborn
  <2> QED
    BY <2>1, QueueKept
<1> QED
  BY <1>2, <1>3, <1>4, <1>5, <1>6, <1>7, <1>8, <1>9 DEF Next
-----------------------------------------------------------------------------
(* Whatever http_stream and price_result_stream do, telegram_client takes a   *)
(* step of its own specification, or none.                                    *)
LEMMA TelegramStep ==
    ASSUME QueueInv, [Next]_vars
    PROVE  [Tg!Next]_(Tg!vars)
<1>1. CASE \/ HttpConnection \/ Broadcast
           \/ \E s \in Sessions : HttpStart(s) \/ OtherCallReturns(s) \/ OtherCallFails(s)
  BY <1>1 DEF HttpConnection, Broadcast, HttpStart, OtherCallReturns, OtherCallFails,
              telegram, Tg!vars
<1>2. CASE CallTaken
  <2>1. \E message \in Tg!Messages : Tg!Drops(message) \/ Tg!Admits(message)
    BY <1>2, AsksForMessages DEF CallTaken
  <2> QED
    BY <2>1 DEF Tg!Next, Tg!DBusThread
<1>3. CASE CallEnds
  BY <1>3 DEF CallEnds, telegram, Tg!vars, Tg!Next, Tg!DBusThread
<1>4. CASE Alone(Tg!LoginThread) \/ Alone(Tg!TdLib) \/ Alone(Tg!Reborn)
  BY <1>4 DEF Alone, Tg!Next
<1>5. CASE UNCHANGED vars
  BY <1>5 DEF vars, telegram, Tg!vars
<1> QED
  BY <1>1, <1>2, <1>3, <1>4, <1>5 DEF Next

(* All three processes together.                                              *)
Inv == QueueInv /\ HttpInv /\ Tg!IInv

THEOREM Invariance == Spec => []Inv
<1>1. Init => Inv
  <2> SUFFICES ASSUME Init
               PROVE  Inv
    OBVIOUS
  <2>1. HttpInv /\ Tg!IInv
    BY FreshHttp, InitTelegram DEF Init
  <2>2. QueueInv
    BY EmptySeq DEF Init, QueueInv, EachOnce, EachWaits, FirstAsks, Tg!Init
  <2> QED
    BY <2>1, <2>2 DEF Inv
<1>2. Inv /\ [Next]_vars => Inv'
  <2> SUFFICES ASSUME Inv, [Next]_vars
               PROVE  Inv'
    OBVIOUS
  <2>1. QueueInv'
    BY StepQueueInv DEF Inv
  <2>2. HttpInv'
    BY StepHttpInv, AsksForMessages DEF Inv
  <2>3. Tg!IInv'
    BY TelegramStep, StepTelegram DEF Inv
  <2> QED
    BY <2>1, <2>2, <2>3 DEF Inv
<1> QED
  BY <1>1, <1>2, PTL DEF Spec

(* telegram_client as Messaging composes it is telegram_client.               *)
THEOREM Composed == Spec => Tg!Spec
<1>1. Init => Tg!Init
  BY DEF Init
<1>2. Inv /\ [Next]_vars => [Tg!Next]_(Tg!vars)
  BY TelegramStep DEF Inv
<1> QED
  BY <1>1, <1>2, Invariance, PTL DEF Spec, Tg!Spec

(* Texts are admitted only while the client is logged in or its log-out has   *)
(* still to be received, although the flag is read on the D-Bus thread; and   *)
(* one that was admitted is sent to no client that has not logged in, whatever*)
(* the login thread does between the test of the flag and the request.        *)
THEOREM TextsReachAnOpenClient == Spec => []GrantedMeansOpen
<1>1. Inv => GrantedMeansOpen
  BY DEF Inv, Tg!IInv, GrantedMeansOpen
<1> QED
  BY <1>1, Invariance, PTL

(* A client that waits for a request the login thread makes by itself has it  *)
(* coming, unless TDLib refused it: what comes from D-Bus displaces nothing.  *)
THEOREM LoginIsNotForgotten == Spec => []Tg!RequestIsComing
<1>1. Inv => Tg!RequestIsComing
  BY DEF Inv, Tg!IInv
<1> QED
  BY <1>1, Invariance, PTL

(* The three processes keep their types; http_stream never waits for more     *)
(* calls than it has threads, and nobody has two calls in telegram_client or  *)
(* one there that it does not wait for.                                       *)
THEOREM TypeCorrect == Spec => []TypeOK
<1>1. Inv => TypeOK
  BY HttpInvIsTypeOK DEF Inv, QueueInv, EachOnce, EachWaits, FirstAsks, TypeOK, Callers, Tg!IInv
<1> QED
  BY <1>1, Invariance, PTL
=============================================================================
