------------------------- MODULE AccountTasksProofs -------------------------
(* Proofs that every safety property of AccountTasks holds for all sets of    *)
(* requests, task ids and exchanges and all bounds.                           *)
EXTENDS AccountTasks, SequenceTheorems, TLAPS

LEMMA Bounds == MaxSessions \in Nat \ {0} /\ MaxPolls \in Nat \ {0} /\ MaxBacklog \in Nat \ {0}
  BY BoundAssumption

(* Sequences: of a larger set, with an item more, and with one less.          *)
LEMMA SeqMono ==
    ASSUME NEW S, NEW T, S \subseteq T, NEW seq \in Seq(S)
    PROVE  seq \in Seq(T)
  OBVIOUS

LEMMA SeqHead ==
    ASSUME NEW S, NEW seq \in Seq(S), seq # << >>
    PROVE  Head(seq) \in S /\ Tail(seq) \in Seq(S) /\ Len(Tail(seq)) = Len(seq) - 1
  BY HeadTailProperties

LEMMA SeqRemove ==
    ASSUME NEW S, NEW seq \in Seq(S), NEW i \in DOMAIN seq
    PROVE  RemoveAt(seq, i) \in Seq(S) /\ Len(RemoveAt(seq, i)) = Len(seq) - 1
<1>1. Len(seq) \in Nat /\ i \in 1..Len(seq) /\ \A j \in 1..Len(seq) : seq[j] \in S
  BY LenProperties, ElementOfSeq
<1>2. SubSeq(seq, 1, i - 1) \in Seq(S) /\ Len(SubSeq(seq, 1, i - 1)) = i - 1
  BY <1>1, SubSeqProperties
<1>3. SubSeq(seq, i + 1, Len(seq)) \in Seq(S) /\ Len(SubSeq(seq, i + 1, Len(seq))) = Len(seq) - i
  <2>1. i + 1 \in 1..Len(seq) + 1 /\ Len(seq) \in i + 1 - 1..Len(seq)
    BY <1>1
  <2>2. SubSeq(seq, i + 1, Len(seq)) \in Seq(S)
    BY <2>1, <1>1, SubSeqProperties
  <2>3. CASE i = Len(seq)
    BY <2>3, <1>1, SubSeqProperties
  <2>4. CASE i < Len(seq)
    BY <2>4, <1>1, SubSeqProperties
  <2> QED
    BY <1>1, <2>2, <2>3, <2>4
<1> DEFINE left == SubSeq(seq, 1, i - 1)
           right == SubSeq(seq, i + 1, Len(seq))
<1>4. left \o right \in Seq(S) /\ Len(left \o right) = Len(left) + Len(right)
  <2> HIDE DEF left, right
  <2> QED
    BY <1>2, <1>3, ConcatProperties DEF left, right
<1>5. RemoveAt(seq, i) = left \o right
  BY DEF RemoveAt
<1>6. Len(left) + Len(right) = Len(seq) - 1
  BY <1>1, <1>2, <1>3
<1> QED
  <2> HIDE DEF left, right
  <2> QED
    BY <1>4, <1>5, <1>6

-----------------------------------------------------------------------------
LEMMA InitIInv == Init => IInv
<1> SUFFICES ASSUME Init
             PROVE  IInv
  OBVIOUS
<1> USE Bounds DEF Init
<1>1. Sent = {} /\ InProgress = {}
  BY DEF Sent, InProgress
<1>2. TypeOK
  <2>1. {tasks, statuses, replies, results} \subseteq Seq(Sent)
    OBVIOUS
  <2>2. wire \in [Exchanges -> Seq(Sent)] /\ listening \in [Exchanges -> BOOLEAN]
    BY DEF Nowhere, Nobody
  <2>3. polls \in [Requests -> 0..MaxPolls] /\ iter \in [Requests -> Int]
    OBVIOUS
  <2>4. /\ phase \in [Requests -> Phases]
        /\ request \in [Requests -> [task : TaskIds, exchange : Exchanges] \cup {None}]
        /\ answer \in [Requests -> handled \cup {None}]
    BY DEF Phases
  <2>5. severed \subseteq handled /\ overlapped \in BOOLEAN
    OBVIOUS
  <2>7. Len(results) <= MaxBacklog
    <3>1. Len(results) = 0
      OBVIOUS
    <3> QED
      BY <3>1
  <2>6. streams \in [Exchanges -> SUBSET Sent] /\ ioRunning \in BOOLEAN /\ hearing \in BOOLEAN
    OBVIOUS
  <2> QED
    BY <2>1, <2>2, <2>3, <2>4, <2>5, <2>6, <2>7 DEF TypeOK
<1>3. KnownInv
  BY <1>1 DEF KnownInv, Nowhere
<1>4. PollsInv /\ MonitoredInv
  BY DEF PollsInv, MonitoredInv
<1>5. AloneInv
  BY <1>1 DEF AloneInv, OneAtATime, Quiet, Lanes
<1> QED
  BY <1>2, <1>3, <1>4, <1>5 DEF IInv

(* A request keeps what it asks for, and what was handled was.                *)
Kept ==
    /\ Sent \subseteq Sent'
    /\ \A r \in Sent : request'[r] = request[r]
    /\ handled \subseteq handled'

LEMMA StepKept == ASSUME TypeOK, [Next]_vars
                  PROVE  Kept
<1> USE DEF Kept, Sent, TypeOK, session, network, monitor
<1>1. ASSUME NEW r \in Requests, NEW id \in TaskIds, NEW e \in Exchanges,
             MonitorUserAccount(r, id, e)
      PROVE  Kept
  BY <1>1 DEF MonitorUserAccount
<1>2. ASSUME NEW r \in Requests, Poll(r)
      PROVE  Kept
  BY <1>2 DEF Poll
<1>3. ASSUME NEW r \in Requests, Wake(r)
      PROVE  Kept
  BY <1>3 DEF Wake
<1>4. ASSUME NEW r \in Requests, TakeResult(r)
      PROVE  Kept
  BY <1>4 DEF TakeResult
<1>5. ASSUME NEW r \in Requests, TakeFaults(r)
      PROVE  Kept
  BY <1>5 DEF TakeFaults
<1>6. ASSUME NEW r \in Requests, TakeGarbage(r)
      PROVE  Kept
  BY <1>6 DEF TakeGarbage
<1>7. CASE WriteTask
  BY <1>7 DEF WriteTask
<1>8. CASE ReceiveResult
  BY <1>8 DEF ReceiveResult
<1>9. ASSUME NEW e \in Exchanges, Connect(e)
      PROVE  Kept
  BY <1>9 DEF Connect
<1>10. ASSUME NEW e \in Exchanges, MonitorAccount(e)
       PROVE  Kept
  BY <1>10 DEF MonitorAccount
<1>11. CASE ConnectReplies
  BY <1>11 DEF ConnectReplies
<1>12. CASE WriteStatus
  BY <1>12 DEF WriteStatus
<1>13. CASE MonitorRestarts
  BY <1>13 DEF MonitorRestarts
<1>14. CASE UNCHANGED vars
  BY <1>14 DEF vars
<1> QED
  BY <1>1, <1>2, <1>3, <1>4, <1>5, <1>6, <1>7, <1>8, <1>9, <1>10, <1>11, <1>12, <1>13, <1>14
     DEF Next

(* The types, and what is known of what travels, step by step.  The lanes are *)
(* typed by the requests sent, which a step only adds to.                     *)
LEMMA StepTypeOK == ASSUME TypeOK, KnownInv, PollsInv, [Next]_vars
                    PROVE  TypeOK'
<1> USE Bounds
<1>k. Sent \subseteq Sent' /\ handled \subseteq handled' /\ handled \subseteq Sent
  BY StepKept DEF Kept, KnownInv
<1>g. /\ tasks \in Seq(Sent') /\ statuses \in Seq(Sent')
      /\ replies \in Seq(Sent') /\ results \in Seq(Sent')
      /\ wire \in [Exchanges -> Seq(Sent')]
      /\ streams \in [Exchanges -> SUBSET Sent']
      /\ answer \in [Requests -> handled' \cup {None}]
  <2>1. \A seq \in Seq(Sent) : seq \in Seq(Sent')
    BY <1>k, SeqMono
  <2> QED
    BY <1>k, <2>1 DEF TypeOK
<1>n. Nowhere \in [Exchanges -> Seq(Sent')] /\ Nobody \in [Exchanges -> BOOLEAN]
  BY DEF Nowhere, Nobody
<1>1. ASSUME NEW r \in Requests, NEW id \in TaskIds, NEW e \in Exchanges,
             MonitorUserAccount(r, id, e)
      PROVE  TypeOK'
  <2>1. r \in Sent'
    BY <1>1 DEF MonitorUserAccount, Sent, TypeOK
  <2>2. Append(tasks, r) \in Seq(Sent')
    BY <1>g, <2>1
  <2>3. overlapped' \in BOOLEAN
    BY <1>1 DEF MonitorUserAccount
  <2> QED
    BY <1>1, <1>g, <2>2, <2>3 DEF MonitorUserAccount, TypeOK, Phases, session, network, monitor
<1>2. ASSUME NEW r \in Requests, Poll(r)
      PROVE  TypeOK'
  <2>1. End \in Int /\ DOMAIN results \subseteq Int
    BY DEF TypeOK, End
  <2>2. iter' \in [Requests -> Int]
    BY <1>2, <2>1 DEF Poll, Own, TypeOK
  <2>3. phase' \in [Requests -> Phases]
    BY <1>2 DEF Poll, TypeOK, Phases
  <2> QED
    BY <1>2, <1>g, <2>2, <2>3 DEF Poll, TypeOK, session, network, monitor
<1>3. ASSUME NEW r \in Requests, Wake(r)
      PROVE  TypeOK'
  <2>1. polls[r] < MaxPolls /\ polls[r] \in 0..MaxPolls
    BY <1>3 DEF Wake, PollsInv, TypeOK
  <2>2. polls' \in [Requests -> 0..MaxPolls]
    BY <1>3, <2>1 DEF Wake, PollsAfter, TypeOK
  <2>3. phase' \in [Requests -> Phases]
    BY <1>3 DEF Wake, TypeOK, Phases
  <2> QED
    BY <1>3, <1>g, <2>2, <2>3 DEF Wake, TypeOK, session, network, monitor
<1>e. ASSUME NEW r \in Requests, NEW i \in DOMAIN results, Erase(r, i)
      PROVE  /\ results' \in Seq(Sent') /\ Len(results') <= MaxBacklog
             /\ iter' \in [Requests -> Int]
  <2>1. RemoveAt(results, i) \in Seq(Sent') /\ Len(RemoveAt(results, i)) = Len(results) - 1
    BY <1>g, SeqRemove
  <2>2. Shifted(r) \in [Requests -> Int]
    BY DEF Shifted, TypeOK
  <2>3. results' = RemoveAt(results, i) /\ iter' \in {Shifted(r), iter}
    BY <1>e DEF Erase
  <2>4. Len(results) <= MaxBacklog /\ iter \in [Requests -> Int]
    BY DEF TypeOK
  <2>5. Len(results) \in Nat
    BY <1>g, LenProperties
  <2>6. Len(results) - 1 <= MaxBacklog
    BY <2>4, <2>5, Bounds
  <2>7. results' \in Seq(Sent') /\ Len(results') <= MaxBacklog
    BY <2>1, <2>3, <2>6
  <2>8. iter' \in [Requests -> Int]
    BY <2>2, <2>3, <2>4
  <2> QED
    BY <2>7, <2>8
<1>4. ASSUME NEW r \in Requests, TakeResult(r)
      PROVE  TypeOK'
  <2>1. results[iter[r]] \in handled
    BY <1>4, ElementOfSeq DEF TakeResult, KnownInv
  <2>2. answer' \in [Requests -> handled' \cup {None}] /\ phase' \in [Requests -> Phases]
    BY <1>4, <1>g, <1>k, <2>1 DEF TakeResult, TypeOK, Phases
  <2>3. Erase(r, iter[r]) /\ iter[r] \in DOMAIN results
    BY <1>4 DEF TakeResult
  <2> QED
    BY <1>4, <1>g, <1>e, <2>2, <2>3 DEF TakeResult, TypeOK, network, monitor
<1>5. ASSUME NEW r \in Requests, TakeFaults(r)
      PROVE  TypeOK'
  <2>1. phase' \in [Requests -> Phases]
    BY <1>5 DEF TakeFaults, TypeOK, Phases
  <2>2. /\ Len(results') = 0 /\ results' \in Seq(Sent')
        /\ tasks' \in Seq(Sent') /\ replies' \in Seq(Sent')
    BY <1>5 DEF TakeFaults
  <2>3. wire' \in [Exchanges -> Seq(Sent')] /\ listening' \in [Exchanges -> BOOLEAN]
    BY <1>5, <1>g, <1>n DEF TakeFaults
  <2>4. hearing' \in BOOLEAN
    BY <1>5 DEF TakeFaults
  <2>5. Len(results') <= MaxBacklog /\ iter' \in [Requests -> Int]
    BY <1>5, <2>2 DEF TakeFaults
  <2> QED
    BY <1>5, <1>g, <2>1, <2>2, <2>3, <2>4, <2>5 DEF TakeFaults, TypeOK, monitor
<1>6. ASSUME NEW r \in Requests, TakeGarbage(r)
      PROVE  TypeOK'
  <2>1. answer' \in [Requests -> handled' \cup {None}] /\ phase' \in [Requests -> Phases]
    BY <1>6, <1>g, <1>k DEF TakeGarbage, TypeOK, Phases
  <2>2. PICK i \in DOMAIN results : Erase(r, i)
    BY <1>6 DEF TakeGarbage
  <2> QED
    BY <1>6, <1>g, <1>e, <2>1, <2>2 DEF TakeGarbage, TypeOK, network, monitor
<1>7. CASE WriteTask
  <2>1. Head(tasks) \in Sent' /\ Tail(tasks) \in Seq(Sent')
    BY <1>7, <1>g, SeqHead DEF WriteTask
  <2>2. wire' \in [Exchanges -> Seq(Sent')]
    <3>1. request[Head(tasks)].exchange \in Exchanges
      BY <1>7, SeqHead DEF WriteTask, TypeOK, KnownInv
    <3>2. Append(wire[request[Head(tasks)].exchange], Head(tasks)) \in Seq(Sent')
      BY <1>g, <2>1, <3>1
    <3> QED
      BY <1>7, <1>g, <3>1, <3>2 DEF WriteTask
  <2> QED
    BY <1>7, <1>g, <2>1, <2>2 DEF WriteTask, TypeOK, session, monitor
<1>8. CASE ReceiveResult
  <2>1. Head(replies) \in Sent' /\ Tail(replies) \in Seq(Sent')
    BY <1>8, <1>g, SeqHead DEF ReceiveResult
  <2>2. results' \in Seq(Sent') /\ Len(results') <= MaxBacklog
    <3>1. CASE LimitReached
      <4>1. results # << >>
        BY <3>1 DEF LimitReached
      <4>2. Tail(results) \in Seq(Sent') /\ Len(Tail(results)) = Len(results) - 1
        BY <4>1, <1>g, SeqHead
      <4>3. results' = Append(Tail(results), Head(replies))
        BY <1>8, <3>1 DEF ReceiveResult
      <4> QED
        BY <2>1, <3>1, <4>2, <4>3, AppendProperties DEF LimitReached, TypeOK
    <3>2. CASE ~LimitReached
      <4>1. results' = Append(results, Head(replies))
        BY <1>8, <3>2 DEF ReceiveResult
      <4> QED
        BY <1>g, <2>1, <3>2, <4>1, AppendProperties DEF LimitReached, TypeOK
    <3> QED
      BY <3>1, <3>2
  <2>3. iter' \in [Requests -> Int]
    BY <1>8 DEF ReceiveResult, Shifted, TypeOK
  <2> QED
    BY <1>8, <1>g, <2>1, <2>2, <2>3 DEF ReceiveResult, TypeOK, monitor
<1>9. ASSUME NEW e \in Exchanges, Connect(e)
      PROVE  TypeOK'
  BY <1>9, <1>g DEF Connect, TypeOK, session, monitor
<1>10. ASSUME NEW e \in Exchanges, MonitorAccount(e)
       PROVE  TypeOK'
  <2>1. Head(wire[e]) \in Sent' /\ Tail(wire[e]) \in Seq(Sent')
    <3>1. wire[e] \in Seq(Sent') /\ wire[e] # << >>
      BY <1>10, <1>g DEF MonitorAccount
    <3> QED
      BY <3>1, SeqHead
  <2>2. wire' \in [Exchanges -> Seq(Sent')] /\ streams' \in [Exchanges -> SUBSET Sent']
    BY <1>10, <1>g, <2>1 DEF MonitorAccount
  <2>3. statuses' \in Seq(Sent')
    BY <1>10, <1>g, <2>1 DEF MonitorAccount
  <2>4. ioRunning' \in BOOLEAN
    BY <1>10 DEF MonitorAccount, RunsIo
  <2> QED
    BY <1>10, <1>g, <1>k, <2>2, <2>3, <2>4 DEF MonitorAccount, TypeOK, session
<1>11. CASE ConnectReplies
  BY <1>11, <1>g DEF ConnectReplies, TypeOK, session, monitor
<1>12. CASE WriteStatus
  <2>1. Head(statuses) \in Sent' /\ Tail(statuses) \in Seq(Sent')
    BY <1>12, <1>g, SeqHead DEF WriteStatus
  <2>2. replies' \in Seq(Sent')
    BY <1>12, <1>g, <2>1 DEF WriteStatus
  <2> QED
    BY <1>12, <1>g, <2>1, <2>2 DEF WriteStatus, TypeOK, session
<1>13. CASE MonitorRestarts
  <2>1. statuses' \in Seq(Sent') /\ streams' \in [Exchanges -> SUBSET Sent']
    BY <1>13 DEF MonitorRestarts
  <2>2. ioRunning' \in BOOLEAN /\ hearing' \in BOOLEAN /\ severed' \subseteq handled'
    BY <1>13 DEF MonitorRestarts
  <2>3. wire' \in [Exchanges -> Seq(Sent')] /\ listening' \in [Exchanges -> BOOLEAN]
    BY <1>13, <1>n DEF MonitorRestarts
  <2> QED
    BY <1>13, <1>g, <2>1, <2>2, <2>3 DEF MonitorRestarts, TypeOK, session
<1>14. CASE UNCHANGED vars
  BY <1>14, <1>g DEF vars, TypeOK, session, network, monitor
<1> QED
  BY <1>1, <1>2, <1>3, <1>4, <1>5, <1>6, <1>7, <1>8, <1>9, <1>10, <1>11, <1>12, <1>13, <1>14
     DEF Next

LEMMA StepKnownInv == ASSUME TypeOK, KnownInv, [Next]_vars
                      PROVE  KnownInv'
<1> DEFINE For(e) == {r \in Sent : request[r].exchange = e}
<1>k. Kept
  BY StepKept
<1>g. /\ handled \subseteq Sent'
      /\ statuses \in Seq(handled') /\ replies \in Seq(handled') /\ results \in Seq(handled')
      /\ \A e \in Exchanges : wire[e] \in Seq(For(e)')
  <2>1. \A e \in Exchanges : For(e) \subseteq For(e)'
    BY <1>k DEF Kept
  <2>2. \A e \in Exchanges : wire[e] \in Seq(For(e)')
    BY <2>1, SeqMono DEF KnownInv
  <2>3. \A seq \in Seq(handled) : seq \in Seq(handled')
    BY <1>k, SeqMono DEF Kept
  <2> QED
    BY <1>k, <2>2, <2>3 DEF KnownInv, Kept
<1>old. \A r \in Sent : request'[r] \in [task : TaskIds, exchange : Exchanges]
  BY <1>k DEF KnownInv, Kept
<1>s. ASSUME UNCHANGED <<request, phase>>
      PROVE  \A r \in Sent' : request'[r] \in [task : TaskIds, exchange : Exchanges]
  BY <1>s DEF Sent, KnownInv
<1>p. ASSUME UNCHANGED request, Sent' = Sent
      PROVE  \A r \in Sent' : request'[r] \in [task : TaskIds, exchange : Exchanges]
  BY <1>p DEF KnownInv
<1>e. \A i \in DOMAIN results : RemoveAt(results, i) \in Seq(handled')
  BY <1>g, SeqRemove
<1>1. ASSUME NEW r \in Requests, NEW id \in TaskIds, NEW e \in Exchanges,
             MonitorUserAccount(r, id, e)
      PROVE  KnownInv'
  <2>1. Sent' = Sent \cup {r} /\ request'[r] = [task |-> id, exchange |-> e]
    BY <1>1 DEF MonitorUserAccount, Sent, TypeOK
  <2>2. \A q \in Sent' : request'[q] \in [task : TaskIds, exchange : Exchanges]
    BY <2>1, <1>old
  <2> QED
    BY <1>1, <1>g, <2>2 DEF MonitorUserAccount, KnownInv, network, monitor
<1>2. ASSUME NEW r \in Requests, Poll(r)
      PROVE  KnownInv'
  <2>1. Sent' = Sent
    BY <1>2 DEF Poll, Sent, TypeOK
  <2> QED
    BY <1>2, <1>g, <1>p, <2>1 DEF Poll, KnownInv, network, monitor
<1>3. ASSUME NEW r \in Requests, Wake(r)
      PROVE  KnownInv'
  <2>1. Sent' = Sent
    BY <1>3 DEF Wake, Sent, TypeOK
  <2> QED
    BY <1>3, <1>g, <1>p, <2>1 DEF Wake, KnownInv, network, monitor
<1>4. ASSUME NEW r \in Requests, TakeResult(r)
      PROVE  KnownInv'
  <2>1. Sent' = Sent
    BY <1>4 DEF TakeResult, Sent, TypeOK
  <2>2. results' \in Seq(handled')
    BY <1>4, <1>e DEF TakeResult, Erase
  <2> QED
    BY <1>4, <1>g, <1>p, <2>1, <2>2 DEF TakeResult, KnownInv, network, monitor
<1>5. ASSUME NEW r \in Requests, TakeFaults(r)
      PROVE  KnownInv'
  <2>1. Sent' = Sent
    BY <1>5 DEF TakeFaults, Sent, InProgress, TypeOK
  <2>2. results' \in Seq(handled') /\ replies' \in Seq(handled')
    BY <1>5 DEF TakeFaults
  <2>3. \A e \in Exchanges : wire'[e] \in Seq(For(e)')
    <3>1. CASE wire' = wire
      BY <3>1, <1>g
    <3>2. CASE wire' = Nowhere
      BY <3>2 DEF Nowhere
    <3> QED
      BY <1>5, <3>1, <3>2 DEF TakeFaults
  <2> QED
    BY <1>5, <1>g, <1>p, <2>1, <2>2, <2>3 DEF TakeFaults, KnownInv, monitor
<1>6. ASSUME NEW r \in Requests, TakeGarbage(r)
      PROVE  KnownInv'
  <2>1. Sent' = Sent
    BY <1>6 DEF TakeGarbage, Sent, TypeOK
  <2>2. results' \in Seq(handled')
    BY <1>6, <1>e DEF TakeGarbage, Erase
  <2> QED
    BY <1>6, <1>g, <1>p, <2>1, <2>2 DEF TakeGarbage, KnownInv, network, monitor
<1>7. CASE WriteTask
  <2>1. Head(tasks) \in Sent
    BY <1>7, SeqHead DEF WriteTask, TypeOK
  <2>2. ASSUME NEW e \in Exchanges, e = request[Head(tasks)].exchange
        PROVE  Head(tasks) \in For(e)'
    BY <1>7, <2>1, <2>2 DEF WriteTask, session, Sent
  <2>3. \A e \in Exchanges : wire'[e] \in Seq(For(e)')
    <3> SUFFICES ASSUME NEW e \in Exchanges, wire'[e] # wire[e]
                 PROVE  wire'[e] \in Seq(For(e)')
      BY <1>g
    <3>1. e = request[Head(tasks)].exchange /\ wire'[e] = Append(wire[e], Head(tasks))
      BY <1>7 DEF WriteTask, TypeOK
    <3> HIDE DEF For
    <3> QED
      BY <2>2, <3>1, <1>g, AppendProperties
  <2> QED
    BY <1>7, <1>g, <1>s, <2>3 DEF WriteTask, KnownInv, session, monitor
<1>8. CASE ReceiveResult
  <2>1. Head(replies) \in handled' /\ Tail(replies) \in Seq(handled')
    BY <1>8, <1>g, SeqHead DEF ReceiveResult
  <2>2. results' \in Seq(handled')
    <3>1. CASE LimitReached
      <4>1. results # << >>
        BY <3>1, Bounds DEF LimitReached
      <4>2. Tail(results) \in Seq(handled')
        BY <4>1, <1>g, SeqHead
      <4> QED
        BY <1>8, <3>1, <2>1, <4>2, AppendProperties DEF ReceiveResult
    <3>2. CASE ~LimitReached
      <4>1. results' = Append(results, Head(replies))
        BY <1>8, <3>2 DEF ReceiveResult
      <4> QED
        BY <1>g, <2>1, <4>1, AppendProperties
    <3> QED
      BY <3>1, <3>2
  <2> QED
    BY <1>8, <1>g, <1>s, <2>1, <2>2 DEF ReceiveResult, KnownInv, monitor
<1>9. ASSUME NEW e \in Exchanges, Connect(e)
      PROVE  KnownInv'
  BY <1>9, <1>g, <1>s DEF Connect, KnownInv, session, monitor
<1>10. ASSUME NEW e \in Exchanges, MonitorAccount(e)
       PROVE  KnownInv'
  <2>1. Head(wire[e]) \in For(e) /\ Tail(wire[e]) \in Seq(For(e)')
    <3>1. wire[e] \in Seq(For(e)) /\ wire[e] \in Seq(For(e)') /\ wire[e] # << >>
      BY <1>10, <1>g DEF MonitorAccount, KnownInv
    <3> HIDE DEF For
    <3> QED
      BY <3>1, SeqHead
  <2>2. Head(wire[e]) \in Sent' /\ handled' = handled \cup {Head(wire[e])}
    BY <1>10, <2>1, <1>k DEF MonitorAccount, Kept
  <2>3. statuses' \in Seq(handled')
    BY <1>10, <1>g, <2>2, AppendProperties DEF MonitorAccount
  <2>4. \A f \in Exchanges : wire'[f] \in Seq(For(f)')
    <3>1. wire' = [wire EXCEPT ![e] = Tail(wire[e])] /\ wire \in [Exchanges -> Seq(Sent)]
      BY <1>10 DEF MonitorAccount, TypeOK
    <3> HIDE DEF For
    <3> QED
      BY <1>g, <2>1, <3>1
  <2> QED
    BY <1>10, <1>g, <1>s, <2>2, <2>3, <2>4 DEF MonitorAccount, KnownInv, session
<1>11. CASE ConnectReplies
  BY <1>11, <1>g, <1>s DEF ConnectReplies, KnownInv, session, monitor
<1>12. CASE WriteStatus
  <2>1. Head(statuses) \in handled' /\ Tail(statuses) \in Seq(handled')
    BY <1>12, <1>g, SeqHead DEF WriteStatus
  <2>2. replies' \in Seq(handled')
    BY <1>12, <1>g, <2>1, AppendProperties DEF WriteStatus
  <2> QED
    BY <1>12, <1>g, <1>s, <2>1, <2>2 DEF WriteStatus, KnownInv, session
<1>13. CASE MonitorRestarts
  <2>1. statuses' \in Seq(handled') /\ \A e \in Exchanges : wire'[e] \in Seq(For(e)')
    BY <1>13 DEF MonitorRestarts, Nowhere
  <2> QED
    BY <1>13, <1>g, <1>s, <2>1 DEF MonitorRestarts, KnownInv, session
<1>14. CASE UNCHANGED vars
  BY <1>14, <1>g, <1>s DEF vars, KnownInv, session, network, monitor
<1> QED
  BY <1>1, <1>2, <1>3, <1>4, <1>5, <1>6, <1>7, <1>8, <1>9, <1>10, <1>11, <1>12, <1>13, <1>14
     DEF Next

LEMMA StepPollsInv == ASSUME TypeOK, PollsInv, [Next]_vars
                      PROVE  PollsInv'
<1> USE Bounds DEF PollsInv, TypeOK, session, network, monitor
<1>1. ASSUME NEW r \in Requests, NEW id \in TaskIds, NEW e \in Exchanges,
             MonitorUserAccount(r, id, e)
      PROVE  PollsInv'
  BY <1>1 DEF MonitorUserAccount
<1>2. ASSUME NEW r \in Requests, Poll(r)
      PROVE  PollsInv'
  BY <1>2 DEF Poll
<1>3. ASSUME NEW r \in Requests, Wake(r)
      PROVE  PollsInv'
  BY <1>3 DEF Wake, PollsAfter
<1>4. ASSUME NEW r \in Requests, TakeResult(r) \/ TakeGarbage(r)
      PROVE  PollsInv'
  BY <1>4 DEF TakeResult, TakeGarbage
<1>5. ASSUME NEW r \in Requests, TakeFaults(r)
      PROVE  PollsInv'
  BY <1>5 DEF TakeFaults
<1>6. CASE UNCHANGED <<phase, polls>>
  BY <1>6
<1>7. ASSUME WriteTask \/ ReceiveResult \/ ConnectReplies \/ WriteStatus \/ MonitorRestarts
      PROVE  PollsInv'
  BY <1>7, <1>6 DEF WriteTask, ReceiveResult, ConnectReplies, WriteStatus, MonitorRestarts
<1>8. ASSUME NEW e \in Exchanges, Connect(e) \/ MonitorAccount(e)
      PROVE  PollsInv'
  BY <1>8, <1>6 DEF Connect, MonitorAccount
<1>9. CASE UNCHANGED vars
  BY <1>9, <1>6 DEF vars
<1> QED
  BY <1>1, <1>2, <1>3, <1>4, <1>5, <1>7, <1>8, <1>9 DEF Next

(* The stream is added and the io thread started before the request counts as *)
(* handled, and only the death of account_monitor takes them away.            *)
LEMMA StepMonitoredInv == ASSUME TypeOK, KnownInv, MonitoredInv, [Next]_vars
                          PROVE  MonitoredInv'
<1>k. Kept
  BY StepKept
<1>u. ASSUME UNCHANGED <<streams, ioRunning, handled, severed>>
      PROVE  MonitoredInv'
  BY <1>u, <1>k DEF MonitoredInv, Monitored, KnownInv, Kept
<1>1. ASSUME NEW r \in Requests,
             \/ \E id \in TaskIds, e \in Exchanges : MonitorUserAccount(r, id, e)
             \/ Poll(r) \/ Wake(r) \/ TakeResult(r) \/ TakeFaults(r) \/ TakeGarbage(r)
      PROVE  MonitoredInv'
  BY <1>1, <1>u DEF MonitorUserAccount, Poll, Wake, TakeResult, TakeFaults, TakeGarbage, monitor
<1>2. CASE WriteTask \/ ReceiveResult \/ ConnectReplies \/ WriteStatus
  BY <1>2, <1>u DEF WriteTask, ReceiveResult, ConnectReplies, WriteStatus, monitor
<1>3. ASSUME NEW e \in Exchanges, Connect(e)
      PROVE  MonitoredInv'
  BY <1>3, <1>u DEF Connect, monitor
<1>4. ASSUME NEW e \in Exchanges, MonitorAccount(e)
      PROVE  MonitoredInv'
  <2> SUFFICES ASSUME NEW q \in handled' \ severed', request'[q].exchange = "binance"
               PROVE  Monitored(q)'
    BY DEF MonitoredInv
  <2>1. q \in Sent /\ request' = request /\ severed' = severed
    <3>1. Head(wire[e]) \in Sent
      BY <1>4, SeqHead DEF MonitorAccount, TypeOK
    <3> QED
      BY <1>4, <3>1 DEF MonitorAccount, KnownInv, session
  <2>2. CASE q \in handled
    BY <1>4, <2>1, <2>2 DEF MonitoredInv, Monitored, MonitorAccount, Adds, TypeOK
  <2>3. CASE q = Head(wire[e])
    <3>1. request[q].exchange = e
      <4>1. wire[e] \in Seq({r \in Sent : request[r].exchange = e}) /\ wire[e] # << >>
        BY <1>4 DEF MonitorAccount, KnownInv
      <4> QED
        BY <4>1, <2>3, SeqHead
    <3> QED
      BY <1>4, <2>1, <2>3, <3>1 DEF Monitored, MonitorAccount, Adds, RunsIo, TypeOK
  <2> QED
    BY <1>4, <2>2, <2>3 DEF MonitorAccount
<1>5. CASE MonitorRestarts
  BY <1>5 DEF MonitorRestarts, MonitoredInv
<1>6. CASE UNCHANGED vars
  BY <1>6, <1>u DEF vars, monitor
<1> QED
  BY <1>1, <1>2, <1>3, <1>4, <1>5, <1>6 DEF Next

-----------------------------------------------------------------------------
(* One request at a time.  What is in a lane belongs to the request in        *)
(* progress, and is all that is under way.                                    *)
LEMMA Whereabouts ==
    ASSUME OneAtATime
    PROVE  /\ tasks # << >> =>
                \E r \in Requests : /\ InProgress = {r}
                                    /\ Lanes = <<<<r>>, Nowhere, << >>, << >>, << >>>>
           /\ \A e \in Exchanges : wire[e] # << >> =>
                \E r \in Requests :
                    /\ InProgress = {r}
                    /\ Lanes = <<<< >>, [Nowhere EXCEPT ![e] = <<r>>], << >>, << >>, << >>>>
           /\ statuses # << >> =>
                \E r \in Requests : /\ InProgress = {r}
                                    /\ Lanes = <<<< >>, Nowhere, <<r>>, << >>, << >>>>
           /\ replies # << >> =>
                \E r \in Requests : /\ InProgress = {r}
                                    /\ Lanes = <<<< >>, Nowhere, << >>, <<r>>, << >>>>
<1>1. CASE Quiet
  BY <1>1 DEF Quiet, Lanes, Nowhere
<1>2. CASE ~Quiet
  <2>1. PICK r \in InProgress : InProgress = {r} /\ Travels(r)
    BY <1>2 DEF OneAtATime
  <2>2. r \in Requests
    BY DEF InProgress
  <2> QED
    BY <1>2, <2>1, <2>2 DEF Travels, Lanes, Nowhere
<1> QED
  BY <1>1, <1>2

LEMMA StepAloneInv == ASSUME TypeOK, KnownInv, AloneInv, [Next]_vars
                      PROVE  AloneInv'
<1> SUFFICES ASSUME ~overlapped', NoneGivenUp'
             PROVE  OneAtATime'
  BY DEF AloneInv
<1> USE NoneAssumption
<1>a. OneAtATime
  <2>1. ~overlapped
    BY DEF Next, MonitorUserAccount, Poll, Wake, TakeResult, TakeFaults, TakeGarbage,
           WriteTask, ReceiveResult, Connect, MonitorAccount, ConnectReplies, WriteStatus,
           MonitorRestarts, vars, session
  <2>2. NoneGivenUp
    BY DEF Next, MonitorUserAccount, Poll, Wake, TakeResult, TakeFaults, TakeGarbage,
           WriteTask, ReceiveResult, Connect, MonitorAccount, ConnectReplies, WriteStatus,
           MonitorRestarts, vars, session, NoneGivenUp, InProgress, TypeOK
  <2> QED
    BY <2>1, <2>2 DEF AloneInv
<1>b. \A r \in Requests : phase'[r] \notin {"refused", "dropped"}
  BY DEF NoneGivenUp
<1>u. ASSUME UNCHANGED <<phase, iter, answer>>, UNCHANGED Lanes
      PROVE  OneAtATime'
  BY <1>u, <1>a DEF OneAtATime, InProgress, Travels, Quiet, Lanes
<1>l. ASSUME NEW r \in Requests, InProgress = {r}, UNCHANGED <<phase, iter, answer>>,
             Travels(r)', phase[r] = "taking" => results' = results
      PROVE  OneAtATime'
  <2>1. InProgress' = {r}
    BY <1>l DEF InProgress
  <2> QED
    BY <1>l, <1>a, <2>1 DEF OneAtATime
<1>1. ASSUME NEW r \in Requests, NEW id \in TaskIds, NEW e \in Exchanges,
             MonitorUserAccount(r, id, e)
      PROVE  OneAtATime'
  <2>1. InProgress = {} /\ Quiet
    BY <1>1, <1>a DEF MonitorUserAccount, OneAtATime
  <2>2. InProgress' = {r} /\ phase'[r] = "waiting"
    BY <1>1, <2>1 DEF MonitorUserAccount, InProgress, TypeOK
  <2>3. Lanes' = <<<<r>>, Nowhere, << >>, << >>, << >>>>
    BY <1>1, <2>1 DEF MonitorUserAccount, Quiet, Lanes, network, monitor
  <2> QED
    BY <1>1, <1>a, <2>2, <2>3 DEF MonitorUserAccount, OneAtATime, Travels, Nowhere
<1>2. ASSUME NEW r \in Requests, Poll(r)
      PROVE  OneAtATime'
  <2>1. InProgress = {r} /\ Travels(r) /\ InProgress' = {r}
    BY <1>2, <1>a DEF Poll, OneAtATime, InProgress, TypeOK
  <2>2. Travels(r)'
    BY <1>2, <2>1 DEF Poll, Travels, Quiet, Lanes, network, monitor
  <2>3. results = << >> \/ results = <<r>>
    BY <2>1 DEF Travels, Quiet, Lanes
  <2>4. CASE results = << >>
    <3>1. Own(r) = {} /\ End = 1
      BY <2>4 DEF Own, End
    <3>2. phase'[r] = "sleeping" /\ iter'[r] = 1
      BY <1>2, <3>1 DEF Poll, TypeOK
    <3> QED
      BY <1>2, <1>a, <2>1, <2>2, <3>2 DEF Poll, OneAtATime
  <2>5. CASE results = <<r>>
    <3>1. Own(r) = {1}
      BY <2>5 DEF Own
    <3>2. phase'[r] = "taking" /\ iter'[r] = 1 /\ results' = <<r>>
      BY <1>2, <2>5, <3>1 DEF Poll, TypeOK
    <3> QED
      BY <1>2, <1>a, <2>1, <2>2, <3>2 DEF Poll, OneAtATime
  <2> QED
    BY <2>3, <2>4, <2>5
<1>3. ASSUME NEW r \in Requests, Wake(r)
      PROVE  OneAtATime'
  <2>1. InProgress = {r} /\ Travels(r) /\ iter[r] = 1
    BY <1>3, <1>a DEF Wake, OneAtATime, InProgress
  <2>2. InProgress' = {r} /\ phase'[r] \in {"taking", "waiting"}
    BY <1>3, <1>b, <2>1 DEF Wake, InProgress, TypeOK
  <2>3. Travels(r)' /\ results' = results
    BY <1>3, <2>1 DEF Wake, Travels, Quiet, Lanes, network, monitor
  <2>4. results = << >> \/ results = <<r>>
    BY <2>1 DEF Travels, Quiet, Lanes
  <2>5. phase'[r] = "taking" => results = <<r>>
    <3>1. CASE results = << >>
      <4>1. iter[r] = End
        BY <2>1, <3>1 DEF End
      <4> QED
        BY <1>3, <4>1 DEF Wake, TypeOK
    <3> QED
      BY <2>4, <3>1
  <2> QED
    BY <1>3, <1>a, <2>1, <2>2, <2>3, <2>5 DEF Wake, OneAtATime
<1>4. ASSUME NEW r \in Requests, TakeResult(r)
      PROVE  OneAtATime'
  <2>1. InProgress = {r} /\ Travels(r) /\ iter[r] = 1 /\ results = <<r>>
    BY <1>4, <1>a DEF TakeResult, OneAtATime, InProgress
  <2>2. InProgress' = {}
    BY <1>4, <2>1 DEF TakeResult, InProgress, TypeOK
  <2>3. results' = << >>
    <3>1. results' = RemoveAt(results, 1)
      BY <1>4, <2>1 DEF TakeResult, Erase
    <3>2. RemoveAt(results, 1) \in Seq(Requests) /\ Len(RemoveAt(results, 1)) = 0
      <4>1. results \in Seq(Requests) /\ 1 \in DOMAIN results /\ Len(results) = 1
        BY <2>1
      <4> QED
        BY <4>1, SeqRemove
    <3> QED
      BY <3>1, <3>2, EmptySeq
  <2>4. Lanes = <<<< >>, Nowhere, << >>, << >>, <<r>>>>
    BY <2>1 DEF Travels, Quiet, Lanes
  <2>5. Quiet'
    BY <1>4, <2>3, <2>4 DEF TakeResult, Quiet, Lanes, Nowhere, network, monitor
  <2>6. \A q \in Requests : answer'[q] \in {None, q}
    BY <1>4, <1>a, <2>1 DEF TakeResult, OneAtATime, TypeOK
  <2> QED
    BY <2>2, <2>5, <2>6 DEF OneAtATime
<1>5. ASSUME NEW r \in Requests, TakeFaults(r)
      PROVE  FALSE
  BY <1>5, <1>b DEF TakeFaults, InProgress
<1>6. ASSUME NEW r \in Requests, TakeGarbage(r)
      PROVE  FALSE
  <2>1. iter[r] = 1 /\ results = <<r>>
    BY <1>6, <1>a DEF TakeGarbage, OneAtATime, InProgress
  <2> QED
    BY <1>6, <2>1 DEF TakeGarbage
<1>7. CASE WriteTask
  <2>1. PICK r \in Requests : /\ InProgress = {r}
                              /\ Lanes = <<<<r>>, Nowhere, << >>, << >>, << >>>>
    BY <1>7, <1>a, Whereabouts DEF WriteTask
  <2>2. tasks = <<r>> /\ wire = Nowhere
    BY <2>1 DEF Lanes
  <2>3. request[r].exchange \in Exchanges
    BY <1>7, SeqHead, <2>2 DEF WriteTask, TypeOK, KnownInv
  <2>4. tasks' = << >> /\ wire' \in {Nowhere, [Nowhere EXCEPT ![request[r].exchange] = <<r>>]}
    <3>1. Head(tasks) = r /\ tasks' = << >>
      BY <1>7, <2>2 DEF WriteTask
    <3>2. Append(wire[request[r].exchange], r) = <<r>>
      <4>1. wire[request[r].exchange] = << >>
        BY <2>2, <2>3 DEF Nowhere
      <4>2. Append(<< >>, r) = <<r>>
        OBVIOUS
      <4> QED
        BY <4>1, <4>2
    <3> QED
      BY <1>7, <2>2, <3>1, <3>2 DEF WriteTask
  <2>5. Travels(r)'
    BY <1>7, <2>1, <2>3, <2>4 DEF WriteTask, Travels, Quiet, Lanes, Nowhere, network, monitor
  <2> QED
    BY <1>7, <1>l, <2>1, <2>5 DEF WriteTask, session
<1>8. CASE ReceiveResult
  <2>1. PICK r \in Requests : /\ InProgress = {r}
                              /\ Lanes = <<<< >>, Nowhere, << >>, <<r>>, << >>>>
    BY <1>8, <1>a, Whereabouts DEF ReceiveResult
  <2>2. replies = <<r>> /\ results = << >>
    BY <2>1 DEF Lanes
  <2>3. ~LimitReached
    BY <2>2, Bounds DEF LimitReached
  <2>4. replies' = << >> /\ results' = <<r>> /\ UNCHANGED iter
    BY <1>8, <2>2, <2>3 DEF ReceiveResult
  <2>5. Travels(r)'
    BY <1>8, <2>1, <2>4 DEF ReceiveResult, Travels, Quiet, Lanes, Nowhere, monitor
  <2>6. phase[r] # "taking"
    BY <1>a, <2>1, <2>2 DEF OneAtATime
  <2> QED
    BY <1>8, <1>l, <2>1, <2>4, <2>5, <2>6 DEF ReceiveResult
<1>9. ASSUME NEW e \in Exchanges, Connect(e)
      PROVE  OneAtATime'
  BY <1>9, <1>u DEF Connect, Lanes, session, monitor
<1>10. ASSUME NEW e \in Exchanges, MonitorAccount(e)
       PROVE  OneAtATime'
  <2>1. PICK r \in Requests :
            /\ InProgress = {r}
            /\ Lanes = <<<< >>, [Nowhere EXCEPT ![e] = <<r>>], << >>, << >>, << >>>>
    BY <1>10, <1>a, Whereabouts DEF MonitorAccount
  <2>2. wire = [Nowhere EXCEPT ![e] = <<r>>] /\ wire[e] = <<r>> /\ statuses = << >>
    BY <2>1 DEF Lanes, Nowhere
  <2>3. wire' = Nowhere /\ statuses' = <<r>>
    BY <1>10, <2>2 DEF MonitorAccount, Nowhere
  <2>4. Travels(r)'
    BY <1>10, <2>1, <2>3 DEF MonitorAccount, Travels, Lanes
  <2> QED
    BY <1>10, <1>l, <2>1, <2>4 DEF MonitorAccount, session
<1>11. CASE ConnectReplies
  BY <1>11, <1>u DEF ConnectReplies, Lanes, session, monitor
<1>12. CASE WriteStatus
  <2>1. PICK r \in Requests : /\ InProgress = {r}
                              /\ Lanes = <<<< >>, Nowhere, <<r>>, << >>, << >>>>
    BY <1>12, <1>a, Whereabouts DEF WriteStatus
  <2>2. statuses = <<r>> /\ replies = << >>
    BY <2>1 DEF Lanes
  <2>3. statuses' = << >> /\ replies' \in {<< >>, <<r>>}
    BY <1>12, <2>2 DEF WriteStatus
  <2>4. Travels(r)'
    BY <1>12, <2>1, <2>3 DEF WriteStatus, Travels, Quiet, Lanes
  <2> QED
    BY <1>12, <1>l, <2>1, <2>4 DEF WriteStatus, session
<1>13. CASE MonitorRestarts
  <2>1. CASE InProgress = {}
    <3>1. Quiet
      BY <1>a, <2>1 DEF OneAtATime
    <3> QED
      BY <1>13, <1>u, <3>1 DEF MonitorRestarts, Quiet, Lanes, session
  <2>2. CASE InProgress # {}
    <3>1. PICK r \in Requests : InProgress = {r} /\ Travels(r)
      BY <1>a, <2>2 DEF OneAtATime, InProgress
    <3>2. Travels(r)'
      BY <1>13, <3>1 DEF MonitorRestarts, Travels, Quiet, Lanes
    <3> QED
      BY <1>13, <1>l, <3>1, <3>2 DEF MonitorRestarts, session
  <2> QED
    BY <2>1, <2>2
<1>14. CASE UNCHANGED vars
  BY <1>14, <1>u DEF vars, Lanes, session, network, monitor
<1> QED
  BY <1>1, <1>2, <1>3, <1>4, <1>5, <1>6, <1>7, <1>8, <1>9, <1>10, <1>11, <1>12, <1>13, <1>14
     DEF Next

-----------------------------------------------------------------------------
(* The invariant holds of every behaviour, whatever is lost and whoever dies. *)
THEOREM Invariance == Spec => []IInv
<1>1. Init => IInv
  BY InitIInv
<1>2. IInv /\ [Next]_vars => IInv'
  BY StepTypeOK, StepKnownInv, StepPollsInv, StepMonitoredInv, StepAloneInv DEF IInv
<1> QED
  BY <1>1, <1>2, PTL DEF Spec

(* Every variable stays in its type: a request never looks more than MaxPolls *)
(* times, and the deque never outgrows its limit.                             *)
THEOREM TypeCorrect == Spec => []TypeOK
<1>1. IInv => TypeOK
  BY DEF IInv
<1> QED
  BY <1>1, Invariance, PTL

(* A result of a binance account tells the truth: account_monitor had added   *)
(* the stream and started the io thread before it answered, and has them      *)
(* still unless it has died.  What a session runs off with, be it another     *)
(* session's result, was handled, which is all the argument needs.            *)
THEOREM AnswersTellTruth == Spec => []AnswerTellsTruth
<1>1. IInv => AnswerTellsTruth
  BY DEF IInv, TypeOK, MonitoredInv, AnswerTellsTruth
<1> QED
  BY <1>1, Invariance, PTL

(* Requests made one at a time, none of them given up, get their own answers: *)
(* the stale end() then differs from the new one only when the request's own  *)
(* result, the one thing under way, has come.                                 *)
THEOREM AloneAnswersAreOwn == Spec => []AloneGetsOwn
<1>1. IInv => AloneGetsOwn
  BY DEF IInv, AloneInv, NoneGivenUp, OneAtATime, AloneGetsOwn
<1> QED
  BY <1>1, Invariance, PTL
=============================================================================
