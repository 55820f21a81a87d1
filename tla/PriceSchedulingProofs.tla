----------------------- MODULE PriceSchedulingProofs -----------------------
(* Proofs that every property of PriceScheduling holds for all sets of        *)
(* sessions, users, task ids and contracts and all lengths of a request.      *)
EXTENDS PriceScheduling, SequenceTheorems, TLAPS

(* What a sequence holds, when an item is taken and when nothing is left.     *)
LEMMA Elements ==
    ASSUME NEW S, NEW seq \in Seq(S)
    PROVE  /\ ElementsOf(seq) \subseteq S
           /\ seq = << >> => ElementsOf(seq) = {}
           /\ seq # << >> =>
                /\ Tail(seq) \in Seq(S)
                /\ Head(seq) \in ElementsOf(seq)
                /\ ElementsOf(seq) = {Head(seq)} \cup ElementsOf(Tail(seq))
<1>1. DOMAIN seq = 1..Len(seq) /\ Len(seq) \in Nat /\ \A i \in 1..Len(seq) : seq[i] \in S
  BY LenProperties, ElementOfSeq
<1>2. seq = << >> => ElementsOf(seq) = {}
  BY DEF ElementsOf
<1>3. ASSUME seq # << >>
      PROVE  /\ Tail(seq) \in Seq(S)
             /\ Head(seq) \in ElementsOf(seq)
             /\ ElementsOf(seq) = {Head(seq)} \cup ElementsOf(Tail(seq))
  <2>1. /\ Tail(seq) \in Seq(S) /\ Len(seq) \in Nat \ {0}
        /\ DOMAIN Tail(seq) = 1..(Len(seq) - 1)
        /\ \A i \in 1..(Len(seq) - 1) : Tail(seq)[i] = seq[i + 1]
        /\ Head(seq) = seq[1]
    BY <1>3, HeadTailProperties, EmptySeq, LenProperties
  <2> DEFINE rest == Tail(seq)
  <2> HIDE DEF rest
  <2>2. Head(seq) \in ElementsOf(seq)
    BY <1>1, <2>1 DEF ElementsOf
  <2>3. ASSUME NEW x \in ElementsOf(rest)
        PROVE  x \in ElementsOf(seq)
    <3>1. PICK i \in DOMAIN rest : x = rest[i]
      BY <2>3 DEF ElementsOf
    <3>2. i + 1 \in DOMAIN seq /\ x = seq[i + 1]
      BY <1>1, <2>1, <3>1 DEF rest
    <3> QED
      BY <3>2 DEF ElementsOf
  <2>4. ASSUME NEW x \in ElementsOf(seq), x # Head(seq)
        PROVE  x \in ElementsOf(rest)
    <3>1. PICK i \in DOMAIN seq : x = seq[i]
      BY <2>4 DEF ElementsOf
    <3>2. i - 1 \in DOMAIN rest /\ x = rest[i - 1]
      BY <1>1, <2>1, <2>4, <3>1 DEF rest
    <3> QED
      BY <3>2 DEF ElementsOf
  <2> QED
    BY <2>1, <2>2, <2>3, <2>4 DEF rest
<1> QED
  BY <1>1, <1>2, <1>3 DEF ElementsOf

(* A request carries sequences of what it may name.                           *)
LEMMA BatchType == ASSUME NEW S, NEW batch \in Batches(S)
                   PROVE  batch \in Seq(S)
<1>1. PICK n \in 1..MaxBatch : batch \in [1..n -> S]
  BY DEF Batches
<1>2. n \in Nat
  BY BatchAssumption
<1> QED
  BY <1>1, <1>2

LEMMA Adding ==
    /\ \A c : c \in BeingAdded <=>
          \E s \in Sessions : session[s].op = "add" /\ c \in session[s].targets
    /\ \A key : key \in BeingStopped <=>
          \E s \in Sessions : session[s].op = "stop" /\ key \in ElementsOf(session[s].keys)
  BY DEF BeingAdded, BeingStopped

LEMMA AddingNext ==
    \A c : c \in BeingAdded' <=>
          \E s \in Sessions : session'[s].op = "add" /\ c \in session'[s].targets
  BY DEF BeingAdded

LEMMA IdleType == Idle \in Session
  BY DEF Idle, Session, Ops

(* What a stop request sets out to do.                                        *)
IsStop(s, keys) ==
    /\ session[s].op = "idle"
    /\ session' = [session EXCEPT ![s] = [Idle EXCEPT !.op = "stop", !.keys = keys,
                                                      !.targets = Caught(keys) \ BeingAdded]]
    /\ revoked' = revoked \cup Caught(keys)
    /\ UNCHANGED <<owner, scheduled, acked, buried>>

LEMMA StopRequestKeys ==
    ASSUME NEW s \in Sessions, NEW user \in Users, NEW ids \in Batches(TaskIds),
           StopRequest(s, user, ids)
    PROVE  \E keys \in Seq(Keys) : IsStop(s, keys)
<1> DEFINE keys == [i \in DOMAIN ids |-> <<user, ids[i]>>]
<1>1. ids \in Seq(TaskIds)
  BY BatchType
<1>2. keys \in Seq(Keys)
  BY <1>1, LenProperties, ElementOfSeq DEF Keys
<1>3. IsStop(s, keys)
  BY DEF StopRequest, IsStop
<1> QED
  BY <1>2, <1>3

-----------------------------------------------------------------------------
(* Every variable keeps its type.                                             *)
LEMMA StepTypeOK ==
    ASSUME TypeOK, Next
    PROVE  TypeOK'
<1> USE IdleType DEF TypeOK, Idle
<1>1. ASSUME NEW s \in Sessions, NEW key \in Keys, NEW batch \in Batches(Contracts),
             AddRequest(s, key, batch)
      PROVE  TypeOK'
  <2>1. batch \in Seq(Contracts) /\ ElementsOf(batch) \subseteq Contracts
    BY BatchType, Elements
  <2>2. session'[s] \in Session /\ session'[s].op = "add"
    BY <1>1, <2>1 DEF AddRequest, Session, Ops
  <2> QED
    BY <1>1, <2>1, <2>2 DEF AddRequest
<1>2. ASSUME NEW s \in Sessions, PushTask(s)
      PROVE  TypeOK'
  <2>1. Head(session[s].contracts) \in Contracts /\ Tail(session[s].contracts) \in Seq(Contracts)
    BY <1>2, Elements DEF PushTask, Session
  <2> QED
    BY <1>2, <2>1 DEF PushTask, Session
<1>3. ASSUME NEW s \in Sessions, AddReply(s)
      PROVE  TypeOK'
  BY <1>3 DEF AddReply, Session
<1>4. ASSUME NEW s \in Sessions, AddFails(s)
      PROVE  TypeOK'
  <2>1. Head(session[s].contracts) \in Contracts
    BY <1>4, Elements DEF AddFails, Session
  <2> QED
    BY <1>4, <2>1 DEF AddFails
<1>5. ASSUME NEW s \in Sessions, NEW user \in Users, NEW ids \in Batches(TaskIds),
             StopRequest(s, user, ids)
      PROVE  TypeOK'
  <2>1. PICK keys \in Seq(Keys) : IsStop(s, keys)
    BY <1>5, StopRequestKeys
  <2>2. Caught(keys) \subseteq Contracts
    BY DEF Caught, Owned
  <2>3. session'[s] \in Session /\ session'[s].op = "stop"
    BY <2>1, <2>2 DEF IsStop, Session, Ops
  <2> QED
    BY <2>1, <2>2, <2>3 DEF IsStop
<1>6. ASSUME NEW s \in Sessions, RemoveTimeTask(s)
      PROVE  TypeOK'
  BY <1>6 DEF RemoveTimeTask, Session
<1>7. ASSUME NEW s \in Sessions, RemoveProgressTask(s)
      PROVE  TypeOK'
  <2>1. Tail(session[s].keys) \in Seq(Keys)
    BY <1>7, Elements DEF RemoveProgressTask, Session
  <2> QED
    BY <1>7, <2>1 DEF RemoveProgressTask, Session
<1>8. ASSUME NEW s \in Sessions, StopReply(s) \/ StopFails(s)
      PROVE  TypeOK'
  BY <1>8 DEF StopReply, StopFails, Session
<1>9. ASSUME NEW s \in Sessions, NEW user \in Users \cup {None}, ListRequest(s, user)
      PROVE  TypeOK'
  <2>1. session'[s] \in Session /\ session'[s].op = "list"
    BY <1>9 DEF ListRequest, Session, Ops
  <2> QED
    BY <1>9, <2>1 DEF ListRequest
<1>10. ASSUME NEW s \in Sessions, ListService(s)
       PROVE  TypeOK'
  BY <1>10 DEF ListService, Session, Listed
<1>11. ASSUME NEW s \in Sessions, ListReply(s)
       PROVE  TypeOK'
  BY <1>11 DEF ListReply
<1>12. CASE HttpStreamRestarts
  BY <1>12 DEF HttpStreamRestarts
<1>13. ASSUME NEW service \in {"time", "progress"}, ServiceRestarts(service)
       PROVE  TypeOK'
  BY <1>13 DEF ServiceRestarts, Of, Contracts
<1> QED
  BY <1>1, <1>2, <1>3, <1>4, <1>5, <1>6, <1>7, <1>8, <1>9, <1>10, <1>11, <1>12, <1>13 DEF Next

-----------------------------------------------------------------------------
(* What any step may do to what the sessions share: only a session that adds  *)
(* puts a contract on a list, only a stop or a restart takes one off, a       *)
(* contract keeps its owner, and one that is sent while its task id is being  *)
(* stopped is revoked at once.                                                *)
Moves ==
    /\ scheduled' \subseteq scheduled \cup BeingAdded
    /\ scheduled \ scheduled' \subseteq revoked'
    /\ revoked \subseteq revoked'
    /\ acked \subseteq acked'
    /\ acked' \ acked \subseteq BeingAdded
    /\ (acked' \ acked) \ revoked \subseteq scheduled'
    /\ buried' \ buried \subseteq Settled \ (BeingAdded \cup scheduled)
    /\ \A c \in Settled : owner'[c] = owner[c]
    /\ \A c \in Settled' \ Settled : owner'[c] \in BeingStopped => c \in revoked'
    /\ BeingAdded' \subseteq BeingAdded \cup (Contracts \ Settled)

LEMMA StepMoves ==
    ASSUME IInv, Next
    PROVE  Moves
<1>1. TypeOK /\ OwnersInv /\ \A s \in Sessions : AddInv(s) /\ StopInv(s)
  BY DEF IInv
<1> USE Adding, AddingNext DEF Settled
<1>2. ASSUME NEW s \in Sessions, NEW key \in Keys, NEW batch \in Batches(Contracts),
             AddRequest(s, key, batch)
      PROVE  Moves
  <2>1. /\ session'[s].targets = ElementsOf(batch)
        /\ \A r \in Sessions \ {s} : session'[r] = session[r]
    BY <1>1, <1>2 DEF AddRequest, TypeOK, Idle
  <2>2. BeingAdded' \subseteq BeingAdded \cup ElementsOf(batch)
    BY <2>1
  <2>3. ElementsOf(batch) \subseteq Contracts
    BY BatchType, Elements
  <2>4. BeingAdded' \subseteq BeingAdded \cup (Contracts \ Settled)
    BY <1>2, <2>2, <2>3 DEF AddRequest
  <2>5. \A c \in Settled' \ Settled : owner'[c] \in BeingStopped => c \in revoked'
    BY <1>1, <1>2 DEF AddRequest, TypeOK
  <2>6. \A c \in Settled : owner'[c] = owner[c]
    BY <1>1, <1>2 DEF AddRequest, TypeOK
  <2> QED
    BY <1>2, <2>4, <2>5, <2>6 DEF AddRequest, Moves
<1>3. ASSUME NEW s \in Sessions, PushTask(s)
      PROVE  Moves
  <2>1. Head(session[s].contracts) \in BeingAdded
    BY <1>1, <1>3, Elements DEF PushTask, TypeOK, Session, AddInv
  <2>2. BeingAdded' \subseteq BeingAdded
    BY <1>1, <1>3 DEF PushTask, TypeOK, Session
  <2> QED
    BY <1>3, <2>1, <2>2 DEF PushTask, Moves
<1>4. ASSUME NEW s \in Sessions, AddReply(s)
      PROVE  Moves
  <2>1. BeingAdded' \subseteq BeingAdded
    BY <1>1, <1>4 DEF AddReply, TypeOK, Idle
  <2>2. ElementsOf(session[s].contracts) = {}
    BY <1>4 DEF AddReply, ElementsOf
  <2>3. session[s].targets \subseteq BeingAdded /\ session[s].targets \ revoked \subseteq scheduled
    BY <1>1, <1>4, <2>2 DEF AddReply, AddInv
  <2> QED
    BY <1>4, <2>1, <2>3 DEF AddReply, Moves
<1>5. ASSUME NEW s \in Sessions, AddFails(s)
      PROVE  Moves
  <2>1. Head(session[s].contracts) \in BeingAdded
    BY <1>1, <1>5, Elements DEF AddFails, TypeOK, Session, AddInv
  <2>2. BeingAdded' \subseteq BeingAdded
    BY <1>1, <1>5 DEF AddFails, TypeOK, Idle
  <2> QED
    BY <1>5, <2>1, <2>2 DEF AddFails, Moves
<1>6. ASSUME NEW s \in Sessions, NEW user \in Users, NEW ids \in Batches(TaskIds),
             StopRequest(s, user, ids)
      PROVE  Moves
  <2>1. PICK keys \in Seq(Keys) : IsStop(s, keys)
    BY <1>6, StopRequestKeys
  <2>2. BeingAdded' \subseteq BeingAdded
    BY <1>1, <2>1 DEF IsStop, TypeOK, Idle
  <2> QED
    BY <2>1, <2>2 DEF IsStop, Moves
<1>7. ASSUME NEW s \in Sessions, RemoveTimeTask(s) \/ RemoveProgressTask(s) \/ StopFails(s)
      PROVE  Moves
  <2>1. session[s].op = "stop" /\ session[s].keys # << >> /\ session[s].keys \in Seq(Keys)
    BY <1>1, <1>7 DEF RemoveTimeTask, RemoveProgressTask, StopFails, TypeOK, Session
  <2>2. session'[s].op # "add" /\ \A r \in Sessions \ {s} : session'[r] = session[r]
    <3>1. CASE RemoveTimeTask(s)
      BY <1>1, <3>1 DEF RemoveTimeTask, TypeOK, Session
    <3>2. CASE RemoveProgressTask(s)
      BY <1>1, <3>2 DEF RemoveProgressTask, TypeOK, Session
    <3>3. CASE StopFails(s)
      BY <1>1, <3>3 DEF StopFails, TypeOK, Idle
    <3> QED
      BY <1>7, <3>1, <3>2, <3>3
  <2>3. BeingAdded' \subseteq BeingAdded
    BY <2>2
  <2>4. Head(session[s].keys) \in ElementsOf(session[s].keys)
    BY <2>1, Elements
  <2>5. RemovedBy(s) \subseteq revoked
    BY <1>1, <2>1, <2>4 DEF RemovedBy, StopInv
  <2> QED
    BY <1>7, <2>3, <2>5 DEF RemoveTimeTask, RemoveProgressTask, StopFails, Moves
<1>8. ASSUME NEW s \in Sessions, StopReply(s)
      PROVE  Moves
  <2>1. BeingAdded' \subseteq BeingAdded
    BY <1>1, <1>8 DEF StopReply, TypeOK, Idle
  <2>2. session[s].targets \subseteq Settled \ (BeingAdded \cup scheduled)
    BY <1>1, <1>8 DEF StopReply, StopInv, RemovalAhead
  <2> QED
    BY <1>8, <2>1, <2>2 DEF StopReply, Moves
<1>9. ASSUME NEW s \in Sessions, NEW user \in Users \cup {None}, ListRequest(s, user)
      PROVE  Moves
  <2>1. BeingAdded' \subseteq BeingAdded
    BY <1>1, <1>9 DEF ListRequest, TypeOK, Idle
  <2> QED
    BY <1>9, <2>1 DEF ListRequest, Moves
<1>10. ASSUME NEW s \in Sessions, ListService(s) \/ ListReply(s)
       PROVE  Moves
  <2>1. session'[s].op # "add" /\ \A r \in Sessions \ {s} : session'[r] = session[r]
    <3>1. CASE ListService(s)
      BY <1>1, <3>1 DEF ListService, TypeOK, Session
    <3>2. CASE ListReply(s)
      BY <1>1, <3>2 DEF ListReply, TypeOK, Idle
    <3> QED
      BY <1>10, <3>1, <3>2
  <2>2. BeingAdded' \subseteq BeingAdded
    BY <2>1
  <2> QED
    BY <1>10, <2>2 DEF ListService, ListReply, Moves
<1>11. CASE HttpStreamRestarts
  <2>1. BeingAdded' \subseteq BeingAdded
    BY <1>11 DEF HttpStreamRestarts, Idle
  <2> QED
    BY <1>11, <2>1 DEF HttpStreamRestarts, Moves
<1>12. ASSUME NEW service \in {"time", "progress"}, ServiceRestarts(service)
       PROVE  Moves
  <2>1. BeingAdded' \subseteq BeingAdded
    BY <1>12 DEF ServiceRestarts
  <2>2. scheduled \ scheduled' \subseteq revoked'
    BY <1>1, <1>12 DEF ServiceRestarts, OwnersInv
  <2> QED
    BY <1>12, <2>1, <2>2 DEF ServiceRestarts, Moves
<1> QED
  BY <1>2, <1>3, <1>4, <1>5, <1>6, <1>7, <1>8, <1>9, <1>10, <1>11, <1>12 DEF Next

-----------------------------------------------------------------------------
(* A session is not disturbed by what the others do.                          *)
SessionInv(s) == AddInv(s) /\ StopInv(s) /\ ListInv(s)

LEMMA Untouched ==
    ASSUME IInv, Moves, NEW s \in Sessions, session'[s] = session[s]
    PROVE  SessionInv(s)'
<1>1. TypeOK /\ OwnersInv /\ SessionInv(s)
  BY DEF IInv, SessionInv
<1>2. Settled \subseteq Settled' /\ \A c \in Settled : owner'[c] = owner[c]
  BY DEF Moves, Settled
<1>3. AddInv(s)'
  BY <1>1, <1>2 DEF SessionInv, AddInv, Moves
<1>4. StopInv(s)'
  <2> SUFFICES ASSUME session[s].op = "stop"
               PROVE  /\ session[s].targets \subseteq Settled' \ BeingAdded'
                      /\ \A c \in session[s].targets \cap scheduled' : RemovalAhead(s, c)'
                      /\ \A key \in ElementsOf(session[s].keys) : Owned(key)' \subseteq revoked'
    BY DEF StopInv
  <2>1. session[s].targets \subseteq Settled' \ BeingAdded'
    BY <1>1, <1>2 DEF SessionInv, StopInv, Moves
  <2>2. ASSUME NEW c \in session[s].targets \cap scheduled'
        PROVE  RemovalAhead(s, c)'
    <3>1. c \in Settled /\ c \in scheduled /\ RemovalAhead(s, c)
      BY <1>1, <2>2 DEF SessionInv, StopInv, Moves
    <3> QED
      BY <1>2, <3>1 DEF RemovalAhead
  <2>3. ASSUME NEW key \in ElementsOf(session[s].keys), NEW c \in Owned(key)'
        PROVE  c \in revoked'
    <3>1. key \in BeingStopped
      BY Adding
    <3>2. c \in Contracts /\ owner'[c] = key
      BY <2>3 DEF Owned
    <3>3. session[s].keys \in Seq(Keys) /\ key \in Keys
      BY <1>1, Elements DEF TypeOK, Session
    <3>4. c \in Settled'
      BY <3>2, <3>3, NoneAssumption DEF Settled
    <3>5. CASE c \in Settled
      BY <1>1, <1>2, <3>2, <3>5 DEF SessionInv, StopInv, Owned, Moves
    <3>6. CASE c \notin Settled
      BY <3>1, <3>2, <3>4, <3>6 DEF Moves
    <3> QED
      BY <3>5, <3>6
  <2> QED
    BY <2>1, <2>2, <2>3
<1>5. ListInv(s)'
  <2>1. \A c \in OfUser(session[s].user) : c \in OfUser(session[s].user)'
    BY <1>2 DEF OfUser, Settled
  <2> QED
    BY <1>1, <2>1 DEF SessionInv, ListInv, Moves
<1> QED
  BY <1>3, <1>4, <1>5 DEF SessionInv

(* A session that is idle has nothing to lose.                                *)
LEMMA IdleInv ==
    ASSUME NEW s \in Sessions, session'[s] = Idle
    PROVE  SessionInv(s)'
  BY DEF SessionInv, AddInv, StopInv, ListInv, Idle

(* The session that adds.                                                     *)
LEMMA AddingSession ==
    ASSUME IInv, Moves, NEW s \in Sessions,
           \/ \E key \in Keys, batch \in Batches(Contracts) : AddRequest(s, key, batch)
           \/ PushTask(s)
    PROVE  SessionInv(s)'
<1>1. TypeOK /\ AddInv(s)
  BY DEF IInv
<1>2. SUFFICES session'[s].op = "add" /\ AddInv(s)'
  BY DEF SessionInv, StopInv, ListInv
<1>3. ASSUME NEW key \in Keys, NEW batch \in Batches(Contracts), AddRequest(s, key, batch)
      PROVE  session'[s].op = "add" /\ AddInv(s)'
  <2>1. /\ session'[s].op = "add"
        /\ session'[s].contracts = batch
        /\ session'[s].targets = ElementsOf(batch)
    BY <1>1, <1>3 DEF AddRequest, TypeOK, Idle
  <2>2. ElementsOf(batch) \subseteq Contracts
    BY BatchType, Elements
  <2>3. ElementsOf(batch) \subseteq Settled'
    BY <1>3, <2>2, NoneAssumption DEF AddRequest, Settled
  <2> QED
    BY <2>1, <2>3 DEF AddInv
<1>4. CASE PushTask(s)
  <2> DEFINE contracts == session[s].contracts
  <2>1. /\ session[s].op = "add" /\ session'[s].op = "add"
        /\ contracts \in Seq(Contracts) /\ contracts # << >>
        /\ session'[s].contracts = Tail(contracts)
        /\ session'[s].targets = session[s].targets
    BY <1>1, <1>4 DEF PushTask, TypeOK, Session
  <2>2. ElementsOf(contracts) = {Head(contracts)} \cup ElementsOf(Tail(contracts))
    BY <2>1, Elements
  <2>3. Settled' = Settled /\ revoked' = revoked /\ scheduled' = scheduled \cup {Head(contracts)}
    BY <1>4 DEF PushTask, Settled
  <2> HIDE DEF contracts
  <2> QED
    BY <1>1, <2>1, <2>2, <2>3 DEF AddInv, contracts
<1> QED
  BY <1>3, <1>4

(* The session that stops.                                                    *)
LEMMA StopBegins ==
    ASSUME IInv, Moves, NEW s \in Sessions, NEW keys \in Seq(Keys), IsStop(s, keys)
    PROVE  SessionInv(s)'
<1>1. TypeOK
  BY DEF IInv
<1>2. /\ session'[s].op = "stop"
      /\ session'[s].keys = keys
      /\ session'[s].service = "time"
      /\ session'[s].targets = Caught(keys) \ BeingAdded
  BY <1>1 DEF IsStop, TypeOK, Idle
<1>3. SUFFICES /\ session'[s].targets \subseteq Settled' \ BeingAdded'
               /\ \A c \in session'[s].targets : RemovalAhead(s, c)'
               /\ \A key \in ElementsOf(keys) : Owned(key)' \subseteq revoked'
  BY <1>2 DEF SessionInv, AddInv, StopInv, ListInv
<1>4. owner' = owner /\ Settled' = Settled /\ revoked' = revoked \cup Caught(keys)
  BY DEF IsStop, Settled
<1>5. \A key \in ElementsOf(keys) : Owned(key)' \subseteq Caught(keys)
  BY <1>4 DEF Owned, Caught
<1>6. ASSUME NEW c \in Caught(keys)
      PROVE  c \in Settled /\ \E i \in DOMAIN keys : keys[i] = owner[c]
  <2>1. PICK key \in ElementsOf(keys) : c \in Contracts /\ owner[c] = key
    BY <1>6 DEF Caught, Owned
  <2>2. key \in Keys
    BY Elements
  <2> QED
    BY <2>1, <2>2, NoneAssumption DEF Settled, ElementsOf
<1>7. \A c \in session'[s].targets : RemovalAhead(s, c)'
  BY <1>2, <1>4, <1>6 DEF RemovalAhead
<1>8. session'[s].targets \subseteq Settled' \ BeingAdded'
  BY <1>2, <1>4, <1>6 DEF Moves
<1> QED
  BY <1>4, <1>5, <1>7, <1>8

LEMMA StopGoesOn ==
    ASSUME IInv, Moves, NEW s \in Sessions, RemoveTimeTask(s) \/ RemoveProgressTask(s)
    PROVE  SessionInv(s)'
<1>1. TypeOK /\ StopInv(s)
  BY DEF IInv
<1> DEFINE keys == session[s].keys
<1>2. /\ session[s].op = "stop" /\ keys # << >> /\ keys \in Seq(Keys)
      /\ owner' = owner /\ Settled' = Settled /\ revoked' = revoked
      /\ scheduled' = scheduled \ RemovedBy(s)
  BY <1>1 DEF RemoveTimeTask, RemoveProgressTask, TypeOK, Session, Settled
<1>3. /\ keys[1] = Head(keys) /\ DOMAIN keys = 1..Len(keys) /\ Len(keys) \in Nat \ {0}
      /\ DOMAIN Tail(keys) = 1..(Len(keys) - 1)
      /\ \A i \in 1..(Len(keys) - 1) : Tail(keys)[i] = keys[i + 1]
  BY <1>2, LenProperties, EmptySeq, HeadTailProperties
<1>4. CASE RemoveTimeTask(s)
  <2>1. /\ session[s].service = "time"
        /\ session'[s].op = "stop" /\ session'[s].keys = keys
        /\ session'[s].service = "progress" /\ session'[s].targets = session[s].targets
    BY <1>1, <1>4 DEF RemoveTimeTask, TypeOK, Session
  <2>2. ASSUME NEW c \in session[s].targets \cap scheduled'
        PROVE  RemovalAhead(s, c)'
    <3>1. PICK i \in DOMAIN keys : keys[i] = owner[c]
      BY <1>1, <1>2, <2>2 DEF StopInv, RemovalAhead
    <3>2. i = 1 => c \notin TimeContracts /\ c \in Contracts
      BY <1>1, <1>2, <1>3, <2>1, <2>2, <3>1 DEF RemovedBy, Owned, Of, TypeOK
    <3> QED
      BY <1>2, <2>1, <3>1, <3>2 DEF RemovalAhead, Contracts
  <2>3. \A key \in ElementsOf(keys) : Owned(key)' \subseteq revoked'
    BY <1>1, <1>2 DEF StopInv, Owned
  <2>4. session[s].targets \subseteq Settled' \ BeingAdded'
    BY <1>1, <1>2 DEF StopInv, Moves
  <2> QED
    BY <2>1, <2>2, <2>3, <2>4 DEF SessionInv, AddInv, StopInv, ListInv
<1>5. CASE RemoveProgressTask(s)
  <2>1. /\ session[s].service = "progress"
        /\ session'[s].op = "stop" /\ session'[s].keys = Tail(keys)
        /\ session'[s].service = "time" /\ session'[s].targets = session[s].targets
    BY <1>1, <1>5 DEF RemoveProgressTask, TypeOK, Session
  <2>2. ASSUME NEW c \in session[s].targets \cap scheduled'
        PROVE  RemovalAhead(s, c)'
    <3>1. PICK i \in DOMAIN keys : keys[i] = owner[c] /\ (i = 1 => c \in ProgressContracts)
      BY <1>1, <1>2, <2>1, <2>2 DEF StopInv, RemovalAhead
    <3>2. i # 1
      BY <1>1, <1>2, <1>3, <2>1, <2>2, <3>1 DEF RemovedBy, Owned, Of, Contracts
    <3>3. i - 1 \in DOMAIN Tail(keys) /\ Tail(keys)[i - 1] = owner[c]
      BY <1>3, <3>1, <3>2
    <3> QED
      BY <1>2, <2>1, <3>3 DEF RemovalAhead
  <2>3. \A key \in ElementsOf(Tail(keys)) : Owned(key)' \subseteq revoked'
    BY <1>1, <1>2, Elements DEF StopInv, Owned
  <2>4. session[s].targets \subseteq Settled' \ BeingAdded'
    BY <1>1, <1>2 DEF StopInv, Moves
  <2> QED
    BY <2>1, <2>2, <2>3, <2>4 DEF SessionInv, AddInv, StopInv, ListInv
<1> QED
  BY <1>4, <1>5

(* The session that lists.                                                    *)
LEMMA ListingSession ==
    ASSUME IInv, NEW s \in Sessions,
           ListService(s) \/ \E user \in Users \cup {None} : ListRequest(s, user)
    PROVE  SessionInv(s)'
<1>1. TypeOK /\ AcceptedRuns /\ ListInv(s)
  BY DEF IInv
<1>2. SUFFICES session'[s].op = "list" /\ ListInv(s)'
  BY DEF SessionInv, AddInv, StopInv
<1>3. ASSUME NEW user \in Users \cup {None}, ListRequest(s, user)
      PROVE  session'[s].op = "list" /\ ListInv(s)'
  <2>1. /\ session'[s].op = "list" /\ session'[s].service = "time" /\ session'[s].user = user
        /\ session'[s].targets = (acked \ revoked) \cap OfUser(user) /\ session'[s].seen = {}
    BY <1>1, <1>3 DEF ListRequest, TypeOK, Idle
  <2>2. acked' = acked /\ OfUser(user)' = OfUser(user)
    BY <1>3 DEF ListRequest, OfUser
  <2> QED
    BY <2>1, <2>2 DEF ListInv, OfUser
<1>4. CASE ListService(s)
  <2> DEFINE user == session[s].user
  <2>1. /\ session[s].op = "list" /\ session'[s].op = "list"
        /\ session'[s].user = user /\ session'[s].targets = session[s].targets
        /\ session'[s].seen = session[s].seen \cup Listed(s)
        /\ \/ session[s].service = "time" /\ session'[s].service = "progress"
           \/ session[s].service = "progress" /\ session'[s].service = "none"
    BY <1>1, <1>4 DEF ListService, TypeOK, Session
  <2>2. acked' = acked /\ revoked' = revoked /\ OfUser(user)' = OfUser(user)
    BY <1>1, <1>4 DEF ListService, OfUser, TypeOK, Session
  <2>3. /\ session[s].targets \subseteq acked \cap OfUser(user)
        /\ Listed(s) \subseteq OfUser(user)
        /\ (session[s].targets \cap Of(session[s].service)) \ revoked \subseteq Listed(s)
    BY <1>1, <2>1 DEF ListInv, Listed, AcceptedRuns
  <2>4. CASE session[s].service = "time"
    BY <1>1, <2>1, <2>2, <2>3, <2>4 DEF ListInv, Of, OfUser
  <2>5. CASE session[s].service = "progress"
    <3>1. session[s].targets \subseteq Contracts
      BY <2>3 DEF OfUser
    <3>2. session[s].targets \ revoked \subseteq session'[s].seen
      BY <1>1, <2>1, <2>3, <2>5, <3>1 DEF ListInv, Of, Contracts
    <3> QED
      BY <1>1, <2>1, <2>2, <2>3, <2>5, <3>2 DEF ListInv, OfUser
  <2> QED
    BY <2>1, <2>4, <2>5
<1> QED
  BY <1>3, <1>4

(* Every session, whichever one takes a step.                                 *)
LEMMA StepSessions ==
    ASSUME IInv, Next, NEW r \in Sessions
    PROVE  SessionInv(r)'
<1>1. TypeOK /\ Moves
  BY StepMoves DEF IInv
<1>2. ASSUME session' = session
      PROVE  SessionInv(r)'
  BY <1>1, <1>2, Untouched
<1>3. ASSUME NEW s \in Sessions, SessionInv(s)', \A q \in Sessions \ {s} : session'[q] = session[q]
      PROVE  SessionInv(r)'
  BY <1>1, <1>3, Untouched
<1>4. ASSUME NEW s \in Sessions,
             \/ \E key \in Keys, batch \in Batches(Contracts) : AddRequest(s, key, batch)
             \/ PushTask(s)
      PROVE  SessionInv(r)'
  <2>1. \A q \in Sessions \ {s} : session'[q] = session[q]
    BY <1>1, <1>4 DEF AddRequest, PushTask, TypeOK
  <2> QED
    BY <1>1, <1>3, <1>4, <2>1, AddingSession
<1>5. ASSUME NEW s \in Sessions, NEW user \in Users, NEW ids \in Batches(TaskIds),
             StopRequest(s, user, ids)
      PROVE  SessionInv(r)'
  <2>1. PICK keys \in Seq(Keys) : IsStop(s, keys)
    BY <1>5, StopRequestKeys
  <2>2. \A q \in Sessions \ {s} : session'[q] = session[q]
    BY <1>1, <2>1 DEF IsStop, TypeOK
  <2> QED
    BY <1>1, <1>3, <2>1, <2>2, StopBegins
<1>6. ASSUME NEW s \in Sessions, RemoveTimeTask(s) \/ RemoveProgressTask(s)
      PROVE  SessionInv(r)'
  <2>1. \A q \in Sessions \ {s} : session'[q] = session[q]
    BY <1>1, <1>6 DEF RemoveTimeTask, RemoveProgressTask, TypeOK
  <2> QED
    BY <1>1, <1>3, <1>6, <2>1, StopGoesOn
<1>7. ASSUME NEW s \in Sessions,
             ListService(s) \/ \E user \in Users \cup {None} : ListRequest(s, user)
      PROVE  SessionInv(r)'
  <2>1. \A q \in Sessions \ {s} : session'[q] = session[q]
    BY <1>1, <1>7 DEF ListService, ListRequest, TypeOK
  <2> QED
    BY <1>3, <1>7, <2>1, ListingSession
<1>8. ASSUME NEW s \in Sessions, AddReply(s) \/ AddFails(s) \/ StopReply(s) \/ StopFails(s) \/ ListReply(s)
      PROVE  SessionInv(r)'
  <2>1. session'[s] = Idle /\ \A q \in Sessions \ {s} : session'[q] = session[q]
    BY <1>1, <1>8 DEF AddReply, AddFails, StopReply, StopFails, ListReply, TypeOK
  <2> QED
    BY <1>3, <2>1, IdleInv
<1>9. CASE HttpStreamRestarts
  <2>1. session'[r] = Idle
    BY <1>9 DEF HttpStreamRestarts
  <2> QED
    BY <2>1, IdleInv
<1>10. ASSUME NEW service \in {"time", "progress"}, ServiceRestarts(service)
       PROVE  SessionInv(r)'
  BY <1>2, <1>10 DEF ServiceRestarts
<1> QED
  BY <1>4, <1>5, <1>6, <1>7, <1>8, <1>9, <1>10 DEF Next

(* What the sessions share.                                                   *)
LEMMA StepShared ==
    ASSUME IInv, Moves
    PROVE  OwnersInv' /\ AcceptedRuns' /\ BuriedInv'
<1>1. /\ OwnersInv /\ AcceptedRuns /\ BuriedInv
      /\ scheduled \subseteq Contracts /\ acked \subseteq Contracts /\ buried \subseteq Contracts
  BY DEF IInv, TypeOK
<1>2. BeingAdded \subseteq Settled
  BY Adding DEF IInv, AddInv
<1>3. Settled \subseteq Settled'
  BY DEF Moves, Settled
<1>4. OwnersInv'
  BY <1>1, <1>2, <1>3 DEF OwnersInv, Moves
<1>5. AcceptedRuns'
  BY <1>1 DEF AcceptedRuns, Moves
<1>6. BuriedInv'
  BY <1>1, <1>2 DEF BuriedInv, OwnersInv, Moves
<1> QED
  BY <1>4, <1>5, <1>6

LEMMA InitIInv == Init => IInv
<1> SUFFICES ASSUME Init
             PROVE  IInv
  OBVIOUS
<1> USE DEF Init
<1>1. TypeOK
  BY IdleType DEF TypeOK
<1>2. \A s \in Sessions : AddInv(s) /\ StopInv(s) /\ ListInv(s)
  BY DEF AddInv, StopInv, ListInv, Idle
<1>3. OwnersInv /\ AcceptedRuns /\ BuriedInv
  BY DEF OwnersInv, AcceptedRuns, BuriedInv
<1> QED
  BY <1>1, <1>2, <1>3 DEF IInv

-----------------------------------------------------------------------------
LEMMA StutterIInv ==
    ASSUME IInv, UNCHANGED vars
    PROVE  IInv'
<1> USE DEF vars, IInv
<1>1. TypeOK'
  BY DEF TypeOK
<1>2. Settled' = Settled /\ BeingAdded' = BeingAdded
  BY DEF Settled, BeingAdded
<1>3. OwnersInv' /\ AcceptedRuns' /\ BuriedInv'
  BY <1>2 DEF OwnersInv, AcceptedRuns, BuriedInv
<1>4. ASSUME NEW s \in Sessions
      PROVE  (AddInv(s) /\ StopInv(s) /\ ListInv(s))'
  BY <1>2 DEF AddInv, StopInv, ListInv, RemovalAhead, Owned, OfUser
<1> QED
  BY <1>1, <1>3, <1>4

(* All of it is kept by every step of every session and every restart.        *)
THEOREM Invariance == Spec => []IInv
<1>1. IInv /\ [Next]_vars => IInv'
  <2> SUFFICES ASSUME IInv, [Next]_vars
               PROVE  IInv'
    OBVIOUS
  <2>1. CASE Next
    <3>1. TypeOK'
      BY <2>1, StepTypeOK DEF IInv
    <3>2. \A s \in Sessions : (AddInv(s) /\ StopInv(s) /\ ListInv(s))'
      BY <2>1, StepSessions DEF SessionInv
    <3> QED
      BY <2>1, <3>1, <3>2, StepMoves, StepShared DEF IInv
  <2>2. CASE UNCHANGED vars
    BY <2>2, StutterIInv
  <2> QED
    BY <2>1, <2>2
<1> QED
  BY InitIInv, <1>1, PTL DEF Spec

(* The variables of http_stream's requests keep their types, and a request    *)
(* leaves nothing behind in its session.                                      *)
THEOREM TypeCorrect == Spec => []TypeOK
<1>1. IInv => TypeOK
  BY DEF IInv
<1> QED
  BY Invariance, <1>1, PTL

(* What was answered NoError runs until its task id is stopped or its service *)
(* restarts, with any number of sessions at work.                             *)
THEOREM AcceptedTasksRun == Spec => []AcceptedRuns
<1>1. IInv => AcceptedRuns
  BY DEF IInv
<1> QED
  BY Invariance, <1>1, PTL

(* What an answered stop was to remove is on neither list, for good.          *)
THEOREM StopsAreFinal == Spec => []StoppedIsGone
<1>1. IInv => StoppedIsGone
  BY DEF IInv, BuriedInv, StoppedIsGone
<1> QED
  BY Invariance, <1>1, PTL

(* A listing misses nothing that was accepted before it and is untouched, and *)
(* shows nothing of another user.                                             *)
THEOREM ListingsAreComplete == Spec => []ListingComplete
<1>1. IInv => ListingComplete
  BY DEF IInv, ListInv, ListingComplete
<1> QED
  BY Invariance, <1>1, PTL

(* Only a stop of its own task id, or a restart, takes a contract off a list. *)
THEOREM NothingElseRemoves == Spec => LeavesOnlyWhenRevoked
<1>1. IInv /\ [Next]_vars => [scheduled \ scheduled' \subseteq revoked']_vars
  BY StepMoves DEF Moves
<1> QED
  BY Invariance, <1>1, PTL DEF Spec, LeavesOnlyWhenRevoked
=============================================================================
