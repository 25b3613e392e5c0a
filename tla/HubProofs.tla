------------------------------ MODULE HubProofs ------------------------------
(***************************************************************************)
(* Proofs about RealtimeHub for any clients, publishers and limits.        *)
(*                                                                         *)
(* RoomHeld is inductive once the types are known: a client that leaves is *)
(* one of those that subscribers counts, so the count is 0 only for the    *)
(* last one, and remove_if looks at it again.                              *)
(*                                                                         *)
(* RoomsBounded is not: what bounds the map is that the rooms on their way *)
(* into it are counted from the moment they pass the check (CeilingInv).   *)
(*                                                                         *)
(* ResumeLossless needs the position of every message (StreamInv): while   *)
(* the first room lives, the versions are the calls of publish less a      *)
(* constant, the backlog, the receivers and the replays hold consecutive   *)
(* versions, and the versions not sent yet are with their publishers.      *)
(***************************************************************************)
EXTENDS RealtimeHub, FiniteSetTheorems, SequenceTheorems, TLAPS

USE Zenon

Steps == {"Out", "Look", "Count", "Register", "Resume", "Live", "Collect"}
Subscribed == {c \in Client : Attached(c)}

\* The types the proofs use.
HubType ==
  /\ gen \in Nat /\ subscribers \in Nat
  /\ pc \in [Client -> Steps] /\ channel \in [Client -> Nat]

HoldInv == HubType /\ RoomHeld

\* Rooms other than the modelled one, those about to enter included, leave a
\* place for it under the ceiling with one room for each concurrent subscribe.
CeilingInv ==
  /\ others \in Nat /\ entering \in Nat
  /\ entering <= Strangers
  /\ others + entering < MaxRooms + Strangers

-----------------------------------------------------------------------------
(* The number of subscribers *)

\* There are finitely many of them, and none exactly when they number 0.
LEMMA SubscribedFinite ==
  /\ IsFiniteSet(Subscribed) /\ Cardinality(Subscribed) \in Nat
  /\ Cardinality(Subscribed) = 0 <=> Subscribed = {}
<1>1. Subscribed \subseteq Client
  BY DEF Subscribed
<1>2. IsFiniteSet(Subscribed)
  BY <1>1, HubAssumption, FS_Subset
<1>3. QED
  BY <1>2, FS_CardinalityType, FS_EmptySet

\* The subscribers after a client moved to another step of its connection.
LEMMA Moves ==
  ASSUME HubType, NEW c \in Client, NEW l \in Steps, pc' = [pc EXCEPT ![c] = l]
  PROVE  /\ pc' \in [Client -> Steps]
         /\ \A d \in Client : Attached(d)' <=> IF d = c THEN l \in {"Resume", "Live"} ELSE Attached(d)
         /\ l \in {"Resume", "Live"} => Subscribed' = Subscribed \cup {c}
         /\ l \notin {"Resume", "Live"} => Subscribed' = Subscribed \ {c}
<1>1. pc' \in [Client -> Steps]
  BY DEF HubType
<1>2. \A d \in Client : Attached(d)' <=> IF d = c THEN l \in {"Resume", "Live"} ELSE Attached(d)
  BY DEF HubType, Attached
<1>3. QED
  BY <1>1, <1>2 DEF Subscribed

\* A client that moves without subscribing or leaving.
LEMMA Bystander ==
  ASSUME HoldInv, NEW c \in Client, NEW l \in Steps, pc' = [pc EXCEPT ![c] = l],
         pc[c] # "Collect", Attached(c) <=> l \in {"Resume", "Live"},
         UNCHANGED <<exists, gen, subscribers, channel>>
  PROVE  HoldInv'
<1> USE DEF HoldInv
<1>1. HubType'
  BY Moves DEF HubType
<1>2. \A d \in Client : Attached(d)' <=> Attached(d)
  BY Moves
<1>3. Subscribed' = Subscribed
  BY <1>2 DEF Subscribed
<1>4. subscribers' = Cardinality(Subscribed')
  BY <1>3 DEF RoomHeld, Subscribed
<1>5. exists' => \E d \in Client : Attached(d)' \/ pc'[d] = "Collect"
  BY <1>2 DEF RoomHeld, HubType
<1>6. QED
  BY <1>1, <1>2, <1>4, <1>5 DEF RoomHeld, Subscribed

-----------------------------------------------------------------------------
(* Rooms are held *)

LEMMA InitHold == Init => HoldInv
<1> SUFFICES ASSUME Init PROVE HoldInv
  OBVIOUS
<1>1. HubType
  BY DEF Init, HubType, Steps
<1>2. \A c \in Client : ~Attached(c)
  BY DEF Init, Attached
<1>3. Cardinality({c \in Client : Attached(c)}) = 0
  BY <1>2, FS_EmptySet
<1>4. QED
  BY <1>1, <1>2, <1>3 DEF Init, HoldInv, RoomHeld

\* register_subscriber joins the room or creates it with one subscriber.
LEMMA RegisterHold ==
  ASSUME HoldInv, NEW c \in Client, Register(c)
  PROVE  HoldInv'
<1> USE DEF HoldInv
<1>1. /\ "Resume" \in Steps /\ ~Attached(c) /\ pc' = [pc EXCEPT ![c] = "Resume"]
  BY DEF Register, Steps, Attached
<1>2. /\ \A d \in Client : Attached(d)' <=> (d = c \/ Attached(d))
      /\ Subscribed' = Subscribed \cup {c} /\ pc' \in [Client -> Steps]
  BY <1>1, Moves
<1>3. c \notin Subscribed
  BY <1>1 DEF Subscribed
<1>4. Cardinality(Subscribed') = Cardinality(Subscribed) + 1
  BY <1>2, <1>3, SubscribedFinite, FS_AddElement
<1>5. CASE exists
  <2>1. /\ exists' = exists /\ gen' = gen /\ subscribers' = subscribers + 1
        /\ channel' = [channel EXCEPT ![c] = gen]
    BY <1>5 DEF Register
  <2>2. HubType'
    <3>1. gen \in Nat /\ subscribers \in Nat /\ channel \in [Client -> Nat]
      BY DEF HubType
    <3>2. channel' \in [Client -> Nat] /\ subscribers' \in Nat
      BY SMT, <2>1, <3>1
    <3>3. QED
      BY <1>2, <2>1, <3>1, <3>2 DEF HubType
  <2>3. subscribers' = Cardinality(Subscribed')
    BY <2>1, <1>4 DEF RoomHeld, Subscribed
  <2>4. \A d \in Client : Attached(d)' => exists' /\ channel'[d] = gen'
    BY <1>2, <1>5, <2>1 DEF RoomHeld, HubType
  <2>5. QED
    BY <1>2, <2>2, <2>3, <2>4 DEF RoomHeld, Subscribed
<1>6. CASE ~exists
  <2>1. /\ exists' = TRUE /\ gen' = gen + 1 /\ subscribers' = 1
        /\ channel' = [channel EXCEPT ![c] = gen + 1]
    BY <1>6 DEF Register
  <2>2. \A d \in Client : ~Attached(d)
    BY <1>6 DEF RoomHeld
  <2>3. HubType'
    <3>1. gen \in Nat /\ channel \in [Client -> Nat]
      BY DEF HubType
    <3>2. channel' \in [Client -> Nat] /\ gen' \in Nat
      BY SMT, <2>1, <3>1
    <3>3. QED
      BY <1>2, <2>1, <3>2 DEF HubType
  <2>4. subscribers' = Cardinality(Subscribed')
    BY SMT, <2>1, <2>2, <1>4, SubscribedFinite DEF Subscribed
  <2>5. \A d \in Client : Attached(d)' => exists' /\ channel'[d] = gen'
    BY <1>2, <2>1, <2>2 DEF HubType
  <2>6. QED
    BY <1>2, <2>3, <2>4, <2>5 DEF RoomHeld, Subscribed
<1>7. QED
  BY <1>5, <1>6

\* The first half of RoomGuard::drop: the last subscriber goes on to collect.
LEMMA LeaveHold ==
  ASSUME HoldInv, NEW c \in Client, Leave(c)
  PROVE  HoldInv'
<1> USE DEF HoldInv
<1>1. Attached(c) /\ exists
  BY DEF Leave, Attached, RoomHeld
<1>2. c \in Subscribed /\ subscribers = Cardinality(Subscribed)
  BY <1>1 DEF Subscribed, RoomHeld
<1>3. subscribers > 0
  BY SMT, <1>2, SubscribedFinite
<1> DEFINE l == IF subscribers' = 0 THEN "Collect" ELSE "Out"
<1>4. /\ subscribers' = subscribers - 1 /\ subscribers' \in Nat
      /\ pc' = [pc EXCEPT ![c] = l]
      /\ exists' = exists /\ gen' = gen /\ channel' = [channel EXCEPT ![c] = 0]
  BY SMT, <1>1, <1>3 DEF Leave, HubType
<1>5. l \in Steps /\ l \notin {"Resume", "Live"}
  BY DEF Steps
<1> HIDE DEF l
<1>6. /\ \A d \in Client : Attached(d)' <=> (d # c /\ Attached(d))
      /\ Subscribed' = Subscribed \ {c} /\ pc' \in [Client -> Steps]
  BY <1>4, <1>5, Moves
<1>7. subscribers' = Cardinality(Subscribed')
  BY <1>2, <1>4, <1>6, SubscribedFinite, FS_RemoveElement
<1>8. HubType'
  BY <1>4, <1>6 DEF HubType
<1>9. \A d \in Client : Attached(d)' => exists' /\ channel'[d] = gen'
  BY <1>4, <1>6 DEF RoomHeld, HubType
<1>10. \E d \in Client : Attached(d)' \/ pc'[d] = "Collect"
  <2>1. CASE subscribers' = 0
    BY <2>1, <1>4 DEF l, HubType
  <2>2. CASE subscribers' # 0
    <3>1. Subscribed' # {}
      BY <2>2, <1>7, FS_EmptySet
    <3>2. QED
      BY <3>1 DEF Subscribed
  <2>3. QED
    BY <2>1, <2>2
<1>11. QED
  BY <1>7, <1>8, <1>9, <1>10 DEF RoomHeld, Subscribed

\* remove_if: the room goes if nobody came in the meantime.
LEMMA CollectHold ==
  ASSUME HoldInv, NEW c \in Client, Collect(c)
  PROVE  HoldInv'
<1> USE DEF HoldInv
<1>1. /\ "Out" \in Steps /\ pc' = [pc EXCEPT ![c] = "Out"] /\ ~Attached(c)
      /\ gen' = gen /\ channel' = channel /\ subscribers' = subscribers
  BY DEF Collect, Steps, Attached, Collectable
<1>2. /\ \A d \in Client : Attached(d)' <=> Attached(d)
      /\ pc' \in [Client -> Steps]
  BY <1>1, Moves
<1>3. Subscribed' = Subscribed
  BY <1>2 DEF Subscribed
<1>4. subscribers = Cardinality(Subscribed)
  BY DEF RoomHeld, Subscribed
<1>5. HubType'
  BY <1>1, <1>2 DEF HubType, Collect
<1>6. CASE Collectable
  <2>1. \A d \in Client : ~Attached(d)
    BY <1>4, <1>6, SubscribedFinite DEF Collectable, Subscribed
  <2>2. ~exists'
    BY <1>6 DEF Collect
  <2>3. QED
    BY <1>1, <1>2, <1>3, <1>4, <1>5, <2>1, <2>2 DEF RoomHeld, Subscribed
<1>7. CASE ~Collectable
  <2>1. exists' = exists
    BY <1>7 DEF Collect
  <2>2. exists => Subscribed # {}
    BY <1>4, <1>7, FS_EmptySet DEF Collectable
  <2>3. exists' => \E d \in Client : Attached(d)'
    BY <1>2, <2>1, <2>2 DEF Subscribed
  <2>4. \A d \in Client : Attached(d)' => exists' /\ channel'[d] = gen'
    BY <1>1, <1>2, <2>1 DEF RoomHeld
  <2>5. QED
    BY <1>1, <1>3, <1>4, <1>5, <2>3, <2>4 DEF RoomHeld, Subscribed
<1>8. QED
  BY <1>6, <1>7

LEMMA NextHold == HoldInv /\ [Next]_vars => HoldInv'
<1> SUFFICES ASSUME HoldInv, [Next]_vars PROVE HoldInv'
  OBVIOUS
<1>1. ASSUME UNCHANGED <<exists, gen, subscribers, pc, channel>> PROVE HoldInv'
  BY <1>1 DEF HoldInv, HubType, RoomHeld, Attached
<1>2. ASSUME NEW p \in Publisher, StampAndRetain(p) \/ Send(p) PROVE HoldInv'
  BY <1>1, <1>2 DEF StampAndRetain, Send, room, client
<1>3. ASSUME NEW c \in Client, Arrive(c) PROVE HoldInv'
  <2>1. /\ "Look" \in Steps /\ pc' = [pc EXCEPT ![c] = "Look"] /\ pc[c] = "Out"
        /\ UNCHANGED <<exists, gen, subscribers, channel>>
    BY <1>3 DEF Arrive, Steps, room
  <2>2. QED
    BY <2>1, Bystander DEF Attached
<1>4. ASSUME NEW c \in Client, Look(c) PROVE HoldInv'
  <2>1. PICK l \in {"Register", "Count"} :
          /\ pc' = [pc EXCEPT ![c] = l] /\ pc[c] = "Look"
          /\ UNCHANGED <<exists, gen, subscribers, channel>>
    BY <1>4 DEF Look, room
  <2>2. l \in Steps
    BY DEF Steps
  <2>3. QED
    BY <2>1, <2>2, Bystander DEF Attached
<1>5. ASSUME NEW c \in Client, Count(c) PROVE HoldInv'
  <2>1. PICK l \in {"Out", "Register"} :
          /\ pc' = [pc EXCEPT ![c] = l] /\ pc[c] = "Count"
          /\ UNCHANGED <<exists, gen, subscribers, channel>>
    BY <1>5 DEF Count, room
  <2>2. l \in Steps
    BY DEF Steps
  <2>3. QED
    BY <2>1, <2>2, Bystander DEF Attached
<1>6. ASSUME NEW c \in Client, Resume(c) PROVE HoldInv'
  <2>1. /\ "Live" \in Steps /\ pc' = [pc EXCEPT ![c] = "Live"] /\ pc[c] = "Resume"
        /\ UNCHANGED <<exists, gen, subscribers, channel>>
    BY <1>6 DEF Resume, Steps, room
  <2>2. QED
    BY <2>1, Bystander DEF Attached
<1>7. ASSUME NEW c \in Client, Receive(c) PROVE HoldInv'
  BY <1>1, <1>7 DEF Receive, room
<1>8. ASSUME StrangerCounted \/ StrangerEnters \/ StrangerLeaves PROVE HoldInv'
  BY <1>1, <1>8 DEF StrangerCounted, StrangerEnters, StrangerLeaves, room, client
<1>9. CASE UNCHANGED vars
  BY <1>1, <1>9 DEF vars, room, client
<1>10. QED
  BY <1>2, <1>3, <1>4, <1>5, <1>6, <1>7, <1>8, <1>9, RegisterHold, LeaveHold, CollectHold DEF Next

\* For any number of clients, arriving, leaving and being collected in any
\* order: RoomGuard never removes a room from under a subscriber, and no room
\* is left behind by the last one.
THEOREM RoomsAreHeld == Spec => []RoomHeld
<1>1. HoldInv => RoomHeld
  BY DEF HoldInv
<1>2. QED
  BY <1>1, InitHold, NextHold, PTL DEF Spec

-----------------------------------------------------------------------------
(* The ceiling *)

LEMMA NextCeiling == CeilingInv /\ [Next]_vars => CeilingInv'
<1> SUFFICES ASSUME CeilingInv, [Next]_vars PROVE CeilingInv'
  OBVIOUS
<1> USE HubAssumption
<1>1. ASSUME UNCHANGED elsewhere PROVE CeilingInv'
  BY <1>1 DEF CeilingInv, elsewhere
<1>2. CASE StrangerCounted
  BY SMT, <1>2 DEF StrangerCounted, CeilingInv, Full, Rooms
<1>3. CASE StrangerEnters
  BY SMT, <1>3 DEF StrangerEnters, CeilingInv
<1>4. CASE StrangerLeaves
  BY SMT, <1>4 DEF StrangerLeaves, CeilingInv
<1>5. ASSUME NEW p \in Publisher, StampAndRetain(p) \/ Send(p) PROVE CeilingInv'
  BY <1>1, <1>5 DEF StampAndRetain, Send
<1>6. ASSUME NEW c \in Client,
             \/ Arrive(c) \/ Look(c) \/ Count(c) \/ Register(c) \/ Resume(c)
             \/ Receive(c) \/ Leave(c) \/ Collect(c)
      PROVE  CeilingInv'
  BY <1>1, <1>6 DEF Arrive, Look, Count, Register, Resume, Receive, Leave, Collect
<1>7. CASE UNCHANGED vars
  BY <1>1, <1>7 DEF vars
<1>8. QED
  BY <1>2, <1>3, <1>4, <1>5, <1>6, <1>7 DEF Next

\* For any ceiling and any number of concurrent subscribes: the check of
\* register_subscriber, which is not atomic with the insert, still bounds the
\* number of rooms.
THEOREM CeilingHolds == Spec => []RoomsBounded
<1>1. Init => CeilingInv
  BY SMT, HubAssumption DEF Init, CeilingInv
<1>2. CeilingInv => RoomsBounded
  BY SMT, HubAssumption DEF CeilingInv, RoomsBounded, Rooms
<1>3. QED
  BY <1>1, <1>2, NextCeiling, PTL DEF Spec

-----------------------------------------------------------------------------
(* A resumed stream is complete *)

Message == [id : Nat, version : Nat]

\* The types of the streams.
StreamType ==
  /\ exists \in BOOLEAN /\ next \in Nat \ {0} /\ count \in Nat /\ overtaken \in 0..1
  /\ backlog \in Seq(Message)
  /\ sending \in [Publisher -> SUBSET [message : Message, channel : Nat]]
  /\ replay \in [Client -> Seq(Message)] /\ inbox \in [Client -> Seq(Message)]
  /\ since \in [Client -> Nat \cup {NoVersion}]
  /\ owed \in [Client -> SUBSET Nat]

\* q holds consecutive messages up to version top, and call off + v of publish
\* was stamped with version v.
Line(q, off, top) ==
  \A i \in 1..Len(q) : q[i].version + Len(q) = top + i /\ q[i].id = q[i].version + off

\* Versions up to k have been sent, the later ones are with their publishers.
Unsent(off, k) ==
  /\ \A p \in Publisher : \A s \in sending[p] :
       /\ s.channel = 1 /\ s.message.id = s.message.version + off
       /\ k < s.message.version /\ s.message.version < next
       /\ \A t \in sending[p] : t = s
  /\ \A v \in Nat : k < v /\ v < next => \E p \in Publisher : \E s \in sending[p] : s.message.version = v
  /\ \A p, q \in Publisher : \A s \in sending[p], t \in sending[q] :
       s.message.version = t.message.version => p = q

\* What client c has: nothing is owed to it that it is past, its receiver ends
\* with the last message sent, what is replayed to it follows what it processed,
\* and if it is live, replay, receiver and publishers hold all it is owed.
Fed(c, off, k) ==
  /\ \A i \in owed[c] : off < i /\ i <= count
  /\ since[c] # NoVersion => since[c] < next /\ \A i \in owed[c] : since[c] + off < i
  /\ Attached(c) => Line(inbox[c], off, k) /\ Len(inbox[c]) <= Capacity
  /\ replay[c] # <<>> =>
       /\ pc[c] = "Live" /\ since[c] # NoVersion /\ since[c] + Len(replay[c]) < next
       /\ Line(replay[c], off, since[c] + Len(replay[c]))
  /\ pc[c] = "Live" => \A i \in owed[c] :
       \/ since[c] # NoVersion /\ i <= since[c] + Len(replay[c]) + off
       \/ k + off < i + Len(inbox[c])

\* Calls and versions advance together since the room was created.
Flow(off, k) ==
  /\ count + 1 = off + next /\ k < next
  /\ Line(backlog, off, next - 1)
  /\ Unsent(off, k)
  /\ \A c \in Client : Fed(c, off, k)

\* Nothing has happened in a room that was never created.
Fresh ==
  /\ ~exists
  /\ \A p \in Publisher : sending[p] = {}
  /\ \A c \in Client : since[c] = NoVersion /\ owed[c] = {} /\ replay[c] = <<>>

\* While the first room lives and messages are sent in order.
StreamInv ==
  /\ gen = 0 => Fresh
  /\ gen = 1 /\ exists /\ overtaken = 0 => \E off \in Nat, k \in Nat : Flow(off, k)

-----------------------------------------------------------------------------
(* Sequences of messages *)

LEMMA VersionType == \A m \in Message : m.version \in Nat /\ m.id \in Nat
BY DEF Message

\* The end of a sequence: pop_front until n messages are left.
LEMMA LastNProps ==
  ASSUME NEW q \in Seq(Message), NEW n \in Nat
  PROVE  /\ LastN(q, n) \in Seq(Message)
         /\ Len(LastN(q, n)) = IF Len(q) > n THEN n ELSE Len(q)
         /\ \A i \in 1..Len(LastN(q, n)) : LastN(q, n)[i] = q[Len(q) - Len(LastN(q, n)) + i]
<1> DEFINE l == Len(q)
           a == IF l > n THEN l - n + 1 ELSE 1
           r == SubSeq(q, a, l)
           h == IF l > n THEN n ELSE l
<1>1. l \in Nat
  BY LenProperties
<1>2. LastN(q, n) = r
  BY DEF LastN
<1>3. /\ a \in Int /\ l \in Int
      /\ \A i \in a..l : i \in 1..l
      /\ (IF a <= l THEN l - a + 1 ELSE 0) = h
      /\ l - a + 1 = h
      /\ \A i \in Int : a + i - 1 = l - (l - a + 1) + i
  <2>1. a = (IF l > n THEN l - n + 1 ELSE 1) /\ h = IF l > n THEN n ELSE l
    OBVIOUS
  <2> HIDE DEF l, a, h
  <2> QED BY SMT, <1>1, <2>1
<1>4. \A i \in a..l : q[i] \in Message
  BY <1>3, ElementOfSeq
<1> HIDE DEF a
<1>5. /\ r \in Seq(Message)
      /\ Len(r) = IF a <= l THEN l - a + 1 ELSE 0
      /\ \A i \in 1..(l - a + 1) : r[i] = q[a + i - 1]
  <2>1. a \in Int /\ l \in Int
    BY <1>3
  <2> HIDE DEF l
  <2> QED BY SMT, <2>1, <1>4, SubSeqProperties DEF r
<1>6. Len(r) = h
  BY <1>3, <1>5
<1>7. \A i \in 1..Len(r) : i \in 1..(l - a + 1) /\ i \in Int
  <2>1. \A i \in 1..h : i \in Int
    BY SMT
  <2> QED BY <1>3, <1>6, <2>1
<1>8. \A i \in 1..Len(r) : r[i] = q[l - Len(r) + i]
  BY <1>3, <1>5, <1>6, <1>7
<1> QED BY <1>2, <1>5, <1>6, <1>8

LEMMA LineArith ==
  ASSUME NEW l \in Nat, NEW r \in Nat, NEW top \in Nat, NEW i \in 1..r, r <= l
  PROVE  l - r + i \in 1..l
BY SMT

\* One end of consecutive messages is made of consecutive messages.
LEMMA LastNLine ==
  ASSUME NEW q \in Seq(Message), NEW n \in Nat, NEW off \in Nat, NEW top \in Nat, Line(q, off, top)
  PROVE  Line(LastN(q, n), off, top)
<1> DEFINE r == LastN(q, n)
<1>1. /\ r \in Seq(Message) /\ Len(r) \in Nat /\ Len(q) \in Nat
      /\ Len(r) = IF Len(q) > n THEN n ELSE Len(q)
      /\ \A i \in 1..Len(r) : r[i] = q[Len(q) - Len(r) + i]
  BY LastNProps, LenProperties
<1>2. Len(r) <= Len(q)
  <2>1. ASSUME NEW x \in Nat PROVE (IF x > n THEN n ELSE x) <= x
    BY SMT
  <2> QED BY <1>1, <2>1
<1> HIDE DEF r
<1>3. ASSUME NEW i \in 1..Len(r) PROVE r[i].version + Len(r) = top + i /\ r[i].id = r[i].version + off
  <2> DEFINE j == Len(q) - Len(r) + i
  <2>1. j \in 1..Len(q) /\ r[i] = q[j]
    BY <1>1, <1>2, LineArith
  <2>2. q[j].version + Len(q) = top + j /\ q[j].id = q[j].version + off
    BY <2>1 DEF Line
  <2>3. q[j] \in Message
    BY <2>1, ElementOfSeq
  <2>4. q[j].version \in Nat
    BY <2>3 DEF Message
  <2>5. q[j].version + Len(r) = top + i
    <3> DEFINE v == q[j].version
               x == Len(q)
               y == Len(r)
    <3>1. v \in Nat /\ x \in Nat /\ y \in Nat /\ i \in 1..y /\ v + x = top + (x - y + i)
      BY <1>1, <2>2, <2>4
    <3> HIDE DEF v, x, y
    <3>2. v + y = top + i
      BY SMT, <3>1
    <3> QED BY <3>2 DEF v, y
  <2> QED BY <2>1, <2>2, <2>5
<1> QED BY <1>3 DEF Line, r

LEMMA AppendArith ==
  ASSUME NEW l \in Nat, NEW top \in Nat, NEW i \in 1..(l + 1)
  PROVE  /\ i # l + 1 => i \in 1..l
         /\ (top + 1) + (l + 1) = top + 1 + (l + 1)
BY SMT

\* The next message at the end of a line.
LEMMA AppendLine ==
  ASSUME NEW q \in Seq(Message), NEW m \in Message, NEW off \in Nat, NEW top \in Nat,
         Line(q, off, top), m.version = top + 1, m.id = m.version + off
  PROVE  Append(q, m) \in Seq(Message) /\ Line(Append(q, m), off, top + 1)
<1> DEFINE r == Append(q, m)
<1>1. /\ r \in Seq(Message) /\ Len(r) = Len(q) + 1 /\ Len(q) \in Nat
      /\ \A i \in 1..Len(q) : r[i] = q[i]
      /\ r[Len(q) + 1] = m
  <2>1. Len(q) \in Nat
    BY LenProperties
  <2>2. /\ r \in Seq(Message) /\ Len(r) = Len(q) + 1
        /\ \A i \in 1..Len(q) : r[i] = q[i]
        /\ r[Len(q) + 1] = m
    BY SMT, AppendProperties
  <2> QED BY <2>1, <2>2
<1> HIDE DEF r
<1>2. ASSUME NEW i \in 1..Len(r)
      PROVE  r[i].version + Len(r) = top + 1 + i /\ r[i].id = r[i].version + off
  <2>1. CASE i = Len(q) + 1
    BY <1>1, <2>1, AppendArith
  <2>2. CASE i # Len(q) + 1
    <3>1. i \in 1..Len(q) /\ r[i] = q[i]
      BY <1>1, <2>2, AppendArith
    <3>2. q[i].version + Len(q) = top + i /\ q[i].id = q[i].version + off
      BY <3>1 DEF Line
    <3>3. q[i] \in Message
      BY <3>1, ElementOfSeq
    <3>4. q[i].version \in Nat
      BY <3>3 DEF Message
    <3>5. q[i].version + (Len(q) + 1) = top + 1 + i
      <4> DEFINE v == q[i].version
                 x == Len(q)
      <4>1. v \in Nat /\ x \in Nat /\ i \in 1..x /\ v + x = top + i
        BY <1>1, <3>1, <3>2, <3>4
      <4> HIDE DEF v, x
      <4>2. v + (x + 1) = top + 1 + i
        BY SMT, <4>1
      <4> QED BY <4>2 DEF v, x
    <3> QED BY <1>1, <3>1, <3>2, <3>5
  <2> QED BY <2>1, <2>2
<1> QED BY <1>1, <1>2 DEF Line, r

LEMMA TailArith ==
  ASSUME NEW l \in Nat \ {0}
  PROVE  /\ 1 \in 1..l /\ l > 0
         /\ \A i \in 1..(l - 1) : i + 1 \in 1..l
BY SMT

LEMMA TailStep ==
  ASSUME NEW l \in Nat \ {0}, NEW top \in Nat, NEW i \in 1..(l - 1), NEW v \in Nat,
         v + l = top + (i + 1)
  PROVE  v + (l - 1) = top + i
BY SMT

\* The first message of a line, and the rest of it.
LEMMA HeadLine ==
  ASSUME NEW q \in Seq(Message), q # <<>>, NEW off \in Nat, NEW top \in Nat, Line(q, off, top)
  PROVE  /\ Tail(q) \in Seq(Message) /\ Line(Tail(q), off, top) /\ Len(Tail(q)) = Len(q) - 1
         /\ Head(q) \in Message /\ Head(q).version + Len(q) = top + 1
         /\ Head(q).id = Head(q).version + off /\ Len(q) > 0
<1>1. /\ Len(q) \in Nat \ {0} /\ Head(q) = q[1] /\ Head(q) \in Message
      /\ Tail(q) \in Seq(Message) /\ Len(Tail(q)) = Len(q) - 1
      /\ \A i \in 1..Len(Tail(q)) : Tail(q)[i] = q[i + 1]
  <2>1. Head(q) = q[1]
    BY SMT
  <2>2. Len(q) \in Nat \ {0}
    BY EmptySeq
  <2>3. /\ Head(q) \in Message /\ Tail(q) \in Seq(Message) /\ Len(Tail(q)) = Len(q) - 1
        /\ \A i \in 1..Len(Tail(q)) : Tail(q)[i] = q[i + 1]
    BY HeadTailProperties
  <2> QED BY <2>1, <2>2, <2>3
<1>2. Head(q).version + Len(q) = top + 1 /\ Head(q).id = Head(q).version + off
  <2>1. 1 \in 1..Len(q)
    BY <1>1, TailArith
  <2> QED BY <1>1, <2>1 DEF Line
<1>3. ASSUME NEW i \in 1..Len(Tail(q))
      PROVE  /\ Tail(q)[i].version + Len(Tail(q)) = top + i
             /\ Tail(q)[i].id = Tail(q)[i].version + off
  <2>1. i + 1 \in 1..Len(q)
    BY <1>1, TailArith
  <2>2. q[i + 1].version + Len(q) = top + (i + 1) /\ q[i + 1].id = q[i + 1].version + off
    BY <2>1 DEF Line
  <2>3. q[i + 1] \in Message
    BY <2>1, ElementOfSeq
  <2>4. q[i + 1].version \in Nat
    BY <2>3 DEF Message
  <2>5. Tail(q)[i] = q[i + 1]
    BY <1>1
  <2>6. i \in 1..(Len(q) - 1)
    BY <1>1
  <2>7. q[i + 1].version + (Len(q) - 1) = top + i
    BY SMT, <1>1, <2>2, <2>4, <2>6, TailStep
  <2> QED BY <1>1, <2>2, <2>5, <2>7
<1> QED BY <1>1, <1>2, <1>3, TailArith DEF Line

-----------------------------------------------------------------------------
(* What subscribe_since replays *)

\* The retained messages after the version the client asks for are all those
\* stamped since, if the first retained one is not later than the next.
LEMMA MissedLine ==
  ASSUME NEW c \in Client, NEW off \in Nat, NEW n \in Nat \ {0}, n = next,
         backlog \in Seq(Message), Line(backlog, off, n - 1), since[c] \in Nat, since[c] < n,
         IF backlog = <<>> THEN n = 1 ELSE backlog[1].version <= since[c] + 1
  PROVE  /\ Missed(c) \in Seq(Message) /\ Line(Missed(c), off, n - 1)
         /\ Len(Missed(c)) = n - 1 - since[c]
<1> DEFINE l == Len(backlog)
           s == since[c]
           S == {i \in DOMAIN backlog : backlog[i].version > s}
           T == (s + l - n + 2)..l
<1>1. l \in Nat /\ DOMAIN backlog = 1..l /\ s \in Nat /\ s < n
  BY LenProperties
<1>2. s + l - n + 1 >= 0
  <2>1. CASE backlog = <<>>
    <3>1. l = 0 /\ n = 1
      BY <2>1, EmptySeq
    <3> HIDE DEF l, s
    <3> QED BY SMT, <1>1, <3>1
  <2>2. CASE backlog # <<>>
    <3> DEFINE v == backlog[1].version
    <3>1. l \in Nat \ {0}
      BY <2>2, EmptySeq
    <3>2. 1 \in 1..l
      <4> HIDE DEF l
      <4> QED BY SMT, <3>1
    <3>3. backlog[1] \in Message /\ v + l = n - 1 + 1 /\ v <= s + 1
      BY <2>2, <3>2, ElementOfSeq DEF Line
    <3>4. v \in Nat
      BY <3>3, VersionType
    <3> HIDE DEF l, v, s
    <3> QED BY SMT, <1>1, <3>3, <3>4
  <2> QED BY <2>1, <2>2
<1>3. ASSUME NEW i \in 1..l PROVE backlog[i].version > s <=> i \in T
  <2> DEFINE v == backlog[i].version
  <2>1. backlog[i] \in Message /\ v + l = n - 1 + i
    BY ElementOfSeq DEF Line
  <2>2. v \in Nat
    BY <2>1, VersionType
  <2> HIDE DEF v, l, s
  <2>3. v > s <=> i \in (s + l - n + 2)..l
    BY SMT, <1>1, <2>1, <2>2
  <2> QED BY <2>3 DEF T, v
<1>4. \A i \in T : i \in 1..l
  <2> HIDE DEF l, s
  <2> QED BY SMT, <1>1, <1>2
<1>5. S = T
  <2> HIDE DEF T, l, s
  <2> QED BY <1>1, <1>3, <1>4 DEF S
<1>6. /\ s + l - n + 2 \in Int /\ l \in Int
      /\ (IF s + l - n + 2 > l THEN 0 ELSE l - (s + l - n + 2) + 1) = n - 1 - s
      /\ n - 1 - s \in Nat /\ n - 1 - s <= l /\ n - 1 \in Nat
  <2> HIDE DEF l, s
  <2> QED BY SMT, <1>1, <1>2
<1>7. Cardinality(S) = n - 1 - s
  <2> HIDE DEF l, s
  <2> QED BY <1>5, <1>6, FS_Interval
<1>8. Missed(c) = LastN(backlog, n - 1 - s)
  BY <1>7 DEF Missed, After
<1> DEFINE h == n - 1 - s
<1>9. h \in Nat /\ h <= l /\ n - 1 \in Nat
  BY <1>6
<1> HIDE DEF h
<1>10. /\ LastN(backlog, h) \in Seq(Message)
       /\ Len(LastN(backlog, h)) = IF Len(backlog) > h THEN h ELSE Len(backlog)
  BY <1>9, LastNProps
<1>11. Line(LastN(backlog, h), off, n - 1)
  BY <1>9, LastNLine
<1>12. (IF l > h THEN h ELSE l) = h
  <2> HIDE DEF l
  <2> QED BY SMT, <1>1, <1>9
<1> QED BY <1>8, <1>10, <1>11, <1>12 DEF h

-----------------------------------------------------------------------------
(* Types *)

LEMMA StreamTypes ==
  ASSUME StreamType
  PROVE  /\ next \in Nat \ {0} /\ count \in Nat /\ overtaken \in 0..1 /\ backlog \in Seq(Message)
         /\ \A p \in Publisher : \A s \in sending[p] :
              /\ s.message \in Message /\ s.message.version \in Nat /\ s.message.id \in Nat
              /\ s.channel \in Nat
         /\ \A c \in Client :
              /\ replay[c] \in Seq(Message) /\ Len(replay[c]) \in Nat
              /\ inbox[c] \in Seq(Message) /\ Len(inbox[c]) \in Nat
              /\ since[c] \in Nat \cup {NoVersion}
              /\ \A i \in owed[c] : i \in Nat
<1>1. ASSUME NEW p \in Publisher, NEW s \in sending[p]
      PROVE  /\ s.message \in Message /\ s.message.version \in Nat /\ s.message.id \in Nat
             /\ s.channel \in Nat
  <2>1. sending[p] \in SUBSET [message : Message, channel : Nat]
    BY DEF StreamType
  <2>2. s \in [message : Message, channel : Nat]
    BY <2>1
  <2>3. s.message \in Message /\ s.channel \in Nat
    BY <2>2
  <2> QED BY <2>3, VersionType
<1>2. ASSUME NEW c \in Client
      PROVE  /\ replay[c] \in Seq(Message) /\ Len(replay[c]) \in Nat
             /\ inbox[c] \in Seq(Message) /\ Len(inbox[c]) \in Nat
             /\ since[c] \in Nat \cup {NoVersion}
             /\ \A i \in owed[c] : i \in Nat
  <2>1. /\ replay[c] \in Seq(Message) /\ inbox[c] \in Seq(Message)
        /\ since[c] \in Nat \cup {NoVersion} /\ owed[c] \in SUBSET Nat
    BY DEF StreamType
  <2> QED BY <2>1, LenProperties
<1> QED BY <1>1, <1>2 DEF StreamType

LEMMA InitStreamType == Init => StreamType
<1> SUFFICES ASSUME Init PROVE StreamType
  OBVIOUS
<1>1. <<>> \in Seq(Message)
  BY EmptySeq
<1>2. /\ replay \in [Client -> Seq(Message)] /\ inbox \in [Client -> Seq(Message)]
      /\ backlog \in Seq(Message)
  BY <1>1 DEF Init
<1>3. /\ sending \in [Publisher -> SUBSET [message : Message, channel : Nat]]
      /\ since \in [Client -> Nat \cup {NoVersion}]
      /\ owed \in [Client -> SUBSET Nat]
  BY DEF Init
<1>4. exists = FALSE /\ next = 1 /\ count = 0 /\ overtaken = 0
  BY DEF Init
<1>5. 1 \in Nat \ {0} /\ 0 \in Nat /\ 0 \in 0..1
  BY SMT
<1> QED BY <1>2, <1>3, <1>4, <1>5 DEF StreamType

\* The end of a line with one more message.
LEMMA PushType ==
  ASSUME NEW q \in Seq(Message), NEW m \in Message, NEW n \in Nat
  PROVE  LastN(Append(q, m), n) \in Seq(Message)
<1>1. Append(q, m) \in Seq(Message)
  BY AppendProperties
<1> QED BY <1>1, LastNProps

LEMMA TailType ==
  ASSUME NEW q \in Seq(Message), q # <<>>
  PROVE  Tail(q) \in Seq(Message) /\ Head(q).version \in Nat
<1>1. Tail(q) \in Seq(Message) /\ Head(q) \in Message
  BY HeadTailProperties
<1> QED BY <1>1, VersionType

LEMMA MissedType ==
  ASSUME backlog \in Seq(Message), NEW c \in Client
  PROVE  Missed(c) \in Seq(Message)
<1> DEFINE S == {i \in DOMAIN backlog : backlog[i].version > since[c]}
<1>1. DOMAIN backlog = 1..Len(backlog) /\ Len(backlog) \in Int /\ 1 \in Int
  BY SMT, LenProperties
<1>2. IsFiniteSet(DOMAIN backlog)
  BY <1>1, FS_Interval
<1>3. S \subseteq DOMAIN backlog
  OBVIOUS
<1>4. IsFiniteSet(S)
  BY <1>2, <1>3, FS_Subset
<1>5. Cardinality(S) \in Nat
  BY <1>4, FS_CardinalityType
<1> QED BY <1>5, LastNProps DEF Missed, After

LEMMA StampType ==
  ASSUME StreamType, HubType, NEW p \in Publisher, StampAndRetain(p)
  PROVE  StreamType'
<1> DEFINE m == [id |-> count + 1, version |-> IF exists THEN next ELSE 0]
<1>0. /\ next \in Nat \ {0} /\ count \in Nat /\ overtaken \in 0..1 /\ backlog \in Seq(Message)
      /\ owed \in [Client -> SUBSET Nat] /\ gen \in Nat /\ exists \in BOOLEAN
      /\ sending \in [Publisher -> SUBSET [message : Message, channel : Nat]]
  BY DEF StreamType, HubType
<1>1. m \in Message /\ m.id \in Nat
  BY SMT, <1>0 DEF Message
<1>2. /\ count' = count + 1
      /\ owed' = [c \in Client |-> IF Follows(c) THEN owed[c] \cup {m.id} ELSE owed[c]]
      /\ UNCHANGED <<exists, overtaken, replay, inbox, since>>
      /\ \/ /\ next' = next + 1
            /\ \E n \in Keep : backlog' = LastN(Append(backlog, m), n)
            /\ sending' = [sending EXCEPT ![p] = {[message |-> m, channel |-> gen]}]
         \/ UNCHANGED <<next, backlog, sending>>
  BY DEF StampAndRetain, client, Stamp
<1> HIDE DEF m
<1>3. owed' \in [Client -> SUBSET Nat]
  BY <1>0, <1>1, <1>2
<1>4. count' \in Nat
  BY SMT, <1>0, <1>2
<1>5. Keep \subseteq Nat
  BY SMT, HubAssumption DEF Keep
<1>6. next' \in Nat \ {0}
  BY SMT, <1>0, <1>2
<1>7. backlog' \in Seq(Message)
  <2>1. \A n \in Keep : LastN(Append(backlog, m), n) \in Seq(Message)
    BY <1>0, <1>1, <1>5, PushType
  <2> QED BY <1>0, <1>2, <2>1
<1>8. sending' \in [Publisher -> SUBSET [message : Message, channel : Nat]]
  <2>1. {[message |-> m, channel |-> gen]} \in SUBSET [message : Message, channel : Nat]
    BY SMT, <1>0, <1>1
  <2> QED BY <2>1, <1>0, <1>2
<1> QED BY <1>2, <1>3, <1>4, <1>6, <1>7, <1>8 DEF StreamType

LEMMA SendType ==
  ASSUME StreamType, NEW p \in Publisher, Send(p)
  PROVE  StreamType'
<1>0. /\ owed \in [Client -> SUBSET Nat] /\ overtaken \in 0..1
      /\ inbox \in [Client -> Seq(Message)]
      /\ sending \in [Publisher -> SUBSET [message : Message, channel : Nat]]
  BY DEF StreamType
<1>1. PICK s \in sending[p] :
        LET reached == {c \in Client : Attached(c) /\ channel[c] = s.channel}
            lagging == {c \in reached : Len(inbox[c]) = Capacity}
        IN
        /\ sending' = [sending EXCEPT ![p] = {}]
        /\ inbox' = [c \in Client |-> IF c \in reached
                                        THEN LastN(Append(inbox[c], s.message), Capacity)
                                        ELSE inbox[c]]
        /\ owed' = [c \in Client |-> IF c \in lagging THEN owed[c] \ {Head(inbox[c]).id} ELSE owed[c]]
        /\ overtaken' = IF \E q \in Publisher : \E t \in sending[q] : t.message.id < s.message.id
                         THEN 1 ELSE overtaken
        /\ UNCHANGED <<room, count, replay, since>>
  BY DEF Send
<1>2. s.message \in Message
  BY StreamTypes
<1>3. \A q \in Seq(Message) : LastN(Append(q, s.message), Capacity) \in Seq(Message)
  BY <1>2, PushType, HubAssumption, Capacity \in Nat
<1>4. inbox' \in [Client -> Seq(Message)]
  BY <1>0, <1>1, <1>3
<1>5. owed' \in [Client -> SUBSET Nat]
  BY <1>0, <1>1
<1>6. overtaken' \in 0..1
  BY SMT, <1>0, <1>1
<1>7. sending' \in [Publisher -> SUBSET [message : Message, channel : Nat]]
  BY <1>0, <1>1
<1>8. UNCHANGED <<exists, next, backlog, count, replay, since>>
  BY <1>1 DEF room
<1> QED BY <1>4, <1>5, <1>6, <1>7, <1>8 DEF StreamType

LEMMA ReceiveType ==
  ASSUME StreamType, NEW c \in Client, Receive(c)
  PROVE  StreamType'
<1> DEFINE q == IF replay[c] # <<>> THEN replay[c] ELSE inbox[c]
<1>0. /\ owed \in [Client -> SUBSET Nat] /\ since \in [Client -> Nat \cup {NoVersion}]
      /\ replay \in [Client -> Seq(Message)] /\ inbox \in [Client -> Seq(Message)]
  BY DEF StreamType
<1>1. /\ q # <<>> /\ q \in Seq(Message)
      /\ since' = [since EXCEPT ![c] = Later(since[c], Head(q).version)]
      /\ owed' = [owed EXCEPT ![c] = owed[c] \ {Head(q).id}]
      /\ \/ replay[c] # <<>> /\ replay' = [replay EXCEPT ![c] = Tail(replay[c])] /\ UNCHANGED inbox
         \/ /\ inbox[c] # <<>>
            /\ inbox' = [inbox EXCEPT ![c] = Tail(inbox[c])] /\ UNCHANGED replay
      /\ UNCHANGED <<exists, next, backlog, count, sending, overtaken>>
  BY <1>0 DEF Receive, room
<1>2. Head(q).version \in Nat
  BY <1>1, TailType
<1> HIDE DEF q
<1>3. Later(since[c], Head(q).version) \in Nat \cup {NoVersion}
  BY <1>0, <1>2 DEF Later
<1>4. since' \in [Client -> Nat \cup {NoVersion}]
  BY <1>0, <1>1, <1>3
<1>5. owed' \in [Client -> SUBSET Nat]
  BY <1>0, <1>1
<1>6. replay' \in [Client -> Seq(Message)] /\ inbox' \in [Client -> Seq(Message)]
  <2>1. replay[c] # <<>> => Tail(replay[c]) \in Seq(Message)
    BY <1>0, TailType
  <2>2. inbox[c] # <<>> => Tail(inbox[c]) \in Seq(Message)
    BY <1>0, TailType
  <2> QED BY <1>0, <1>1, <2>1, <2>2
<1> QED BY <1>1, <1>4, <1>5, <1>6 DEF StreamType

LEMMA NextStreamType == HubType /\ StreamType /\ [Next]_vars => StreamType'
<1> SUFFICES ASSUME HubType, StreamType, [Next]_vars PROVE StreamType'
  OBVIOUS
<1>1. <<>> \in Seq(Message)
  BY EmptySeq
<1>2. ASSUME UNCHANGED <<exists, next, backlog, count, sending, overtaken, replay, inbox, since, owed>>
      PROVE  StreamType'
  BY <1>2 DEF StreamType
<1>3. ASSUME NEW c \in Client, Arrive(c) \/ Look(c) \/ Count(c) PROVE StreamType'
  BY <1>2, <1>3 DEF Arrive, Look, Count, room
<1>4. ASSUME NEW c \in Client, Register(c) PROVE StreamType'
  <2>1. /\ inbox' = [inbox EXCEPT ![c] = <<>>]
        /\ UNCHANGED <<count, sending, replay, since, owed, overtaken>>
        /\ \/ UNCHANGED <<exists, next, backlog>>
           \/ exists' = TRUE /\ next' = 1 /\ backlog' = <<>>
    BY <1>4 DEF Register
  <2>2. inbox' \in [Client -> Seq(Message)]
    BY <1>1, <2>1 DEF StreamType
  <2>3. next' \in Nat \ {0} /\ exists' \in BOOLEAN /\ backlog' \in Seq(Message)
    <3>1. 1 \in Nat \ {0}
      BY SMT
    <3> QED BY <1>1, <2>1, <3>1 DEF StreamType
  <2> QED BY <2>1, <2>2, <2>3 DEF StreamType
<1>5. ASSUME NEW c \in Client, Resume(c) PROVE StreamType'
  <2>1. /\ UNCHANGED <<exists, next, backlog, count, sending, inbox, since, overtaken>>
        /\ \/ replay' = [replay EXCEPT ![c] = Missed(c)] /\ UNCHANGED owed
           \/ owed' = [owed EXCEPT ![c] = {}] /\ UNCHANGED replay
    BY <1>5 DEF Resume, room
  <2>2. Missed(c) \in Seq(Message)
    BY StreamTypes, MissedType
  <2>3. replay' \in [Client -> Seq(Message)]
    BY <2>1, <2>2 DEF StreamType
  <2>4. owed' \in [Client -> SUBSET Nat]
    BY <2>1 DEF StreamType
  <2> QED BY <2>1, <2>3, <2>4 DEF StreamType
<1>6. ASSUME NEW c \in Client, Leave(c) PROVE StreamType'
  <2>1. /\ UNCHANGED <<exists, next, backlog, count, sending, since, overtaken>>
        /\ replay' = [replay EXCEPT ![c] = <<>>] /\ inbox' = [inbox EXCEPT ![c] = <<>>]
        /\ owed' = [owed EXCEPT ![c] = IF since[c] = NoVersion THEN {} ELSE owed[c]]
    BY <1>6 DEF Leave
  <2>2. replay' \in [Client -> Seq(Message)] /\ inbox' \in [Client -> Seq(Message)]
    BY <1>1, <2>1 DEF StreamType
  <2>3. owed' \in [Client -> SUBSET Nat]
    BY <2>1 DEF StreamType
  <2> QED BY <2>1, <2>2, <2>3 DEF StreamType
<1>7. ASSUME NEW c \in Client, Collect(c) PROVE StreamType'
  <2>1. /\ UNCHANGED <<count, sending, replay, inbox, since, owed, overtaken>>
        /\ \/ UNCHANGED <<exists, next, backlog>>
           \/ exists' = FALSE /\ next' = 1 /\ backlog' = <<>>
    BY <1>7 DEF Collect
  <2>2. 1 \in Nat \ {0}
    BY SMT
  <2> QED BY <1>1, <2>1, <2>2 DEF StreamType
<1>8. ASSUME StrangerCounted \/ StrangerEnters \/ StrangerLeaves PROVE StreamType'
  BY <1>2, <1>8 DEF StrangerCounted, StrangerEnters, StrangerLeaves, room, client
<1>9. CASE UNCHANGED vars
  BY <1>2, <1>9 DEF vars, room, client
<1> QED BY <1>3, <1>4, <1>5, <1>6, <1>7, <1>8, <1>9, StampType, SendType, ReceiveType DEF Next

-----------------------------------------------------------------------------
(* What each client has *)

\* A client that nothing happens to.
LEMMA FedSame ==
  ASSUME StreamType, StreamType', NEW c \in Client, NEW off \in Nat, NEW k \in Nat, Fed(c, off, k),
         count <= count', next <= next',
         pc'[c] = pc[c], replay'[c] = replay[c], inbox'[c] = inbox[c], since'[c] = since[c],
         owed'[c] = owed[c]
  PROVE  Fed(c, off, k)'
<1>1. /\ next \in Nat /\ next' \in Nat /\ count \in Nat /\ count' \in Nat
      /\ \A i \in owed[c] : i \in Nat
      /\ since[c] # NoVersion => since[c] \in Nat
      /\ Len(replay[c]) \in Nat
  <2>1. next' \in Nat \ {0} /\ count' \in Nat
    BY DEF StreamType
  <2> QED BY <2>1, StreamTypes
<1>2. \A i \in owed[c] : off < i /\ i <= count'
  <2>1. \A i \in owed[c] : off < i /\ i <= count
    BY DEF Fed
  <2> QED BY SMT, <1>1, <2>1
<1>3. since[c] # NoVersion => since[c] < next' /\ \A i \in owed[c] : since[c] + off < i
  <2>1. since[c] # NoVersion => since[c] < next /\ \A i \in owed[c] : since[c] + off < i
    BY DEF Fed
  <2> QED BY SMT, <1>1, <2>1
<1>4. replay[c] # <<>> =>
        /\ pc[c] = "Live" /\ since[c] # NoVersion /\ since[c] + Len(replay[c]) < next'
        /\ Line(replay[c], off, since[c] + Len(replay[c]))
  <2>1. replay[c] # <<>> =>
          /\ pc[c] = "Live" /\ since[c] # NoVersion /\ since[c] + Len(replay[c]) < next
          /\ Line(replay[c], off, since[c] + Len(replay[c]))
    BY DEF Fed
  <2>2. ASSUME NEW x \in Nat, x < next PROVE x < next'
    BY SMT, <1>1, <2>2
  <2>3. ASSUME replay[c] # <<>> PROVE since[c] + Len(replay[c]) \in Nat
    BY SMT, <1>1, <2>1, <2>3
  <2> QED BY <2>1, <2>2, <2>3
<1>5. Attached(c)' <=> Attached(c)
  BY DEF Attached
<1>6. Attached(c)' => Line(inbox'[c], off, k) /\ Len(inbox'[c]) <= Capacity
  BY <1>5 DEF Fed
<1>7. pc[c] = "Live" => \A i \in owed[c] :
        \/ since[c] # NoVersion /\ i <= since[c] + Len(replay[c]) + off
        \/ k + off < i + Len(inbox[c])
  BY DEF Fed
<1> QED BY <1>2, <1>3, <1>4, <1>6, <1>7 DEF Fed

\* A client that is not in the room and has not lost what it knows.
LEMMA FedOutside ==
  ASSUME NEW c \in Client, NEW off \in Nat, NEW k \in Nat, Fed(c, off, k),
         UNCHANGED <<count, next>>, ~Attached(c)', replay'[c] = <<>>, since'[c] = since[c],
         owed'[c] \subseteq owed[c]
  PROVE  Fed(c, off, k)'
<1>1. pc'[c] # "Live"
  BY DEF Attached
<1>2. \A i \in owed'[c] : off < i /\ i <= count
  BY DEF Fed
<1>3. since'[c] # NoVersion => since'[c] < next /\ \A i \in owed'[c] : since'[c] + off < i
  BY DEF Fed
<1> QED BY <1>1, <1>2, <1>3 DEF Fed

\* One client moves, and no message is stamped or sent.
LEMMA FlowClient ==
  ASSUME StreamType, StreamType', NEW off \in Nat, NEW k \in Nat, Flow(off, k), NEW c \in Client,
         UNCHANGED <<next, count, backlog, sending>>,
         Fed(c, off, k)',
         \A d \in Client \ {c} :
           /\ pc'[d] = pc[d] /\ replay'[d] = replay[d] /\ inbox'[d] = inbox[d]
           /\ since'[d] = since[d] /\ owed'[d] = owed[d]
  PROVE  Flow(off, k)'
<1>1. count <= count' /\ next <= next'
  <2>1. count \in Nat /\ next \in Nat
    BY StreamTypes
  <2> QED BY SMT, <2>1
<1>2. ASSUME NEW d \in Client PROVE Fed(d, off, k)'
  <2>1. CASE d = c
    BY <2>1
  <2>2. CASE d # c
    <3>1. Fed(d, off, k)
      BY DEF Flow
    <3>2. /\ pc'[d] = pc[d] /\ replay'[d] = replay[d] /\ inbox'[d] = inbox[d]
          /\ since'[d] = since[d] /\ owed'[d] = owed[d]
      BY <2>2
    <3> QED BY <1>1, <3>1, <3>2, FedSame
  <2> QED BY <2>1, <2>2
<1>3. Unsent(off, k)'
  <2>1. Unsent(off, k) /\ sending' = sending /\ next' = next
    BY DEF Flow
  <2> QED BY SMT, <2>1 DEF Unsent
<1>4. Line(backlog', off, next' - 1)
  BY DEF Flow
<1>5. count' + 1 = off + next' /\ k < next'
  BY DEF Flow
<1> QED BY <1>2, <1>3, <1>4, <1>5 DEF Flow

-----------------------------------------------------------------------------
(* The steps *)

\* Looking the room up, and what a collection leaves alone.
LEMMA OutsideFlow ==
  ASSUME StreamType, StreamType', HubType, NEW off \in Nat, NEW k \in Nat, Flow(off, k),
         NEW c \in Client, NEW l \in Steps, ~Attached(c), l \notin {"Resume", "Live"},
         pc' = [pc EXCEPT ![c] = l],
         UNCHANGED <<next, count, backlog, sending, replay, inbox, since, owed>>
  PROVE  Flow(off, k)'
<1>1. Fed(c, off, k)
  BY DEF Flow
<1>2. pc'[c] = l /\ \A d \in Client \ {c} : pc'[d] = pc[d]
  BY DEF HubType
<1>3. ~Attached(c)'
  BY <1>2 DEF Attached
<1>4. replay[c] = <<>>
  BY <1>1 DEF Fed, Attached
<1>5. Fed(c, off, k)'
  <2>1. UNCHANGED <<count, next>> /\ replay'[c] = <<>> /\ since'[c] = since[c]
        /\ owed'[c] \subseteq owed[c]
    BY <1>4
  <2> QED BY <1>1, <1>3, <2>1, FedOutside
<1>6. \A d \in Client \ {c} :
        /\ pc'[d] = pc[d] /\ replay'[d] = replay[d] /\ inbox'[d] = inbox[d]
        /\ since'[d] = since[d] /\ owed'[d] = owed[d]
  BY <1>2
<1> QED BY <1>5, <1>6, FlowClient

\* A client joins: its receiver starts with the next message that is sent.
LEMMA JoinFlow ==
  ASSUME StreamType, StreamType', HubType, NEW off \in Nat, NEW k \in Nat, Flow(off, k),
         NEW c \in Client, exists, Register(c)
  PROVE  Flow(off, k)'
<1>1. /\ pc[c] = "Register" /\ pc' = [pc EXCEPT ![c] = "Resume"]
      /\ inbox' = [inbox EXCEPT ![c] = <<>>]
      /\ UNCHANGED <<next, count, backlog, sending, replay, since, owed>>
  BY DEF Register
<1>2. pc'[c] = "Resume" /\ \A d \in Client \ {c} : pc'[d] = pc[d]
  BY <1>1 DEF HubType
<1>3. inbox'[c] = <<>> /\ \A d \in Client \ {c} : inbox'[d] = inbox[d]
  BY <1>1 DEF StreamType
<1>4. Fed(c, off, k)
  BY DEF Flow
<1>5. replay[c] = <<>>
  BY <1>1, <1>4 DEF Fed
<1>6. Line(inbox'[c], off, k) /\ Len(inbox'[c]) <= Capacity
  <2>1. Len(inbox'[c]) = 0
    BY <1>3, EmptySeq
  <2>2. \A i \in 1..0 : FALSE
    BY SMT
  <2>3. Line(inbox'[c], off, k)
    BY <2>1, <2>2 DEF Line
  <2> QED BY SMT, <2>1, <2>3, HubAssumption
<1>7. Fed(c, off, k)'
  <2>1. \A i \in owed'[c] : off < i /\ i <= count'
    BY <1>1, <1>4 DEF Fed
  <2>2. since'[c] # NoVersion => since'[c] < next' /\ \A i \in owed'[c] : since'[c] + off < i
    BY <1>1, <1>4 DEF Fed
  <2>3. replay'[c] = <<>> /\ pc'[c] # "Live"
    BY <1>1, <1>2, <1>5
  <2> QED BY <1>6, <2>1, <2>2, <2>3 DEF Fed
<1>8. \A d \in Client \ {c} :
        /\ pc'[d] = pc[d] /\ replay'[d] = replay[d] /\ inbox'[d] = inbox[d]
        /\ since'[d] = since[d] /\ owed'[d] = owed[d]
  BY <1>1, <1>2, <1>3
<1> QED BY <1>1, <1>7, <1>8, FlowClient

\* The first room is created: calls and versions are counted from here.
LEMMA CreateFlow ==
  ASSUME StreamType, StreamType', HubType, Fresh, NEW c \in Client, Register(c),
         \A d \in Client : ~Attached(d), NEW off \in Nat, off = count
  PROVE  Flow(off, 0)'
<1>1. /\ pc' = [pc EXCEPT ![c] = "Resume"]
      /\ inbox' = [inbox EXCEPT ![c] = <<>>]
      /\ next' = 1 /\ backlog' = <<>>
      /\ UNCHANGED <<count, sending, replay, since, owed>>
  BY DEF Register, Fresh
<1>2. ASSUME NEW n \in Nat PROVE Line(<<>>, off, n)
  <2>1. \A i \in 1..0 : FALSE
    BY SMT
  <2> QED BY <2>1, EmptySeq DEF Line
<1>3. pc'[c] = "Resume" /\ \A d \in Client : Attached(d)' => d = c
  BY <1>1 DEF HubType, Attached
<1>4. inbox'[c] = <<>> /\ Len(<<>>) <= Capacity
  <2>1. Len(<<>>) = 0
    BY EmptySeq
  <2>2. 0 <= Capacity
    BY SMT, HubAssumption
  <2> QED BY <1>1, <2>1, <2>2 DEF StreamType
<1>5. ASSUME NEW d \in Client PROVE Fed(d, off, 0)'
  <2>1. since'[d] = NoVersion /\ owed'[d] = {} /\ replay'[d] = <<>>
    BY <1>1 DEF Fresh
  <2>2. Attached(d)' => Line(inbox'[d], off, 0) /\ Len(inbox'[d]) <= Capacity
    BY <1>2, <1>3, <1>4, 0 \in Nat
  <2> QED BY <2>1, <2>2 DEF Fed
<1>6. Unsent(off, 0)'
  <2>1. \A v \in Nat : ~(0 < v /\ v < 1)
    BY SMT
  <2>2. \A p \in Publisher : sending'[p] = {}
    BY <1>1 DEF Fresh
  <2> QED BY <1>1, <2>1, <2>2 DEF Unsent
<1>7. count' + 1 = off + next' /\ 0 < next' /\ next' - 1 = 0
  BY SMT, <1>1
<1>8. Line(backlog', off, next' - 1)
  BY <1>1, <1>2, <1>7, 0 \in Nat
<1> QED BY <1>5, <1>6, <1>7, <1>8 DEF Flow

\* Everything retained after the version the client names is replayed to it, or
\* it is told to resynchronise.
LEMMA ResumeFlow ==
  ASSUME StreamType, StreamType', HubType, NEW off \in Nat, NEW k \in Nat, Flow(off, k),
         NEW c \in Client, Resume(c)
  PROVE  Flow(off, k)'
<1>1. /\ pc[c] = "Resume" /\ pc' = [pc EXCEPT ![c] = "Live"]
      /\ UNCHANGED <<next, count, backlog, sending, inbox, since>>
      /\ \/ Replayed(c) /\ replay' = [replay EXCEPT ![c] = Missed(c)] /\ UNCHANGED owed
         \/ owed' = [owed EXCEPT ![c] = {}] /\ UNCHANGED replay
  BY DEF Resume, room
<1>2. pc'[c] = "Live" /\ \A d \in Client \ {c} : pc'[d] = pc[d]
  BY <1>1 DEF HubType
<1>3. \A d \in Client \ {c} : replay'[d] = replay[d] /\ owed'[d] = owed[d]
  BY <1>1 DEF StreamType
<1>4. Fed(c, off, k)
  BY DEF Flow
<1>5. replay[c] = <<>> /\ Attached(c) /\ Attached(c)'
  BY <1>1, <1>2, <1>4 DEF Fed, Attached
<1>6. Line(inbox'[c], off, k) /\ Len(inbox'[c]) <= Capacity
  BY <1>1, <1>4, <1>5 DEF Fed
<1>7. ASSUME Replayed(c), replay' = [replay EXCEPT ![c] = Missed(c)], UNCHANGED owed
      PROVE  Fed(c, off, k)'
  <2>1. /\ since[c] \in Nat /\ since[c] < next /\ next \in Nat \ {0} /\ backlog \in Seq(Message)
        /\ Line(backlog, off, next - 1)
        /\ IF backlog = <<>> THEN next = 1 ELSE backlog[1].version <= since[c] + 1
    BY <1>4, <1>7, StreamTypes DEF Fed, Flow, Replayed
  <2>2. /\ Line(Missed(c), off, next - 1)
        /\ Len(Missed(c)) = next - 1 - since[c]
    BY <2>1, MissedLine
  <2>3. replay'[c] = Missed(c)
    BY <1>7 DEF StreamType
  <2>4. since[c] + Len(replay'[c]) = next - 1 /\ next - 1 < next
    BY SMT, <2>1, <2>2, <2>3
  <2>5. replay'[c] # <<>> =>
          /\ pc'[c] = "Live" /\ since'[c] # NoVersion /\ since'[c] + Len(replay'[c]) < next'
          /\ Line(replay'[c], off, since'[c] + Len(replay'[c]))
    <3>1. since[c] # NoVersion
      BY <1>7 DEF Replayed
    <3> QED BY <1>1, <1>2, <2>2, <2>3, <2>4, <3>1
  <2>6. \A i \in owed'[c] : off < i /\ i <= count'
    BY <1>1, <1>4, <1>7 DEF Fed
  <2>7. since'[c] # NoVersion => since'[c] < next' /\ \A i \in owed'[c] : since'[c] + off < i
    BY <1>1, <1>4, <1>7 DEF Fed
  <2>8. ASSUME NEW i \in owed'[c] PROVE since'[c] # NoVersion /\ i <= since'[c] + Len(replay'[c]) + off
    <3>1. since[c] # NoVersion /\ i <= count /\ count + 1 = off + next
      BY <1>1, <1>7, <2>6 DEF Replayed, Flow
    <3>2. i \in Nat /\ count \in Nat
      BY <1>7, StreamTypes
    <3>3. i <= (next - 1) + off
      BY SMT, <2>1, <3>1, <3>2
    <3> QED BY <1>1, <2>4, <3>1, <3>3
  <2> QED BY <1>6, <2>5, <2>6, <2>7, <2>8 DEF Fed
<1>8. ASSUME owed' = [owed EXCEPT ![c] = {}], UNCHANGED replay
      PROVE  Fed(c, off, k)'
  <2>1. owed'[c] = {} /\ replay'[c] = <<>>
    BY <1>5, <1>8 DEF StreamType
  <2>2. since'[c] # NoVersion => since'[c] < next'
    BY <1>1, <1>4 DEF Fed
  <2> QED BY <1>6, <2>1, <2>2 DEF Fed
<1>9. Fed(c, off, k)'
  BY <1>1, <1>7, <1>8
<1>10. \A d \in Client \ {c} :
        /\ pc'[d] = pc[d] /\ replay'[d] = replay[d] /\ inbox'[d] = inbox[d]
        /\ since'[d] = since[d] /\ owed'[d] = owed[d]
  BY <1>1, <1>2, <1>3
<1> QED BY <1>1, <1>9, <1>10, FlowClient

\* A client leaves: what it is owed stays, if it knows where it was.
LEMMA LeaveFlow ==
  ASSUME StreamType, StreamType', HubType, NEW off \in Nat, NEW k \in Nat, Flow(off, k),
         NEW c \in Client, Leave(c)
  PROVE  Flow(off, k)'
<1>1. PICK l \in {"Collect", "Out"} :
        /\ pc' = [pc EXCEPT ![c] = l]
        /\ replay' = [replay EXCEPT ![c] = <<>>] /\ inbox' = [inbox EXCEPT ![c] = <<>>]
        /\ owed' = [owed EXCEPT ![c] = IF since[c] = NoVersion THEN {} ELSE owed[c]]
        /\ UNCHANGED <<next, count, backlog, sending, since>>
  BY DEF Leave
<1>2. pc'[c] = l /\ \A d \in Client \ {c} : pc'[d] = pc[d]
  BY <1>1 DEF HubType
<1>3. replay'[c] = <<>> /\ owed'[c] \subseteq owed[c]
  BY <1>1 DEF StreamType
<1>4. \A d \in Client \ {c} : replay'[d] = replay[d] /\ inbox'[d] = inbox[d] /\ owed'[d] = owed[d]
  BY <1>1 DEF StreamType
<1>5. ~Attached(c)'
  BY <1>2 DEF Attached
<1>6. Fed(c, off, k)'
  <2>1. Fed(c, off, k) /\ UNCHANGED <<count, next>> /\ since'[c] = since[c]
    BY <1>1 DEF Flow
  <2> QED BY <1>3, <1>5, <2>1, FedOutside
<1>7. \A d \in Client \ {c} :
        /\ pc'[d] = pc[d] /\ replay'[d] = replay[d] /\ inbox'[d] = inbox[d]
        /\ since'[d] = since[d] /\ owed'[d] = owed[d]
  BY <1>1, <1>2, <1>4
<1> QED BY <1>1, <1>6, <1>7, FlowClient

\* The client processes a replayed message, the one after the last it processed.
LEMMA ReceiveReplay ==
  ASSUME StreamType, NEW off \in Nat, NEW k \in Nat, NEW c \in Client, Fed(c, off, k),
         replay[c] # <<>>, replay'[c] = Tail(replay[c]), inbox'[c] = inbox[c], pc'[c] = pc[c],
         since'[c] = Later(since[c], Head(replay[c]).version),
         owed'[c] = owed[c] \ {Head(replay[c]).id}, UNCHANGED <<count, next>>
  PROVE  Fed(c, off, k)'
<1> DEFINE s == since[c]
           l == Len(replay[c])
           v == Head(replay[c]).version
           h == Head(replay[c]).id
<1>1. /\ pc[c] = "Live" /\ s # NoVersion /\ s + l < next /\ Line(replay[c], off, s + l)
      /\ \A i \in owed[c] : off < i /\ i <= count
      /\ \A i \in owed[c] : s + off < i
      /\ Attached(c) => Line(inbox[c], off, k) /\ Len(inbox[c]) <= Capacity
      /\ \A i \in owed[c] : i <= s + l + off \/ k + off < i + Len(inbox[c])
  BY DEF Fed
<1>2. s \in Nat /\ l \in Nat /\ next \in Nat /\ \A i \in owed[c] : i \in Nat
  BY <1>1, StreamTypes
<1>3. s + l \in Nat
  <2> HIDE DEF s, l
  <2> QED BY SMT, <1>2
<1>4. /\ Line(Tail(replay[c]), off, s + l) /\ Len(Tail(replay[c])) = l - 1
      /\ Head(replay[c]) \in Message /\ v + l = (s + l) + 1 /\ h = v + off /\ l > 0
  BY <1>1, <1>3, StreamTypes, HeadLine
<1>5. v \in Nat
  BY <1>4, VersionType
<1> HIDE DEF s, l, v, h
<1>6. v = s + 1 /\ s < v /\ v < next /\ v + (l - 1) = s + l
  BY SMT, <1>1, <1>2, <1>4, <1>5
<1>7. \A i \in owed[c] : i # h => v + off < i
  BY SMT, <1>1, <1>2, <1>4, <1>5, <1>6
<1>8. since'[c] = v
  BY <1>6 DEF Later, s, v
<1>9. v # NoVersion
  BY <1>5, HubAssumption
<1>10. \A i \in owed'[c] : i \in owed[c] /\ i # h
  BY DEF h
<1>11. replay'[c] = Tail(replay[c]) /\ Len(replay'[c]) = l - 1
  BY <1>4
<1>12. since'[c] + Len(replay'[c]) = s + l
  BY <1>6, <1>8, <1>11
<1>13. Attached(c)' <=> Attached(c)
  BY DEF Attached
<1>14. \A i \in owed'[c] : off < i /\ i <= count'
  BY <1>1, <1>10
<1>15. since'[c] # NoVersion => since'[c] < next' /\ \A i \in owed'[c] : since'[c] + off < i
  BY <1>6, <1>7, <1>8, <1>10
<1>16. Attached(c)' => Line(inbox'[c], off, k) /\ Len(inbox'[c]) <= Capacity
  BY <1>1, <1>13
<1>17. /\ pc'[c] = "Live" /\ since'[c] # NoVersion /\ since'[c] + Len(replay'[c]) < next'
       /\ Line(replay'[c], off, since'[c] + Len(replay'[c]))
  BY <1>1, <1>4, <1>8, <1>9, <1>11, <1>12
<1>18. \A i \in owed'[c] :
         \/ since'[c] # NoVersion /\ i <= since'[c] + Len(replay'[c]) + off
         \/ k + off < i + Len(inbox'[c])
  BY <1>1, <1>8, <1>9, <1>10, <1>12
<1> QED BY <1>14, <1>15, <1>16, <1>17, <1>18 DEF Fed

\* The client processes a live message.
LEMMA ReceiveLive ==
  ASSUME StreamType, NEW off \in Nat, NEW k \in Nat, NEW c \in Client, Fed(c, off, k), k < next,
         pc[c] = "Live", replay[c] = <<>>, inbox[c] # <<>>,
         inbox'[c] = Tail(inbox[c]), replay'[c] = replay[c], pc'[c] = pc[c],
         since'[c] = Later(since[c], Head(inbox[c]).version),
         owed'[c] = owed[c] \ {Head(inbox[c]).id}, UNCHANGED <<count, next>>
  PROVE  Fed(c, off, k)'
<1> DEFINE s == since[c]
           l == Len(inbox[c])
           v == Head(inbox[c]).version
           h == Head(inbox[c]).id
<1>1. /\ \A i \in owed[c] : off < i /\ i <= count
      /\ s # NoVersion => s < next /\ \A i \in owed[c] : s + off < i
      /\ Line(inbox[c], off, k) /\ l <= Capacity
      /\ \A i \in owed[c] : (s # NoVersion /\ i <= s + Len(replay[c]) + off) \/ k + off < i + l
  BY DEF Fed, Attached
<1>2. l \in Nat /\ next \in Nat /\ (\A i \in owed[c] : i \in Nat) /\ (s # NoVersion => s \in Nat)
  BY StreamTypes
<1>3. /\ Line(Tail(inbox[c]), off, k) /\ Len(Tail(inbox[c])) = l - 1
      /\ Head(inbox[c]) \in Message /\ v + l = k + 1 /\ h = v + off /\ l > 0
  BY <1>1, StreamTypes, HeadLine
<1>4. v \in Nat
  BY <1>3, VersionType
<1>5. Len(replay[c]) = 0
  BY EmptySeq
<1> HIDE DEF s, l, v, h
<1>6. \A i \in owed[c] : k + off < i + l
  <2> SUFFICES ASSUME NEW i \in owed[c], s # NoVersion, i <= s + Len(replay[c]) + off PROVE FALSE
    BY <1>1
  <2>1. s \in Nat /\ i \in Nat /\ s + off < i /\ i <= s + 0 + off
    BY <1>1, <1>2, <1>5
  <2> QED BY SMT, <2>1
<1>7. \A i \in owed[c] : i # h => v + off < i /\ k + off < i + (l - 1)
  <2> SUFFICES ASSUME NEW i \in owed[c], i # h PROVE v + off < i /\ k + off < i + (l - 1)
    OBVIOUS
  <2>1. l \in Nat /\ i \in Nat /\ v + l = k + 1 /\ h = v + off /\ k + off < i + l
    BY <1>2, <1>3, <1>6
  <2> QED BY SMT, <1>4, <2>1
<1>8. v < next
  BY SMT, <1>2, <1>3, <1>4
<1>9. since'[c] = IF s = NoVersion \/ s < v THEN v ELSE s
  BY DEF Later, s, v
<1>10. since'[c] # NoVersion
  BY <1>4, <1>9, HubAssumption
<1>11. \A i \in owed'[c] : i \in owed[c] /\ i # h
  BY DEF h
<1>12. since'[c] < next' /\ \A i \in owed'[c] : since'[c] + off < i
  BY <1>1, <1>7, <1>8, <1>9, <1>11
<1>13. Line(inbox'[c], off, k) /\ Len(inbox'[c]) = l - 1
  BY <1>3
<1>14. Len(inbox'[c]) <= Capacity
  BY SMT, <1>1, <1>2, <1>13, HubAssumption
<1>15. \A i \in owed'[c] : off < i /\ i <= count'
  BY <1>1, <1>11
<1>16. \A i \in owed'[c] : k + off < i + Len(inbox'[c])
  BY <1>7, <1>11, <1>13
<1> QED BY <1>12, <1>13, <1>14, <1>15, <1>16 DEF Fed

LEMMA ReceiveFlow ==
  ASSUME StreamType, StreamType', HubType, NEW off \in Nat, NEW k \in Nat, Flow(off, k),
         NEW c \in Client, Receive(c)
  PROVE  Flow(off, k)'
<1>1. /\ pc[c] = "Live" /\ UNCHANGED <<next, count, backlog, sending, pc>>
      /\ Fed(c, off, k) /\ k < next
  BY DEF Receive, Flow, room
<1>2. ASSUME replay[c] # <<>> PROVE Fed(c, off, k)'
  <2>1. /\ since' = [since EXCEPT ![c] = Later(since[c], Head(replay[c]).version)]
        /\ owed' = [owed EXCEPT ![c] = owed[c] \ {Head(replay[c]).id}]
        /\ replay' = [replay EXCEPT ![c] = Tail(replay[c])] /\ inbox' = inbox
    BY <1>2 DEF Receive
  <2>2. /\ replay'[c] = Tail(replay[c]) /\ inbox'[c] = inbox[c] /\ pc'[c] = pc[c]
        /\ since'[c] = Later(since[c], Head(replay[c]).version)
        /\ owed'[c] = owed[c] \ {Head(replay[c]).id} /\ UNCHANGED <<count, next>>
    BY <1>1, <2>1 DEF StreamType
  <2> QED BY <1>1, <1>2, <2>2, ReceiveReplay
<1>3. ASSUME replay[c] = <<>> PROVE Fed(c, off, k)'
  <2>1. /\ inbox[c] # <<>>
        /\ since' = [since EXCEPT ![c] = Later(since[c], Head(inbox[c]).version)]
        /\ owed' = [owed EXCEPT ![c] = owed[c] \ {Head(inbox[c]).id}]
        /\ inbox' = [inbox EXCEPT ![c] = Tail(inbox[c])] /\ replay' = replay
    BY <1>3 DEF Receive
  <2>2. /\ replay'[c] = replay[c] /\ inbox'[c] = Tail(inbox[c]) /\ pc'[c] = pc[c]
        /\ since'[c] = Later(since[c], Head(inbox[c]).version)
        /\ owed'[c] = owed[c] \ {Head(inbox[c]).id} /\ UNCHANGED <<count, next>>
    BY <1>1, <2>1 DEF StreamType
  <2> QED BY <1>1, <1>3, <2>1, <2>2, ReceiveLive
<1>4. \A d \in Client \ {c} :
        /\ replay'[d] = replay[d] /\ inbox'[d] = inbox[d]
        /\ since'[d] = since[d] /\ owed'[d] = owed[d]
  <2>1. /\ \E x : since' = [since EXCEPT ![c] = x]
        /\ \E x : owed' = [owed EXCEPT ![c] = x]
        /\ (\E x : replay' = [replay EXCEPT ![c] = x]) \/ replay' = replay
        /\ (\E x : inbox' = [inbox EXCEPT ![c] = x]) \/ inbox' = inbox
    BY DEF Receive
  <2> QED BY <2>1 DEF StreamType
<1> QED BY <1>1, <1>2, <1>3, <1>4, FlowClient

-----------------------------------------------------------------------------
(* publish *)

\* stamp_and_retain: the message is the next of the line.
LEMMA StampFed ==
  ASSUME StreamType, NEW off \in Nat, NEW k \in Nat, count + 1 = off + next, k < next,
         NEW c \in Client, Fed(c, off, k),
         count' = count + 1, next' = next + 1, UNCHANGED <<pc, replay, inbox, since>>,
         owed'[c] = owed[c] \/ owed'[c] = owed[c] \cup {count + 1}
  PROVE  Fed(c, off, k)'
<1>1. /\ \A i \in owed[c] : off < i /\ i <= count
      /\ since[c] # NoVersion => since[c] < next /\ \A i \in owed[c] : since[c] + off < i
      /\ Attached(c) => Line(inbox[c], off, k) /\ Len(inbox[c]) <= Capacity
      /\ replay[c] # <<>> =>
           /\ pc[c] = "Live" /\ since[c] # NoVersion /\ since[c] + Len(replay[c]) < next
           /\ Line(replay[c], off, since[c] + Len(replay[c]))
      /\ pc[c] = "Live" => \A i \in owed[c] :
           \/ since[c] # NoVersion /\ i <= since[c] + Len(replay[c]) + off
           \/ k + off < i + Len(inbox[c])
  BY DEF Fed
<1>2. /\ next \in Nat \ {0} /\ count \in Nat /\ Len(inbox[c]) \in Nat /\ Len(replay[c]) \in Nat
      /\ since[c] # NoVersion => since[c] \in Nat
      /\ \A i \in owed[c] : i \in Nat
  BY StreamTypes
<1>3. ASSUME NEW i \in owed'[c] PROVE i \in owed[c] \/ i = count + 1
  OBVIOUS
<1>4. ASSUME NEW i \in owed'[c] PROVE off < i /\ i <= count'
  <2>1. CASE i \in owed[c]
    <3>1. i \in Nat /\ off < i /\ i <= count
      BY <1>1, <1>2, <2>1
    <3> QED BY SMT, <1>2, <3>1
  <2>2. CASE i = count + 1
    BY SMT, <1>2, <2>2
  <2> QED BY <1>3, <2>1, <2>2
<1>5. ASSUME since[c] # NoVersion PROVE since[c] < next' /\ \A i \in owed'[c] : since[c] + off < i
  <2> DEFINE s == since[c]
  <2>1. s \in Nat /\ s < next
    BY <1>1, <1>2, <1>5
  <2>2. s < next' /\ s + off < count + 1
    <3> HIDE DEF s
    <3> QED BY SMT, <1>2, <2>1
  <2> QED BY <1>1, <1>3, <1>5, <2>2
<1>6. replay[c] # <<>> => since[c] + Len(replay[c]) < next'
  <2> SUFFICES ASSUME replay[c] # <<>> PROVE since[c] + Len(replay[c]) < next'
    OBVIOUS
  <2> DEFINE s == since[c]
             l == Len(replay[c])
  <2>1. s \in Nat /\ l \in Nat /\ s + l < next
    BY <1>1, <1>2
  <2> HIDE DEF s, l
  <2>2. s + l < next'
    BY SMT, <1>2, <2>1
  <2> QED BY <2>2 DEF s, l
<1>7. k + off < (count + 1) + Len(inbox[c])
  <2> DEFINE l == Len(inbox[c])
  <2>1. l \in Nat
    BY <1>2
  <2> HIDE DEF l
  <2>2. k + off < (count + 1) + l
    BY SMT, <1>2, <2>1
  <2> QED BY <2>2 DEF l
<1>8. pc[c] = "Live" => \A i \in owed'[c] :
        \/ since[c] # NoVersion /\ i <= since[c] + Len(replay[c]) + off
        \/ k + off < i + Len(inbox[c])
  BY <1>1, <1>3, <1>7
<1>9. Attached(c)' <=> Attached(c)
  BY DEF Attached
<1> QED BY <1>1, <1>4, <1>5, <1>6, <1>8, <1>9 DEF Fed

LEMMA StampUnsent ==
  ASSUME StreamType, NEW off \in Nat, NEW k \in Nat, Unsent(off, k), k < next,
         NEW p \in Publisher, sending[p] = {}, NEW m \in Message, m.version = next,
         m.id = next + off, next' = next + 1,
         sending' = [sending EXCEPT ![p] = {[message |-> m, channel |-> 1]}]
  PROVE  Unsent(off, k)'
<1> DEFINE x == [message |-> m, channel |-> 1]
<1>0. x.message = m /\ x.channel = 1
  OBVIOUS
<1> HIDE DEF x
<1>1. sending'[p] = {x} /\ \A q \in Publisher \ {p} : sending'[q] = sending[q]
  BY DEF StreamType, x
<1>2. next \in Nat
  BY StreamTypes
<1>3. next < next' /\ \A v \in Nat : (v < next => v < next') /\ (v < next' => v < next \/ v = next)
                                     /\ (v = next => ~(v < next))
  BY SMT, <1>2
<1>4. \A q \in Publisher : \A s \in sending[q] :
        /\ s.channel = 1 /\ s.message.id = s.message.version + off
        /\ k < s.message.version /\ s.message.version < next
        /\ (\A t \in sending[q] : t = s) /\ s.message.version \in Nat
  BY StreamTypes DEF Unsent
<1>5. ASSUME NEW q \in Publisher, NEW s \in sending'[q]
      PROVE  /\ s.channel = 1 /\ s.message.id = s.message.version + off
             /\ k < s.message.version /\ s.message.version < next'
             /\ \A t \in sending'[q] : t = s
  <2>1. CASE q = p
    <3>0. s = x
      BY <1>1, <2>1
    <3>1. s = x /\ \A t \in sending'[q] : t = s
      BY <1>1, <2>1, <3>0
    <3>2. s.message = m /\ s.channel = 1
      BY <1>0, <3>1
    <3>3. s.message.version = next /\ s.message.id = next + off
      BY SMT, <3>2
    <3> QED BY <1>3, <3>1, <3>2, <3>3
  <2>2. CASE q # p
    BY <1>1, <1>3, <1>4, <2>2
  <2> QED BY <2>1, <2>2
<1>6. ASSUME NEW v \in Nat, k < v, v < next'
      PROVE  \E q \in Publisher : \E s \in sending'[q] : s.message.version = v
  <2>1. CASE v = next
    BY <1>0, <1>1, <2>1
  <2>2. CASE v < next
    <3>1. PICK q \in Publisher : \E s \in sending[q] : s.message.version = v
      BY <1>6, <2>2 DEF Unsent
    <3>2. q # p
      BY <3>1
    <3> QED BY <1>1, <3>1, <3>2
  <2> QED BY <1>3, <1>6, <2>1, <2>2
<1>7. ASSUME NEW q \in Publisher, NEW r \in Publisher, NEW s \in sending'[q], NEW t \in sending'[r],
             s.message.version = t.message.version
      PROVE  q = r
  <2>1. CASE q # p /\ r # p
    BY <1>1, <1>7, <2>1 DEF Unsent
  <2>2. CASE q = p /\ r # p
    <3>1. s = x /\ t.message.version \in Nat /\ t.message.version < next
      BY <1>1, <1>4, <2>2
    <3>2. s.message.version = next
      BY <1>0, <3>1
    <3> QED BY <1>3, <1>7, <3>1, <3>2
  <2>3. CASE q # p /\ r = p
    <3>1. t = x /\ s.message.version \in Nat /\ s.message.version < next
      BY <1>1, <1>4, <2>3
    <3>2. t.message.version = next
      BY <1>0, <3>1
    <3> QED BY <1>3, <1>7, <3>1, <3>2
  <2> QED BY <2>1, <2>2, <2>3
<1> QED BY <1>5, <1>6, <1>7 DEF Unsent

LEMMA StampFlow ==
  ASSUME StreamType, HubType, NEW off \in Nat, NEW k \in Nat, Flow(off, k), exists, gen = 1,
         NEW p \in Publisher, StampAndRetain(p)
  PROVE  Flow(off, k)'
<1> DEFINE m == [id |-> count + 1, version |-> next]
<1>1. /\ sending[p] = {} /\ count' = count + 1 /\ next' = next + 1
      /\ owed' = [c \in Client |-> IF Follows(c) THEN owed[c] \cup {count + 1} ELSE owed[c]]
      /\ \E n \in Keep : backlog' = LastN(Append(backlog, m), n)
      /\ sending' = [sending EXCEPT ![p] = {[message |-> m, channel |-> 1]}]
      /\ UNCHANGED <<pc, replay, inbox, since>>
  BY DEF StampAndRetain, client, Stamp
<1>2. next \in Nat \ {0} /\ count \in Nat /\ backlog \in Seq(Message)
  BY StreamTypes
<1>3. /\ count + 1 = off + next /\ k < next /\ Line(backlog, off, next - 1) /\ Unsent(off, k)
      /\ \A c \in Client : Fed(c, off, k)
  BY DEF Flow
<1>4. /\ next - 1 \in Nat /\ (next - 1) + 1 = next /\ next' - 1 = next /\ count + 1 = next + off
      /\ count' + 1 = off + next' /\ k < next' /\ count + 1 \in Nat /\ next \in Nat
  <2>1. ASSUME NEW n \in Nat \ {0}, NEW a \in Nat, a + 1 = off + n, k < n
        PROVE  /\ n - 1 \in Nat /\ (n - 1) + 1 = n /\ (n + 1) - 1 = n /\ a + 1 = n + off
               /\ (a + 1) + 1 = off + (n + 1) /\ k < n + 1 /\ a + 1 \in Nat /\ n \in Nat
    BY SMT, <2>1
  <2> QED BY <1>1, <1>2, <1>3, <2>1
<1>5. m \in Message /\ m.version = next /\ m.id = next + off
  BY <1>4 DEF Message
<1> HIDE DEF m
<1>6. Line(backlog', off, next' - 1)
  <2>1. Append(backlog, m) \in Seq(Message) /\ Line(Append(backlog, m), off, (next - 1) + 1)
    BY <1>2, <1>3, <1>4, <1>5, AppendLine
  <2>2. Keep \subseteq Nat
    BY SMT, HubAssumption DEF Keep
  <2>3. \A n \in Keep : Line(LastN(Append(backlog, m), n), off, next)
    BY <1>4, <2>1, <2>2, LastNLine
  <2> QED BY <1>1, <1>4, <2>3
<1>7. Unsent(off, k)'
  BY <1>1, <1>3, <1>5, StampUnsent
<1>8. ASSUME NEW c \in Client PROVE Fed(c, off, k)'
  <2>1. owed'[c] = owed[c] \/ owed'[c] = owed[c] \cup {count + 1}
    BY <1>1
  <2> QED BY <1>1, <1>3, <2>1, StampFed
<1> QED BY <1>4, <1>6, <1>7, <1>8 DEF Flow

\* sender.send in the order of the versions: the next one has gone.
LEMMA SendUnsent ==
  ASSUME StreamType, NEW off \in Nat, NEW k \in Nat, Unsent(off, k),
         NEW p \in Publisher, NEW s \in sending[p],
         \A q \in Publisher : \A t \in sending[q] : ~(t.message.id < s.message.id),
         sending' = [sending EXCEPT ![p] = {}], next' = next
  PROVE  /\ s.message.version = k + 1 /\ k + 1 < next
         /\ Unsent(off, k + 1)'
<1>0. \A q, r \in Publisher : \A t \in sending[q], u \in sending[r] :
        t.message.version = u.message.version => q = r
  BY DEF Unsent
<1>1. sending'[p] = {} /\ \A q \in Publisher \ {p} : sending'[q] = sending[q]
  BY DEF StreamType
<1>2. \A q \in Publisher : \A t \in sending[q] :
        /\ t.channel = 1 /\ t.message.id = t.message.version + off
        /\ k < t.message.version /\ t.message.version < next
        /\ (\A u \in sending[q] : u = t) /\ t.message.version \in Nat
  BY StreamTypes DEF Unsent
<1>3. next \in Nat
  BY StreamTypes
<1>4. s.message.version = k + 1 /\ k + 1 < next
  <2> DEFINE v == s.message.version
  <2>1. v \in Nat /\ k < v /\ v < next /\ s.message.id = v + off
    BY <1>2
  <2>2. k + 1 \in Nat /\ k < k + 1
    BY SMT
  <2>3. ASSUME k + 1 < v PROVE FALSE
    <3>1. k + 1 < next
      BY SMT, <1>3, <2>1, <2>3
    <3>2. PICK q \in Publisher : \E t \in sending[q] : t.message.version = k + 1
      BY <2>2, <3>1 DEF Unsent
    <3>3. PICK t \in sending[q] : t.message.version = k + 1
      BY <3>2
    <3>4. t.message.id = (k + 1) + off
      BY <1>2, <3>3
    <3> HIDE DEF v
    <3>5. (k + 1) + off < v + off
      BY SMT, <2>1, <2>3
    <3> QED BY <2>1, <3>4, <3>5
  <2> HIDE DEF v
  <2>4. v = k + 1 /\ k + 1 < next
    BY SMT, <1>3, <2>1, <2>3
  <2> QED BY <2>4 DEF v
<1>5. ASSUME NEW q \in Publisher, NEW t \in sending'[q]
      PROVE  q # p /\ t \in sending[q] /\ k + 1 < t.message.version
  <2>1. q # p /\ t \in sending[q]
    BY <1>1
  <2> DEFINE v == t.message.version
  <2>2. v \in Nat /\ k < v /\ v # k + 1
    <3>1. v \in Nat /\ k < v
      BY <1>2, <2>1
    <3>2. v # s.message.version
      BY <1>0, <2>1
    <3> QED BY <1>4, <3>1, <3>2
  <2> HIDE DEF v
  <2>3. k + 1 < v
    BY SMT, <2>2
  <2> QED BY <2>1, <2>3 DEF v
<1>6. ASSUME NEW v \in Nat, k + 1 < v, v < next
      PROVE  \E q \in Publisher : \E t \in sending'[q] : t.message.version = v
  <2>1. k < v /\ v # k + 1
    BY SMT, <1>6
  <2>2. PICK q \in Publisher : \E t \in sending[q] : t.message.version = v
    BY <1>6, <2>1 DEF Unsent
  <2>3. PICK t \in sending[q] : t.message.version = v
    BY <2>2
  <2>4. q # p
    <3> SUFFICES ASSUME q = p PROVE FALSE
      OBVIOUS
    <3>1. t = s
      BY <1>2
    <3> QED BY <1>4, <2>1, <2>3, <3>1
  <2> QED BY <1>1, <2>3, <2>4
<1>7. \A q \in Publisher : \A t \in sending'[q] :
        /\ t.channel = 1 /\ t.message.id = t.message.version + off
        /\ k + 1 < t.message.version /\ t.message.version < next
        /\ \A u \in sending'[q] : u = t
  BY <1>2, <1>5
<1>8. \A q, r \in Publisher : \A t \in sending'[q], u \in sending'[r] :
        t.message.version = u.message.version => q = r
  BY <1>0, <1>5
<1>9. Unsent(off, k + 1)'
  <2>1. \A v \in Nat : k + 1 < v /\ v < next =>
          \E q \in Publisher : \E t \in sending'[q] : t.message.version = v
    BY <1>6
  <2> QED BY SMT, <1>7, <1>8, <2>1 DEF Unsent
<1> QED BY <1>4, <1>9

\* A subscriber gets the message and may lose the oldest in its receiver, which
\* it is then no longer owed.
LEMMA SendReached ==
  ASSUME StreamType, NEW off \in Nat, NEW k \in Nat, NEW c \in Client, Fed(c, off, k),
         Attached(c), NEW m \in Message, m.version = k + 1, m.id = m.version + off,
         inbox'[c] = LastN(Append(inbox[c], m), Capacity),
         owed'[c] = IF Len(inbox[c]) = Capacity THEN owed[c] \ {Head(inbox[c]).id} ELSE owed[c],
         UNCHANGED <<pc, next, count, replay, since>>
  PROVE  Fed(c, off, k + 1)'
<1> DEFINE l == Len(inbox[c])
           h == Head(inbox[c])
           q == Append(inbox[c], m)
<1>1. /\ \A i \in owed[c] : off < i /\ i <= count
      /\ since[c] # NoVersion => since[c] < next /\ \A i \in owed[c] : since[c] + off < i
      /\ Line(inbox[c], off, k) /\ l <= Capacity
      /\ replay[c] # <<>> =>
           /\ pc[c] = "Live" /\ since[c] # NoVersion /\ since[c] + Len(replay[c]) < next
           /\ Line(replay[c], off, since[c] + Len(replay[c]))
      /\ pc[c] = "Live" => \A i \in owed[c] :
           \/ since[c] # NoVersion /\ i <= since[c] + Len(replay[c]) + off
           \/ k + off < i + l
  BY DEF Fed
<1>2. /\ inbox[c] \in Seq(Message) /\ l \in Nat
      /\ \A i \in owed[c] : i \in Nat
  BY StreamTypes
<1>3. Capacity \in Nat /\ Capacity > 0 /\ k + 1 \in Nat
  BY SMT, HubAssumption
<1>4. q \in Seq(Message) /\ Line(q, off, k + 1) /\ Len(q) = l + 1
  <2>1. Len(q) = l + 1
    BY SMT, <1>2, AppendProperties
  <2>2. q \in Seq(Message) /\ Line(q, off, k + 1)
    BY <1>1, <1>2, AppendLine
  <2> QED BY <2>1, <2>2
<1>5. Line(inbox'[c], off, k + 1)
  <2> HIDE DEF q
  <2>1. Line(LastN(q, Capacity), off, k + 1)
    BY <1>3, <1>4, LastNLine
  <2> QED BY <2>1 DEF q
<1>6. Len(inbox'[c]) = IF l + 1 > Capacity THEN Capacity ELSE l + 1
  <2> HIDE DEF q
  <2>1. Len(LastN(q, Capacity)) = IF Len(q) > Capacity THEN Capacity ELSE Len(q)
    BY <1>3, <1>4, LastNProps
  <2> QED BY <1>4, <2>1 DEF q
<1>7. l = Capacity => h.version \in Nat /\ h.version + l = k + 1 /\ h.id = h.version + off
  <2> SUFFICES ASSUME l = Capacity
               PROVE  h.version \in Nat /\ h.version + l = k + 1 /\ h.id = h.version + off
    OBVIOUS
  <2>1. l # 0
    BY SMT, <1>3
  <2>2. inbox[c] # <<>>
    BY <2>1, EmptySeq
  <2>3. h \in Message /\ h.version + l = k + 1 /\ h.id = h.version + off
    BY <1>1, <1>2, <2>2, HeadLine
  <2> QED BY <2>3, VersionType
<1>8. /\ \A i \in owed'[c] : i \in owed[c]
      /\ l = Capacity => \A i \in owed'[c] : i # h.id
  OBVIOUS
<1> DEFINE z == Len(inbox'[c])
<1> HIDE DEF l, h, q, z
<1>9. z \in Nat /\ z <= Capacity
  BY SMT, <1>1, <1>2, <1>3, <1>6 DEF z
<1>10. ASSUME NEW i \in owed'[c], k + off < i + l PROVE (k + 1) + off < i + z
  <2>1. i \in Nat
    BY <1>2, <1>8
  <2>2. CASE l = Capacity
    <3> DEFINE v == h.version
               w == h.id
    <3>1. i # w /\ v \in Nat /\ v + l = k + 1 /\ w = v + off
      BY <1>7, <1>8, <2>2
    <3>2. z = IF l + 1 > Capacity THEN Capacity ELSE l + 1
      BY <1>6 DEF z
    <3> HIDE DEF v, w
    <3>3. z = l
      BY SMT, <1>2, <1>3, <2>2, <3>2
    <3> QED BY SMTT(60), <1>2, <1>10, <2>1, <3>1, <3>3
  <2>3. CASE l # Capacity
    <3>1. z = IF l + 1 > Capacity THEN Capacity ELSE l + 1
      BY <1>6 DEF z
    <3>2. z = l + 1
      BY SMT, <1>1, <1>2, <1>3, <2>3, <3>1
    <3> QED BY SMT, <1>2, <1>10, <2>1, <3>2
  <2> QED BY <2>2, <2>3
<1>11. pc[c] = "Live" => \A i \in owed'[c] :
         \/ since[c] # NoVersion /\ i <= since[c] + Len(replay[c]) + off
         \/ (k + 1) + off < i + z
  BY <1>1, <1>8, <1>10
<1>12. /\ \A i \in owed'[c] : off < i /\ i <= count
       /\ since[c] # NoVersion => since[c] < next /\ \A i \in owed'[c] : since[c] + off < i
  BY <1>1, <1>8
<1> QED BY <1>1, <1>5, <1>9, <1>11, <1>12 DEF Fed, z

LEMMA SendFlow ==
  ASSUME StreamType, StreamType', HoldInv, NEW off \in Nat, NEW k \in Nat, Flow(off, k), gen = 1,
         NEW p \in Publisher, Send(p), overtaken' = 0
  PROVE  Flow(off, k + 1)'
<1>1. PICK s \in sending[p] :
        LET reached == {c \in Client : Attached(c) /\ channel[c] = s.channel}
            lagging == {c \in reached : Len(inbox[c]) = Capacity}
        IN
        /\ sending' = [sending EXCEPT ![p] = {}]
        /\ inbox' = [c \in Client |-> IF c \in reached
                                        THEN LastN(Append(inbox[c], s.message), Capacity)
                                        ELSE inbox[c]]
        /\ owed' = [c \in Client |-> IF c \in lagging THEN owed[c] \ {Head(inbox[c]).id} ELSE owed[c]]
        /\ overtaken' = IF \E q \in Publisher : \E t \in sending[q] : t.message.id < s.message.id
                         THEN 1 ELSE overtaken
        /\ UNCHANGED <<next, backlog, count, pc, replay, since>>
  BY DEF Send, room
<1>2. \A q \in Publisher : \A t \in sending[q] : ~(t.message.id < s.message.id)
  <2>1. 1 # 0
    BY SMT
  <2> QED BY <1>1, <2>1
<1>3. /\ count + 1 = off + next /\ Line(backlog, off, next - 1) /\ Unsent(off, k)
      /\ \A c \in Client : Fed(c, off, k)
  BY DEF Flow
<1>4. s.message.version = k + 1 /\ k + 1 < next /\ Unsent(off, k + 1)'
  BY <1>1, <1>2, <1>3, SendUnsent
<1>5. s.channel = 1 /\ s.message.id = s.message.version + off /\ s.message \in Message
  BY <1>3, StreamTypes DEF Unsent
<1>6. ASSUME NEW c \in Client PROVE Fed(c, off, k + 1)'
  <2>1. CASE Attached(c)
    <3>1. channel[c] = s.channel
      BY <1>5, <2>1 DEF HoldInv, RoomHeld
    <3>2. /\ inbox'[c] = LastN(Append(inbox[c], s.message), Capacity)
          /\ owed'[c] = IF Len(inbox[c]) = Capacity THEN owed[c] \ {Head(inbox[c]).id} ELSE owed[c]
      BY <1>1, <2>1, <3>1
    <3>3. UNCHANGED <<pc, next, count, replay, since>> /\ Fed(c, off, k)
      BY <1>1, <1>3
    <3> QED BY <1>4, <1>5, <2>1, <3>2, <3>3, SendReached
  <2>2. CASE ~Attached(c)
    <3>1. owed'[c] = owed[c] /\ inbox'[c] = inbox[c]
      BY <1>1, <2>2
    <3>2. UNCHANGED <<pc, next, count, replay, since>> /\ Fed(c, off, k)
      BY <1>1, <1>3
    <3>3. ~Attached(c)' /\ pc[c] # "Live"
      BY <2>2, <3>2 DEF Attached
    <3> QED BY <3>1, <3>2, <3>3 DEF Fed
  <2> QED BY <2>1, <2>2
<1> QED BY <1>1, <1>3, <1>4, <1>6 DEF Flow

-----------------------------------------------------------------------------
(* The theorem *)

\* A line holds every call between its ends.
LEMMA LineHolds ==
  ASSUME NEW q \in Seq(Message), NEW off \in Nat, NEW top \in Nat, Line(q, off, top),
         NEW i \in Nat, off < i, i <= top + off, top + off < i + Len(q)
  PROVE  \E m \in Elems(q) : m.id = i
<1> DEFINE l == Len(q)
           j == (i + l) - (top + off)
<1>1. l \in Nat /\ DOMAIN q = 1..l
  BY LenProperties
<1>2. top + off < i + l
  OBVIOUS
<1>3. j \in 1..l
  <2> HIDE DEF l
  <2> QED BY SMT, <1>1, <1>2
<1> DEFINE v == q[j].version
<1>4. q[j] \in Message /\ v + l = top + j /\ q[j].id = v + off
  <2> HIDE DEF j
  <2> QED BY <1>3, ElementOfSeq DEF Line
<1>5. v \in Nat
  BY <1>4, VersionType
<1>6. v + off = i
  <2>1. v + l = top + ((i + l) - (top + off))
    BY <1>4
  <2> HIDE DEF l, v
  <2> QED BY SMT, <1>1, <1>5, <2>1
<1>7. q[j] \in Elems(q)
  <2> HIDE DEF j
  <2> QED BY <1>1, <1>3 DEF Elems
<1> QED BY <1>4, <1>6, <1>7

LEMMA FlowComplete ==
  ASSUME StreamType, NEW off \in Nat, NEW k \in Nat, Flow(off, k), NEW c \in Client, pc[c] = "Live"
  PROVE  OnItsWay(c)
<1>1. /\ next \in Nat \ {0} /\ count \in Nat /\ replay[c] \in Seq(Message) /\ inbox[c] \in Seq(Message)
      /\ Len(replay[c]) \in Nat /\ Len(inbox[c]) \in Nat
      /\ (since[c] # NoVersion => since[c] \in Nat)
  BY StreamTypes
<1>2. /\ count + 1 = off + next /\ k < next /\ Unsent(off, k) /\ Fed(c, off, k)
  BY DEF Flow
<1>3. ASSUME NEW i \in owed[c]
      PROVE  \/ \E m \in Elems(replay[c]) : m.id = i
             \/ \E m \in Elems(inbox[c]) : m.id = i
             \/ \E p \in Publisher : \E s \in sending[p] : s.message.id = i
  <2>1. i \in Nat /\ off < i /\ i <= count
    BY <1>2, StreamTypes DEF Fed
  <2>2. CASE since[c] # NoVersion /\ i <= since[c] + Len(replay[c]) + off
    <3> DEFINE s == since[c]
               l == Len(replay[c])
    <3>1. s \in Nat /\ l \in Nat /\ s + off < i /\ i <= s + l + off
      BY <1>1, <1>2, <2>2 DEF Fed
    <3>2. l # 0 /\ s + l \in Nat /\ (s + l) + off < i + l
      <4> HIDE DEF s, l
      <4> QED BY SMT, <2>1, <3>1
    <3>3. replay[c] # <<>>
      BY <3>2, EmptySeq
    <3>4. Line(replay[c], off, s + l)
      BY <1>2, <3>3 DEF Fed
    <3> DEFINE t == s + l
    <3>5. /\ t \in Nat /\ Line(replay[c], off, t) /\ i <= t + off
          /\ t + off < i + Len(replay[c])
      BY <3>1, <3>2, <3>4
    <3> DEFINE q == replay[c]
    <3>6. /\ q \in Seq(Message) /\ Line(q, off, t) /\ t + off < i + Len(q)
          /\ i \in Nat /\ off < i /\ t \in Nat /\ i <= t + off
      <4> HIDE DEF t
      <4> QED BY <1>1, <2>1, <3>5
    <3>7. \E m \in Elems(q) : m.id = i
      <4> HIDE DEF t, q
      <4> QED BY ZenonT(60), <3>6, LineHolds
    <3> QED BY <3>7
  <2>3. CASE k + off < i + Len(inbox[c])
    <3>1. CASE i <= k + off
      <4>1. Line(inbox[c], off, k)
        BY <1>2 DEF Fed, Attached
      <4> DEFINE q == inbox[c]
      <4>2. /\ q \in Seq(Message) /\ Line(q, off, k) /\ k + off < i + Len(q)
            /\ i \in Nat /\ off < i /\ i <= k + off
        BY <1>1, <2>1, <2>3, <3>1, <4>1
      <4>3. \E m \in Elems(q) : m.id = i
        <5> HIDE DEF q
        <5> QED BY ZenonT(60), <4>2, LineHolds
      <4> QED BY <4>3
    <3>2. CASE ~(i <= k + off)
      <4> DEFINE v == i - off
      <4>1. v \in Nat /\ k < v /\ v < next /\ v + off = i
        BY SMT, <1>1, <1>2, <2>1, <3>2
      <4> HIDE DEF v
      <4>2. PICK p \in Publisher : \E s \in sending[p] : s.message.version = v
        BY <1>2, <4>1 DEF Unsent
      <4>3. PICK s \in sending[p] : s.message.version = v
        BY <4>2
      <4>4. s.message.id = v + off
        BY <1>2, <4>3 DEF Unsent
      <4> QED BY <4>1, <4>4
    <3> QED BY <3>1, <3>2
  <2> QED BY <1>2, <2>2, <2>3 DEF Fed
<1> QED BY <1>3 DEF OnItsWay

\* Before the room was ever created.
LEMMA FreshKept ==
  ASSUME StreamType, HoldInv, Fresh, [Next]_vars, gen = 0, gen' = 0
  PROVE  Fresh'
<1>1. \A c \in Client : ~Attached(c) /\ ~Follows(c)
  BY DEF Fresh, HoldInv, RoomHeld, Follows
<1>2. ASSUME UNCHANGED <<exists, sending, since, owed, replay>> PROVE Fresh'
  BY <1>2 DEF Fresh
<1>3. ASSUME NEW p \in Publisher, StampAndRetain(p) PROVE Fresh'
  <2>1. /\ UNCHANGED <<exists, sending, since, replay>>
        /\ \E x : owed' = [c \in Client |-> IF Follows(c) THEN owed[c] \cup {x} ELSE owed[c]]
    BY <1>3 DEF StampAndRetain, client, Fresh
  <2>2. \A c \in Client : owed'[c] = owed[c]
    BY <1>1, <2>1
  <2> QED BY <2>1, <2>2 DEF Fresh
<1>4. ASSUME NEW p \in Publisher, Send(p) PROVE FALSE
  BY <1>4 DEF Send, Fresh
<1>5. ASSUME NEW c \in Client, Arrive(c) \/ Look(c) \/ Count(c) PROVE Fresh'
  BY <1>2, <1>5 DEF Arrive, Look, Count, room
<1>6. ASSUME NEW c \in Client, Register(c) PROVE FALSE
  <2>1. gen' = gen + 1
    BY <1>6 DEF Register, Fresh
  <2> QED BY SMT, <2>1
<1>7. ASSUME NEW c \in Client, Resume(c) \/ Receive(c) \/ Leave(c) PROVE FALSE
  <2>1. pc[c] = "Resume" \/ pc[c] = "Live"
    BY <1>7 DEF Resume, Receive, Leave
  <2> QED BY <1>1, <2>1 DEF Attached
<1>8. ASSUME NEW c \in Client, Collect(c) PROVE Fresh'
  <2>1. UNCHANGED <<exists, sending, since, owed, replay>>
    BY <1>8 DEF Collect, Collectable, Fresh
  <2> QED BY <1>2, <2>1
<1>9. ASSUME StrangerCounted \/ StrangerEnters \/ StrangerLeaves PROVE Fresh'
  BY <1>2, <1>9 DEF StrangerCounted, StrangerEnters, StrangerLeaves, room, client
<1>10. CASE UNCHANGED vars
  BY <1>2, <1>10 DEF vars, room, client
<1> QED BY <1>3, <1>4, <1>5, <1>6, <1>7, <1>8, <1>9, <1>10 DEF Next

\* Every step of a room that stays.
LEMMA FlowKept ==
  ASSUME StreamType, StreamType', HoldInv, NEW off \in Nat, NEW k \in Nat, Flow(off, k), [Next]_vars,
         exists, exists', gen = 1, overtaken' = 0
  PROVE  \E j \in Nat : Flow(off, j)'
<1>0. HubType /\ k + 1 \in Nat
  BY SMT DEF HoldInv
<1>1. ASSUME Flow(off, k)' PROVE \E j \in Nat : Flow(off, j)'
  BY <1>1
<1>2. ASSUME UNCHANGED <<next, count, backlog, sending, pc, replay, inbox, since, owed>>
      PROVE  Flow(off, k)'
  <2>1. UNCHANGED <<next, count, backlog, sending, pc, replay, inbox, since, owed>>
    BY <1>2
  <2> QED BY SMTT(60), <2>1 DEF Flow, Unsent, Fed, Attached
<1>3. ASSUME NEW p \in Publisher, StampAndRetain(p) PROVE Flow(off, k)'
  BY <1>0, <1>3, StampFlow
<1>4. ASSUME NEW p \in Publisher, Send(p) PROVE Flow(off, k + 1)'
  BY <1>4, SendFlow
<1>5. ASSUME NEW c \in Client, Arrive(c) \/ Look(c) \/ Count(c) PROVE Flow(off, k)'
  <2>1. PICK l \in {"Look", "Register", "Count", "Out"} :
          /\ pc' = [pc EXCEPT ![c] = l] /\ pc[c] \in {"Out", "Look", "Count"}
          /\ UNCHANGED <<next, count, backlog, sending, replay, inbox, since, owed>>
    BY <1>5 DEF Arrive, Look, Count, room
  <2>2. l \in Steps /\ l \notin {"Resume", "Live"} /\ ~Attached(c)
    BY <2>1 DEF Steps, Attached
  <2> QED BY <1>0, <2>1, <2>2, OutsideFlow
<1>6. ASSUME NEW c \in Client, Register(c) PROVE Flow(off, k)'
  BY <1>0, <1>6, JoinFlow
<1>7. ASSUME NEW c \in Client, Resume(c) PROVE Flow(off, k)'
  BY <1>0, <1>7, ResumeFlow
<1>8. ASSUME NEW c \in Client, Receive(c) PROVE Flow(off, k)'
  BY <1>0, <1>8, ReceiveFlow
<1>9. ASSUME NEW c \in Client, Leave(c) PROVE Flow(off, k)'
  BY <1>0, <1>9, LeaveFlow
<1>10. ASSUME NEW c \in Client, Collect(c) PROVE Flow(off, k)'
  <2>1. /\ pc' = [pc EXCEPT ![c] = "Out"] /\ pc[c] = "Collect"
        /\ UNCHANGED <<next, count, backlog, sending, replay, inbox, since, owed>>
    BY <1>10 DEF Collect
  <2>2. "Out" \in Steps /\ "Out" \notin {"Resume", "Live"} /\ ~Attached(c)
    BY <2>1 DEF Steps, Attached
  <2> QED BY <1>0, <2>1, <2>2, OutsideFlow
<1>11. ASSUME StrangerCounted \/ StrangerEnters \/ StrangerLeaves PROVE Flow(off, k)'
  BY <1>2, <1>11 DEF StrangerCounted, StrangerEnters, StrangerLeaves, room, client
<1>12. ASSUME UNCHANGED vars PROVE Flow(off, k)'
  BY <1>2, <1>12 DEF vars, room, client
<1> QED BY <1>0, <1>1, <1>3, <1>4, <1>5, <1>6, <1>7, <1>8, <1>9, <1>10, <1>11, <1>12 DEF Next

\* Rooms are numbered upwards, and only register_subscriber creates one.
LEMMA Generations ==
  ASSUME HubType, StreamType, [Next]_vars
  PROVE  /\ overtaken' = 0 => overtaken = 0
         /\ \/ gen' = gen /\ (exists' => exists)
            \/ ~exists /\ gen' = gen + 1 /\ \E c \in Client : Register(c)
<1>1. overtaken' = 0 => overtaken = 0
  <2>1. 1 # 0
    BY SMT
  <2>2. ASSUME NEW p \in Publisher, StampAndRetain(p) \/ Send(p) PROVE overtaken' = 0 => overtaken = 0
    BY <2>1, <2>2 DEF StampAndRetain, Send
  <2>3. ASSUME NEW c \in Client,
               \/ Arrive(c) \/ Look(c) \/ Count(c) \/ Register(c) \/ Resume(c)
               \/ Receive(c) \/ Leave(c) \/ Collect(c)
        PROVE  overtaken' = overtaken
    BY <2>3 DEF Arrive, Look, Count, Register, Resume, Receive, Leave, Collect
  <2>4. ASSUME StrangerCounted \/ StrangerEnters \/ StrangerLeaves \/ UNCHANGED vars
        PROVE  overtaken' = overtaken
    BY <2>4 DEF StrangerCounted, StrangerEnters, StrangerLeaves, vars
  <2> QED BY <2>2, <2>3, <2>4 DEF Next
<1>2. \/ gen' = gen /\ (exists' => exists)
      \/ ~exists /\ gen' = gen + 1 /\ \E c \in Client : Register(c)
  <2>1. ASSUME NEW p \in Publisher, StampAndRetain(p) \/ Send(p)
        PROVE  UNCHANGED <<gen, exists>>
    BY <2>1 DEF StampAndRetain, Send, room
  <2>2. ASSUME NEW c \in Client,
               \/ Arrive(c) \/ Look(c) \/ Count(c) \/ Resume(c) \/ Receive(c) \/ Leave(c)
        PROVE  UNCHANGED <<gen, exists>>
    BY <2>2 DEF Arrive, Look, Count, Resume, Receive, Leave, room
  <2>3. ASSUME NEW c \in Client, Register(c)
        PROVE  \/ UNCHANGED <<gen, exists>>
               \/ ~exists /\ gen' = gen + 1
    BY <2>3 DEF Register
  <2>4. ASSUME NEW c \in Client, Collect(c) PROVE gen' = gen /\ (exists' => exists)
    BY <2>4 DEF Collect
  <2>5. ASSUME StrangerCounted \/ StrangerEnters \/ StrangerLeaves \/ UNCHANGED vars
        PROVE  UNCHANGED <<gen, exists>>
    BY <2>5 DEF StrangerCounted, StrangerEnters, StrangerLeaves, vars, room
  <2> QED BY <2>1, <2>2, <2>3, <2>4, <2>5 DEF Next
<1> QED BY <1>1, <1>2

LEMMA NextStream ==
  HoldInv /\ StreamType /\ StreamInv /\ [Next]_vars => StreamType' /\ StreamInv'
<1> SUFFICES ASSUME HoldInv, StreamType, StreamInv, [Next]_vars PROVE StreamType' /\ StreamInv'
  OBVIOUS
<1>1. HubType /\ gen \in Nat /\ count \in Nat
  BY DEF HoldInv, HubType, StreamType
<1>2. StreamType'
  BY <1>1, NextStreamType
<1>3. /\ overtaken' = 0 => overtaken = 0
      /\ \/ gen' = gen /\ (exists' => exists)
         \/ ~exists /\ gen' = gen + 1 /\ \E c \in Client : Register(c)
  BY <1>1, Generations
<1>4. ASSUME gen' = 0 PROVE Fresh'
  <2>1. gen = 0
    BY SMT, <1>1, <1>3, <1>4
  <2> QED BY <1>4, <2>1, FreshKept DEF StreamInv
<1>5. ASSUME gen' = 1, exists', overtaken' = 0
      PROVE  \E off \in Nat, k \in Nat : Flow(off, k)'
  <2>1. CASE gen' = gen /\ exists
    <3>1. gen = 1 /\ overtaken = 0
      BY <1>3, <1>5, <2>1
    <3>2. PICK off \in Nat : \E k \in Nat : Flow(off, k)
      BY <2>1, <3>1 DEF StreamInv
    <3>3. PICK k \in Nat : Flow(off, k)
      BY <3>2
    <3>4. \E j \in Nat : Flow(off, j)'
      BY <1>2, <1>5, <2>1, <3>1, <3>3, FlowKept
    <3> QED BY <3>4
  <2>2. CASE ~exists /\ gen' = gen + 1 /\ \E c \in Client : Register(c)
    <3>1. gen = 0
      BY SMT, <1>1, <1>5, <2>2
    <3>2. Fresh /\ \A d \in Client : ~Attached(d)
      BY <2>2, <3>1 DEF StreamInv, HoldInv, RoomHeld
    <3>3. PICK c \in Client : Register(c)
      BY <2>2
    <3>4. PICK off \in Nat : off = count
      BY <1>1
    <3>5. Flow(off, 0)'
      BY <1>1, <1>2, <3>2, <3>3, <3>4, CreateFlow
    <3> QED BY <3>5, 0 \in Nat
  <2> QED BY <1>3, <1>5, <2>1, <2>2
<1> QED BY <1>2, <1>4, <1>5 DEF StreamInv

\* For any clients, publishers, capacity, backlog and limits, with disconnects,
\* resumes, lag and publishers interleaved in any way: as long as the room was
\* never collected and created again, and messages were sent in the order they
\* were stamped, everything a live client is owed is in its replay, in its
\* receiver or with a publisher about to send it.
THEOREM ResumesAreLossless == Spec => []ResumeLossless
<1>1. Init => HoldInv /\ StreamType /\ StreamInv
  <2> SUFFICES ASSUME Init PROVE StreamInv
    BY InitHold, InitStreamType
  <2>1. Fresh
    BY DEF Init, Fresh
  <2>2. gen # 1
    <3>1. 0 # 1
      BY SMT
    <3> QED BY <3>1 DEF Init
  <2> QED BY <2>1, <2>2 DEF StreamInv
<1>2. HoldInv /\ StreamType /\ StreamInv /\ [Next]_vars => (HoldInv /\ StreamType /\ StreamInv)'
  BY NextHold, NextStream
<1>3. HoldInv /\ StreamType /\ StreamInv => ResumeLossless
  <2> SUFFICES ASSUME HoldInv, StreamType, StreamInv, gen <= 1, overtaken = 0,
                      NEW c \in Client, pc[c] = "Live"
               PROVE  OnItsWay(c)
    BY DEF ResumeLossless, ReplayedIsComplete
  <2>1. exists
    BY DEF HoldInv, RoomHeld, Attached
  <2>2. gen = 0 \/ gen = 1
    <3>1. gen \in Nat
      BY DEF HoldInv, HubType
    <3> QED BY SMT, <3>1
  <2>3. gen = 1
    BY <2>1, <2>2 DEF StreamInv, Fresh
  <2>4. PICK off \in Nat : \E k \in Nat : Flow(off, k)
    BY <2>1, <2>3 DEF StreamInv
  <2> QED BY <2>4, FlowComplete
<1> QED BY <1>1, <1>2, <1>3, PTL DEF Spec
=============================================================================
