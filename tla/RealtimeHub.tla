---------------------------- MODULE RealtimeHub ----------------------------
(***************************************************************************)
(* InMemoryHub.  Of one room: publishers that stamp, retain and broadcast  *)
(* messages, and clients that subscribe, receive, disconnect, and resume   *)
(* with subscribe_since as ws.rs has them do.  Of the other rooms: how     *)
(* many the map holds and how many are about to enter it, which is all     *)
(* that the room ceiling depends on.                                       *)
(*                                                                         *)
(* A message is the number of its publish call and the version it was      *)
(* stamped with.  A room that is collected and created again has a new     *)
(* channel (gen) and counts its versions from 1.                           *)
(*                                                                         *)
(* owed[c] is what c must still be given: the messages published since it  *)
(* subscribed, resynchronised (after Gap or Unavailable) or lagged.        *)
(*                                                                         *)
(* The operators named Mut... are plausible defects of the definition that *)
(* follows them; they are not part of the specification.                   *)
(***************************************************************************)
EXTENDS Naturals, Sequences, FiniteSets

CONSTANTS
  Client,       \* subscribers
  Publisher,    \* concurrent callers of publish
  Capacity,     \* capacity of the broadcast channel
  Backlog,      \* InMemoryHub::backlog
  ByteLimit,    \* TRUE: max_backlog_bytes may evict more
  MaxPublish,   \* bound: calls of publish
  MaxCreations, \* bound: times the room is created
  MaxRooms,     \* InMemoryHub::max_rooms
  Strangers,    \* bound: concurrent subscribes to other rooms that do not exist
  NoVersion     \* a client that has not processed a message yet

ASSUME HubAssumption ==
  /\ Capacity \in Nat \ {0} /\ Backlog \in Nat /\ MaxPublish \in Nat /\ MaxCreations \in Nat
  /\ NoVersion \notin Nat /\ ByteLimit \in BOOLEAN
  /\ MaxRooms \in Nat \ {0} /\ Strangers \in Nat /\ IsFiniteSet(Client)

VARIABLES
  exists,       \* the room is in the map
  gen,          \* how often it was created
  subscribers,  \* RoomEntry::subscribers
  next,         \* RoomEntry::next_version
  backlog,      \* RoomEntry::backlog
  others,       \* other rooms in the map
  entering,     \* subscribes to other rooms past the ceiling check
  count,        \* calls of publish so far
  sending,      \* the stamped message a publisher has still to send, as a set
  pc,           \* what a client does next
  existed,      \* clients in subscribe_since that saw the room first
  channel,      \* gen of the channel the client's receiver belongs to, 0: none
  replay,       \* replayed messages it has still to process
  inbox,        \* messages in its receiver
  since,        \* the last version it processed
  owed,         \* messages it must still be given
  overtaken     \* 1 once a message was sent before one stamped earlier, else 0

room == <<exists, gen, subscribers, next, backlog>>
client == <<pc, existed, channel, replay, inbox, since>>
elsewhere == <<others, entering>>
vars == <<room, elsewhere, count, sending, client, owed, overtaken>>

Attached(c) == pc[c] \in {"Resume", "Live"}
Elems(s) == {s[i] : i \in DOMAIN s}
LastN(s, n) == SubSeq(s, IF Len(s) > n THEN Len(s) - n + 1 ELSE 1, Len(s))

Init ==
  /\ exists = FALSE /\ gen = 0 /\ subscribers = 0 /\ next = 1 /\ backlog = <<>>
  /\ others = 0 /\ entering = 0
  /\ count = 0
  /\ sending = [p \in Publisher |-> {}]
  /\ pc = [c \in Client |-> "Out"]
  /\ existed = {}
  /\ channel = [c \in Client |-> 0]
  /\ replay = [c \in Client |-> <<>>]
  /\ inbox = [c \in Client |-> <<>>]
  /\ since = [c \in Client |-> NoVersion]
  /\ owed = [c \in Client |-> {}]
  /\ overtaken = 0

-----------------------------------------------------------------------------
(* publish *)

\* The client has been in the room and counts on what it is told.
Follows(c) == Attached(c) \/ since[c] # NoVersion

\* How many of the retained messages stay after one more was pushed.
Keep == IF ByteLimit THEN 0..Backlog ELSE {Backlog}

Stamp == next + 1

\* stamp_and_retain, under the lock of the room's shard.
StampAndRetain(p) ==
  LET m == [id |-> count + 1, version |-> IF exists THEN next ELSE 0] IN
  /\ sending[p] = {} /\ count < MaxPublish
  /\ count' = count + 1
  /\ owed' = [c \in Client |-> IF Follows(c) THEN owed[c] \cup {m.id} ELSE owed[c]]
  /\ IF exists
       THEN /\ next' = Stamp
            /\ \E n \in Keep : backlog' = LastN(Append(backlog, m), n)
            /\ sending' = [sending EXCEPT ![p] = {[message |-> m, channel |-> gen]}]
       ELSE UNCHANGED <<next, backlog, sending>>
  /\ UNCHANGED <<exists, gen, subscribers, elsewhere, client, overtaken>>

\* sender.send, outside the lock: every receiver of the channel gets the
\* message, and one that is full loses its oldest (RecvError::Lagged).
Send(p) ==
  \E s \in sending[p] :
    LET reached == {c \in Client : Attached(c) /\ channel[c] = s.channel}
        lagging == {c \in reached : Len(inbox[c]) = Capacity}
    IN
    /\ sending' = [sending EXCEPT ![p] = {}]
    /\ inbox' = [c \in Client |-> IF c \in reached THEN LastN(Append(inbox[c], s.message), Capacity)
                                                   ELSE inbox[c]]
    /\ owed' = [c \in Client |-> IF c \in lagging THEN owed[c] \ {Head(inbox[c]).id} ELSE owed[c]]
    /\ overtaken' = IF \E q \in Publisher : \E t \in sending[q] : t.message.id < s.message.id
                     THEN 1 ELSE overtaken
    /\ UNCHANGED <<room, elsewhere, count, pc, existed, channel, replay, since>>

-----------------------------------------------------------------------------
(* subscribe_since *)

\* Whether the room exists is read before the client registers.
Arrive(c) ==
  /\ pc[c] = "Out"
  /\ existed' = IF exists THEN existed \cup {c} ELSE existed
  /\ pc' = [pc EXCEPT ![c] = "Look"]
  /\ UNCHANGED <<room, elsewhere, count, sending, channel, replay, inbox, since, owed, overtaken>>

\* register_subscriber: contains_key, then len, then entry, three locks.  A room
\* that is not there is refused (RealtimeError::Capacity) when the map is full.
Rooms == others + IF exists THEN 1 ELSE 0
MutFull == Rooms > MaxRooms
Full == Rooms >= MaxRooms

Look(c) ==
  /\ pc[c] = "Look"
  /\ pc' = [pc EXCEPT ![c] = IF exists THEN "Register" ELSE "Count"]
  /\ UNCHANGED <<room, elsewhere, count, sending, existed, channel, replay, inbox, since, owed,
                 overtaken>>

Count(c) ==
  /\ pc[c] = "Count"
  /\ pc' = [pc EXCEPT ![c] = IF Full THEN "Out" ELSE "Register"]
  /\ existed' = IF Full THEN existed \ {c} ELSE existed
  /\ UNCHANGED <<room, elsewhere, count, sending, channel, replay, inbox, since, owed, overtaken>>

\* Join the room or create it.
Register(c) ==
  /\ pc[c] = "Register" /\ (exists \/ gen < MaxCreations)
  /\ pc' = [pc EXCEPT ![c] = "Resume"]
  /\ inbox' = [inbox EXCEPT ![c] = <<>>]
  /\ IF exists
       THEN /\ subscribers' = subscribers + 1
            /\ channel' = [channel EXCEPT ![c] = gen]
            /\ UNCHANGED <<exists, gen, next, backlog>>
       ELSE /\ exists' = TRUE /\ gen' = gen + 1
            /\ subscribers' = 1 /\ next' = 1 /\ backlog' = <<>>
            /\ channel' = [channel EXCEPT ![c] = gen + 1]
  /\ UNCHANGED <<elsewhere, count, sending, existed, replay, since, owed, overtaken>>

\* What can be replayed: Replayed is TRUE when the answer is that nothing but
\* Missed(c) was missed.
MutReplayed(c) ==
  /\ since[c] # NoVersion /\ Backlog > 0 /\ c \in existed
  /\ IF backlog = <<>> THEN next = 1 ELSE backlog[1].version <= since[c] + 2
Replayed(c) ==
  /\ since[c] # NoVersion /\ Backlog > 0 /\ c \in existed
  /\ IF backlog = <<>> THEN next = 1 ELSE backlog[1].version <= since[c] + 1

\* iter().filter: the backlog is in the order of the versions, so that the ones
\* after v are its end.
After(q, v) == LastN(q, Cardinality({i \in DOMAIN q : q[i].version > v}))
Missed(c) == After(backlog, since[c])

\* The backlog is read after the receiver exists.  Told Gap or Unavailable,
\* the client resynchronises with what has been published so far.
Resume(c) ==
  /\ pc[c] = "Resume"
  /\ pc' = [pc EXCEPT ![c] = "Live"]
  /\ \/ /\ Replayed(c)
        /\ replay' = [replay EXCEPT ![c] = Missed(c)]
        /\ UNCHANGED owed
     \/ /\ ~Replayed(c)
        /\ owed' = [owed EXCEPT ![c] = {}]
        /\ UNCHANGED replay
  /\ existed' = existed \ {c}
  /\ UNCHANGED <<room, elsewhere, count, sending, channel, inbox, since, overtaken>>

-----------------------------------------------------------------------------
(* The connection *)

Later(v, w) == IF v = NoVersion \/ v < w THEN w ELSE v

\* Connection::run: the replayed messages first, then the live ones.
Receive(c) ==
  LET q == IF replay[c] # <<>> THEN replay[c] ELSE inbox[c] IN
  /\ pc[c] = "Live" /\ q # <<>>
  /\ since' = [since EXCEPT ![c] = Later(@, Head(q).version)]
  /\ owed' = [owed EXCEPT ![c] = @ \ {Head(q).id}]
  /\ IF replay[c] # <<>>
       THEN replay' = [replay EXCEPT ![c] = Tail(@)] /\ UNCHANGED inbox
       ELSE inbox' = [inbox EXCEPT ![c] = Tail(@)] /\ UNCHANGED replay
  /\ UNCHANGED <<room, elsewhere, count, sending, pc, existed, channel, overtaken>>

\* The connection ends: its receiver is dropped, then RoomGuard releases the room.
Leave(c) ==
  /\ pc[c] = "Live"
  /\ replay' = [replay EXCEPT ![c] = <<>>]
  /\ inbox' = [inbox EXCEPT ![c] = <<>>]
  /\ channel' = [channel EXCEPT ![c] = 0]
  /\ subscribers' = IF exists /\ subscribers > 0 THEN subscribers - 1 ELSE subscribers
  /\ pc' = [pc EXCEPT ![c] = IF exists /\ subscribers' = 0 THEN "Collect" ELSE "Out"]
  /\ owed' = [owed EXCEPT ![c] = IF since[c] = NoVersion THEN {} ELSE @]
  /\ UNCHANGED <<exists, gen, next, backlog, elsewhere, count, sending, existed, since, overtaken>>

\* remove_if
MutCollectable == exists
Collectable == exists /\ subscribers = 0

Collect(c) ==
  /\ pc[c] = "Collect"
  /\ pc' = [pc EXCEPT ![c] = "Out"]
  /\ IF Collectable
       THEN exists' = FALSE /\ next' = 1 /\ backlog' = <<>> /\ subscribers' = 0
       ELSE UNCHANGED <<exists, next, backlog, subscribers>>
  /\ UNCHANGED <<gen, elsewhere, count, sending, existed, channel, replay, inbox, since, owed,
                 overtaken>>

-----------------------------------------------------------------------------
(* Other rooms *)

\* A subscribe to a room that does not exist passes the check.
StrangerCounted ==
  /\ entering < Strangers /\ ~Full
  /\ entering' = entering + 1
  /\ UNCHANGED <<room, others, count, sending, client, owed, overtaken>>

StrangerEnters ==
  /\ entering > 0
  /\ entering' = entering - 1 /\ others' = others + 1
  /\ UNCHANGED <<room, count, sending, client, owed, overtaken>>

\* The last subscriber of another room leaves, and the room is collected.
StrangerLeaves ==
  /\ others > 0
  /\ others' = others - 1
  /\ UNCHANGED <<room, entering, count, sending, client, owed, overtaken>>

Next ==
  \/ \E p \in Publisher : StampAndRetain(p) \/ Send(p)
  \/ \E c \in Client :
       \/ Arrive(c) \/ Look(c) \/ Count(c) \/ Register(c) \/ Resume(c)
       \/ Receive(c) \/ Leave(c) \/ Collect(c)
  \/ StrangerCounted \/ StrangerEnters \/ StrangerLeaves

Spec == Init /\ [][Next]_vars

-----------------------------------------------------------------------------
(* Properties *)

\* A subscriber is never left attached to a channel that is no longer in the
\* map, and no room is left behind: while a client is subscribed the room
\* exists with the channel of its receiver, subscribers counts exactly the
\* clients that hold it open, and when there is none somebody is about to
\* collect it.
RoomHeld ==
  /\ \A c \in Client : Attached(c) => exists /\ channel[c] = gen
  /\ subscribers = Cardinality({c \in Client : Attached(c)})
  /\ exists => \E c \in Client : Attached(c) \/ pc[c] = "Collect"

\* The room ceiling is not exact, but it bounds the map: although the check and
\* the insert are separate locks, and a room may be collected between them, the
\* map holds at most as many rooms above max_rooms as there are other rooms
\* being subscribed to at the same time.
RoomsBounded == Rooms <= MaxRooms + Strangers

\* Everything c is owed is on its way to it: in its replay, in its receiver or
\* with a publisher about to send.
OnItsWay(c) ==
  owed[c] \subseteq {m.id : m \in Elems(replay[c]) \cup Elems(inbox[c])}
                    \cup {s.message.id : s \in UNION {sending[p] : p \in Publisher}}

\* "Every message after the requested version was still retained, and is
\* delivered ahead of the live stream" (Backlog::Replayed): everything a live
\* client is owed is on its way to it.
ReplayedIsComplete == \A c \in Client : pc[c] = "Live" => OnItsWay(c)

\* The same where it can be relied on: as long as the room was never collected
\* and created again, and no message was sent before one stamped earlier.
ResumeLossless == gen <= 1 /\ overtaken = 0 => ReplayedIsComplete
=============================================================================
