---------------------------- MODULE EventSourcing ----------------------------
(***************************************************************************)
(* SnapshottingEventSourcedRepository over InMemoryEventStore and          *)
(* InMemorySnapshotStore: one stream, its snapshot, and concurrent clients *)
(* that rehydrate the aggregate, change it and save it.  A SnapshotEvery   *)
(* no stream reaches gives EventSourcedRepository.                         *)
(*                                                                         *)
(* The state of an aggregate is the sequence of events applied to it; the  *)
(* sequence number of a stored event is its position in the stream.  The   *)
(* n-th event client c raises is <<c, n>>.                                 *)
(*                                                                         *)
(* The operators named Mut... are plausible defects of the definition that *)
(* follows them; they are not part of the specification.                   *)
(***************************************************************************)
EXTENDS Naturals, Sequences

CONSTANTS
  Client,         \* concurrent users of the repository
  SnapshotEvery,  \* snapshot_every, clamped to at least 1
  MaxEvents,      \* bound: events a client raises
  MaxFaults,      \* bound on errors of the event store and the snapshot store
  MaxDeletes,     \* bound: deletions of the stream
  MaxRetries      \* bound: times a client goes on with an aggregate whose save failed

ASSUME SourcingAssumption ==
  /\ SnapshotEvery \in Nat \ {0}
  /\ {MaxEvents, MaxFaults, MaxDeletes, MaxRetries} \subseteq Nat

VARIABLES
  stream,                      \* the events of the stream
  snapVersion, snapState,      \* the snapshot; version 0 when there is none
  pc,                          \* what the client does next
  version, applied, pending,   \* the client's aggregate
  raised,                      \* events the client has raised
  faults, deletes, retries

snapshot == <<snapVersion, snapState>>
aggregate == <<version, applied, pending>>
vars == <<stream, snapshot, pc, aggregate, raised, faults, deletes, retries>>

Init ==
  /\ stream = <<>>
  /\ snapVersion = 0 /\ snapState = <<>>
  /\ pc = [c \in Client |-> "None"]
  /\ version = [c \in Client |-> 0]
  /\ applied = [c \in Client |-> <<>>]
  /\ pending = [c \in Client |-> <<>>]
  /\ raised = [c \in Client |-> 0]
  /\ faults = 0 /\ deletes = 0 /\ retries = 0

Fault == faults < MaxFaults /\ faults' = faults + 1
Goto(c, l) == pc' = [pc EXCEPT ![c] = l]

\* The client has no aggregate; Default gives a fresh one.
Forget(c) ==
  /\ Goto(c, "None")
  /\ version' = [version EXCEPT ![c] = 0]
  /\ applied' = [applied EXCEPT ![c] = <<>>]
  /\ pending' = [pending EXCEPT ![c] = <<>>]

-----------------------------------------------------------------------------

New(c) ==
  /\ pc[c] = "None"
  /\ Goto(c, "Have")
  /\ UNCHANGED <<stream, snapshot, aggregate, raised, faults, deletes, retries>>

\* find_by_id: the snapshot, or a default aggregate when there is none or it
\* cannot be loaded.
FindSnapshot(c) ==
  /\ pc[c] = "None"
  /\ Goto(c, "FindTail")
  /\ \/ /\ version' = [version EXCEPT ![c] = snapVersion]
        /\ applied' = [applied EXCEPT ![c] = snapState]
        /\ UNCHANGED faults
     \/ Fault /\ UNCHANGED <<version, applied>>
  /\ UNCHANGED <<stream, snapshot, pending, raised, deletes, retries>>

\* load_after
MutLoadAfter(after) == SubSeq(stream, IF after = 0 THEN 1 ELSE after, Len(stream))
LoadAfter(after) == SubSeq(stream, after + 1, Len(stream))

\* find_by_id: replay the events recorded after the snapshot.
FindTail(c) ==
  LET tail == LoadAfter(version[c]) IN
  /\ pc[c] = "FindTail"
  /\ \/ /\ version[c] = 0 /\ tail = <<>>
        /\ Forget(c)
        /\ UNCHANGED faults
     \/ /\ version[c] > 0 \/ tail # <<>>
        /\ Goto(c, "Have")
        /\ applied' = [applied EXCEPT ![c] = @ \o tail]
        /\ version' = [version EXCEPT ![c] = IF tail = <<>> THEN @ ELSE Len(stream)]
        /\ UNCHANGED <<pending, faults>>
     \/ Fault /\ Forget(c)
  /\ UNCHANGED <<stream, snapshot, raised, deletes, retries>>

\* A command on the aggregate raises an event and applies it.
Raise(c) ==
  LET e == <<c, raised[c] + 1>> IN
  /\ pc[c] = "Have" /\ raised[c] < MaxEvents
  /\ raised' = [raised EXCEPT ![c] = @ + 1]
  /\ applied' = [applied EXCEPT ![c] = Append(@, e)]
  /\ pending' = [pending EXCEPT ![c] = Append(@, e)]
  /\ UNCHANGED <<stream, snapshot, pc, version, faults, deletes, retries>>

\* InMemoryEventStore::append accepts the expected version.
Matches(c) == version[c] = Len(stream)

\* save takes a snapshot when the stream grew past a boundary.
NextAfterAppend(c) ==
  IF (version[c] + Len(pending[c])) \div SnapshotEvery > version[c] \div SnapshotEvery
    THEN "Snapshot" ELSE "Have"

\* What is left of the pending events when save returns: they are drained
\* before the append.
MutDrained(c) == pending[c]
Drained(c) == <<>>

\* save: drain, append, advance the version.  After an error the pending
\* events are gone and the version is the old one.
Save(c) ==
  /\ pc[c] = "Have"
  /\ pending' = [pending EXCEPT ![c] = Drained(c)]
  /\ \/ /\ Matches(c)
        /\ stream' = stream \o pending[c]
        /\ version' = [version EXCEPT ![c] = @ + Len(pending[c])]
        /\ Goto(c, NextAfterAppend(c))
        /\ UNCHANGED faults
     \/ /\ ~Matches(c)
        /\ Goto(c, "Failed")
        /\ UNCHANGED <<stream, version, faults>>
     \/ /\ Fault
        /\ Goto(c, "Failed")
        /\ UNCHANGED <<stream, version>>
  /\ UNCHANGED <<snapshot, applied, raised, deletes, retries>>

\* The version a snapshot is stored under.
SnapshotVersion(c) == version[c]

\* save, its last part: best effort.
SaveSnapshot(c) ==
  /\ pc[c] = "Snapshot"
  /\ \/ /\ snapVersion' = SnapshotVersion(c) /\ snapState' = applied[c]
        /\ UNCHANGED faults
     \/ Fault /\ UNCHANGED snapshot
  /\ Goto(c, "Have")
  /\ UNCHANGED <<stream, aggregate, raised, deletes, retries>>

\* The caller of a save that failed goes on with the aggregate it has.
Retry(c) ==
  /\ pc[c] = "Failed" /\ retries < MaxRetries
  /\ retries' = retries + 1
  /\ Goto(c, "Have")
  /\ UNCHANGED <<stream, snapshot, aggregate, raised, faults, deletes>>

\* The client lets go of its aggregate, or drops a call that is under way.
Discard(c) ==
  /\ pc[c] # "None"
  /\ Forget(c)
  /\ UNCHANGED <<stream, snapshot, raised, faults, deletes, retries>>

\* delete: the snapshot stays.
DeleteStream ==
  /\ deletes < MaxDeletes /\ stream # <<>>
  /\ deletes' = deletes + 1
  /\ stream' = <<>>
  /\ UNCHANGED <<snapshot, pc, aggregate, raised, faults, retries>>

Next ==
  \/ \E c \in Client :
       \/ New(c) \/ FindSnapshot(c) \/ FindTail(c) \/ Raise(c) \/ Save(c)
       \/ SaveSnapshot(c) \/ Retry(c) \/ Discard(c)
  \/ DeleteStream

Spec == Init /\ [][Next]_vars

-----------------------------------------------------------------------------
(* Properties *)

\* Neither the stream was deleted, which leaves its snapshot behind, nor an
\* aggregate used on that lost its events in a failed save.
Orderly == deletes = 0 /\ retries = 0

\* Rehydration through a snapshot gives what replaying the whole stream gives,
\* although the stream grows between the two loads and the snapshot is stale.
FindIsReplay ==
  [][\A c \in Client : Orderly /\ pc[c] = "FindTail" /\ pc'[c] = "Have" =>
       applied'[c] = stream /\ version'[c] = Len(stream)]_vars

\* No event lands in history twice, although saves fail and are repeated and
\* the stream is deleted and begun again: save drains before it appends.
HistoryOnce == \A i, j \in DOMAIN stream : stream[i] = stream[j] => i = j

=============================================================================
