--------------------------- MODULE AggregateStore ---------------------------
(***************************************************************************)
(* The write paths of one aggregate: DefaultAggregateStore::save with      *)
(* outbox delivery (save_and_enqueue_in over InMemoryUnitOfWork) and with  *)
(* inline delivery (save_and_publish), and save_and_enqueue, called by     *)
(* concurrent clients that share the unit of work.                         *)
(*                                                                         *)
(* The state of an aggregate is the set of events applied to it, and the   *)
(* n-th event client c raises is <<c, n>>.  A client owns the aggregate it *)
(* created or found; it is mutably borrowed while a save runs.  A version  *)
(* of 0 stands for an aggregate that is not stored.                        *)
(*                                                                         *)
(* The operators named Mut... are plausible defects of the definition that *)
(* follows them; they are not part of the specification.                   *)
(***************************************************************************)
EXTENDS Naturals, Sequences

CONSTANTS
  Client,      \* concurrent callers
  Modes,       \* ways the clients may save, of which Init picks one
  None,        \* nobody holds the lock
  MaxEvents,   \* bound: events a client raises
  MaxVersion,  \* bound: versions of the aggregate
  MaxUpsets    \* bound: errors, dropped calls and deletions together

ASSUME StoreAssumption ==
  /\ Modes \subseteq [Client -> {"Outbox", "Inline", "Enqueue"}] /\ None \notin Client
  /\ {MaxEvents, MaxVersion, MaxUpsets} \subseteq Nat

VARIABLES
  storedVersion, storedState,  \* the entry of the aggregate map
  lock,                        \* InMemoryUnitOfWork::lock
  pc,                          \* None, or what the owner of an aggregate does next
  version, state, pending,     \* the client's aggregate
  batch,                       \* events a save has still to deliver
  raised,                      \* events the client has raised
  outbox,                      \* rows of the outbox: an event and the version of its save
  published,                   \* events the bus has delivered
  abandoned,                   \* events let go of undelivered, by their client or a dropped call
  faults, drops, deletes,
  mode                         \* how a client saves: "Outbox" (save_and_enqueue_in),
                               \* "Inline" (save_and_publish) or "Enqueue"
                               \* (save_and_enqueue); never changes

stored == <<storedVersion, storedState>>
aggregate == <<version, state, pending>>
counters == <<faults, drops, deletes>>
vars == <<stored, lock, pc, aggregate, batch, raised, outbox, published, abandoned, counters, mode>>

Elems(s) == {s[i] : i \in DOMAIN s}

Init ==
  /\ storedVersion = 0 /\ storedState = {}
  /\ lock = None
  /\ pc = [c \in Client |-> "None"]
  /\ version = [c \in Client |-> 0]
  /\ state = [c \in Client |-> {}]
  /\ pending = [c \in Client |-> <<>>]
  /\ batch = [c \in Client |-> <<>>]
  /\ raised = [c \in Client |-> 0]
  /\ outbox = <<>> /\ published = <<>> /\ abandoned = {}
  /\ faults = 0 /\ drops = 0 /\ deletes = 0
  /\ mode \in Modes

Upsettable == faults + drops + deletes < MaxUpsets
Fault == Upsettable /\ faults' = faults + 1 /\ UNCHANGED <<abandoned, drops, deletes>>
Goto(c, l) == pc' = [pc EXCEPT ![c] = l]

-----------------------------------------------------------------------------
(* The client and its aggregate *)

New(c) ==
  /\ pc[c] = "None"
  /\ Goto(c, "Have")
  /\ version' = [version EXCEPT ![c] = 0]
  /\ state' = [state EXCEPT ![c] = {}]
  /\ pending' = [pending EXCEPT ![c] = <<>>]
  /\ UNCHANGED <<stored, lock, batch, raised, outbox, published, abandoned, counters, mode>>

\* find_by_id: what is stored has no pending events.
Find(c) ==
  /\ pc[c] = "None" /\ storedVersion > 0
  /\ Goto(c, "Have")
  /\ version' = [version EXCEPT ![c] = storedVersion]
  /\ state' = [state EXCEPT ![c] = storedState]
  /\ pending' = [pending EXCEPT ![c] = <<>>]
  /\ UNCHANGED <<stored, lock, batch, raised, outbox, published, abandoned, counters, mode>>

\* AggregateEvents::raise, with the change of state the event stands for.
Raise(c) ==
  LET e == <<c, raised[c] + 1>> IN
  /\ pc[c] = "Have" /\ raised[c] < MaxEvents
  /\ raised' = [raised EXCEPT ![c] = @ + 1]
  /\ state' = [state EXCEPT ![c] = @ \cup {e}]
  /\ pending' = [pending EXCEPT ![c] = Append(@, e)]
  /\ UNCHANGED <<stored, lock, pc, version, batch, outbox, published, abandoned, counters, mode>>

\* The client lets go of its aggregate.
Discard(c) ==
  /\ pc[c] = "Have"
  /\ Goto(c, "None")
  /\ version' = [version EXCEPT ![c] = 0]
  /\ state' = [state EXCEPT ![c] = {}]
  /\ pending' = [pending EXCEPT ![c] = <<>>]
  /\ abandoned' = abandoned \cup Elems(pending[c])
  /\ UNCHANGED <<stored, lock, batch, raised, outbox, published, counters, mode>>

\* Repository::delete does not take the lock.
Delete ==
  /\ storedVersion > 0 /\ Upsettable
  /\ deletes' = deletes + 1
  /\ storedVersion' = 0 /\ storedState' = {}
  /\ UNCHANGED <<lock, pc, aggregate, batch, raised, outbox, published, abandoned, faults, drops, mode>>

\* The version check of save and of save_in_tx.
MutMatches(c) == version[c] <= storedVersion
Matches(c) == version[c] = storedVersion

-----------------------------------------------------------------------------
(* save_and_enqueue_in *)

\* The messages are built from the pending events before the transaction opens.
SaveAndEnqueueIn(c) ==
  /\ pc[c] = "Have" /\ mode[c] = "Outbox" /\ version[c] < MaxVersion
  /\ batch' = [batch EXCEPT ![c] = pending[c]]
  /\ Goto(c, "Begin")
  /\ UNCHANGED <<stored, lock, aggregate, raised, outbox, published, abandoned, counters, mode>>

Begin(c) ==
  /\ pc[c] = "Begin" /\ lock = None
  /\ lock' = c
  /\ Goto(c, "SaveInTx")
  /\ UNCHANGED <<stored, aggregate, batch, raised, outbox, published, abandoned, counters, mode>>

\* The transaction is dropped and the call returns its error.
RollBack(c) ==
  /\ lock' = None
  /\ Goto(c, "Have")
  /\ batch' = [batch EXCEPT ![c] = <<>>]

\* A successful check stages the aggregate under its new version.
SaveInTx(c) ==
  /\ pc[c] = "SaveInTx"
  /\ \/ /\ Matches(c)
        /\ version' = [version EXCEPT ![c] = @ + 1]
        /\ Goto(c, "Commit")
        /\ UNCHANGED <<lock, batch>>
     \/ ~Matches(c) /\ RollBack(c) /\ UNCHANGED version
  /\ UNCHANGED <<stored, state, pending, raised, outbox, published, abandoned, counters, mode>>

\* commit, its first part: the staged aggregate replaces the stored one.
Commit(c) ==
  /\ pc[c] = "Commit"
  /\ storedVersion' = version[c] /\ storedState' = state[c]
  /\ Goto(c, "Rows")
  /\ UNCHANGED <<lock, aggregate, batch, raised, outbox, published, abandoned, counters, mode>>

\* commit, the loop over the staged rows.
InsertRow(c) ==
  /\ pc[c] = "Rows" /\ batch[c] # <<>>
  /\ outbox' = Append(outbox, [event |-> Head(batch[c]), version |-> version[c]])
  /\ batch' = [batch EXCEPT ![c] = Tail(@)]
  /\ UNCHANGED <<stored, lock, pc, aggregate, raised, published, abandoned, counters, mode>>

\* The transaction is over and the events are drained.
Committed(c) ==
  /\ pc[c] = "Rows" /\ batch[c] = <<>>
  /\ lock' = None
  /\ pending' = [pending EXCEPT ![c] = <<>>]
  /\ Goto(c, "Have")
  /\ UNCHANGED <<stored, version, state, batch, raised, outbox, published, abandoned, counters, mode>>

\* begin, save_in_tx, insert_outbox_in_tx or commit fails: the version is
\* reverted, the events are kept.
MutRevert(c) == version[c]
Revert(c) == IF pc[c] = "Commit" THEN version[c] - 1 ELSE version[c]

TxError(c) ==
  /\ pc[c] \in {"Begin", "SaveInTx", "Commit"}
  /\ Fault
  /\ version' = [version EXCEPT ![c] = Revert(c)]
  /\ IF pc[c] = "Begin"
       THEN Goto(c, "Have") /\ batch' = [batch EXCEPT ![c] = <<>>] /\ UNCHANGED lock
       ELSE RollBack(c)
  /\ UNCHANGED <<stored, state, pending, raised, outbox, published, mode>>

-----------------------------------------------------------------------------
(* save_and_publish and save_and_enqueue *)

\* repo.save, one step under the lock of the map's entry, and the drain.  A
\* conflict changes nothing.
Save(c) ==
  /\ pc[c] = "Have" /\ mode[c] # "Outbox" /\ version[c] < MaxVersion
  /\ Matches(c)
  /\ storedVersion' = version[c] + 1 /\ storedState' = state[c]
  /\ version' = [version EXCEPT ![c] = @ + 1]
  /\ batch' = [batch EXCEPT ![c] = pending[c]]
  /\ pending' = [pending EXCEPT ![c] = <<>>]
  /\ Goto(c, IF mode[c] = "Inline" THEN "Publish" ELSE "Enqueue")
  /\ UNCHANGED <<lock, state, raised, outbox, published, abandoned, counters, mode>>

\* restore_events puts what was not delivered, the failed event first, back
\* in front of the pending events.
MutRestoreRest(rest, after) == Tail(rest) \o after
MutRestoreLast(rest, after) == Append(Tail(rest), Head(rest)) \o after
Restore(rest, after) == rest \o after

\* The rest of the batch goes back to the aggregate.
DeliveryError(c) ==
  /\ pc[c] \in {"Publish", "Enqueue"} /\ batch[c] # <<>>
  /\ Fault
  /\ pending' = [pending EXCEPT ![c] = Restore(batch[c], @)]
  /\ batch' = [batch EXCEPT ![c] = <<>>]
  /\ Goto(c, "Have")
  /\ UNCHANGED <<stored, lock, version, state, raised, outbox, published, mode>>

\* bus.publish for the next event of the batch.
Publish(c) ==
  /\ pc[c] = "Publish" /\ batch[c] # <<>>
  /\ published' = Append(published, Head(batch[c]))
  /\ batch' = [batch EXCEPT ![c] = Tail(@)]
  /\ UNCHANGED <<stored, lock, pc, aggregate, raised, outbox, abandoned, counters, mode>>

\* outbox.insert for the next event of the batch.
Enqueue(c) ==
  /\ pc[c] = "Enqueue" /\ batch[c] # <<>>
  /\ outbox' = Append(outbox, [event |-> Head(batch[c]), version |-> version[c]])
  /\ batch' = [batch EXCEPT ![c] = Tail(@)]
  /\ UNCHANGED <<stored, lock, pc, aggregate, raised, published, abandoned, counters, mode>>

Delivered(c) ==
  /\ pc[c] \in {"Publish", "Enqueue"} /\ batch[c] = <<>>
  /\ Goto(c, "Have")
  /\ UNCHANGED <<stored, lock, aggregate, batch, raised, outbox, published, abandoned, counters, mode>>

\* republish_pending, called as documented: for events that have been saved.
RepublishPending(c) ==
  /\ pc[c] = "Have" /\ mode[c] = "Inline"
  /\ pending[c] # <<>> /\ Elems(pending[c]) \subseteq storedState
  /\ batch' = [batch EXCEPT ![c] = pending[c]]
  /\ pending' = [pending EXCEPT ![c] = <<>>]
  /\ Goto(c, "Publish")
  /\ UNCHANGED <<stored, lock, version, state, raised, outbox, published, abandoned, counters, mode>>

\* The caller drops the future of a save where it waits: for the lock of the unit
\* of work, or for the bus or the outbox.  (save_in_tx, insert_outbox_in_tx and
\* commit of InMemoryUnitOfWork never wait.)  The aggregate was only borrowed and
\* stays as the call left it; the drained events are gone with the future.
Drop(c) ==
  /\ pc[c] \in {"Begin", "Publish", "Enqueue"}
  /\ Upsettable
  /\ drops' = drops + 1
  /\ abandoned' = IF pc[c] = "Begin" THEN abandoned ELSE abandoned \cup Elems(batch[c])
  /\ Goto(c, "Have")
  /\ batch' = [batch EXCEPT ![c] = <<>>]
  /\ UNCHANGED <<stored, lock, aggregate, raised, outbox, published, faults, deletes, mode>>

-----------------------------------------------------------------------------

\* The steps of a save that has been called.
SaveStep(c) ==
  \/ SaveInTx(c) \/ Commit(c) \/ InsertRow(c) \/ Committed(c)
  \/ Publish(c) \/ Enqueue(c) \/ Delivered(c)

Next ==
  \/ \E c \in Client :
       \/ New(c) \/ Find(c) \/ Raise(c) \/ Discard(c)
       \/ SaveAndEnqueueIn(c) \/ Begin(c) \/ TxError(c)
       \/ Save(c) \/ SaveStep(c) \/ DeliveryError(c) \/ RepublishPending(c) \/ Drop(c)
  \/ Delete

Spec == Init /\ [][Next]_vars

-----------------------------------------------------------------------------
(* Properties *)

\* No lost update: until the aggregate is deleted, a write never removes the
\* effect of an earlier one; "repositories can detect and reject lost updates"
\* (AggregateRoot).
NoLostUpdate == [][deletes' = 0 => storedState \subseteq storedState']_vars

\* The version a client believes in, when no staged write of its own is in it.
Base(c) == IF pc[c] = "Commit" THEN version[c] - 1 ELSE version[c]

\* The version of a client's aggregate is honest, whatever failed before: until
\* a delete it is never ahead of the stored one, and when it is the stored one
\* the client's state holds everything that is stored.
VersionHonest ==
  deletes = 0 => \A c \in Client : pc[c] # "None" =>
    /\ Base(c) <= storedVersion
    /\ Base(c) = storedVersion => storedState \subseteq state[c]

OutboxEvents == {outbox[i].event : i \in DOMAIN outbox}

\* No event of the stored state is lost: it was handed to the outbox or the
\* bus, or the client that raised it still has it to deliver or to retry.
\* With outbox delivery this holds although clients give up and calls are
\* dropped half-way.
NoEventLost ==
  \A e \in storedState :
    \/ e \in OutboxEvents \cup Elems(published)
    \/ \E c \in Client : e \in Elems(batch[c]) \cup Elems(pending[c])
    \/ e \in abandoned /\ mode[e[1]] # "Outbox"

\* No event is delivered twice, whatever fails and is retried, and none that was
\* refused or rolled back: what the outbox or the bus was given is part of the
\* stored state.  The bus sees the events of a client in the order it raised
\* them, although a failed batch is put back and retried, and save_and_enqueue_in
\* inserts the rows of all clients in the order of the aggregate's versions,
\* which is what per-key ordering downstream starts from.
DeliveredOnceInOrder ==
  /\ \A i, j \in DOMAIN outbox : outbox[i].event = outbox[j].event => i = j
  /\ \A i, j \in DOMAIN published :
       i < j => /\ published[i] # published[j]
                /\ published[i][1] = published[j][1] => published[i][2] < published[j][2]
  /\ deletes = 0 => OutboxEvents \cup Elems(published) \subseteq storedState
  /\ deletes = 0 /\ (\A c \in Client : mode[c] = "Outbox") =>
       \A i, j \in DOMAIN outbox : i < j => outbox[i].version <= outbox[j].version
=============================================================================
