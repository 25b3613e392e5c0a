----------------------------- MODULE StoreProofs -----------------------------
(***************************************************************************)
(* Proofs about AggregateStore for any clients and any bounds; most, as    *)
(* long as either all clients save through the unit of work or none does   *)
(* (Unmixed).                                                              *)
(*                                                                         *)
(* A version check and the write it allows are one step in Repository::    *)
(* save, and two under the lock of the unit of work (LockInv): in between  *)
(* nobody else writes, so that what is committed is one version above what *)
(* is stored (CommitInv), and holds all of it (VersionHonest).             *)
(*                                                                         *)
(* Of the events, the proofs look only at what a client has still to       *)
(* deliver (Todo), wherever the save in progress keeps it: every step      *)
(* leaves that sequence as it is, takes its first event to deliver it,     *)
(* adds a new one at its end, or lets go of it (EventStep).                *)
(***************************************************************************)
EXTENDS AggregateStore, TLAPS

USE Zenon

Unmixed(m) == (\A c \in Client : m[c] = "Outbox") \/ (\A c \in Client : m[c] # "Outbox")

Pcs == {"None", "Have", "Begin", "SaveInTx", "Commit", "Rows", "Publish", "Enqueue"}
TxSteps == {"SaveInTx", "Commit", "Rows"}
Raised == Client \X Nat

\* The types the proofs use.
StoreType ==
  /\ storedVersion \in Nat /\ storedState \in SUBSET Raised
  /\ pc \in [Client -> Pcs] /\ version \in [Client -> Nat]
  /\ state \in [Client -> SUBSET Raised] /\ raised \in [Client -> Nat]
  /\ \A c \in Client : pc[c] = "Commit" => version[c] > 0
  /\ deletes \in Nat /\ mode \in Modes

\* Only clients of the unit of work are in a transaction, and they hold its
\* lock from begin to the end.
LockInv ==
  \A c \in Client :
    /\ pc[c] \in TxSteps \cup {"Begin"} => mode[c] = "Outbox"
    /\ pc[c] \in TxSteps => lock = c

\* What is about to be committed is the version after the stored one.
CommitInv == deletes = 0 => \A c \in Client : pc[c] = "Commit" => version[c] = storedVersion + 1

\* Where nothing is stored there is no state.
EmptyInv == deletes = 0 /\ storedVersion = 0 => storedState = {}

StoreInv == StoreType /\ LockInv /\ CommitInv /\ EmptyInv /\ VersionHonest

\* What a client's copy may rely on.
Honest(c) ==
  pc[c] # "None" =>
    /\ Base(c) <= storedVersion
    /\ Base(c) = storedVersion => storedState \subseteq state[c]

LEMMA HonestByClient == VersionHonest <=> (deletes = 0 => \A c \in Client : Honest(c))
BY DEF VersionHonest, Honest

LEMMA InitStore == Init => StoreInv
<1> SUFFICES ASSUME Init PROVE StoreInv
  OBVIOUS
<1>1. StoreType
  BY DEF Init, StoreType, Pcs
<1>2. LockInv /\ CommitInv /\ EmptyInv /\ VersionHonest
  BY DEF Init, LockInv, CommitInv, EmptyInv, VersionHonest, TxSteps
<1>3. QED
  BY <1>1, <1>2 DEF StoreInv

-----------------------------------------------------------------------------
(* What the steps of a client do to its aggregate and to the stored one *)

\* The other clients' aggregates are not touched.
Apart(c) ==
  \A d \in Client \ {c} : pc'[d] = pc[d] /\ version'[d] = version[d] /\ state'[d] = state[d]

\* The client goes on with its aggregate, which may only have more events.
Keeps(c) ==
  /\ UNCHANGED stored /\ Apart(c)
  /\ pc[c] # "None" /\ Base(c)' = Base(c) /\ state[c] \subseteq state'[c]
  /\ pc'[c] = "Commit" /\ pc[c] # "Commit" => Base(c) = storedVersion

\* It lets go of its aggregate.
Leaves(c) == UNCHANGED stored /\ Apart(c) /\ pc'[c] = "None"

\* It creates an aggregate or finds the stored one.
Takes(c) ==
  /\ UNCHANGED stored /\ Apart(c) /\ pc'[c] = "Have"
  /\ \/ version'[c] = 0 /\ state'[c] = {}
     \/ version'[c] = storedVersion /\ state'[c] = storedState

\* It writes its aggregate as a new version.
Writes(c) ==
  /\ Apart(c)
  /\ pc[c] # "None" /\ pc'[c] \notin {"None", "Commit"}
  /\ pc[c] = "Commit" \/ (mode[c] # "Outbox" /\ Base(c) = storedVersion)
  /\ version'[c] = Base(c) + 1 /\ state'[c] = state[c]
  /\ storedVersion' = version'[c] /\ storedState' = state[c]

Shape(c) == (Keeps(c) \/ Leaves(c) \/ Takes(c) \/ Writes(c)) /\ UNCHANGED <<deletes, mode>>

LEMMA GotoEffect ==
  ASSUME StoreType, NEW c \in Client, NEW l \in Pcs, Goto(c, l)
  PROVE  pc' \in [Client -> Pcs] /\ pc'[c] = l /\ \A d \in Client \ {c} : pc'[d] = pc[d]
BY DEF StoreType, Goto

\* The client is left with an empty aggregate.
LEMMA Emptied ==
  ASSUME StoreType, NEW c \in Client, version' = [version EXCEPT ![c] = 0],
         state' = [state EXCEPT ![c] = {}]
  PROVE  /\ version' \in [Client -> Nat] /\ state' \in [Client -> SUBSET Raised]
         /\ version'[c] = 0 /\ state'[c] = {}
         /\ \A d \in Client \ {c} : version'[d] = version[d] /\ state'[d] = state[d]
BY DEF StoreType

\* A client that moves and leaves all aggregates alone.
LEMMA Moves ==
  ASSUME StoreType, NEW c \in Client, NEW l \in Pcs \ {"None", "Commit"}, Goto(c, l),
         pc[c] \notin {"None", "Commit"},
         UNCHANGED <<stored, version, state, raised, deletes, mode>>
  PROVE  StoreType' /\ Shape(c)
<1>1. pc' \in [Client -> Pcs] /\ pc'[c] = l /\ \A d \in Client \ {c} : pc'[d] = pc[d]
  BY GotoEffect
<1>2. StoreType'
  BY <1>1 DEF StoreType, stored
<1>3. Keeps(c)
  BY <1>1 DEF Keeps, Apart, Base, stored
<1>4. QED
  BY <1>2, <1>3 DEF Shape

LEMMA TakeStep ==
  ASSUME StoreType, NEW c \in Client, New(c) \/ Find(c)
  PROVE  StoreType' /\ Shape(c)
<1>1. pc' \in [Client -> Pcs] /\ pc'[c] = "Have" /\ \A d \in Client \ {c} : pc'[d] = pc[d]
  BY GotoEffect DEF New, Find, Pcs
<1>2. UNCHANGED <<storedVersion, storedState, raised, deletes, mode>>
  BY DEF New, Find, stored, counters
<1>3. /\ version' \in [Client -> Nat] /\ state' \in [Client -> SUBSET Raised]
      /\ \/ version'[c] = 0 /\ state'[c] = {}
         \/ version'[c] = storedVersion /\ state'[c] = storedState
      /\ \A d \in Client \ {c} : version'[d] = version[d] /\ state'[d] = state[d]
  <2>1. CASE New(c)
    BY <2>1, Emptied DEF New
  <2>2. CASE Find(c)
    BY <2>2 DEF Find, StoreType
  <2>3. QED
    BY <2>1, <2>2
<1>4. StoreType'
  BY <1>1, <1>2, <1>3 DEF StoreType
<1>5. Takes(c)
  BY <1>1, <1>2, <1>3 DEF Takes, Apart, stored
<1>6. QED
  BY <1>2, <1>4, <1>5 DEF Shape

LEMMA RaiseStep ==
  ASSUME StoreType, NEW c \in Client, Raise(c)
  PROVE  StoreType' /\ Shape(c)
<1>1. UNCHANGED <<storedVersion, storedState, pc, version, deletes, mode>> /\ pc[c] = "Have"
  BY DEF Raise, stored, counters
<1>2. /\ raised' \in [Client -> Nat] /\ state' \in [Client -> SUBSET Raised]
      /\ state[c] \subseteq state'[c] /\ \A d \in Client \ {c} : state'[d] = state[d]
  <2>1. <<c, raised[c] + 1>> \in Raised
    BY SMT DEF StoreType, Raised
  <2>2. /\ raised' = [raised EXCEPT ![c] = @ + 1]
        /\ state' = [state EXCEPT ![c] = @ \cup {<<c, raised[c] + 1>>}]
    BY DEF Raise
  <2>3. raised \in [Client -> Nat] /\ state \in [Client -> SUBSET Raised]
    BY DEF StoreType
  <2>4. raised' \in [Client -> Nat]
    BY SMT, <2>2, <2>3
  <2>5. QED
    BY <2>1, <2>2, <2>3, <2>4
<1>3. StoreType'
  BY <1>1, <1>2 DEF StoreType
<1>4. Keeps(c)
  BY <1>1, <1>2 DEF Keeps, Apart, Base, stored
<1>5. QED
  BY <1>1, <1>3, <1>4 DEF Shape

LEMMA LeaveStep ==
  ASSUME StoreType, NEW c \in Client, Discard(c)
  PROVE  StoreType' /\ Shape(c)
<1>1. pc' \in [Client -> Pcs] /\ pc'[c] = "None" /\ \A d \in Client \ {c} : pc'[d] = pc[d]
  BY GotoEffect DEF Discard, Pcs
<1>2. UNCHANGED <<storedVersion, storedState, raised, deletes, mode>>
  BY DEF Discard, stored, counters
<1>3. /\ version' \in [Client -> Nat] /\ state' \in [Client -> SUBSET Raised]
      /\ \A d \in Client \ {c} : version'[d] = version[d] /\ state'[d] = state[d]
  BY Emptied DEF Discard
<1>4. StoreType'
  BY <1>1, <1>2, <1>3 DEF StoreType
<1>5. Leaves(c)
  BY <1>1, <1>2, <1>3 DEF Leaves, Apart, stored
<1>6. QED
  BY <1>2, <1>4, <1>5 DEF Shape

LEMMA SaveStepShape ==
  ASSUME StoreType, NEW c \in Client, Save(c)
  PROVE  StoreType' /\ Shape(c)
<1>1. /\ pc[c] = "Have" /\ mode[c] # "Outbox" /\ Matches(c)
      /\ version' = [version EXCEPT ![c] = @ + 1]
      /\ storedVersion' = version[c] + 1 /\ storedState' = state[c]
      /\ Goto(c, IF mode[c] = "Inline" THEN "Publish" ELSE "Enqueue")
      /\ UNCHANGED <<state, raised, deletes, mode>>
  BY DEF Save, counters
<1>2. /\ pc' \in [Client -> Pcs] /\ pc'[c] \in {"Publish", "Enqueue"}
      /\ \A d \in Client \ {c} : pc'[d] = pc[d]
  BY <1>1, GotoEffect DEF Pcs
<1>3. /\ version' \in [Client -> Nat] /\ version'[c] = version[c] + 1
      /\ \A d \in Client \ {c} : version'[d] = version[d]
  BY SMT, <1>1 DEF StoreType
<1>4. StoreType'
  BY <1>1, <1>2, <1>3 DEF StoreType
<1>5. Writes(c)
  BY <1>1, <1>2, <1>3 DEF Writes, Apart, Base, Matches
<1>6. QED
  BY <1>1, <1>4, <1>5 DEF Shape

LEMMA CommitShape ==
  ASSUME StoreType, NEW c \in Client, Commit(c)
  PROVE  StoreType' /\ Shape(c)
<1>1. /\ pc[c] = "Commit" /\ Goto(c, "Rows")
      /\ storedVersion' = version[c] /\ storedState' = state[c]
      /\ UNCHANGED <<version, state, raised, deletes, mode>>
  BY DEF Commit, aggregate, counters
<1>2. pc' \in [Client -> Pcs] /\ pc'[c] = "Rows" /\ \A d \in Client \ {c} : pc'[d] = pc[d]
  BY <1>1, GotoEffect DEF Pcs
<1>3. StoreType'
  BY <1>1, <1>2 DEF StoreType
<1>4. version[c] = Base(c) + 1
  BY SMT, <1>1 DEF Base, StoreType
<1>5. Writes(c)
  BY <1>1, <1>2, <1>4 DEF Writes, Apart
<1>6. QED
  BY <1>1, <1>3, <1>5 DEF Shape

LEMMA SaveInTxShape ==
  ASSUME StoreType, NEW c \in Client, SaveInTx(c)
  PROVE  StoreType' /\ Shape(c)
<1>1. pc[c] = "SaveInTx" /\ UNCHANGED <<storedVersion, storedState, state, raised, deletes, mode>>
  BY DEF SaveInTx, stored, counters
<1>2. CASE Matches(c) /\ version' = [version EXCEPT ![c] = @ + 1] /\ Goto(c, "Commit")
  <2>1. pc' \in [Client -> Pcs] /\ pc'[c] = "Commit" /\ \A d \in Client \ {c} : pc'[d] = pc[d]
    BY <1>2, GotoEffect DEF Pcs
  <2>2. /\ version' \in [Client -> Nat] /\ version'[c] = version[c] + 1
        /\ \A d \in Client \ {c} : version'[d] = version[d]
    BY SMT, <1>2 DEF StoreType
  <2>3. StoreType'
    BY SMT, <1>1, <2>1, <2>2 DEF StoreType
  <2>4. Base(c) = version[c] /\ Base(c)' = version[c]
    BY SMT, <1>1, <2>1, <2>2 DEF Base, StoreType
  <2>5. Keeps(c)
    BY <1>1, <1>2, <2>1, <2>2, <2>4 DEF Keeps, Apart, Matches, stored
  <2>6. QED
    BY <1>1, <2>3, <2>5 DEF Shape
<1>3. CASE RollBack(c) /\ UNCHANGED version
  BY <1>1, <1>3, Moves DEF RollBack, Pcs, stored
<1>4. QED
  BY <1>2, <1>3 DEF SaveInTx

LEMMA TxErrorShape ==
  ASSUME StoreType, NEW c \in Client, TxError(c)
  PROVE  StoreType' /\ Shape(c)
<1>1. /\ pc[c] \in {"Begin", "SaveInTx", "Commit"} /\ Goto(c, "Have")
      /\ version' = [version EXCEPT ![c] = Base(c)]
      /\ UNCHANGED <<storedVersion, storedState, state, raised, deletes, mode>>
  BY DEF TxError, RollBack, Revert, Base, Fault, stored
<1>2. pc' \in [Client -> Pcs] /\ pc'[c] = "Have" /\ \A d \in Client \ {c} : pc'[d] = pc[d]
  BY <1>1, GotoEffect DEF Pcs
<1>3. Base(c) \in Nat
  BY SMT DEF StoreType, Base
<1>4. /\ version' \in [Client -> Nat] /\ version'[c] = Base(c)
      /\ \A d \in Client \ {c} : version'[d] = version[d]
  BY <1>1, <1>3 DEF StoreType
<1>5. StoreType'
  BY <1>1, <1>2, <1>4 DEF StoreType
<1>6. Base(c)' = Base(c)
  BY <1>2, <1>4 DEF Base
<1>7. Keeps(c)
  BY <1>1, <1>2, <1>4, <1>6 DEF Keeps, Apart, stored
<1>8. QED
  BY <1>1, <1>5, <1>7 DEF Shape

\* Every step is a step of one client of one of the four shapes, or a delete.
LEMMA StepShape ==
  ASSUME StoreType, [Next]_vars
  PROVE  /\ StoreType'
         /\ \/ \E c \in Client : Shape(c)
            \/ UNCHANGED <<stored, pc, version, state, deletes, mode>>
            \/ deletes' > 0 /\ UNCHANGED <<pc, version, state, mode>>
<1>1. ASSUME NEW c \in Client,
             \/ SaveAndEnqueueIn(c) \/ Begin(c) \/ Committed(c) \/ Delivered(c)
             \/ DeliveryError(c) \/ RepublishPending(c) \/ Drop(c)
      PROVE  StoreType' /\ Shape(c)
  <2>1. /\ pc[c] \notin {"None", "Commit"}
        /\ \E l \in Pcs \ {"None", "Commit"} : Goto(c, l)
    BY <1>1 DEF SaveAndEnqueueIn, Begin, Committed, Delivered, DeliveryError, RepublishPending,
       Drop, Pcs
  <2>2. UNCHANGED <<stored, version, state, raised, deletes, mode>>
    BY <1>1 DEF SaveAndEnqueueIn, Begin, Committed, Delivered, DeliveryError,
       RepublishPending, Drop, Fault, aggregate, counters
  <2>3. QED
    BY <2>1, <2>2, Moves
<1>2. ASSUME NEW c \in Client, InsertRow(c) \/ Publish(c) \/ Enqueue(c)
      PROVE  StoreType' /\ UNCHANGED <<stored, pc, version, state, deletes, mode>>
  <2>1. UNCHANGED <<storedVersion, storedState, pc, version, state, raised, deletes, mode>>
    BY <1>2 DEF InsertRow, Publish, Enqueue, stored, aggregate, counters
  <2>2. QED
    BY <2>1 DEF StoreType, stored
<1>3. ASSUME Delete
      PROVE  StoreType' /\ deletes' > 0 /\ UNCHANGED <<pc, version, state, mode>>
  BY SMT, <1>3 DEF Delete, StoreType, aggregate
<1>4. ASSUME UNCHANGED vars
      PROVE  StoreType' /\ UNCHANGED <<stored, pc, version, state, deletes, mode>>
  <2>1. UNCHANGED <<storedVersion, storedState, pc, version, state, raised, deletes, mode>>
    BY <1>4 DEF vars, stored, aggregate, counters
  <2>2. QED
    BY <2>1 DEF StoreType, stored
<1>5. QED
  BY <1>1, <1>2, <1>3, <1>4, TakeStep, RaiseStep, LeaveStep, SaveStepShape, CommitShape,
     SaveInTxShape, TxErrorShape DEF Next, SaveStep

-----------------------------------------------------------------------------
(* The lock *)

\* A client that is not in a transaction afterwards; if it let go of the lock
\* it held it.
LEMMA LockLeft ==
  ASSUME LockInv, UNCHANGED mode, NEW c \in Client, \A d \in Client \ {c} : pc'[d] = pc[d],
         pc'[c] \notin TxSteps, pc'[c] = "Begin" => mode[c] = "Outbox",
         lock' = lock \/ lock = c \/ pc[c] \in TxSteps
  PROVE  LockInv'
<1> SUFFICES ASSUME NEW d \in Client
             PROVE  /\ pc'[d] \in TxSteps \cup {"Begin"} => mode'[d] = "Outbox"
                    /\ pc'[d] \in TxSteps => lock' = d
  BY DEF LockInv
<1>1. CASE d = c
  BY <1>1
<1>2. CASE d # c
  BY <1>2 DEF LockInv
<1>3. QED
  BY <1>1, <1>2

\* A client that goes on in the transaction it holds the lock of.
LEMMA LockKept ==
  ASSUME LockInv, UNCHANGED <<lock, mode>>, NEW c \in Client, pc[c] \in TxSteps,
         \A d \in Client \ {c} : pc'[d] = pc[d]
  PROVE  LockInv'
<1> SUFFICES ASSUME NEW d \in Client
             PROVE  /\ pc'[d] \in TxSteps \cup {"Begin"} => mode'[d] = "Outbox"
                    /\ pc'[d] \in TxSteps => lock' = d
  BY DEF LockInv
<1>1. CASE d = c
  BY <1>1 DEF LockInv
<1>2. CASE d # c
  BY <1>2 DEF LockInv
<1>3. QED
  BY <1>1, <1>2

LEMMA NextLock ==
  ASSUME StoreType, LockInv, [Next]_vars
  PROVE  LockInv'
<1>1. ASSUME NEW c \in Client,
             \/ New(c) \/ Find(c) \/ Discard(c) \/ SaveAndEnqueueIn(c) \/ TxError(c) \/ Save(c)
             \/ Committed(c) \/ Delivered(c) \/ DeliveryError(c) \/ RepublishPending(c) \/ Drop(c)
      PROVE  LockInv'
  <2>1. \E l \in Pcs \ TxSteps : Goto(c, l) /\ (l = "Begin" => mode[c] = "Outbox")
    <3> DEFINE Leads(l) == l \in Pcs \ TxSteps /\ (l = "Begin" => mode[c] = "Outbox")
    <3>1. Leads("None") /\ Leads("Have") /\ Leads("Publish") /\ Leads("Enqueue")
      BY DEF Pcs, TxSteps
    <3>2. mode[c] = "Outbox" => Leads("Begin")
      BY DEF Pcs, TxSteps
    <3> HIDE DEF Leads
    <3>3. CASE New(c) \/ Find(c) \/ Discard(c) \/ Drop(c)
      <4>1. \E l \in {"None", "Have"} : Goto(c, l)
        BY <3>3 DEF New, Find, Discard, Drop
      <4>2. QED
        BY <3>1, <4>1 DEF Leads
    <3>4. CASE SaveAndEnqueueIn(c)
      <4>1. Goto(c, "Begin") /\ mode[c] = "Outbox"
        BY <3>4 DEF SaveAndEnqueueIn
      <4>2. QED
        BY <3>2, <4>1 DEF Leads
    <3>5. CASE TxError(c) \/ Committed(c) \/ Delivered(c) \/ DeliveryError(c)
      <4>1. \E l \in {"None", "Have"} : Goto(c, l)
        BY <3>5 DEF TxError, RollBack, Committed, Delivered, DeliveryError
      <4>2. QED
        BY <3>1, <4>1 DEF Leads
    <3>6. CASE Save(c) \/ RepublishPending(c)
      <4>1. \E l \in {"Publish", "Enqueue"} : Goto(c, l)
        BY <3>6 DEF Save, RepublishPending
      <4>2. QED
        BY <3>1, <4>1 DEF Leads
    <3>7. QED
      BY <1>1, <3>3, <3>4, <3>5, <3>6
  <2>2. /\ pc'[c] \notin TxSteps /\ (pc'[c] = "Begin" => mode[c] = "Outbox")
        /\ \A d \in Client \ {c} : pc'[d] = pc[d]
    BY <2>1, GotoEffect
  <2>3. lock' = lock \/ lock = c \/ pc[c] \in TxSteps
    BY <1>1 DEF New, Find, Discard, SaveAndEnqueueIn, TxError, Save, Committed, Delivered,
       DeliveryError, RepublishPending, Drop, RollBack, TxSteps
  <2>4. UNCHANGED mode
    BY <1>1 DEF New, Find, Discard, SaveAndEnqueueIn, TxError, Save, Committed, Delivered,
       DeliveryError, RepublishPending, Drop
  <2>5. QED
    BY <2>2, <2>3, <2>4, LockLeft
<1>2. ASSUME NEW c \in Client, Begin(c)
      PROVE  LockInv'
  <2>1. /\ pc[c] = "Begin" /\ lock = None /\ lock' = c /\ UNCHANGED mode
        /\ pc'[c] = "SaveInTx" /\ \A d \in Client \ {c} : pc'[d] = pc[d]
    BY <1>2, GotoEffect DEF Begin, Pcs
  <2>2. \A d \in Client : pc[d] \notin TxSteps
    BY <2>1, StoreAssumption DEF LockInv
  <2>3. QED
    BY <2>1, <2>2 DEF LockInv, TxSteps
<1>3. ASSUME NEW c \in Client, SaveInTx(c) \/ Commit(c)
      PROVE  LockInv'
  <2>1. /\ pc[c] \in TxSteps /\ UNCHANGED mode
        /\ \/ (\E l \in Pcs : Goto(c, l)) /\ UNCHANGED lock
           \/ Goto(c, "Have")
    BY <1>3 DEF SaveInTx, Commit, RollBack, TxSteps, Pcs
  <2>2. CASE (\E l \in Pcs : Goto(c, l)) /\ UNCHANGED lock
    BY <2>1, <2>2, GotoEffect, LockKept
  <2>3. CASE Goto(c, "Have")
    <3>1. pc'[c] = "Have" /\ \A d \in Client \ {c} : pc'[d] = pc[d]
      BY <2>3, GotoEffect DEF Pcs
    <3>2. QED
      BY <2>1, <3>1, LockLeft DEF TxSteps
  <2>4. QED
    BY <2>1, <2>2, <2>3
<1>4. ASSUME UNCHANGED <<pc, lock, mode>>
      PROVE  LockInv'
  BY <1>4 DEF LockInv
<1>5. \/ \E c \in Client : InsertRow(c) \/ Publish(c) \/ Enqueue(c) \/ Raise(c)
      \/ Delete \/ UNCHANGED vars
      => UNCHANGED <<pc, lock, mode>>
  BY DEF InsertRow, Publish, Enqueue, Raise, Delete, vars
<1>6. QED
  BY <1>1, <1>2, <1>3, <1>4, <1>5 DEF Next, SaveStep

-----------------------------------------------------------------------------
(* Versions *)

\* What the three facts say of one client.
ClientOK(c) ==
  (pc[c] = "Commit" => version[c] = storedVersion + 1) /\ Honest(c)

LEMMA OKByClient ==
  ASSUME deletes = 0
  PROVE  CommitInv /\ VersionHonest <=> \A c \in Client : ClientOK(c)
BY HonestByClient DEF CommitInv, ClientOK

\* A write starts from the stored version, and nobody else is about to commit.
LEMMA WriterAlone ==
  ASSUME StoreInv, Unmixed(mode), deletes = 0, NEW c \in Client, Writes(c)
  PROVE  /\ Base(c) = storedVersion /\ storedState \subseteq state[c]
         /\ \A d \in Client \ {c} : pc[d] # "Commit"
<1>1. StoreType /\ LockInv /\ ClientOK(c)
  BY OKByClient DEF StoreInv
<1>2. Base(c) = storedVersion
  <2>1. CASE pc[c] = "Commit"
    BY SMT, <1>1, <2>1 DEF ClientOK, Base, StoreType
  <2>2. QED
    BY <2>1 DEF Writes
<1>3. storedState \subseteq state[c]
  BY <1>1, <1>2 DEF ClientOK, Honest, Writes
<1>4. ASSUME NEW d \in Client \ {c}
      PROVE  pc[d] # "Commit"
  <2>1. CASE pc[c] = "Commit"
    BY <1>1, <2>1 DEF LockInv, TxSteps
  <2>2. CASE mode[c] # "Outbox"
    BY <1>1, <2>2 DEF LockInv, TxSteps, Unmixed
  <2>3. QED
    BY <2>1, <2>2 DEF Writes
<1>5. QED
  BY <1>2, <1>3, <1>4

\* A step of c by which the stored aggregate does not change keeps the others
\* honest.
LEMMA OthersOK ==
  ASSUME UNCHANGED stored, NEW c \in Client, Apart(c), NEW d \in Client \ {c}, ClientOK(d)
  PROVE  ClientOK(d)'
<1>1. /\ UNCHANGED <<storedVersion, storedState>>
      /\ pc'[d] = pc[d] /\ version'[d] = version[d] /\ state'[d] = state[d]
  BY DEF stored, Apart
<1>2. Base(d)' = Base(d)
  BY <1>1 DEF Base
<1>3. QED
  BY <1>1, <1>2 DEF ClientOK, Honest

LEMMA ShapeOK ==
  ASSUME StoreInv, StoreType', Unmixed(mode), deletes = 0, NEW c \in Client, Shape(c)
  PROVE  EmptyInv' /\ \A d \in Client : ClientOK(d)'
<1>1. StoreType /\ (storedVersion = 0 => storedState = {}) /\ \A d \in Client : ClientOK(d)
  BY OKByClient DEF StoreInv, EmptyInv
<1>2. CASE Keeps(c)
  <2>1. UNCHANGED <<storedVersion, storedState>> /\ Base(c)' = Base(c)
    BY <1>2 DEF Keeps, stored
  <2>2. Honest(c)'
    BY <1>1, <1>2, <2>1 DEF ClientOK, Honest, Keeps
  <2>3. ASSUME pc'[c] = "Commit"
        PROVE  version'[c] = storedVersion + 1
    <3>1. Base(c) = storedVersion
      BY SMT, <1>1, <1>2, <2>3 DEF Keeps, ClientOK, Base, StoreType
    <3>2. Base(c)' = version'[c] - 1
      BY <2>3 DEF Base
    <3>3. QED
      BY SMT, <1>1, <2>1, <3>1, <3>2 DEF StoreType
  <2>4. ClientOK(c)'
    BY <2>1, <2>2, <2>3 DEF ClientOK
  <2>5. QED
    BY <1>1, <1>2, <2>1, <2>4, OthersOK DEF Keeps, EmptyInv
<1>3. CASE Leaves(c)
  <2>1. ClientOK(c)'
    BY <1>3 DEF Leaves, ClientOK, Honest
  <2>2. QED
    BY <1>1, <1>3, <2>1, OthersOK DEF Leaves, EmptyInv, stored
<1>4. CASE Takes(c)
  <2>1. UNCHANGED <<storedVersion, storedState>> /\ Base(c)' = version'[c]
    BY <1>4 DEF Takes, Base, stored
  <2>2. ClientOK(c)'
    BY SMT, <1>1, <1>4, <2>1 DEF Takes, ClientOK, Honest, StoreType
  <2>3. QED
    BY <1>1, <1>4, <2>1, <2>2, OthersOK DEF Takes, EmptyInv
<1>5. CASE Writes(c)
  <2>1. Base(c) = storedVersion /\ \A d \in Client \ {c} : pc[d] # "Commit"
    BY <1>5, WriterAlone
  <2>2. /\ storedVersion' = storedVersion + 1 /\ version'[c] = storedVersion'
        /\ storedState' = state'[c] /\ pc'[c] # "Commit"
    BY <1>5, <2>1 DEF Writes
  <2>3. ClientOK(c)'
    BY SMT, <1>1, <2>2 DEF ClientOK, Honest, Base, StoreType
  <2>4. ASSUME NEW d \in Client \ {c}
        PROVE  ClientOK(d)'
    <3>1. pc'[d] = pc[d] /\ version'[d] = version[d] /\ pc[d] # "Commit"
      BY <1>5, <2>1 DEF Writes, Apart
    <3>2. Base(d)' = version[d] /\ Base(d) = version[d]
      BY <3>1 DEF Base
    <3>3. pc'[d] # "None" => version[d] <= storedVersion
      BY <1>1, <3>1, <3>2 DEF ClientOK, Honest
    <3>4. pc'[d] # "None" => Base(d)' < storedVersion'
      BY SMT, <1>1, <2>2, <3>2, <3>3 DEF StoreType
    <3>5. QED
      BY SMT, <1>1, <2>2, <3>1, <3>2, <3>4 DEF ClientOK, Honest, StoreType
  <2>5. EmptyInv'
    BY SMT, <1>1, <2>2 DEF EmptyInv, StoreType
  <2>6. QED
    BY <2>3, <2>4, <2>5
<1>6. QED
  BY <1>2, <1>3, <1>4, <1>5 DEF Shape

LEMMA NextStore ==
  ASSUME StoreInv, Unmixed(mode), [Next]_vars
  PROVE  StoreInv'
<1>1. StoreType' /\ LockInv'
  BY StepShape, NextLock DEF StoreInv
<1>2. CASE deletes' # 0
  BY <1>1, <1>2 DEF StoreInv, CommitInv, EmptyInv, VersionHonest
<1>3. CASE deletes' = 0
  <2>1. \/ \E c \in Client : Shape(c)
        \/ UNCHANGED <<stored, pc, version, state, deletes, mode>>
    BY SMT, <1>3, StepShape DEF StoreInv
  <2>2. deletes = 0
    BY <1>3, <2>1 DEF Shape
  <2>3. CASE \E c \in Client : Shape(c)
    <3>1. EmptyInv' /\ \A d \in Client : ClientOK(d)'
      BY <1>1, <2>2, <2>3, ShapeOK
    <3>2. CommitInv' /\ VersionHonest'
      BY <3>1 DEF CommitInv, VersionHonest, ClientOK, Honest
    <3>3. QED
      BY <1>1, <3>1, <3>2 DEF StoreInv
  <2>4. CASE UNCHANGED <<stored, pc, version, state, deletes, mode>>
    <3>1. CommitInv' /\ EmptyInv' /\ VersionHonest'
      BY <2>4 DEF StoreInv, CommitInv, EmptyInv, VersionHonest, Base, stored
    <3>2. QED
      BY <1>1, <3>1 DEF StoreInv
  <2>5. QED
    BY <2>1, <2>3, <2>4
<1>4. QED
  BY <1>2, <1>3

LEMMA ModeKept == [Next]_vars => UNCHANGED mode
<1>1. ASSUME NEW c \in Client, New(c) \/ Find(c) \/ Raise(c) \/ Discard(c)
      PROVE  UNCHANGED mode
  BY <1>1 DEF New, Find, Raise, Discard
<1>2. ASSUME NEW c \in Client,
             SaveAndEnqueueIn(c) \/ Begin(c) \/ TxError(c) \/ DeliveryError(c)
      PROVE  UNCHANGED mode
  BY <1>2 DEF SaveAndEnqueueIn, Begin, TxError, DeliveryError
<1>3. ASSUME NEW c \in Client, Save(c) \/ RepublishPending(c) \/ Drop(c)
      PROVE  UNCHANGED mode
  BY <1>3 DEF Save, RepublishPending, Drop
<1>4. ASSUME NEW c \in Client, SaveStep(c)
      PROVE  UNCHANGED mode
  BY <1>4 DEF SaveStep, SaveInTx, Commit, InsertRow, Committed, Publish, Enqueue, Delivered
<1>5. Delete => UNCHANGED mode
  BY DEF Delete
<1>6. UNCHANGED vars => UNCHANGED mode
  BY DEF vars
<1>7. QED
  BY <1>1, <1>2, <1>3, <1>4, <1>5, <1>6 DEF Next

\* A step that deletes nothing removes nothing from what is stored.
LEMMA StoredGrows ==
  ASSUME StoreInv, Unmixed(mode), [Next]_vars, deletes' = 0
  PROVE  deletes = 0 /\ storedState \subseteq storedState'
<1>1. \/ \E c \in Client : Shape(c)
      \/ UNCHANGED <<stored, pc, version, state, deletes, mode>>
  BY SMT, StepShape DEF StoreInv
<1>2. deletes = 0
  BY <1>1 DEF Shape
<1>3. ASSUME NEW c \in Client, Shape(c)
      PROVE  storedState \subseteq storedState'
  <2>1. CASE Writes(c)
    BY <1>2, <1>3, <2>1, WriterAlone DEF Shape, Writes
  <2>2. QED
    BY <1>3, <2>1 DEF Shape, Keeps, Leaves, Takes, stored
<1>4. QED
  BY <1>1, <1>2, <1>3 DEF stored

\* Unless both ways of writing are mixed, no client's version is ever ahead of
\* the stored one until a delete, and a client at the stored version holds all
\* that is stored, whatever failed, was reverted or dropped before.
THEOREM VersionsAreHonest ==
  ASSUME \A m \in Modes : Unmixed(m)
  PROVE  Spec => []VersionHonest
<1>1. Init => StoreInv /\ Unmixed(mode)
  BY InitStore DEF Init
<1>2. StoreInv /\ Unmixed(mode) /\ [Next]_vars => StoreInv' /\ Unmixed(mode)'
  BY NextStore, ModeKept DEF Unmixed
<1>3. StoreInv => VersionHonest
  BY DEF StoreInv
<1>4. QED
  BY <1>1, <1>2, <1>3, PTL DEF Spec

\* Unless both ways of writing are mixed, no save ever removes what an earlier
\* one stored, until a delete.
THEOREM NoUpdateLost ==
  ASSUME \A m \in Modes : Unmixed(m)
  PROVE  Spec => NoLostUpdate
<1>1. Init => StoreInv /\ Unmixed(mode)
  BY InitStore DEF Init
<1>2. StoreInv /\ Unmixed(mode) /\ [Next]_vars => StoreInv' /\ Unmixed(mode)'
  BY NextStore, ModeKept DEF Unmixed
<1>3. StoreInv /\ Unmixed(mode) /\ [Next]_vars =>
        [deletes' = 0 => storedState \subseteq storedState']_vars
  <2> SUFFICES ASSUME StoreInv, Unmixed(mode), [Next]_vars, deletes' = 0
               PROVE  storedState \subseteq storedState'
    OBVIOUS
  <2>1. QED
    BY StoredGrows
<1>4. QED
  BY <1>1, <1>2, <1>3, PTL DEF Spec, NoLostUpdate

-----------------------------------------------------------------------------
(* Sequences *)

Increasing(s) == \A i, j \in DOMAIN s : i < j => s[i][2] < s[j][2]

(* Facts about sequences *)

LEMMA LenFacts ==
  ASSUME NEW S, NEW s \in Seq(S)
  PROVE  Len(s) \in Nat /\ DOMAIN s = 1..Len(s) /\ (s = <<>> <=> Len(s) = 0)
BY SMT

\* t is s with e at its end.
Longer(s, e, t) ==
  /\ Len(s) \in Nat /\ DOMAIN s = 1..Len(s) /\ DOMAIN t = 1..(Len(s) + 1)
  /\ Len(t) = Len(s) + 1
  /\ \A i \in 1..Len(s) : t[i] = s[i]
  /\ t[Len(s) + 1] = e

LEMMA Appended ==
  ASSUME NEW S, NEW s \in Seq(S), NEW e \in S, NEW t, t = Append(s, e)
  PROVE  t \in Seq(S) /\ Longer(s, e, t)
BY SMT DEF Longer

LEMMA TailFacts ==
  ASSUME NEW S, NEW s \in Seq(S), s # <<>>
  PROVE  /\ Head(s) \in S /\ Tail(s) \in Seq(S) /\ Len(Tail(s)) = Len(s) - 1
         /\ DOMAIN Tail(s) = 1..(Len(s) - 1) /\ Len(s) \in Nat \ {0} /\ Head(s) = s[1]
         /\ \A i \in 1..(Len(s) - 1) : Tail(s)[i] = s[i + 1]
BY SMT

LEMMA ConcatEmpty ==
  ASSUME NEW S, NEW s \in Seq(S)
  PROVE  s \o <<>> = s /\ <<>> \o s = s
BY SMT

LEMMA ElemsEmpty == Elems(<<>>) = {}
BY SMT DEF Elems

LEMMA ElemsType ==
  ASSUME NEW S, NEW s \in Seq(S)
  PROVE  Elems(s) \subseteq S
BY SMT DEF Elems

LEMMA ElemsAppend ==
  ASSUME NEW S, NEW s \in Seq(S), NEW x \in S
  PROVE  Elems(Append(s, x)) = Elems(s) \cup {x} /\ Append(s, x) \in Seq(S)
<1>1. /\ Append(s, x) \in Seq(S) /\ Len(Append(s, x)) = Len(s) + 1
      /\ \A i \in 1..Len(s) : Append(s, x)[i] = s[i]
      /\ Append(s, x)[Len(s) + 1] = x
  BY SMT, Appended DEF Longer
<1>2. DOMAIN s = 1..Len(s) /\ DOMAIN Append(s, x) = 1..(Len(s) + 1) /\ Len(s) \in Nat
  BY SMT, Appended DEF Longer
<1>3. QED
  BY SMT, <1>1, <1>2 DEF Elems

LEMMA ElemsTail ==
  ASSUME NEW S, NEW s \in Seq(S), s # <<>>
  PROVE  /\ Head(s) \in S /\ Tail(s) \in Seq(S)
         /\ Elems(s) = {Head(s)} \cup Elems(Tail(s))
<1>1. /\ Head(s) \in S /\ Tail(s) \in Seq(S) /\ Len(Tail(s)) = Len(s) - 1
      /\ \A i \in 1..(Len(s) - 1) : Tail(s)[i] = s[i + 1]
  BY TailFacts
<1>2. /\ DOMAIN s = 1..Len(s) /\ DOMAIN Tail(s) = 1..(Len(s) - 1) /\ Len(s) \in Nat \ {0}
      /\ Head(s) = s[1]
  BY TailFacts, LenFacts
<1>3. Elems(s) \subseteq {Head(s)} \cup Elems(Tail(s))
  <2> SUFFICES ASSUME NEW i \in 1..Len(s), i # 1
               PROVE  s[i] \in Elems(Tail(s))
    BY <1>2 DEF Elems
  <2>1. i - 1 \in 1..(Len(s) - 1) /\ s[i] = Tail(s)[i - 1]
    BY SMT, <1>1, <1>2
  <2>2. QED
    BY <1>2, <2>1 DEF Elems
<1>4. {Head(s)} \cup Elems(Tail(s)) \subseteq Elems(s)
  BY SMT, <1>1, <1>2 DEF Elems
<1>5. QED
  BY <1>1, <1>3, <1>4

LEMMA IncreasingAppend ==
  ASSUME NEW s \in Seq(Raised), Increasing(s), NEW x \in Raised, \A e \in Elems(s) : e[2] < x[2]
  PROVE  Increasing(Append(s, x))
<1>1. /\ Len(Append(s, x)) = Len(s) + 1
      /\ \A i \in 1..Len(s) : Append(s, x)[i] = s[i]
      /\ Append(s, x)[Len(s) + 1] = x
  BY SMT, Appended DEF Longer
<1>2. DOMAIN s = 1..Len(s) /\ DOMAIN Append(s, x) = 1..(Len(s) + 1) /\ Len(s) \in Nat
  BY SMT, Appended DEF Longer
<1>3. QED
  BY SMT, <1>1, <1>2 DEF Increasing, Elems

LEMMA IncreasingTail ==
  ASSUME NEW s \in Seq(Raised), s # <<>>, Increasing(s)
  PROVE  Increasing(Tail(s)) /\ \A e \in Elems(Tail(s)) : Head(s)[2] < e[2]
<1>1. /\ Len(Tail(s)) = Len(s) - 1
      /\ \A i \in 1..(Len(s) - 1) : Tail(s)[i] = s[i + 1]
  BY TailFacts
<1>2. /\ DOMAIN s = 1..Len(s) /\ DOMAIN Tail(s) = 1..(Len(s) - 1) /\ Len(s) \in Nat \ {0}
      /\ Head(s) = s[1]
  BY TailFacts, LenFacts
<1>3. \A i \in 1..(Len(s) - 1) : i + 1 \in 1..Len(s) /\ Tail(s)[i] = s[i + 1]
  BY SMT, <1>1, <1>2
<1>4. Increasing(Tail(s))
  BY SMT, <1>2, <1>3 DEF Increasing
<1>5. ASSUME NEW i \in 1..(Len(s) - 1)
      PROVE  Head(s)[2] < Tail(s)[i][2]
  <2>1. 1 \in DOMAIN s /\ i + 1 \in DOMAIN s /\ 1 < i + 1
    BY SMT, <1>2
  <2>2. s[1][2] < s[i + 1][2]
    BY <2>1 DEF Increasing
  <2>3. QED
    BY <1>2, <1>3, <2>2
<1>6. QED
  BY <1>2, <1>4, <1>5 DEF Elems

-----------------------------------------------------------------------------
(* The events on their way *)

\* A client whose aggregate is stored and whose events are on their way.
Saved(c) == pc[c] \in {"Rows", "Publish", "Enqueue"}

\* What a client has still to deliver, in the order it raised it.
Todo(c) == IF Saved(c) THEN batch[c] ELSE pending[c]

Sent == OutboxEvents \cup Elems(published)

EventType ==
  /\ pending \in [Client -> Seq(Raised)] /\ batch \in [Client -> Seq(Raised)]
  /\ outbox \in Seq([event : Raised, version : Nat]) /\ published \in Seq(Raised)

\* The two sequences of a client through the steps of a save.
Stage(c) ==
  /\ pc[c] = "None" => pending[c] = <<>>
  /\ pc[c] \in {"None", "Have"} => batch[c] = <<>>
  /\ pc[c] \in {"Begin", "SaveInTx", "Commit"} => batch[c] = pending[c]
  /\ pc[c] \in {"Publish", "Enqueue"} => pending[c] = <<>> /\ mode[c] # "Outbox"

FlowInv == StoreType /\ LockInv /\ EventType /\ \A c \in Client : Stage(c)

\* What c has still to deliver is its own, in order, and after all it has
\* delivered.
InOrder(c) ==
  /\ Increasing(Todo(c))
  /\ \A e \in Elems(Todo(c)) : e[1] = c /\ e[2] <= raised[c]
  /\ \A e \in Sent : e[1] = c =>
       e[2] <= raised[c] /\ \A f \in Elems(Todo(c)) : e[2] < f[2]

Once ==
  /\ \A i, j \in DOMAIN outbox : outbox[i].event = outbox[j].event => i = j
  /\ \A i, j \in DOMAIN published :
       i < j => /\ published[i] # published[j]
                /\ published[i][1] = published[j][1] => published[i][2] < published[j][2]

OrderInv == Once /\ \A c \in Client : InOrder(c)

\* Every applied event was raised, and what a client has to deliver is part of
\* its state.
Applied ==
  /\ \A e \in storedState : e[2] <= raised[e[1]]
  /\ \A c \in Client : /\ \A e \in state[c] : e[2] <= raised[e[1]]
                       /\ Elems(Todo(c)) \subseteq state[c]

Private ==
  \A c \in Client : mode[c] = "Outbox" /\ ~Saved(c) =>
    \A e \in Elems(Todo(c)) : e \notin storedState /\ \A d \in Client \ {c} : e \notin state[d]

Safe(e) ==
  \/ e \in Sent
  \/ \E c \in Client : e \in Elems(Todo(c))
  \/ e \in abandoned /\ mode[e[1]] # "Outbox"

KeptInv ==
  /\ Applied /\ Private
  /\ \A e \in storedState : Safe(e)
  /\ \A c \in Client : \A e \in state[c] : Safe(e)

StoredInv ==
  deletes = 0 =>
    /\ Sent \subseteq storedState
    /\ \A c \in Client : Saved(c) => Elems(Todo(c)) \subseteq storedState

RowInv ==
  deletes = 0 /\ (\A c \in Client : mode[c] = "Outbox") =>
    /\ \A i \in DOMAIN outbox : outbox[i].version <= storedVersion
    /\ \A i, j \in DOMAIN outbox : i < j => outbox[i].version <= outbox[j].version
    /\ \A c \in Client : pc[c] = "Rows" => version[c] = storedVersion

-----------------------------------------------------------------------------
(* What a step of a client does to the events *)

\* The other clients' events and aggregates are not touched.
Away(c) ==
  \A d \in Client \ {c} : /\ Todo(d)' = Todo(d) /\ Saved(d)' = Saved(d) /\ pc'[d] = pc[d]
                          /\ state'[d] = state[d] /\ raised'[d] = raised[d]

Silent == UNCHANGED <<outbox, published, abandoned>>

\* Nothing is delivered, nothing let go.  Events become saved ones where they
\* are part of the stored state, and saved ones go back to the client only
\* where the bus or the outbox is not reached through the unit of work.
Waits(c) ==
  /\ Silent /\ UNCHANGED <<raised, storedState>>
  /\ Todo(c)' = Todo(c) /\ state'[c] = state[c]
  /\ Saved(c)' => Saved(c) \/ Elems(Todo(c)) \subseteq storedState
  /\ mode[c] = "Outbox" /\ Saved(c) /\ ~Saved(c)' => Todo(c) = <<>>

\* The aggregate is stored, with all that is to be delivered.
Stores(c) ==
  /\ Silent /\ UNCHANGED raised
  /\ Todo(c)' = Todo(c) /\ state'[c] = state[c]
  /\ Saved(c)' /\ storedState' = state[c]

Starts(c) ==
  /\ Silent /\ UNCHANGED <<raised, storedState>>
  /\ Todo(c)' = <<>> /\ Todo(c) = <<>> /\ ~Saved(c)'
  /\ state'[c] \in {{}, storedState}

Adds(c) ==
  /\ Silent /\ UNCHANGED storedState
  /\ Todo(c)' = Append(Todo(c), <<c, raised[c] + 1>>) /\ ~Saved(c) /\ ~Saved(c)'
  /\ raised'[c] = raised[c] + 1
  /\ state'[c] = state[c] \cup {<<c, raised[c] + 1>>}

Sends(c) ==
  /\ UNCHANGED <<raised, storedState, abandoned, pc>>
  /\ Saved(c) /\ Saved(c)' /\ Todo(c) # <<>> /\ Todo(c)' = Tail(Todo(c)) /\ state'[c] = state[c]
  /\ \/ /\ outbox' = Append(outbox, [event |-> Head(Todo(c)), version |-> version[c]])
        /\ UNCHANGED published
     \/ published' = Append(published, Head(Todo(c))) /\ UNCHANGED outbox /\ mode[c] # "Outbox"

GivesUp(c) ==
  /\ UNCHANGED <<raised, storedState, outbox, published>>
  /\ Todo(c)' = <<>> /\ ~Saved(c)'
  /\ state'[c] = {} \/ (state'[c] = state[c] /\ mode[c] # "Outbox")
  /\ abandoned \subseteq abandoned' /\ Elems(Todo(c)) \subseteq abandoned'
  /\ Saved(c) => mode[c] # "Outbox"

EventStep(c) ==
  /\ Away(c) /\ UNCHANGED mode
  /\ Waits(c) \/ Stores(c) \/ Starts(c) \/ Adds(c) \/ Sends(c) \/ GivesUp(c)

\* The step and the sequences of c become l, p and b.
Turns(c, l, p, b) ==
  /\ pc' = [pc EXCEPT ![c] = l]
  /\ pending' = [pending EXCEPT ![c] = p]
  /\ batch' = [batch EXCEPT ![c] = b]

LEMMA TurnEffect ==
  ASSUME StoreType, EventType, NEW c \in Client, NEW l \in Pcs,
         NEW p \in Seq(Raised), NEW b \in Seq(Raised), Turns(c, l, p, b), UNCHANGED mode
  PROVE  /\ pending' \in [Client -> Seq(Raised)] /\ batch' \in [Client -> Seq(Raised)]
         /\ pc'[c] = l /\ pending'[c] = p /\ batch'[c] = b
         /\ \A d \in Client \ {c} : /\ pc'[d] = pc[d] /\ Todo(d)' = Todo(d) /\ Saved(d)' = Saved(d)
                                    /\ Stage(d)' = Stage(d)
<1>1. pc \in [Client -> Pcs] /\ pending \in [Client -> Seq(Raised)] /\ batch \in [Client -> Seq(Raised)]
  BY DEF StoreType, EventType
<1>2. /\ pc'[c] = l /\ pending'[c] = p /\ batch'[c] = b
      /\ pending' \in [Client -> Seq(Raised)] /\ batch' \in [Client -> Seq(Raised)]
      /\ \A d \in Client \ {c} : pc'[d] = pc[d] /\ pending'[d] = pending[d] /\ batch'[d] = batch[d]
  BY <1>1 DEF Turns
<1>3. ASSUME NEW d \in Client \ {c}
      PROVE  Todo(d)' = Todo(d) /\ Saved(d)' = Saved(d) /\ Stage(d)' = Stage(d)
  BY <1>2 DEF Todo, Saved, Stage
<1>4. QED
  BY <1>2, <1>3

LEMMA Same ==
  ASSUME NEW S, NEW f \in [Client -> S], NEW c \in Client
  PROVE  f[c] \in S /\ f = [f EXCEPT ![c] = f[c]]
OBVIOUS

\* The sequences after a step that delivers nothing and raises nothing.
LEMMA StageStep ==
  ASSUME FlowInv, NEW c \in Client, NEW l \in Pcs, NEW p \in Seq(Raised), NEW b \in Seq(Raised),
         Turns(c, l, p, b), UNCHANGED <<outbox, published, mode>>,
         l = "None" => p = <<>>, l \in {"None", "Have"} => b = <<>>,
         l \in {"Begin", "SaveInTx", "Commit"} => b = p,
         l \in {"Publish", "Enqueue"} => p = <<>> /\ mode[c] # "Outbox"
  PROVE  /\ EventType' /\ \A d \in Client : Stage(d)'
         /\ pc'[c] = l /\ Todo(c)' = IF l \in {"Rows", "Publish", "Enqueue"} THEN b ELSE p
         /\ Saved(c)' = (l \in {"Rows", "Publish", "Enqueue"})
         /\ \A d \in Client \ {c} : pc'[d] = pc[d] /\ Todo(d)' = Todo(d) /\ Saved(d)' = Saved(d)
<1>1. StoreType /\ EventType /\ \A d \in Client : Stage(d)
  BY DEF FlowInv
<1>2. /\ pending' \in [Client -> Seq(Raised)] /\ batch' \in [Client -> Seq(Raised)]
      /\ pc'[c] = l /\ pending'[c] = p /\ batch'[c] = b
      /\ \A d \in Client \ {c} : /\ pc'[d] = pc[d] /\ Todo(d)' = Todo(d) /\ Saved(d)' = Saved(d)
                                 /\ Stage(d)' = Stage(d)
  BY <1>1, TurnEffect
<1>3. EventType'
  BY <1>1, <1>2 DEF EventType
<1>4. Stage(c)'
  BY <1>2 DEF Stage
<1>5. Todo(c)' = (IF l \in {"Rows", "Publish", "Enqueue"} THEN b ELSE p)
      /\ Saved(c)' = (l \in {"Rows", "Publish", "Enqueue"})
  BY <1>2 DEF Todo, Saved
<1>6. QED
  BY <1>1, <1>2, <1>3, <1>4, <1>5

Flows(c) == EventType' /\ (\A d \in Client : Stage(d)') /\ EventStep(c)

LEMMA Seqs ==
  ASSUME FlowInv, NEW c \in Client
  PROVE  /\ pending[c] \in Seq(Raised) /\ batch[c] \in Seq(Raised) /\ <<>> \in Seq(Raised)
         /\ pending = [pending EXCEPT ![c] = pending[c]] /\ batch = [batch EXCEPT ![c] = batch[c]]
         /\ pc[c] \in Pcs /\ Stage(c)
<1>1. pc \in [Client -> Pcs] /\ pending \in [Client -> Seq(Raised)] /\ batch \in [Client -> Seq(Raised)]
      /\ Stage(c)
  BY DEF FlowInv, StoreType, EventType
<1>2. QED
  BY SMT, <1>1, Same

LEMMA StateStep ==
  ASSUME FlowInv, NEW c \in Client, NEW x \in SUBSET Raised, state' = [state EXCEPT ![c] = x]
  PROVE  state'[c] = x /\ \A d \in Client \ {c} : state'[d] = state[d]
BY DEF FlowInv, StoreType

LEMMA StartFlows ==
  ASSUME FlowInv, NEW c \in Client, New(c) \/ Find(c)
  PROVE  Flows(c)
<1>1. /\ pc[c] = "None" /\ pc' = [pc EXCEPT ![c] = "Have"] /\ pending' = [pending EXCEPT ![c] = <<>>]
      /\ UNCHANGED <<batch, raised, outbox, published, abandoned, mode, storedState>>
      /\ state' = [state EXCEPT ![c] = {}] \/ state' = [state EXCEPT ![c] = storedState]
  BY DEF New, Find, Goto, stored
<1>2. /\ pending[c] = <<>> /\ batch[c] = <<>> /\ <<>> \in Seq(Raised)
      /\ batch = [batch EXCEPT ![c] = <<>>]
  BY <1>1, Seqs DEF Stage
<1>3. Turns(c, "Have", <<>>, <<>>)
  BY <1>1, <1>2 DEF Turns
<1>4. /\ EventType' /\ \A d \in Client : Stage(d)'
      /\ Todo(c)' = <<>> /\ ~Saved(c)'
      /\ \A d \in Client \ {c} : pc'[d] = pc[d] /\ Todo(d)' = Todo(d) /\ Saved(d)' = Saved(d)
  BY <1>1, <1>2, <1>3, StageStep DEF Pcs
<1>5. Todo(c) = <<>>
  BY <1>1, <1>2 DEF Todo, Saved
<1>6. state'[c] \in {{}, storedState} /\ \A d \in Client \ {c} : state'[d] = state[d]
  BY <1>1, StateStep DEF FlowInv, StoreType
<1>7. QED
  BY <1>1, <1>4, <1>5, <1>6 DEF Flows, EventStep, Away, Starts, Silent

LEMMA RaiseFlows ==
  ASSUME FlowInv, NEW c \in Client, Raise(c)
  PROVE  Flows(c)
<1> DEFINE e == <<c, raised[c] + 1>>
<1>1. /\ pc[c] = "Have" /\ pc' = pc /\ pending' = [pending EXCEPT ![c] = Append(pending[c], e)]
      /\ UNCHANGED <<batch, outbox, published, abandoned, mode, storedState>>
      /\ raised' = [raised EXCEPT ![c] = raised[c] + 1]
      /\ state' = [state EXCEPT ![c] = state[c] \cup {e}]
  BY DEF Raise, stored
<1>2. /\ batch[c] = <<>> /\ <<>> \in Seq(Raised) /\ pending[c] \in Seq(Raised)
      /\ batch = [batch EXCEPT ![c] = <<>>]
  BY <1>1, Seqs DEF Stage
<1>3. raised \in [Client -> Nat] /\ state[c] \in SUBSET Raised /\ pc \in [Client -> Pcs]
  BY DEF FlowInv, StoreType
<1>4. e \in Raised
  BY SMT, <1>3 DEF Raised
<1>5. Append(pending[c], e) \in Seq(Raised) /\ pc = [pc EXCEPT ![c] = "Have"]
  BY <1>1, <1>2, <1>3, <1>4, ElemsAppend
<1>6. Turns(c, "Have", Append(pending[c], e), <<>>)
  BY <1>1, <1>2, <1>5 DEF Turns
<1>7. /\ EventType' /\ \A d \in Client : Stage(d)'
      /\ Todo(c)' = Append(pending[c], e) /\ ~Saved(c)'
      /\ \A d \in Client \ {c} : pc'[d] = pc[d] /\ Todo(d)' = Todo(d) /\ Saved(d)' = Saved(d)
  <2>1. "Have" \in Pcs /\ "Have" \notin {"Rows", "Publish", "Enqueue"}
    BY DEF Pcs
  <2>2. /\ UNCHANGED <<outbox, published, mode>>
        /\ <<>> \in Seq(Raised) /\ Append(pending[c], e) \in Seq(Raised)
    BY <1>1, <1>2, <1>5
  <2>3. QED
    BY <1>6, <2>1, <2>2, StageStep
<1>8. Todo(c) = pending[c] /\ ~Saved(c)
  BY <1>1 DEF Todo, Saved
<1>9. state[c] \cup {e} \in SUBSET Raised
  BY <1>3, <1>4
<1>10. state'[c] = state[c] \cup {e} /\ \A d \in Client \ {c} : state'[d] = state[d]
  BY <1>1, <1>9, StateStep
<1>11. raised'[c] = raised[c] + 1 /\ \A d \in Client \ {c} : raised'[d] = raised[d]
  BY <1>1, <1>3
<1>12. QED
  BY <1>1, <1>7, <1>8, <1>10, <1>11 DEF Flows, EventStep, Away, Adds, Silent

LEMMA GiveUpFlows ==
  ASSUME FlowInv, NEW c \in Client, Discard(c)
  PROVE  Flows(c)
<1>1. /\ pc[c] = "Have" /\ pc' = [pc EXCEPT ![c] = "None"]
      /\ pending' = [pending EXCEPT ![c] = <<>>]
      /\ UNCHANGED <<batch, raised, outbox, published, mode, storedState>>
      /\ state' = [state EXCEPT ![c] = {}]
      /\ abandoned' = abandoned \cup Elems(pending[c])
  BY DEF Discard, Goto, stored
<1>2. batch[c] = <<>> /\ <<>> \in Seq(Raised) /\ batch = [batch EXCEPT ![c] = batch[c]]
  BY <1>1, Seqs DEF Stage
<1>3. Turns(c, "None", <<>>, <<>>)
  BY <1>1, <1>2 DEF Turns
<1>4. /\ EventType' /\ \A d \in Client : Stage(d)'
      /\ Todo(c)' = <<>> /\ ~Saved(c)'
      /\ \A d \in Client \ {c} : pc'[d] = pc[d] /\ Todo(d)' = Todo(d) /\ Saved(d)' = Saved(d)
  BY <1>1, <1>2, <1>3, StageStep DEF Pcs
<1>5. /\ abandoned \subseteq abandoned' /\ Elems(Todo(c)) \subseteq abandoned'
      /\ ~Saved(c)
  BY <1>1 DEF Todo, Saved
<1>6. state' = [state EXCEPT ![c] = {}] /\ state \in [Client -> SUBSET Raised]
  BY <1>1 DEF FlowInv, StoreType
<1>7. state'[c] = {} /\ \A d \in Client \ {c} : state'[d] = state[d]
  BY <1>6
<1>8. QED
  BY <1>1, <1>4, <1>5, <1>7 DEF Flows, EventStep, Away, GivesUp

\* The events of a dropped delivery are let go, the aggregate is not.
LEMMA DropFlows ==
  ASSUME FlowInv, NEW c \in Client, Drop(c), pc[c] # "Begin"
  PROVE  Flows(c)
<1>1. /\ pc[c] \in {"Publish", "Enqueue"} /\ pc' = [pc EXCEPT ![c] = "Have"]
      /\ batch' = [batch EXCEPT ![c] = <<>>]
      /\ UNCHANGED <<pending, raised, outbox, published, mode, storedState, state>>
      /\ abandoned' = abandoned \cup Elems(batch[c])
  BY DEF Drop, Goto, stored, aggregate
<1>2. /\ pending[c] = <<>> /\ mode[c] # "Outbox"
      /\ <<>> \in Seq(Raised) /\ pending = [pending EXCEPT ![c] = pending[c]]
  BY <1>1, Seqs DEF Stage
<1>3. Turns(c, "Have", <<>>, <<>>)
  BY <1>1, <1>2 DEF Turns
<1>4. /\ EventType' /\ \A d \in Client : Stage(d)'
      /\ Todo(c)' = <<>> /\ ~Saved(c)'
      /\ \A d \in Client \ {c} : pc'[d] = pc[d] /\ Todo(d)' = Todo(d) /\ Saved(d)' = Saved(d)
  BY <1>1, <1>2, <1>3, StageStep DEF Pcs
<1>5. abandoned \subseteq abandoned' /\ Elems(Todo(c)) \subseteq abandoned'
  BY <1>1 DEF Todo, Saved
<1>6. QED
  BY <1>1, <1>2, <1>4, <1>5 DEF Flows, EventStep, Away, GivesUp

\* A step that moves a client with its events, or writes its aggregate.
LEMMA MoveFlows ==
  ASSUME FlowInv, NEW c \in Client, NEW l \in Pcs, NEW p \in Seq(Raised), NEW b \in Seq(Raised),
         Turns(c, l, p, b),
         UNCHANGED <<raised, outbox, published, abandoned, mode, state>>,
         l = "None" => p = <<>>, l \in {"None", "Have"} => b = <<>>,
         l \in {"Begin", "SaveInTx", "Commit"} => b = p,
         l \in {"Publish", "Enqueue"} => p = <<>> /\ mode[c] # "Outbox",
         Todo(c) = IF l \in {"Rows", "Publish", "Enqueue"} THEN b ELSE p,
         \/ /\ storedState' = storedState
            /\ l \in {"Rows", "Publish", "Enqueue"} => Saved(c) \/ Elems(Todo(c)) \subseteq storedState
            /\ mode[c] = "Outbox" /\ Saved(c) /\ l \notin {"Rows", "Publish", "Enqueue"} =>
                 Todo(c) = <<>>
         \/ storedState' = state[c] /\ l \in {"Rows", "Publish", "Enqueue"}
  PROVE  Flows(c)
<1>1. /\ EventType' /\ \A d \in Client : Stage(d)'
      /\ Todo(c)' = Todo(c)
      /\ Saved(c)' = (l \in {"Rows", "Publish", "Enqueue"})
      /\ \A d \in Client \ {c} : pc'[d] = pc[d] /\ Todo(d)' = Todo(d) /\ Saved(d)' = Saved(d)
  BY StageStep
<1>2. Away(c)
  BY <1>1 DEF Away
<1>3. Waits(c) \/ Stores(c)
  BY <1>1 DEF Waits, Stores, Silent
<1>4. QED
  BY <1>1, <1>2, <1>3 DEF Flows, EventStep

LEMMA TxFlows ==
  ASSUME FlowInv, NEW c \in Client,
         \/ SaveAndEnqueueIn(c) \/ Begin(c) \/ SaveInTx(c) \/ TxError(c)
         \/ Drop(c) /\ pc[c] = "Begin"
  PROVE  Flows(c)
<1>1. /\ pc[c] \in {"Have", "Begin", "SaveInTx", "Commit"}
      /\ UNCHANGED <<pending, raised, outbox, published, abandoned, mode, state, storedState>>
  BY DEF SaveAndEnqueueIn, Begin, SaveInTx, TxError, Drop, Fault, stored, aggregate
<1>2. /\ pending[c] \in Seq(Raised) /\ <<>> \in Seq(Raised)
      /\ pending = [pending EXCEPT ![c] = pending[c]] /\ batch = [batch EXCEPT ![c] = batch[c]]
      /\ pc[c] \in {"Begin", "SaveInTx", "Commit"} => batch[c] = pending[c]
  BY Seqs DEF Stage
<1>3. \/ Turns(c, "Begin", pending[c], pending[c])
      \/ Turns(c, "SaveInTx", pending[c], pending[c])
      \/ Turns(c, "Commit", pending[c], pending[c])
      \/ Turns(c, "Have", pending[c], <<>>)
  <2>1. CASE SaveAndEnqueueIn(c)
    BY <1>1, <1>2, <2>1 DEF SaveAndEnqueueIn, Turns, Goto
  <2>2. CASE Begin(c)
    BY <1>1, <1>2, <2>2 DEF Begin, Turns, Goto
  <2>3. CASE SaveInTx(c)
    BY <1>1, <1>2, <2>3 DEF SaveInTx, RollBack, Turns, Goto
  <2>4. CASE TxError(c)
    BY <1>1, <1>2, <2>4 DEF TxError, RollBack, Turns, Goto
  <2>5. CASE Drop(c) /\ pc[c] = "Begin"
    BY <1>1, <1>2, <2>5 DEF Drop, Turns, Goto
  <2>6. QED
    BY <2>1, <2>2, <2>3, <2>4, <2>5
<1>4. Todo(c) = pending[c] /\ ~Saved(c)
  BY <1>1 DEF Todo, Saved
<1>5. ASSUME NEW l \in {"Begin", "SaveInTx", "Commit"}, Turns(c, l, pending[c], pending[c])
      PROVE  Flows(c)
  <2>1. l \in Pcs /\ l \notin {"Rows", "Publish", "Enqueue", "None", "Have"}
    BY DEF Pcs
  <2>2. QED
    BY <1>1, <1>2, <1>4, <1>5, <2>1, MoveFlows
<1>6. ASSUME Turns(c, "Have", pending[c], <<>>)
      PROVE  Flows(c)
  BY <1>1, <1>2, <1>4, <1>6, MoveFlows DEF Pcs
<1>7. QED
  BY <1>3, <1>5, <1>6

LEMMA CommitFlows ==
  ASSUME FlowInv, NEW c \in Client, Commit(c)
  PROVE  Flows(c)
<1>1. /\ pc[c] = "Commit" /\ storedState' = state[c] /\ pc' = [pc EXCEPT ![c] = "Rows"]
      /\ UNCHANGED <<pending, batch, raised, outbox, published, abandoned, mode, state>>
  BY DEF Commit, Goto, aggregate
<1>2. /\ pending[c] \in Seq(Raised) /\ batch[c] = pending[c]
      /\ pending = [pending EXCEPT ![c] = pending[c]] /\ batch = [batch EXCEPT ![c] = batch[c]]
  BY <1>1, Seqs DEF Stage
<1>3. Turns(c, "Rows", pending[c], pending[c])
  BY <1>1, <1>2 DEF Turns
<1>4. Todo(c) = pending[c]
  BY <1>1 DEF Todo, Saved
<1>5. QED
  BY <1>1, <1>2, <1>3, <1>4, MoveFlows DEF Pcs

LEMMA SaveFlows ==
  ASSUME FlowInv, NEW c \in Client, Save(c)
  PROVE  Flows(c)
<1>1. /\ pc[c] = "Have" /\ mode[c] # "Outbox" /\ storedState' = state[c]
      /\ pending' = [pending EXCEPT ![c] = <<>>] /\ batch' = [batch EXCEPT ![c] = pending[c]]
      /\ \E l \in {"Publish", "Enqueue"} : pc' = [pc EXCEPT ![c] = l]
      /\ UNCHANGED <<raised, outbox, published, abandoned, mode, state>>
  BY DEF Save, Goto
<1>2. pending[c] \in Seq(Raised) /\ <<>> \in Seq(Raised)
  BY Seqs
<1>3. PICK l \in {"Publish", "Enqueue"} : Turns(c, l, <<>>, pending[c])
  BY <1>1 DEF Turns
<1>4. Todo(c) = pending[c]
  BY <1>1 DEF Todo, Saved
<1>5. QED
  BY <1>1, <1>2, <1>3, <1>4, MoveFlows DEF Pcs

LEMMA DoneFlows ==
  ASSUME FlowInv, NEW c \in Client, Committed(c) \/ Delivered(c) \/ DeliveryError(c)
  PROVE  Flows(c)
<1>1. /\ pc[c] \in {"Rows", "Publish", "Enqueue"} /\ pc' = [pc EXCEPT ![c] = "Have"]
      /\ UNCHANGED <<raised, outbox, published, abandoned, mode, state, storedState>>
  BY DEF Committed, Delivered, DeliveryError, Fault, Goto, stored, aggregate
<1>2. /\ pending[c] \in Seq(Raised) /\ batch[c] \in Seq(Raised) /\ <<>> \in Seq(Raised)
      /\ pending = [pending EXCEPT ![c] = pending[c]] /\ batch = [batch EXCEPT ![c] = batch[c]]
      /\ pc[c] \in {"Publish", "Enqueue"} => pending[c] = <<>> /\ mode[c] # "Outbox"
  BY Seqs DEF Stage
<1>3. /\ Turns(c, "Have", batch[c], <<>>)
      /\ mode[c] = "Outbox" => batch[c] = <<>>
  <2>1. CASE Committed(c)
    <3>1. batch[c] = <<>> /\ UNCHANGED batch /\ pending' = [pending EXCEPT ![c] = <<>>]
      BY <2>1 DEF Committed
    <3>2. QED
      BY <1>1, <1>2, <3>1 DEF Turns
  <2>2. CASE Delivered(c)
    <3>1. batch[c] = <<>> /\ UNCHANGED <<batch, pending>> /\ pc[c] \in {"Publish", "Enqueue"}
      BY <2>2 DEF Delivered, aggregate
    <3>2. QED
      BY <1>1, <1>2, <3>1 DEF Turns
  <2>3. CASE DeliveryError(c)
    <3>1. /\ pc[c] \in {"Publish", "Enqueue"} /\ batch' = [batch EXCEPT ![c] = <<>>]
          /\ pending' = [pending EXCEPT ![c] = batch[c] \o pending[c]]
      BY <2>3 DEF DeliveryError, Restore
    <3>2. batch[c] \o <<>> = batch[c]
      BY <1>2, ConcatEmpty
    <3>3. QED
      BY <1>1, <1>2, <3>1, <3>2 DEF Turns
  <2>4. QED
    BY <2>1, <2>2, <2>3
<1>4. Todo(c) = batch[c]
  BY <1>1 DEF Todo, Saved
<1>5. QED
  BY <1>1, <1>2, <1>3, <1>4, MoveFlows DEF Pcs

LEMMA RepublishFlows ==
  ASSUME FlowInv, NEW c \in Client, RepublishPending(c)
  PROVE  Flows(c)
<1>1. /\ pc[c] = "Have" /\ mode[c] # "Outbox" /\ Elems(pending[c]) \subseteq storedState
      /\ pending' = [pending EXCEPT ![c] = <<>>] /\ batch' = [batch EXCEPT ![c] = pending[c]]
      /\ pc' = [pc EXCEPT ![c] = "Publish"]
      /\ UNCHANGED <<raised, outbox, published, abandoned, mode, state, storedState>>
  BY DEF RepublishPending, Goto, stored
<1>2. pending[c] \in Seq(Raised) /\ <<>> \in Seq(Raised)
  BY Seqs
<1>3. Turns(c, "Publish", <<>>, pending[c])
  BY <1>1 DEF Turns
<1>4. Todo(c) = pending[c]
  BY <1>1 DEF Todo, Saved
<1>5. QED
  BY <1>1, <1>2, <1>3, <1>4, MoveFlows DEF Pcs

LEMMA SendFlows ==
  ASSUME FlowInv, NEW c \in Client, InsertRow(c) \/ Publish(c) \/ Enqueue(c)
  PROVE  Flows(c)
<1>1. /\ pc[c] \in {"Rows", "Publish", "Enqueue"} /\ batch[c] # <<>>
      /\ batch' = [batch EXCEPT ![c] = Tail(batch[c])]
      /\ UNCHANGED <<pc, pending, raised, abandoned, mode, state, storedState>>
      /\ \/ /\ outbox' = Append(outbox, [event |-> Head(batch[c]), version |-> version[c]])
            /\ UNCHANGED published
         \/ published' = Append(published, Head(batch[c])) /\ UNCHANGED outbox /\ pc[c] = "Publish"
  BY DEF InsertRow, Publish, Enqueue, stored, aggregate
<1>2. /\ pending[c] \in Seq(Raised) /\ batch[c] \in Seq(Raised) /\ pc[c] \in Pcs
      /\ pending = [pending EXCEPT ![c] = pending[c]] /\ Stage(c)
  BY Seqs
<1>3. Tail(batch[c]) \in Seq(Raised) /\ Head(batch[c]) \in Raised
  BY <1>1, <1>2, ElemsTail
<1>4. StoreType /\ EventType /\ \A d \in Client : Stage(d)
  BY DEF FlowInv
<1>5. Turns(c, pc[c], pending[c], Tail(batch[c]))
  <2>1. pc = [pc EXCEPT ![c] = pc[c]]
    BY <1>4, Same DEF StoreType
  <2>2. QED
    BY <1>1, <1>2, <2>1 DEF Turns
<1>6. /\ pending' \in [Client -> Seq(Raised)] /\ batch' \in [Client -> Seq(Raised)]
      /\ pc'[c] = pc[c] /\ pending'[c] = pending[c] /\ batch'[c] = Tail(batch[c])
      /\ \A d \in Client \ {c} : /\ pc'[d] = pc[d] /\ Todo(d)' = Todo(d) /\ Saved(d)' = Saved(d)
                                 /\ Stage(d)' = Stage(d)
  BY <1>1, <1>2, <1>3, <1>4, <1>5, TurnEffect
<1>7. outbox' \in Seq([event : Raised, version : Nat]) /\ published' \in Seq(Raised)
  <2>1. version[c] \in Nat
    BY <1>4 DEF StoreType
  <2>2. [event |-> Head(batch[c]), version |-> version[c]] \in [event : Raised, version : Nat]
    BY <1>3, <2>1
  <2>3. /\ Append(outbox, [event |-> Head(batch[c]), version |-> version[c]])
             \in Seq([event : Raised, version : Nat])
        /\ Append(published, Head(batch[c])) \in Seq(Raised)
        /\ outbox \in Seq([event : Raised, version : Nat]) /\ published \in Seq(Raised)
    BY SMT, <1>3, <1>4, <2>2 DEF EventType
  <2>4. QED
    BY <1>1, <2>3
<1>8. EventType'
  BY <1>6, <1>7 DEF EventType
<1>9. Stage(c)'
  BY <1>1, <1>2, <1>6 DEF Stage
<1>10. Todo(c)' = Tail(Todo(c)) /\ Todo(c) = batch[c] /\ Saved(c) /\ Saved(c)'
  BY <1>1, <1>6 DEF Todo, Saved
<1>11. pc[c] = "Publish" => mode[c] # "Outbox"
  BY <1>2 DEF Stage
<1>12. Sends(c)
  BY <1>1, <1>10, <1>11 DEF Sends
<1>13. QED
  BY <1>1, <1>4, <1>6, <1>8, <1>9, <1>12 DEF Flows, EventStep, Away

LEMMA NextFlow ==
  ASSUME FlowInv, [Next]_vars
  PROVE  /\ FlowInv'
         /\ \/ \E c \in Client : EventStep(c)
            \/ /\ Silent /\ UNCHANGED <<pc, state, raised, mode>>
               /\ \A c \in Client : Todo(c)' = Todo(c) /\ Saved(c)' = Saved(c)
               /\ storedState' = storedState \/ (storedState' = {} /\ deletes' > 0)
<1>1. StoreType' /\ LockInv'
  BY StepShape, NextLock DEF FlowInv
<1>2. CASE \E c \in Client : Flows(c)
  BY <1>1, <1>2 DEF FlowInv, Flows
<1>3. CASE Delete \/ UNCHANGED vars
  <2>1. /\ Silent /\ UNCHANGED <<pc, state, raised, mode, pending, batch>>
    BY <1>3 DEF Delete, vars, aggregate, Silent
  <2>2. storedState' = storedState \/ (storedState' = {} /\ deletes' > 0)
    BY SMT, <1>3 DEF Delete, vars, stored, FlowInv, StoreType, counters
  <2>3. /\ EventType' /\ \A c \in Client : Todo(c)' = Todo(c) /\ Saved(c)' = Saved(c)
        /\ \A c \in Client : Stage(c)'
    BY <2>1 DEF FlowInv, EventType, Todo, Saved, Stage, Silent
  <2>4. QED
    BY <1>1, <2>1, <2>2, <2>3 DEF FlowInv
<1>4. QED
  BY <1>2, <1>3, StartFlows, RaiseFlows, GiveUpFlows, DropFlows, TxFlows, CommitFlows, SaveFlows,
     DoneFlows, RepublishFlows, SendFlows DEF Next, SaveStep

-----------------------------------------------------------------------------
(* Once and in order *)

LEMMA EntryType ==
  ASSUME NEW S, NEW s \in Seq(S), NEW i \in DOMAIN s
  PROVE  s[i] \in S
BY SMT

LEMMA TodoType ==
  ASSUME FlowInv, NEW c \in Client
  PROVE  /\ Todo(c) \in Seq(Raised) /\ Elems(Todo(c)) \subseteq Raised /\ Sent \subseteq Raised
         /\ raised[c] \in Nat /\ version[c] \in Nat
<1>1. Todo(c) \in Seq(Raised)
  BY DEF FlowInv, EventType, Todo
<1>2. Elems(Todo(c)) \subseteq Raised
  BY <1>1, ElemsType
<1>3. Sent \subseteq Raised
  <2>1. Elems(published) \subseteq Raised
    BY ElemsType DEF FlowInv, EventType
  <2>2. OutboxEvents \subseteq Raised
    <3> SUFFICES ASSUME NEW i \in DOMAIN outbox
                 PROVE  outbox[i].event \in Raised
      BY DEF OutboxEvents
    <3>1. outbox \in Seq([event : Raised, version : Nat])
      BY DEF FlowInv, EventType
    <3>2. outbox[i] \in [event : Raised, version : Nat]
      BY <3>1, EntryType
    <3>3. QED
      BY <3>2
  <2>3. QED
    BY <2>1, <2>2 DEF Sent
<1>4. QED
  BY <1>1, <1>2, <1>3 DEF FlowInv, StoreType

LEMMA SentStep ==
  ASSUME FlowInv, NEW c \in Client, Sends(c)
  PROVE  /\ Sent' = Sent \cup {Head(Todo(c))} /\ Head(Todo(c)) \in Elems(Todo(c))
         /\ Elems(Todo(c)) = {Head(Todo(c))} \cup Elems(Todo(c)')
<1>1. Todo(c) \in Seq(Raised) /\ Todo(c) # <<>> /\ Todo(c)' = Tail(Todo(c)) /\ version[c] \in Nat
  BY TodoType DEF Sends
<1>2. /\ Head(Todo(c)) \in Raised /\ Elems(Todo(c)) = {Head(Todo(c))} \cup Elems(Todo(c)')
  BY <1>1, ElemsTail
<1>3. outbox \in Seq([event : Raised, version : Nat]) /\ published \in Seq(Raised)
  BY DEF FlowInv, EventType
<1>4. CASE /\ outbox' = Append(outbox, [event |-> Head(Todo(c)), version |-> version[c]])
           /\ UNCHANGED published
  <2>1. [event |-> Head(Todo(c)), version |-> version[c]] \in [event : Raised, version : Nat]
    BY <1>1, <1>2
  <2>2. /\ Len(outbox) \in Nat
        /\ DOMAIN outbox' = 1..(Len(outbox) + 1) /\ DOMAIN outbox = 1..Len(outbox)
        /\ \A i \in 1..Len(outbox) : outbox'[i] = outbox[i]
        /\ outbox'[Len(outbox) + 1].event = Head(Todo(c))
    BY SMT, <1>3, <1>4, <2>1, Appended DEF Longer
  <2>3. DOMAIN outbox' = DOMAIN outbox \cup {Len(outbox) + 1}
    BY SMT, <2>2
  <2>4. OutboxEvents' = OutboxEvents \cup {Head(Todo(c))}
    BY SMT, <2>2, <2>3 DEF OutboxEvents
  <2>5. QED
    BY <1>2, <1>4, <2>4 DEF Sent
<1>5. CASE published' = Append(published, Head(Todo(c))) /\ UNCHANGED outbox
  <2>1. Elems(published') = Elems(published) \cup {Head(Todo(c))}
    BY SMT, <1>2, <1>3, <1>5, ElemsAppend
  <2>2. OutboxEvents' = OutboxEvents
    BY <1>5 DEF OutboxEvents
  <2>3. QED
    BY <1>2, <2>1, <2>2 DEF Sent
<1>6. QED
  BY <1>4, <1>5 DEF Sends

LEMMA SentSame ==
  ASSUME UNCHANGED <<outbox, published>>
  PROVE  Sent' = Sent /\ Once' = Once
BY SMT DEF Sent, OutboxEvents, Once

\* Nothing is delivered a second time, or out of order.
LEMMA OnceStep ==
  ASSUME FlowInv, OrderInv, NEW c \in Client, Sends(c)
  PROVE  Once'
<1> DEFINE h == Head(Todo(c))
<1>1. h \in Elems(Todo(c)) /\ h \in Raised /\ h[1] = c /\ h[2] \in Nat
  <2>1. h \in Elems(Todo(c)) /\ Elems(Todo(c)) \subseteq Raised
    BY SentStep, TodoType
  <2>2. h[1] = c
    BY <2>1 DEF OrderInv, InOrder
  <2>3. QED
    BY <2>1, <2>2 DEF Raised
<1>2. \A e \in Sent : e[1] = c => e[2] < h[2]
  BY <1>1 DEF OrderInv, InOrder
<1>3. h \notin Sent
  BY SMT, <1>1, <1>2
<1>4. /\ outbox \in Seq([event : Raised, version : Nat]) /\ published \in Seq(Raised) /\ Once
      /\ version[c] \in Nat
  BY TodoType DEF FlowInv, EventType, OrderInv
<1>5. CASE /\ outbox' = Append(outbox, [event |-> h, version |-> version[c]])
           /\ UNCHANGED published
  <2> DEFINE r == [event |-> h, version |-> version[c]]
  <2>1. r \in [event : Raised, version : Nat] /\ r.event = h
    BY <1>1, <1>4
  <2> HIDE DEF r
  <2>2. /\ Len(outbox') = Len(outbox) + 1 /\ Len(outbox) \in Nat
        /\ DOMAIN outbox' = 1..(Len(outbox) + 1) /\ DOMAIN outbox = 1..Len(outbox)
        /\ \A i \in 1..Len(outbox) : outbox'[i] = outbox[i]
        /\ outbox'[Len(outbox) + 1] = r
    <3>1. outbox' = Append(outbox, r)
      BY <1>5 DEF r
    <3>2. Longer(outbox, r, outbox')
      BY <1>4, <2>1, <3>1, Appended
    <3>3. QED
      BY <3>2 DEF Longer
  <2>3. \A i \in 1..Len(outbox) : outbox[i].event # h
    BY <1>3, <2>2 DEF Sent, OutboxEvents
  <2>4. \A i, j \in 1..Len(outbox) : outbox[i].event = outbox[j].event => i = j
    BY <1>4, <2>2 DEF Once
  <2>5. \A i, j \in DOMAIN outbox' : outbox'[i].event = outbox'[j].event => i = j
    BY SMT, <2>1, <2>2, <2>3, <2>4
  <2>6. QED
    BY SMT, <1>4, <1>5, <2>5 DEF Once
<1>6. CASE published' = Append(published, h) /\ UNCHANGED outbox
  <2>1. /\ Len(published) \in Nat
        /\ DOMAIN published' = 1..(Len(published) + 1) /\ DOMAIN published = 1..Len(published)
        /\ \A i \in 1..Len(published) : published'[i] = published[i]
        /\ published'[Len(published) + 1] = h
    <3>1. Longer(published, h, published')
      BY <1>1, <1>4, <1>6, Appended
    <3>2. QED
      BY <3>1 DEF Longer
  <2>2. \A i \in 1..Len(published) : published[i] # h /\ (published[i][1] = c => published[i][2] < h[2])
    BY <1>2, <1>3, <2>1 DEF Sent, Elems
  <2>3. ASSUME NEW i \in 1..(Len(published) + 1), NEW j \in 1..(Len(published) + 1), i < j
        PROVE  /\ published'[i] # published'[j]
               /\ published'[i][1] = published'[j][1] => published'[i][2] < published'[j][2]
    <3>1. i \in 1..Len(published)
      BY SMT, <2>1, <2>3
    <3>2. CASE j \in 1..Len(published)
      <4>1. /\ published[i] # published[j]
            /\ published[i][1] = published[j][1] => published[i][2] < published[j][2]
        BY <1>4, <2>1, <2>3, <3>1, <3>2 DEF Once
      <4>2. published'[i] = published[i] /\ published'[j] = published[j]
        BY <2>1, <3>1, <3>2
      <4>3. QED
        BY <4>1, <4>2
    <3>3. CASE j = Len(published) + 1
      BY <1>1, <2>1, <2>2, <3>1, <3>3
    <3>4. QED
      BY SMT, <2>1, <3>2, <3>3
  <2>4. QED
    BY <1>4, <1>6, <2>1, <2>3 DEF Once
<1>7. QED
  BY <1>5, <1>6 DEF Sends

LEMMA OrderStep ==
  ASSUME FlowInv, FlowInv', OrderInv, NEW c \in Client, EventStep(c)
  PROVE  OrderInv'
<1>1. Once /\ (\A d \in Client : InOrder(d)) /\ Away(c)
  BY DEF OrderInv, EventStep
<1>2. Todo(c) \in Seq(Raised) /\ Elems(Todo(c)) \subseteq Raised /\ raised[c] \in Nat /\ Sent \subseteq Raised
  BY TodoType
<1>3. ASSUME Sent' = Sent, Todo(c)' = Todo(c) \/ Todo(c)' = <<>>, UNCHANGED raised
      PROVE  \A d \in Client : InOrder(d)'
  <2>1. InOrder(c)'
    <3>1. CASE Todo(c)' = Todo(c)
      BY <1>1, <1>3, <3>1 DEF InOrder
    <3>2. CASE Todo(c)' = <<>>
      BY SMTT(60), <1>1, <1>3, <3>2, ElemsEmpty DEF InOrder, Increasing
    <3>3. QED
      BY <1>3, <3>1, <3>2
  <2>2. ASSUME NEW d \in Client \ {c}
        PROVE  InOrder(d)'
    BY <1>1, <1>3 DEF InOrder, Away
  <2>3. QED
    BY <2>1, <2>2
<1>4. CASE Waits(c) \/ Stores(c) \/ Starts(c) \/ GivesUp(c)
  <2>1. UNCHANGED <<outbox, published, raised>> /\ (Todo(c)' = Todo(c) \/ Todo(c)' = <<>>)
    BY <1>4 DEF Waits, Stores, Starts, GivesUp, Silent
  <2>2. QED
    BY <1>1, <1>3, <2>1, SentSame DEF OrderInv
<1>5. CASE Adds(c)
  <2> DEFINE e == <<c, raised[c] + 1>>
  <2>1. /\ Sent' = Sent /\ Once' /\ Todo(c)' = Append(Todo(c), e) /\ raised'[c] = raised[c] + 1
    BY <1>1, <1>5, SentSame DEF Adds, Silent
  <2>2. e \in Raised /\ e[1] = c /\ e[2] = raised[c] + 1
    BY SMT, <1>2 DEF Raised
  <2> HIDE DEF e
  <2>3. Elems(Todo(c)') = Elems(Todo(c)) \cup {e}
    BY SMT, <1>2, <2>1, <2>2, ElemsAppend
  <2>4. \A f \in Elems(Todo(c)) : f[2] \in Nat /\ f[2] < e[2]
    BY SMT, <1>1, <1>2, <2>2 DEF InOrder, Raised
  <2>5. Increasing(Todo(c)')
    BY <1>1, <1>2, <2>1, <2>2, <2>4, IncreasingAppend DEF InOrder
  <2>6. InOrder(c)'
    <3>1. \A f \in Elems(Todo(c)') : f[1] = c /\ f[2] <= raised'[c]
      BY SMT, <1>1, <1>2, <2>1, <2>2, <2>3, <2>4 DEF InOrder
    <3>2. \A f \in Sent : f[1] = c => f[2] <= raised[c] /\ f[2] \in Nat
      BY <1>1, <1>2 DEF InOrder, Raised
    <3>3. \A f \in Sent : f[1] = c => f[2] <= raised'[c] /\ \A g \in Elems(Todo(c)') : f[2] < g[2]
      BY SMT, <1>1, <1>2, <2>1, <2>2, <2>3, <3>2 DEF InOrder
    <3>4. QED
      BY <2>1, <2>5, <3>1, <3>3 DEF InOrder
  <2>7. ASSUME NEW d \in Client \ {c}
        PROVE  InOrder(d)'
    BY <1>1, <2>1 DEF InOrder, Away
  <2>8. QED
    BY <2>1, <2>6, <2>7 DEF OrderInv
<1>6. CASE Sends(c)
  <2>1. /\ Sent' = Sent \cup {Head(Todo(c))} /\ Head(Todo(c)) \in Elems(Todo(c))
        /\ Elems(Todo(c)) = {Head(Todo(c))} \cup Elems(Todo(c)') /\ Once'
        /\ Todo(c) # <<>> /\ Todo(c)' = Tail(Todo(c)) /\ UNCHANGED raised
    BY <1>6, SentStep, OnceStep DEF Sends
  <2>2. Increasing(Todo(c)') /\ \A f \in Elems(Todo(c)') : Head(Todo(c))[2] < f[2]
    BY <1>1, <1>2, <2>1, IncreasingTail DEF InOrder
  <2>3. InOrder(c)'
    <3>1. \A f \in Elems(Todo(c)') : f[1] = c /\ f[2] <= raised'[c]
      BY <1>1, <2>1 DEF InOrder
    <3>2. \A f \in Sent' : f[1] = c => f[2] <= raised'[c] /\ \A g \in Elems(Todo(c)') : f[2] < g[2]
      BY <1>1, <2>1, <2>2 DEF InOrder
    <3>3. QED
      BY <2>2, <3>1, <3>2 DEF InOrder
  <2>4. Head(Todo(c))[1] = c
    BY <1>1, <2>1 DEF InOrder
  <2>5. ASSUME NEW d \in Client \ {c}
        PROVE  InOrder(d)'
    BY <1>1, <2>1, <2>4 DEF InOrder, Away
  <2>6. QED
    BY <2>1, <2>3, <2>5 DEF OrderInv
<1>7. QED
  BY <1>4, <1>5, <1>6 DEF EventStep

-----------------------------------------------------------------------------
(* No event is lost *)

\* What the steps leave behind, for all clients.
LEMMA StepFrame ==
  ASSUME FlowInv, NEW c \in Client, EventStep(c)
  PROVE  /\ \A d \in Client : raised[d] \in Nat /\ raised'[d] \in Nat /\ raised[d] <= raised'[d]
         /\ storedState \subseteq Raised /\ \A d \in Client : state[d] \subseteq Raised
         /\ storedState' = storedState \/ storedState' = state[c]
<1>1. raised \in [Client -> Nat]
  BY DEF FlowInv, StoreType
<1>2. UNCHANGED raised \/ (raised'[c] = raised[c] + 1 /\ \A d \in Client \ {c} : raised'[d] = raised[d])
  BY DEF EventStep, Waits, Stores, Starts, Adds, Sends, GivesUp, Away
<1>3. \A d \in Client : raised[d] \in Nat /\ raised'[d] \in Nat /\ raised[d] <= raised'[d]
  BY SMT, <1>1, <1>2
<1>4. storedState \subseteq Raised /\ \A d \in Client : state[d] \subseteq Raised
  BY DEF FlowInv, StoreType
<1>5. storedState' = storedState \/ storedState' = state[c]
  BY DEF EventStep, Waits, Stores, Starts, Adds, Sends, GivesUp
<1>6. QED
  BY <1>3, <1>4, <1>5

LEMMA AppliedStep ==
  ASSUME FlowInv, Applied, NEW c \in Client, EventStep(c)
  PROVE  Applied'
<1>1. /\ \A d \in Client : raised[d] \in Nat /\ raised'[d] \in Nat /\ raised[d] <= raised'[d]
      /\ storedState \subseteq Raised /\ \A d \in Client : state[d] \subseteq Raised
      /\ storedState' = storedState \/ storedState' = state[c]
  BY StepFrame
<1>2. \A e \in Raised : e[1] \in Client /\ e[2] \in Nat /\ (e[2] <= raised[e[1]] => e[2] <= raised'[e[1]])
  BY SMT, <1>1 DEF Raised
<1>3. \A e \in storedState' : e[2] <= raised'[e[1]]
  BY <1>1, <1>2 DEF Applied
<1>4. ASSUME NEW d \in Client \ {c}
      PROVE  (\A e \in state'[d] : e[2] <= raised'[e[1]]) /\ Elems(Todo(d)') \subseteq state'[d]
  BY <1>1, <1>2 DEF Applied, EventStep, Away
<1>5. (\A e \in state'[c] : e[2] <= raised'[e[1]]) /\ Elems(Todo(c)') \subseteq state'[c]
  <2>1. CASE Waits(c) \/ Stores(c)
    BY <1>1, <1>2, <2>1 DEF Applied, Waits, Stores
  <2>2. CASE Starts(c) \/ GivesUp(c)
    <3>1. Elems(Todo(c)') = {} /\ state'[c] \in {{}, state[c], storedState}
      BY <2>2, ElemsEmpty DEF Starts, GivesUp
    <3>2. QED
      BY <1>1, <1>2, <3>1 DEF Applied
  <2>3. CASE Adds(c)
    <3> DEFINE e == <<c, raised[c] + 1>>
    <3>1. /\ state'[c] = state[c] \cup {e} /\ Todo(c)' = Append(Todo(c), e)
          /\ raised'[c] = raised[c] + 1 /\ Todo(c) \in Seq(Raised)
      BY <2>3, TodoType DEF Adds
    <3>2. e \in Raised /\ e[1] = c /\ e[2] = raised'[c]
      BY <1>1, <3>1 DEF Raised
    <3> HIDE DEF e
    <3>3. Elems(Todo(c)') = Elems(Todo(c)) \cup {e}
      BY SMT, <3>1, <3>2, ElemsAppend
    <3>4. e[2] <= raised'[e[1]]
      BY SMT, <1>1, <3>2
    <3>5. QED
      BY <1>1, <1>2, <3>1, <3>3, <3>4 DEF Applied
  <2>4. CASE Sends(c)
    <3>1. Elems(Todo(c)') \subseteq Elems(Todo(c)) /\ state'[c] = state[c]
      BY <2>4, SentStep DEF Sends
    <3>2. QED
      BY <1>1, <1>2, <3>1 DEF Applied
  <2>5. QED
    BY <2>1, <2>2, <2>3, <2>4 DEF EventStep
<1>6. QED
  BY <1>3, <1>4, <1>5 DEF Applied

\* Private of one client.
Hidden(c) ==
  mode[c] = "Outbox" /\ ~Saved(c) =>
    \A e \in Elems(Todo(c)) : e \notin storedState /\ \A d \in Client \ {c} : e \notin state[d]

LEMMA PrivateStep ==
  ASSUME FlowInv, OrderInv, Applied, Private, NEW c \in Client, EventStep(c)
  PROVE  Private'
<1>1. (\A d \in Client : Hidden(d)) /\ Away(c) /\ UNCHANGED mode
  BY DEF Private, Hidden, EventStep
<1>2. Hidden(c)'
  <2>1. CASE Waits(c)
    <3>1. /\ storedState' = storedState /\ Todo(c)' = Todo(c)
          /\ \A d \in Client \ {c} : state'[d] = state[d]
          /\ mode'[c] = "Outbox" /\ ~Saved(c)' => ~Saved(c) \/ Elems(Todo(c)) = {}
      BY <1>1, <2>1, ElemsEmpty DEF Waits, Away
    <3>2. QED
      BY <1>1, <3>1 DEF Hidden
  <2>2. CASE Stores(c) \/ Sends(c)
    BY <2>2 DEF Stores, Sends, Hidden
  <2>3. CASE Starts(c) \/ GivesUp(c)
    <3>1. Todo(c)' = <<>>
      BY <2>3 DEF Starts, GivesUp
    <3>2. Elems(Todo(c)') = {}
      BY <3>1, ElemsEmpty
    <3>3. QED
      BY <3>2 DEF Hidden
  <2>4. CASE Adds(c)
    <3> DEFINE e == <<c, raised[c] + 1>>
    <3>1. /\ Todo(c)' = Append(Todo(c), e) /\ Todo(c) \in Seq(Raised) /\ ~Saved(c)
          /\ UNCHANGED storedState /\ \A d \in Client \ {c} : state'[d] = state[d]
      BY <1>1, <2>4, TodoType DEF Adds, Away
    <3>2. raised[c] \in Nat
      BY TodoType
    <3>3. e \in Raised /\ e[1] = c /\ e[2] = raised[c] + 1
      BY SMT, <3>2 DEF Raised
    <3>4. ~(e[2] <= raised[e[1]])
      BY SMT, <3>2, <3>3
    <3> HIDE DEF e
    <3>5. Elems(Todo(c)') = Elems(Todo(c)) \cup {e}
      BY SMT, <3>1, <3>3, ElemsAppend
    <3>6. e \notin storedState /\ \A d \in Client : e \notin state[d]
      BY <3>4 DEF Applied
    <3>7. QED
      BY SMT, <1>1, <3>1, <3>5, <3>6 DEF Hidden
  <2>5. QED
    BY <2>1, <2>2, <2>3, <2>4 DEF EventStep
<1>3. ASSUME NEW d \in Client \ {c}
      PROVE  Hidden(d)'
  <2> SUFFICES ASSUME mode[d] = "Outbox", ~Saved(d), NEW e \in Elems(Todo(d))
               PROVE  e \notin storedState' /\ \A b \in Client \ {d} : e \notin state'[b]
    BY <1>1 DEF Hidden, Away
  <2>1. e \notin storedState /\ \A b \in Client \ {d} : e \notin state[b]
    BY <1>1 DEF Hidden
  <2>2. e \notin storedState'
    BY <2>1, StepFrame
  <2>3. e[1] = d
    BY DEF OrderInv, InOrder
  <2>4. e \notin state'[c]
    <3>1. \/ state'[c] \in {state[c], {}, storedState}
          \/ state'[c] = state[c] \cup {<<c, raised[c] + 1>>}
      BY DEF EventStep, Waits, Stores, Starts, Adds, Sends, GivesUp
    <3>2. e # <<c, raised[c] + 1>>
      BY SMT, <2>3
    <3>3. QED
      BY <2>1, <3>1, <3>2
  <2>5. QED
    BY <1>1, <2>1, <2>2, <2>4 DEF Away
<1>4. QED
  BY <1>2, <1>3 DEF Private, Hidden

\* An event that is delivered or on its way stays so, unless the client that
\* has it gives up.
LEMMA SafeStep ==
  ASSUME FlowInv, OrderInv, NEW c \in Client, EventStep(c), NEW e, Safe(e),
         GivesUp(c) /\ e \in Elems(Todo(c)) => mode[c] # "Outbox"
  PROVE  Safe(e)'
<1>1. Away(c) /\ UNCHANGED mode
  BY DEF EventStep
<1>2. CASE Waits(c) \/ Stores(c)
  <2>1. Silent /\ Todo(c)' = Todo(c)
    BY <1>2 DEF Waits, Stores
  <2>2. Sent' = Sent /\ UNCHANGED abandoned /\ \A d \in Client : Todo(d)' = Todo(d)
    BY <1>1, <2>1, SentSame DEF Silent, Away
  <2>3. QED
    BY <1>1, <2>2 DEF Safe
<1>3. CASE Starts(c) \/ Adds(c)
  <2>1. Silent /\ Elems(Todo(c)) \subseteq Elems(Todo(c)')
    <3>1. CASE Starts(c)
      BY <3>1 DEF Starts
    <3>2. CASE Adds(c)
      <4>1. Todo(c) \in Seq(Raised) /\ <<c, raised[c] + 1>> \in Raised
        BY SMT, TodoType DEF Raised
      <4>2. QED
        BY SMTT(60), <3>2, <4>1, ElemsAppend DEF Adds
    <3>3. QED
      BY <1>3, <3>1, <3>2
  <2>2. Sent' = Sent /\ UNCHANGED abandoned
    BY <2>1, SentSame DEF Silent
  <2>3. \A d \in Client : Elems(Todo(d)) \subseteq Elems(Todo(d)')
    <3>1. \A d \in Client \ {c} : Elems(Todo(d)) \subseteq Elems(Todo(d)')
      BY <1>1 DEF Away
    <3>2. QED
      BY <2>1, <3>1
  <2>4. QED
    BY <1>1, <2>2, <2>3 DEF Safe
<1>4. CASE Sends(c)
  <2>1. Sent' = Sent \cup {Head(Todo(c))} /\ Elems(Todo(c)) = {Head(Todo(c))} \cup Elems(Todo(c)')
    BY <1>4, SentStep
  <2>2. UNCHANGED abandoned
    BY <1>4 DEF Sends
  <2>3. \A d \in Client \ {c} : Todo(d)' = Todo(d)
    BY <1>1 DEF Away
  <2>4. QED
    BY <1>1, <2>1, <2>2, <2>3 DEF Safe
<1>5. CASE GivesUp(c)
  <2>1. /\ Sent' = Sent /\ abandoned \subseteq abandoned' /\ Elems(Todo(c)) \subseteq abandoned'
    BY <1>5, SentSame DEF GivesUp
  <2>2. \A d \in Client \ {c} : Todo(d)' = Todo(d)
    BY <1>1 DEF Away
  <2>3. CASE e \in Elems(Todo(c))
    <3>1. e[1] = c /\ mode[c] # "Outbox" /\ e \in abandoned'
      BY <1>5, <2>1, <2>3 DEF OrderInv, InOrder
    <3>2. QED
      BY <1>1, <3>1 DEF Safe
  <2>4. QED
    BY <1>1, <2>1, <2>2, <2>3 DEF Safe
<1>6. QED
  BY <1>2, <1>3, <1>4, <1>5 DEF EventStep

LEMMA KeptStep ==
  ASSUME FlowInv, OrderInv, KeptInv, NEW c \in Client, EventStep(c)
  PROVE  KeptInv'
<1>1. /\ Applied /\ Private /\ Away(c) /\ UNCHANGED mode
      /\ (\A e \in storedState : Safe(e)) /\ \A d \in Client : \A e \in state[d] : Safe(e)
  BY DEF KeptInv, EventStep
<1>2. Applied' /\ Private'
  BY <1>1, AppliedStep, PrivateStep
<1>3. CASE GivesUp(c)
  <2>1. ASSUME NEW e, e \in storedState \/ \E d \in Client \ {c} : e \in state[d]
        PROVE  Safe(e)'
    <3>1. e \in Elems(Todo(c)) => mode[c] # "Outbox"
      BY <1>1, <1>3, <2>1 DEF Private, GivesUp
    <3>2. QED
      BY <1>1, <2>1, <3>1, SafeStep
  <2>2. /\ storedState' = storedState /\ \A d \in Client \ {c} : state'[d] = state[d]
        /\ state'[c] = {} \/ (state'[c] = state[c] /\ mode[c] # "Outbox")
    BY <1>1, <1>3 DEF GivesUp, Away
  <2>3. mode[c] # "Outbox" => \A e \in state[c] : Safe(e)'
    BY <1>1, SafeStep
  <2>4. (\A e \in storedState' : Safe(e)') /\ \A d \in Client : \A e \in state'[d] : Safe(e)'
    BY <2>1, <2>2, <2>3
  <2>5. QED
    BY <1>2, <2>4 DEF KeptInv
<1>4. CASE ~GivesUp(c)
  <2>1. \A e : Safe(e) => Safe(e)'
    BY <1>4, SafeStep
  <2>2. storedState' = storedState \/ storedState' = state[c]
    BY StepFrame
  <2>3. \A e \in storedState' : Safe(e)'
    BY <1>1, <2>1, <2>2
  <2>4. \A d \in Client \ {c} : state'[d] = state[d]
    BY <1>1 DEF Away
  <2>5. ASSUME NEW e \in state'[c]
        PROVE  Safe(e)'
    <3>1. CASE Adds(c)
      <4> DEFINE n == <<c, raised[c] + 1>>
      <4>1. Todo(c) \in Seq(Raised) /\ n \in Raised
        BY SMT, TodoType DEF Raised
      <4>2. n \in Elems(Todo(c)')
        BY SMT, <3>1, <4>1, ElemsAppend DEF Adds
      <4>3. e \in state[c] \/ e = n
        BY <2>5, <3>1 DEF Adds
      <4> HIDE DEF n
      <4>4. QED
        BY <1>1, <2>1, <4>2, <4>3 DEF Safe
    <3>2. CASE ~Adds(c)
      <4>1. state'[c] \in {state[c], {}, storedState}
        BY <1>4, <3>2 DEF EventStep, Waits, Stores, Starts, Sends
      <4>2. QED
        BY <1>1, <2>1, <2>5, <4>1
    <3>3. QED
      BY <3>1, <3>2
  <2>6. \A d \in Client : \A e \in state'[d] : Safe(e)'
    BY <1>1, <2>1, <2>4, <2>5
  <2>7. QED
    BY <1>2, <2>3, <2>6 DEF KeptInv
<1>5. QED
  BY <1>3, <1>4

-----------------------------------------------------------------------------
(* What is delivered is stored *)

LEMMA StoredStep ==
  ASSUME FlowInv, StoreInv, Unmixed(mode), KeptInv, StoredInv, [Next]_vars
  PROVE  StoredInv'
<1> SUFFICES ASSUME deletes' = 0
             PROVE  /\ Sent' \subseteq storedState'
                    /\ \A d \in Client : Saved(d)' => Elems(Todo(d)') \subseteq storedState'
  BY DEF StoredInv
<1>1. /\ storedState \subseteq storedState' /\ Sent \subseteq storedState
      /\ \A d \in Client : Saved(d) => Elems(Todo(d)) \subseteq storedState
  BY StoredGrows DEF StoredInv
<1>2. ASSUME NEW c \in Client, EventStep(c)
      PROVE  /\ Sent' \subseteq storedState'
             /\ \A d \in Client : Saved(d)' => Elems(Todo(d)') \subseteq storedState'
  <2>1. Away(c)
    BY <1>2 DEF EventStep
  <2>2. \A d \in Client \ {c} : Saved(d)' => Elems(Todo(d)') \subseteq storedState'
    BY <1>1, <2>1 DEF Away
  <2>3. CASE Sends(c)
    <3>1. /\ Sent' = Sent \cup {Head(Todo(c))} /\ Head(Todo(c)) \in Elems(Todo(c))
          /\ Elems(Todo(c)) = {Head(Todo(c))} \cup Elems(Todo(c)')
      BY <2>3, SentStep
    <3>2. Elems(Todo(c)) \subseteq storedState
      BY <1>1, <2>3 DEF Sends
    <3>3. QED
      BY <1>1, <2>2, <3>1, <3>2
  <2>4. CASE ~Sends(c)
    <3>1. UNCHANGED <<outbox, published>>
      BY <1>2, <2>4 DEF EventStep, Waits, Stores, Starts, Adds, GivesUp, Silent
    <3>2. Sent' = Sent
      BY <3>1, SentSame
    <3>3. Elems(Todo(c)) \subseteq state[c]
      BY DEF KeptInv, Applied
    <3>4. \/ ~Saved(c)'
          \/ /\ Todo(c)' = Todo(c)
             /\ Saved(c) \/ Elems(Todo(c)) \subseteq storedState \/ storedState' = state[c]
      BY <1>2, <2>4 DEF EventStep, Waits, Stores, Starts, Adds, GivesUp
    <3>5. Saved(c)' => Elems(Todo(c)') \subseteq storedState'
      BY <1>1, <3>3, <3>4
    <3>6. QED
      BY <1>1, <2>2, <3>2, <3>5
  <2>5. QED
    BY <2>3, <2>4
<1>3. CASE /\ Silent
           /\ \A c \in Client : Todo(c)' = Todo(c) /\ Saved(c)' = Saved(c)
  <2>1. Sent' = Sent
    BY <1>3, SentSame DEF Silent
  <2>2. QED
    BY <1>1, <1>3, <2>1
<1>4. QED
  BY <1>2, <1>3, NextFlow

-----------------------------------------------------------------------------
(* Rows in the order of versions *)

\* Rows, versions and the stored version in a step of clients of the unit of work.
LEMMA RowVersions ==
  ASSUME StoreInv, FlowInv, [Next]_vars, deletes' = 0, \A c \in Client : mode[c] = "Outbox",
         \A c \in Client : pc[c] = "Rows" => version[c] = storedVersion
  PROVE  /\ storedVersion <= storedVersion'
         /\ \A c \in Client : pc'[c] = "Rows" => version'[c] = storedVersion'
<1>1. StoreType /\ LockInv /\ CommitInv /\ \A c \in Client : Stage(c)
  BY DEF StoreInv, FlowInv
<1>2. storedVersion \in Nat /\ version \in [Client -> Nat] /\ pc \in [Client -> Pcs]
  BY <1>1 DEF StoreType
<1>3. ASSUME NEW c \in Client, Commit(c)
      PROVE  /\ storedVersion <= storedVersion'
             /\ \A d \in Client : pc'[d] = "Rows" => version'[d] = storedVersion'
  <2>1. /\ pc[c] = "Commit" /\ Goto(c, "Rows") /\ storedVersion' = version[c]
        /\ UNCHANGED <<version, deletes>>
    BY <1>3 DEF Commit, aggregate, counters
  <2>2. \A d \in Client \ {c} : pc'[d] = pc[d]
    BY <1>1, <2>1, GotoEffect DEF Pcs
  <2>3. \A d \in Client \ {c} : pc[d] # "Rows"
    BY <1>1, <2>1 DEF LockInv, TxSteps
  <2>4. version[c] = storedVersion + 1
    BY <1>1, <2>1 DEF CommitInv
  <2>5. QED
    BY SMT, <1>2, <2>1, <2>2, <2>3, <2>4
<1>4. ASSUME NEW c \in Client,
             \/ New(c) \/ Find(c) \/ Discard(c) \/ SaveAndEnqueueIn(c) \/ Begin(c) \/ TxError(c)
             \/ SaveInTx(c) \/ Committed(c) \/ Delivered(c) \/ DeliveryError(c)
             \/ RepublishPending(c) \/ Drop(c)
      PROVE  /\ storedVersion <= storedVersion'
             /\ \A d \in Client : pc'[d] = "Rows" => version'[d] = storedVersion'
  <2>1. \E l \in Pcs \ {"Rows"} : Goto(c, l)
    BY <1>4 DEF New, Find, Discard, SaveAndEnqueueIn, Begin, TxError, SaveInTx, Committed, Delivered,
       DeliveryError, RepublishPending, Drop, RollBack, Pcs
  <2>2. pc'[c] # "Rows" /\ \A d \in Client \ {c} : pc'[d] = pc[d]
    BY <1>1, <2>1, GotoEffect
  <2>3. /\ UNCHANGED storedVersion
        /\ UNCHANGED version \/ \E v : version' = [version EXCEPT ![c] = v]
    BY <1>4 DEF New, Find, Discard, SaveAndEnqueueIn, Begin, TxError, SaveInTx, Committed,
       Delivered, DeliveryError, RepublishPending, Drop, stored, aggregate
  <2>4. \A d \in Client \ {c} : version'[d] = version[d]
    BY <1>2, <2>3
  <2>5. QED
    BY SMT, <1>2, <2>2, <2>3, <2>4
<1>5. ASSUME NEW c \in Client, Save(c)
      PROVE  FALSE
  BY <1>5 DEF Save
<1>6. ASSUME UNCHANGED <<pc, version, storedVersion>>
      PROVE  /\ storedVersion <= storedVersion'
             /\ \A d \in Client : pc'[d] = "Rows" => version'[d] = storedVersion'
  BY SMT, <1>2, <1>6
<1>7. \/ \E c \in Client : InsertRow(c) \/ Publish(c) \/ Enqueue(c) \/ Raise(c)
      \/ UNCHANGED vars
      => UNCHANGED <<pc, version, storedVersion>>
  BY DEF InsertRow, Publish, Enqueue, Raise, vars, stored, aggregate
<1>8. ~Delete
  BY SMT, <1>1 DEF Delete, StoreType
<1>9. QED
  BY <1>3, <1>4, <1>5, <1>6, <1>7, <1>8 DEF Next, SaveStep

LEMMA RowStep ==
  ASSUME StoreInv, FlowInv, Unmixed(mode), RowInv, [Next]_vars
  PROVE  RowInv'
<1> SUFFICES ASSUME deletes' = 0, \A c \in Client : mode'[c] = "Outbox"
             PROVE  /\ \A i \in DOMAIN outbox' : outbox'[i].version <= storedVersion'
                    /\ \A i, j \in DOMAIN outbox' : i < j => outbox'[i].version <= outbox'[j].version
                    /\ \A c \in Client : pc'[c] = "Rows" => version'[c] = storedVersion'
  BY DEF RowInv
<1>1. deletes = 0 /\ UNCHANGED mode /\ \A c \in Client : mode[c] = "Outbox"
  BY StoredGrows, ModeKept
<1>2. /\ \A i \in DOMAIN outbox : outbox[i].version <= storedVersion
      /\ \A i, j \in DOMAIN outbox : i < j => outbox[i].version <= outbox[j].version
      /\ \A c \in Client : pc[c] = "Rows" => version[c] = storedVersion
  BY <1>1 DEF RowInv
<1>3. /\ storedVersion <= storedVersion' /\ storedVersion \in Nat /\ storedVersion' \in Nat
      /\ \A c \in Client : pc'[c] = "Rows" => version'[c] = storedVersion'
  BY <1>1, <1>2, RowVersions, StepShape DEF StoreInv, StoreType
<1>4. outbox \in Seq([event : Raised, version : Nat])
  BY DEF FlowInv, EventType
<1>5. \A i \in DOMAIN outbox : outbox[i].version \in Nat
  <2> SUFFICES ASSUME NEW i \in DOMAIN outbox
               PROVE  outbox[i].version \in Nat
    OBVIOUS
  <2>1. outbox[i] \in [event : Raised, version : Nat]
    BY <1>4, EntryType
  <2>2. QED
    BY <2>1
<1>6. CASE UNCHANGED outbox
  <2>1. \A i \in DOMAIN outbox : outbox[i].version <= storedVersion'
    BY SMT, <1>2, <1>3, <1>5
  <2>2. QED
    BY <1>2, <1>3, <1>6, <2>1
<1>7. ASSUME NEW c \in Client, Sends(c), ~UNCHANGED outbox
      PROVE  /\ \A i \in DOMAIN outbox' : outbox'[i].version <= storedVersion'
             /\ \A i, j \in DOMAIN outbox' : i < j => outbox'[i].version <= outbox'[j].version
  <2> DEFINE r == [event |-> Head(Todo(c)), version |-> version[c]]
  <2>1. outbox' = Append(outbox, r) /\ pc[c] \in {"Rows", "Publish", "Enqueue"}
    BY <1>7 DEF Sends, Saved
  <2>2. pc[c] = "Rows"
    BY <1>1, <2>1 DEF FlowInv, Stage
  <2>3. version[c] = storedVersion /\ Head(Todo(c)) \in Raised
    BY <1>2, <1>7, <2>2, SentStep, TodoType
  <2>4. r \in [event : Raised, version : Nat] /\ r.version = storedVersion
    BY <1>3, <2>3
  <2> HIDE DEF r
  <2>5. /\ Len(outbox) \in Nat
        /\ DOMAIN outbox' = 1..(Len(outbox) + 1) /\ DOMAIN outbox = 1..Len(outbox)
        /\ \A i \in 1..Len(outbox) : outbox'[i] = outbox[i]
        /\ outbox'[Len(outbox) + 1] = r
    <3>1. Longer(outbox, r, outbox')
      BY <1>4, <2>1, <2>4, Appended
    <3>2. QED
      BY <3>1 DEF Longer
  <2>6. ASSUME NEW i \in DOMAIN outbox'
        PROVE  outbox'[i].version <= storedVersion /\ outbox'[i].version \in Nat
    BY SMT, <1>2, <1>3, <1>5, <2>4, <2>5
  <2>7. ASSUME NEW i \in DOMAIN outbox', NEW j \in DOMAIN outbox', i < j
        PROVE  outbox'[i].version <= outbox'[j].version
    <3>1. i \in 1..Len(outbox)
      BY SMT, <2>5, <2>7
    <3>2. CASE j \in 1..Len(outbox)
      BY <1>2, <2>5, <2>7, <3>1, <3>2
    <3>3. CASE j = Len(outbox) + 1
      BY <2>4, <2>5, <2>6, <3>3
    <3>4. QED
      BY SMT, <2>5, <3>2, <3>3
  <2>8. QED
    BY SMT, <1>3, <2>6, <2>7
<1>8. (\E c \in Client : Sends(c)) \/ UNCHANGED outbox
  BY NextFlow DEF EventStep, Waits, Stores, Starts, Adds, GivesUp, Silent
<1>9. QED
  BY <1>3, <1>6, <1>7, <1>8

-----------------------------------------------------------------------------

LEMMA InitFlow == Init => FlowInv /\ OrderInv /\ KeptInv /\ StoredInv /\ RowInv
<1> SUFFICES ASSUME Init PROVE FlowInv /\ OrderInv /\ KeptInv /\ StoredInv /\ RowInv
  OBVIOUS
<1>1. /\ outbox = <<>> /\ published = <<>> /\ storedState = {}
      /\ \A c \in Client : pc[c] = "None" /\ pending[c] = <<>> /\ batch[c] = <<>> /\ state[c] = {}
      /\ pending \in [Client -> Seq(Raised)] /\ batch \in [Client -> Seq(Raised)]
  BY SMT DEF Init
<1>2. FlowInv
  <2>1. EventType
    BY SMT, <1>1 DEF EventType
  <2>2. \A c \in Client : Stage(c)
    BY <1>1 DEF Stage
  <2>3. QED
    BY <2>1, <2>2, InitStore DEF FlowInv, StoreInv
<1>3. (\A c \in Client : Todo(c) = <<>> /\ ~Saved(c)) /\ Sent = {}
  BY SMT, <1>1, ElemsEmpty DEF Todo, Saved, Sent, OutboxEvents
<1>4. OrderInv
  BY SMT, <1>1, <1>3, ElemsEmpty DEF OrderInv, Once, InOrder, Increasing
<1>5. KeptInv
  BY <1>1, <1>3, ElemsEmpty DEF KeptInv, Applied, Private
<1>6. StoredInv /\ RowInv
  BY SMT, <1>1, <1>3 DEF StoredInv, RowInv
<1>7. QED
  BY <1>2, <1>4, <1>5, <1>6

LEMMA NextKept ==
  ASSUME FlowInv, OrderInv, KeptInv, [Next]_vars
  PROVE  FlowInv' /\ OrderInv' /\ KeptInv'
<1>1. FlowInv'
  BY NextFlow
<1>2. CASE \E c \in Client : EventStep(c)
  BY <1>1, <1>2, OrderStep, KeptStep
<1>3. CASE /\ Silent /\ UNCHANGED <<pc, state, raised, mode>>
           /\ \A c \in Client : Todo(c)' = Todo(c) /\ Saved(c)' = Saved(c)
           /\ storedState' = storedState \/ (storedState' = {} /\ deletes' > 0)
  <2>1. Sent' = Sent /\ Once' = Once /\ UNCHANGED abandoned
    BY <1>3, SentSame DEF Silent
  <2>2. OrderInv'
    BY <1>3, <2>1 DEF OrderInv, InOrder
  <2>3. storedState' \subseteq storedState
    BY <1>3
  <2>4. Applied'
    BY <1>3, <2>3 DEF KeptInv, Applied
  <2>5. Private'
    BY <1>3, <2>3 DEF KeptInv, Private
  <2>6. \A e : Safe(e) => Safe(e)'
    BY <1>3, <2>1 DEF Safe
  <2>7. QED
    BY <1>1, <1>3, <2>2, <2>3, <2>4, <2>5, <2>6 DEF KeptInv
<1>4. QED
  BY <1>2, <1>3, NextFlow

\* No event that is part of the stored aggregate is lost, for any clients and
\* any mix of ways to save: it is delivered, or some client still has it to
\* deliver, or a client that does not use the unit of work gave it up.
THEOREM EventsKept == Spec => []NoEventLost
<1>1. FlowInv /\ OrderInv /\ KeptInv /\ [Next]_vars => (FlowInv /\ OrderInv /\ KeptInv)'
  BY NextKept
<1>2. KeptInv => NoEventLost
  <2> SUFFICES ASSUME KeptInv, NEW e \in storedState, Safe(e)
               PROVE  \/ e \in OutboxEvents \cup Elems(published)
                      \/ \E c \in Client : e \in Elems(batch[c]) \cup Elems(pending[c])
                      \/ e \in abandoned /\ mode[e[1]] # "Outbox"
    BY DEF KeptInv, NoEventLost
  <2>1. \A c \in Client : Elems(Todo(c)) \subseteq Elems(batch[c]) \cup Elems(pending[c])
    BY DEF Todo
  <2>2. QED
    BY <2>1 DEF Safe, Sent
<1>3. QED
  BY <1>1, <1>2, InitFlow, PTL DEF Spec

\* Unless both ways of writing are mixed, every event is delivered at most once
\* and a client's events in the order it raised them, only stored ones are,
\* and the rows of the unit of work are in the order of the versions.
THEOREM EventsDeliveredOnce ==
  ASSUME \A m \in Modes : Unmixed(m)
  PROVE  Spec => []DeliveredOnceInOrder
<1> DEFINE Inv == /\ StoreInv /\ Unmixed(mode) /\ FlowInv /\ OrderInv /\ KeptInv
                  /\ StoredInv /\ RowInv
<1>1. Init => Inv
  BY InitStore, InitFlow DEF Init
<1>2. Inv /\ [Next]_vars => Inv'
  <2> SUFFICES ASSUME Inv, [Next]_vars PROVE Inv'
    OBVIOUS
  <2>1. StoreInv' /\ FlowInv' /\ OrderInv' /\ KeptInv' /\ StoredInv' /\ RowInv'
    BY NextStore, NextKept, StoredStep, RowStep
  <2>2. Unmixed(mode)'
    BY ModeKept DEF Unmixed
  <2>3. QED
    BY <2>1, <2>2
<1>3. Inv => DeliveredOnceInOrder
  BY DEF OrderInv, Once, StoredInv, RowInv, Sent, DeliveredOnceInOrder
<1>4. QED
  BY <1>1, <1>2, <1>3, PTL DEF Spec
=============================================================================
