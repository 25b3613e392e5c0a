----------------------------- MODULE SagaProofs -----------------------------
(***************************************************************************)
(* Proofs about SagaRunner for any number of sagas, events, consumers and  *)
(* sweeps, any saga code and any bounds.                                   *)
(*                                                                         *)
(* Everything rests on what a copy of an instance (loaded by a runner or   *)
(* claimed by a sweep) says of the stored one: it is no newer, and while   *)
(* their versions agree it is the same (Seen).  A save is accepted only    *)
(* for such a copy, so it extends what is stored (SaveExtends), and every  *)
(* write gives the instance a higher version (StoredStep).                 *)
(***************************************************************************)
EXTENDS SagaRunner, TLAPS

USE Zenon

Loaded == [version : Nat, status : Status, folded : SUBSET Cause]

\* The types the proofs use.
SagaType ==
  /\ deployed \in Deployments
  /\ version \in [Saga -> Nat] /\ status \in [Saga -> Status]
  /\ folded \in [Saga -> SUBSET Cause]
  /\ pc \in [Process -> Pc] /\ cause \in [Process -> Cause \cup {AnyCause}]
  /\ cur \in [Process -> Loaded] /\ kind \in [Process -> Kinds \cup {"Ignore"}]
  /\ batch \in [Sweeper -> SUBSET (Saga \X Loaded)]
  /\ enqueued \in [Cause -> Nat] /\ faults \in Nat

\* Runners handle events, sweeps handle sagas, and each runs its own calls.
RoleInv ==
  /\ \A r \in Runner : pc[r] # "Timeout" /\ (pc[r] # "Idle" => cause[r] \in Event)
  /\ \A t \in Sweeper : /\ pc[t] \notin {"Load", "React"}
                        /\ pc[t] \in {"Save", "Enqueue"} => cause[t] \in Saga

\* An instance that was never saved is empty.
NewInv == \A s \in Saga : version[s] = 0 => status[s] = "Running" /\ folded[s] = {}

\* The copy x of the instance s is old, or it is what is stored.
Seen(s, x) ==
  /\ x.version <= version[s]
  /\ x.version = version[s] => x.status = status[s] /\ x.folded = folded[s]

CopyInv ==
  /\ \A p \in Process : pc[p] \in {"React", "Save"} => Seen(SagaFor(cause[p]), cur[p])
  /\ \A p \in Process : pc[p] = "Save" => ~Terminal(cur[p])
  /\ \A r \in Runner : pc[r] = "Save" => cause[r] \notin cur[r].folded
  /\ \A t \in Sweeper : \A c \in batch[t] : Seen(c[1], c[2]) /\ ~Terminal(c[2])

\* The saga has dealt with the event: it holds it, or it failed.
Done(e) == e \in folded[SagaFor(e)] \/ status[SagaFor(e)] = "Failed"

\* One runner at most is about to enqueue the command of an event.
OnceInv ==
  "Fail" \notin deployed.fresh =>
    /\ \A p \in Process : pc[p] = "Enqueue" /\ cause[p] \in Event =>
         Done(cause[p]) /\ enqueued[cause[p]] = 0
    /\ \A p, q \in Process :
         pc[p] = "Enqueue" /\ pc[q] = "Enqueue" /\ cause[p] = cause[q] /\ cause[p] \in Event
           => p = q
    /\ \A e \in Event : enqueued[e] <= 1 /\ (enqueued[e] = 1 => Done(e))

\* Without faults, what is folded has its command on the outbox or on its way.
FollowInv ==
  faults = 0 => \A s \in Saga : \A c \in folded[s] :
    enqueued[c] > 0 \/ \E p \in Process : pc[p] = "Enqueue" /\ cause[p] = c

SagaInv == /\ SagaType /\ RoleInv /\ NewInv /\ CopyInv /\ OneValidClaim
           /\ OnceInv /\ FollowInv

-----------------------------------------------------------------------------
(* Helpers *)

\* Everyone but p keeps its place.
Alone(p) ==
  /\ \A q \in Process \ {p} : /\ pc'[q] = pc[q] /\ cause'[q] = cause[q]
                              /\ cur'[q] = cur[q] /\ kind'[q] = kind[q]
  /\ \A t \in Sweeper \ {p} : batch'[t] = batch[t]

\* The call variables keep their types.
CallType ==
  /\ pc \in [Process -> Pc] /\ cause \in [Process -> Cause \cup {AnyCause}]
  /\ cur \in [Process -> Loaded] /\ kind \in [Process -> Kinds \cup {"Ignore"}]
  /\ batch \in [Sweeper -> SUBSET (Saga \X Loaded)]

\* Saga::id_for names a saga.
LEMMA SagaForType ==
  ASSUME SagaType, NEW c \in Cause
  PROVE  SagaFor(c) \in Saga /\ (c \in Saga => SagaFor(c) = c)
<1>1. deployed.idFor \in [Event -> Saga]
  BY SagaAssumption DEF SagaType
<1>. QED
  BY <1>1, SagaAssumption DEF SagaFor, Cause

\* claim_due's copy of an instance has the type of a loaded one.
LEMMA ClaimedType ==
  ASSUME SagaType, NEW s \in Saga
  PROVE  [Instance(s) EXCEPT !.version = @ + 1] \in Loaded
<1>1. version[s] \in Nat /\ status[s] \in Status /\ folded[s] \in SUBSET Cause
  BY DEF SagaType
<1>2. version[s] + 1 \in Nat
  BY SMT, <1>1
<1>3. [Instance(s) EXCEPT !.version = @ + 1] =
        [version |-> version[s] + 1, status |-> status[s], folded |-> folded[s]]
  BY SMT DEF Instance
<1>. QED
  BY <1>1, <1>2, <1>3 DEF Loaded

\* A call that returns leaves the others alone.
LEMMA ReturnEffect ==
  ASSUME CallType, NEW p \in Process, Return(p)
  PROVE  CallType' /\ Alone(p) /\ pc'[p] = "Idle" /\ (p \in Sweeper => batch'[p] = {})
<1>1. NoInstance \in Loaded
  BY DEF NoInstance, Loaded, Status
<1>. QED
  BY <1>1 DEF CallType, Return, Alone, Pc

\* A runner returns, a sweep returns or goes on with what is left of its batch.
LEMMA ProceedEffect ==
  ASSUME CallType, NEW p \in Process, Proceed(p)
  PROVE  /\ CallType' /\ Alone(p)
         /\ pc'[p] = "Idle" \/ (p \in Sweeper /\ pc'[p] = "Timeout")
         /\ p \in Sweeper => batch'[p] \subseteq batch[p]
<1>1. CASE p \in Sweeper /\ batch[p] # {}
  BY <1>1 DEF CallType, Proceed, Alone, Pc
<1>2. CASE ~(p \in Sweeper /\ batch[p] # {})
  <2>1. Return(p)
    BY <1>2 DEF Proceed
  <2>. QED
    BY <2>1, ReturnEffect
<1>. QED
  BY <1>1, <1>2

\* An accepted save extends the stored instance, which is running.
LEMMA SaveExtends ==
  ASSUME SagaType, RoleInv, NewInv, CopyInv,
         NEW p \in Process, pc[p] = "Save", Accepted(p)
  PROVE  LET s == SagaFor(cause[p]) IN
         /\ cause[p] \in Cause /\ s \in Saga /\ status[s] = "Running"
         /\ version[s] = Expected(p)
         /\ folded[s] \subseteq NewState(p)
         /\ NewState(p) \subseteq folded[s] \cup {cause[p]}
         /\ kind[p] \in {"Fail", "Ignore"} => NewState(p) = folded[s]
         /\ kind[p] \notin {"Fail", "Ignore"} => cause[p] \in NewState(p)
         /\ p \in Runner => cause[p] \notin folded[s]
<1>. DEFINE s == SagaFor(cause[p])
<1>1. cause[p] \in Cause
  BY DEF RoleInv, Process, Cause
<1>2. s \in Saga
  BY <1>1, SagaForType
<1>3. version[s] = Expected(p)
  BY DEF Accepted
<1>4. kind[p] \in Kinds \cup {"Ignore"}
  BY DEF SagaType
<1>5. CASE kind[p] = "Start"
  <2>1. status[s] = "Running" /\ folded[s] = {}
    BY <1>2, <1>3, <1>5 DEF Expected, NewInv
  <2>2. NewState(p) = {cause[p]}
    BY <1>5 DEF NewState
  <2>. QED
    BY <1>1, <1>2, <1>3, <1>5, <2>1, <2>2
<1>6. CASE kind[p] # "Start"
  <2>1. cur[p].version = version[s]
    BY <1>3, <1>6 DEF Expected
  <2>2. status[s] = "Running" /\ cur[p].folded = folded[s]
    BY <2>1 DEF CopyInv, Seen, Terminal
  <2>3. p \in Runner => cause[p] \notin folded[s]
    BY <2>2 DEF CopyInv
  <2>4. \/ kind[p] \in {"Advance", "Complete"} /\ NewState(p) = folded[s] \cup {cause[p]}
        \/ kind[p] \in {"Fail", "Ignore"} /\ NewState(p) = folded[s]
    BY <1>4, <1>6, <2>2 DEF NewState, Kinds
  <2>. QED
    BY <1>1, <1>2, <1>3, <2>2, <2>3, <2>4
<1>. QED
  BY <1>5, <1>6

-----------------------------------------------------------------------------
(* Types, roles and the stored instances *)

\* SagaType holds initially.
LEMMA InitType == Init => SagaType
<1>1. NoInstance \in Loaded
  BY DEF NoInstance, Loaded, Status
<1>. QED
  BY SMT, <1>1 DEF Init, SagaType, Status, Pc, Kinds

\* Every step preserves SagaType.
LEMMA NextType == SagaType /\ RoleInv /\ NewInv /\ CopyInv /\ [Next]_vars => SagaType'
<1>. SUFFICES ASSUME SagaType, RoleInv, NewInv, CopyInv, [Next]_vars
             PROVE  SagaType'
  OBVIOUS
<1>. USE DEF stored
<1>0. CallType
  BY DEF SagaType, CallType
<1>1. ASSUME NEW r \in Runner, NEW e \in Event, Deliver(r, e)
      PROVE  SagaType'
  BY <1>1 DEF Deliver, SagaType, Process, Cause, Pc
<1>2. ASSUME NEW p \in Process, Load(p), UNCHANGED deployed
      PROVE  SagaType'
  <2>1. cause[p] \in Cause
    BY <1>2 DEF Load, RoleInv, Cause
  <2>2. Instance(SagaFor(cause[p])) \in Loaded
    BY <2>1, SagaForType DEF Instance, Loaded, SagaType
  <2>. QED
    BY <1>2, <2>2 DEF Load, SagaType, Pc
<1>3. ASSUME NEW p \in Process, React(p), UNCHANGED deployed
      PROVE  SagaType'
  <2>1. faults' \in Nat
    BY SMT, <1>3 DEF React, Fault, SagaType
  <2>2. CASE Return(p)
    BY <1>0, <1>3, <2>1, <2>2, ReturnEffect DEF React, SagaType, CallType
  <2>3. CASE ~Return(p)
    <3>1. PICK k \in Transitions(cur[p], cause[p]) :
            /\ kind' = [kind EXCEPT ![p] = k]
            /\ pc' = [pc EXCEPT ![p] = IF k = "Fail" /\ cur[p].version = 0
                                         THEN "Enqueue" ELSE "Save"]
            /\ UNCHANGED <<cause, cur, tries, batch, faults>>
      BY <1>3, <2>3 DEF React
    <3>2. k \in Kinds \cup {"Ignore"}
      <4>1. deployed.fresh \in SUBSET Kinds
        BY SagaAssumption DEF SagaType
      <4>. QED
        BY <4>1, SagaAssumption DEF Transitions
    <3>. QED
      BY <1>3, <3>1, <3>2 DEF React, SagaType, Pc
  <2>. QED
    BY <2>2, <2>3
<1>4. ASSUME NEW p \in Process, ClaimDue(p), UNCHANGED deployed
      PROVE  SagaType'
  <2>1. PICK T \in SUBSET DueSagas :
          /\ version' = [s \in Saga |-> IF s \in T THEN version[s] + 1 ELSE version[s]]
          /\ batch' = [batch EXCEPT ![p] = {<<s, [Instance(s) EXCEPT !.version = @ + 1]>> : s \in T}]
    BY <1>4 DEF ClaimDue
  <2>2. \A s \in T : s \in Saga /\ [Instance(s) EXCEPT !.version = @ + 1] \in Loaded
    BY ClaimedType DEF DueSagas
  <2>3. {<<s, [Instance(s) EXCEPT !.version = @ + 1]>> : s \in T} \subseteq Saga \X Loaded
    BY SMT, <2>2
  <2>4. version' \in [Saga -> Nat]
    BY SMT, <2>1 DEF SagaType
  <2>5. batch' \in [Sweeper -> SUBSET (Saga \X Loaded)]
    BY <2>1, <2>3 DEF SagaType
  <2>. QED
    BY <1>4, <2>4, <2>5 DEF ClaimDue, SagaType, Pc
<1>5. ASSUME NEW p \in Process, OnTimeout(p), UNCHANGED deployed
      PROVE  SagaType'
  <2>1. faults' \in Nat
    BY SMT, <1>5 DEF OnTimeout, Fault, SagaType
  <2>2. CASE Return(p)
    BY <1>0, <1>5, <2>1, <2>2, ReturnEffect DEF OnTimeout, SagaType, CallType
  <2>3. CASE ~Return(p)
    <3>1. PICK c \in batch[p], k \in deployed.timeout :
            /\ batch' = [batch EXCEPT ![p] = @ \ {c}]
            /\ cause' = [cause EXCEPT ![p] = c[1]]
            /\ cur' = [cur EXCEPT ![p] = c[2]]
            /\ kind' = [kind EXCEPT ![p] = k]
            /\ pc' = [pc EXCEPT ![p] = "Save"]
      BY <1>5, <2>3 DEF OnTimeout
    <3>2. k \in Kinds \cup {"Ignore"}
      BY SagaAssumption DEF SagaType
    <3>3. p \in Sweeper /\ c \in Saga \X Loaded
      BY <1>5 DEF OnTimeout, SagaType
    <3>. QED
      BY <1>5, <2>1, <3>1, <3>2, <3>3 DEF OnTimeout, SagaType, Pc, Cause
  <2>. QED
    BY <2>2, <2>3
<1>6. ASSUME NEW p \in Process, Save(p), UNCHANGED deployed
      PROVE  SagaType'
  <2>1. pc[p] = "Save" /\ Accepted(p)
    BY <1>6 DEF Save
  <2>2. /\ SagaFor(cause[p]) \in Saga /\ cause[p] \in Cause
        /\ Expected(p) \in Nat /\ NewState(p) \in SUBSET Cause
    BY SMT, <2>1, SaveExtends DEF SagaType
  <2>3. NewStatus(kind[p]) \in Status
    BY DEF SagaType, NewStatus, Status, Kinds
  <2>4. version' \in [Saga -> Nat] /\ status' \in [Saga -> Status]
        /\ folded' \in [Saga -> SUBSET Cause]
    BY SMT, <1>6, <2>2, <2>3 DEF Save, SagaType
  <2>5. CallType'
    <3>1. CASE Proceed(p)
      BY <1>0, <3>1, ProceedEffect
    <3>2. CASE ~Proceed(p)
      BY <1>0, <1>6, <3>2 DEF Save, CallType, Pc
    <3>. QED
      BY <3>1, <3>2
  <2>. QED
    BY <1>6, <2>4, <2>5 DEF Save, SagaType, CallType
<1>7. ASSUME NEW p \in Process, Conflict(p), UNCHANGED deployed
      PROVE  SagaType'
  <2>1. CallType'
    <3>1. CASE Return(p)
      BY <1>0, <3>1, ReturnEffect
    <3>2. CASE ~Return(p)
      BY <1>0, <1>7, <3>2 DEF Conflict, CallType, Pc
    <3>. QED
      BY <3>1, <3>2
  <2>. QED
    BY <1>7, <2>1 DEF Conflict, SagaType, CallType
<1>8. ASSUME NEW p \in Process, Enqueue(p), UNCHANGED deployed
      PROVE  SagaType'
  <2>1. CallType'
    BY <1>0, <1>8, ProceedEffect DEF Enqueue
  <2>2. cause[p] \in Cause
    BY <1>8 DEF Enqueue, RoleInv, Process, Cause
  <2>3. enqueued' \in [Cause -> Nat]
    BY SMT, <1>8, <2>2 DEF Enqueue, SagaType
  <2>. QED
    BY <1>8, <2>1, <2>3 DEF Enqueue, SagaType, CallType
<1>9. ASSUME NEW p \in Process, Abort(p)
      PROVE  SagaType'
  <2>1. CallType'
    BY <1>0, <1>9, ReturnEffect DEF Abort
  <2>. QED
    BY SMT, <1>9, <2>1 DEF Abort, Fault, SagaType, CallType
<1>10. CASE Tick \/ UNCHANGED vars
  BY <1>10 DEF Tick, vars, call, SagaType
<1>. QED
  BY <1>1, <1>2, <1>3, <1>4, <1>5, <1>6, <1>7, <1>8, <1>9, <1>10 DEF Next, Step

\* What a step makes of a stored instance: nothing, or a newer version of a
\* running instance that holds at least as much.
StoredStep(s) ==
  \/ version'[s] = version[s] /\ status'[s] = status[s] /\ folded'[s] = folded[s]
  \/ version'[s] > version[s] /\ status[s] = "Running" /\ folded[s] \subseteq folded'[s]

\* Every step does that to every instance.
LEMMA NextStored ==
  ASSUME SagaType, RoleInv, NewInv, CopyInv, [Next]_vars
  PROVE  \A s \in Saga : StoredStep(s)
<1>. USE DEF stored
<1>1. ASSUME NEW p \in Process, ClaimDue(p)
      PROVE  \A s \in Saga : StoredStep(s)
  BY SMT, <1>1 DEF ClaimDue, DueSagas, StoredStep, SagaType
<1>2. ASSUME NEW p \in Process, Save(p)
      PROVE  \A s \in Saga : StoredStep(s)
  <2>1. pc[p] = "Save" /\ Accepted(p)
    BY <1>2 DEF Save
  <2>2. LET s == SagaFor(cause[p]) IN
        /\ s \in Saga /\ status[s] = "Running" /\ version[s] = Expected(p)
        /\ folded[s] \subseteq NewState(p)
    BY <2>1, SaveExtends
  <2>. QED
    BY SMT, <1>2, <2>2 DEF Save, StoredStep, SagaType
<1>3. CASE UNCHANGED <<version, status, folded>>
  BY <1>3 DEF StoredStep
<1>. QED
  BY <1>1, <1>2, <1>3 DEF Next, Step, Deliver, Load, React, OnTimeout, Conflict, Enqueue,
     Abort, Tick, vars

\* RoleInv and NewInv hold initially.
LEMMA InitRole == Init => RoleInv /\ NewInv
BY SMT, SagaAssumption DEF Init, RoleInv, NewInv, Process

\* Every step preserves RoleInv and NewInv.
LEMMA NextRole == SagaType /\ RoleInv /\ NewInv /\ CopyInv /\ [Next]_vars => RoleInv' /\ NewInv'
<1>. SUFFICES ASSUME SagaType, RoleInv, NewInv, CopyInv, [Next]_vars
             PROVE  RoleInv' /\ NewInv'
  OBVIOUS
<1>. USE DEF stored
<1>0. CallType
  BY DEF SagaType, CallType
<1>1. NewInv'
  <2>1. \A s \in Saga : StoredStep(s)
    BY NextStored
  <2>. QED
    BY SMT, <2>1, NextType DEF NewInv, StoredStep, SagaType
<1>2. ASSUME NEW p \in Process, Alone(p),
             p \in Runner => pc'[p] # "Timeout" /\ (pc'[p] # "Idle" => cause'[p] \in Event),
             p \in Sweeper => /\ pc'[p] \notin {"Load", "React"}
                              /\ pc'[p] \in {"Save", "Enqueue"} => cause'[p] \in Saga
      PROVE  RoleInv'
  BY <1>2 DEF RoleInv, Alone, Process
<1>3. ASSUME NEW p \in Process, Return(p)
      PROVE  RoleInv'
  BY <1>0, <1>2, <1>3, ReturnEffect
<1>4. ASSUME NEW p \in Process, Proceed(p)
      PROVE  RoleInv'
  <2>1. Alone(p) /\ (pc'[p] = "Idle" \/ (p \in Sweeper /\ pc'[p] = "Timeout"))
    BY <1>0, <1>4, ProceedEffect
  <2>. QED
    BY <1>2, <2>1, SagaAssumption
<1>5. ASSUME NEW r \in Runner, NEW e \in Event, Deliver(r, e)
      PROVE  RoleInv'
  BY SMT, <1>5, SagaAssumption DEF Deliver, RoleInv, SagaType, Process
<1>6. ASSUME NEW p \in Process, Load(p)
      PROVE  RoleInv'
  BY <1>6, SagaAssumption DEF Load, RoleInv, SagaType, Process
<1>7. ASSUME NEW p \in Process, React(p)
      PROVE  RoleInv'
  <2>. SUFFICES ASSUME ~Return(p)
                PROVE  RoleInv'
    BY <1>3
  <2>1. /\ p \in Runner /\ pc[p] = "React" /\ cause' = cause
        /\ \E x \in {"Enqueue", "Save"} : pc' = [pc EXCEPT ![p] = x]
    BY <1>7 DEF React
  <2>. QED
    BY <2>1, SagaAssumption DEF RoleInv, SagaType, Process
<1>8. ASSUME NEW p \in Process, ClaimDue(p)
      PROVE  RoleInv'
  BY SMT, <1>8, SagaAssumption DEF ClaimDue, RoleInv, SagaType, Process
<1>9. ASSUME NEW p \in Process, OnTimeout(p)
      PROVE  RoleInv'
  <2>. SUFFICES ASSUME ~Return(p)
                PROVE  RoleInv'
    BY <1>3
  <2>1. PICK c \in batch[p] : /\ cause' = [cause EXCEPT ![p] = c[1]]
                              /\ pc' = [pc EXCEPT ![p] = "Save"]
    BY <1>9 DEF OnTimeout
  <2>2. p \in Sweeper /\ c[1] \in Saga
    BY SMT, <1>9 DEF OnTimeout, SagaType
  <2>. QED
    BY SMT, <2>1, <2>2, SagaAssumption DEF RoleInv, SagaType, Process
<1>10. ASSUME NEW p \in Process, Save(p)
       PROVE  RoleInv'
  <2>. SUFFICES ASSUME ~Proceed(p)
                PROVE  RoleInv'
    BY <1>4
  <2>1. pc[p] = "Save" /\ pc' = [pc EXCEPT ![p] = "Enqueue"] /\ cause' = cause
    BY <1>10 DEF Save
  <2>. QED
    BY <2>1, SagaAssumption DEF RoleInv, SagaType, Process
<1>11. ASSUME NEW p \in Process, Conflict(p)
       PROVE  RoleInv'
  <2>. SUFFICES ASSUME ~Return(p)
                PROVE  RoleInv'
    BY <1>3
  <2>1. pc[p] = "Save" /\ p \in Runner /\ pc' = [pc EXCEPT ![p] = "Load"] /\ cause' = cause
    BY <1>11 DEF Conflict
  <2>. QED
    BY <2>1, SagaAssumption DEF RoleInv, SagaType, Process
<1>12. CASE Tick \/ UNCHANGED vars
  <2>1. pc' = pc /\ cause' = cause
    BY <1>12 DEF Tick, vars, call
  <2>. QED
    BY <1>1, <2>1 DEF RoleInv
<1>. QED
  BY <1>1, <1>3, <1>4, <1>5, <1>6, <1>7, <1>8, <1>9, <1>10, <1>11, <1>12
     DEF Next, Step, Enqueue, Abort

-----------------------------------------------------------------------------
(* Copies and claims *)

\* The copies p holds are as CopyInv says.
CopyOK(p) ==
  /\ pc[p] \in {"React", "Save"} => Seen(SagaFor(cause[p]), cur[p])
  /\ pc[p] = "Save" => ~Terminal(cur[p])
  /\ p \in Runner /\ pc[p] = "Save" => cause[p] \notin cur[p].folded
  /\ p \in Sweeper => \A c \in batch[p] : Seen(c[1], c[2]) /\ ~Terminal(c[2])

\* CopyInv, process by process.
LEMMA CopyByProcess == CopyInv <=> \A p \in Process : CopyOK(p)
BY DEF CopyInv, CopyOK, Process

\* A step leaves a copy that was right right.
LEMMA SeenKept ==
  ASSUME SagaType, SagaType', NEW s \in Saga, StoredStep(s), NEW x \in Loaded, Seen(s, x)
  PROVE  Seen(s, x)'
<1>1. x.version \in Nat /\ version[s] \in Nat /\ version'[s] \in Nat
  BY DEF SagaType, Loaded
<1>. QED
  BY SMT, <1>1 DEF Seen, StoredStep

\* Who does not move keeps its copies.
LEMMA CopyKept ==
  ASSUME SagaType, SagaType', RoleInv, UNCHANGED deployed,
         \A s \in Saga : StoredStep(s), NEW q \in Process, CopyOK(q),
         pc'[q] = pc[q], cause'[q] = cause[q], cur'[q] = cur[q],
         q \in Sweeper => batch'[q] \subseteq batch[q]
  PROVE  CopyOK(q)'
<1>1. ASSUME pc[q] \in {"React", "Save"}
      PROVE  Seen(SagaFor(cause[q]), cur[q])' /\ SagaFor(cause[q])' = SagaFor(cause[q])
  <2>1. cause[q] \in Cause /\ cur[q] \in Loaded
    BY <1>1 DEF RoleInv, Process, Cause, SagaType
  <2>2. SagaFor(cause[q]) \in Saga
    BY <2>1, SagaForType
  <2>3. SagaFor(cause[q])' = SagaFor(cause[q])
    BY DEF SagaFor
  <2>4. Seen(SagaFor(cause[q]), cur[q])
    BY <1>1 DEF CopyOK
  <2>5. PICK s \in Saga, x \in Loaded : s = SagaFor(cause[q]) /\ x = cur[q]
    BY <2>1, <2>2
  <2>6. Seen(s, x)'
    BY <2>4, <2>5, SeenKept
  <2>7. s = SagaFor(cause[q])' /\ x = cur'[q]
    BY <2>3, <2>5
  <2>. QED
    BY <2>3, <2>6, <2>7 DEF Seen
<1>2. ASSUME q \in Sweeper, NEW c \in batch'[q]
      PROVE  Seen(c[1], c[2])' /\ ~Terminal(c[2])
  <2>1. c \in batch[q] /\ c[1] \in Saga /\ c[2] \in Loaded
    BY SMT, <1>2 DEF SagaType
  <2>. QED
    BY <1>2, <2>1, SeenKept DEF CopyOK
<1>. QED
  BY <1>1, <1>2 DEF CopyOK, Terminal

\* CopyInv holds initially.
LEMMA InitCopy == Init => CopyInv
BY DEF Init, CopyInv, Process

\* Every step preserves CopyInv.
LEMMA NextCopy ==
  ASSUME SagaType, SagaType', RoleInv, NewInv, CopyInv, [Next]_vars
  PROVE  CopyInv'
<1>. USE DEF stored
<1>0. CallType /\ \A s \in Saga : StoredStep(s)
  BY NextStored DEF SagaType, CallType
<1>a. UNCHANGED deployed
  BY DEF Next, Step, Deliver, Abort, Tick, vars
<1>b. \A q \in Process : CopyOK(q)
  BY CopyByProcess
<1>c. ASSUME NEW p \in Process, Alone(p), CopyOK(p)'
      PROVE  CopyInv'
  <2>1. ASSUME NEW q \in Process, q # p
        PROVE  CopyOK(q)'
    <3>1. /\ pc'[q] = pc[q] /\ cause'[q] = cause[q] /\ cur'[q] = cur[q]
          /\ q \in Sweeper => batch'[q] \subseteq batch[q]
      BY <1>c, <2>1 DEF Alone
    <3>. QED
      BY <1>0, <1>a, <1>b, <3>1, CopyKept
  <2>. QED
    BY <1>c, <2>1 DEF CopyInv, CopyOK, Process
<1>d. ASSUME NEW p \in Process, p \in Sweeper => batch'[p] \subseteq batch[p]
      PROVE  p \in Sweeper => \A c \in batch'[p] : Seen(c[1], c[2])' /\ ~Terminal(c[2])
  <2>. SUFFICES ASSUME p \in Sweeper, NEW c \in batch'[p]
                PROVE  Seen(c[1], c[2])' /\ ~Terminal(c[2])
    OBVIOUS
  <2>1. c \in batch[p] /\ c[1] \in Saga /\ c[2] \in Loaded
    BY SMT, <1>d DEF SagaType
  <2>. QED
    BY <1>0, <2>1, SeenKept DEF CopyInv
<1>1. ASSUME NEW p \in Process, Return(p)
      PROVE  CopyInv'
  <2>1. Alone(p) /\ pc'[p] = "Idle" /\ (p \in Sweeper => batch'[p] = {})
    BY <1>0, <1>1, ReturnEffect
  <2>2. CopyOK(p)'
    BY <2>1 DEF CopyOK
  <2>. QED
    BY <1>c, <2>1, <2>2
<1>2. ASSUME NEW p \in Process, Proceed(p)
      PROVE  CopyInv'
  <2>1. Alone(p) /\ pc'[p] \in {"Idle", "Timeout"} /\ (p \in Sweeper => batch'[p] \subseteq batch[p])
    BY <1>0, <1>2, ProceedEffect
  <2>2. CopyOK(p)'
    BY <1>d, <2>1 DEF CopyOK, Terminal
  <2>. QED
    BY <1>c, <2>1, <2>2
\* A step of p to a call other than React and Save, with the batch kept.
<1>3. ASSUME NEW p \in Process, NEW x \in Pc \ {"React", "Save"},
             pc' = [pc EXCEPT ![p] = x], UNCHANGED <<cur, kind, batch>>,
             \A q \in Process \ {p} : cause'[q] = cause[q]
      PROVE  CopyInv'
  <2>1. Alone(p) /\ pc'[p] = x
    BY <1>3 DEF Alone, SagaType
  <2>2. CopyOK(p)'
    BY <1>3, <1>d, <2>1 DEF CopyOK, Terminal
  <2>. QED
    BY <1>c, <2>1, <2>2
<1>4. ASSUME NEW r \in Runner, NEW e \in Event, Deliver(r, e)
      PROVE  CopyInv'
  BY <1>3, <1>4 DEF Deliver, Pc, Process, SagaType
<1>5. ASSUME NEW p \in Process, Load(p)
      PROVE  CopyInv'
  <2>1. p \in Runner /\ cause[p] \in Cause
    BY <1>5 DEF Load, RoleInv, Cause
  <2>2. Alone(p) /\ pc'[p] = "React" /\ cause'[p] = cause[p]
        /\ cur'[p] = Instance(SagaFor(cause[p]))
    BY <1>5 DEF Load, Alone, SagaType
  <2>3. SagaFor(cause[p]) \in Saga /\ SagaFor(cause[p])' = SagaFor(cause[p])
    BY <1>a, <2>1, <2>2, SagaForType DEF SagaFor
  <2>4. Seen(SagaFor(cause[p]), cur[p])'
    BY SMTT(60), <1>5, <2>2, <2>3 DEF Load, Seen, Instance, SagaType
  <2>5. CopyOK(p)'
    BY <2>1, <2>2, <2>4, SagaAssumption DEF CopyOK
  <2>. QED
    BY <1>c, <2>2, <2>5
<1>6. ASSUME NEW p \in Process, React(p)
      PROVE  CopyInv'
  <2>. SUFFICES ASSUME ~Return(p)
                PROVE  CopyInv'
    BY <1>1
  <2>1. /\ p \in Runner /\ pc[p] = "React" /\ UNCHANGED <<cause, cur, batch, stored>>
        /\ ~Terminal(cur[p]) /\ cause[p] \notin cur[p].folded
        /\ \E x \in {"Enqueue", "Save"} : pc' = [pc EXCEPT ![p] = x]
        /\ \E k : kind' = [kind EXCEPT ![p] = k]
    BY <1>6 DEF React, Transitions
  <2>2. Alone(p) /\ pc'[p] \in {"Enqueue", "Save"}
    BY <2>1 DEF Alone, SagaType
  <2>3. Seen(SagaFor(cause[p]), cur[p])'
    BY <1>a, <2>1 DEF CopyInv, Seen, SagaFor
  <2>4. CopyOK(p)'
    BY <2>1, <2>2, <2>3, SagaAssumption DEF CopyOK, Terminal
  <2>. QED
    BY <1>c, <2>2, <2>4
<1>7. ASSUME NEW p \in Process, ClaimDue(p)
      PROVE  CopyInv'
  <2>1. PICK T \in SUBSET DueSagas :
          /\ version' = [s \in Saga |-> IF s \in T THEN version[s] + 1 ELSE version[s]]
          /\ batch' = [batch EXCEPT ![p] = {<<s, [Instance(s) EXCEPT !.version = @ + 1]>> : s \in T}]
    BY <1>7 DEF ClaimDue
  <2>2. p \in Sweeper /\ UNCHANGED <<status, folded, cause, cur, kind>>
        /\ pc' = [pc EXCEPT ![p] = "Timeout"]
    BY <1>7 DEF ClaimDue
  <2>3. Alone(p) /\ pc'[p] = "Timeout"
    BY <2>1, <2>2 DEF Alone, SagaType
  <2>4. ASSUME NEW c \in batch'[p]
        PROVE  Seen(c[1], c[2])' /\ ~Terminal(c[2])
    <3>1. PICK s \in T : c = <<s, [Instance(s) EXCEPT !.version = @ + 1]>>
      BY <2>1, <2>2 DEF SagaType
    <3>2. s \in Saga /\ status[s] = "Running"
      BY DEF DueSagas
    <3>3. c[1] = s /\ c[2].version = version[s] + 1 /\ c[2].status = status[s]
          /\ c[2].folded = folded[s]
      BY <3>1 DEF Instance
    <3>4. version'[s] = version[s] + 1 /\ version[s] \in Nat
      BY <2>1, <3>2 DEF SagaType
    <3>. QED
      BY SMT, <2>2, <3>2, <3>3, <3>4 DEF Seen, Terminal
  <2>5. CopyOK(p)'
    BY <2>2, <2>3, <2>4, SagaAssumption DEF CopyOK, Terminal
  <2>. QED
    BY <1>c, <2>3, <2>5
<1>8. ASSUME NEW p \in Process, OnTimeout(p)
      PROVE  CopyInv'
  <2>. SUFFICES ASSUME ~Return(p)
                PROVE  CopyInv'
    BY <1>1
  <2>1. PICK c \in batch[p], k \in deployed.timeout :
          /\ batch' = [batch EXCEPT ![p] = @ \ {c}]
          /\ cause' = [cause EXCEPT ![p] = c[1]]
          /\ cur' = [cur EXCEPT ![p] = c[2]]
          /\ kind' = [kind EXCEPT ![p] = k]
          /\ pc' = [pc EXCEPT ![p] = "Save"]
    BY <1>8 DEF OnTimeout
  <2>2. p \in Sweeper /\ p \notin Runner /\ UNCHANGED stored
    BY <1>8, SagaAssumption DEF OnTimeout
  <2>3. /\ Alone(p) /\ pc'[p] = "Save" /\ cause'[p] = c[1] /\ cur'[p] = c[2]
        /\ batch'[p] \subseteq batch[p]
    BY SMT, <2>1, <2>2 DEF Alone, SagaType
  <2>4. c[1] \in Saga /\ Seen(c[1], c[2]) /\ ~Terminal(c[2])
    BY SMTT(60), <2>2 DEF CopyInv, SagaType
  <2>5. SagaFor(cause[p])' = c[1]
    BY <2>3, <2>4, SagaAssumption DEF SagaFor
  <2>6. Seen(SagaFor(cause[p]), cur[p])'
    BY <2>2, <2>3, <2>4, <2>5 DEF Seen
  <2>7. CopyOK(p)'
    BY <1>d, <2>2, <2>3, <2>4, <2>6 DEF CopyOK, Terminal
  <2>. QED
    BY <1>c, <2>3, <2>7
<1>9. ASSUME NEW p \in Process, Save(p) \/ Conflict(p)
      PROVE  CopyInv'
  <2>. SUFFICES ASSUME ~Proceed(p), ~Return(p)
                PROVE  CopyInv'
    BY <1>1, <1>2
  <2>1. \E x \in Pc \ {"React", "Save"} : pc' = [pc EXCEPT ![p] = x]
    BY <1>9 DEF Save, Conflict, Pc
  <2>2. UNCHANGED <<cause, cur, kind, batch>>
    BY <1>9 DEF Save, Conflict
  <2>. QED
    BY <1>3, <2>1, <2>2
<1>10. CASE Tick \/ UNCHANGED vars
  <2>1. UNCHANGED <<pc, cause, cur, batch>>
    BY <1>10 DEF Tick, vars, call
  <2>2. ASSUME NEW q \in Process
        PROVE  CopyOK(q)'
    BY <1>0, <1>a, <1>b, <2>1, CopyKept
  <2>. QED
    BY <2>2 DEF CopyInv, CopyOK, Process
<1>. QED
  BY <1>1, <1>2, <1>4, <1>5, <1>6, <1>7, <1>8, <1>9, <1>10 DEF Next, Step, Enqueue, Abort

\* OneValidClaim holds initially.
LEMMA InitClaims == Init => OneValidClaim
BY DEF Init, OneValidClaim, Claims, Process

\* Every step preserves OneValidClaim: a new claim has a version above all
\* claims, which are at most the stored one (CopyInv).
LEMMA NextClaims ==
  ASSUME SagaType, SagaType', RoleInv, RoleInv', NewInv, CopyInv, OneValidClaim, [Next]_vars
  PROVE  OneValidClaim'
<1>. USE DEF stored
<1>0. CallType
  BY DEF SagaType, CallType
<1>a. ASSUME \A t \in Sweeper : Claims(t)' \subseteq Claims(t)
      PROVE  OneValidClaim'
  BY SMT, <1>a DEF OneValidClaim
<1>b. ASSUME NEW p \in Process, Alone(p), p \in Sweeper => Claims(p)' \subseteq Claims(p)
      PROVE  OneValidClaim'
  <2>1. ASSUME NEW t \in Sweeper
        PROVE  Claims(t)' \subseteq Claims(t)
    <3>1. CASE t = p
      BY <1>b, <3>1
    <3>2. CASE t # p
      BY <1>b, <3>2 DEF Alone, Claims, Process
    <3>. QED
      BY <3>1, <3>2
  <2>. QED
    BY <1>a, <2>1
<1>1. ASSUME NEW p \in Process, Return(p)
      PROVE  OneValidClaim'
  <2>1. Alone(p) /\ pc'[p] = "Idle" /\ (p \in Sweeper => batch'[p] = {})
    BY <1>0, <1>1, ReturnEffect
  <2>. QED
    BY <1>b, <2>1 DEF Claims
<1>2. ASSUME NEW p \in Process, Proceed(p)
      PROVE  OneValidClaim'
  <2>1. Alone(p) /\ pc'[p] \in {"Idle", "Timeout"} /\ (p \in Sweeper => batch'[p] \subseteq batch[p])
    BY <1>0, <1>2, ProceedEffect
  <2>. QED
    BY <1>b, <2>1 DEF Claims
<1>3. ASSUME NEW p \in Process, NEW x \in Pc \ {"Save"},
             pc' = [pc EXCEPT ![p] = x], UNCHANGED <<cur, kind, batch>>,
             \A q \in Process \ {p} : cause'[q] = cause[q]
      PROVE  OneValidClaim'
  <2>1. Alone(p) /\ pc'[p] = x
    BY <1>3 DEF Alone, SagaType
  <2>. QED
    BY <1>3, <1>b, <2>1 DEF Claims
<1>4. ASSUME NEW r \in Runner, NEW e \in Event, Deliver(r, e)
      PROVE  OneValidClaim'
  BY <1>3, <1>4 DEF Deliver, Pc, Process, SagaType
<1>5. ASSUME NEW p \in Runner, Load(p) \/ React(p)
      PROVE  OneValidClaim'
  <2>. SUFFICES ASSUME ~Return(p)
                PROVE  OneValidClaim'
    BY <1>1 DEF Process
  <2>1. /\ batch' = batch /\ cause' = cause
        /\ \E x : pc' = [pc EXCEPT ![p] = x]
        /\ cur' = cur \/ \E y : cur' = [cur EXCEPT ![p] = y]
        /\ kind' = kind \/ \E k : kind' = [kind EXCEPT ![p] = k]
    BY <1>5 DEF Load, React
  <2>2. Alone(p) /\ p \notin Sweeper
    BY SMT, <2>1, SagaAssumption DEF Alone, SagaType
  <2>. QED
    BY <1>b, <2>2 DEF Process
<1>6. ASSUME NEW p \in Process, ClaimDue(p)
      PROVE  OneValidClaim'
  <2>1. PICK T \in SUBSET DueSagas :
          batch' = [batch EXCEPT ![p] = {<<s, [Instance(s) EXCEPT !.version = @ + 1]>> : s \in T}]
    BY <1>6 DEF ClaimDue
  <2>2. p \in Sweeper /\ UNCHANGED <<cause, cur, kind>> /\ pc' = [pc EXCEPT ![p] = "Timeout"]
    BY <1>6 DEF ClaimDue
  <2>3. Alone(p) /\ pc'[p] = "Timeout"
    BY <2>1, <2>2 DEF Alone, SagaType
  <2>4. ASSUME NEW c \in Claims(p)'
        PROVE  c[1] \in Saga /\ c[2].version = version[c[1]] + 1
    <3>1. c \in batch'[p]
      BY <2>3 DEF Claims
    <3>2. PICK s \in T : c = <<s, [Instance(s) EXCEPT !.version = @ + 1]>>
      BY <2>1, <2>2, <3>1 DEF SagaType
    <3>. QED
      BY <3>2 DEF Instance, DueSagas
  <2>5. ASSUME NEW t \in Sweeper, t # p, NEW c \in Claims(t)'
        PROVE  c \in Claims(t) /\ c[2].version \in Nat /\ c[2].version <= version[c[1]]
    <3>1. c \in Claims(t)
      BY <2>3, <2>5 DEF Alone, Claims, Process
    <3>2. CASE c \in batch[t]
      BY SMT, <3>1, <3>2 DEF CopyInv, Seen, SagaType, Loaded
    <3>3. CASE pc[t] = "Save" /\ c = <<cause[t], cur[t]>>
      <4>1. t \in Process /\ cause[t] \in Saga /\ cause[t] \in Cause
        BY <3>3 DEF RoleInv, Process, Cause
      <4>2. SagaFor(cause[t]) = cause[t]
        BY <4>1, SagaForType
      <4>3. Seen(cause[t], cur[t]) /\ cur[t] \in Loaded
        BY <3>3, <4>1, <4>2 DEF CopyInv, SagaType
      <4>. QED
        BY <3>1, <3>3, <4>3 DEF Seen, Loaded
    <3>. QED
      BY <3>1, <3>2, <3>3 DEF Claims
  <2>6. ASSUME NEW t \in Sweeper, NEW u \in Sweeper, t # u,
               NEW c \in Claims(t)', NEW d \in Claims(u)', c[1] = d[1]
        PROVE  c[2].version # d[2].version
    <3>1. CASE t = p
      <4>1. c[1] \in Saga /\ c[2].version = version[c[1]] + 1
        BY <2>4, <3>1
      <4>2. d[2].version \in Nat /\ d[2].version <= version[d[1]]
        BY <2>5, <2>6, <3>1
      <4>3. version[c[1]] \in Nat
        BY <4>1 DEF SagaType
      <4>. QED
        BY SMT, <2>6, <4>1, <4>2, <4>3
    <3>2. CASE u = p
      <4>1. d[1] \in Saga /\ d[2].version = version[d[1]] + 1
        BY <2>4, <3>2
      <4>2. c[2].version \in Nat /\ c[2].version <= version[c[1]]
        BY <2>5, <2>6, <3>2
      <4>3. version[d[1]] \in Nat
        BY <4>1 DEF SagaType
      <4>. QED
        BY SMT, <2>6, <4>1, <4>2, <4>3
    <3>3. CASE t # p /\ u # p
      <4>1. c \in Claims(t) /\ d \in Claims(u)
        BY <2>5, <3>3
      <4>. QED
        BY <2>6, <4>1 DEF OneValidClaim
    <3>. QED
      BY <3>1, <3>2, <3>3
  <2>. QED
    BY <2>6 DEF OneValidClaim
<1>7. ASSUME NEW p \in Process, OnTimeout(p)
      PROVE  OneValidClaim'
  <2>. SUFFICES ASSUME ~Return(p)
                PROVE  OneValidClaim'
    BY <1>1
  <2>1. PICK c \in batch[p], k \in deployed.timeout :
          /\ batch' = [batch EXCEPT ![p] = @ \ {c}]
          /\ cause' = [cause EXCEPT ![p] = c[1]]
          /\ cur' = [cur EXCEPT ![p] = c[2]]
          /\ kind' = [kind EXCEPT ![p] = k]
          /\ pc' = [pc EXCEPT ![p] = "Save"]
    BY <1>7 DEF OnTimeout
  <2>2. p \in Sweeper /\ c \in Saga \X Loaded
    BY <1>7 DEF OnTimeout, SagaType
  <2>3. /\ Alone(p) /\ cause'[p] = c[1] /\ cur'[p] = c[2] /\ batch'[p] \subseteq batch[p]
    BY SMTT(60), <2>1, <2>2 DEF Alone, SagaType
  <2>4. <<c[1], c[2]>> = c
    BY SMT, <2>2
  <2>5. Claims(p)' \subseteq Claims(p)
    BY <2>3, <2>4 DEF Claims
  <2>. QED
    BY <1>b, <2>3, <2>5
<1>8. ASSUME NEW p \in Process, Save(p) \/ Conflict(p)
      PROVE  OneValidClaim'
  <2>. SUFFICES ASSUME ~Proceed(p), ~Return(p)
                PROVE  OneValidClaim'
    BY <1>1, <1>2
  <2>1. \E x \in Pc \ {"Save"} : pc' = [pc EXCEPT ![p] = x]
    BY <1>8 DEF Save, Conflict, Pc
  <2>2. UNCHANGED <<cause, cur, kind, batch>>
    BY <1>8 DEF Save, Conflict
  <2>. QED
    BY <1>3, <2>1, <2>2
<1>9. CASE Tick \/ UNCHANGED vars
  <2>1. UNCHANGED <<pc, cause, cur, batch>>
    BY <1>9 DEF Tick, vars, call
  <2>. QED
    BY <1>a, <2>1 DEF Claims
<1>. QED
  BY <1>1, <1>2, <1>4, <1>5, <1>6, <1>7, <1>8, <1>9 DEF Next, Step, Enqueue, Abort, Load, React

-----------------------------------------------------------------------------
(* Commands *)

\* OnceInv and FollowInv hold initially.
LEMMA InitCommand == Init => OnceInv /\ FollowInv
BY SMT, SagaAssumption DEF Init, OnceInv, FollowInv, Process, Cause, Done

\* An event that was dealt with stays so.
LEMMA DoneKept ==
  ASSUME SagaType, UNCHANGED deployed, \A s \in Saga : StoredStep(s), NEW e \in Event, Done(e)
  PROVE  Done(e)'
<1>1. SagaFor(e) \in Saga /\ SagaFor(e)' = SagaFor(e)
  BY SagaForType DEF Cause, SagaFor
<1>. QED
  BY <1>1 DEF Done, StoredStep

\* Every step preserves OnceInv.
LEMMA NextOnce ==
  ASSUME SagaType, SagaType', RoleInv, RoleInv', NewInv, CopyInv, OnceInv, [Next]_vars
  PROVE  OnceInv'
<1>. USE DEF stored
<1>0. CallType /\ \A s \in Saga : StoredStep(s)
  BY NextStored DEF SagaType, CallType
<1>a. UNCHANGED deployed
  BY DEF Next, Step, Deliver, Abort, Tick, vars
<1>. SUFFICES ASSUME "Fail" \notin deployed.fresh
              PROVE  OnceInv'
  BY <1>a DEF OnceInv
<1>b. \A e \in Event : Done(e) => Done(e)'
  BY <1>0, <1>a, DoneKept
\* A step in which nobody comes to Enqueue and nothing is enqueued.
<1>c. ASSUME UNCHANGED enqueued,
             \A q \in Process : pc'[q] = "Enqueue" => pc[q] = "Enqueue" /\ cause'[q] = cause[q]
      PROVE  OnceInv'
  BY <1>b, <1>c DEF OnceInv
<1>1. ASSUME NEW p \in Process, Return(p), UNCHANGED enqueued
      PROVE  OnceInv'
  <2>1. Alone(p) /\ pc'[p] = "Idle"
    BY <1>0, <1>1, ReturnEffect
  <2>. QED
    BY <1>1, <1>c, <2>1 DEF Alone
<1>2. ASSUME NEW p \in Process, Proceed(p), UNCHANGED enqueued
      PROVE  OnceInv'
  <2>1. Alone(p) /\ pc'[p] \in {"Idle", "Timeout"}
    BY <1>0, <1>2, ProceedEffect
  <2>. QED
    BY <1>2, <1>c, <2>1 DEF Alone
<1>3. ASSUME NEW p \in Process, NEW x \in Pc \ {"Enqueue"},
             pc' = [pc EXCEPT ![p] = x], UNCHANGED enqueued,
             \A q \in Process \ {p} : cause'[q] = cause[q]
      PROVE  OnceInv'
  BY <1>3, <1>c DEF SagaType
<1>4. ASSUME NEW r \in Runner, NEW e \in Event, Deliver(r, e)
      PROVE  OnceInv'
  BY <1>3, <1>4 DEF Deliver, Pc, Process, SagaType
<1>5. ASSUME NEW p \in Process, Load(p) \/ ClaimDue(p)
      PROVE  OnceInv'
  BY <1>3, <1>5 DEF Load, ClaimDue, Pc
<1>6. ASSUME NEW p \in Process, React(p)
      PROVE  OnceInv'
  <2>. SUFFICES ASSUME ~Return(p)
                PROVE  OnceInv'
    BY <1>1, <1>6 DEF React
  <2>1. PICK k \in Transitions(cur[p], cause[p]) :
          /\ k # "Ignore"
          /\ pc' = [pc EXCEPT ![p] = IF k = "Fail" /\ cur[p].version = 0
                                       THEN "Enqueue" ELSE "Save"]
    BY <1>6 DEF React
  <2>2. ~(k = "Fail" /\ cur[p].version = 0)
    BY <2>1 DEF Transitions
  <2>3. pc' = [pc EXCEPT ![p] = "Save"] /\ UNCHANGED <<cause, enqueued>>
    BY <1>6, <2>1, <2>2 DEF React
  <2>. QED
    BY <1>3, <2>3 DEF Pc
<1>7. ASSUME NEW p \in Process, OnTimeout(p)
      PROVE  OnceInv'
  <2>. SUFFICES ASSUME ~Return(p)
                PROVE  OnceInv'
    BY <1>1, <1>7 DEF OnTimeout
  <2>1. /\ pc' = [pc EXCEPT ![p] = "Save"] /\ UNCHANGED enqueued
        /\ \E c : cause' = [cause EXCEPT ![p] = c]
    BY <1>7 DEF OnTimeout
  <2>2. \A q \in Process \ {p} : cause'[q] = cause[q]
    BY <2>1 DEF SagaType
  <2>. QED
    BY <1>3, <2>1, <2>2 DEF Pc
<1>8. ASSUME NEW p \in Process, Save(p)
      PROVE  OnceInv'
  <2>. SUFFICES ASSUME ~Proceed(p)
                PROVE  OnceInv'
    BY <1>2, <1>8 DEF Save
  <2>1. /\ pc[p] = "Save" /\ Accepted(p) /\ kind[p] # "Ignore"
        /\ pc' = [pc EXCEPT ![p] = "Enqueue"] /\ UNCHANGED <<cause, enqueued>>
    BY <1>8 DEF Save
  <2>2. pc'[p] = "Enqueue" /\ \A q \in Process \ {p} : pc'[q] = pc[q]
    BY <2>1 DEF SagaType
  <2>3. CASE cause[p] \in Saga
    <3>1. cause[p] \notin Event
      BY <2>3, SagaAssumption
    <3>. QED
      <4>1. ASSUME NEW q \in Process, pc'[q] = "Enqueue", cause'[q] \in Event
            PROVE  q # p /\ pc[q] = "Enqueue" /\ cause'[q] = cause[q]
        BY <2>1, <2>2, <3>1, <4>1
      <4>2. ASSUME NEW q \in Process, pc'[q] = "Enqueue", cause'[q] \in Event
            PROVE  Done(cause[q])' /\ enqueued'[cause'[q]] = 0
        <5>1. Done(cause[q]) /\ enqueued[cause[q]] = 0
          BY <4>1, <4>2 DEF OnceInv
        <5>. QED
          BY <1>b, <2>1, <4>2, <5>1
      <4>3. ASSUME NEW q \in Process, NEW r \in Process, pc'[q] = "Enqueue", pc'[r] = "Enqueue",
                   cause'[q] = cause'[r], cause'[q] \in Event
            PROVE  q = r
        <5>1. /\ pc[q] = "Enqueue" /\ cause'[q] = cause[q]
              /\ pc[r] = "Enqueue" /\ cause'[r] = cause[r]
          BY <4>1, <4>3
        <5>. QED
          BY <4>3, <5>1 DEF OnceInv
      <4>4. \A e \in Event : enqueued'[e] <= 1 /\ (enqueued'[e] = 1 => Done(e)')
        BY <1>b, <2>1 DEF OnceInv
      <4>. QED
        BY <4>2, <4>3, <4>4 DEF OnceInv
  <2>4. CASE cause[p] \notin Saga
    <3>. DEFINE s == SagaFor(cause[p])
    <3>1. p \in Runner
      BY <2>1, <2>4 DEF RoleInv, Process
    <3>2. cause[p] \in Event
      BY <2>1, <3>1 DEF RoleInv
    <3>3. /\ s \in Saga /\ status[s] = "Running" /\ cause[p] \notin folded[s]
          /\ kind[p] \notin {"Fail", "Ignore"} => cause[p] \in NewState(p)
      BY <2>1, <3>1, SaveExtends
    <3>4. ~Done(cause[p])
      BY <3>3 DEF Done
    <3>5. enqueued[cause[p]] = 0 /\ \A q \in Process : ~(pc[q] = "Enqueue" /\ cause[q] = cause[p])
      <4>1. enqueued[cause[p]] \in Nat /\ enqueued[cause[p]] <= 1 /\ enqueued[cause[p]] # 1
        BY <3>2, <3>4 DEF OnceInv, SagaType, Cause
      <4>2. enqueued[cause[p]] = 0
        BY SMTT(60), <4>1
      <4>. QED
        BY <3>2, <3>4, <4>2 DEF OnceInv
    <3>6. Done(cause[p])'
      <4>1. SagaFor(cause[p])' = s
        BY <1>a, <2>1 DEF SagaFor
      <4>2. status'[s] = NewStatus(kind[p]) /\ folded'[s] = NewState(p)
        BY <1>8, <3>3 DEF Save, SagaType
      <4>3. kind[p] = "Fail" => NewStatus(kind[p]) = "Failed"
        BY DEF NewStatus
      <4>. QED
        BY <2>1, <3>3, <4>1, <4>2, <4>3 DEF Done
    <3>7. ASSUME NEW q \in Process, pc'[q] = "Enqueue", cause'[q] \in Event
          PROVE  Done(cause[q])' /\ enqueued'[cause'[q]] = 0
      <4>1. CASE q = p
        BY <2>1, <3>5, <3>6, <4>1
      <4>2. CASE q # p
        <5>1. Done(cause[q]) /\ enqueued[cause[q]] = 0 /\ cause[q] \in Event /\ cause'[q] = cause[q]
          BY <2>1, <2>2, <3>7, <4>2 DEF OnceInv
        <5>2. PICK e \in Event : e = cause[q]
          BY <5>1
        <5>3. Done(e)'
          BY <1>b, <5>1, <5>2
        <5>. QED
          BY <2>1, <5>1, <5>2, <5>3 DEF Done
      <4>. QED
        BY <4>1, <4>2
    <3>8. ASSUME NEW q \in Process, NEW r \in Process, pc'[q] = "Enqueue", pc'[r] = "Enqueue",
                 cause'[q] = cause'[r], cause'[q] \in Event
          PROVE  q = r
      <4>1. UNCHANGED cause
        BY <2>1
      <4>2. ASSUME NEW o \in Process, pc'[o] = "Enqueue", o # p
            PROVE  pc[o] = "Enqueue" /\ cause[o] # cause[p]
        BY <2>2, <3>5, <4>2
      <4>3. CASE q = p
        BY <3>8, <4>1, <4>2, <4>3
      <4>4. CASE r = p
        BY <3>8, <4>1, <4>2, <4>4
      <4>5. CASE q # p /\ r # p
        <5>1. pc[q] = "Enqueue" /\ pc[r] = "Enqueue" /\ cause[q] = cause[r] /\ cause[q] \in Event
          BY <3>8, <4>1, <4>2, <4>5
        <5>. QED
          BY <5>1 DEF OnceInv
      <4>. QED
        BY <4>3, <4>4, <4>5
    <3>9. \A e \in Event : enqueued'[e] <= 1 /\ (enqueued'[e] = 1 => Done(e)')
      BY <1>b, <2>1 DEF OnceInv
    <3>. QED
      BY <3>7, <3>8, <3>9 DEF OnceInv
  <2>. QED
    BY <2>3, <2>4
<1>9. ASSUME NEW p \in Process, Conflict(p)
      PROVE  OnceInv'
  <2>. SUFFICES ASSUME ~Return(p)
                PROVE  OnceInv'
    BY <1>1, <1>9 DEF Conflict
  <2>. QED
    BY <1>3, <1>9 DEF Conflict, Pc
<1>10. ASSUME NEW p \in Process, Enqueue(p)
       PROVE  OnceInv'
  <2>1. Alone(p) /\ pc'[p] \in {"Idle", "Timeout"}
    BY <1>0, <1>10, ProceedEffect DEF Enqueue
  <2>2. \A q \in Process : pc'[q] = "Enqueue" => q # p /\ pc[q] = "Enqueue" /\ cause'[q] = cause[q]
    BY <2>1 DEF Alone
  <2>3. /\ pc[p] = "Enqueue" /\ cause[p] \in Cause
        /\ enqueued' = [enqueued EXCEPT ![cause[p]] = @ + 1]
    BY <1>10 DEF Enqueue, RoleInv, Process, Cause
  <2>4. ASSUME NEW e \in Event
        PROVE  /\ e # cause[p] => enqueued'[e] = enqueued[e]
               /\ e = cause[p] => enqueued[e] = 0 /\ enqueued'[e] = 1 /\ Done(e)'
    <3>1. e \in Cause
      BY DEF Cause
    <3>2. e = cause[p] => enqueued[e] = 0 /\ Done(e)
      BY <2>3 DEF OnceInv
    <3>3. enqueued \in [Cause -> Nat]
      BY DEF SagaType
    <3>4. enqueued'[e] = IF e = cause[p] THEN enqueued[e] + 1 ELSE enqueued[e]
      BY <2>3, <3>1, <3>3
    <3>5. e = cause[p] => Done(e)'
      BY <1>b, <3>2
    <3>. QED
      BY SMT, <3>2, <3>4, <3>5
  <2>5. ASSUME NEW e \in Event
        PROVE  enqueued'[e] <= 1 /\ (enqueued'[e] = 1 => Done(e)')
    <3>1. CASE e = cause[p]
      <4>1. enqueued'[e] = 1 /\ Done(e)'
        BY <2>4, <3>1
      <4>. QED
        BY SMTT(60), <4>1
    <3>2. CASE e # cause[p]
      BY <1>b, <2>4, <3>2 DEF OnceInv
    <3>. QED
      BY <3>1, <3>2
  <2>6. ASSUME NEW q \in Process, pc'[q] = "Enqueue", cause'[q] \in Event
        PROVE  Done(cause[q])' /\ enqueued'[cause'[q]] = 0
    <3>1. q # p /\ pc[q] = "Enqueue" /\ cause'[q] = cause[q] /\ cause[q] # cause[p]
      BY <2>2, <2>3, <2>6 DEF OnceInv
    <3>2. Done(cause[q]) /\ enqueued[cause[q]] = 0
      BY <2>6, <3>1 DEF OnceInv
    <3>3. PICK e \in Event : e = cause[q] /\ e = cause'[q]
      BY <2>6, <3>1
    <3>4. Done(e)' /\ enqueued'[e] = 0
      BY <1>b, <2>4, <3>1, <3>2, <3>3
    <3>. QED
      BY <3>3, <3>4
  <2>. QED
    BY <2>2, <2>5, <2>6 DEF OnceInv
<1>11. CASE Tick \/ UNCHANGED vars
  <2>1. UNCHANGED <<pc, cause, enqueued>>
    BY <1>11 DEF Tick, vars, call
  <2>. QED
    BY <1>c, <2>1
<1>. QED
  <2>1. ASSUME NEW p \in Process, Abort(p)
        PROVE  OnceInv'
    BY <1>1, <2>1 DEF Abort
  <2>. QED
    BY <1>4, <1>5, <1>6, <1>7, <1>8, <1>9, <1>10, <1>11, <2>1 DEF Next, Step

\* Every step preserves FollowInv.
LEMMA NextFollow ==
  ASSUME SagaType, SagaType', RoleInv, NewInv, CopyInv, FollowInv, [Next]_vars
  PROVE  FollowInv'
<1>. USE DEF stored
<1>0. CallType
  BY DEF SagaType, CallType
<1>. SUFFICES ASSUME faults' = 0
              PROVE  FollowInv'
  BY DEF FollowInv
<1>a. faults = 0 /\ UNCHANGED faults
  <2>1. UNCHANGED faults \/ faults' = faults + 1
    <3>1. ASSUME NEW r \in Runner, NEW e \in Event, Deliver(r, e)
          PROVE  UNCHANGED faults
      BY <3>1 DEF Deliver
    <3>2. ASSUME NEW p \in Process, Load(p) \/ ClaimDue(p) \/ Save(p) \/ Conflict(p) \/ Enqueue(p)
          PROVE  UNCHANGED faults
      BY <3>2 DEF Load, ClaimDue, Save, Conflict, Enqueue
    <3>3. ASSUME NEW p \in Process, React(p) \/ OnTimeout(p) \/ Abort(p)
          PROVE  UNCHANGED faults \/ faults' = faults + 1
      BY <3>3 DEF React, OnTimeout, Abort, Fault
    <3>4. CASE Tick \/ UNCHANGED vars
      BY <3>4 DEF Tick, vars
    <3>. QED
      BY <3>1, <3>2, <3>3, <3>4 DEF Next, Step
  <2>2. faults \in Nat
    BY DEF SagaType
  <2>. QED
    BY SMT, <2>1, <2>2
\* A step in which nobody leaves Enqueue and nothing is folded.
<1>b. ASSUME UNCHANGED <<folded, enqueued>>,
             \A q \in Process : pc[q] = "Enqueue" => pc'[q] = "Enqueue" /\ cause'[q] = cause[q]
      PROVE  FollowInv'
  BY <1>a, <1>b DEF FollowInv
<1>c. ASSUME NEW p \in Process, pc[p] # "Enqueue", Alone(p)
      PROVE  \A q \in Process : pc[q] = "Enqueue" => pc'[q] = "Enqueue" /\ cause'[q] = cause[q]
  BY <1>c DEF Alone
<1>1. ASSUME NEW r \in Runner, NEW e \in Event, Deliver(r, e)
      PROVE  FollowInv'
  BY <1>1, <1>b DEF Deliver, FirstIdle, SagaType, Process
<1>2. ASSUME NEW p \in Process, Load(p) \/ ClaimDue(p)
      PROVE  FollowInv'
  BY <1>2, <1>b DEF Load, ClaimDue, FirstIdle, SagaType
<1>3. ASSUME NEW p \in Process, React(p) \/ Conflict(p)
      PROVE  FollowInv'
  <2>1. pc[p] # "Enqueue" /\ UNCHANGED <<folded, enqueued>>
    BY <1>3 DEF React, Conflict
  <2>2. CASE Return(p)
    BY <1>0, <1>b, <1>c, <2>1, <2>2, ReturnEffect
  <2>3. CASE ~Return(p)
    <3>1. cause' = cause /\ \E x : pc' = [pc EXCEPT ![p] = x]
      BY <1>3, <2>3 DEF React, Conflict
    <3>. QED
      BY <1>b, <2>1, <3>1 DEF SagaType
  <2>. QED
    BY <2>2, <2>3
<1>4. ASSUME NEW p \in Process, OnTimeout(p)
      PROVE  FollowInv'
  <2>1. pc[p] # "Enqueue" /\ UNCHANGED <<folded, enqueued>>
    BY <1>4 DEF OnTimeout
  <2>2. CASE Return(p)
    BY <1>0, <1>b, <1>c, <2>1, <2>2, ReturnEffect
  <2>3. CASE ~Return(p)
    <3>1. (\E x : pc' = [pc EXCEPT ![p] = x]) /\ \E c : cause' = [cause EXCEPT ![p] = c]
      BY <1>4, <2>3 DEF OnTimeout
    <3>. QED
      BY <1>b, <2>1, <3>1 DEF SagaType
  <2>. QED
    BY <2>2, <2>3
<1>5. ASSUME NEW p \in Process, Save(p)
      PROVE  FollowInv'
  <2>. DEFINE s == SagaFor(cause[p])
  <2>1. pc[p] = "Save" /\ Accepted(p) /\ UNCHANGED enqueued
    BY <1>5 DEF Save
  <2>2. /\ s \in Saga /\ NewState(p) \subseteq folded[s] \cup {cause[p]}
        /\ kind[p] = "Ignore" => NewState(p) = folded[s]
    BY <2>1, SaveExtends
  <2>3. folded' = [folded EXCEPT ![s] = NewState(p)]
    BY <1>5 DEF Save
  <2>4. CASE kind[p] = "Ignore"
    <3>1. UNCHANGED folded
      BY <2>2, <2>3, <2>4 DEF SagaType
    <3>2. Alone(p)
      BY <1>0, <1>5, <2>4, ProceedEffect DEF Save
    <3>. QED
      BY <1>b, <1>c, <2>1, <3>1, <3>2
  <2>5. CASE kind[p] # "Ignore"
    <3>1. pc' = [pc EXCEPT ![p] = "Enqueue"] /\ UNCHANGED cause
      BY <1>5, <2>5 DEF Save
    <3>2. pc'[p] = "Enqueue" /\ \A q \in Process : pc[q] = "Enqueue" => pc'[q] = "Enqueue"
      BY <3>1 DEF SagaType
    <3>3. \A z \in Saga : \A c \in folded'[z] : c \in folded[z] \/ c = cause[p]
      BY <2>2, <2>3 DEF SagaType
    <3>. QED
      BY <1>a, <2>1, <3>1, <3>2, <3>3 DEF FollowInv
  <2>. QED
    BY <2>4, <2>5
<1>6. ASSUME NEW p \in Process, Enqueue(p)
      PROVE  FollowInv'
  <2>1. Alone(p)
    BY <1>0, <1>6, ProceedEffect DEF Enqueue
  <2>2. cause[p] \in Cause /\ UNCHANGED folded /\ enqueued' = [enqueued EXCEPT ![cause[p]] = @ + 1]
    BY <1>6 DEF Enqueue, RoleInv, Process, Cause
  <2>3. \A c \in Cause : /\ enqueued[c] > 0 => enqueued'[c] > 0
                         /\ c = cause[p] => enqueued'[c] > 0
    BY SMT, <2>2 DEF SagaType
  <2>4. ASSUME NEW z \in Saga, NEW c \in folded[z], ~(enqueued'[c] > 0)
        PROVE  \E q \in Process : pc'[q] = "Enqueue" /\ cause'[q] = c
    <3>1. c \in Cause
      BY DEF SagaType
    <3>2. PICK q \in Process : pc[q] = "Enqueue" /\ cause[q] = c
      BY <1>a, <2>3, <2>4, <3>1 DEF FollowInv
    <3>3. q # p
      BY <2>3, <2>4, <3>1, <3>2
    <3>. QED
      BY <2>1, <3>2, <3>3 DEF Alone
  <2>. QED
    BY <2>2, <2>4 DEF FollowInv
<1>7. ASSUME NEW p \in Process, Abort(p)
      PROVE  FALSE
  BY SMT, <1>7, <1>a DEF Abort, Fault
<1>8. CASE Tick \/ UNCHANGED vars
  <2>1. UNCHANGED <<pc, cause, folded, enqueued>>
    BY <1>8 DEF Tick, vars, call
  <2>. QED
    BY <1>b, <2>1
<1>. QED
  BY <1>1, <1>2, <1>3, <1>4, <1>5, <1>6, <1>7, <1>8 DEF Next, Step

-----------------------------------------------------------------------------
(* Theorems *)

\* SagaInv holds initially.
LEMMA InitSaga == Init => SagaInv
BY InitType, InitRole, InitCopy, InitClaims, InitCommand DEF SagaInv

\* Every step preserves SagaInv.
LEMMA NextSaga == SagaInv /\ [Next]_vars => SagaInv'
<1>. SUFFICES ASSUME SagaInv, [Next]_vars
             PROVE  SagaInv'
  OBVIOUS
<1>1. SagaType' /\ RoleInv' /\ NewInv'
  BY NextType, NextRole DEF SagaInv
<1>2. CopyInv'
  BY <1>1, NextCopy DEF SagaInv
<1>3. OneValidClaim'
  BY <1>1, NextClaims DEF SagaInv
<1>4. OnceInv' /\ FollowInv'
  BY <1>1, NextOnce, NextFollow DEF SagaInv
<1>. QED
  BY <1>1, <1>2, <1>3, <1>4 DEF SagaInv

\* However many sweeps hold claims on a saga, expired or not, the saves of one
\* at most can be accepted: SagaStore::claim_due gives each a version of its own.
THEOREM OneSweepSaves == Spec => []OneValidClaim
<1>1. SagaInv => OneValidClaim
  BY DEF SagaInv
<1>. QED
  BY InitSaga, NextSaga, <1>1, PTL DEF Spec

\* Whatever handlers and sweeps race, SagaStore::save loses no update of a saga
\* and nothing touches a saga that completed or failed.
THEOREM SagaUpdatesKept == Spec => FoldedForGood
<1>1. SagaInv /\ [Next]_vars =>
        [\A s \in Saga :
           /\ folded[s] \subseteq folded'[s]
           /\ status[s] # "Running" => UNCHANGED <<version[s], status[s], folded[s]>>]_vars
  <2>. SUFFICES ASSUME SagaInv, [Next]_vars, NEW s \in Saga
                PROVE  /\ folded[s] \subseteq folded'[s]
                       /\ status[s] # "Running" => UNCHANGED <<version[s], status[s], folded[s]>>
    OBVIOUS
  <2>1. StoredStep(s)
    BY NextStored DEF SagaInv
  <2>. QED
    BY <2>1 DEF StoredStep
<1>. QED
  BY InitSaga, NextSaga, <1>1, PTL DEF Spec, FoldedForGood

\* A redelivered event never puts its command on the outbox twice, and without
\* a crash or an error no folded cause stays without its command.
THEOREM SagaCommandOnce == Spec => []CommandOnce
<1>1. SagaInv => CommandOnce
  BY DEF SagaInv, OnceInv, FollowInv, CommandOnce
<1>. QED
  BY InitSaga, NextSaga, <1>1, PTL DEF Spec
=============================================================================
