----------------------------- MODULE SagaRunner -----------------------------
(***************************************************************************)
(* SagaRunner::handle and SagaRunner::run_due_timeouts, run concurrently   *)
(* by several consumers and several sweeps over one InMemorySagaStore, and *)
(* the commands they put on the outbox.                                    *)
(*                                                                         *)
(* The state of a saga is the set of causes folded into it: the events it  *)
(* reacted to, and the saga's own id for a timeout.  Saga::react and       *)
(* Saga::on_timeout are user code: react ignores an event its state holds, *)
(* and otherwise they return any transition of the given kinds, with one   *)
(* command named after its cause.  A stored instance that does not exist   *)
(* has version 0.  Deadlines are relative to the clock and cut off at 0.   *)
(*                                                                         *)
(* The operators named Mut... are plausible defects of the definition that *)
(* follows them; they are not part of the specification.                   *)
(***************************************************************************)
EXTENDS Naturals, FiniteSets

CONSTANTS
  Saga,           \* saga ids
  Event,          \* events
  Runner,         \* concurrent callers of handle
  Sweeper,        \* concurrent callers of run_due_timeouts
  LiveKinds,      \* transitions react may return for an instance
  Deadlines,      \* deadlines of Start and Advance
  NoDeadline,     \* deadline: None
  Lease, Limit,   \* arguments of run_due_timeouts
  MaxRetries,     \* MAX_CONFLICT_RETRIES
  MaxDeliveries,  \* bound: how often events are delivered
  MaxVersion,     \* bound: a slow sweep claims only instances below this version
  Deployments     \* Saga::id_for of the events, the transitions react may
                  \* return without an instance, those on_timeout may return,
                  \* whether sweeps are prompt (end before their leases), and
                  \* a bound on crashes and errors of saga, store and outbox

Kinds == {"Start", "Advance", "Complete", "Fail"}

ASSUME SagaAssumption ==
  /\ Deployments \subseteq
       [idFor : [Event -> Saga], fresh : SUBSET Kinds,
        timeout : SUBSET (Kinds \cup {"Ignore"}), prompt : BOOLEAN, faults : Nat]
  /\ Event \cap Saga = {} /\ LiveKinds \subseteq Kinds
  /\ NoDeadline \notin Nat /\ Deadlines \subseteq Nat \cup {NoDeadline}
  /\ Lease \in Nat /\ Limit \in Nat /\ MaxRetries \in Nat \ {0}
  /\ MaxDeliveries \in Nat /\ MaxVersion \in Nat
  /\ Runner \cap Sweeper = {}

VARIABLES
  deployed,    \* the deployment
  version, status, folded, deadline,  \* the stored instances
  pc,          \* the next call of a runner or a sweep
  cause,       \* the event being handled, or the saga that timed out
  cur,         \* the instance as loaded or claimed
  kind,        \* the transition being applied
  tries,       \* conflicts met by this call of handle
  batch,       \* claimed instances the sweep has still to process
  enqueued,    \* commands on the outbox, by cause
  deliveries,  \* events delivered so far
  faults       \* crashes and errors so far

stored == <<version, status, folded, deadline>>
call == <<pc, cause, cur, kind, tries, batch>>
vars == <<deployed, stored, call, enqueued, deliveries, faults>>

Process == Runner \cup Sweeper
Cause == Event \cup Saga
Status == {"Running", "Completed", "Failed"}
Pc == {"Idle", "Load", "React", "Timeout", "Save", "Enqueue"}

NoInstance == [version |-> 0, status |-> "Running", folded |-> {}]
Instance(s) == [version |-> version[s], status |-> status[s], folded |-> folded[s]]
SagaFor(c) == IF c \in Event THEN deployed.idFor[c] ELSE c
AnyCause == CHOOSE c \in Cause : TRUE

Init ==
  /\ deployed \in Deployments
  /\ version = [s \in Saga |-> 0]
  /\ status = [s \in Saga |-> "Running"]
  /\ folded = [s \in Saga |-> {}]
  /\ deadline = [s \in Saga |-> NoDeadline]
  /\ pc = [p \in Process |-> "Idle"]
  /\ cause = [p \in Process |-> AnyCause]
  /\ cur = [p \in Process |-> NoInstance]
  /\ kind = [p \in Process |-> "Ignore"]
  /\ tries = [p \in Process |-> 0]
  /\ batch = [t \in Sweeper |-> {}]
  /\ enqueued = [c \in Cause |-> 0]
  /\ deliveries = 0
  /\ faults = 0

\* Callers are interchangeable: the first idle one makes the next call.
FirstIdle(p, S) == pc[p] = "Idle" /\ \A q \in S : q < p => pc[q] # "Idle"

Fault == faults < deployed.faults /\ faults' = faults + 1

\* The call returns, with what a sweep had left unprocessed.
Return(p) ==
  /\ pc' = [pc EXCEPT ![p] = "Idle"]
  /\ cause' = [cause EXCEPT ![p] = AnyCause]
  /\ cur' = [cur EXCEPT ![p] = NoInstance]
  /\ kind' = [kind EXCEPT ![p] = "Ignore"]
  /\ tries' = [tries EXCEPT ![p] = 0]
  /\ batch' = [t \in Sweeper |-> IF t = p THEN {} ELSE batch[t]]

-----------------------------------------------------------------------------
(* handle *)

Deliver(r, e) ==
  /\ FirstIdle(r, Runner)
  /\ deliveries < MaxDeliveries
  /\ deliveries' = deliveries + 1
  /\ cause' = [cause EXCEPT ![r] = e]
  /\ pc' = [pc EXCEPT ![r] = "Load"]
  /\ UNCHANGED <<deployed, stored, cur, kind, tries, batch, enqueued, faults>>

Load(r) ==
  /\ r \in Runner /\ pc[r] = "Load"
  /\ cur' = [cur EXCEPT ![r] = Instance(SagaFor(cause[r]))]
  /\ pc' = [pc EXCEPT ![r] = "React"]
  /\ UNCHANGED <<stored, cause, kind, tries, batch, enqueued, deliveries, faults>>

\* Saga::react
Transitions(inst, e) ==
  IF e \in inst.folded THEN {"Ignore"}
  ELSE IF inst.version = 0 THEN deployed.fresh ELSE LiveKinds

\* A terminal instance cannot be revived.
Terminal(inst) == inst.status # "Running"

React(r) ==
  /\ r \in Runner /\ pc[r] = "React"
  /\ \/ \E k \in Transitions(cur[r], cause[r]) :
          IF k = "Ignore" \/ Terminal(cur[r])
            THEN Return(r) /\ UNCHANGED faults
            ELSE /\ kind' = [kind EXCEPT ![r] = k]
                 /\ pc' = [pc EXCEPT ![r] = IF k = "Fail" /\ cur[r].version = 0
                                              THEN "Enqueue" ELSE "Save"]
                 /\ UNCHANGED <<cause, cur, tries, batch, faults>>
     \/ Fault /\ Return(r)                                   \* SagaRunnerError::Saga
  /\ UNCHANGED <<stored, enqueued, deliveries>>

-----------------------------------------------------------------------------
(* run_due_timeouts *)

DueSagas == {s \in Saga : version[s] > 0 /\ status[s] = "Running" /\ deadline[s] = 0}

\* The deadline of a claimed instance: the end of the claim's lease.
MutLeased == NoDeadline
Leased == Lease

\* claim_due, under the store's lock: the claimed copies have the new version.
MutClaimDue(t) ==
  /\ t \in Sweeper /\ FirstIdle(t, Sweeper)
  /\ \E T \in SUBSET DueSagas :
       /\ T # {} /\ Cardinality(T) <= Limit
       /\ Cardinality(T) = Limit \/ T = DueSagas
       /\ \A s \in T : deployed.prompt \/ version[s] < MaxVersion
       /\ deadline' = [s \in Saga |-> IF s \in T THEN Leased ELSE deadline[s]]
       /\ batch' = [batch EXCEPT ![t] = {<<s, Instance(s)>> : s \in T}]
  /\ pc' = [pc EXCEPT ![t] = "Timeout"]
  /\ UNCHANGED <<version, status, folded, cause, cur, kind, tries, enqueued, deliveries, faults>>
ClaimDue(t) ==
  /\ t \in Sweeper /\ FirstIdle(t, Sweeper)
  /\ \E T \in SUBSET DueSagas :
       /\ T # {} /\ Cardinality(T) <= Limit
       /\ Cardinality(T) = Limit \/ T = DueSagas
       /\ \A s \in T : deployed.prompt \/ version[s] < MaxVersion
       /\ version' = [s \in Saga |-> IF s \in T THEN version[s] + 1 ELSE version[s]]
       /\ deadline' = [s \in Saga |-> IF s \in T THEN Leased ELSE deadline[s]]
       /\ batch' = [batch EXCEPT ![t] = {<<s, [Instance(s) EXCEPT !.version = @ + 1]>> : s \in T}]
  /\ pc' = [pc EXCEPT ![t] = "Timeout"]
  /\ UNCHANGED <<status, folded, cause, cur, kind, tries, enqueued, deliveries, faults>>

\* The claimed instances come in the order of their deadlines, all elapsed.
OnTimeout(t) ==
  /\ t \in Sweeper /\ pc[t] = "Timeout"
  /\ \/ \E c \in batch[t], k \in deployed.timeout :
          /\ batch' = [batch EXCEPT ![t] = @ \ {c}]
          /\ cause' = [cause EXCEPT ![t] = c[1]]
          /\ cur' = [cur EXCEPT ![t] = c[2]]
          /\ kind' = [kind EXCEPT ![t] = k]
          /\ pc' = [pc EXCEPT ![t] = "Save"]
          /\ UNCHANGED <<tries, faults>>
     \/ Fault /\ Return(t)                                   \* SagaRunnerError::Saga
  /\ UNCHANGED <<stored, enqueued, deliveries>>

\* A runner returns; a sweep goes on with the next instance.
Proceed(p) ==
  IF p \in Sweeper /\ batch[p] # {}
    THEN /\ pc' = [pc EXCEPT ![p] = "Timeout"]
         /\ UNCHANGED <<cause, cur, kind, tries, batch>>
    ELSE Return(p)

-----------------------------------------------------------------------------
(* apply_transition *)

\* Start saves a new instance, every other transition the current one.
Expected(p) == IF kind[p] = "Start" THEN 0 ELSE cur[p].version

\* SagaStore::save accepts the write.
MutAccepted(p) == TRUE
Accepted(p) == version[SagaFor(cause[p])] = Expected(p)

NewStatus(k) == CASE k = "Complete" -> "Completed" [] k = "Fail" -> "Failed"
                  [] k \in {"Start", "Advance", "Ignore"} -> "Running"
NewState(p) == CASE kind[p] = "Start" -> {cause[p]}
                 [] kind[p] \in {"Advance", "Complete"} -> cur[p].folded \cup {cause[p]}
                 [] kind[p] \in {"Fail", "Ignore"} -> cur[p].folded

\* A timeout that is ignored only has its deadline cleared.
Save(p) ==
  LET s == SagaFor(cause[p]) IN
  /\ pc[p] = "Save" /\ Accepted(p)
  /\ version' = [version EXCEPT ![s] = Expected(p) + 1]
  /\ status' = [status EXCEPT ![s] = NewStatus(kind[p])]
  /\ folded' = [folded EXCEPT ![s] = NewState(p)]
  /\ \E d \in IF kind[p] \in {"Start", "Advance"} THEN Deadlines ELSE {NoDeadline} :
       deadline' = [deadline EXCEPT ![s] = d]
  /\ IF kind[p] = "Ignore"
       THEN Proceed(p)
       ELSE pc' = [pc EXCEPT ![p] = "Enqueue"] /\ UNCHANGED <<cause, cur, kind, tries, batch>>
  /\ UNCHANGED <<enqueued, deliveries, faults>>

\* ConcurrencyConflict: handle loads again, up to its bound; a sweep is aborted.
Conflict(p) ==
  /\ pc[p] = "Save" /\ ~Accepted(p)
  /\ IF p \in Runner /\ tries[p] + 1 < MaxRetries
       THEN /\ tries' = [tries EXCEPT ![p] = @ + 1]
            /\ pc' = [pc EXCEPT ![p] = "Load"]
            /\ UNCHANGED <<cause, cur, kind, batch>>
       ELSE Return(p)
  /\ UNCHANGED <<stored, enqueued, deliveries, faults>>

\* enqueue_all
MutEnqueue(p) ==
  /\ pc[p] = "Enqueue"
  /\ enqueued' = [enqueued EXCEPT ![cause[p]] = IF kind[p] = "Complete" THEN @ ELSE @ + 1]
  /\ Proceed(p)
  /\ UNCHANGED <<stored, deliveries, faults>>
Enqueue(p) ==
  /\ pc[p] = "Enqueue"
  /\ enqueued' = [enqueued EXCEPT ![cause[p]] = @ + 1]
  /\ Proceed(p)
  /\ UNCHANGED <<stored, deliveries, faults>>

\* The process dies, or the store or the outbox returns an error.
Abort(p) ==
  /\ pc[p] \in {"Load", "Timeout", "Save", "Enqueue"}
  /\ Fault
  /\ Return(p)
  /\ UNCHANGED <<deployed, stored, enqueued, deliveries>>

-----------------------------------------------------------------------------

\* The instances a sweep has claimed and not yet resolved.
Claims(t) == batch[t] \cup IF pc[t] = "Save" THEN {<<cause[t], cur[t]>>} ELSE {}

Tick ==
  /\ \E s \in Saga : deadline[s] \in Nat \ {0}
  /\ deployed.prompt => \A t \in Sweeper, s \in Saga :
       (\E c \in Claims(t) : c[1] = s /\ c[2].version = version[s]) => deadline[s] # 1
  /\ deadline' = [s \in Saga |-> IF deadline[s] \in Nat \ {0} THEN deadline[s] - 1 ELSE deadline[s]]
  /\ UNCHANGED <<deployed, version, status, folded, call, enqueued, deliveries, faults>>

Step(p) ==
  /\ \/ Load(p) \/ React(p) \/ ClaimDue(p) \/ OnTimeout(p)
     \/ Save(p) \/ Conflict(p) \/ Enqueue(p)
  /\ UNCHANGED deployed

Next ==
  \/ \E r \in Runner, e \in Event : Deliver(r, e)
  \/ \E p \in Process : Step(p) \/ Abort(p)
  \/ Tick

Spec == Init /\ [][Next]_vars

\* The consumers and the periodic sweeps go on, and time passes.
FairSpec == Spec /\ (\A p \in Process : WF_vars(Step(p))) /\ WF_vars(Tick)

-----------------------------------------------------------------------------
(* Properties *)

\* No update is lost and none comes too late: what one handler or sweep folded
\* into a saga stays, since the loser of a race reloads and is folded in (handle)
\* or is refused, and a completed or failed saga is never revived or touched
\* again, whatever duplicates, late events, stale loads and claims reach it.
FoldedForGood ==
  [][\A s \in Saga :
       /\ folded[s] \subseteq folded'[s]
       /\ status[s] # "Running" => UNCHANGED <<version[s], status[s], folded[s]>>]_vars

\* A saga that does not fail before it starts puts the command of an event on
\* the outbox at most once, however often the event is delivered and however
\* many conflicts are retried; and without a crash or an error every cause
\* folded into a saga has its command on the outbox or about to be put there.
CommandOnce ==
  /\ "Fail" \notin deployed.fresh => \A e \in Event : enqueued[e] <= 1
  /\ faults = 0 => \A s \in Saga : \A c \in folded[s] :
       enqueued[c] > 0 \/ \E p \in Process : pc[p] = "Enqueue" /\ cause[p] = c

\* Of all sweeps that hold a claim on a saga, even after its lease ended and it
\* was claimed again, one at most can still save it: claim_due gives every
\* claim a version of its own.
OneValidClaim ==
  \A t, u \in Sweeper : t # u => \A c \in Claims(t), d \in Claims(u) :
    c[1] = d[1] => c[2].version # d[2].version

\* Where sweeps are prompt, every timeout ends its saga and every step sets a
\* deadline, every saga that starts ends: a sweep that is aborted by a conflict
\* or a crash leaves no claimed instance behind without a deadline.
EventuallyTimedOut ==
  <>[](deployed.prompt /\ "Ignore" \notin deployed.timeout =>
         \A s \in Saga : version[s] > 0 => status[s] # "Running")
=============================================================================
