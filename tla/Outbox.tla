------------------------------- MODULE Outbox -------------------------------
(***************************************************************************)
(* The transactional outbox: the message table (InMemoryOutboxRepository), *)
(* the dispatchers that claim and publish its rows (OutboxDispatcher) and  *)
(* the dead-letter sweep (sweep_failed_to_dead_letter).                    *)
(*                                                                         *)
(* A message is its position in the (created_at, id) order.  Time is       *)
(* relative: wait[m] is next_attempt_at minus the clock, cut off at 0, and *)
(* age[d] the time since d's pending() call read the clock.  Every step    *)
(* that the code separates by an await or by a lock is an action; the rows *)
(* are spread over the shards of a DashMap, and a scan locks one shard at  *)
(* a time, in order.                                                       *)
(*                                                                         *)
(* overrun and missed are kept for the properties.                         *)
(*                                                                         *)
(* The operators named Mut... are plausible defects of the definition that *)
(* follows them; they are not part of the specification.                   *)
(***************************************************************************)
EXTENDS Naturals, FiniteSets

CONSTANTS
  Msg,            \* messages, numbered in (created_at, id) order
  Key, NoKey,     \* routing keys, and the key of a key-less message
  KeyOf,          \* Message::key
  Shards,         \* how many shards the table's DashMap has
  ShardOf,        \* the shard a message's id is hashed to
  Dispatcher,     \* concurrently running OutboxDispatchers
  Sweeper,        \* concurrently running dead-letter sweeps
  BatchSize,      \* DispatchConfig::batch_size, and the limit of a sweep
  Concurrency,    \* DispatchConfig::concurrency
  MaxAttempts,    \* RetryPolicy::max_attempts
  Backoffs,       \* the delays BackoffStrategy::delay_for may return
  Lease,          \* claim_lease
  PublishFaults,  \* FailureKinds the publisher may report for a message
  MaxFaults       \* bound on storage errors and crashes

ASSUME MsgAssumption == Msg \subseteq Nat
ASSUME KeyAssumption == KeyOf \in [Msg -> Key \cup {NoKey}]
ASSUME ShardAssumption == Shards \in Nat \ {0} /\ ShardOf \in [Msg -> 1..Shards]
ASSUME ReaderAssumption == Dispatcher \cap Sweeper = {}
ASSUME ConfigAssumption ==
  /\ BatchSize \in Nat /\ Concurrency \in Nat \ {0} /\ MaxAttempts \in Nat
  /\ Lease \in Nat /\ Backoffs \subseteq Nat /\ MaxFaults \in Nat
  /\ PublishFaults \in [Msg -> SUBSET {"Transient", "Poison"}]

VARIABLES
  status,     \* OutboxMessage::status, or Absent before the insert
  attempts,   \* OutboxMessage::attempts
  wait,       \* time until OutboxMessage::next_attempt_at
  cursor,     \* the shard a scan reads next; 1 between scans
  cand,       \* rows pass 1 of d's pending() has found, not yet visited by pass 2
  held,       \* rows d has claimed and not finished with
  started,    \* the part of held[d] whose lane has been started
  stage,      \* next step of dispatch_one for a message of held[d]
  seen,       \* attempts field of d's claimed copy
  age,        \* time since d's run read the clock
  copies,     \* how often the broker accepted the message
  batch,      \* rows a sweep has still to park
  parking,    \* sweeps that have parked their first row and not marked it yet
  parked,     \* how often the message was put on the dead-letter queue
  faults,     \* storage errors and crashes so far
  overrun,    \* 1 once a run has outlived its leases
  missed      \* rows inserted into a shard that a running scan had already read

store == <<status, attempts, wait>>
run == <<cand, held, started, stage, seen, age>>
sweep == <<batch, parking>>
vars == <<store, cursor, run, sweep, copies, parked, faults, overrun, missed>>

Status == {"Absent", "Pending", "Published", "Failed", "DeadLettered"}
Stage == {"Record", "Publish", "MarkPublished", "ScheduleRetry", "MarkFailed"}

\* The rows that sort before all the others of S: one, unless S is empty.
Oldest(S) == {m \in S : \A n \in S : m <= n}

\* What a scan of the rows S for at most k of them, oldest first, may return.
FirstN(S, k) ==
  {R \in SUBSET S : /\ \A m \in R, n \in S : n < m => n \in R
                    /\ Cardinality(R) <= k
                    /\ R # S => Cardinality(R) = k}

SameKey(m, n) == KeyOf[m] # NoKey /\ KeyOf[m] = KeyOf[n]

\* Messages that share a lane with m: those of its key, or m alone.
MutLane(m) == {m}
Lane(m) == {n \in Msg : n = m \/ SameKey(m, n)}

MutDueOnce(m) == status[m] = "Pending" /\ wait[m] = 0 /\ attempts[m] = 0
Due(m) == status[m] = "Pending" /\ wait[m] = 0

\* The scans: pass 1 of a dispatcher's pending(), and failed() of a sweep.
Reader == Dispatcher \cup Sweeper
Scanning(r) == cursor[r] > 1
Idle(d) == ~Scanning(d) /\ cand[d] = {} /\ held[d] = {}

Init ==
  /\ status = [m \in Msg |-> "Absent"]
  /\ attempts = [m \in Msg |-> 0]
  /\ wait = [m \in Msg |-> 0]
  /\ cursor = [r \in Reader |-> 1]
  /\ cand = [d \in Dispatcher |-> {}]
  /\ held = [d \in Dispatcher |-> {}]
  /\ started = [d \in Dispatcher |-> {}]
  /\ stage = [d \in Dispatcher |-> [m \in Msg |-> "Record"]]
  /\ seen = [d \in Dispatcher |-> [m \in Msg |-> 0]]
  /\ age = [d \in Dispatcher |-> 0]
  /\ copies = [m \in Msg |-> 0]
  /\ batch = [s \in Sweeper |-> {}]
  /\ parking = {}
  /\ parked = [m \in Msg |-> 0]
  /\ faults = 0
  /\ overrun = 0
  /\ missed = {}

-----------------------------------------------------------------------------
(* The table *)

\* insert: messages of one key are created and inserted in order.
Insert(m) ==
  /\ status[m] = "Absent"
  /\ \A n \in Msg : SameKey(m, n) /\ n < m => status[n] # "Absent"
  /\ status' = [status EXCEPT ![m] = "Pending"]
  /\ missed' = IF \E d \in Dispatcher : ShardOf[m] < cursor[d]
               THEN missed \cup {m} ELSE missed
  /\ UNCHANGED <<attempts, wait, cursor, run, sweep, copies, overrun, parked, faults>>

\* A storage error or a crash, within the bound.
Fault == faults < MaxFaults /\ faults' = faults + 1

\* An iterator over the table reads its next shard.  Wanted are the rows it
\* filters for, rows the ones it has found; the last shard read, they are sorted
\* and truncated.
LastShard(r) == cursor[r] = Shards
Read(r) == cursor' = [cursor EXCEPT ![r] = IF LastShard(r) THEN 1 ELSE @ + 1]

Found(r, rows, Wanted) ==
  LET now == rows \cup {m \in Wanted : ShardOf[m] = cursor[r]} IN
  IF LastShard(r) THEN FirstN(now, BatchSize) ELSE {now}

\* pending(), pass 1: read the clock and find the rows that are due.  A call
\* that can find nothing is left out.
PendingScan(d) ==
  /\ held[d] = {}
  /\ Scanning(d) \/ (cand[d] = {} /\ \E m \in Msg : Due(m) \/ status[m] = "Absent")
  /\ Read(d)
  /\ \E R \in Found(d, cand[d], {m \in Msg : Due(m)}) : cand' = [cand EXCEPT ![d] = R]
  /\ age' = IF Scanning(d) THEN age ELSE [age EXCEPT ![d] = 0]
  /\ UNCHANGED <<store, held, started, stage, seen, sweep, copies, overrun, missed,
                 parked, faults>>

\* pending(), pass 2: lease a candidate if it is still due by the clock read
\* in pass 1; the claimed copy remembers the row's attempts.
MutPendingClaim(d) ==
  /\ ~Scanning(d)
  /\ \E m \in Oldest(cand[d]) :
       /\ cand' = [cand EXCEPT ![d] = @ \ {m}]
       /\ wait' = [wait EXCEPT ![m] = Lease - age[d]]
       /\ held' = [held EXCEPT ![d] = @ \cup {m}]
       /\ seen' = [seen EXCEPT ![d][m] = attempts[m]]
  /\ UNCHANGED <<cursor, status, attempts, started, stage, age, sweep, copies, overrun,
                 missed, parked, faults>>
PendingClaim(d) ==
  /\ ~Scanning(d)
  /\ \E m \in Oldest(cand[d]) :
       /\ cand' = [cand EXCEPT ![d] = @ \ {m}]
       /\ IF Due(m)
            THEN /\ wait' = [wait EXCEPT ![m] = Lease - age[d]]
                 /\ held' = [held EXCEPT ![d] = @ \cup {m}]
                 /\ seen' = [seen EXCEPT ![d][m] = attempts[m]]
            ELSE UNCHANGED <<wait, held, seen>>
  /\ UNCHANGED <<cursor, status, attempts, started, stage, age, sweep, copies, overrun,
                 missed, parked, faults>>

-----------------------------------------------------------------------------
(* dispatch_pending: lanes *)

\* buffer_unordered starts the lanes in order, at most Concurrency at a time.
StartLane(d) ==
  /\ cand[d] = {}
  /\ held[d] # started[d]
  /\ Cardinality({Lane(m) : m \in started[d]}) < Concurrency
  /\ \E m \in Oldest(held[d] \ started[d]) :
       started' = [started EXCEPT ![d] = @ \cup (held[d] \cap Lane(m))]
  /\ UNCHANGED <<cursor, store, cand, held, stage, seen, age, sweep, copies, overrun,
                 missed, parked, faults>>

\* The message a started lane is working on.
AtHead(d, m) == m \in Oldest(started[d] \cap Lane(m))

\* d is finished with the messages S of its run.
Release(d, S) ==
  /\ held' = [held EXCEPT ![d] = @ \ S]
  /\ started' = [started EXCEPT ![d] = @ \ S]
  /\ stage' = [stage EXCEPT ![d] = [m \in Msg |-> IF m \in S THEN "Record" ELSE @[m]]]
  /\ seen' = [seen EXCEPT ![d] = [m \in Msg |-> IF m \in S THEN 0 ELSE @[m]]]

-----------------------------------------------------------------------------
(* dispatch_one *)

RecordAttempt(d, m) ==
  /\ AtHead(d, m) /\ stage[d][m] = "Record"
  /\ \/ /\ attempts' = [attempts EXCEPT ![m] = @ + 1]
        /\ stage' = [stage EXCEPT ![d][m] = "Publish"]
        /\ UNCHANGED <<held, started, seen, faults>>
     \/ /\ Fault
        /\ Release(d, Lane(m))
        /\ UNCHANGED attempts
  /\ UNCHANGED <<cursor, status, wait, cand, age, sweep, copies, overrun, missed, parked>>

\* RetryPolicy::decide_for
MutDecideEarly(attempt, kind) ==
  IF kind = "Transient" /\ attempt + 1 < MaxAttempts THEN "ScheduleRetry" ELSE "MarkFailed"
DecideFor(attempt, kind) ==
  IF kind = "Transient" /\ attempt < MaxAttempts THEN "ScheduleRetry" ELSE "MarkFailed"

\* The attempt number comes from the claimed copy, not from the row.
Publish(d, m) ==
  /\ AtHead(d, m) /\ stage[d][m] = "Publish"
  /\ \/ /\ copies' = [copies EXCEPT ![m] = @ + 1]
        /\ stage' = [stage EXCEPT ![d][m] = "MarkPublished"]
     \/ /\ \E kind \in PublishFaults[m] :
             stage' = [stage EXCEPT ![d][m] = DecideFor(seen[d][m] + 1, kind)]
        /\ UNCHANGED copies
  /\ UNCHANGED <<cursor, store, cand, held, started, seen, age, sweep, parked, faults,
                 overrun, missed>>

\* Delivered: the lane goes on with the next message, marked or not.
MutMarkPublished(d, m) ==
  /\ AtHead(d, m) /\ stage[d][m] = "MarkPublished"
  /\ Release(d, {m})
  /\ UNCHANGED <<cursor, store, cand, age, sweep, copies, overrun, missed, parked, faults>>
MarkPublished(d, m) ==
  /\ AtHead(d, m) /\ stage[d][m] = "MarkPublished"
  /\ \/ status' = [status EXCEPT ![m] = "Published"] /\ UNCHANGED faults
     \/ Fault /\ UNCHANGED status
  /\ Release(d, {m})
  /\ UNCHANGED <<cursor, attempts, wait, cand, age, sweep, copies, overrun, missed, parked>>

\* Undelivered: the lane stops, the rest of it stays claimed until the lease ends.
ScheduleRetry(d, m) ==
  /\ AtHead(d, m) /\ stage[d][m] = "ScheduleRetry"
  /\ \/ \E b \in Backoffs : wait' = [wait EXCEPT ![m] = b] /\ UNCHANGED faults
     \/ Fault /\ UNCHANGED wait
  /\ Release(d, Lane(m))
  /\ UNCHANGED <<cursor, status, attempts, cand, age, sweep, copies, overrun, missed, parked>>

MarkFailed(d, m) ==
  /\ AtHead(d, m) /\ stage[d][m] = "MarkFailed"
  /\ \/ status' = [status EXCEPT ![m] = "Failed"] /\ UNCHANGED faults
     \/ Fault /\ UNCHANGED status
  /\ Release(d, Lane(m))
  /\ UNCHANGED <<cursor, attempts, wait, cand, age, sweep, copies, overrun, missed, parked>>

\* The dispatcher's process dies and is restarted: its claims stay leased.
Crash(d) ==
  /\ ~Idle(d)
  /\ Fault
  /\ cursor' = [cursor EXCEPT ![d] = 1]
  /\ cand' = [cand EXCEPT ![d] = {}]
  /\ Release(d, Msg)
  /\ UNCHANGED <<store, age, sweep, copies, overrun, missed, parked>>

-----------------------------------------------------------------------------
(* sweep_failed_to_dead_letter *)

\* failed()
SweepScan(s) ==
  /\ s \notin parking
  /\ Scanning(s) \/ (batch[s] = {} /\ \E m \in Msg : status[m] = "Failed")
  /\ Read(s)
  /\ \E R \in Found(s, batch[s], {m \in Msg : status[m] = "Failed"}) :
       batch' = [batch EXCEPT ![s] = R]
  /\ UNCHANGED <<store, run, parking, copies, overrun, missed, parked, faults>>

\* An error of either call ends the sweep.
SweepPark(s) ==
  /\ ~Scanning(s) /\ batch[s] # {} /\ s \notin parking
  /\ \/ /\ \E m \in Oldest(batch[s]) : parked' = [parked EXCEPT ![m] = @ + 1]
        /\ parking' = parking \cup {s}
        /\ UNCHANGED <<batch, faults>>
     \/ /\ Fault
        /\ batch' = [batch EXCEPT ![s] = {}]
        /\ UNCHANGED <<parked, parking>>
  /\ UNCHANGED <<cursor, store, run, copies, overrun, missed>>

SweepMark(s) ==
  /\ s \in parking
  /\ parking' = parking \ {s}
  /\ \/ /\ \E m \in Oldest(batch[s]) :
             /\ status' = [status EXCEPT ![m] = "DeadLettered"]
             /\ batch' = [batch EXCEPT ![s] = @ \ {m}]
        /\ UNCHANGED faults
     \/ /\ Fault
        /\ batch' = [batch EXCEPT ![s] = {}]
        /\ UNCHANGED status
  /\ UNCHANGED <<cursor, attempts, wait, run, copies, overrun, missed, parked>>

-----------------------------------------------------------------------------
(* Time *)

\* Pass 1 has no await and takes no time.
\* A candidate that is not due when the clock moves on has a next_attempt_at
\* later than the clock pass 1 read, so pass 2 can no longer claim it.
Tick ==
  /\ \A d \in Dispatcher : ~Scanning(d)
  /\ \/ \E m \in Msg : wait[m] > 0
     \/ \E d \in Dispatcher : ~Idle(d) /\ age[d] < Lease
  /\ wait' = [m \in Msg |-> IF wait[m] > 0 THEN wait[m] - 1 ELSE 0]
  /\ age' = [d \in Dispatcher |->
               IF ~Idle(d) /\ age[d] < Lease THEN age[d] + 1 ELSE age[d]]
  /\ cand' = [d \in Dispatcher |-> {m \in cand[d] : wait[m] = 0}]
  /\ overrun' = IF \A d \in Dispatcher : Idle(d) \/ age[d] + 1 < Lease THEN overrun ELSE 1
  /\ UNCHANGED <<status, attempts, cursor, held, started, stage, seen, sweep, copies,
                 missed, parked, faults>>

-----------------------------------------------------------------------------

DispatchOne(d) ==
  \E m \in Msg : \/ RecordAttempt(d, m) \/ Publish(d, m) \/ MarkPublished(d, m)
                 \/ ScheduleRetry(d, m) \/ MarkFailed(d, m)

Dispatch(d) == PendingScan(d) \/ PendingClaim(d) \/ StartLane(d) \/ DispatchOne(d)

Sweep(s) == SweepScan(s) \/ SweepPark(s) \/ SweepMark(s)

Next ==
  \/ \E m \in Msg : Insert(m)
  \/ \E d \in Dispatcher : Dispatch(d) \/ Crash(d)
  \/ \E s \in Sweeper : Sweep(s)
  \/ Tick

Spec == Init /\ [][Next]_vars

\* Dispatchers and sweeps run from a background loop, and time passes between
\* the scans.
Fairness ==
  /\ \A d \in Dispatcher : WF_vars(Dispatch(d))
  /\ \A s \in Sweeper : WF_vars(Sweep(s))
  /\ SF_vars(Tick)

FairSpec == Spec /\ Fairness
-----------------------------------------------------------------------------
(* Properties *)

TableOK ==
  /\ status \in [Msg -> Status]
  /\ attempts \in [Msg -> Nat]
  /\ wait \in [Msg -> Nat]
  /\ copies \in [Msg -> Nat]
  /\ parked \in [Msg -> Nat]
  /\ faults \in 0..MaxFaults

ScansOK ==
  /\ cursor \in [Reader -> 1..Shards]
  /\ \A d \in Dispatcher : Scanning(d) => held[d] = {}
  /\ \A s \in parking : ~Scanning(s)
  /\ missed \subseteq Msg

RunsOK ==
  /\ cand \in [Dispatcher -> SUBSET Msg]
  /\ held \in [Dispatcher -> SUBSET Msg]
  /\ started \in [Dispatcher -> SUBSET Msg]
  /\ stage \in [Dispatcher -> [Msg -> Stage]]
  /\ seen \in [Dispatcher -> [Msg -> Nat]]
  /\ age \in [Dispatcher -> 0..Lease]

LanesOK ==
  \A d \in Dispatcher :
    /\ started[d] \subseteq held[d]
    /\ \A m \in Msg \ started[d] : stage[d][m] = "Record"
    /\ cand[d] # {} => started[d] = {}

SweepsOK ==
  /\ batch \in [Sweeper -> SUBSET Msg]
  /\ parking \in SUBSET Sweeper
  /\ \A s \in parking : batch[s] # {}

\* Type invariant: rows, claimed copies and runs are well formed, a started
\* lane is claimed, only a started message is past its first stage, no lane
\* starts before pass 2 is done, and a sweep that is to mark a row has one.
TypeOK == TableOK /\ ScansOK /\ RunsOK /\ LanesOK /\ SweepsOK /\ overrun \in 0..1

\* No message is dropped by its bookkeeping: a row reaches `published` only
\* after the broker accepted the message, and `dead_lettered` only after the
\* dead-letter queue did, whatever overlapping dispatchers, late writes of
\* expired claims, storage errors and crashes do to the row in between.
NothingDropped ==
  \A m \in Msg : /\ status[m] = "Published" => copies[m] > 0
                 /\ status[m] = "DeadLettered" => parked[m] > 0

\* A row is given up only when its retry budget is spent: the `failed` (or
\* dead-lettered) row of a message that is no poison one records at least
\* max_attempts attempts, although dispatch_one decides on the attempts of a
\* claimed copy that other dispatchers may have made stale.
BudgetSpent ==
  \A m \in Msg : status[m] \in {"Failed", "DeadLettered"} =>
    "Poison" \in PublishFaults[m] \/ attempts[m] >= MaxAttempts

\* Two dispatchers never both hold a message under leases that are in force
\* (OutboxRepository::pending), unless a run has outlived its leases: such a
\* run's schedule_retry cuts the lease of the one that claimed after it.
LeaseExclusive ==
  overrun = 0 => \A c, d \in Dispatcher :
    c # d /\ held[c] \cap held[d] # {} => age[c] >= Lease \/ age[d] >= Lease

\* What one dispatcher keeps of the order: without storage errors and crashes a
\* message is overtaken by a later one of its key only when it was inserted
\* behind a running scan, which found the later one in a shard it had still to
\* read, or after an attempt has failed: its own, or one of an earlier message
\* of the key, whose lane stopped and left it claimed.
OvertakenOnlyInRetry ==
  faults = 0 => \A m, n \in Msg :
    m < n /\ SameKey(m, n) /\ copies[n] > 0 =>
      \/ copies[m] > 0 \/ m \in missed
      \/ \E l \in Msg : (l = m \/ (l < m /\ SameKey(m, l))) /\ attempts[l] > copies[l]

\* While runs end before their leases, the broker receives a message once,
\* plus once for every mark_published that was lost to an error or a crash.
DuplicatesBounded == overrun = 0 => \A m \in Msg : copies[m] <= 1 + faults

\* The outbox implements Delivery: through all claims, lanes, retries, storage
\* errors, crashes and sweeps a row is only ever stored, sent while pending,
\* settled after it was sent, given up, parked, and buried after it was parked.
\* While no run is late, a message is sent again, or given up although it was
\* sent, only as often as errors and crashes hid a delivery, and a settled row
\* is final ("a terminal state suitable for a dead-letter sweep", DispatchConfig).
D == INSTANCE Delivery WITH sent <- copies, slow <- overrun
ImplementsDelivery == D!Spec

\* Every row that is inserted is eventually published or dead-lettered for good:
\* no message starves behind a lease, a stopped lane, a backoff or a failed state.
EventuallySettled ==
  <>[](\A m \in Msg : status[m] \in {"Absent", "Published", "DeadLettered"})
=============================================================================
