---------------------------- MODULE OutboxProofs ----------------------------
(***************************************************************************)
(* Proofs about the outbox for any number of messages, dispatchers and     *)
(* sweeps and for every configuration; the order within a key, for one     *)
(* dispatcher; that it implements Delivery, for every positive lease.      *)
(* A leaf that names no prover is Zenon's.                                 *)
(***************************************************************************)
EXTENDS Outbox, TLAPS

USE Zenon

LEMMA ZeroNotPositive == ~(0 > 0)
BY SMT

\* There is at most one oldest message (the order of pending() and failed()).
LEMMA OldestUnique ==
  ASSUME NEW S, S \subseteq Msg, NEW m \in Oldest(S), NEW n \in Oldest(S)
  PROVE  m = n
<1>1. m \in Nat /\ n \in Nat /\ m <= n /\ n <= m
  BY MsgAssumption DEF Oldest
<1> QED BY SMT, <1>1

\* What a scan has found after a shard: rows it had found, and rows it wanted.
LEMMA FoundRows ==
  ASSUME NEW r, NEW rows, NEW Wanted, NEW R \in Found(r, rows, Wanted)
  PROVE  \A m \in R : m \in rows \/ m \in Wanted
BY DEF Found, FirstN

\* A row that it had found or finds now is passed over only by the truncation,
\* and then with all the later ones.
LEMMA FoundFirst ==
  ASSUME NEW r, NEW rows, NEW Wanted, NEW R \in Found(r, rows, Wanted),
         NEW m, m \in rows \/ (m \in Wanted /\ ShardOf[m] = cursor[r])
  PROVE  (~LastShard(r) => m \in R) /\ \A n \in R : m < n => m \in R
<1> DEFINE now == rows \cup {x \in Wanted : ShardOf[x] = cursor[r]}
<1>1. m \in now
  OBVIOUS
<1>2. CASE LastShard(r)
  <2>1. R \in FirstN(now, BatchSize)
    BY <1>2 DEF Found
  <2> QED BY <1>1, <1>2, <2>1 DEF FirstN
<1>3. CASE ~LastShard(r)
  <2>1. R = now
    BY <1>3 DEF Found
  <2> QED BY <1>1, <2>1
<1> QED BY <1>2, <1>3

\* What pass 1 has found after a shard.
LEMMA ScanStep ==
  ASSUME RunsOK, NEW d \in Dispatcher, PendingScan(d)
  PROVE  \E R \in Found(d, cand[d], {m \in Msg : Due(m)}) :
           /\ \A m \in R : m \in Msg /\ (m \in cand[d] \/ Due(m))
           /\ \A c \in Dispatcher : cand'[c] = IF c = d THEN R ELSE cand[c]
           /\ cand' = [cand EXCEPT ![d] = R]
<1>1. PICK R \in Found(d, cand[d], {m \in Msg : Due(m)}) : cand' = [cand EXCEPT ![d] = R]
  BY DEF PendingScan
<1>2. \A m \in R : m \in cand[d] \/ m \in {n \in Msg : Due(n)}
  BY FoundRows
<1>3. \A m \in R : m \in Msg /\ (m \in cand[d] \/ Due(m))
  BY <1>2 DEF RunsOK
<1>4. \A c \in Dispatcher : cand'[c] = IF c = d THEN R ELSE cand[c]
  BY <1>1 DEF RunsOK
<1> QED BY <1>1, <1>3, <1>4

\* What pass 2 does with the row m.
Claims(d, m) ==
  /\ cand' = [cand EXCEPT ![d] = @ \ {m}]
  /\ Due(m) => /\ wait' = [wait EXCEPT ![m] = Lease - age[d]]
               /\ held' = [held EXCEPT ![d] = @ \cup {m}]
               /\ seen' = [seen EXCEPT ![d][m] = attempts[m]]
  /\ ~Due(m) => UNCHANGED <<wait, held, seen>>

LEMMA ClaimStep ==
  ASSUME RunsOK, NEW d \in Dispatcher, PendingClaim(d)
  PROVE  \E m \in Msg : m \in cand[d] /\ (\A n \in cand[d] : m <= n) /\ Claims(d, m)
<1>1. PICK m \in Oldest(cand[d]) : Claims(d, m)
  BY DEF PendingClaim, Claims
<1> QED BY <1>1 DEF Oldest, RunsOK

LEMMA LaneStep ==
  ASSUME RunsOK, NEW d \in Dispatcher, StartLane(d)
  PROVE  \E m \in Msg : /\ m \in held[d] /\ m \notin started[d]
                        /\ started' = [started EXCEPT ![d] = @ \cup (held[d] \cap Lane(m))]
<1>1. PICK m \in Oldest(held[d] \ started[d]) :
             started' = [started EXCEPT ![d] = @ \cup (held[d] \cap Lane(m))]
  BY DEF StartLane
<1> QED BY <1>1 DEF Oldest, RunsOK

\* A sweep finds failed rows.
LEMMA SweepScanStep ==
  ASSUME SweepsOK, NEW s \in Sweeper, SweepScan(s)
  PROVE  \E R : /\ \A m \in R : m \in Msg /\ (m \in batch[s] \/ status[m] = "Failed")
                /\ batch' = [batch EXCEPT ![s] = R]
                /\ \A t \in Sweeper : \A m \in batch'[t] : m \in batch[t] \/ status[m] = "Failed"
<1>1. PICK R \in Found(s, batch[s], {m \in Msg : status[m] = "Failed"}) :
             batch' = [batch EXCEPT ![s] = R]
  BY DEF SweepScan
<1>2. \A m \in R : m \in batch[s] \/ m \in {n \in Msg : status[n] = "Failed"}
  BY FoundRows
<1>3. \A m \in R : m \in Msg /\ (m \in batch[s] \/ status[m] = "Failed")
  BY <1>2 DEF SweepsOK
<1>4. \A t \in Sweeper : batch'[t] = IF t = s THEN R ELSE batch[t]
  BY <1>1 DEF SweepsOK
<1> QED BY <1>1, <1>3, <1>4

\* At most one row is marked, and it is a row of the batch.
LEMMA MarkStep ==
  ASSUME SweepsOK, NEW s \in Sweeper, SweepMark(s)
  PROVE  \E m \in Msg : /\ m \in batch[s]
                        /\ status' = status \/ status' = [status EXCEPT ![m] = "DeadLettered"]
<1>1. CASE UNCHANGED status
  BY <1>1 DEF SweepMark, SweepsOK
<1>2. CASE ~UNCHANGED status
  <2>1. PICK m \in Oldest(batch[s]) : status' = [status EXCEPT ![m] = "DeadLettered"]
    BY <1>2 DEF SweepMark
  <2> QED BY <2>1 DEF Oldest, SweepsOK
<1> QED BY <1>1, <1>2

-----------------------------------------------------------------------------
(* Type correctness *)

LEMMA InitTypeOK == Init => TypeOK
<1>1. Init => ScansOK
  BY SMT, ShardAssumption DEF Init, ScansOK, Scanning, Reader
<1>2. Init => TableOK /\ RunsOK /\ LanesOK /\ SweepsOK /\ overrun \in 0..1
  BY SMT, ConfigAssumption DEF Init, TableOK, RunsOK, LanesOK, SweepsOK, Status, Stage
<1> QED BY <1>1, <1>2 DEF TypeOK

\* Finishing with messages only resets their stage and their copy.
LEMMA ReleaseEffect ==
  ASSUME RunsOK, NEW d \in Dispatcher, NEW S, Release(d, S)
  PROVE  \A c \in Dispatcher, m \in Msg :
           /\ stage'[c][m] \in {"Record", stage[c][m]}
           /\ \/ stage'[c][m] = "Record" /\ seen'[c][m] = 0
              \/ stage'[c][m] = stage[c][m] /\ seen'[c][m] = seen[c][m]
           /\ held'[c] \subseteq held[c]
BY DEF RunsOK, Release

\* A step of dispatch_one moves one message of one run to its next stage.
LEMMA StageEffect ==
  ASSUME RunsOK, NEW d \in Dispatcher, NEW m \in Msg, NEW st,
         stage' = [stage EXCEPT ![d][m] = st]
  PROVE  \A c \in Dispatcher, n \in Msg :
           \/ c = d /\ n = m /\ stage'[c][n] = st
           \/ ~(c = d /\ n = m) /\ stage'[c][n] = stage[c][n]
BY DEF RunsOK

\* A run that gives up a lane and otherwise goes on keeps its shape.
LEMMA ReleaseRunsOK ==
  ASSUME RunsOK, LanesOK, NEW d \in Dispatcher, NEW S, Release(d, S),
         cand' = cand \/ cand' = [cand EXCEPT ![d] = {}], UNCHANGED age
  PROVE  RunsOK' /\ LanesOK'
<1>1. RunsOK'
  BY DEF RunsOK, Release, Stage
<1>2. ASSUME NEW c \in Dispatcher
      PROVE  /\ started'[c] \subseteq held'[c]
             /\ \A m \in Msg \ started'[c] : stage'[c][m] = "Record"
             /\ started'[c] \subseteq started[c]
  BY DEF RunsOK, LanesOK, Release
<1>3. \A c \in Dispatcher : cand'[c] \subseteq cand[c]
  BY DEF RunsOK
<1>4. \A c \in Dispatcher : cand'[c] # {} => started'[c] = {}
  BY <1>2, <1>3 DEF LanesOK
<1> QED BY <1>1, <1>2, <1>4 DEF LanesOK

LEMMA FaultType ==
  ASSUME faults \in 0..MaxFaults, Fault
  PROVE  faults' \in 0..MaxFaults
BY SMT, ConfigAssumption DEF Fault

\* Only the clock can show that a run has outlived its leases, and that is
\* never forgotten.
LEMMA OverrunStep ==
  ASSUME overrun \in 0..1, [Next]_vars
  PROVE  overrun' \in 0..1 /\ (overrun' = 0 => overrun = 0)
<1>1. CASE Tick
  BY SMT, <1>1 DEF Tick
<1>2. CASE ~Tick
  <2>1. \A m \in Msg : Insert(m) => UNCHANGED overrun
    BY DEF Insert
  <2>2. \A d \in Dispatcher : Crash(d) \/ PendingScan(d) \/ PendingClaim(d) \/ StartLane(d)
                               => UNCHANGED overrun
    BY DEF Crash, PendingScan, PendingClaim, StartLane
  <2>3. \A d \in Dispatcher : DispatchOne(d) => UNCHANGED overrun
    BY SMT DEF DispatchOne, RecordAttempt, Publish, MarkPublished, ScheduleRetry, MarkFailed
  <2>4. \A s \in Sweeper : Sweep(s) => UNCHANGED overrun
    BY DEF Sweep, SweepScan, SweepPark, SweepMark
  <2> QED BY <1>2, <2>1, <2>2, <2>3, <2>4 DEF Next, Dispatch, vars
<1> QED BY <1>1, <1>2

\* A step of no scan that claims nothing.
LEMMA ScansKept ==
  ASSUME ScansOK, UNCHANGED <<cursor, missed>>, parking' \subseteq parking,
         \A d \in Dispatcher : held'[d] \subseteq held[d]
  PROVE  ScansOK'
BY DEF ScansOK, Scanning

\* A scan that has read the last shard is over.
LEMMA ReadStep ==
  ASSUME ScansOK, NEW r \in Reader, Read(r)
  PROVE  /\ cursor' \in [Reader -> 1..Shards]
         /\ \A q \in Reader : q # r => cursor'[q] = cursor[q]
         /\ cursor'[r] = IF LastShard(r) THEN 1 ELSE cursor[r] + 1
<1> DEFINE at == IF LastShard(r) THEN 1 ELSE cursor[r] + 1
<1>1. cursor' = [cursor EXCEPT ![r] = at]
  BY DEF Read, ScansOK
<1>2. cursor[r] \in 1..Shards
  BY DEF ScansOK
<1>3. at \in 1..Shards
  BY SMT, <1>2, ShardAssumption DEF LastShard
<1> HIDE DEF at
<1>4. cursor' \in [Reader -> 1..Shards] /\ \A q \in Reader : q # r => cursor'[q] = cursor[q]
  BY <1>1, <1>3 DEF ScansOK
<1>5. cursor'[r] = at
  BY <1>1 DEF ScansOK
<1> QED BY <1>4, <1>5 DEF at

\* A sweep moves no dispatcher's scan.
LEMMA SweepCursor ==
  ASSUME ScansOK, NEW s \in Sweeper, Sweep(s)
  PROVE  \A d \in Dispatcher : cursor'[d] = cursor[d]
<1>1. CASE SweepScan(s)
  <2>1. s \in Reader /\ Read(s) /\ \A d \in Dispatcher : d # s /\ d \in Reader
    BY <1>1, ReaderAssumption DEF SweepScan, Reader
  <2> QED BY <2>1, ReadStep
<1>2. CASE SweepPark(s) \/ SweepMark(s)
  BY <1>2 DEF SweepPark, SweepMark
<1> QED BY <1>1, <1>2 DEF Sweep

\* A dispatcher that scans holds nothing, and a sweep that scans parks nothing.
LEMMA NextScansOK ==
  ASSUME ScansOK, RunsOK, SweepsOK, [Next]_vars
  PROVE  ScansOK'
<1> USE DEF store, run, sweep
<1>r. ASSUME NEW d \in Dispatcher, NEW S, Release(d, S), UNCHANGED <<cursor, missed, parking>>
      PROVE  ScansOK'
  <2>1. \A c \in Dispatcher : held'[c] \subseteq held[c]
    BY <1>r DEF Release, RunsOK
  <2> QED BY <1>r, <2>1, ScansKept
<1>1. ASSUME NEW m \in Msg, Insert(m) PROVE ScansOK'
  <2>1. missed' \subseteq Msg
    BY <1>1 DEF Insert, ScansOK
  <2>2. UNCHANGED <<cursor, held, parking>>
    BY <1>1 DEF Insert
  <2> QED BY <2>1, <2>2 DEF ScansOK, Scanning
<1>2. ASSUME NEW d \in Dispatcher, PendingScan(d) PROVE ScansOK'
  <2>1. d \in Reader /\ d \notin Sweeper
    BY ReaderAssumption DEF Reader
  <2>2. Read(d) /\ held[d] = {} /\ UNCHANGED <<held, missed, parking>>
    BY <1>2 DEF PendingScan
  <2>3. \A s \in parking : s # d /\ s \in Reader
    BY <2>1 DEF SweepsOK, Reader
  <2>4. \A c \in Dispatcher : c \in Reader
    BY DEF Reader
  <2> QED BY <2>1, <2>2, <2>3, <2>4, ReadStep DEF ScansOK, Scanning
<1>3. ASSUME NEW d \in Dispatcher, PendingClaim(d) PROVE ScansOK'
  <2>1. ~Scanning(d) /\ UNCHANGED <<cursor, missed, parking>>
    BY <1>3 DEF PendingClaim
  <2>2. \A c \in Dispatcher : c # d => held'[c] = held[c]
    BY <1>3 DEF PendingClaim, RunsOK
  <2> QED BY <2>1, <2>2 DEF ScansOK, Scanning
<1>4. ASSUME NEW d \in Dispatcher, StartLane(d) PROVE ScansOK'
  BY <1>4, ScansKept DEF StartLane
<1>5. ASSUME NEW d \in Dispatcher, NEW m \in Msg, RecordAttempt(d, m) PROVE ScansOK'
  <2>1. CASE Release(d, Lane(m))
    BY <1>5, <1>r, <2>1 DEF RecordAttempt
  <2>2. CASE UNCHANGED held
    BY <1>5, <2>2, ScansKept DEF RecordAttempt
  <2> QED BY <1>5, <2>1, <2>2 DEF RecordAttempt
<1>6. ASSUME NEW d \in Dispatcher, NEW m \in Msg, Publish(d, m) PROVE ScansOK'
  BY <1>6, ScansKept DEF Publish
<1>7. ASSUME NEW d \in Dispatcher, NEW m \in Msg, MarkPublished(d, m) PROVE ScansOK'
  BY <1>7, <1>r DEF MarkPublished
<1>8. ASSUME NEW d \in Dispatcher, NEW m \in Msg, ScheduleRetry(d, m) PROVE ScansOK'
  BY <1>8, <1>r DEF ScheduleRetry
<1>9. ASSUME NEW d \in Dispatcher, NEW m \in Msg, MarkFailed(d, m) PROVE ScansOK'
  BY <1>9, <1>r DEF MarkFailed
<1>10. ASSUME NEW d \in Dispatcher, Crash(d) PROVE ScansOK'
  <2>1. UNCHANGED <<missed, parking>> /\ cursor' = [cursor EXCEPT ![d] = 1]
    BY <1>10 DEF Crash
  <2>2. \A c \in Dispatcher : held'[c] \subseteq held[c]
    BY <1>10 DEF Crash, Release, RunsOK
  <2>3. 1 \in 1..Shards /\ ~(1 > 1)
    BY SMT, ShardAssumption
  <2>6. cursor' \in [Reader -> 1..Shards] /\ \A q \in Reader : cursor'[q] \in {1, cursor[q]}
    BY <2>1, <2>3 DEF ScansOK
  <2>4. \A s \in parking : s \in Reader
    BY DEF SweepsOK, Reader
  <2>5. \A c \in Dispatcher : c \in Reader
    BY DEF Reader
  <2>7. \A q \in Reader : Scanning(q)' => Scanning(q)
    BY <2>3, <2>6 DEF Scanning
  <2>8. \A c \in Dispatcher : Scanning(c)' => held'[c] = {}
    BY <2>2, <2>5, <2>7 DEF ScansOK
  <2>9. \A s \in parking' : ~Scanning(s)'
    BY <2>1, <2>4, <2>7 DEF ScansOK
  <2> QED BY <2>1, <2>6, <2>8, <2>9 DEF ScansOK
<1>11. ASSUME NEW s \in Sweeper, SweepScan(s) PROVE ScansOK'
  <2>1. s \in Reader /\ s \notin Dispatcher
    BY ReaderAssumption DEF Reader
  <2>2. Read(s) /\ s \notin parking /\ UNCHANGED <<held, missed, parking>>
    BY <1>11 DEF SweepScan
  <2>3. \A t \in parking : t # s /\ t \in Reader
    BY <2>2 DEF SweepsOK, Reader
  <2>4. \A c \in Dispatcher : c # s /\ c \in Reader
    BY <2>1 DEF Reader
  <2> QED BY <2>1, <2>2, <2>3, <2>4, ReadStep DEF ScansOK, Scanning
<1>12. ASSUME NEW s \in Sweeper, SweepPark(s) PROVE ScansOK'
  BY <1>12 DEF SweepPark, ScansOK, Scanning
<1>13. ASSUME NEW s \in Sweeper, SweepMark(s) PROVE ScansOK'
  BY <1>13, ScansKept DEF SweepMark
<1>14. CASE Tick
  BY <1>14, ScansKept DEF Tick
<1>15. CASE UNCHANGED vars
  BY <1>15, ScansKept DEF vars
<1> QED
  BY <1>1, <1>2, <1>3, <1>4, <1>5, <1>6, <1>7, <1>8, <1>9, <1>10, <1>11, <1>12,
     <1>13, <1>14, <1>15 DEF Next, Dispatch, DispatchOne, Sweep

\* Every step keeps the rows, the claimed copies and the runs well formed.
LEMMA NextTypeOK == TypeOK /\ [Next]_vars => TypeOK'
<1> SUFFICES ASSUME TableOK, RunsOK, LanesOK, SweepsOK, [Next]_vars
             PROVE  TableOK' /\ RunsOK' /\ LanesOK' /\ SweepsOK'
  BY OverrunStep, NextScansOK DEF TypeOK
<1> USE ConfigAssumption DEF store, run, sweep
<1>1. ASSUME NEW m \in Msg, Insert(m) PROVE TableOK' /\ RunsOK' /\ LanesOK' /\ SweepsOK'
  BY <1>1 DEF TableOK, RunsOK, LanesOK, SweepsOK, Insert, Status
<1>2. ASSUME NEW d \in Dispatcher, PendingScan(d) PROVE TableOK' /\ RunsOK' /\ LanesOK' /\ SweepsOK'
  <2>1. TableOK' /\ SweepsOK'
    BY <1>2 DEF TableOK, SweepsOK, PendingScan
  <2>2. RunsOK'
    <3>1. PICK R : (\A m \in R : m \in Msg) /\ cand' = [cand EXCEPT ![d] = R]
      BY <1>2, ScanStep
    <3>2. cand' \in [Dispatcher -> SUBSET Msg]
      BY <3>1 DEF RunsOK
    <3>3. age' \in [Dispatcher -> 0..Lease]
      BY SMT, <1>2 DEF RunsOK, PendingScan
    <3> QED BY <1>2, <3>2, <3>3 DEF RunsOK, PendingScan
  <2>3. LanesOK'
    <3>1. held[d] = {} /\ UNCHANGED <<held, started, stage>>
      BY <1>2 DEF PendingScan
    <3>2. \A c \in Dispatcher : c # d => cand'[c] = cand[c]
      BY <1>2 DEF PendingScan, RunsOK
    <3>3. started[d] = {}
      BY <3>1 DEF LanesOK
    <3> QED BY <3>1, <3>2, <3>3 DEF LanesOK
  <2> QED BY <2>1, <2>2, <2>3
<1>3. ASSUME NEW d \in Dispatcher, PendingClaim(d) PROVE TableOK' /\ RunsOK' /\ LanesOK' /\ SweepsOK'
  <2>1. PICK m \in Msg : m \in cand[d] /\ Claims(d, m)
    BY <1>3, ClaimStep
  <2>2. Lease - age[d] \in Nat
    BY SMT DEF RunsOK
  <2>3. CASE Due(m)
    <3>1. /\ cand' = [cand EXCEPT ![d] = @ \ {m}]
          /\ wait' = [wait EXCEPT ![m] = Lease - age[d]]
          /\ held' = [held EXCEPT ![d] = @ \cup {m}]
          /\ seen' = [seen EXCEPT ![d][m] = attempts[m]]
      BY <2>1, <2>3 DEF Claims
    <3>2. TableOK'
      BY <1>3, <3>1, <2>1, <2>2 DEF PendingClaim, TableOK
    <3>3. RunsOK'
      <4>1. cand' \in [Dispatcher -> SUBSET Msg] /\ held' \in [Dispatcher -> SUBSET Msg]
        BY <3>1, <2>1 DEF RunsOK
      <4>2. seen' \in [Dispatcher -> [Msg -> Nat]]
        BY <3>1, <2>1 DEF RunsOK, TableOK
      <4> QED BY <1>3, <4>1, <4>2 DEF PendingClaim, RunsOK
    <3>4. SweepsOK'
      BY <1>3 DEF PendingClaim, SweepsOK
    <3>5. LanesOK'
      <4>1. \A c \in Dispatcher : cand'[c] \subseteq cand[c] /\ held[c] \subseteq held'[c]
        BY <3>1 DEF RunsOK
      <4>2. UNCHANGED <<started, stage>>
        BY <1>3 DEF PendingClaim
      <4> QED BY <4>1, <4>2 DEF LanesOK
    <3> QED BY <3>2, <3>3, <3>4, <3>5
  <2>4. CASE ~Due(m)
    <3>1. cand' = [cand EXCEPT ![d] = @ \ {m}] /\ UNCHANGED <<wait, held, seen>>
      BY <1>3, <2>1, <2>4 DEF PendingClaim, Claims
    <3>2. TableOK' /\ SweepsOK'
      BY <1>3, <3>1 DEF PendingClaim, TableOK, SweepsOK
    <3>3. RunsOK'
      BY SMT, <1>3, <3>1 DEF PendingClaim, RunsOK
    <3>4. LanesOK'
      <4>1. \A c \in Dispatcher : cand'[c] \subseteq cand[c]
        BY <3>1 DEF RunsOK
      <4> QED BY <1>3, <3>1, <4>1 DEF PendingClaim, LanesOK
    <3> QED BY <3>2, <3>3, <3>4
  <2> QED BY <2>3, <2>4
<1>4. ASSUME NEW d \in Dispatcher, StartLane(d) PROVE TableOK' /\ RunsOK' /\ LanesOK' /\ SweepsOK'
  <2>1. TableOK' /\ SweepsOK'
    BY <1>4 DEF TableOK, SweepsOK, StartLane
  <2>2. RunsOK'
    BY <1>4 DEF RunsOK, StartLane
  <2>3. LanesOK'
    <3>1. PICK m \in Msg : started' = [started EXCEPT ![d] = @ \cup (held[d] \cap Lane(m))]
      BY <1>4, LaneStep
    <3>2. /\ started'[d] = started[d] \cup (held[d] \cap Lane(m))
          /\ \A c \in Dispatcher : c # d => started'[c] = started[c]
      BY <3>1 DEF RunsOK
    <3>3. cand[d] = {} /\ UNCHANGED <<cand, held, stage>>
      BY <1>4 DEF StartLane
    <3> QED BY <3>2, <3>3 DEF LanesOK
  <2> QED BY <2>1, <2>2, <2>3
<1>5. ASSUME NEW d \in Dispatcher, NEW m \in Msg, RecordAttempt(d, m) PROVE TableOK' /\ RunsOK' /\ LanesOK' /\ SweepsOK'
  <2>1. TableOK' /\ SweepsOK'
    BY SMT, <1>5, FaultType DEF TableOK, SweepsOK, RecordAttempt
  <2>2. CASE Release(d, Lane(m))
    <3>1. RunsOK' /\ LanesOK'
      BY <1>5, <2>2, ReleaseRunsOK DEF RecordAttempt
    <3> QED BY <2>1, <3>1
  <2>3. CASE /\ stage' = [stage EXCEPT ![d][m] = "Publish"]
             /\ UNCHANGED <<held, started, seen>>
    <3>1. RunsOK'
      BY <1>5, <2>3 DEF RecordAttempt, RunsOK, Stage
    <3>2. LanesOK'
      <4>1. m \in started[d] /\ UNCHANGED <<cand, held, started>>
        BY <1>5, <2>3 DEF RecordAttempt, AtHead, Oldest
      <4>2. \A c \in Dispatcher, n \in Msg : (c = d /\ n = m) \/ stage'[c][n] = stage[c][n]
        BY SMT, <2>3, StageEffect
      <4>3. ASSUME NEW c \in Dispatcher, NEW n \in Msg, n \notin started[c]
            PROVE  stage'[c][n] = "Record"
        <5>1. ~(c = d /\ n = m) /\ stage[c][n] = "Record"
          BY <4>1, <4>3 DEF LanesOK
        <5> QED BY <4>2, <5>1
      <4>4. started' = started /\ held' = held /\ cand' = cand
        BY <4>1
      <4> QED BY <4>3, <4>4 DEF LanesOK
    <3> QED BY <2>1, <3>1, <3>2
  <2> QED BY <1>5, <2>2, <2>3 DEF RecordAttempt
<1>6. ASSUME NEW d \in Dispatcher, NEW m \in Msg, Publish(d, m) PROVE TableOK' /\ RunsOK' /\ LanesOK' /\ SweepsOK'
  <2>1. TableOK' /\ SweepsOK'
    BY SMT, <1>6 DEF TableOK, SweepsOK, Publish
  <2>2. PICK st \in Stage : stage' = [stage EXCEPT ![d][m] = st]
    <3>1. \A n, kind : DecideFor(n, kind) \in Stage
      BY DEF DecideFor, Stage
    <3>2. "MarkPublished" \in Stage
      BY DEF Stage
    <3> QED BY <1>6, <3>1, <3>2 DEF Publish
  <2>3. RunsOK'
    BY <1>6, <2>2 DEF Publish, RunsOK
  <2>4. LanesOK'
    BY SMT, <1>6, <2>2, StageEffect DEF Publish, LanesOK, AtHead
  <2> QED BY <2>1, <2>3, <2>4
<1>7. ASSUME NEW d \in Dispatcher, NEW m \in Msg, MarkPublished(d, m) PROVE TableOK' /\ RunsOK' /\ LanesOK' /\ SweepsOK'
  <2>1. RunsOK' /\ LanesOK'
    BY <1>7, ReleaseRunsOK DEF MarkPublished
  <2>2. TableOK' /\ SweepsOK'
    BY <1>7, FaultType DEF TableOK, SweepsOK, MarkPublished, Status
  <2> QED BY <2>1, <2>2
<1>8. ASSUME NEW d \in Dispatcher, NEW m \in Msg, ScheduleRetry(d, m) PROVE TableOK' /\ RunsOK' /\ LanesOK' /\ SweepsOK'
  <2>1. RunsOK' /\ LanesOK'
    BY <1>8, ReleaseRunsOK DEF ScheduleRetry
  <2>2. TableOK' /\ SweepsOK'
    BY <1>8, FaultType DEF TableOK, SweepsOK, ScheduleRetry
  <2> QED BY <2>1, <2>2
<1>9. ASSUME NEW d \in Dispatcher, NEW m \in Msg, MarkFailed(d, m) PROVE TableOK' /\ RunsOK' /\ LanesOK' /\ SweepsOK'
  <2>1. RunsOK' /\ LanesOK'
    BY <1>9, ReleaseRunsOK DEF MarkFailed
  <2>2. TableOK' /\ SweepsOK'
    BY <1>9, FaultType DEF TableOK, SweepsOK, MarkFailed, Status
  <2> QED BY <2>1, <2>2
<1>10. ASSUME NEW d \in Dispatcher, Crash(d) PROVE TableOK' /\ RunsOK' /\ LanesOK' /\ SweepsOK'
  <2>1. RunsOK' /\ LanesOK'
    BY <1>10, ReleaseRunsOK DEF Crash
  <2>2. TableOK' /\ SweepsOK'
    BY <1>10, FaultType DEF TableOK, SweepsOK, Crash
  <2> QED BY <2>1, <2>2
<1>11. ASSUME NEW s \in Sweeper, SweepScan(s) PROVE TableOK' /\ RunsOK' /\ LanesOK' /\ SweepsOK'
  <2>1. TableOK' /\ RunsOK' /\ LanesOK'
    BY <1>11 DEF TableOK, RunsOK, LanesOK, SweepScan
  <2>2. s \notin parking
    BY <1>11 DEF SweepScan, SweepsOK
  <2>3. SweepsOK'
    <3>1. PICK R : (\A m \in R : m \in Msg) /\ batch' = [batch EXCEPT ![s] = R]
      BY <1>11, SweepScanStep
    <3> QED BY <1>11, <2>2, <3>1 DEF SweepsOK, SweepScan
  <2> QED BY <2>1, <2>3
<1>12. ASSUME NEW s \in Sweeper, SweepPark(s) PROVE TableOK' /\ RunsOK' /\ LanesOK' /\ SweepsOK'
  <2>1. RunsOK' /\ LanesOK'
    BY <1>12 DEF RunsOK, LanesOK, SweepPark
  <2>2. TableOK' /\ SweepsOK'
    BY SMT, <1>12, FaultType DEF TableOK, SweepsOK, SweepPark
  <2> QED BY <2>1, <2>2
<1>13. ASSUME NEW s \in Sweeper, SweepMark(s) PROVE TableOK' /\ RunsOK' /\ LanesOK' /\ SweepsOK'
  <2>1. RunsOK' /\ LanesOK'
    BY <1>13 DEF RunsOK, LanesOK, SweepMark
  <2>2. TableOK' /\ SweepsOK'
    BY SMT, <1>13, FaultType DEF TableOK, SweepsOK, SweepMark, Status
  <2> QED BY <2>1, <2>2
<1>14. CASE Tick
  <2>1. TableOK' /\ SweepsOK'
    BY SMT, <1>14 DEF TableOK, SweepsOK, Tick
  <2>2. RunsOK'
    BY SMT, <1>14 DEF RunsOK, Tick
  <2>3. LanesOK'
    BY <1>14 DEF RunsOK, LanesOK, Tick
  <2> QED BY <2>1, <2>2, <2>3
<1>15. CASE UNCHANGED vars
  BY <1>15 DEF TableOK, RunsOK, LanesOK, SweepsOK, vars
<1> QED
  BY <1>1, <1>2, <1>3, <1>4, <1>5, <1>6, <1>7, <1>8, <1>9, <1>10, <1>11, <1>12,
     <1>13, <1>14, <1>15 DEF Next, Dispatch, DispatchOne, Sweep

\* The table, the claims and the runs always have their types.
THEOREM TypeCorrect == Spec => []TypeOK
BY InitTypeOK, NextTypeOK, PTL DEF Spec

-----------------------------------------------------------------------------
(* No message is dropped *)

\* What the steps still to come rely on: a message that is to be marked
\* published was accepted, a row that is to be marked dead-lettered was parked.
DroppedInv ==
  /\ NothingDropped
  /\ \A d \in Dispatcher, m \in Msg : stage[d][m] = "MarkPublished" => copies[m] > 0
  /\ \A s \in parking : \A m \in Oldest(batch[s]) : parked[m] > 0

LEMMA InitDropped == Init => DroppedInv
BY SMT DEF Init, DroppedInv, NothingDropped, Stage

LEMMA NextDropped == TypeOK /\ DroppedInv /\ [Next]_vars => DroppedInv'
<1> SUFFICES ASSUME TableOK, RunsOK, SweepsOK, DroppedInv, [Next]_vars
             PROVE  DroppedInv'
  BY DEF TypeOK
<1> USE DEF store, run, sweep, DroppedInv, NothingDropped
<1>1. ASSUME NEW m \in Msg, Insert(m) PROVE DroppedInv'
  BY <1>1 DEF TableOK, Insert
<1>2. ASSUME NEW d \in Dispatcher, PendingScan(d) PROVE DroppedInv'
  BY <1>2 DEF PendingScan
<1>3. ASSUME NEW d \in Dispatcher, PendingClaim(d) PROVE DroppedInv'
  BY <1>3 DEF PendingClaim
<1>4. ASSUME NEW d \in Dispatcher, StartLane(d) PROVE DroppedInv'
  BY <1>4 DEF StartLane
<1>5. ASSUME NEW d \in Dispatcher, NEW m \in Msg, RecordAttempt(d, m) PROVE DroppedInv'
  <2>1. \A c \in Dispatcher, n \in Msg :
          stage'[c][n] = "MarkPublished" => stage[c][n] = "MarkPublished"
    <3>1. CASE stage' = [stage EXCEPT ![d][m] = "Publish"]
      BY SMT, <3>1, StageEffect
    <3>2. CASE Release(d, Lane(m))
      BY <3>2, ReleaseEffect
    <3> QED BY <1>5, <3>1, <3>2 DEF RecordAttempt
  <2> QED BY <1>5, <2>1 DEF RecordAttempt
<1>6. ASSUME NEW d \in Dispatcher, NEW m \in Msg, Publish(d, m) PROVE DroppedInv'
  <2>1. \A n \in Msg : copies'[n] >= copies[n] /\ copies'[n] \in Nat /\ copies[n] \in Nat
    BY SMT, <1>6 DEF Publish, TableOK
  <2>2. \A c \in Dispatcher, n \in Msg :
          stage'[c][n] = "MarkPublished" => stage[c][n] = "MarkPublished" \/ copies'[n] > 0
    <3>1. CASE /\ copies' = [copies EXCEPT ![m] = @ + 1]
               /\ stage' = [stage EXCEPT ![d][m] = "MarkPublished"]
      <4>1. copies'[m] > 0
        BY SMT, <3>1 DEF TableOK
      <4> QED BY SMT, <3>1, <4>1, StageEffect
    <3>2. ASSUME NEW kind \in PublishFaults[m],
                 stage' = [stage EXCEPT ![d][m] = DecideFor(seen[d][m] + 1, kind)]
          PROVE  \A c \in Dispatcher, n \in Msg :
                   stage'[c][n] = "MarkPublished" => stage[c][n] = "MarkPublished"
      <4>1. DecideFor(seen[d][m] + 1, kind) # "MarkPublished"
        BY DEF DecideFor
      <4> QED BY SMT, <3>2, <4>1, StageEffect
    <3> QED BY <1>6, <3>1, <3>2 DEF Publish
  <2> QED BY SMT, <1>6, <2>1, <2>2 DEF Publish
<1>7. ASSUME NEW d \in Dispatcher, NEW m \in Msg, MarkPublished(d, m) PROVE DroppedInv'
  <2>1. \A c \in Dispatcher, n \in Msg :
          stage'[c][n] = "MarkPublished" => stage[c][n] = "MarkPublished"
    BY <1>7, ReleaseEffect DEF MarkPublished
  <2> QED BY <1>7, <2>1 DEF MarkPublished, TableOK
<1>8. ASSUME NEW d \in Dispatcher, NEW m \in Msg, ScheduleRetry(d, m) PROVE DroppedInv'
  <2>1. \A c \in Dispatcher, n \in Msg :
          stage'[c][n] = "MarkPublished" => stage[c][n] = "MarkPublished"
    BY <1>8, ReleaseEffect DEF ScheduleRetry
  <2> QED BY <1>8, <2>1 DEF ScheduleRetry
<1>9. ASSUME NEW d \in Dispatcher, NEW m \in Msg, MarkFailed(d, m) PROVE DroppedInv'
  <2>1. \A c \in Dispatcher, n \in Msg :
          stage'[c][n] = "MarkPublished" => stage[c][n] = "MarkPublished"
    BY <1>9, ReleaseEffect DEF MarkFailed
  <2> QED BY <1>9, <2>1 DEF MarkFailed, TableOK
<1>10. ASSUME NEW d \in Dispatcher, Crash(d) PROVE DroppedInv'
  <2>1. \A c \in Dispatcher, n \in Msg :
          stage'[c][n] = "MarkPublished" => stage[c][n] = "MarkPublished"
    BY <1>10, ReleaseEffect DEF Crash
  <2> QED BY <1>10, <2>1 DEF Crash
<1>11. ASSUME NEW s \in Sweeper, SweepScan(s) PROVE DroppedInv'
  <2>1. s \notin parking
    BY <1>11 DEF SweepScan, SweepsOK
  <2> QED BY <1>11, <2>1 DEF SweepScan, SweepsOK
<1>12. ASSUME NEW s \in Sweeper, SweepPark(s) PROVE DroppedInv'
  <2>1. \A t \in Sweeper : Oldest(batch[t]) \subseteq Msg /\ batch[t] \subseteq Msg
    BY DEF SweepsOK, Oldest
  <2>3. ASSUME NEW m \in Oldest(batch[s]), parked' = [parked EXCEPT ![m] = @ + 1],
               parking' = parking \cup {s}, UNCHANGED batch
        PROVE  DroppedInv'
    <3>1. \A n \in Msg : parked'[n] >= parked[n] /\ parked'[n] \in Nat /\ parked[n] \in Nat
      BY SMT, <2>3 DEF TableOK
    <3>2. m \in Msg /\ parked'[m] > 0
      BY SMT, <2>1, <2>3 DEF TableOK
    <3>3. ASSUME NEW t \in parking', NEW n \in Oldest(batch[t]) PROVE parked'[n] > 0
      <4>1. CASE t = s
        <5>1. n = m
          BY <2>1, <4>1, OldestUnique
        <5> QED BY <3>2, <5>1
      <4>2. CASE t \in parking
        <5>1. n \in Msg /\ parked[n] > 0
          BY <2>1, <4>2 DEF DroppedInv, SweepsOK
        <5> QED BY SMT, <3>1, <5>1
      <4> QED BY <2>3, <4>1, <4>2
    <3>4. NothingDropped'
      BY SMT, <1>12, <3>1 DEF SweepPark, TableOK
    <3> QED BY <1>12, <2>3, <3>3, <3>4 DEF SweepPark
  <2>4. CASE /\ batch' = [batch EXCEPT ![s] = {}]
             /\ UNCHANGED <<parked, parking>>
    BY <1>12, <2>4 DEF SweepPark, SweepsOK
  <2> QED BY <1>12, <2>3, <2>4 DEF SweepPark
<1>13. ASSUME NEW s \in Sweeper, SweepMark(s) PROVE DroppedInv'
  <2>1. \A t \in parking' : t # s /\ t \in parking /\ batch'[t] = batch[t]
    BY <1>13 DEF SweepMark, SweepsOK
  <2>2. NothingDropped'
    BY <1>13 DEF SweepMark, TableOK
  <2> QED BY <1>13, <2>1, <2>2 DEF SweepMark
<1>14. CASE Tick
  BY <1>14 DEF Tick
<1>15. CASE UNCHANGED vars
  BY <1>15 DEF vars
<1> QED
  BY <1>1, <1>2, <1>3, <1>4, <1>5, <1>6, <1>7, <1>8, <1>9, <1>10, <1>11, <1>12,
     <1>13, <1>14, <1>15 DEF Next, Dispatch, DispatchOne, Sweep

\* A row is `published` only if the broker accepted the message and
\* `dead_lettered` only if the dead-letter queue did.
THEOREM NoMessageDropped == Spec => []NothingDropped
<1>1. Init => TypeOK /\ DroppedInv
  BY InitTypeOK, InitDropped
<1>2. TypeOK /\ DroppedInv /\ [Next]_vars => (TypeOK /\ DroppedInv)'
  BY NextTypeOK, NextDropped
<1>3. DroppedInv => NothingDropped
  BY DEF DroppedInv
<1> QED BY <1>1, <1>2, <1>3, PTL DEF Spec

-----------------------------------------------------------------------------
(* No message is given up early *)

Exhausted(m) == "Poison" \in PublishFaults[m] \/ attempts[m] >= MaxAttempts

\* A claimed copy never counts more attempts than its row, and one fewer once
\* the attempt is recorded; whoever is to give a row up has seen it exhausted.
BudgetInv ==
  /\ \A m \in Msg : status[m] \in {"Failed", "DeadLettered"} => Exhausted(m)
  /\ \A d \in Dispatcher, m \in Msg :
       /\ seen[d][m] <= attempts[m]
       /\ stage[d][m] # "Record" => seen[d][m] + 1 <= attempts[m]
       /\ stage[d][m] = "MarkFailed" => Exhausted(m)
  /\ \A s \in Sweeper : \A m \in batch[s] : Exhausted(m)

LEMMA InitBudget == Init => BudgetInv
BY SMT DEF Init, BudgetInv, Stage

\* A step that adds no attempts to claimed copies, moves no message on and
\* gives no row up keeps the budget.
LEMMA BudgetKept ==
  ASSUME TypeOK, BudgetInv, TypeOK',
         \A m \in Msg : attempts'[m] >= attempts[m],
         \A m \in Msg : status'[m] \in {"Failed", "DeadLettered"} =>
                          status[m] \in {"Failed", "DeadLettered"} \/ Exhausted(m),
         \A d \in Dispatcher, m \in Msg :
           \/ stage'[d][m] = "Record" /\ seen'[d][m] = 0
           \/ stage'[d][m] = stage[d][m] /\ seen'[d][m] = seen[d][m],
         \A s \in Sweeper : \A m \in batch'[s] :
            m \in batch[s] \/ status[m] = "Failed"
  PROVE  BudgetInv'
<1>1. \A m \in Msg : attempts[m] \in Nat /\ attempts'[m] \in Nat /\ MaxAttempts \in Nat
  BY ConfigAssumption DEF TypeOK, TableOK
<1>2. \A m \in Msg : Exhausted(m) => Exhausted(m)'
  BY SMT, <1>1 DEF Exhausted
<1>3. \A d \in Dispatcher, m \in Msg : seen[d][m] \in Nat
  BY DEF TypeOK, RunsOK
<1>4. \A m \in Msg : status'[m] \in {"Failed", "DeadLettered"} => Exhausted(m)'
  BY <1>2 DEF BudgetInv
<1>5. \A d \in Dispatcher, m \in Msg :
       /\ seen'[d][m] <= attempts'[m]
       /\ stage'[d][m] # "Record" => seen'[d][m] + 1 <= attempts'[m]
       /\ stage'[d][m] = "MarkFailed" => Exhausted(m)'
  BY SMT, <1>1, <1>2, <1>3 DEF BudgetInv
<1>6. \A s \in Sweeper : \A m \in batch'[s] : Exhausted(m)'
  BY <1>2 DEF BudgetInv, TypeOK, SweepsOK
<1> QED BY <1>4, <1>5, <1>6 DEF BudgetInv

\* So does a step that leaves rows and claimed copies alone.
LEMMA BudgetQuiet ==
  ASSUME TypeOK, BudgetInv, TypeOK', UNCHANGED <<attempts, status, stage, seen>>,
         \A s \in Sweeper : \A m \in batch'[s] :
            m \in batch[s] \/ status[m] = "Failed"
  PROVE  BudgetInv'
<1>1. \A m \in Msg : attempts'[m] >= attempts[m]
  BY SMT DEF TypeOK, TableOK
<1>2. \A m \in Msg : status'[m] = status[m]
  OBVIOUS
<1>3. \A d \in Dispatcher, m \in Msg :
        stage'[d][m] = stage[d][m] /\ seen'[d][m] = seen[d][m]
  OBVIOUS
<1> QED BY <1>1, <1>2, <1>3, BudgetKept

\* So does a step that finishes with messages and fails only an exhausted row.
LEMMA BudgetRelease ==
  ASSUME TypeOK, BudgetInv, TypeOK', NEW d \in Dispatcher, NEW S, Release(d, S),
         UNCHANGED <<attempts, batch>>,
         \A m \in Msg : status'[m] \in {"Failed", "DeadLettered"} =>
                          status[m] \in {"Failed", "DeadLettered"} \/ Exhausted(m)
  PROVE  BudgetInv'
<1>1. \A m \in Msg : attempts'[m] >= attempts[m]
  BY SMT DEF TypeOK, TableOK
<1>2. \A c \in Dispatcher, m \in Msg :
        \/ stage'[c][m] = "Record" /\ seen'[c][m] = 0
        \/ stage'[c][m] = stage[c][m] /\ seen'[c][m] = seen[c][m]
  BY ReleaseEffect DEF TypeOK
<1> QED BY <1>1, <1>2, BudgetKept

LEMMA NextBudget == TypeOK /\ TypeOK' /\ BudgetInv /\ [Next]_vars => BudgetInv'
<1> SUFFICES ASSUME TypeOK, TypeOK', TableOK, RunsOK, LanesOK, SweepsOK,
                    BudgetInv, [Next]_vars
             PROVE  BudgetInv'
  BY DEF TypeOK
<1>b. /\ \A m \in Msg : attempts[m] \in Nat /\ attempts'[m] \in Nat
      /\ \A d \in Dispatcher, m \in Msg : seen[d][m] \in Nat /\ seen'[d][m] \in Nat
      /\ MaxAttempts \in Nat
  BY SMT, ConfigAssumption DEF TypeOK, TableOK, RunsOK
<1> USE DEF store, run, sweep
<1>1. ASSUME NEW m \in Msg, Insert(m) PROVE BudgetInv'
  <2>1. UNCHANGED <<attempts, stage, seen, batch>>
    BY <1>1 DEF Insert
  <2>2. \A n \in Msg : status'[n] \in {"Failed", "DeadLettered"} => status[n] = status'[n]
    BY <1>1 DEF Insert, TableOK
  <2>3. \A n \in Msg : attempts'[n] >= attempts[n]
    BY SMT, <2>1, <1>b
  <2> QED BY <2>1, <2>2, <2>3, BudgetKept
<1>2. ASSUME NEW d \in Dispatcher, PendingScan(d) PROVE BudgetInv'
  <2>1. UNCHANGED <<attempts, status, stage, seen, batch>>
    BY <1>2 DEF PendingScan
  <2> QED BY <2>1, BudgetQuiet
<1>3. ASSUME NEW d \in Dispatcher, PendingClaim(d) PROVE BudgetInv'
  <2>1. PICK m \in Msg : m \in cand[d] /\ Claims(d, m)
    BY <1>3, ClaimStep
  <2>2. CASE Due(m)
    <3>1. seen' = [seen EXCEPT ![d][m] = attempts[m]]
      BY <2>1, <2>2 DEF Claims
    <3>2. stage[d][m] = "Record"
      BY <2>1 DEF LanesOK
    <3>3. \A c \in Dispatcher, n \in Msg :
            \/ c = d /\ n = m /\ seen'[c][n] = attempts[n]
            \/ ~(c = d /\ n = m) /\ seen'[c][n] = seen[c][n]
      BY <3>1, <2>1 DEF RunsOK
    <3>4. UNCHANGED <<status, attempts, stage, batch>>
      BY <1>3 DEF PendingClaim
    <3> QED BY SMT, <1>b, <3>2, <3>3, <3>4 DEF BudgetInv, Exhausted
  <2>3. CASE ~Due(m)
    <3>1. UNCHANGED <<attempts, status, stage, seen, batch>>
      BY <1>3, <2>1, <2>3 DEF PendingClaim, Claims
    <3> QED BY <3>1, BudgetQuiet
  <2> QED BY <2>2, <2>3
<1>4. ASSUME NEW d \in Dispatcher, StartLane(d) PROVE BudgetInv'
  <2>1. UNCHANGED <<attempts, status, stage, seen, batch>>
    BY <1>4 DEF StartLane
  <2> QED BY <2>1, BudgetQuiet
<1>5. ASSUME NEW d \in Dispatcher, NEW m \in Msg, RecordAttempt(d, m) PROVE BudgetInv'
  <2>1. CASE /\ attempts' = [attempts EXCEPT ![m] = @ + 1]
             /\ stage' = [stage EXCEPT ![d][m] = "Publish"]
             /\ UNCHANGED seen
    <3>1. UNCHANGED <<status, batch>>
      BY <1>5 DEF RecordAttempt
    <3>2. attempts'[m] = attempts[m] + 1 /\ \A n \in Msg : attempts'[n] >= attempts[n]
      BY SMT, <2>1, <1>b DEF TableOK
    <3>3. \A n \in Msg : Exhausted(n) => Exhausted(n)'
      BY SMTT(60), <3>2, <1>b DEF Exhausted
    <3>4. \A c \in Dispatcher, n \in Msg :
            \/ c = d /\ n = m /\ stage'[c][n] = "Publish"
            \/ ~(c = d /\ n = m) /\ stage'[c][n] = stage[c][n]
      <4>1. stage' = [stage EXCEPT ![d][m] = "Publish"]
        BY <2>1
      <4> HIDE DEF store, run, sweep
      <4> QED BY <4>1 DEF RunsOK
    <3>5. \A c \in Dispatcher, n \in Msg :
           /\ seen'[c][n] <= attempts'[n]
           /\ stage'[c][n] # "Record" => seen'[c][n] + 1 <= attempts'[n]
           /\ stage'[c][n] = "MarkFailed" => Exhausted(n)'
      BY SMT, <2>1, <3>2, <3>3, <3>4, <1>b DEF BudgetInv
    <3>6. \A s \in Sweeper : \A n \in batch'[s] : Exhausted(n)'
      BY <3>1, <3>3 DEF BudgetInv, SweepsOK
    <3>7. \A n \in Msg : status'[n] \in {"Failed", "DeadLettered"} => Exhausted(n)'
      BY <3>1, <3>3 DEF BudgetInv
    <3> QED BY <3>5, <3>6, <3>7 DEF BudgetInv
  <2>2. CASE Release(d, Lane(m)) /\ UNCHANGED attempts
    <3>1. UNCHANGED <<status, batch>>
      BY <1>5 DEF RecordAttempt
    <3> QED BY <2>2, <3>1, BudgetRelease
  <2> QED BY <1>5, <2>1, <2>2 DEF RecordAttempt
<1>6. ASSUME NEW d \in Dispatcher, NEW m \in Msg, Publish(d, m) PROVE BudgetInv'
  <2>1. UNCHANGED <<status, attempts, seen, batch>> /\ stage[d][m] = "Publish"
    BY <1>6 DEF Publish
  <2>2. seen[d][m] + 1 <= attempts[m]
    BY <2>1 DEF BudgetInv
  <2>3. \A c \in Dispatcher, n \in Msg :
          /\ stage'[c][n] = "MarkFailed" => stage[c][n] = "MarkFailed" \/ Exhausted(n)
          /\ stage'[c][n] # "Record" => stage[c][n] # "Record"
    <3>1. CASE stage' = [stage EXCEPT ![d][m] = "MarkPublished"]
      BY SMT, <2>1, <3>1, StageEffect
    <3>2. ASSUME NEW kind \in PublishFaults[m],
                 stage' = [stage EXCEPT ![d][m] = DecideFor(seen[d][m] + 1, kind)]
          PROVE  \A c \in Dispatcher, n \in Msg :
                   /\ stage'[c][n] = "MarkFailed" => stage[c][n] = "MarkFailed" \/ Exhausted(n)
                   /\ stage'[c][n] # "Record" => stage[c][n] # "Record"
      <4>1. DecideFor(seen[d][m] + 1, kind) = "MarkFailed" => Exhausted(m)
        BY SMTT(30), <2>2, <1>b, ConfigAssumption DEF DecideFor, Exhausted
      <4> QED BY SMT, <2>1, <3>2, <4>1, StageEffect
    <3> QED BY <1>6, <3>1, <3>2 DEF Publish
  <2> QED BY <2>1, <2>3, <1>b DEF BudgetInv, Exhausted
<1>7. ASSUME NEW d \in Dispatcher, NEW m \in Msg, MarkPublished(d, m) PROVE BudgetInv'
  <2>1. UNCHANGED <<attempts, batch>> /\ \E S : Release(d, S)
    BY <1>7 DEF MarkPublished
  <2>2. \A n \in Msg : status'[n] \in {"Failed", "DeadLettered"} => status[n] = status'[n]
    BY <1>7 DEF MarkPublished, TableOK
  <2> QED BY <2>1, <2>2, BudgetRelease
<1>8. ASSUME NEW d \in Dispatcher, NEW m \in Msg, ScheduleRetry(d, m) PROVE BudgetInv'
  <2>1. UNCHANGED <<attempts, status, batch>> /\ Release(d, Lane(m))
    BY <1>8 DEF ScheduleRetry
  <2> QED BY <2>1, BudgetRelease
<1>9. ASSUME NEW d \in Dispatcher, NEW m \in Msg, MarkFailed(d, m) PROVE BudgetInv'
  <2>1. Exhausted(m)
    BY <1>9 DEF MarkFailed, BudgetInv
  <2>2. UNCHANGED <<attempts, batch>> /\ \E S : Release(d, S)
    BY <1>9 DEF MarkFailed
  <2>3. \A n \in Msg : status'[n] \in {"Failed", "DeadLettered"} =>
                         status[n] \in {"Failed", "DeadLettered"} \/ Exhausted(n)
    BY <1>9, <2>1 DEF MarkFailed, TableOK
  <2> QED BY <2>2, <2>3, BudgetRelease
<1>10. ASSUME NEW d \in Dispatcher, Crash(d) PROVE BudgetInv'
  <2>1. UNCHANGED <<attempts, status, batch>> /\ Release(d, Msg)
    BY <1>10 DEF Crash
  <2> QED BY <2>1, BudgetRelease
<1>11. ASSUME NEW s \in Sweeper, SweepScan(s) PROVE BudgetInv'
  <2>1. \A t \in Sweeper : \A m \in batch'[t] : m \in batch[t] \/ status[m] = "Failed"
    BY <1>11, SweepScanStep DEF SweepsOK
  <2>2. UNCHANGED <<attempts, status, stage, seen>>
    BY <1>11 DEF SweepScan
  <2> QED BY <2>1, <2>2, BudgetQuiet
<1>12. ASSUME NEW s \in Sweeper, SweepPark(s) PROVE BudgetInv'
  <2>1. \A t \in Sweeper : batch'[t] \subseteq batch[t]
    BY <1>12 DEF SweepPark, SweepsOK
  <2>2. UNCHANGED <<attempts, status, stage, seen>>
    BY <1>12 DEF SweepPark
  <2> QED BY <2>1, <2>2, BudgetQuiet
<1>13. ASSUME NEW s \in Sweeper, SweepMark(s) PROVE BudgetInv'
  <2>1. \A t \in Sweeper : batch'[t] \subseteq batch[t]
    BY <1>13 DEF SweepMark, SweepsOK
  <2>2. PICK x \in Msg : x \in batch[s] /\ (status' = status \/ status' = [status EXCEPT ![x] = "DeadLettered"])
    BY <1>13, MarkStep
  <2>3. Exhausted(x)
    BY <2>2 DEF BudgetInv
  <2>4. \A m \in Msg : status'[m] \in {"Failed", "DeadLettered"} =>
                         status[m] \in {"Failed", "DeadLettered"} \/ Exhausted(m)
    BY <2>2, <2>3 DEF TableOK
  <2> QED BY SMTT(30), <1>13, <2>1, <2>4, <1>b, BudgetKept DEF SweepMark
<1>14. CASE Tick
  <2>1. UNCHANGED <<attempts, status, stage, seen, batch>>
    BY <1>14 DEF Tick
  <2> QED BY <2>1, BudgetQuiet
<1>15. CASE UNCHANGED vars
  <2>1. UNCHANGED <<attempts, status, stage, seen, batch>>
    BY <1>15 DEF vars
  <2> QED BY <2>1, BudgetQuiet
<1> QED
  BY <1>1, <1>2, <1>3, <1>4, <1>5, <1>6, <1>7, <1>8, <1>9, <1>10, <1>11, <1>12,
     <1>13, <1>14, <1>15 DEF Next, Dispatch, DispatchOne, Sweep

\* Without poison failures a row is `failed` or `dead_lettered` only when its
\* attempts have reached max_attempts.
THEOREM NoEarlyGiveUp == Spec => []BudgetSpent
<1>1. Init => TypeOK /\ BudgetInv
  BY InitTypeOK, InitBudget
<1>2. TypeOK /\ BudgetInv /\ [Next]_vars => (TypeOK /\ BudgetInv)'
  BY NextTypeOK, NextBudget
<1>3. BudgetInv => BudgetSpent
  BY DEF BudgetInv, BudgetSpent, Exhausted
<1> QED BY <1>1, <1>2, <1>3, PTL DEF Spec

-----------------------------------------------------------------------------
(* Leases are exclusive while runs are prompt *)

\* A run that is not idle is younger than its lease, the rows it holds are due
\* again exactly when that lease ends, and nobody else holds them.
LeaseInv ==
  /\ \A d \in Dispatcher : Idle(d) \/ age[d] < Lease
  /\ \A d \in Dispatcher : \A m \in held[d] : wait[m] = Lease - age[d]
  /\ \A c, d \in Dispatcher : c # d => held[c] \cap held[d] = {}

LEMMA InitLease == Init => LeaseInv
BY SMT DEF Init, LeaseInv, Idle, Scanning, Reader

\* Steps that neither claim a row, nor start a run, nor move the clock or a
\* row's next attempt, keep the leases exclusive.
LEMMA LeaseKept ==
  ASSUME RunsOK, LeaseInv, UNCHANGED age,
         \A d \in Dispatcher : cand'[d] \subseteq cand[d] /\ held'[d] \subseteq held[d],
         \A d \in Dispatcher : \A m \in held'[d] : wait'[m] = wait[m],
         \A d \in Dispatcher : cursor'[d] = cursor[d] \/ cursor'[d] = 1
  PROVE  LeaseInv'
<1>4. \A d \in Dispatcher : Scanning(d)' => Scanning(d)
  BY SMT DEF Scanning
<1>1. \A d \in Dispatcher : Idle(d)' \/ age'[d] < Lease
  BY <1>4 DEF LeaseInv, Idle
<1>2. \A d \in Dispatcher : \A m \in held'[d] : wait'[m] = Lease - age'[d]
  BY DEF LeaseInv
<1>3. \A c, d \in Dispatcher : c # d => held'[c] \cap held'[d] = {}
  BY DEF LeaseInv
<1> QED BY <1>1, <1>2, <1>3 DEF LeaseInv

LEMMA NextLease ==
  ASSUME Lease > 0
  PROVE  TypeOK /\ LeaseInv /\ overrun' = 0 /\ [Next]_vars => LeaseInv'
<1> SUFFICES ASSUME TableOK, RunsOK, LanesOK, SweepsOK, ScansOK, LeaseInv, overrun' = 0,
                    [Next]_vars
             PROVE  LeaseInv'
  BY DEF TypeOK
<1> USE ConfigAssumption DEF store, run, sweep
<1>1. ASSUME NEW m \in Msg, Insert(m) PROVE LeaseInv'
  BY <1>1, LeaseKept DEF Insert
<1>2. ASSUME NEW d \in Dispatcher, PendingScan(d) PROVE LeaseInv'
  <2>1. held[d] = {} /\ UNCHANGED <<held, wait>>
    BY <1>2 DEF PendingScan
  <2>2. \A c \in Dispatcher : c # d => age'[c] = age[c]
    BY <1>2 DEF PendingScan, RunsOK
  <2>3. \A c \in Dispatcher : c # d => cand'[c] = cand[c]
    BY <1>2 DEF PendingScan, RunsOK
  <2>4. \A c \in Dispatcher : c # d => cursor'[c] = cursor[c]
    BY <1>2, ReadStep DEF PendingScan, Reader
  <2>5. age'[d] < Lease
    <3>1. CASE Scanning(d)
      BY <1>2, <3>1 DEF PendingScan, LeaseInv, Idle
    <3>2. CASE ~Scanning(d)
      BY <1>2, <3>2 DEF PendingScan, RunsOK
    <3> QED BY <3>1, <3>2
  <2>6. \A c \in Dispatcher : Idle(c)' \/ age'[c] < Lease
    BY <2>1, <2>2, <2>3, <2>4, <2>5 DEF LeaseInv, Idle, Scanning
  <2>7. \A c \in Dispatcher : \A m \in held'[c] : wait'[m] = Lease - age'[c]
    BY <2>1, <2>2 DEF LeaseInv
  <2> QED BY <2>1, <2>6, <2>7 DEF LeaseInv
<1>3. ASSUME NEW d \in Dispatcher, PendingClaim(d) PROVE LeaseInv'
  <2>1. PICK m \in Msg : m \in cand[d] /\ Claims(d, m)
    BY <1>3, ClaimStep
  <2>2. UNCHANGED <<age, cursor>> /\ cand[d] # {} /\ age[d] < Lease
    BY <1>3, <2>1 DEF PendingClaim, LeaseInv, Idle
  <2>3. CASE Due(m)
    <3>1. /\ cand' = [cand EXCEPT ![d] = @ \ {m}]
          /\ wait' = [wait EXCEPT ![m] = Lease - age[d]]
          /\ held' = [held EXCEPT ![d] = @ \cup {m}]
      BY <1>3, <2>1, <2>3 DEF PendingClaim, Claims
    <3>2. \A c \in Dispatcher : m \notin held[c]
      <4>1. ASSUME NEW c \in Dispatcher, m \in held[c] PROVE FALSE
        <5>1. wait[m] = Lease - age[c] /\ age[c] < Lease
          BY <4>1 DEF LeaseInv, Idle
        <5>2. wait[m] = 0 /\ age[c] \in Nat
          BY SMT, <2>3 DEF Due, RunsOK
        <5> QED BY SMT, <5>1, <5>2
      <4> QED BY <4>1
    <3>3. \A c \in Dispatcher : held'[c] = IF c = d THEN held[c] \cup {m} ELSE held[c]
      BY <3>1 DEF RunsOK
    <3>4. \A n \in Msg : wait'[n] = IF n = m THEN Lease - age[d] ELSE wait[n]
      BY <3>1, <2>1 DEF TableOK
    <3>5. \A c \in Dispatcher : Idle(c)' \/ age'[c] < Lease
      <4>1. \A c \in Dispatcher : c # d => cand'[c] = cand[c]
        BY <3>1 DEF RunsOK
      <4> QED BY <2>2, <3>3, <4>1 DEF LeaseInv, Idle, Scanning
    <3>6. \A c \in Dispatcher : \A n \in held'[c] : wait'[n] = Lease - age'[c]
      <4>1. ASSUME NEW c \in Dispatcher, NEW n \in held[c] PROVE wait'[n] = Lease - age'[c]
        <5>1. n \in Msg /\ n # m
          BY <3>2 DEF RunsOK
        <5> QED BY <2>2, <3>4, <5>1 DEF LeaseInv
      <4>2. wait'[m] = Lease - age'[d]
        BY <2>1, <2>2, <3>4
      <4> QED BY <3>3, <4>1, <4>2
    <3>7. \A b, c \in Dispatcher : b # c => held'[b] \cap held'[c] = {}
      BY ZenonT(30), <3>2, <3>3 DEF LeaseInv
    <3> QED BY <3>5, <3>6, <3>7 DEF LeaseInv
  <2>4. CASE ~Due(m)
    <3>1. cand' = [cand EXCEPT ![d] = @ \ {m}] /\ UNCHANGED <<wait, held>>
      BY <1>3, <2>1, <2>4 DEF PendingClaim, Claims
    <3>2. \A c \in Dispatcher : cand'[c] \subseteq cand[c]
      BY <3>1 DEF RunsOK
    <3> QED BY <2>2, <3>1, <3>2, LeaseKept
  <2> QED BY <2>3, <2>4
<1>4. ASSUME NEW d \in Dispatcher, StartLane(d) PROVE LeaseInv'
  BY <1>4, LeaseKept DEF StartLane
<1>5. ASSUME NEW d \in Dispatcher, NEW m \in Msg, RecordAttempt(d, m) PROVE LeaseInv'
  <2>1. \A c \in Dispatcher : held'[c] \subseteq held[c]
    BY <1>5, ReleaseEffect DEF RecordAttempt
  <2> QED BY <1>5, <2>1, LeaseKept DEF RecordAttempt
<1>6. ASSUME NEW d \in Dispatcher, NEW m \in Msg, Publish(d, m) PROVE LeaseInv'
  BY <1>6, LeaseKept DEF Publish
<1>7. ASSUME NEW d \in Dispatcher, NEW m \in Msg, MarkPublished(d, m) PROVE LeaseInv'
  <2>1. \A c \in Dispatcher : held'[c] \subseteq held[c]
    BY <1>7, ReleaseEffect DEF MarkPublished
  <2> QED BY <1>7, <2>1, LeaseKept DEF MarkPublished
<1>8. ASSUME NEW d \in Dispatcher, NEW m \in Msg, ScheduleRetry(d, m) PROVE LeaseInv'
  <2>1. \A c \in Dispatcher : held'[c] \subseteq held[c]
    BY <1>8, ReleaseEffect DEF ScheduleRetry
  <2>2. m \in held[d] /\ m \in Lane(m)
    BY <1>8 DEF ScheduleRetry, AtHead, LanesOK, Lane
  <2>3. \A c \in Dispatcher : m \notin held'[c]
    <3>1. m \notin held'[d]
      BY <1>8, <2>2 DEF ScheduleRetry, Release, RunsOK
    <3> QED BY <2>1, <2>2, <3>1 DEF LeaseInv
  <2>4. \A n \in Msg : n # m => wait'[n] = wait[n]
    BY <1>8 DEF ScheduleRetry, TableOK
  <2>5. \A c \in Dispatcher : \A n \in held'[c] : wait'[n] = wait[n]
    BY <2>1, <2>3, <2>4 DEF RunsOK
  <2> QED BY <1>8, <2>1, <2>5, LeaseKept DEF ScheduleRetry
<1>9. ASSUME NEW d \in Dispatcher, NEW m \in Msg, MarkFailed(d, m) PROVE LeaseInv'
  <2>1. \A c \in Dispatcher : held'[c] \subseteq held[c]
    BY <1>9, ReleaseEffect DEF MarkFailed
  <2> QED BY <1>9, <2>1, LeaseKept DEF MarkFailed
<1>10. ASSUME NEW d \in Dispatcher, Crash(d) PROVE LeaseInv'
  <2>1. \A c \in Dispatcher : held'[c] \subseteq held[c]
    <3>1. Release(d, Msg)
      BY <1>10 DEF Crash
    <3> QED BY <3>1 DEF Release, RunsOK
  <2>2. \A c \in Dispatcher : cand'[c] \subseteq cand[c]
    BY <1>10 DEF Crash, RunsOK
  <2>3. \A c \in Dispatcher : cursor'[c] = cursor[c] \/ cursor'[c] = 1
    BY <1>10 DEF Crash, ScansOK, Reader
  <2> QED BY <1>10, <2>1, <2>2, <2>3, LeaseKept DEF Crash
<1>11. ASSUME NEW s \in Sweeper, SweepScan(s) PROVE LeaseInv'
  <2>1. \A d \in Dispatcher : cursor'[d] = cursor[d]
    BY <1>11, SweepCursor DEF Sweep
  <2> QED BY <1>11, <2>1, LeaseKept DEF SweepScan
<1>12. ASSUME NEW s \in Sweeper, SweepPark(s) PROVE LeaseInv'
  BY <1>12, LeaseKept DEF SweepPark
<1>13. ASSUME NEW s \in Sweeper, SweepMark(s) PROVE LeaseInv'
  BY <1>13, LeaseKept DEF SweepMark
<1>14. CASE Tick
  <2>1. \A d \in Dispatcher :
          /\ held'[d] = held[d] /\ cand'[d] \subseteq cand[d] /\ age[d] \in Nat
          /\ Idle(d) \/ (age[d] + 1 < Lease /\ age'[d] = age[d] + 1)
          /\ Idle(d) => age'[d] = age[d]
    BY SMT, <1>14 DEF Tick, RunsOK
  <2>0. UNCHANGED cursor
    BY <1>14 DEF Tick
  <2>2. \A d \in Dispatcher : Idle(d)' \/ age'[d] < Lease
    BY <2>0, <2>1 DEF Idle, Scanning
  <2>3. \A m \in Msg : wait[m] \in Nat /\ wait'[m] = IF wait[m] > 0 THEN wait[m] - 1 ELSE 0
    BY <1>14 DEF Tick, TableOK
  <2>4. ASSUME NEW d \in Dispatcher, NEW m \in held'[d] PROVE wait'[m] = Lease - age'[d]
    <3>1. m \in held[d] /\ m \in Msg /\ ~Idle(d)
      BY <2>1 DEF RunsOK, Idle
    <3>2. wait[m] = Lease - age[d]
      BY <3>1 DEF LeaseInv
    <3> QED BY SMT, <2>1, <2>3, <3>1, <3>2
  <2>5. \A c, d \in Dispatcher : c # d => held'[c] \cap held'[d] = {}
    BY <2>1 DEF LeaseInv
  <2> QED BY <2>2, <2>4, <2>5 DEF LeaseInv
<1>15. CASE UNCHANGED vars
  BY <1>15, LeaseKept DEF vars
<1> QED
  BY <1>1, <1>2, <1>3, <1>4, <1>5, <1>6, <1>7, <1>8, <1>9, <1>10, <1>11, <1>12,
     <1>13, <1>14, <1>15 DEF Next, Dispatch, DispatchOne, Sweep

\* As long as every run ends before its leases do, no two dispatchers hold the
\* same message under leases in force: the claim of pending() is exclusive for
\* any number of dispatchers, whatever fails and whoever crashes.
THEOREM ClaimsAreExclusive == Spec => []LeaseExclusive
<1>1. CASE Lease = 0
  <2>1. TypeOK => LeaseExclusive
    BY SMT, <1>1 DEF TypeOK, RunsOK, LeaseExclusive
  <2> QED BY <2>1, TypeCorrect, PTL
<1>2. CASE Lease > 0
  <2> DEFINE Inv == TypeOK /\ (overrun = 0 => LeaseInv)
  <2>1. Init => Inv
    BY InitTypeOK, InitLease
  <2>2. Inv /\ [Next]_vars => Inv'
    <3> SUFFICES ASSUME TypeOK, (overrun = 0 => LeaseInv), [Next]_vars
                 PROVE  TypeOK' /\ (overrun' = 0 => LeaseInv')
      OBVIOUS
    <3>1. TypeOK'
      BY NextTypeOK
    <3>2. ASSUME overrun' = 0 PROVE LeaseInv'
      <4>1. overrun = 0
        BY <3>2, OverrunStep DEF TypeOK
      <4> QED BY <1>2, <3>2, <4>1, NextLease
    <3> QED BY <3>1, <3>2
  <2>3. Inv => LeaseExclusive
    BY DEF LeaseInv, LeaseExclusive
  <2> QED BY <2>1, <2>2, <2>3, PTL DEF Spec
<1> QED BY SMT, <1>1, <1>2, ConfigAssumption

-----------------------------------------------------------------------------
(* One dispatcher keeps the order of a key until an attempt fails *)

\* One OutboxDispatcher runs.
Alone == \A c, d \in Dispatcher : c = d

\* An attempt at m is recorded and the broker has not answered yet.
Underway(m) == \E d \in Dispatcher : stage[d][m] = "Publish"

\* An attempt at m has failed.
FailedOnce(m) == attempts[m] > copies[m] + IF Underway(m) THEN 1 ELSE 0

\* Every recorded attempt was accepted, is under way or has failed, and who
\* schedules a retry or gives a row up has seen it fail.
AttemptInv ==
  /\ \A m \in Msg : attempts[m] >= copies[m] + IF Underway(m) THEN 1 ELSE 0
  /\ \A d \in Dispatcher, m \in Msg : stage[d][m] \in {"ScheduleRetry", "MarkFailed"} => FailedOnce(m)
  /\ \A m \in Msg : status[m] \in {"Failed", "DeadLettered"} => FailedOnce(m)
  /\ \A s \in Sweeper : \A m \in batch[s] : FailedOnce(m)

\* m has not been sent, no scan was past it when it was inserted, and nothing of
\* its key has held it up.
Undisturbed(m) ==
  copies[m] = 0 /\ m \notin missed /\ \A l \in Msg : l = m \/ (l < m /\ SameKey(m, l)) => ~FailedOnce(l)

\* The later message n of m's key does not get before it in d's run.
Behind(d, m, n) ==
  /\ stage[d][n] = "Record"
  /\ ~Scanning(d) /\ n \in cand[d] => m \in cand[d] \cup held[d]
  /\ n \in held[d] => m \in held[d]
  /\ n \in started[d] => m \in started[d]

\* The rows of a run are stored and picked or claimed, not both; the rows of a
\* sweep are stored.
PickedInv ==
  /\ \A d \in Dispatcher :
       /\ cand[d] \cap held[d] = {}
       /\ \A m \in cand[d] \cup held[d] : status[m] # "Absent"
  /\ \A s \in Sweeper : \A m \in batch[s] : status[m] # "Absent"

\* An undisturbed message is claimed or free, and everything later of its key
\* is behind it.
OrderInv ==
  \A m \in Msg : Undisturbed(m) =>
    /\ \A d \in Dispatcher : m \in held[d] \/ wait[m] = 0
    /\ \A n \in Msg : m < n /\ SameKey(m, n) =>
         /\ copies[n] = 0
         /\ status[n] # "Absent" => status[m] # "Absent"
         /\ \A d \in Dispatcher : Behind(d, m, n)

\* A scan finds an undisturbed message that is stored, or has not come to it.
Reached(d, m) ==
  Scanning(d) /\ status[m] # "Absent" => m \in cand[d] \/ ShardOf[m] >= cursor[d]
ReachedInv == \A m \in Msg : Undisturbed(m) => \A d \in Dispatcher : Reached(d, m)

\* A lane works on the first of its messages.
LEMMA HeadFirst ==
  ASSUME RunsOK, NEW d \in Dispatcher, NEW m \in Msg, NEW n \in Msg, AtHead(d, n),
         m < n, SameKey(m, n)
  PROVE  m \notin started[d]
<1> SUFFICES ASSUME m \in started[d] PROVE FALSE
  OBVIOUS
<1>1. m \in started[d] \cap Lane(n)
  BY DEF Lane, SameKey
<1>2. n <= m
  BY <1>1 DEF AtHead, Oldest
<1> QED BY SMT, <1>2, MsgAssumption

\* The ways a step treats the attempts at a message.
Accepts(m) ==
  /\ Underway(m) /\ ~Underway(m)' /\ attempts'[m] = attempts[m] /\ copies'[m] = copies[m] + 1
Records(m) ==
  /\ ~Underway(m) /\ Underway(m)' /\ attempts'[m] = attempts[m] + 1 /\ copies'[m] = copies[m]
Leaves(m) ==
  /\ Underway(m)' => Underway(m)
  /\ attempts'[m] = attempts[m] /\ copies'[m] = copies[m]

\* Whichever of the three it is, no failure is forgotten, and none is made up.
LEMMA AttemptSteps ==
  ASSUME TypeOK, TypeOK', NEW m \in Msg, Accepts(m) \/ Records(m) \/ Leaves(m),
         attempts[m] >= copies[m] + IF Underway(m) THEN 1 ELSE 0
  PROVE  /\ copies'[m] >= copies[m] /\ (FailedOnce(m) => FailedOnce(m)')
         /\ attempts'[m] >= copies'[m] + IF Underway(m)' THEN 1 ELSE 0
         /\ Leaves(m) /\ Underway(m) /\ ~Underway(m)' => FailedOnce(m)'
<1> DEFINE a == attempts[m]
           b == attempts'[m]
           k == copies[m]
           l == copies'[m]
           x == IF Underway(m) THEN 1 ELSE 0
           y == IF Underway(m)' THEN 1 ELSE 0
<1>1. a \in Nat /\ b \in Nat /\ k \in Nat /\ l \in Nat
  BY DEF TypeOK, TableOK
<1>2. x \in {0, 1} /\ y \in {0, 1} /\ a >= k + x
  OBVIOUS
<1>3. (FailedOnce(m) <=> a > k + x) /\ (FailedOnce(m)' <=> b > l + y)
  BY DEF FailedOnce
<1>4. \/ x = 1 /\ y = 0 /\ b = a /\ l = k + 1
      \/ x = 0 /\ y = 1 /\ b = a + 1 /\ l = k
      \/ (y = 1 => x = 1) /\ b = a /\ l = k
  <2>1. CASE Accepts(m)
    BY <2>1 DEF Accepts
  <2>2. CASE Records(m)
    BY <2>2 DEF Records
  <2>3. CASE Leaves(m)
    <3>1. 1 # 0
      BY SMT
    <3> QED BY <2>3, <3>1 DEF Leaves
  <2> QED BY <2>1, <2>2, <2>3
<1>5. Leaves(m) /\ Underway(m) /\ ~Underway(m)' => b = a /\ l = k /\ x = 1 /\ y = 0
  BY DEF Leaves
<1> HIDE DEF a, b, k, l, x, y
<1>6. l >= k /\ b >= l + y /\ (a > k + x => b > l + y)
  BY SMT, <1>1, <1>2, <1>4
<1>7. b = a /\ l = k /\ x = 1 /\ y = 0 => b > l + y
  BY SMT, <1>1, <1>2
<1> QED BY <1>3, <1>5, <1>6, <1>7 DEF a, b, k, l, x, y

LEMMA AttemptKept ==
  ASSUME TypeOK, TypeOK', AttemptInv,
         \A m \in Msg : Accepts(m) \/ Records(m) \/ Leaves(m),
         \A d \in Dispatcher, m \in Msg : stage'[d][m] \in {"ScheduleRetry", "MarkFailed"} =>
            \/ stage[d][m] \in {"ScheduleRetry", "MarkFailed"}
            \/ Leaves(m) /\ Underway(m) /\ ~Underway(m)',
         \A m \in Msg : status'[m] \in {"Failed", "DeadLettered"} =>
            status[m] \in {"Failed", "DeadLettered"} \/ FailedOnce(m),
         \A s \in Sweeper : \A m \in batch'[s] : m \in batch[s] \/ status[m] = "Failed"
  PROVE  /\ AttemptInv'
         /\ \A m \in Msg : copies'[m] >= copies[m] /\ (FailedOnce(m) => FailedOnce(m)')
<1>c. ASSUME NEW m \in Msg
      PROVE  /\ copies'[m] >= copies[m] /\ (FailedOnce(m) => FailedOnce(m)')
             /\ attempts'[m] >= copies'[m] + IF Underway(m)' THEN 1 ELSE 0
             /\ Leaves(m) /\ Underway(m) /\ ~Underway(m)' => FailedOnce(m)'
  <2>1. CASE Accepts(m)
    BY <2>1, AttemptSteps DEF AttemptInv
  <2>2. CASE Records(m)
    BY <2>2, AttemptSteps DEF AttemptInv
  <2>3. CASE Leaves(m)
    BY <2>3, AttemptSteps DEF AttemptInv
  <2> QED BY <2>1, <2>2, <2>3
<1>2. \A m \in Msg : copies'[m] >= copies[m] /\ (FailedOnce(m) => FailedOnce(m)')
  BY <1>c
<1>3. \A m \in Msg : attempts'[m] >= copies'[m] + IF Underway(m)' THEN 1 ELSE 0
  BY <1>c
<1>4. \A m \in Msg : Leaves(m) /\ Underway(m) /\ ~Underway(m)' => FailedOnce(m)'
  BY <1>c
<1>5. \A d \in Dispatcher, m \in Msg :
        stage'[d][m] \in {"ScheduleRetry", "MarkFailed"} => FailedOnce(m)'
  BY <1>2, <1>4 DEF AttemptInv
<1>6. \A m \in Msg : status'[m] \in {"Failed", "DeadLettered"} => FailedOnce(m)'
  BY <1>2 DEF AttemptInv
<1>7. \A s \in Sweeper : \A m \in batch'[s] : FailedOnce(m)'
  <2>1. \A s \in Sweeper : \A m \in batch'[s] : m \in Msg
    BY DEF TypeOK, SweepsOK
  <2>2. \A m \in Msg : status[m] = "Failed" => FailedOnce(m)
    BY DEF AttemptInv
  <2>3. \A s \in Sweeper : \A m \in batch[s] : FailedOnce(m)
    BY DEF AttemptInv
  <2> QED BY <1>2, <2>1, <2>2, <2>3
<1>8. AttemptInv'
  BY <1>3, <1>5, <1>6, <1>7 DEF AttemptInv
<1> QED BY <1>2, <1>8

\* A step that leaves the attempts and the stages alone.
LEMMA AttemptQuiet ==
  ASSUME TypeOK, TypeOK', AttemptInv, UNCHANGED <<attempts, copies>>,
         \A d \in Dispatcher, m \in Msg : stage'[d][m] \in {"Record", stage[d][m]},
         \A m \in Msg : status'[m] \in {"Failed", "DeadLettered"} =>
            status[m] \in {"Failed", "DeadLettered"} \/ FailedOnce(m),
         \A s \in Sweeper : \A m \in batch'[s] : m \in batch[s] \/ status[m] = "Failed"
  PROVE  /\ AttemptInv'
         /\ \A m \in Msg : copies'[m] >= copies[m] /\ (FailedOnce(m) => FailedOnce(m)')
<1>1. \A m \in Msg : Leaves(m)
  BY DEF Leaves, Underway
<1>2. \A d \in Dispatcher, m \in Msg : stage'[d][m] \in {"ScheduleRetry", "MarkFailed"} =>
        stage[d][m] \in {"ScheduleRetry", "MarkFailed"}
  OBVIOUS
<1> QED BY <1>1, <1>2, AttemptKept

\* The attempts after a step of the only dispatcher.
LEMMA NextAttempt ==
  ASSUME Alone, TypeOK, TypeOK', AttemptInv, [Next]_vars
  PROVE  /\ AttemptInv'
         /\ \A m \in Msg : copies'[m] >= copies[m] /\ (FailedOnce(m) => FailedOnce(m)')
<1> DEFINE Goal == /\ AttemptInv'
                   /\ \A m \in Msg : copies'[m] >= copies[m] /\ (FailedOnce(m) => FailedOnce(m)')
<1> SUFFICES Goal
  OBVIOUS
<1> HIDE DEF Goal
<1>a. TableOK /\ RunsOK /\ SweepsOK /\ SweepsOK'
  BY DEF TypeOK
<1>b. RunsOK
  BY DEF TypeOK
<1>q. ASSUME UNCHANGED <<attempts, copies, stage, status, batch>> PROVE Goal
  <2>1. \A d \in Dispatcher, m \in Msg : stage'[d][m] \in {"Record", stage[d][m]}
    BY <1>q
  <2>2. \A m \in Msg : status'[m] = status[m]
    BY <1>q
  <2>3. \A s \in Sweeper : \A m \in batch'[s] : m \in batch[s]
    BY <1>q
  <2> QED BY <1>q, <2>1, <2>2, <2>3, AttemptQuiet DEF Goal
<1>r. ASSUME NEW d \in Dispatcher, NEW S, Release(d, S), UNCHANGED <<attempts, copies, batch>>,
             \A m \in Msg : status'[m] \in {"Failed", "DeadLettered"} =>
               status[m] \in {"Failed", "DeadLettered"} \/ FailedOnce(m)
      PROVE  Goal
  <2>1. \A c \in Dispatcher, m \in Msg : stage'[c][m] \in {"Record", stage[c][m]}
    BY <1>a, <1>r, ReleaseEffect
  <2>2. \A s \in Sweeper : \A m \in batch'[s] : m \in batch[s]
    BY <1>r
  <2> QED BY <1>r, <2>1, <2>2, AttemptQuiet DEF Goal
<1>s. ASSUME NEW d \in Dispatcher, NEW x \in Msg, NEW st, stage' = [stage EXCEPT ![d][x] = st],
             UNCHANGED <<status, batch>>,
             \/ Accepts(x) \/ Records(x) \/ Leaves(x),
             \A m \in Msg \ {x} : attempts'[m] = attempts[m] /\ copies'[m] = copies[m],
             st \in {"ScheduleRetry", "MarkFailed"} => Leaves(x) /\ Underway(x) /\ ~Underway(x)'
      PROVE  Goal
  <2>1. \A c \in Dispatcher, n \in Msg :
           \/ c = d /\ n = x /\ stage'[c][n] = st
           \/ ~(c = d /\ n = x) /\ stage'[c][n] = stage[c][n]
    <3>1. stage' = [stage EXCEPT ![d][x] = st]
      BY <1>s
    <3> QED BY <1>b, <3>1 DEF RunsOK
  <2>2. \A m \in Msg : Accepts(m) \/ Records(m) \/ Leaves(m)
    <3>1. ASSUME NEW m \in Msg, m # x PROVE Leaves(m)
      BY <1>s, <2>1, <3>1 DEF Leaves, Underway
    <3> QED BY <1>s, <3>1
  <2>3. \A c \in Dispatcher, m \in Msg : stage'[c][m] \in {"ScheduleRetry", "MarkFailed"} =>
            \/ stage[c][m] \in {"ScheduleRetry", "MarkFailed"}
            \/ Leaves(m) /\ Underway(m) /\ ~Underway(m)'
    <3> DEFINE Fails(m) == Leaves(m) /\ Underway(m) /\ ~Underway(m)'
    <3>1. st \in {"ScheduleRetry", "MarkFailed"} => Fails(x)
      BY <1>s
    <3> HIDE DEF Fails
    <3>2. \A c \in Dispatcher, m \in Msg : stage'[c][m] \in {"ScheduleRetry", "MarkFailed"} =>
            stage[c][m] \in {"ScheduleRetry", "MarkFailed"} \/ Fails(m)
      BY <2>1, <3>1
    <3> QED BY <3>2 DEF Fails
  <2>4. \A m \in Msg : status'[m] = status[m]
    BY <1>s
  <2>5. \A s \in Sweeper : \A m \in batch'[s] : m \in batch[s]
    BY <1>s
  <2> QED BY <2>2, <2>3, <2>4, <2>5, AttemptKept DEF Goal
<1> USE DEF store, run, sweep
<1>1. ASSUME NEW m \in Msg, Insert(m) PROVE Goal
  <2>1. \A n \in Msg : status'[n] \in {status[n], "Pending"}
    BY <1>1, <1>a DEF Insert, TableOK
  <2>2. \A d \in Dispatcher, n \in Msg : stage'[d][n] \in {"Record", stage[d][n]}
    BY <1>1 DEF Insert
  <2>3. /\ UNCHANGED <<attempts, copies>>
        /\ \A s \in Sweeper : \A n \in batch'[s] : n \in batch[s]
        /\ \A n \in Msg : status'[n] \in {"Failed", "DeadLettered"} =>
             status[n] \in {"Failed", "DeadLettered"}
    BY <1>1, <2>1 DEF Insert
  <2> QED BY <2>2, <2>3, AttemptQuiet DEF Goal
<1>2. ASSUME NEW d \in Dispatcher, PendingScan(d) PROVE Goal
  BY <1>q, <1>2 DEF PendingScan
<1>3. ASSUME NEW d \in Dispatcher, PendingClaim(d) PROVE Goal
  BY <1>q, <1>3 DEF PendingClaim
<1>4. ASSUME NEW d \in Dispatcher, StartLane(d) PROVE Goal
  BY <1>q, <1>4 DEF StartLane
<1>5. ASSUME NEW d \in Dispatcher, NEW m \in Msg, RecordAttempt(d, m) PROVE Goal
  <2>1. CASE attempts' = [attempts EXCEPT ![m] = @ + 1] /\ stage' = [stage EXCEPT ![d][m] = "Publish"]
    <3>1. stage'[d][m] = "Publish" /\ stage[d][m] = "Record"
      <4>1. stage[d][m] = "Record"
        BY <1>5 DEF RecordAttempt
      <4> QED BY <1>b, <2>1, <4>1 DEF RunsOK
    <3>2. Underway(m)' /\ ~Underway(m)
      BY <3>1 DEF Underway, Alone
    <3>3. /\ attempts'[m] = attempts[m] + 1 /\ UNCHANGED <<copies, status, batch>>
          /\ \A n \in Msg \ {m} : attempts'[n] = attempts[n]
      BY <1>5, <1>a, <2>1 DEF RecordAttempt, TableOK
    <3>4. Records(m) /\ \A n \in Msg \ {m} : attempts'[n] = attempts[n] /\ copies'[n] = copies[n]
      BY <3>2, <3>3 DEF Records
    <3> QED BY <1>s, <2>1, <3>3, <3>4
  <2>2. CASE Release(d, Lane(m)) /\ UNCHANGED attempts
    <3>1. UNCHANGED <<status, copies, batch>>
      BY <1>5 DEF RecordAttempt
    <3> QED BY <1>r, <2>2, <3>1
  <2> QED BY <1>5, <2>1, <2>2 DEF RecordAttempt
<1>6. ASSUME NEW d \in Dispatcher, NEW m \in Msg, Publish(d, m) PROVE Goal
  <2>1. UNCHANGED <<attempts, status, batch>> /\ stage[d][m] = "Publish" /\ Underway(m)
    BY <1>6 DEF Publish, Underway
  <2>2. ASSUME NEW st, st # "Publish", stage' = [stage EXCEPT ![d][m] = st] PROVE ~Underway(m)'
    <3>1. stage'[d][m] = st
      BY <1>b, <2>2 DEF RunsOK
    <3> QED BY <2>2, <3>1 DEF Underway, Alone
  <2>3. CASE copies' = [copies EXCEPT ![m] = @ + 1] /\ stage' = [stage EXCEPT ![d][m] = "MarkPublished"]
    <3>1. copies'[m] = copies[m] + 1 /\ \A n \in Msg \ {m} : copies'[n] = copies[n]
      BY <1>a, <2>3 DEF TableOK
    <3>2. Accepts(m) /\ \A n \in Msg \ {m} : attempts'[n] = attempts[n] /\ copies'[n] = copies[n]
      BY <2>1, <2>2, <2>3, <3>1 DEF Accepts
    <3> QED BY <1>s, <2>1, <2>3, <3>2
  <2>4. CASE /\ UNCHANGED copies
             /\ \E kind \in PublishFaults[m] :
                  stage' = [stage EXCEPT ![d][m] = DecideFor(seen[d][m] + 1, kind)]
    <3>1. PICK st \in {"ScheduleRetry", "MarkFailed"} : stage' = [stage EXCEPT ![d][m] = st]
      BY <2>4 DEF DecideFor
    <3>2. Leaves(m) /\ ~Underway(m)' /\ \A n \in Msg \ {m} : attempts'[n] = attempts[n] /\ copies'[n] = copies[n]
      BY <2>1, <2>2, <2>4, <3>1 DEF Leaves
    <3> QED BY <1>s, <2>1, <3>1, <3>2
  <2> QED BY <1>6, <2>3, <2>4 DEF Publish
<1>7. ASSUME NEW d \in Dispatcher, NEW m \in Msg, MarkPublished(d, m) PROVE Goal
  <2>1. \A n \in Msg : status'[n] \in {status[n], "Published"}
    BY <1>7, <1>a DEF MarkPublished, TableOK
  <2>2. \A n \in Msg : status'[n] \in {"Failed", "DeadLettered"} => status[n] \in {"Failed", "DeadLettered"}
    BY <2>1
  <2> QED BY <1>7, <1>r, <2>2 DEF MarkPublished
<1>8. ASSUME NEW d \in Dispatcher, NEW m \in Msg, ScheduleRetry(d, m) PROVE Goal
  BY <1>8, <1>r DEF ScheduleRetry
<1>9. ASSUME NEW d \in Dispatcher, NEW m \in Msg, MarkFailed(d, m) PROVE Goal
  <2>1. FailedOnce(m)
    BY <1>9 DEF MarkFailed, AttemptInv
  <2>2. \A n \in Msg : n # m => status'[n] = status[n]
    BY <1>9, <1>a DEF MarkFailed, TableOK
  <2>3. \A n \in Msg : status'[n] \in {"Failed", "DeadLettered"} =>
          status[n] \in {"Failed", "DeadLettered"} \/ FailedOnce(n)
    BY <2>1, <2>2
  <2> QED BY <1>9, <1>r, <2>3 DEF MarkFailed
<1>10. ASSUME NEW d \in Dispatcher, Crash(d) PROVE Goal
  BY <1>10, <1>r DEF Crash
<1>11. ASSUME NEW s \in Sweeper, SweepScan(s) PROVE Goal
  <2>1. /\ UNCHANGED <<attempts, copies, stage, status>>
        /\ \A t \in Sweeper : \A m \in batch'[t] : m \in batch[t] \/ status[m] = "Failed"
    BY <1>11, <1>a, SweepScanStep DEF SweepScan, SweepsOK
  <2>2. /\ \A d \in Dispatcher, m \in Msg : stage'[d][m] \in {"Record", stage[d][m]}
        /\ \A m \in Msg : status'[m] = status[m]
    BY <2>1
  <2> QED BY <2>1, <2>2, AttemptQuiet DEF Goal
<1>12. ASSUME NEW s \in Sweeper, SweepPark(s) PROVE Goal
  <2>1. /\ UNCHANGED <<attempts, copies, stage, status>>
        /\ \A t \in Sweeper : batch'[t] \subseteq batch[t]
    BY <1>12, <1>a DEF SweepPark, SweepsOK
  <2>2. /\ \A d \in Dispatcher, m \in Msg : stage'[d][m] \in {"Record", stage[d][m]}
        /\ \A m \in Msg : status'[m] = status[m]
    BY <2>1
  <2> QED BY <2>1, <2>2, AttemptQuiet DEF Goal
<1>13. ASSUME NEW s \in Sweeper, SweepMark(s) PROVE Goal
  <2>1. UNCHANGED <<attempts, copies, stage>> /\ \A t \in Sweeper : batch'[t] \subseteq batch[t]
    BY <1>13, <1>a DEF SweepMark, SweepsOK
  <2>2. PICK x \in Msg : x \in batch[s] /\ (status' = status \/ status' = [status EXCEPT ![x] = "DeadLettered"])
    BY <1>13, <1>a, MarkStep
  <2>3. FailedOnce(x)
    BY <2>2 DEF AttemptInv
  <2>5. \A m \in Msg : status'[m] \in {"Failed", "DeadLettered"} =>
          status[m] \in {"Failed", "DeadLettered"} \/ FailedOnce(m)
    BY <1>a, <2>2, <2>3 DEF TableOK
  <2>6. \A d \in Dispatcher, m \in Msg : stage'[d][m] \in {"Record", stage[d][m]}
    BY <2>1
  <2> QED BY <2>1, <2>5, <2>6, AttemptQuiet DEF Goal
<1>14. CASE Tick
  BY <1>q, <1>14 DEF Tick
<1>15. CASE UNCHANGED vars
  BY <1>q, <1>15 DEF vars
<1> QED
  BY <1>1, <1>2, <1>3, <1>4, <1>5, <1>6, <1>7, <1>8, <1>9, <1>10, <1>11, <1>12,
     <1>13, <1>14, <1>15 DEF Next, Dispatch, DispatchOne, Sweep

\* The rows of a run stay stored, and none is both picked and claimed.
LEMMA PickedKept ==
  ASSUME PickedInv,
         \A m \in Msg : status[m] # "Absent" => status'[m] # "Absent",
         \A d \in Dispatcher :
           /\ cand'[d] \cap held'[d] = {}
           /\ \A m \in cand'[d] \cup held'[d] :
                m \in Msg /\ (m \in cand[d] \cup held[d] \/ status[m] # "Absent"),
         \A s \in Sweeper : \A m \in batch'[s] :
           m \in Msg /\ (m \in batch[s] \/ status[m] # "Absent")
  PROVE  PickedInv'
BY DEF PickedInv

\* What the rest of the proof needs of a state before a step that fails nothing:
\* an undisturbed message was undisturbed, and is due unless it is claimed.
LEMMA FreeIsDue ==
  ASSUME TypeOK, NothingDropped, AttemptInv, OrderInv, NEW d \in Dispatcher, NEW m \in Msg,
         Undisturbed(m), m \notin held[d], status[m] # "Absent"
  PROVE  Due(m)
<1>1. wait[m] = 0 /\ copies[m] = 0 /\ ~FailedOnce(m)
  BY DEF OrderInv, Undisturbed
<1>2. status[m] \in Status /\ status[m] # "Published"
  BY SMT, <1>1 DEF TypeOK, TableOK, NothingDropped
<1>3. status[m] \notin {"Failed", "DeadLettered"}
  BY <1>1 DEF AttemptInv
<1> QED BY <1>1, <1>2, <1>3 DEF Due, Status

\* A message of a key that is behind an undisturbed one is not worked on, and
\* neither is the undisturbed one given up.
LEMMA NotItsTurn ==
  ASSUME TypeOK, OrderInv, NEW d \in Dispatcher, NEW m \in Msg, Undisturbed(m), NEW x \in Msg,
         AtHead(d, x)
  PROVE  ~(m < x /\ SameKey(m, x))
<1> SUFFICES ASSUME m < x, SameKey(m, x) PROVE FALSE
  OBVIOUS
<1>1. Behind(d, m, x)
  BY DEF OrderInv
<1>2. x \in started[d]
  BY DEF AtHead, Oldest
<1>3. m \in started[d]
  BY <1>1, <1>2 DEF Behind
<1> QED BY <1>3, HeadFirst DEF TypeOK

\* A stopped lane holds no undisturbed message, nor one behind it.
LEMMA StoppedLane ==
  ASSUME TypeOK, AttemptInv, OrderInv, NEW d \in Dispatcher, NEW m \in Msg, Undisturbed(m),
         NEW x \in Msg, AtHead(d, x), stage[d][x] \in {"ScheduleRetry", "MarkFailed"}
  PROVE  m \notin Lane(x) /\ \A n \in Msg : SameKey(m, n) => n \notin Lane(x)
<1>1. FailedOnce(x)
  BY DEF AttemptInv
<1>2. ~(m < x /\ SameKey(m, x))
  BY NotItsTurn
<1>3. ~(x = m \/ (x < m /\ SameKey(m, x)))
  BY <1>1 DEF Undisturbed
<1>4. x \in Nat /\ m \in Nat
  BY MsgAssumption
<1>5. x # m /\ ~SameKey(m, x)
  BY SMT, <1>2, <1>3, <1>4
<1> QED BY <1>5 DEF Lane, SameKey

\* A message that is undisturbed after a step was so before.
LEMMA WasUndisturbed ==
  ASSUME TypeOK, NEW m \in Msg, copies'[m] >= copies[m], Undisturbed(m)',
         \A l \in Msg : FailedOnce(l) => FailedOnce(l)', missed \subseteq missed'
  PROVE  Undisturbed(m)
<1>1. copies[m] \in Nat /\ copies'[m] = 0 /\ copies'[m] >= copies[m]
  BY DEF Undisturbed, TypeOK, TableOK
<1>2. copies[m] = 0
  BY SMT, <1>1
<1>3. m \notin missed /\ \A l \in Msg : l = m \/ (l < m /\ SameKey(m, l)) => ~FailedOnce(l)
  BY DEF Undisturbed
<1> QED BY <1>2, <1>3 DEF Undisturbed

\* What a step of a run leaves as it was, for the order: it works on no later
\* message of m's key and takes neither m nor a later one out of the run.
LEMMA OrderKept ==
  ASSUME TypeOK, OrderInv, \A m \in Msg : copies'[m] >= copies[m], TypeOK',
         \A m \in Msg : FailedOnce(m) => FailedOnce(m)', missed \subseteq missed',
         \A m \in Msg : Undisturbed(m) =>
           /\ \A d \in Dispatcher : m \in held'[d] \/ wait'[m] = 0
           /\ \A n \in Msg : m < n /\ SameKey(m, n) =>
                /\ copies'[n] = copies[n]
                /\ status'[n] # "Absent" => status'[m] # "Absent"
                /\ \A d \in Dispatcher : Behind(d, m, n)'
  PROVE  OrderInv'
<1> SUFFICES ASSUME NEW m \in Msg, Undisturbed(m)'
             PROVE  /\ \A d \in Dispatcher : m \in held'[d] \/ wait'[m] = 0
                    /\ \A n \in Msg : m < n /\ SameKey(m, n) =>
                         /\ copies'[n] = 0
                         /\ status'[n] # "Absent" => status'[m] # "Absent"
                         /\ \A d \in Dispatcher : Behind(d, m, n)'
  BY DEF OrderInv
<1>4. Undisturbed(m)
  BY WasUndisturbed
<1>5. \A n \in Msg : m < n /\ SameKey(m, n) => copies[n] = 0
  BY <1>4 DEF OrderInv
<1> QED BY <1>4, <1>5

LEMMA NextPicked == TypeOK /\ TypeOK' /\ PickedInv /\ [Next]_vars => PickedInv'
<1> SUFFICES ASSUME TypeOK, TypeOK', PickedInv, [Next]_vars PROVE PickedInv'
  OBVIOUS
<1>a. /\ TableOK /\ RunsOK /\ SweepsOK
      /\ \A d \in Dispatcher : cand'[d] \subseteq Msg /\ held'[d] \subseteq Msg
  BY DEF TypeOK, RunsOK
<1>s. \A s \in Sweeper : \A m \in batch'[s] : m \in Msg /\ (m \in batch[s] \/ status[m] # "Absent")
  <2>1. \A s \in Sweeper : batch'[s] \subseteq Msg /\ batch[s] \subseteq Msg
    BY DEF TypeOK, SweepsOK
  <2>2. ASSUME NEW s \in Sweeper, SweepScan(s)
        PROVE  \A t \in Sweeper : \A m \in batch'[t] : m \in batch[t] \/ status[m] # "Absent"
    BY <1>a, <2>2, SweepScanStep
  <2>3. ASSUME NEW s \in Sweeper, SweepPark(s) \/ SweepMark(s)
        PROVE  \A t \in Sweeper : batch'[t] \subseteq batch[t]
    BY <1>a, <2>3 DEF SweepPark, SweepMark, SweepsOK
  <2>4. \A s \in Sweeper : Sweep(s) =>
          \A t \in Sweeper : \A m \in batch'[t] : m \in batch[t] \/ status[m] # "Absent"
    BY <2>2, <2>3 DEF Sweep
  <2>5. (\A s \in Sweeper : ~Sweep(s)) => UNCHANGED batch
    <3>1. \A m \in Msg : Insert(m) => UNCHANGED batch
      BY DEF Insert, sweep
    <3>2. \A d \in Dispatcher : Crash(d) \/ PendingScan(d) \/ PendingClaim(d) \/ StartLane(d) =>
            UNCHANGED batch
      BY DEF Crash, PendingScan, PendingClaim, StartLane, sweep
    <3>3. \A d \in Dispatcher : DispatchOne(d) => UNCHANGED batch
      BY SMTT(60) DEF DispatchOne, RecordAttempt, Publish, MarkPublished, ScheduleRetry, MarkFailed, sweep
    <3>4. Tick \/ UNCHANGED vars => UNCHANGED batch
      BY DEF Tick, vars, sweep
    <3> QED BY <3>1, <3>2, <3>3, <3>4 DEF Next, Dispatch
  <2> QED BY <2>1, <2>4, <2>5
<1>q. ASSUME \A m \in Msg : status[m] # "Absent" => status'[m] # "Absent",
             \A d \in Dispatcher : cand'[d] \subseteq cand[d] /\ held'[d] \subseteq held[d]
      PROVE  PickedInv'
  <2>1. \A d \in Dispatcher : cand'[d] \cap held'[d] = {}
    BY <1>q DEF PickedInv
  <2>2. \A d \in Dispatcher : \A m \in cand'[d] \cup held'[d] : m \in Msg /\ m \in cand[d] \cup held[d]
    BY <1>a, <1>q
  <2> QED BY <1>q, <1>s, <2>1, <2>2, PickedKept
<1>r. ASSUME NEW d \in Dispatcher, NEW S, Release(d, S), UNCHANGED cand,
             \A m \in Msg : status[m] # "Absent" => status'[m] # "Absent"
      PROVE  PickedInv'
  <2>1. \A c \in Dispatcher : held'[c] \subseteq held[c]
    BY <1>a, <1>r DEF Release, RunsOK
  <2>2. \A c \in Dispatcher : cand'[c] \subseteq cand[c]
    BY <1>r
  <2> QED BY <1>q, <1>r, <2>1, <2>2
<1> USE DEF store, run, sweep
<1>1. ASSUME NEW m \in Msg, Insert(m) PROVE PickedInv'
  <2>1. \A n \in Msg : status'[n] \in {status[n], "Pending"}
    BY <1>1, <1>a DEF Insert, TableOK
  <2>2. \A n \in Msg : status[n] # "Absent" => status'[n] # "Absent"
    BY <2>1
  <2>3. UNCHANGED <<cand, held>>
    BY <1>1 DEF Insert
  <2> QED BY <1>q, <2>2, <2>3
<1>2. ASSUME NEW d \in Dispatcher, PendingScan(d) PROVE PickedInv'
  <2>1. PICK R : /\ \A m \in R : m \in Msg /\ (m \in cand[d] \/ Due(m))
                 /\ \A c \in Dispatcher : cand'[c] = IF c = d THEN R ELSE cand[c]
    BY <1>2, <1>a, ScanStep
  <2>2. held[d] = {} /\ UNCHANGED <<held, status>>
    BY <1>2 DEF PendingScan
  <2>4. \A m \in R : m \in Msg /\ status[m] # "Absent"
    BY <2>1 DEF Due, PickedInv
  <2>5. ASSUME NEW c \in Dispatcher
        PROVE  /\ cand'[c] \cap held'[c] = {}
               /\ \A m \in cand'[c] \cup held'[c] :
                    m \in Msg /\ (m \in cand[c] \cup held[c] \/ status[m] # "Absent")
    <3>1. CASE c = d
      BY <2>1, <2>2, <2>4, <3>1
    <3>2. CASE c # d
      <4>1. cand'[c] = cand[c] /\ held'[c] = held[c] /\ cand[c] \subseteq Msg /\ held[c] \subseteq Msg
        BY <1>a, <2>1, <2>2, <3>2 DEF RunsOK
      <4> QED BY <4>1 DEF PickedInv
    <3> QED BY <3>1, <3>2
  <2> QED BY <1>s, <2>2, <2>5, PickedKept
<1>3. ASSUME NEW d \in Dispatcher, PendingClaim(d) PROVE PickedInv'
  <2>1. PICK x \in Msg : x \in cand[d] /\ Claims(d, x)
    BY <1>3, <1>a, ClaimStep
  <2>2. /\ cand' = [cand EXCEPT ![d] = @ \ {x}] /\ UNCHANGED status
        /\ held' = [held EXCEPT ![d] = @ \cup {x}] \/ held' = held
    BY <1>3, <2>1 DEF PendingClaim, Claims
  <2>3. ASSUME NEW c \in Dispatcher
        PROVE  /\ cand'[c] \cap held'[c] = {}
               /\ \A m \in cand'[c] \cup held'[c] :
                    m \in Msg /\ (m \in cand[c] \cup held[c] \/ status[m] # "Absent")
    <3>1. cand'[c] = IF c = d THEN cand[c] \ {x} ELSE cand[c]
      BY <1>a, <2>2 DEF RunsOK
    <3>2. held'[c] \in {held[c], IF c = d THEN held[c] \cup {x} ELSE held[c]}
      BY <1>a, <2>2 DEF RunsOK
    <3>3. cand[c] \cap held[c] = {} /\ cand[c] \subseteq Msg /\ held[c] \subseteq Msg
      BY <1>a DEF PickedInv, RunsOK
    <3> QED BY <2>1, <3>1, <3>2, <3>3
  <2> QED BY <1>s, <2>2, <2>3, PickedKept
<1>4. ASSUME NEW d \in Dispatcher, StartLane(d) PROVE PickedInv'
  BY <1>q, <1>4 DEF StartLane
<1>5. ASSUME NEW d \in Dispatcher, NEW m \in Msg, RecordAttempt(d, m) PROVE PickedInv'
  BY <1>q, <1>r, <1>5 DEF RecordAttempt
<1>6. ASSUME NEW d \in Dispatcher, NEW m \in Msg, Publish(d, m) PROVE PickedInv'
  BY <1>q, <1>6 DEF Publish
<1>w. ASSUME NEW m \in Msg, NEW w \in {"Published", "Failed", "DeadLettered"},
             status' = status \/ status' = [status EXCEPT ![m] = w]
      PROVE  \A n \in Msg : status[n] # "Absent" => status'[n] # "Absent"
  BY <1>a, <1>w DEF TableOK
<1>7. ASSUME NEW d \in Dispatcher, NEW m \in Msg, MarkPublished(d, m) PROVE PickedInv'
  BY <1>w, <1>r, <1>7 DEF MarkPublished
<1>8. ASSUME NEW d \in Dispatcher, NEW m \in Msg, ScheduleRetry(d, m) PROVE PickedInv'
  BY <1>r, <1>8 DEF ScheduleRetry
<1>9. ASSUME NEW d \in Dispatcher, NEW m \in Msg, MarkFailed(d, m) PROVE PickedInv'
  BY <1>w, <1>r, <1>9 DEF MarkFailed
<1>10. ASSUME NEW d \in Dispatcher, Crash(d) PROVE PickedInv'
  <2>1. \A c \in Dispatcher : held'[c] \subseteq held[c]
    BY <1>a, <1>10 DEF Crash, Release, RunsOK
  <2>2. \A c \in Dispatcher : cand'[c] \subseteq cand[c]
    BY <1>a, <1>10 DEF Crash, RunsOK
  <2> QED BY <1>q, <1>10, <2>1, <2>2 DEF Crash
<1>11. ASSUME NEW s \in Sweeper, SweepScan(s) \/ SweepPark(s) PROVE PickedInv'
  BY <1>q, <1>11 DEF SweepScan, SweepPark
<1>12. ASSUME NEW s \in Sweeper, SweepMark(s) PROVE PickedInv'
  <2>1. PICK x \in Msg : status' = status \/ status' = [status EXCEPT ![x] = "DeadLettered"]
    BY <1>12, <1>a, MarkStep
  <2>2. UNCHANGED <<cand, held>>
    BY <1>12 DEF SweepMark
  <2> QED BY <1>q, <1>w, <2>1, <2>2
<1>13. CASE Tick
  <2>1. \A d \in Dispatcher : cand'[d] \subseteq cand[d] /\ held'[d] = held[d]
    BY <1>13 DEF Tick
  <2> QED BY <1>q, <1>13, <2>1 DEF Tick
<1>14. CASE UNCHANGED vars
  BY <1>q, <1>14 DEF vars
<1> QED
  BY <1>1, <1>2, <1>3, <1>4, <1>5, <1>6, <1>7, <1>8, <1>9, <1>10, <1>11, <1>12,
     <1>13, <1>14 DEF Next, Dispatch, DispatchOne, Sweep

\* A step that takes nothing from a run and works on no message.
LEMMA OrderQuiet ==
  ASSUME TypeOK, TypeOK', OrderInv, \A m \in Msg : copies'[m] >= copies[m],
         \A m \in Msg : FailedOnce(m) => FailedOnce(m)', missed \subseteq missed',
         UNCHANGED <<cand, held, started, stage, wait, copies>>,
         \A d \in Dispatcher : cursor'[d] = cursor[d],
         \A m, n \in Msg : m < n /\ SameKey(m, n) /\ status'[n] # "Absent" =>
            status[n] # "Absent" \/ status'[m] # "Absent",
         \A m \in Msg : status[m] # "Absent" => status'[m] # "Absent"
  PROVE  OrderInv'
<1>1. ASSUME NEW m \in Msg, Undisturbed(m)
      PROVE  \A d \in Dispatcher : m \in held'[d] \/ wait'[m] = 0
  BY <1>1 DEF OrderInv
<1>2. ASSUME NEW m \in Msg, Undisturbed(m), NEW n \in Msg, m < n, SameKey(m, n)
      PROVE  /\ copies'[n] = copies[n]
             /\ status'[n] # "Absent" => status'[m] # "Absent"
             /\ \A d \in Dispatcher : Behind(d, m, n)'
  <2>1. (status[n] # "Absent" => status[m] # "Absent") /\ \A d \in Dispatcher : Behind(d, m, n)
    BY <1>2 DEF OrderInv
  <2>2. status'[n] # "Absent" => status'[m] # "Absent"
    BY <1>2, <2>1
  <2>3. \A d \in Dispatcher : Behind(d, m, n)'
    BY <2>1 DEF Behind, Scanning
  <2> QED BY <2>2, <2>3
<1> QED BY <1>1, <1>2, OrderKept

\* A step that changes d's run, and no row to or from Absent.
LEMMA OrderMoves ==
  ASSUME Alone, TypeOK, TypeOK', OrderInv, \A m \in Msg : copies'[m] >= copies[m],
         \A m \in Msg : FailedOnce(m) => FailedOnce(m)', missed \subseteq missed',
         NEW d \in Dispatcher,
         \A m \in Msg : status'[m] = "Absent" <=> status[m] = "Absent",
         \A m \in Msg : Undisturbed(m) =>
           /\ m \in held'[d] \/ wait'[m] = 0
           /\ \A n \in Msg : m < n /\ SameKey(m, n) /\ Behind(d, m, n) =>
                copies'[n] = copies[n] /\ Behind(d, m, n)'
  PROVE  OrderInv'
<1>1. ASSUME NEW m \in Msg, Undisturbed(m)
      PROVE  \A c \in Dispatcher : m \in held'[c] \/ wait'[m] = 0
  BY <1>1 DEF Alone
<1>2. ASSUME NEW m \in Msg, Undisturbed(m), NEW n \in Msg, m < n, SameKey(m, n)
      PROVE  /\ copies'[n] = copies[n]
             /\ status'[n] # "Absent" => status'[m] # "Absent"
             /\ \A c \in Dispatcher : Behind(c, m, n)'
  <2>1. (status[n] # "Absent" => status[m] # "Absent") /\ Behind(d, m, n)
    BY <1>2 DEF OrderInv
  <2>2. copies'[n] = copies[n] /\ Behind(d, m, n)'
    BY <1>2, <2>1
  <2>3. \A c \in Dispatcher : Behind(c, m, n)'
    <3>1. ASSUME NEW c \in Dispatcher PROVE c = d
      BY DEF Alone
    <3> QED BY <2>2, <3>1
  <2> QED BY <2>1, <2>2, <2>3
<1> QED BY <1>1, <1>2, OrderKept

\* What a scan is past stays recorded.
LEMMA MissedKept == ASSUME [Next]_vars PROVE missed \subseteq missed'
<1>1. \A m \in Msg : Insert(m) => missed \subseteq missed'
  BY DEF Insert
<1>2. \A d \in Dispatcher : Crash(d) \/ PendingScan(d) \/ PendingClaim(d) \/ StartLane(d)
                             => UNCHANGED missed
  BY DEF Crash, PendingScan, PendingClaim, StartLane
<1>3. \A d \in Dispatcher : DispatchOne(d) => UNCHANGED missed
  BY SMT DEF DispatchOne, RecordAttempt, Publish, MarkPublished, ScheduleRetry, MarkFailed
<1>4. \A s \in Sweeper : Sweep(s) => UNCHANGED missed
  BY DEF Sweep, SweepScan, SweepPark, SweepMark
<1>5. Tick \/ UNCHANGED vars => UNCHANGED missed
  BY DEF Tick, vars
<1> QED BY <1>1, <1>2, <1>3, <1>4, <1>5 DEF Next, Dispatch

\* With its last shard a scan has found an undisturbed message, or finds it now.
LEMMA ScanEnds ==
  ASSUME ScansOK, ReachedInv, NEW d \in Dispatcher, PendingScan(d), ~Scanning(d)',
         NEW m \in Msg, Undisturbed(m), status[m] # "Absent"
  PROVE  m \in cand[d] \/ ShardOf[m] = cursor[d]
<1>1. cursor[d] \in 1..Shards /\ ShardOf[m] \in 1..Shards /\ Shards \in Nat
  BY ShardAssumption DEF ScansOK, Reader
<1>2. cursor'[d] = IF LastShard(d) THEN 1 ELSE cursor[d] + 1
  BY ReadStep DEF PendingScan, Reader
<1>3. ~(cursor'[d] > 1)
  BY DEF Scanning
<1>4. cursor[d] = Shards
  BY SMT, <1>1, <1>2, <1>3 DEF LastShard
<1>5. CASE Scanning(d)
  <2>1. m \in cand[d] \/ ShardOf[m] >= cursor[d]
    BY <1>5 DEF ReachedInv, Reached
  <2> QED BY SMT, <1>1, <1>4, <2>1
<1>6. CASE ~Scanning(d)
  BY SMT, <1>1, <1>4, <1>6 DEF Scanning
<1> QED BY <1>5, <1>6

\* A scan overlooks no undisturbed message.
LEMMA NextReached ==
  ASSUME Alone, TypeOK, TypeOK', DroppedInv, AttemptInv, PickedInv, OrderInv, ReachedInv,
         [Next]_vars, faults' = 0
  PROVE  ReachedInv'
<1>a. TableOK /\ RunsOK /\ LanesOK /\ SweepsOK /\ ScansOK /\ NothingDropped
  BY DEF TypeOK, DroppedInv
<1>b. \A m \in Msg : Undisturbed(m)' => Undisturbed(m)
  BY NextAttempt, MissedKept, WasUndisturbed
<1>f. ~Fault
  <2>1. faults \in Nat
    BY SMT, <1>a, ConfigAssumption DEF TableOK
  <2> QED BY SMT, <2>1 DEF Fault
<1>k. ASSUME \A d \in Dispatcher : cursor'[d] = cursor[d], UNCHANGED cand,
             \A m \in Msg : Undisturbed(m)' /\ status'[m] # "Absent" =>
               status[m] # "Absent" \/ \A d \in Dispatcher : ShardOf[m] >= cursor[d]
      PROVE  ReachedInv'
  BY <1>b, <1>k DEF ReachedInv, Reached, Scanning
<1>n. ASSUME NEW d \in Dispatcher, cursor'[d] = cursor[d], ~Scanning(d) PROVE ReachedInv'
  <2>1. \A c \in Dispatcher : c = d
    BY DEF Alone
  <2> QED BY <1>n, <2>1 DEF ReachedInv, Reached, Scanning
<1>h. ASSUME NEW d \in Dispatcher, NEW x \in Msg, AtHead(d, x) PROVE ~Scanning(d)
  <2>1. x \in started[d]
    BY <1>h DEF AtHead, Oldest
  <2>2. held[d] # {}
    BY <1>a, <2>1 DEF LanesOK
  <2> QED BY <1>a, <2>2 DEF ScansOK
<1> USE DEF store, run, sweep
<1>1. ASSUME NEW x \in Msg, Insert(x) PROVE ReachedInv'
  <2>1. UNCHANGED <<cand, cursor>>
    BY <1>1 DEF Insert
  <2>2. \A m \in Msg : m # x => status'[m] = status[m]
    BY <1>1, <1>a DEF Insert, TableOK
  <2>3. ASSUME Undisturbed(x)' PROVE \A d \in Dispatcher : ShardOf[x] >= cursor[d]
    <3>1. \A d \in Dispatcher : ~(ShardOf[x] < cursor[d])
      BY <1>1, <2>3 DEF Insert, Undisturbed
    <3>2. ShardOf[x] \in Nat /\ \A d \in Dispatcher : cursor[d] \in Nat
      BY SMT, <1>a, ShardAssumption DEF ScansOK, Reader
    <3> QED BY SMT, <3>1, <3>2
  <2> QED BY <1>k, <2>1, <2>2, <2>3
<1>2. ASSUME NEW d \in Dispatcher, PendingScan(d) PROVE ReachedInv'
  <2> SUFFICES ASSUME NEW m \in Msg, Undisturbed(m)', Scanning(d)', status'[m] # "Absent"
               PROVE  m \in cand'[d] \/ ShardOf[m] >= cursor'[d]
    <3>1. \A c \in Dispatcher : c = d
      BY DEF Alone
    <3> QED BY <3>1 DEF ReachedInv, Reached
  <2>1. Undisturbed(m) /\ held[d] = {} /\ status[m] # "Absent"
    BY <1>2, <1>b DEF PendingScan
  <2> DEFINE W == {x \in Msg : Due(x)}
  <2>2. PICK R \in Found(d, cand[d], W) : cand'[d] = R
    BY <1>2, <1>a, ScanStep
  <2>3. m \in W
    BY <1>a, <2>1, FreeIsDue
  <2> HIDE DEF W
  <2>4. cursor[d] \in 1..Shards /\ ShardOf[m] \in 1..Shards
    BY <1>a, ShardAssumption DEF ScansOK, Reader
  <2>5. cursor'[d] = IF LastShard(d) THEN 1 ELSE cursor[d] + 1
    BY <1>2, <1>a, ReadStep DEF PendingScan, Reader
  <2>6. ~LastShard(d) /\ cursor'[d] = cursor[d] + 1
    <3>1. cursor'[d] > 1 /\ ~(1 > 1)
      BY SMT DEF Scanning
    <3> QED BY <2>5, <3>1
  <2>7. m \in cand[d] \/ ShardOf[m] = cursor[d] => m \in cand'[d]
    <3> SUFFICES ASSUME m \in cand[d] \/ ShardOf[m] = cursor[d] PROVE m \in R
      BY <2>2
    <3>1. m \in cand[d] \/ (m \in W /\ ShardOf[m] = cursor[d])
      BY <2>3
    <3> QED BY <2>6, <3>1, FoundFirst
  <2>8. m \in cand[d] \/ ShardOf[m] >= cursor[d]
    <3>1. CASE Scanning(d)
      BY <2>1, <3>1 DEF ReachedInv, Reached
    <3>2. CASE ~Scanning(d)
      BY SMT, <2>4, <3>2 DEF Scanning
    <3> QED BY <3>1, <3>2
  <2>9. ShardOf[m] >= cursor[d] => ShardOf[m] = cursor[d] \/ ShardOf[m] >= cursor'[d]
    BY SMT, <2>4, <2>6
  <2> QED BY <2>7, <2>8, <2>9
<1>3. ASSUME NEW d \in Dispatcher, PendingClaim(d) PROVE ReachedInv'
  BY <1>n, <1>3 DEF PendingClaim
<1>4. ASSUME NEW d \in Dispatcher, StartLane(d) PROVE ReachedInv'
  BY <1>k, <1>4 DEF StartLane
<1>5. ASSUME NEW d \in Dispatcher, NEW x \in Msg, RecordAttempt(d, x) PROVE ReachedInv'
  BY <1>n, <1>h, <1>5 DEF RecordAttempt
<1>6. ASSUME NEW d \in Dispatcher, NEW x \in Msg, Publish(d, x) PROVE ReachedInv'
  BY <1>n, <1>h, <1>6 DEF Publish
<1>7. ASSUME NEW d \in Dispatcher, NEW x \in Msg, MarkPublished(d, x) PROVE ReachedInv'
  BY <1>n, <1>h, <1>7 DEF MarkPublished
<1>8. ASSUME NEW d \in Dispatcher, NEW x \in Msg, ScheduleRetry(d, x) PROVE ReachedInv'
  BY <1>n, <1>h, <1>8 DEF ScheduleRetry
<1>9. ASSUME NEW d \in Dispatcher, NEW x \in Msg, MarkFailed(d, x) PROVE ReachedInv'
  BY <1>n, <1>h, <1>9 DEF MarkFailed
<1>10. ASSUME NEW d \in Dispatcher, Crash(d) PROVE ReachedInv'
  BY <1>f, <1>10 DEF Crash
<1>11. ASSUME NEW s \in Sweeper, Sweep(s) PROVE ReachedInv'
  <2>1. \A d \in Dispatcher : cursor'[d] = cursor[d]
    BY <1>a, <1>11, SweepCursor
  <2>2. CASE SweepScan(s) \/ SweepPark(s)
    BY <1>k, <2>1, <2>2 DEF SweepScan, SweepPark
  <2>3. CASE SweepMark(s)
    <3>1. PICK x \in Msg : x \in batch[s] /\ (status' = status \/ status' = [status EXCEPT ![x] = "DeadLettered"])
      BY <1>a, <2>3, MarkStep
    <3>2. status[x] # "Absent"
      BY <3>1 DEF PickedInv
    <3>3. \A m \in Msg : status'[m] # "Absent" => status[m] # "Absent"
      BY <1>a, <3>1, <3>2 DEF TableOK
    <3> QED BY <1>k, <2>1, <2>3, <3>3 DEF SweepMark
  <2> QED BY <1>11, <2>2, <2>3 DEF Sweep
<1>12. CASE Tick
  BY <1>12 DEF Tick, ReachedInv, Reached, Scanning
<1>13. CASE UNCHANGED vars
  BY <1>k, <1>13 DEF vars
<1> QED
  BY <1>1, <1>2, <1>3, <1>4, <1>5, <1>6, <1>7, <1>8, <1>9, <1>10, <1>11, <1>12,
     <1>13 DEF Next, Dispatch, DispatchOne

\* The order after a step of the only dispatcher that hits no fault.
LEMMA NextOrder ==
  ASSUME Alone, TypeOK, TypeOK', DroppedInv, AttemptInv, PickedInv, OrderInv, ReachedInv,
         [Next]_vars, faults' = 0
  PROVE  OrderInv'
<1>a. TableOK /\ RunsOK /\ LanesOK /\ SweepsOK /\ NothingDropped
  BY DEF TypeOK, DroppedInv
<1>b. /\ \A m \in Msg : copies'[m] >= copies[m]
      /\ \A m \in Msg : FailedOnce(m) => FailedOnce(m)'
      /\ missed \subseteq missed'
  BY NextAttempt, MissedKept
<1>f. ~Fault
  <2>1. faults \in Nat
    BY SMT, <1>a, ConfigAssumption DEF TableOK
  <2> QED BY SMT, <2>1 DEF Fault
<1>u. ASSUME NEW d \in Dispatcher, NEW m \in Msg, Undisturbed(m) PROVE m \in held[d] \/ wait[m] = 0
  BY <1>u DEF OrderInv
<1> USE DEF store, run, sweep, Scanning
<1>1. ASSUME NEW x \in Msg, Insert(x) PROVE OrderInv'
  <2>1. UNCHANGED <<cand, held, started, stage, wait, copies, cursor>>
    BY <1>1 DEF Insert
  <2>2. \A n \in Msg : status'[n] = IF n = x THEN "Pending" ELSE status[n]
    BY <1>1, <1>a DEF Insert, TableOK
  <2>3. ASSUME NEW m \in Msg, NEW n \in Msg, m < n, SameKey(m, n), status'[n] # "Absent"
        PROVE  status[n] # "Absent" \/ status'[m] # "Absent"
    <3>1. CASE n = x
      <4>1. SameKey(x, m) /\ m < x
        BY <2>3, <3>1 DEF SameKey
      <4>2. status[m] # "Absent"
        BY <1>1, <4>1 DEF Insert
      <4>3. status'[m] # "Absent"
        BY <2>2, <4>2
      <4> QED BY <4>3
    <3>2. CASE n # x
      BY <2>2, <2>3, <3>2
    <3> QED BY <3>1, <3>2
  <2>4. \A m \in Msg : status[m] # "Absent" => status'[m] # "Absent"
    BY <2>2
  <2> QED BY <1>b, <2>1, <2>3, <2>4, OrderQuiet
<1>2. ASSUME NEW d \in Dispatcher, PendingScan(d) PROVE OrderInv'
  <2> DEFINE W == {x \in Msg : Due(x)}
  <2>1. PICK R \in Found(d, cand[d], W) : (\A m \in R : m \in cand[d] \/ Due(m)) /\ cand'[d] = R
    BY <1>2, <1>a, ScanStep
  <2>2. held[d] = {} /\ UNCHANGED <<held, started, stage, status, wait, copies>>
    BY <1>2 DEF PendingScan
  <2>3. ASSUME NEW m \in Msg, Undisturbed(m), NEW n \in Msg, m < n, SameKey(m, n), Behind(d, m, n)
        PROVE  Behind(d, m, n)'
    <3>1. ASSUME ~Scanning(d)', n \in cand'[d] PROVE m \in cand'[d]
      <4>1. n \in R
        BY <2>1, <3>1
      <4>2. status[m] # "Absent"
        <5>1. status[n] # "Absent"
          BY <2>1, <4>1 DEF Due, PickedInv
        <5> QED BY <2>3, <5>1 DEF OrderInv
      <4>3. m \in W
        BY <1>a, <2>2, <2>3, <4>2, FreeIsDue
      <4>4. m \in cand[d] \/ ShardOf[m] = cursor[d]
        BY <1>2, <2>3, <3>1, <4>2, ScanEnds DEF TypeOK
      <4>5. m \in cand[d] \/ (m \in W /\ ShardOf[m] = cursor[d])
        BY <4>3, <4>4
      <4> HIDE DEF W
      <4> QED BY <2>1, <2>3, <4>1, <4>5, FoundFirst
    <3> QED BY <2>2, <2>3, <3>1 DEF Behind
  <2> QED BY <1>b, <1>u, <2>2, <2>3, OrderMoves
<1>3. ASSUME NEW d \in Dispatcher, PendingClaim(d) PROVE OrderInv'
  <2>1. PICK x \in Msg : x \in cand[d] /\ (\A y \in cand[d] : x <= y) /\ Claims(d, x)
    BY <1>3, <1>a, ClaimStep
  <2>3. /\ cand' = [cand EXCEPT ![d] = @ \ {x}]
        /\ ~Scanning(d) /\ UNCHANGED <<status, started, stage, copies, cursor>>
        /\ Due(x) => /\ wait' = [wait EXCEPT ![x] = Lease - age[d]]
                     /\ held' = [held EXCEPT ![d] = @ \cup {x}]
        /\ ~Due(x) => UNCHANGED <<wait, held>>
    BY <1>3, <2>1 DEF PendingClaim, Claims
  <2>4. cand'[d] = cand[d] \ {x}
    BY <1>a, <2>3 DEF RunsOK
  <2>5. Due(x) => held'[d] = held[d] \cup {x} /\ \A m \in Msg : m # x => wait'[m] = wait[m]
    BY <1>a, <2>3 DEF RunsOK, TableOK
  <2>6. ASSUME NEW m \in Msg, Undisturbed(m) PROVE m \in held'[d] \/ wait'[m] = 0
    BY <1>u, <2>3, <2>5, <2>6
  <2>7. ASSUME NEW m \in Msg, Undisturbed(m), m = x PROVE Due(x)
    <3>1. status[m] # "Absent" /\ m \notin held[d]
      BY <2>1, <2>7 DEF PickedInv
    <3> QED BY <1>a, <2>7, <3>1, FreeIsDue
  <2>8. ASSUME NEW m \in Msg, Undisturbed(m), NEW n \in Msg, m < n, SameKey(m, n), Behind(d, m, n)
        PROVE  Behind(d, m, n)'
    <3>1. ASSUME n = x PROVE m \in held[d]
      <4>1. m \notin cand[d]
        <5>1. m \in Nat /\ n \in Nat
          BY MsgAssumption
        <5>2. ~(n <= m)
          BY SMT, <2>8, <5>1
        <5> QED BY <2>1, <3>1, <5>2
      <4> QED BY <2>1, <2>3, <2>8, <3>1, <4>1 DEF Behind
    <3>2. CASE Due(x)
      BY <2>3, <2>4, <2>5, <2>8, <3>1, <3>2 DEF Behind
    <3>3. CASE ~Due(x)
      <4>1. m # x
        BY <2>7, <2>8, <3>3
      <4> QED BY <2>3, <2>4, <2>8, <3>3, <4>1 DEF Behind
    <3> QED BY <3>2, <3>3
  <2> QED BY <1>b, <2>3, <2>6, <2>8, OrderMoves
<1>4. ASSUME NEW d \in Dispatcher, StartLane(d) PROVE OrderInv'
  <2>1. PICK y \in Msg : started'[d] = started[d] \cup (held[d] \cap Lane(y))
    <3>1. PICK y \in Msg : started' = [started EXCEPT ![d] = @ \cup (held[d] \cap Lane(y))]
      BY <1>4, <1>a, LaneStep
    <3> QED BY <1>a, <3>1 DEF RunsOK
  <2>2. UNCHANGED <<cand, held, stage, status, wait, copies, cursor>>
    BY <1>4 DEF StartLane
  <2>3. ASSUME NEW m \in Msg, Undisturbed(m), NEW n \in Msg, m < n, SameKey(m, n), Behind(d, m, n)
        PROVE  Behind(d, m, n)'
    <3>1. n \in Lane(y) => m \in Lane(y)
      BY <2>3 DEF Lane, SameKey
    <3> QED BY <2>1, <2>2, <2>3, <3>1 DEF Behind
  <2> QED BY <1>b, <1>u, <2>2, <2>3, OrderMoves
<1>h. ASSUME NEW d \in Dispatcher, NEW x \in Msg, AtHead(d, x), NEW st,
             stage' = [stage EXCEPT ![d][x] = st],
             UNCHANGED <<cand, held, started, wait, status, cursor>>,
             \A n \in Msg \ {x} : copies'[n] = copies[n]
      PROVE  OrderInv'
  <2>1. \A n \in Msg \ {x} : stage'[d][n] = stage[d][n]
    <3>1. stage' = [stage EXCEPT ![d][x] = st]
      BY <1>h
    <3> QED BY <1>a, <3>1 DEF RunsOK
  <2>2. ASSUME NEW m \in Msg, Undisturbed(m), NEW n \in Msg, m < n, SameKey(m, n), Behind(d, m, n)
        PROVE  copies'[n] = copies[n] /\ Behind(d, m, n)'
    <3>1. n # x
      BY <1>h, <2>2, NotItsTurn
    <3>2. copies'[n] = copies[n] /\ stage'[d][n] = stage[d][n]
      BY <1>h, <2>1, <3>1
    <3> QED BY <1>h, <2>2, <3>2 DEF Behind
  <2>3. \A m \in Msg : Undisturbed(m) => m \in held'[d] \/ wait'[m] = 0
    BY <1>h, <1>u
  <2>4. \A m \in Msg : status'[m] = "Absent" <=> status[m] = "Absent"
    BY <1>h
  <2> QED BY <1>b, <2>2, <2>3, <2>4, OrderMoves
<1>r. ASSUME NEW d \in Dispatcher, NEW S, Release(d, S), UNCHANGED <<cand, copies, cursor>>,
             \A m \in Msg : status'[m] = "Absent" <=> status[m] = "Absent",
             \A m \in Msg : Undisturbed(m) =>
               /\ m \notin S /\ wait'[m] = wait[m]
               /\ \A n \in Msg : m < n /\ SameKey(m, n) => n \notin S
      PROVE  OrderInv'
  <2>1. /\ held'[d] = held[d] \ S /\ started'[d] = started[d] \ S
        /\ \A n \in Msg : n \notin S => stage'[d][n] = stage[d][n]
    BY <1>a, <1>r DEF Release, RunsOK
  <2>2. ASSUME NEW m \in Msg, Undisturbed(m), NEW n \in Msg, m < n, SameKey(m, n), Behind(d, m, n)
        PROVE  copies'[n] = copies[n] /\ Behind(d, m, n)'
    <3>1. m \notin S /\ n \notin S
      BY <1>r, <2>2
    <3> QED BY <1>r, <2>1, <2>2, <3>1 DEF Behind
  <2>3. ASSUME NEW m \in Msg, Undisturbed(m) PROVE m \in held'[d] \/ wait'[m] = 0
    BY <1>r, <1>u, <2>1, <2>3
  <2> QED BY <1>b, <1>r, <2>2, <2>3, OrderMoves
<1>w. ASSUME NEW x \in Msg, NEW w \in {"Published", "Failed", "DeadLettered"},
             status[x] # "Absent", status' = [status EXCEPT ![x] = w]
      PROVE  \A n \in Msg : status'[n] = "Absent" <=> status[n] = "Absent"
  BY <1>a, <1>w DEF TableOK
<1>v. ASSUME NEW d \in Dispatcher, NEW x \in Msg, AtHead(d, x) PROVE status[x] # "Absent"
  BY <1>a, <1>v DEF AtHead, Oldest, LanesOK, PickedInv
<1>5. ASSUME NEW d \in Dispatcher, NEW x \in Msg, RecordAttempt(d, x) PROVE OrderInv'
  <2>1. /\ stage' = [stage EXCEPT ![d][x] = "Publish"] /\ AtHead(d, x)
        /\ UNCHANGED <<cand, held, started, wait, status, copies, cursor>>
    BY <1>5, <1>f DEF RecordAttempt
  <2> QED BY <1>h, <2>1
<1>6. ASSUME NEW d \in Dispatcher, NEW x \in Msg, Publish(d, x) PROVE OrderInv'
  <2>1. AtHead(d, x) /\ UNCHANGED <<cand, held, started, wait, status, cursor>>
    BY <1>6 DEF Publish
  <2>2. \E st : stage' = [stage EXCEPT ![d][x] = st]
    BY <1>6 DEF Publish
  <2>3. \A n \in Msg \ {x} : copies'[n] = copies[n]
    BY <1>6, <1>a DEF Publish, TableOK
  <2> QED BY <1>h, <2>1, <2>2, <2>3
<1>7. ASSUME NEW d \in Dispatcher, NEW x \in Msg, MarkPublished(d, x) PROVE OrderInv'
  <2>1. /\ AtHead(d, x) /\ stage[d][x] = "MarkPublished" /\ Release(d, {x})
        /\ status' = [status EXCEPT ![x] = "Published"] /\ UNCHANGED <<cand, copies, wait, cursor>>
    BY <1>7, <1>f DEF MarkPublished
  <2>2. \A n \in Msg : status'[n] = "Absent" <=> status[n] = "Absent"
    BY <1>v, <1>w, <2>1
  <2>3. copies[x] > 0
    BY <2>1 DEF DroppedInv
  <2>4. ASSUME NEW m \in Msg, Undisturbed(m)
        PROVE  /\ m \notin {x} /\ wait'[m] = wait[m]
               /\ \A n \in Msg : m < n /\ SameKey(m, n) => n \notin {x}
    <3>1. m # x
      BY SMT, <2>3, <2>4 DEF Undisturbed
    <3>2. \A n \in Msg : m < n /\ SameKey(m, n) => n # x
      BY <2>1, <2>4, NotItsTurn
    <3> QED BY <2>1, <3>1, <3>2
  <2> QED BY <1>r, <2>1, <2>2, <2>4
<1>8. ASSUME NEW d \in Dispatcher, NEW x \in Msg, ScheduleRetry(d, x) PROVE OrderInv'
  <2>1. /\ AtHead(d, x) /\ stage[d][x] = "ScheduleRetry" /\ Release(d, Lane(x))
        /\ \E b \in Backoffs : wait' = [wait EXCEPT ![x] = b]
        /\ UNCHANGED <<cand, copies, status, cursor>>
    BY <1>8, <1>f DEF ScheduleRetry
  <2>2. \A m \in Msg : m # x => wait'[m] = wait[m]
    BY <1>a, <2>1 DEF TableOK
  <2>3. x \in Lane(x)
    BY DEF Lane
  <2>4. ASSUME NEW m \in Msg, Undisturbed(m)
        PROVE  /\ m \notin Lane(x) /\ wait'[m] = wait[m]
               /\ \A n \in Msg : m < n /\ SameKey(m, n) => n \notin Lane(x)
    <3>1. m \notin Lane(x) /\ \A n \in Msg : SameKey(m, n) => n \notin Lane(x)
      BY <2>1, <2>4, StoppedLane
    <3> QED BY <2>2, <2>3, <3>1
  <2> QED BY <1>r, <2>1, <2>4
<1>9. ASSUME NEW d \in Dispatcher, NEW x \in Msg, MarkFailed(d, x) PROVE OrderInv'
  <2>1. /\ AtHead(d, x) /\ stage[d][x] = "MarkFailed" /\ Release(d, Lane(x))
        /\ status' = [status EXCEPT ![x] = "Failed"] /\ UNCHANGED <<cand, copies, wait, cursor>>
    BY <1>9, <1>f DEF MarkFailed
  <2>2. \A n \in Msg : status'[n] = "Absent" <=> status[n] = "Absent"
    BY <1>v, <1>w, <2>1
  <2>4. ASSUME NEW m \in Msg, Undisturbed(m)
        PROVE  /\ m \notin Lane(x) /\ wait'[m] = wait[m]
               /\ \A n \in Msg : m < n /\ SameKey(m, n) => n \notin Lane(x)
    <3>1. m \notin Lane(x) /\ \A n \in Msg : SameKey(m, n) => n \notin Lane(x)
      BY <2>1, <2>4, StoppedLane
    <3> QED BY <2>1, <3>1
  <2> QED BY <1>r, <2>1, <2>2, <2>4
<1>10. ASSUME NEW d \in Dispatcher, Crash(d) PROVE OrderInv'
  BY <1>f, <1>10 DEF Crash
<1>q. ASSUME UNCHANGED <<cand, held, started, stage, wait, copies>>,
             \A d \in Dispatcher : cursor'[d] = cursor[d],
             \A m \in Msg : status'[m] = status[m] \/ (status'[m] = "DeadLettered" /\ status[m] # "Absent")
      PROVE  OrderInv'
  <2>1. \A m \in Msg : status'[m] = "Absent" <=> status[m] = "Absent"
    BY <1>q
  <2> QED BY <1>b, <1>q, <2>1, OrderQuiet
<1>s. ASSUME NEW s \in Sweeper, Sweep(s) PROVE \A d \in Dispatcher : cursor'[d] = cursor[d]
  BY <1>s, SweepCursor DEF TypeOK
<1>11. ASSUME NEW s \in Sweeper, SweepScan(s) \/ SweepPark(s) PROVE OrderInv'
  <2>1. Sweep(s)
    BY <1>11 DEF Sweep
  <2> QED BY <1>q, <1>s, <1>11, <2>1 DEF SweepScan, SweepPark
<1>12. ASSUME NEW s \in Sweeper, SweepMark(s) PROVE OrderInv'
  <2>1. UNCHANGED <<cand, held, started, stage, wait, copies>> /\ Sweep(s)
    BY <1>12 DEF SweepMark, Sweep
  <2>2. PICK x \in Msg : x \in batch[s] /\ (status' = status \/ status' = [status EXCEPT ![x] = "DeadLettered"])
    BY <1>12, <1>a, MarkStep
  <2>3. status[x] # "Absent"
    BY <2>2 DEF PickedInv
  <2>4. \A m \in Msg : status'[m] = status[m] \/ (status'[m] = "DeadLettered" /\ status[m] # "Absent")
    BY <1>a, <2>2, <2>3 DEF TableOK
  <2> QED BY <1>q, <1>s, <2>1, <2>4
<1>13. CASE Tick
  <2>1. UNCHANGED <<held, started, stage, status, copies, cursor>>
    BY <1>13 DEF Tick
  <2>2. \A m \in Msg : wait[m] = 0 => wait'[m] = 0
    <3>1. \A m \in Msg : wait'[m] = IF wait[m] > 0 THEN wait[m] - 1 ELSE 0
      BY <1>13 DEF Tick
    <3> QED BY <3>1, ZeroNotPositive
  <2>3. ASSUME NEW d \in Dispatcher PROVE cand'[d] = {m \in cand[d] : wait[m] = 0}
    BY <1>13 DEF Tick
  <2>4. ASSUME NEW m \in Msg, Undisturbed(m), NEW n \in Msg, m < n, SameKey(m, n)
        PROVE  /\ copies'[n] = copies[n]
               /\ status'[n] # "Absent" => status'[m] # "Absent"
               /\ \A d \in Dispatcher : Behind(d, m, n)'
    <3>1. (status[n] # "Absent" => status[m] # "Absent") /\ \A d \in Dispatcher : Behind(d, m, n)
      BY <2>4 DEF OrderInv
    <3>2. ASSUME NEW d \in Dispatcher PROVE Behind(d, m, n)'
      <4>1. Behind(d, m, n) /\ (m \in held[d] \/ wait[m] = 0)
        BY <1>u, <2>4, <3>1
      <4> QED BY <2>1, <2>3, <4>1 DEF Behind
    <3> QED BY <2>1, <3>1, <3>2
  <2>5. ASSUME NEW m \in Msg, Undisturbed(m)
        PROVE  \A d \in Dispatcher : m \in held'[d] \/ wait'[m] = 0
    BY <1>u, <2>1, <2>2, <2>5
  <2> QED BY <1>b, <2>4, <2>5, OrderKept
<1>14. CASE UNCHANGED vars
  BY <1>q, <1>14 DEF vars
<1> QED
  BY <1>1, <1>2, <1>3, <1>4, <1>5, <1>6, <1>7, <1>8, <1>9, <1>10, <1>11, <1>12,
     <1>13, <1>14 DEF Next, Dispatch, DispatchOne, Sweep

\* No fault is forgotten.
LEMMA FaultsKept ==
  ASSUME TableOK, [Next]_vars
  PROVE  faults' = 0 => faults = 0
<1>1. faults \in Nat /\ (Fault => faults' = faults + 1)
  BY SMT, ConfigAssumption DEF TableOK, Fault
<1>2. Fault \/ UNCHANGED faults
  <2>1. \A m \in Msg : Insert(m) => UNCHANGED faults
    BY DEF Insert
  <2>2. \A d \in Dispatcher : PendingScan(d) \/ PendingClaim(d) \/ StartLane(d) => UNCHANGED faults
    BY DEF PendingScan, PendingClaim, StartLane
  <2>3. \A d \in Dispatcher : DispatchOne(d) \/ Crash(d) => Fault \/ UNCHANGED faults
    <3>1. ASSUME NEW d \in Dispatcher, NEW m \in Msg
          PROVE  /\ RecordAttempt(d, m) \/ Publish(d, m) => Fault \/ UNCHANGED faults
                 /\ MarkPublished(d, m) \/ ScheduleRetry(d, m) => Fault \/ UNCHANGED faults
                 /\ MarkFailed(d, m) \/ Crash(d) => Fault \/ UNCHANGED faults
      <4>1. RecordAttempt(d, m) \/ Publish(d, m) => Fault \/ UNCHANGED faults
        BY DEF RecordAttempt, Publish
      <4>2. MarkPublished(d, m) \/ ScheduleRetry(d, m) => Fault \/ UNCHANGED faults
        BY DEF MarkPublished, ScheduleRetry
      <4>3. MarkFailed(d, m) \/ Crash(d) => Fault \/ UNCHANGED faults
        BY DEF MarkFailed, Crash
      <4> QED BY <4>1, <4>2, <4>3
    <3>2. \A d \in Dispatcher : Crash(d) => Fault \/ UNCHANGED faults
      BY DEF Crash
    <3> QED BY <3>1, <3>2 DEF DispatchOne
  <2>4. \A s \in Sweeper : Sweep(s) => Fault \/ UNCHANGED faults
    BY DEF Sweep, SweepScan, SweepPark, SweepMark
  <2>5. Tick \/ UNCHANGED vars => UNCHANGED faults
    BY DEF Tick, vars
  <2> QED BY <2>1, <2>2, <2>3, <2>4, <2>5 DEF Next, Dispatch
<1> QED BY SMT, <1>1, <1>2

LEMMA InitOrder == Init => AttemptInv /\ PickedInv /\ OrderInv /\ ReachedInv
<1> SUFFICES ASSUME Init PROVE AttemptInv /\ PickedInv /\ OrderInv /\ ReachedInv
  OBVIOUS
<1>1. /\ \A m \in Msg : status[m] = "Absent" /\ attempts[m] = 0 /\ copies[m] = 0 /\ wait[m] = 0
      /\ \A d \in Dispatcher : cand[d] = {} /\ held[d] = {} /\ started[d] = {}
      /\ \A d \in Dispatcher, m \in Msg : stage[d][m] = "Record"
      /\ \A s \in Sweeper : batch[s] = {}
  BY DEF Init
<1>2. \A m \in Msg : ~Underway(m)
  BY <1>1 DEF Underway
<1>3. AttemptInv
  BY SMTT(60), <1>1, <1>2 DEF AttemptInv
<1>4. PickedInv
  BY <1>1 DEF PickedInv
<1>5. OrderInv
  BY <1>1 DEF OrderInv, Behind
<1>6. ReachedInv
  BY <1>1 DEF ReachedInv, Reached
<1> QED BY <1>3, <1>4, <1>5, <1>6

\* With one dispatcher, and as long as no storage call fails and it does not
\* crash, the broker receives the messages of a key in the order they were
\* stored, until an attempt at one of them fails, and except for a message that
\* is inserted behind a running scan: the lanes of dispatch_pending and the order
\* of pending() keep it for any batch size, any number of keys and of shards.
THEOREM OrderKeptUntilFailure ==
  ASSUME \A c, d \in Dispatcher : c = d
  PROVE  Spec => []OvertakenOnlyInRetry
<1> DEFINE Inv == TypeOK /\ DroppedInv /\ AttemptInv /\ PickedInv /\ (faults = 0 => OrderInv /\ ReachedInv)
<1>a. Alone
  BY DEF Alone
<1>1. Init => Inv
  BY InitTypeOK, InitDropped, InitOrder
<1>2. Inv /\ [Next]_vars => Inv'
  <2> SUFFICES ASSUME TypeOK, DroppedInv, AttemptInv, PickedInv,
                      faults = 0 => OrderInv /\ ReachedInv, [Next]_vars
               PROVE  Inv'
    OBVIOUS
  <2>1. TypeOK' /\ DroppedInv'
    BY NextTypeOK, NextDropped
  <2>2. AttemptInv'
    BY <1>a, <2>1, NextAttempt
  <2>3. PickedInv'
    BY <2>1, NextPicked
  <2>4. ASSUME faults' = 0 PROVE OrderInv' /\ ReachedInv'
    <3>1. faults = 0
      BY <2>4, FaultsKept DEF TypeOK
    <3> QED BY <1>a, <2>1, <2>4, <3>1, NextOrder, NextReached
  <2> QED BY <2>1, <2>2, <2>3, <2>4
<1>3. Inv => OvertakenOnlyInRetry
  <2> SUFFICES ASSUME TypeOK, AttemptInv, OrderInv, NEW m \in Msg, NEW n \in Msg, m < n,
                      SameKey(m, n), copies[n] > 0
               PROVE  \/ copies[m] > 0 \/ m \in missed
                      \/ \E l \in Msg : (l = m \/ (l < m /\ SameKey(m, l))) /\ attempts[l] > copies[l]
    BY DEF OvertakenOnlyInRetry
  <2>1. ~Undisturbed(m)
    <3>1. SUFFICES ASSUME Undisturbed(m) PROVE FALSE
      OBVIOUS
    <3>2. copies[n] = 0
      BY <3>1 DEF OrderInv
    <3> QED BY <3>2, ZeroNotPositive
  <2>2. copies[m] \in Nat
    BY DEF TypeOK, TableOK
  <2>3. CASE copies[m] = 0 /\ m \notin missed
    <3>1. PICK l \in Msg : (l = m \/ (l < m /\ SameKey(m, l))) /\ FailedOnce(l)
      BY <2>1, <2>3 DEF Undisturbed
    <3>2. attempts[l] \in Nat /\ copies[l] \in Nat
      BY DEF TypeOK, TableOK
    <3>3. attempts[l] > copies[l]
      BY SMT, <3>1, <3>2 DEF FailedOnce
    <3> QED BY <3>1, <3>3
  <2> QED BY SMT, <2>2, <2>3
<1> QED BY <1>1, <1>2, <1>3, PTL DEF Spec

-----------------------------------------------------------------------------
(* The outbox implements Delivery, for every configuration with a positive  *)
(* lease: what its table, its runs and its sweeps keep true                 *)

\* What calls still to come rely on: a claimed row is stored and, while runs
\* are prompt, still pending; a row a sweep has read is failed or parked.
RowsInv ==
  /\ \A d \in Dispatcher : \A m \in held[d] :
       status[m] # "Absent" /\ (overrun = 0 => status[m] = "Pending")
  /\ \A s \in Sweeper : \A m \in batch[s] :
       status[m] # "Absent" /\ (overrun = 0 => status[m] \in {"Failed", "DeadLettered"})

LEMMA InitRows == Init => RowsInv
BY DEF Init, RowsInv

\* A step that takes only due rows and failed rows and writes no row of theirs.
LEMMA RowsKept ==
  ASSUME overrun \in 0..1, RowsInv, overrun' = 0 => overrun = 0,
         \A d \in Dispatcher : \A m \in held'[d] :
           /\ m \in held[d] \/ status[m] = "Pending"
           /\ status'[m] = status[m] \/ (overrun = 1 /\ status'[m] # "Absent"),
         \A s \in Sweeper : \A m \in batch'[s] :
           /\ m \in batch[s] \/ status[m] = "Failed"
           /\ \/ status'[m] \in {status[m], "DeadLettered"}
              \/ overrun = 1 /\ status'[m] # "Absent"
  PROVE  RowsInv'
<1>1. \A d \in Dispatcher : \A m \in held'[d] :
        status'[m] # "Absent" /\ (overrun' = 0 => status'[m] = "Pending")
  BY SMT DEF RowsInv
<1>2. \A s \in Sweeper : \A m \in batch'[s] :
        status'[m] # "Absent" /\ (overrun' = 0 => status'[m] \in {"Failed", "DeadLettered"})
  BY SMT DEF RowsInv
<1> QED BY <1>1, <1>2 DEF RowsInv

\* A step that leaves the rows alone and takes none.
LEMMA RowsQuiet ==
  ASSUME overrun \in 0..1, RowsInv, overrun' = 0 => overrun = 0, UNCHANGED status,
         \A d \in Dispatcher : held'[d] \subseteq held[d],
         \A s \in Sweeper : batch'[s] \subseteq batch[s]
  PROVE  RowsInv'
BY RowsKept

\* The dispatcher that settles or gives up a row is the only one to hold it.
LEMMA RowsWritten ==
  ASSUME TypeOK, RowsInv, overrun = 0 => LeaseInv,
         NEW d \in Dispatcher, NEW m \in held[d], NEW S, m \in S, Release(d, S),
         NEW w, w # "Absent",
         status' = [status EXCEPT ![m] = w] \/ status' = status,
         UNCHANGED <<batch, overrun>>
  PROVE  RowsInv'
<1>1. m \in Msg /\ m \notin held'[d] /\ \A c \in Dispatcher : held'[c] \subseteq held[c]
  BY DEF Release, TypeOK, RunsOK
<1>2. \A n \in Msg : status'[n] = status[n] \/ (n = m /\ status'[n] # "Absent")
  BY <1>1 DEF TypeOK, TableOK
<1>3. overrun = 0 => \A c \in Dispatcher : m \notin held'[c]
  BY <1>1 DEF LeaseInv
<1>4. overrun = 0 => \A s \in Sweeper : m \notin batch[s]
  BY DEF RowsInv
<1>5. overrun \in 0..1 /\ \A s \in Sweeper : batch[s] \subseteq Msg
  BY DEF TypeOK, SweepsOK
<1>6. \A c \in Dispatcher : held'[c] \subseteq Msg
  BY <1>1 DEF TypeOK, RunsOK
<1> QED BY SMT, <1>1, <1>2, <1>3, <1>4, <1>5, <1>6, RowsKept

LEMMA NextRows ==
  TypeOK /\ (overrun = 0 => LeaseInv) /\ RowsInv /\ [Next]_vars => RowsInv'
<1> SUFFICES ASSUME TypeOK, TableOK, RunsOK, LanesOK, SweepsOK, overrun \in 0..1,
                    overrun = 0 => LeaseInv, RowsInv, [Next]_vars
             PROVE  RowsInv'
  BY DEF TypeOK
<1>o. overrun' = 0 => overrun = 0
  BY OverrunStep
<1> USE DEF store, run, sweep
<1>1. ASSUME NEW m \in Msg, Insert(m) PROVE RowsInv'
  <2>1. UNCHANGED <<held, batch>> /\ status[m] = "Absent"
    BY <1>1 DEF Insert
  <2>2. \A n \in Msg : n # m => status'[n] = status[n]
    BY <1>1 DEF Insert, TableOK
  <2>3. \A d \in Dispatcher : \A n \in held[d] : n \in Msg /\ n # m
    BY <2>1 DEF RowsInv, RunsOK
  <2>4. \A s \in Sweeper : \A n \in batch[s] : n \in Msg /\ n # m
    BY <2>1 DEF RowsInv, SweepsOK
  <2> QED BY <1>o, <2>1, <2>2, <2>3, <2>4, RowsKept
<1>2. ASSUME NEW d \in Dispatcher, PendingScan(d) PROVE RowsInv'
  BY <1>2, <1>o, RowsQuiet DEF PendingScan
<1>3. ASSUME NEW d \in Dispatcher, PendingClaim(d) PROVE RowsInv'
  <2>1. \A c \in Dispatcher : \A n \in held'[c] : n \in held[c] \/ status[n] = "Pending"
    <3>0. PICK m \in Msg : Claims(d, m)
      BY <1>3, ClaimStep
    <3>1. CASE Due(m)
      <4>1. held' = [held EXCEPT ![d] = @ \cup {m}] /\ status[m] = "Pending"
        BY <3>0, <3>1 DEF Claims, Due
      <4> QED BY <4>1 DEF RunsOK
    <3>2. CASE ~Due(m)
      BY <3>0, <3>2 DEF Claims
    <3> QED BY <3>1, <3>2
  <2>2. UNCHANGED <<status, batch>>
    BY <1>3 DEF PendingClaim
  <2> QED BY <1>o, <2>1, <2>2, RowsKept
<1>4. ASSUME NEW d \in Dispatcher, StartLane(d) PROVE RowsInv'
  BY <1>4, <1>o, RowsQuiet DEF StartLane
<1>5. ASSUME NEW d \in Dispatcher, NEW m \in Msg, RecordAttempt(d, m) PROVE RowsInv'
  <2>1. \A c \in Dispatcher : held'[c] \subseteq held[c]
    BY <1>5, ReleaseEffect DEF RecordAttempt
  <2> QED BY <1>5, <1>o, <2>1, RowsQuiet DEF RecordAttempt
<1>6. ASSUME NEW d \in Dispatcher, NEW m \in Msg, Publish(d, m) PROVE RowsInv'
  BY <1>6, <1>o, RowsQuiet DEF Publish
<1>7. ASSUME NEW d \in Dispatcher, NEW m \in Msg, MarkPublished(d, m) PROVE RowsInv'
  <2>1. m \in held[d]
    BY <1>7 DEF MarkPublished, AtHead, Oldest, LanesOK
  <2>2. status' = [status EXCEPT ![m] = "Published"] \/ status' = status
    BY <1>7 DEF MarkPublished
  <2> QED BY <1>7, <2>1, <2>2, RowsWritten DEF MarkPublished
<1>8. ASSUME NEW d \in Dispatcher, NEW m \in Msg, ScheduleRetry(d, m) PROVE RowsInv'
  <2>1. \A c \in Dispatcher : held'[c] \subseteq held[c]
    BY <1>8, ReleaseEffect DEF ScheduleRetry
  <2> QED BY <1>8, <1>o, <2>1, RowsQuiet DEF ScheduleRetry
<1>9. ASSUME NEW d \in Dispatcher, NEW m \in Msg, MarkFailed(d, m) PROVE RowsInv'
  <2>1. m \in held[d] /\ m \in Lane(m)
    BY <1>9 DEF MarkFailed, AtHead, Oldest, LanesOK, Lane
  <2>2. status' = [status EXCEPT ![m] = "Failed"] \/ status' = status
    BY <1>9 DEF MarkFailed
  <2> QED BY <1>9, <2>1, <2>2, RowsWritten DEF MarkFailed
<1>10. ASSUME NEW d \in Dispatcher, Crash(d) PROVE RowsInv'
  <2>1. \A c \in Dispatcher : held'[c] \subseteq held[c]
    <3>1. Release(d, Msg)
      BY <1>10 DEF Crash
    <3> QED BY <3>1 DEF Release, RunsOK
  <2> QED BY <1>10, <1>o, <2>1, RowsQuiet DEF Crash
<1>11. ASSUME NEW s \in Sweeper, SweepScan(s) PROVE RowsInv'
  <2>1. \A t \in Sweeper : \A m \in batch'[t] : m \in batch[t] \/ status[m] = "Failed"
    BY <1>11, SweepScanStep DEF SweepsOK
  <2>2. UNCHANGED <<status, held>>
    BY <1>11 DEF SweepScan
  <2> QED BY <1>o, <2>1, <2>2, RowsKept
<1>12. ASSUME NEW s \in Sweeper, SweepPark(s) PROVE RowsInv'
  <2>1. \A t \in Sweeper : batch'[t] \subseteq batch[t]
    BY <1>12 DEF SweepPark, SweepsOK
  <2> QED BY <1>12, <1>o, <2>1, RowsQuiet DEF SweepPark
<1>13. ASSUME NEW s \in Sweeper, SweepMark(s) PROVE RowsInv'
  <2>1. PICK m \in Msg : /\ m \in batch[s]
                         /\ status' = status \/ status' = [status EXCEPT ![m] = "DeadLettered"]
    BY <1>13, MarkStep
  <2>2. \A t \in Sweeper : batch'[t] \subseteq batch[t]
    BY <1>13 DEF SweepMark, SweepsOK
  <2>3. UNCHANGED held
    BY <1>13 DEF SweepMark
  <2>4. \A n \in Msg : status'[n] = status[n] \/ (n = m /\ status'[n] = "DeadLettered")
    BY <2>1 DEF TableOK
  <2>5. \A d \in Dispatcher : \A n \in held[d] : n \in Msg /\ (n = m => overrun = 1)
    <3>1. overrun # 0 => overrun = 1
      BY SMT
    <3>2. overrun = 0 => status[m] \in {"Failed", "DeadLettered"}
      BY <2>1 DEF RowsInv
    <3>3. ASSUME NEW d \in Dispatcher, m \in held[d] PROVE overrun = 0 => status[m] = "Pending"
      BY <3>3 DEF RowsInv
    <3>4. "Pending" \notin {"Failed", "DeadLettered"}
      OBVIOUS
    <3>5. ASSUME NEW d \in Dispatcher PROVE m \in held[d] => overrun = 1
      BY <3>1, <3>2, <3>3, <3>4
    <3>6. \A d \in Dispatcher : held[d] \subseteq Msg
      BY DEF RunsOK
    <3> QED BY <3>5, <3>6
  <2>6. \A t \in Sweeper : batch[t] \subseteq Msg
    BY DEF SweepsOK
  <2> QED BY <1>o, <2>2, <2>3, <2>4, <2>5, <2>6, RowsKept
<1>14. CASE Tick
  BY <1>14, <1>o, RowsQuiet DEF Tick
<1>15. CASE UNCHANGED vars
  BY <1>15, <1>o, RowsQuiet DEF vars
<1> QED
  BY <1>1, <1>2, <1>3, <1>4, <1>5, <1>6, <1>7, <1>8, <1>9, <1>10, <1>11, <1>12,
     <1>13, <1>14, <1>15 DEF Next, Dispatch, DispatchOne, Sweep

-----------------------------------------------------------------------------
(* Lanes are worked on in order *)

\* A lane is the lane of each of its messages.
LEMMA LaneSame ==
  ASSUME NEW m \in Msg, NEW n \in Lane(m)
  PROVE  Lane(n) = Lane(m) /\ n \in Msg /\ m \in Lane(n)
BY DEF Lane, SameKey

\* A lane is started as a whole, and only its head is past its first stage.
LaneInv ==
  \A d \in Dispatcher : \A m \in started[d] :
    /\ held[d] \cap Lane(m) \subseteq started[d]
    /\ stage[d][m] # "Record" => AtHead(d, m)

LEMMA InitLane == Init => LaneInv
BY DEF Init, LaneInv

\* Two messages of one lane are never both past their first stage.
LEMMA OneHead ==
  ASSUME LaneInv, NEW d \in Dispatcher, NEW m \in Msg, AtHead(d, m),
         NEW n \in started[d], n \in Lane(m), stage[d][n] # "Record"
  PROVE  n = m
<1>1. Lane(n) = Lane(m)
  BY LaneSame
<1>2. n \in Oldest(started[d] \cap Lane(m)) /\ m \in Oldest(started[d] \cap Lane(m))
  BY <1>1 DEF LaneInv, AtHead
<1>3. started[d] \cap Lane(m) \subseteq Msg
  BY DEF Lane
<1> QED BY <1>2, <1>3, OldestUnique

\* A step that changes neither the claims nor the lanes and moves a head on.
LEMMA LaneKept ==
  ASSUME LaneInv, UNCHANGED <<held, started>>,
         \A d \in Dispatcher : \A m \in started[d] :
           stage'[d][m] # "Record" => stage[d][m] # "Record" \/ AtHead(d, m)
  PROVE  LaneInv'
BY DEF LaneInv, AtHead

\* A run that finishes with a whole lane, or with all it has, or with a head.
LEMMA LaneReleased ==
  ASSUME TypeOK, LaneInv, NEW d \in Dispatcher, NEW S, Release(d, S),
         \/ S = Msg
         \/ \E m \in Msg : AtHead(d, m) /\ stage[d][m] # "Record" /\ S = {m}
         \/ \E m \in Msg : S = Lane(m)
  PROVE  LaneInv'
<1>1. \A c \in Dispatcher : c # d => UNCHANGED <<held[c], started[c], stage[c]>>
  BY DEF Release, TypeOK, RunsOK
<1>2. /\ held'[d] = held[d] \ S /\ started'[d] = started[d] \ S
      /\ \A n \in Msg : stage'[d][n] = IF n \in S THEN "Record" ELSE stage[d][n]
      /\ started[d] \subseteq Msg
  BY DEF Release, TypeOK, RunsOK
<1>3. ASSUME NEW n \in started'[d], stage'[d][n] # "Record"
      PROVE  AtHead(d, n)'
  <2>1. n \in Msg /\ n \in started[d] /\ n \notin S /\ stage[d][n] # "Record"
    BY <1>2, <1>3
  <2>2. S \cap (started[d] \cap Lane(n)) = {}
    <3>1. CASE S = Msg
      BY <2>1, <3>1
    <3>2. ASSUME NEW m \in Msg, AtHead(d, m), stage[d][m] # "Record", S = {m}
          PROVE  S \cap (started[d] \cap Lane(n)) = {}
      <4>1. m \in Lane(n) => n \in Lane(m)
        BY <2>1, LaneSame
      <4>2. n # m
        BY <2>1, <3>2
      <4> QED BY <2>1, <3>2, <4>1, <4>2, OneHead
    <3>3. ASSUME NEW m \in Msg, S = Lane(m)
          PROVE  S \cap (started[d] \cap Lane(n)) = {}
      <4>1. ASSUME NEW x \in Lane(m), x \in Lane(n) PROVE FALSE
        <5>1. Lane(x) = Lane(m) /\ Lane(x) = Lane(n)
          BY <2>1, <4>1, LaneSame
        <5>2. n \in Lane(n)
          BY <2>1 DEF Lane
        <5> QED BY <2>1, <3>3, <5>1, <5>2
      <4> QED BY <3>3, <4>1
    <3> QED BY <3>1, <3>2, <3>3
  <2>3. started'[d] \cap Lane(n) = started[d] \cap Lane(n)
    BY <1>2, <2>2
  <2> QED BY <2>1, <2>3 DEF LaneInv, AtHead
<1>4. \A n \in started'[d] : held'[d] \cap Lane(n) \subseteq started'[d]
  BY <1>2 DEF LaneInv
<1>5. \A c \in Dispatcher : c # d => \A n \in started'[c] :
        /\ held'[c] \cap Lane(n) \subseteq started'[c]
        /\ stage'[c][n] # "Record" => AtHead(c, n)'
  BY <1>1 DEF LaneInv, AtHead
<1> QED BY <1>3, <1>4, <1>5 DEF LaneInv

LEMMA NextLane == TypeOK /\ LaneInv /\ [Next]_vars => LaneInv'
<1> SUFFICES ASSUME TypeOK, TableOK, RunsOK, LanesOK, LaneInv, [Next]_vars
             PROVE  LaneInv'
  BY DEF TypeOK
<1> USE DEF store, run, sweep
<1>1. ASSUME NEW d \in Dispatcher, PendingClaim(d) PROVE LaneInv'
  <2>1. UNCHANGED <<started, stage>>
    BY <1>1 DEF PendingClaim
  <2>2. started[d] = {}
    <3>1. \E m \in Msg : m \in cand[d]
      BY <1>1, ClaimStep
    <3> QED BY <3>1 DEF LanesOK
  <2>3. \A c \in Dispatcher : c # d => held'[c] = held[c]
    BY <1>1 DEF PendingClaim, RunsOK
  <2> QED BY <2>1, <2>2, <2>3 DEF LaneInv, AtHead
<1>2. ASSUME NEW d \in Dispatcher, StartLane(d) PROVE LaneInv'
  <2>1. PICK k \in Msg : /\ k \in held[d] /\ k \notin started[d]
                         /\ started' = [started EXCEPT ![d] = @ \cup (held[d] \cap Lane(k))]
    BY <1>2, LaneStep
  <2>2. UNCHANGED <<held, stage>> /\ started[d] \subseteq Msg /\ held[d] \subseteq Msg
    BY <1>2 DEF StartLane, RunsOK
  <2>3. /\ started'[d] = started[d] \cup (held[d] \cap Lane(k))
        /\ \A c \in Dispatcher : c # d => started'[c] = started[c]
    BY <2>1 DEF RunsOK
  <2>4. ASSUME NEW m \in started[d] PROVE started'[d] \cap Lane(m) = started[d] \cap Lane(m)
    <3>1. ASSUME NEW n \in held[d] \cap Lane(k), n \in Lane(m) PROVE n \in started[d]
      BY <3>1 DEF LaneInv
    <3> QED BY <2>3, <3>1
  <2>5. ASSUME NEW m \in started'[d] PROVE held[d] \cap Lane(m) \subseteq started'[d]
    <3>1. CASE m \in started[d]
      BY <2>3, <3>1 DEF LaneInv
    <3>2. CASE m \in Lane(k)
      <4>1. Lane(m) = Lane(k)
        BY <2>1, <3>2, LaneSame
      <4> QED BY <2>3, <4>1
    <3> QED BY <2>3, <2>5, <3>1, <3>2
  <2>6. \A m \in started'[d] : stage'[d][m] # "Record" => m \in started[d]
    BY <2>2, <2>3 DEF LanesOK
  <2>7. \A m \in started'[d] : stage'[d][m] # "Record" => AtHead(d, m)'
    BY <2>2, <2>4, <2>6 DEF LaneInv, AtHead
  <2>8. /\ \A m \in started[d]' : held'[d] \cap Lane(m) \subseteq started'[d]
        /\ \A c \in Dispatcher : c # d => started'[c] = started[c] /\ held'[c] = held[c] /\ stage'[c] = stage[c]
    BY <2>2, <2>3, <2>5
  <2>9. ASSUME NEW c \in Dispatcher, c # d, NEW m \in started'[c]
        PROVE  held'[c] \cap Lane(m) \subseteq started'[c] /\ (stage'[c][m] # "Record" => AtHead(c, m)')
    BY <2>8, <2>9 DEF LaneInv, AtHead
  <2> QED BY <2>7, <2>8, <2>9 DEF LaneInv
<1>3. ASSUME NEW d \in Dispatcher, NEW m \in Msg, RecordAttempt(d, m) PROVE LaneInv'
  <2>1. CASE stage' = [stage EXCEPT ![d][m] = "Publish"] /\ UNCHANGED <<held, started>>
    <3>1. \A c \in Dispatcher, n \in Msg :
            stage'[c][n] # "Record" => stage[c][n] # "Record" \/ AtHead(c, n)
      BY SMT, <1>3, <2>1, StageEffect DEF RecordAttempt
    <3> QED BY <2>1, <3>1, LaneKept DEF RunsOK
  <2>2. CASE Release(d, Lane(m))
    BY <2>2, LaneReleased
  <2> QED BY <1>3, <2>1, <2>2 DEF RecordAttempt
<1>4. ASSUME NEW d \in Dispatcher, NEW m \in Msg, Publish(d, m) PROVE LaneInv'
  <2>1. PICK st : stage' = [stage EXCEPT ![d][m] = st]
    BY <1>4 DEF Publish
  <2>2. \A c \in Dispatcher, n \in Msg :
          stage'[c][n] # "Record" => stage[c][n] # "Record" \/ AtHead(c, n)
    BY SMT, <1>4, <2>1, StageEffect DEF Publish
  <2> QED BY <1>4, <2>2, LaneKept DEF RunsOK, Publish
<1>5. ASSUME NEW d \in Dispatcher, NEW m \in Msg, MarkPublished(d, m) PROVE LaneInv'
  <2>1. AtHead(d, m) /\ stage[d][m] # "Record" /\ Release(d, {m})
    BY <1>5 DEF MarkPublished
  <2> QED BY <2>1, LaneReleased
<1>6. ASSUME NEW d \in Dispatcher, NEW m \in Msg, ScheduleRetry(d, m) \/ MarkFailed(d, m)
      PROVE  LaneInv'
  <2>1. Release(d, Lane(m))
    BY <1>6 DEF ScheduleRetry, MarkFailed
  <2> QED BY <2>1, LaneReleased
<1>7. ASSUME NEW d \in Dispatcher, Crash(d) PROVE LaneInv'
  <2>1. Release(d, Msg)
    BY <1>7 DEF Crash
  <2> QED BY <2>1, LaneReleased
<1>8. ASSUME UNCHANGED <<held, started, stage>> PROVE LaneInv'
  BY <1>8 DEF LaneInv, AtHead
<1>9. ASSUME NEW d \in Dispatcher, PendingScan(d) PROVE LaneInv'
  BY <1>8, <1>9 DEF PendingScan
<1>10. ASSUME NEW m \in Msg, Insert(m) PROVE LaneInv'
  BY <1>8, <1>10 DEF Insert
<1>11. ASSUME NEW s \in Sweeper, Sweep(s) PROVE LaneInv'
  BY <1>8, <1>11 DEF Sweep, SweepScan, SweepPark, SweepMark
<1>12. CASE Tick
  BY <1>8, <1>12 DEF Tick
<1>13. CASE UNCHANGED vars
  BY <1>8, <1>13 DEF vars
<1> QED
  BY <1>1, <1>2, <1>3, <1>4, <1>5, <1>6, <1>7, <1>9, <1>10, <1>11, <1>12, <1>13
  DEF Next, Dispatch, DispatchOne

-----------------------------------------------------------------------------
(* Copies are accounted for *)

\* The delivery of m is on record, or about to be.
Known(m) ==
  \/ status[m] = "Published"
  \/ \E d \in Dispatcher : m \in held[d] /\ stage[d][m] = "MarkPublished"

\* While runs are prompt, every copy but a known one was hidden by a fault.
SentInv ==
  overrun = 0 => \A m \in Msg :
    copies[m] <= faults + 1 /\ (~Known(m) => copies[m] <= faults)

LEMMA InitSent == Init => SentInv
BY SMT DEF Init, SentInv

\* A step that sends nothing, and forgets a delivery only in a fault.
LEMMA SentKept ==
  ASSUME TypeOK, SentInv, overrun' = 0 => overrun = 0, UNCHANGED copies,
         \/ faults' = faults + 1
         \/ faults' = faults /\ (overrun = 0 => \A m \in Msg : Known(m) => Known(m)')
  PROVE  SentInv'
<1>1. faults \in Nat /\ \A m \in Msg : copies[m] \in Nat
  BY SMT, ConfigAssumption DEF TypeOK, TableOK
<1>2. CASE faults' = faults + 1
  BY SMT, <1>1, <1>2 DEF SentInv
<1>3. CASE faults' = faults /\ (overrun = 0 => \A m \in Msg : Known(m) => Known(m)')
  BY <1>1, <1>3 DEF SentInv
<1> QED BY <1>2, <1>3

\* What a dispatcher is about to publish or to give up was sent, if at all,
\* only in deliveries that a fault hid.
LEMMA HeadUnsent ==
  ASSUME TypeOK, LanesOK, overrun = 0 => LeaseInv, RowsInv, SentInv, overrun = 0,
         NEW d \in Dispatcher, NEW m \in Msg, AtHead(d, m), stage[d][m] # "MarkPublished"
  PROVE  copies[m] <= faults
<1>1. m \in held[d]
  BY DEF AtHead, Oldest, LanesOK
<1>2. status[m] # "Published"
  BY <1>1 DEF RowsInv
<1>3. \A c \in Dispatcher : m \in held[c] => c = d
  BY <1>1 DEF LeaseInv
<1> QED BY <1>2, <1>3 DEF SentInv, Known

\* Finishing with S forgets no known delivery outside S, nor one of another run.
LEMMA KnownOutside ==
  ASSUME TypeOK, NEW d \in Dispatcher, NEW S, Release(d, S), NEW m \in Msg, Known(m),
         status'[m] = status[m],
         ~(m \in S /\ m \in held[d] /\ stage[d][m] = "MarkPublished")
  PROVE  Known(m)'
<1>1. \A c \in Dispatcher : c # d => UNCHANGED <<held[c], stage[c]>>
  BY DEF Release, TypeOK, RunsOK
<1>2. held'[d] = held[d] \ S /\ stage'[d][m] = IF m \in S THEN "Record" ELSE stage[d][m]
  BY DEF Release, TypeOK, RunsOK
<1> QED BY <1>1, <1>2 DEF Known

\* A lane that stops holds no known delivery: only its head is past its first stage.
LEMMA KnownStopped ==
  ASSUME TypeOK, LaneInv, NEW d \in Dispatcher, NEW m \in Msg, AtHead(d, m),
         stage[d][m] # "MarkPublished", Release(d, Lane(m)),
         NEW n \in Msg, Known(n), status'[n] = status[n]
  PROVE  Known(n)'
<1>1. ASSUME n \in Lane(m), stage[d][n] = "MarkPublished" PROVE FALSE
  <2>1. n \in started[d]
    BY SMT, <1>1 DEF TypeOK, LanesOK
  <2> QED BY <1>1, <2>1, OneHead
<1> QED BY SMT, <1>1, KnownOutside

LEMMA NextSent ==
  TypeOK /\ (overrun = 0 => LeaseInv) /\ RowsInv /\ LaneInv /\ SentInv /\ [Next]_vars => SentInv'
<1> SUFFICES ASSUME TypeOK, TableOK, RunsOK, LanesOK, SweepsOK, overrun = 0 => LeaseInv,
                    RowsInv, LaneInv, SentInv, [Next]_vars
             PROVE  SentInv'
  BY DEF TypeOK
<1>o. overrun' = 0 => overrun = 0
  BY OverrunStep DEF TypeOK
<1> USE DEF store, run, sweep
<1>1. ASSUME UNCHANGED <<status, held, stage, copies>>,
             faults' = faults \/ faults' = faults + 1
      PROVE  SentInv'
  <2>1. \A m \in Msg : Known(m) => Known(m)'
    BY <1>1 DEF Known
  <2> QED BY <1>o, <1>1, <2>1, SentKept
<1>2. ASSUME NEW m \in Msg, Insert(m) PROVE SentInv'
  <2>1. \A n \in Msg : status[n] = "Published" => status'[n] = "Published"
    BY <1>2 DEF Insert, TableOK
  <2>2. \A n \in Msg : Known(n) => Known(n)'
    BY SMT, <1>2, <2>1 DEF Insert, Known
  <2> QED BY SMT, <1>o, <1>2, <2>2, SentKept DEF Insert
<1>3. ASSUME NEW d \in Dispatcher, PendingClaim(d) PROVE SentInv'
  <2>1. \A c \in Dispatcher : held[c] \subseteq held'[c]
    <3>1. held' = held \/ \E m : held' = [held EXCEPT ![d] = @ \cup {m}]
      BY <1>3 DEF PendingClaim
    <3> QED BY SMT, <3>1 DEF RunsOK
  <2>2. \A n \in Msg : Known(n) => Known(n)'
    BY SMT, <1>3, <2>1 DEF PendingClaim, Known
  <2> QED BY <1>o, <1>3, <2>2, SentKept DEF PendingClaim
<1>4. ASSUME NEW d \in Dispatcher, NEW m \in Msg, RecordAttempt(d, m) PROVE SentInv'
  <2>1. UNCHANGED <<status, copies, overrun>>
    BY SMT, <1>4 DEF RecordAttempt
  <2>2. CASE /\ stage' = [stage EXCEPT ![d][m] = "Publish"]
             /\ UNCHANGED <<held, faults>>
    <3>1. \A n \in Msg : Known(n) => Known(n)'
      BY SMT, <1>4, <2>1, <2>2, StageEffect DEF RecordAttempt, Known
    <3> QED BY <1>o, <2>1, <2>2, <3>1, SentKept
  <2>3. CASE Fault
    BY <1>o, <2>1, <2>3, SentKept DEF Fault
  <2> QED BY <1>4, <2>2, <2>3 DEF RecordAttempt
<1>5. ASSUME NEW d \in Dispatcher, NEW m \in Msg, Publish(d, m) PROVE SentInv'
  <2>1. UNCHANGED <<status, held, faults, overrun>> /\ AtHead(d, m) /\ stage[d][m] = "Publish"
    BY <1>5 DEF Publish
  <2>2. PICK st : stage' = [stage EXCEPT ![d][m] = st]
    BY SMT, <1>5 DEF Publish
  <2>3. \A n \in Msg : Known(n) => Known(n)'
    BY SMT, <2>1, <2>2, StageEffect DEF Known
  <2>4. CASE UNCHANGED copies
    BY <1>o, <2>1, <2>3, <2>4, SentKept
  <2>5. CASE /\ copies' = [copies EXCEPT ![m] = @ + 1]
             /\ stage' = [stage EXCEPT ![d][m] = "MarkPublished"]
    <3>1. Known(m)'
      <4>1. m \in held'[d]
        BY <2>1 DEF AtHead, Oldest, LanesOK
      <4>2. stage'[d][m] = "MarkPublished"
        BY <2>5 DEF RunsOK
      <4> QED BY <4>1, <4>2 DEF Known
    <3>2. overrun = 0 => copies[m] <= faults
      BY <2>1, HeadUnsent
    <3>3. faults \in Nat /\ \A n \in Msg : copies[n] \in Nat
      BY SMT, ConfigAssumption DEF TableOK
    <3>4. \A n \in Msg : copies'[n] = IF n = m THEN copies[n] + 1 ELSE copies[n]
      BY <2>5 DEF TableOK
    <3>5. ASSUME overrun' = 0, NEW n \in Msg
          PROVE  copies'[n] <= faults' + 1 /\ (~Known(n)' => copies'[n] <= faults')
      <4>1. overrun = 0 /\ faults' = faults
        BY <2>1, <3>5
      <4>2. copies[n] <= faults + 1 /\ (~Known(n) => copies[n] <= faults)
        BY <4>1 DEF SentInv
      <4>3. CASE n = m
        BY SMT, <3>1, <3>2, <3>3, <3>4, <4>1, <4>3
      <4>4. CASE n # m
        BY <2>3, <3>4, <4>1, <4>2, <4>4
      <4> QED BY <4>3, <4>4
    <3> QED BY <3>5 DEF SentInv
  <2> QED BY SMT, <1>5, <2>4, <2>5 DEF Publish
<1>6. ASSUME NEW d \in Dispatcher, NEW m \in Msg, MarkPublished(d, m) PROVE SentInv'
  <2>1. UNCHANGED <<copies, overrun>> /\ Release(d, {m})
    BY <1>6 DEF MarkPublished
  <2>2. CASE Fault
    BY SMT, <1>o, <2>1, <2>2, SentKept DEF Fault
  <2>3. CASE status' = [status EXCEPT ![m] = "Published"] /\ UNCHANGED faults
    <3>1. status'[m] = "Published" /\ \A n \in Msg : n # m => status'[n] = status[n]
      BY <2>3 DEF TableOK
    <3>2. \A n \in Msg : Known(n) => Known(n)'
      <4>1. Known(m)'
        BY <3>1 DEF Known
      <4> QED BY SMTT(60), <2>1, <3>1, <4>1, KnownOutside
    <3> QED BY <1>o, <2>1, <2>3, <3>2, SentKept
  <2> QED BY <1>6, <2>2, <2>3 DEF MarkPublished
<1>7. ASSUME NEW d \in Dispatcher, NEW m \in Msg, ScheduleRetry(d, m) PROVE SentInv'
  <2>1. /\ UNCHANGED <<status, copies, overrun>> /\ Release(d, Lane(m))
        /\ AtHead(d, m) /\ stage[d][m] # "MarkPublished"
    BY <1>7 DEF ScheduleRetry
  <2>2. \A n \in Msg : Known(n) => Known(n)'
    BY <2>1, KnownStopped
  <2>3. faults' = faults \/ faults' = faults + 1
    BY <1>7 DEF ScheduleRetry, Fault
  <2> QED BY <1>o, <2>1, <2>2, <2>3, SentKept
<1>8. ASSUME NEW d \in Dispatcher, NEW m \in Msg, MarkFailed(d, m) PROVE SentInv'
  <2>1. /\ UNCHANGED <<copies, overrun>> /\ Release(d, Lane(m))
        /\ AtHead(d, m) /\ stage[d][m] # "MarkPublished"
    BY <1>8 DEF MarkFailed
  <2>2. CASE Fault
    BY SMT, <1>o, <2>1, <2>2, SentKept DEF Fault
  <2>3. CASE status' = [status EXCEPT ![m] = "Failed"] /\ UNCHANGED faults
    <3>1. \A n \in Msg : n # m => status'[n] = status[n]
      BY SMT, <2>3 DEF TableOK
    <3>2. overrun = 0 => ~Known(m)
      <4>1. m \in held[d]
        BY <2>1 DEF AtHead, Oldest, LanesOK
      <4> QED BY <2>1, <4>1 DEF Known, RowsInv, LeaseInv
    <3>3. overrun = 0 => \A n \in Msg : Known(n) => Known(n)'
      BY <2>1, <3>1, <3>2, KnownStopped
    <3> QED BY <1>o, <2>1, <2>3, <3>3, SentKept
  <2> QED BY <1>8, <2>2, <2>3 DEF MarkFailed
<1>9. ASSUME NEW d \in Dispatcher, Crash(d) PROVE SentInv'
  BY <1>9, <1>o, SentKept DEF Crash, Fault
<1>10. ASSUME NEW s \in Sweeper, SweepMark(s) PROVE SentInv'
  <2>1. UNCHANGED <<held, stage, copies, overrun>>
    BY <1>10 DEF SweepMark
  <2>2. CASE Fault
    BY <1>o, <2>1, <2>2, SentKept DEF Fault
  <2>3. ASSUME NEW m \in Oldest(batch[s]), status' = [status EXCEPT ![m] = "DeadLettered"],
               UNCHANGED faults
        PROVE  SentInv'
    <3>1. m \in batch[s] /\ m \in Msg
      BY DEF Oldest, SweepsOK
    <3>2. \A n \in Msg : n # m => status'[n] = status[n]
      BY <2>3 DEF TableOK
    <3>3. overrun = 0 => status[m] # "Published"
      BY <3>1 DEF RowsInv
    <3>4. overrun = 0 => \A n \in Msg : Known(n) => Known(n)'
      BY <2>1, <3>2, <3>3 DEF Known
    <3> QED BY <1>o, <2>1, <2>3, <3>4, SentKept
  <2> QED BY <1>10, <2>2, <2>3 DEF SweepMark
<1>11. ASSUME NEW d \in Dispatcher, PendingScan(d) \/ StartLane(d) PROVE SentInv'
  BY <1>1, <1>11 DEF PendingScan, StartLane
<1>12. ASSUME NEW s \in Sweeper, SweepScan(s) \/ SweepPark(s) PROVE SentInv'
  BY <1>1, <1>12 DEF SweepScan, SweepPark, Fault
<1>13. CASE Tick
  BY <1>1, <1>13 DEF Tick
<1>14. CASE UNCHANGED vars
  BY <1>1, <1>14 DEF vars
<1> QED
  BY <1>2, <1>3, <1>4, <1>5, <1>6, <1>7, <1>8, <1>9, <1>10, <1>11, <1>12, <1>13, <1>14
  DEF Next, Dispatch, DispatchOne, Sweep

-----------------------------------------------------------------------------
(* Every step of the outbox is a step of Delivery or leaves it alone *)

DeliveryInv ==
  TypeOK /\ DroppedInv /\ (overrun = 0 => LeaseInv) /\ RowsInv /\ LaneInv /\ SentInv

LEMMA InitDelivery == Init => DeliveryInv
BY InitTypeOK, InitDropped, InitLease, InitRows, InitLane, InitSent DEF DeliveryInv

LEMMA NextDelivery ==
  ASSUME Lease > 0
  PROVE  DeliveryInv /\ [Next]_vars => DeliveryInv'
<1> SUFFICES ASSUME DeliveryInv, [Next]_vars PROVE DeliveryInv'
  OBVIOUS
<1>1. TypeOK' /\ DroppedInv' /\ RowsInv' /\ LaneInv' /\ SentInv'
  BY NextTypeOK, NextDropped, NextRows, NextLane, NextSent DEF DeliveryInv
<1>2. ASSUME overrun' = 0 PROVE LeaseInv'
  <2>1. overrun = 0
    BY <1>2, OverrunStep DEF DeliveryInv, TypeOK
  <2> QED BY <1>2, <2>1, NextLease DEF DeliveryInv
<1> QED BY <1>1, <1>2 DEF DeliveryInv

LEMMA DeliveryStep == DeliveryInv /\ [Next]_vars => [D!Next]_(D!vars)
<1> SUFFICES ASSUME TypeOK, LanesOK, SweepsOK, overrun \in 0..1, DroppedInv,
                    overrun = 0 => LeaseInv, RowsInv, SentInv, [Next]_vars
             PROVE  D!Next \/ UNCHANGED D!vars
  BY DEF DeliveryInv, TypeOK
<1>s. \A m \in Msg : D!Store(m) \/ D!Send(m) \/ D!Settle(m) \/ D!GiveUp(m) \/ D!Park(m)
                      \/ D!Bury(m) => D!Next
  BY DEF D!Next
<1>f. Fault /\ UNCHANGED <<status, copies, parked, overrun>> => D!Next
  BY DEF Fault, D!Next, D!Fail
<1>r. overrun # 0 => overrun = 1
  BY SMT DEF TypeOK, TableOK
<1> USE DEF store, run, sweep, D!vars, D!Become, D!Open
<1>1. ASSUME NEW m \in Msg, Insert(m) PROVE D!Next
  BY <1>1, <1>s DEF Insert, D!Store
<1>2. ASSUME NEW d \in Dispatcher, PendingScan(d) \/ PendingClaim(d) \/ StartLane(d) \/ Crash(d)
      PROVE  D!Next \/ UNCHANGED D!vars
  BY <1>2, <1>f DEF PendingScan, PendingClaim, StartLane, Crash
<1>3. ASSUME NEW d \in Dispatcher, NEW m \in Msg, RecordAttempt(d, m) \/ ScheduleRetry(d, m)
      PROVE  D!Next \/ UNCHANGED D!vars
  BY <1>3, <1>f DEF RecordAttempt, ScheduleRetry
<1>4. ASSUME NEW d \in Dispatcher, NEW m \in Msg, AtHead(d, m)
      PROVE  D!Open(m, {"Pending"}) /\ (stage[d][m] # "MarkPublished" => D!Unsent(m))
  <2>1. m \in held[d]
    BY <1>4 DEF AtHead, Oldest, LanesOK
  <2>2. D!Open(m, {"Pending"})
    BY <1>r, <2>1 DEF RowsInv
  <2>3. stage[d][m] # "MarkPublished" => (overrun = 0 => copies[m] <= faults)
    BY <1>4, HeadUnsent
  <2> QED BY <2>2, <2>3 DEF D!Unsent
<1>5. ASSUME NEW s \in Sweeper, NEW m \in Oldest(batch[s])
      PROVE  m \in Msg /\ D!Open(m, {"Failed", "DeadLettered"})
  <2>1. m \in batch[s] /\ m \in Msg
    BY <1>5 DEF SweepsOK, Oldest
  <2> QED BY <1>r, <2>1 DEF RowsInv
<1>6. ASSUME NEW d \in Dispatcher, NEW m \in Msg, Publish(d, m)
      PROVE  D!Next \/ UNCHANGED D!vars
  BY <1>6, <1>4, <1>s DEF Publish, D!Send
<1>7. ASSUME NEW d \in Dispatcher, NEW m \in Msg, MarkPublished(d, m)
      PROVE  D!Next \/ UNCHANGED D!vars
  BY <1>7, <1>4, <1>s, <1>f DEF MarkPublished, D!Settle, DroppedInv
<1>8. ASSUME NEW d \in Dispatcher, NEW m \in Msg, MarkFailed(d, m)
      PROVE  D!Next \/ UNCHANGED D!vars
  BY <1>8, <1>4, <1>s, <1>f DEF MarkFailed, D!GiveUp
<1>9. ASSUME NEW s \in Sweeper, SweepScan(s) PROVE UNCHANGED D!vars
  BY SMT, <1>9 DEF SweepScan
<1>10. ASSUME NEW s \in Sweeper, SweepPark(s) PROVE D!Next \/ UNCHANGED D!vars
  BY <1>10, <1>5, <1>s, <1>f DEF SweepPark, D!Park
<1>11. ASSUME NEW s \in Sweeper, SweepMark(s) PROVE D!Next \/ UNCHANGED D!vars
  BY <1>11, <1>5, <1>s, <1>f DEF SweepMark, SweepsOK, D!Bury, DroppedInv
<1>12. CASE Tick
  BY <1>12 DEF Tick, D!Next, D!Overrun
<1>13. CASE UNCHANGED vars
  BY <1>13 DEF vars
<1> QED
  BY <1>1, <1>2, <1>3, <1>6, <1>7, <1>8, <1>9, <1>10, <1>11, <1>12, <1>13
  DEF Next, Dispatch, DispatchOne, Sweep

\* The outbox keeps Delivery's promise for any number of messages, dispatchers
\* and sweeps: whatever fails and whoever crashes, a row is sent only while it
\* is pending, settled only after it was sent, buried only after it was parked,
\* and final once settled, until some run outlives its leases.
THEOREM OutboxImplementsDelivery ==
  ASSUME Lease > 0
  PROVE  Spec => ImplementsDelivery
<1>1. Init => D!Init
  BY DEF Init, D!Init
<1>2. DeliveryInv /\ [Next]_vars => DeliveryInv'
  BY NextDelivery
<1> QED BY <1>1, <1>2, InitDelivery, DeliveryStep, PTL DEF Spec, ImplementsDelivery, D!Spec

\* The broker receives a message once, plus once for every error or crash that
\* hid a delivery, for any number of dispatchers, as long as no run is late.
THEOREM DuplicatesAreBounded ==
  ASSUME Lease > 0
  PROVE  Spec => []DuplicatesBounded
<1>1. DeliveryInv /\ [Next]_vars => DeliveryInv'
  BY NextDelivery
<1>2. DeliveryInv => DuplicatesBounded
  <2> SUFFICES ASSUME DeliveryInv PROVE DuplicatesBounded
    OBVIOUS
  <2>1. faults \in Nat /\ \A m \in Msg : copies[m] \in Nat
    BY SMT, ConfigAssumption DEF DeliveryInv, TypeOK, TableOK
  <2> QED BY SMT, <2>1 DEF DeliveryInv, SentInv, DuplicatesBounded
<1> QED BY <1>1, <1>2, InitDelivery, PTL DEF Spec
=============================================================================
