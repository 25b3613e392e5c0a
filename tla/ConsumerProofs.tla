--------------------------- MODULE ConsumerProofs ---------------------------
(***************************************************************************)
(* Proofs about the workers of IdempotentConsumer whose handler is an      *)
(* event bus, for any messages, workers, retry policies, handlers and      *)
(* bounds.  A step of ConsumerBus is a step of IdempotentConsumer, so what *)
(* is an invariant of the workers holds of it.                             *)
(*                                                                         *)
(* NothingLost rests on what a completed record stands for (DoneInv).      *)
(* HandledOnce rests on the record that a worker at work holds: it is      *)
(* `processing`, its lease is not over, and nobody else works on it        *)
(* (HoldInv); every effect but the recorded one is owed to a fault         *)
(* (OnceInv).  The bound on the handler starts and the dead letters of a   *)
(* message counts over its whole history, which no variable keeps copy by  *)
(* copy: there is always a ledger (Book) that says what each published     *)
(* copy has cost so far, and every step keeps one (LedgerInv).             *)
(* EveryHandlerReached and BusRetryBounded rest on what holds of every     *)
(* call of the bus that is under way (CallInv).                            *)
(*                                                                         *)
(* Zenon is the default prover; the leaves that need arithmetic name SMT.  *)
(***************************************************************************)
EXTENDS Integers, ConsumerBus, WellFoundedInduction, TLAPS

USE Zenon


Copy == [msg : Msg, attempt : Nat]
Pcs == {"Idle", "Begin", "Handle", "MarkCompleted", "MarkFailed", "DeadLetter", "Ack", "Requeue",
        "Reject"}

\* The types the proofs use.
ConsumerType ==
  /\ queue \in Seq(Copy)
  /\ sent \in [Msg -> Nat] /\ effects \in [Msg -> Nat] /\ dead \in [Msg -> Nat]
  /\ rec \in [Msg -> {"Absent", "Processing", "Completed", "Failed"}] /\ lease \in [Msg -> Nat]
  /\ pc \in [Worker -> Pcs] /\ msg \in [Worker -> Msg] /\ attempt \in [Worker -> Nat]
  /\ faults \in Nat

\* A record is completed, and a worker is about to complete one, only for a
\* message that was handled.
DoneInv ==
  /\ \A m \in Msg : rec[m] = "Completed" => effects[m] > 0
  /\ \A w \in Worker : pc[w] = "MarkCompleted" => effects[msg[w]] > 0

LostInv == ConsumerType /\ DoneInv /\ NothingLost

Queued(m) == \E i \in 1..Len(queue) : queue[i].msg = m
Held(m) == \E w \in Worker : pc[w] \notin {"Idle", "Ack", "Reject"} /\ msg[w] = m

-----------------------------------------------------------------------------
(* The queue *)

LEMMA AnyMsgIsMsg == AnyMsg \in Msg
BY ConsumerAssumption DEF AnyMsg

LEMMA Appended ==
  ASSUME queue \in Seq(Copy), NEW x \in Copy, queue' = Append(queue, x)
  PROVE  /\ queue' \in Seq(Copy)
         /\ \A m : Queued(m) \/ x.msg = m => Queued(m)'
<1>1. /\ queue' \in Seq(Copy) /\ Len(queue') = Len(queue) + 1 /\ Len(queue) \in Nat
      /\ \A i \in 1..Len(queue) : queue'[i] = queue[i]
      /\ queue'[Len(queue) + 1] = x
  BY SMT
<1>2. ASSUME NEW m, Queued(m) PROVE Queued(m)'
  <2>1. PICK i \in 1..Len(queue) : queue[i].msg = m
    BY <1>2 DEF Queued
  <2>2. i \in 1..Len(queue') /\ queue'[i].msg = m
    BY SMT, <1>1, <2>1
  <2>3. QED
    BY <2>2 DEF Queued
<1>3. ASSUME NEW m, x.msg = m PROVE Queued(m)'
  <2>1. Len(queue) + 1 \in 1..Len(queue')
    BY SMT, <1>1
  <2>2. QED
    BY <1>1, <1>3, <2>1 DEF Queued
<1>4. QED
  BY <1>1, <1>2, <1>3

LEMMA Taken ==
  ASSUME queue \in Seq(Copy), queue # <<>>, queue' = Tail(queue)
  PROVE  /\ queue' \in Seq(Copy) /\ Head(queue) \in Copy
         /\ \A m : Queued(m) => Head(queue).msg = m \/ Queued(m)'
<1>1. /\ queue' \in Seq(Copy) /\ Len(queue') = Len(queue) - 1 /\ Len(queue) \in Nat
      /\ Len(queue) > 0 /\ Head(queue) = queue[1] /\ Head(queue) \in Copy
      /\ \A i \in 1..Len(queue') : queue'[i] = queue[i + 1]
  BY SMT
<1>2. ASSUME NEW m, Queued(m), Head(queue).msg # m PROVE Queued(m)'
  <2>1. PICK i \in 1..Len(queue) : queue[i].msg = m
    BY <1>2 DEF Queued
  <2>2. i # 1
    BY <1>1, <1>2, <2>1
  <2>3. i - 1 \in 1..Len(queue') /\ queue'[i - 1] = queue[i]
    BY SMT, <1>1, <2>2
  <2>4. QED
    BY <2>1, <2>3 DEF Queued
<1>3. QED
  BY <1>1, <1>2

-----------------------------------------------------------------------------
(* Nothing is lost *)

LEMMA InitLost == Init => LostInv
<1> SUFFICES ASSUME Init PROVE LostInv
  OBVIOUS
<1>1. ConsumerType
  BY SMT, AnyMsgIsMsg, ConsumerAssumption DEF Init, ConsumerType, Pcs
<1>2. DoneInv /\ NothingLost
  BY AnyMsgIsMsg DEF Init, DoneInv, NothingLost
<1>3. QED
  BY <1>1, <1>2 DEF LostInv

\* What NothingLost says of one message.
Safe(m) == Queued(m) \/ Held(m) \/ (rec[m] = "Completed" /\ effects[m] > 0) \/ dead[m] > 0

LEMMA LostIsSafe == NothingLost <=> (Redelivers => \A m \in Msg : sent[m] > 0 => Safe(m))
BY DEF NothingLost, Safe, InFlight, Queued, Held

LEMMA GotoType ==
  ASSUME pc \in [Worker -> Pcs], NEW w \in Worker, NEW l \in Pcs, Goto(w, l)
  PROVE  pc' \in [Worker -> Pcs]
BY DEF Goto

LEMMA ReturnType ==
  ASSUME ConsumerType, NEW w \in Worker, Return(w)
  PROVE  pc' \in [Worker -> Pcs] /\ msg' \in [Worker -> Msg] /\ attempt' \in [Worker -> Nat]
<1>1. "Idle" \in Pcs
  BY DEF Pcs
<1>2. pc' \in [Worker -> Pcs]
  BY <1>1, GotoType DEF Return, ConsumerType
<1>3. msg' \in [Worker -> Msg] /\ attempt' \in [Worker -> Nat]
  BY AnyMsgIsMsg DEF Return, ConsumerType
<1>4. QED
  BY <1>2, <1>3

LEMMA TypeStep == ConsumerType /\ [Next]_vars => ConsumerType'
<1> SUFFICES ASSUME ConsumerType, [Next]_vars PROVE ConsumerType'
  OBVIOUS
<1> DEFINE Recs == {"Absent", "Processing", "Completed", "Failed"}
<1>a. /\ rec \in [Msg -> Recs] /\ lease \in [Msg -> Nat] /\ effects \in [Msg -> Nat]
      /\ \A w \in Worker : msg[w] \in Msg
  BY DEF ConsumerType
<1>1. ASSUME NEW m \in Msg, Publish(m) PROVE ConsumerType'
  <2>1. [msg |-> m, attempt |-> 1] \in Copy
    BY DEF Copy
  <2>2. queue' \in Seq(Copy)
    BY <1>1, <2>1, Appended DEF Publish, ConsumerType
  <2>3. QED
    BY SMT, <1>1, <2>2 DEF Publish, ConsumerType, inbox, worker
<1>2. ASSUME NEW w \in Worker, Receive(w) PROVE ConsumerType'
  <2>1. queue' \in Seq(Copy) /\ Head(queue) \in Copy
    BY <1>2, Taken DEF Receive, ConsumerType
  <2>2. Head(queue).msg \in Msg /\ Head(queue).attempt \in Nat
    BY <2>1 DEF Copy
  <2>3. QED
    BY <1>2, <2>1, <2>2 DEF Receive, ConsumerType, Goto, inbox, Pcs
<1>3. ASSUME NEW w \in Worker, Begin(w) PROVE ConsumerType'
  <2>1. \E l \in {"Handle", "Ack", "Requeue"} : Goto(w, l)
    BY <1>3 DEF Begin, Start, Skip
  <2>2. pc' \in [Worker -> Pcs]
    BY SMT, <2>1, GotoType DEF ConsumerType, Pcs
  <2>3. rec' \in [Msg -> Recs] /\ lease' \in [Msg -> Nat]
    <3>1. Take(msg[w]) \/ UNCHANGED inbox
      BY <1>3 DEF Begin
    <3>2. QED
      BY SMT, <1>a, <3>1, ConsumerAssumption DEF Take, inbox
  <2>4. UNCHANGED <<broker, msg, attempt, effects, dead, faults>>
    BY <1>3 DEF Begin
  <2>5. QED
    BY <2>2, <2>3, <2>4 DEF ConsumerType, broker
<1>4. ASSUME NEW w \in Worker, HandlerOk(w) \/ HandlerErr(w) PROVE ConsumerType'
  <2>1. \E l \in {"MarkCompleted", "MarkFailed"} : Goto(w, l)
    BY <1>4 DEF HandlerOk, HandlerErr
  <2>2. pc' \in [Worker -> Pcs]
    BY <2>1, GotoType DEF ConsumerType, Pcs
  <2>3. effects' \in [Msg -> Nat]
    BY SMT, <1>4, <1>a DEF HandlerOk, HandlerErr
  <2>4. UNCHANGED <<broker, inbox, msg, attempt, dead, faults>>
    BY <1>4 DEF HandlerOk, HandlerErr
  <2>5. QED
    BY <2>2, <2>3, <2>4 DEF ConsumerType, broker, inbox
<1>5. ASSUME NEW w \in Worker, MarkCompleted(w) \/ MarkFailed(w) PROVE ConsumerType'
  <2>1. \E l \in {"Ack", "DeadLetter", "Requeue"} : Goto(w, l)
    BY <1>5 DEF MarkCompleted, MarkFailed, Decide
  <2>2. pc' \in [Worker -> Pcs]
    BY SMT, <2>1, GotoType DEF ConsumerType, Pcs
  <2>3. rec' \in [Msg -> Recs] /\ lease' \in [Msg -> Nat]
    BY SMT, <1>5, <1>a DEF MarkCompleted, MarkFailed
  <2>4. UNCHANGED <<broker, msg, attempt, effects, dead, faults>>
    BY <1>5 DEF MarkCompleted, MarkFailed
  <2>5. QED
    BY <2>2, <2>3, <2>4 DEF ConsumerType, broker
<1>6. ASSUME NEW w \in Worker, DeadLetter(w) PROVE ConsumerType'
  BY SMT, <1>6 DEF DeadLetter, Goto, ConsumerType, Pcs, broker, inbox
<1>7. ASSUME NEW w \in Worker, Ack(w) \/ Reject(w) PROVE ConsumerType'
  <2>1. pc' \in [Worker -> Pcs] /\ msg' \in [Worker -> Msg] /\ attempt' \in [Worker -> Nat]
    BY <1>7, ReturnType DEF Ack, Reject
  <2>2. UNCHANGED <<queue, sent, inbox, effects, dead, faults>>
    BY <1>7 DEF Ack, Reject, broker
  <2>3. QED
    BY <2>1, <2>2 DEF ConsumerType, inbox
<1>8. ASSUME NEW w \in Worker, Requeue(w) \/ Abandon(w) PROVE ConsumerType'
  <2>1. pc' \in [Worker -> Pcs] /\ msg' \in [Worker -> Msg] /\ attempt' \in [Worker -> Nat]
    BY <1>8, ReturnType DEF Requeue, Abandon
  <2>2. \A a \in Nat : [msg |-> msg[w], attempt |-> a] \in Copy
    BY DEF Copy, ConsumerType
  <2>3. \/ queue' = queue
        \/ \E a \in Nat : queue' = Append(queue, [msg |-> msg[w], attempt |-> a])
    BY SMT, <1>8 DEF Requeue, Abandon, ConsumerType
  <2>4. queue' \in Seq(Copy)
    BY <2>2, <2>3, Appended DEF ConsumerType
  <2>5. faults' \in Nat
    BY SMT, <1>8 DEF Requeue, Abandon, ConsumerType
  <2>6. QED
    BY <1>8, <2>1, <2>4, <2>5 DEF Requeue, Abandon, ConsumerType, inbox
<1>9. CASE Tick
  BY SMT, <1>9 DEF Tick, ConsumerType, broker, worker
<1>10. CASE UNCHANGED vars
  BY <1>10 DEF vars, ConsumerType, broker, inbox, worker
<1>11. QED
  BY <1>1, <1>2, <1>3, <1>4, <1>5, <1>6, <1>7, <1>8, <1>9, <1>10 DEF Next, Process

-----------------------------------------------------------------------------
(* What a step of a worker leaves to the others *)

Others(w) == \A v \in Worker \ {w} : pc'[v] = pc[v] /\ msg'[v] = msg[v]

LEMMA GotoEffect ==
  ASSUME ConsumerType, NEW w \in Worker, NEW l, Goto(w, l), UNCHANGED msg
  PROVE  pc'[w] = l /\ msg'[w] = msg[w] /\ Others(w)
<1>1. pc \in [Worker -> Pcs]
  BY DEF ConsumerType
<1>2. QED
  BY <1>1 DEF Goto, Others

LEMMA ReturnEffect ==
  ASSUME ConsumerType, NEW w \in Worker, Return(w)
  PROVE  pc'[w] = "Idle" /\ Others(w)
<1>1. pc \in [Worker -> Pcs] /\ msg \in [Worker -> Msg]
  BY DEF ConsumerType
<1>2. QED
  BY <1>1 DEF Return, Goto, Others

LEMMA DecisionMeans ==
  ASSUME ConsumerType, NEW m \in Msg
  PROVE  /\ Decision(m) = "StartProcessing" => rec[m] \in {"Absent", "Processing"}
         /\ Decision(m) = "AlreadyCompleted" => rec[m] = "Completed"
<1>1. rec[m] \in {"Absent", "Processing", "Completed", "Failed"} /\ lease[m] \in Nat
  BY DEF ConsumerType
<1>2. QED
  BY SMT, <1>1 DEF Decision

-----------------------------------------------------------------------------
(* A completed record stands for a handled message *)

LEMMA DoneKept ==
  ASSUME DoneInv, NEW w \in Worker, Others(w), pc'[w] # "MarkCompleted", UNCHANGED effects,
         \A m \in Msg : rec'[m] = "Completed" => rec[m] = "Completed" \/ effects[m] > 0
  PROVE  DoneInv'
BY DEF DoneInv, Others

LEMMA NextDone ==
  ASSUME ConsumerType, DoneInv, [Next]_vars
  PROVE  DoneInv'
<1>a. /\ rec \in [Msg -> {"Absent", "Processing", "Completed", "Failed"}]
      /\ effects \in [Msg -> Nat] /\ \A w \in Worker : msg[w] \in Msg
  BY DEF ConsumerType
<1>1. ASSUME UNCHANGED <<rec, effects, pc, msg>> PROVE DoneInv'
  BY <1>1 DEF DoneInv
<1>2. ASSUME NEW w \in Worker, Receive(w) PROVE DoneInv'
  <2>1. UNCHANGED <<rec, effects>> /\ Others(w) /\ pc'[w] = "Begin"
    BY <1>2 DEF Receive, ConsumerType, Goto, Others, inbox
  <2>2. QED
    BY <2>1, DoneKept
<1>3. ASSUME NEW w \in Worker, Begin(w) PROVE DoneInv'
  <2>1. \E l \in {"Handle", "Ack", "Requeue"} : Goto(w, l)
    BY <1>3 DEF Begin, Start, Skip
  <2>2. UNCHANGED <<effects, msg>>
    BY <1>3 DEF Begin
  <2>3. Others(w) /\ pc'[w] # "MarkCompleted"
    BY <2>1, <2>2, GotoEffect
  <2>4. Take(msg[w]) \/ UNCHANGED rec
    BY <1>3 DEF Begin, inbox
  <2>5. \A m \in Msg : rec'[m] = "Completed" => rec[m] = "Completed"
    BY <1>a, <2>4 DEF Take
  <2>6. QED
    BY <2>2, <2>3, <2>5, DoneKept
<1>4. ASSUME NEW w \in Worker, HandlerOk(w) PROVE DoneInv'
  <2>1. UNCHANGED <<rec, msg>> /\ Others(w)
    BY <1>4, GotoEffect DEF HandlerOk, inbox
  <2>2. effects' = [effects EXCEPT ![msg[w]] = @ + 1]
    BY <1>4 DEF HandlerOk
  <2>3. \A m \in Msg : (effects[m] > 0 => effects'[m] > 0) /\ (m = msg[w] => effects'[m] > 0)
    BY SMT, <1>a, <2>2
  <2>4. QED
    BY <1>a, <2>1, <2>3 DEF DoneInv, Others
<1>5. ASSUME NEW w \in Worker, HandlerErr(w) \/ DeadLetter(w) PROVE DoneInv'
  <2>1. UNCHANGED <<rec, effects, msg>> /\ \E l \in {"MarkFailed", "Reject"} : Goto(w, l)
    BY <1>5 DEF HandlerErr, DeadLetter, inbox
  <2>2. Others(w) /\ pc'[w] # "MarkCompleted"
    BY <2>1, GotoEffect
  <2>3. QED
    BY <2>1, <2>2, DoneKept
<1>6. ASSUME NEW w \in Worker, MarkCompleted(w) \/ MarkFailed(w) PROVE DoneInv'
  <2>1. UNCHANGED <<effects, msg>> /\ \E l \in {"Ack", "DeadLetter", "Requeue"} : Goto(w, l)
    BY <1>6 DEF MarkCompleted, MarkFailed, Decide
  <2>2. Others(w) /\ pc'[w] # "MarkCompleted"
    BY <2>1, GotoEffect
  <2>3. \/ effects[msg[w]] > 0 /\ rec' = [rec EXCEPT ![msg[w]] = "Completed"]
        \/ rec' = [rec EXCEPT ![msg[w]] = "Failed"]
    BY <1>6 DEF MarkCompleted, MarkFailed, DoneInv
  <2>4. \A m \in Msg : rec'[m] = "Completed" => rec[m] = "Completed" \/ effects[m] > 0
    BY <1>a, <2>3
  <2>5. QED
    BY <2>1, <2>2, <2>4, DoneKept
<1>7. ASSUME NEW w \in Worker, Ack(w) \/ Requeue(w) \/ Reject(w) \/ Abandon(w) PROVE DoneInv'
  <2>1. UNCHANGED <<rec, effects>> /\ Return(w)
    BY <1>7 DEF Ack, Requeue, Reject, Abandon, inbox
  <2>2. Others(w) /\ pc'[w] # "MarkCompleted"
    BY <2>1, ReturnEffect
  <2>3. QED
    BY <2>1, <2>2, DoneKept
<1>8. ASSUME NEW m \in Msg, Publish(m) PROVE DoneInv'
  BY <1>1, <1>8 DEF Publish, inbox, worker
<1>9. CASE Tick \/ UNCHANGED vars
  BY <1>1, <1>9 DEF Tick, vars, inbox, worker
<1>10. QED
  BY <1>2, <1>3, <1>4, <1>5, <1>6, <1>7, <1>8, <1>9 DEF Next, Process

-----------------------------------------------------------------------------
(* A message stays safe *)

HeldBy(w, m) == pc[w] \notin {"Idle", "Ack", "Reject"} /\ msg[w] = m

LEMMA HeldKept ==
  ASSUME NEW w \in Worker, NEW m, Others(w), HeldBy(w, m) => HeldBy(w, m)', Held(m)
  PROVE  Held(m)'
<1>1. PICK v \in Worker : HeldBy(v, m)
  BY DEF Held, HeldBy
<1>2. HeldBy(v, m)'
  BY <1>1 DEF Others, HeldBy
<1>3. QED
  BY <1>2 DEF Held, HeldBy

LEMMA NextSafe ==
  ASSUME ConsumerType, DoneInv, Redelivers, [Next]_vars,
         NEW m \in Msg, sent[m] > 0 => Safe(m), sent'[m] > 0
  PROVE  Safe(m)'
<1>a. /\ rec \in [Msg -> {"Absent", "Processing", "Completed", "Failed"}]
      /\ effects \in [Msg -> Nat] /\ dead \in [Msg -> Nat]
      /\ \A w \in Worker : msg[w] \in Msg
  BY DEF ConsumerType
<1>b. ASSUME NEW n \in Msg, Publish(n) PROVE Safe(m)'
  <2>1. /\ queue' = Append(queue, [msg |-> n, attempt |-> 1])
        /\ sent' = [sent EXCEPT ![n] = @ + 1]
        /\ UNCHANGED <<rec, effects, dead, pc, msg>>
    BY <1>b DEF Publish, inbox, worker
  <2>2. [msg |-> n, attempt |-> 1] \in Copy /\ queue \in Seq(Copy)
    BY DEF Copy, ConsumerType
  <2>3. Queued(m) \/ n = m => Queued(m)'
    BY <2>1, <2>2, Appended
  <2>4. n # m => sent'[m] = sent[m]
    BY <2>1 DEF ConsumerType
  <2>5. QED
    BY <2>1, <2>3, <2>4 DEF Safe, Held
<1> SUFFICES ASSUME ~\E n \in Msg : Publish(n) PROVE Safe(m)'
  BY <1>b
<1>c. Safe(m)
  BY DEF Next, Receive, Process, Begin, HandlerOk, HandlerErr, MarkCompleted, MarkFailed,
     DeadLetter, Ack, Requeue, Reject, Abandon, Tick, vars, broker
<1>1. ASSUME NEW w \in Worker, Receive(w) PROVE Safe(m)'
  <2>1. /\ pc[w] = "Idle" /\ queue # <<>> /\ queue' = Tail(queue) /\ queue \in Seq(Copy)
        /\ UNCHANGED <<rec, effects, dead>>
    BY <1>1 DEF Receive, inbox, ConsumerType
  <2>2. Others(w) /\ pc'[w] = "Begin" /\ msg'[w] = Head(queue).msg
    BY <1>1 DEF Receive, ConsumerType, Goto, Others
  <2>3. Queued(m) => Head(queue).msg = m \/ Queued(m)'
    BY <2>1, Taken
  <2>4. Head(queue).msg = m => Held(m)'
    BY <2>2 DEF Held
  <2>5. Held(m) => Held(m)'
    BY <2>1, <2>2, HeldKept DEF HeldBy
  <2>6. QED
    BY <1>c, <2>1, <2>3, <2>4, <2>5 DEF Safe
<1>2. ASSUME NEW w \in Worker, Begin(w) PROVE Safe(m)'
  <2>1. pc[w] = "Begin" /\ UNCHANGED <<queue, msg, effects, dead>> /\ msg[w] \in Msg
    BY <1>2, <1>a DEF Begin, broker
  <2>2. \/ Goto(w, "Handle") /\ Take(msg[w]) /\ rec[msg[w]] # "Completed"
        \/ (Goto(w, "Handle") \/ Goto(w, "Requeue")) /\ UNCHANGED rec
        \/ Goto(w, "Ack") /\ UNCHANGED rec /\ rec[msg[w]] = "Completed"
    BY <1>2, <2>1, DecisionMeans DEF Begin, Start, Skip, inbox
  <2>3. rec[m] = "Completed" => rec'[m] = "Completed"
    BY <1>a, <2>1, <2>2 DEF Take
  <2>4. Others(w) /\ msg'[w] = msg[w]
    BY <2>1, <2>2, GotoEffect
  <2>5. CASE Goto(w, "Ack") /\ UNCHANGED rec /\ rec[msg[w]] = "Completed"
    <3>1. msg[w] = m => rec'[m] = "Completed" /\ effects'[m] > 0
      BY <2>1, <2>5 DEF DoneInv
    <3>2. msg[w] # m => (Held(m) => Held(m)')
      BY <2>4, HeldKept DEF HeldBy
    <3>3. Queued(m) => Queued(m)'
      BY <2>1 DEF Queued
    <3>4. QED
      BY <1>c, <2>1, <2>3, <3>1, <3>2, <3>3 DEF Safe
  <2>6. CASE Goto(w, "Handle") \/ Goto(w, "Requeue")
    <3>1. pc'[w] \in {"Handle", "Requeue"}
      BY <2>1, <2>6, GotoEffect
    <3>2. Held(m) => Held(m)'
      BY <2>4, <3>1, HeldKept DEF HeldBy
    <3>3. Queued(m) => Queued(m)'
      BY <2>1 DEF Queued
    <3>4. QED
      BY <1>c, <2>1, <2>3, <3>2, <3>3 DEF Safe
  <2>7. QED
    BY <2>2, <2>5, <2>6
<1>3. ASSUME NEW w \in Worker, HandlerOk(w) \/ HandlerErr(w) PROVE Safe(m)'
  <2>1. /\ UNCHANGED <<queue, msg, rec, dead>>
        /\ Goto(w, "MarkCompleted") \/ Goto(w, "MarkFailed")
    BY <1>3 DEF HandlerOk, HandlerErr, broker, inbox
  <2>2. effects[m] > 0 => effects'[m] > 0
    <3>1. UNCHANGED effects \/ effects' = [effects EXCEPT ![msg[w]] = @ + 1]
      BY <1>3 DEF HandlerOk, HandlerErr
    <3>2. QED
      BY SMT, <1>a, <3>1
  <2>3. Others(w) /\ msg'[w] = msg[w] /\ pc'[w] \in {"MarkCompleted", "MarkFailed"}
    BY <2>1, GotoEffect
  <2>4. Held(m) => Held(m)'
    BY <2>3, HeldKept DEF HeldBy
  <2>5. QED
    BY <1>c, <2>1, <2>2, <2>4 DEF Safe, Queued
<1>4. ASSUME NEW w \in Worker, MarkCompleted(w) PROVE Safe(m)'
  <2>1. /\ pc[w] = "MarkCompleted" /\ UNCHANGED <<queue, msg, effects, dead>>
        /\ Goto(w, "Ack") /\ rec' = [rec EXCEPT ![msg[w]] = "Completed"]
    BY <1>4 DEF MarkCompleted, broker
  <2>2. Others(w)
    BY <2>1, GotoEffect
  <2>3. msg[w] = m => rec'[m] = "Completed" /\ effects'[m] > 0
    BY <1>a, <2>1 DEF DoneInv
  <2>4. msg[w] # m => rec'[m] = rec[m] /\ (Held(m) => Held(m)')
    BY <1>a, <2>1, <2>2, HeldKept DEF HeldBy
  <2>5. QED
    BY <1>c, <2>1, <2>3, <2>4 DEF Safe, Queued
<1>5. ASSUME NEW w \in Worker, MarkFailed(w) PROVE Safe(m)'
  <2>1. /\ pc[w] = "MarkFailed" /\ UNCHANGED <<queue, msg, effects, dead>>
        /\ Goto(w, "DeadLetter") \/ Goto(w, "Requeue")
        /\ rec' = [rec EXCEPT ![msg[w]] = "Failed"]
    BY <1>5 DEF MarkFailed, Decide, broker
  <2>2. Others(w) /\ msg'[w] = msg[w] /\ pc'[w] \in {"DeadLetter", "Requeue"}
    BY <2>1, GotoEffect
  <2>3. Held(m) => Held(m)'
    BY <2>2, HeldKept DEF HeldBy
  <2>4. msg[w] = m => Held(m)'
    BY <2>2 DEF Held
  <2>5. msg[w] # m => rec'[m] = rec[m]
    BY <1>a, <2>1
  <2>6. QED
    BY <1>c, <2>1, <2>3, <2>4, <2>5 DEF Safe, Queued
<1>6. ASSUME NEW w \in Worker, DeadLetter(w) PROVE Safe(m)'
  <2>1. /\ UNCHANGED <<queue, msg, rec, effects>> /\ Goto(w, "Reject")
        /\ dead' = [dead EXCEPT ![msg[w]] = @ + 1]
    BY <1>6 DEF DeadLetter, broker, inbox
  <2>2. Others(w)
    BY <2>1, GotoEffect
  <2>3. (dead[m] > 0 => dead'[m] > 0) /\ (msg[w] = m => dead'[m] > 0)
    BY SMT, <1>a, <2>1
  <2>4. msg[w] # m => (Held(m) => Held(m)')
    BY <2>2, HeldKept DEF HeldBy
  <2>5. QED
    BY <1>c, <2>1, <2>3, <2>4 DEF Safe, Queued
<1>7. ASSUME NEW w \in Worker, Ack(w) \/ Reject(w) PROVE Safe(m)'
  <2>1. /\ pc[w] \in {"Ack", "Reject"} /\ Return(w)
        /\ UNCHANGED <<queue, rec, effects, dead>>
    BY <1>7 DEF Ack, Reject, broker, inbox
  <2>2. Held(m) => Held(m)'
    BY <2>1, ReturnEffect, HeldKept DEF HeldBy
  <2>3. QED
    BY <1>c, <2>1, <2>2 DEF Safe, Queued
<1>8. ASSUME NEW w \in Worker, Requeue(w) \/ Abandon(w) PROVE Safe(m)'
  <2>1. Return(w) /\ UNCHANGED <<rec, effects, dead>>
    BY <1>8 DEF Requeue, Abandon, inbox
  <2>2. attempt[w] \in Nat /\ msg[w] \in Msg /\ queue \in Seq(Copy)
    BY DEF ConsumerType
  <2>3. PICK a \in Nat : queue' = Append(queue, [msg |-> msg[w], attempt |-> a])
    BY SMT, <1>8, <2>2 DEF Requeue, Abandon
  <2>4. [msg |-> msg[w], attempt |-> a] \in Copy
    BY <2>2 DEF Copy
  <2>5. Queued(m) \/ msg[w] = m => Queued(m)'
    BY <2>2, <2>3, <2>4, Appended
  <2>6. Others(w)
    BY <2>1, ReturnEffect
  <2>7. msg[w] # m => (Held(m) => Held(m)')
    BY <2>6, HeldKept DEF HeldBy
  <2>8. QED
    BY <1>c, <2>1, <2>5, <2>7 DEF Safe
<1>9. CASE Tick \/ UNCHANGED vars
  BY <1>9, <1>c DEF Tick, vars, broker, inbox, worker, Safe, Queued, Held
<1>10. QED
  BY <1>1, <1>2, <1>3, <1>4, <1>5, <1>6, <1>7, <1>8, <1>9 DEF Next, Process

LEMMA NextLost == LostInv /\ [Next]_vars => LostInv'
<1> SUFFICES ASSUME LostInv, [Next]_vars PROVE LostInv'
  OBVIOUS
<1>1. ConsumerType /\ DoneInv /\ NothingLost
  BY DEF LostInv
<1>2. ConsumerType' /\ DoneInv'
  BY <1>1, TypeStep, NextDone
<1>3. ASSUME Redelivers, NEW m \in Msg, sent'[m] > 0 PROVE Safe(m)'
  BY <1>1, <1>3, LostIsSafe, NextSafe
<1>4. NothingLost'
  BY <1>3 DEF NothingLost, InFlight, Safe, Queued, Held
<1>5. QED
  BY <1>2, <1>4 DEF LostInv

-----------------------------------------------------------------------------
(* Dependable handlers take effect once *)

\* A worker at work holds a `processing` record in force, alone.
HoldInv ==
  /\ \A m \in Msg : rec[m] # "Failed"
  /\ \A w \in Worker : pc[w] # "MarkFailed"
  /\ \A w \in Worker : Working(w) => rec[msg[w]] = "Processing" /\ lease[msg[w]] > 0
  /\ \A v, w \in Worker : v # w /\ Working(v) /\ Working(w) => msg[v] # msg[w]

\* The last effect is recorded or about to be.
Covered(m) ==
  rec[m] = "Completed" \/ \E w \in Worker : pc[w] = "MarkCompleted" /\ msg[w] = m

\* Every effect but that one is owed to a fault.
EffectInv ==
  \A m \in Msg : effects[m] <= faults + 1 /\ (~Covered(m) => effects[m] <= faults)

OnceInv == deployment.prompt /\ ~deployment.mayFail => HoldInv /\ EffectInv

LEMMA HoldKept ==
  ASSUME HoldInv, NEW w \in Worker, Others(w), ~Working(w)', pc'[w] # "MarkFailed",
         \A m \in Msg : rec'[m] # "Failed",
         \A v \in Worker \ {w} : Working(v) =>
           rec'[msg[v]] = rec[msg[v]] /\ lease'[msg[v]] = lease[msg[v]]
  PROVE  HoldInv'
<1>1. \A v \in Worker \ {w} : Working(v)' = Working(v) /\ msg'[v] = msg[v]
  BY DEF Others, Working
<1>2. \A v \in Worker : Working(v)' => v # w /\ Working(v) /\ msg'[v] = msg[v]
  BY <1>1
<1>3. ASSUME NEW v \in Worker, Working(v)'
      PROVE  rec'[msg'[v]] = "Processing" /\ lease'[msg'[v]] > 0
  <2>1. v # w /\ Working(v) /\ msg'[v] = msg[v]
    BY <1>2, <1>3
  <2>2. rec[msg[v]] = "Processing" /\ lease[msg[v]] > 0
    BY <2>1 DEF HoldInv
  <2>3. rec'[msg[v]] = rec[msg[v]] /\ lease'[msg[v]] = lease[msg[v]]
    BY <2>1
  <2>4. QED
    BY <2>1, <2>2, <2>3
<1>4. ASSUME NEW u \in Worker, NEW v \in Worker, u # v, Working(u)', Working(v)'
      PROVE  msg'[u] # msg'[v]
  <2>1. Working(u) /\ Working(v) /\ msg'[u] = msg[u] /\ msg'[v] = msg[v]
    BY <1>2, <1>4
  <2>2. QED
    BY <1>4, <2>1 DEF HoldInv
<1>5. \A v \in Worker : pc'[v] # "MarkFailed"
  BY DEF HoldInv, Others
<1>6. QED
  BY <1>3, <1>4, <1>5 DEF HoldInv

LEMMA EffectKept ==
  ASSUME EffectInv, UNCHANGED <<effects, faults>>, \A m \in Msg : Covered(m) => Covered(m)'
  PROVE  EffectInv'
BY DEF EffectInv

LEMMA CoveredKept ==
  ASSUME NEW m, NEW w \in Worker, Others(w), pc[w] # "MarkCompleted", UNCHANGED rec, Covered(m)
  PROVE  Covered(m)'
BY DEF Covered, Others

\* A step after which the worker is not at work, and which leaves the inbox alone.
LEMMA QuietStep ==
  ASSUME HoldInv, EffectInv, NEW w \in Worker, Others(w), ~Working(w)', pc'[w] # "MarkFailed",
         pc[w] # "MarkCompleted", UNCHANGED <<rec, lease, effects, faults>>
  PROVE  HoldInv' /\ EffectInv'
<1>1. \A m \in Msg : Covered(m) => Covered(m)'
  BY CoveredKept
<1>2. EffectInv'
  BY <1>1, EffectKept
<1>3. \A m \in Msg : rec'[m] # "Failed"
  BY DEF HoldInv
<1>4. HoldInv'
  BY <1>3, HoldKept
<1>5. QED
  BY <1>2, <1>4

LEMMA BeginOnce ==
  ASSUME ConsumerType, StaleAfter > 0, HoldInv, EffectInv, NEW w \in Worker, Begin(w)
  PROVE  HoldInv' /\ EffectInv'
<1> DEFINE m == msg[w]
<1>1. /\ rec \in [Msg -> {"Absent", "Processing", "Completed", "Failed"}]
      /\ lease \in [Msg -> Nat] /\ m \in Msg
  BY DEF ConsumerType
<1>2. pc[w] = "Begin" /\ UNCHANGED <<msg, effects, faults>>
  BY DEF Begin
<1>3. \/ /\ Goto(w, "Handle") /\ Take(m)
         /\ rec[m] \in {"Absent", "Processing"} /\ (rec[m] = "Processing" => ~(lease[m] > 0))
      \/ (Goto(w, "Ack") \/ Goto(w, "Requeue")) /\ UNCHANGED inbox
  <2>1. rec[m] \in {"Absent", "Processing", "Completed"} /\ lease[m] \in Nat
    BY <1>1 DEF HoldInv
  <2>2. /\ Decision(m) = "StartProcessing" => /\ rec[m] \in {"Absent", "Processing"}
                                              /\ rec[m] = "Processing" => ~(lease[m] > 0)
        /\ Decision(m) # "RetryPreviousFailure"
    BY SMT, <2>1 DEF Decision
  <2>3. QED
    BY <2>2 DEF Begin, Start, Skip
<1>4. CASE (Goto(w, "Ack") \/ Goto(w, "Requeue")) /\ UNCHANGED inbox
  <2>1. Others(w) /\ pc'[w] \in {"Ack", "Requeue"}
    BY <1>2, <1>4, GotoEffect
  <2>2. ~Working(w)' /\ pc'[w] # "MarkFailed"
    BY <2>1 DEF Working
  <2>3. QED
    BY <1>2, <1>4, <2>1, <2>2, QuietStep DEF inbox
<1>5. CASE /\ Goto(w, "Handle") /\ Take(m)
           /\ rec[m] \in {"Absent", "Processing"} /\ (rec[m] = "Processing" => ~(lease[m] > 0))
  <2>1. Others(w) /\ pc'[w] = "Handle" /\ msg'[w] = m
    BY <1>2, <1>5, GotoEffect
  <2>2. /\ rec'[m] = "Processing" /\ lease'[m] = StaleAfter
        /\ \A n \in Msg : n # m => rec'[n] = rec[n] /\ lease'[n] = lease[n]
    BY <1>1, <1>5 DEF Take
  <2>3. \A v \in Worker \ {w} : Working(v) => msg[v] # m
    BY <1>5 DEF HoldInv
  <2>4. \A v \in Worker \ {w} : (Working(v)' <=> Working(v)) /\ msg'[v] = msg[v]
    BY <2>1 DEF Others, Working
  <2>5. \A v \in Worker : msg[v] \in Msg
    BY DEF ConsumerType
  <2>6. ASSUME NEW v \in Worker, Working(v)'
        PROVE  rec'[msg'[v]] = "Processing" /\ lease'[msg'[v]] > 0
    <3>1. CASE v = w
      <4>1. msg'[v] = m
        BY <2>1, <3>1
      <4>2. lease'[m] > 0
        BY <2>2
      <4>3. QED
        BY <2>2, <4>1, <4>2
    <3>2. CASE v # w
      <4>1. Working(v) /\ msg'[v] = msg[v] /\ msg[v] \in Msg /\ msg[v] # m
        BY <2>3, <2>4, <2>5, <2>6, <3>2
      <4>2. rec[msg[v]] = "Processing" /\ lease[msg[v]] > 0
        BY <4>1 DEF HoldInv
      <4>3. rec'[msg[v]] = rec[msg[v]] /\ lease'[msg[v]] = lease[msg[v]]
        BY <2>2, <4>1
      <4>4. QED
        BY <4>1, <4>2, <4>3
    <3>3. QED
      BY <3>1, <3>2
  <2>7. ASSUME NEW u \in Worker, NEW v \in Worker, u # v, Working(u)', Working(v)'
        PROVE  msg'[u] # msg'[v]
    <3>1. CASE u # w /\ v # w
      BY <2>4, <2>7, <3>1 DEF HoldInv
    <3>2. CASE u = w \/ v = w
      BY <2>1, <2>3, <2>4, <2>7, <3>2
    <3>3. QED
      BY <3>1, <3>2
  <2>8. /\ \A n \in Msg : rec'[n] # "Failed"
        /\ \A v \in Worker : pc'[v] # "MarkFailed"
    BY SMT, <2>1, <2>2 DEF HoldInv, Others
  <2>9. \A n \in Msg : Covered(n) => Covered(n)'
    <3>1. ASSUME NEW n \in Msg, rec[n] = "Completed" PROVE rec'[n] = "Completed"
      BY <1>5, <2>2, <3>1
    <3>2. ASSUME NEW n \in Msg, NEW v \in Worker, pc[v] = "MarkCompleted", msg[v] = n
          PROVE  pc'[v] = "MarkCompleted" /\ msg'[v] = n
      BY <1>2, <2>1, <3>2 DEF Others
    <3>3. QED
      BY <3>1, <3>2 DEF Covered
  <2>10. EffectInv'
    BY <1>2, <2>9, EffectKept
  <2>11. QED
    BY <2>6, <2>7, <2>8, <2>10 DEF HoldInv
<1>6. QED
  BY <1>3, <1>4, <1>5

LEMMA HandlerOkOnce ==
  ASSUME ConsumerType, HoldInv, EffectInv, NEW w \in Worker, HandlerOk(w)
  PROVE  HoldInv' /\ EffectInv'
<1> DEFINE m == msg[w]
<1>1. /\ pc[w] = "Handle" /\ Goto(w, "MarkCompleted") /\ UNCHANGED <<rec, lease, msg, faults>>
      /\ effects' = [effects EXCEPT ![m] = @ + 1]
  BY DEF HandlerOk, inbox
<1>2. m \in Msg /\ effects \in [Msg -> Nat] /\ faults \in Nat
  BY DEF ConsumerType
<1>3. Others(w) /\ pc'[w] = "MarkCompleted"
  BY <1>1, GotoEffect
<1>4. Working(w) /\ \A v \in Worker : (Working(v)' <=> Working(v))
  BY <1>1, <1>3 DEF Working, Others
<1>5. \A v \in Worker : pc'[v] # "MarkFailed"
  BY <1>3 DEF HoldInv, Others
<1>6. HoldInv'
  BY <1>1, <1>4, <1>5 DEF HoldInv
<1>7. ~Covered(m)
  <2>1. rec[m] = "Processing"
    BY <1>4 DEF HoldInv
  <2>2. ASSUME NEW v \in Worker, pc[v] = "MarkCompleted", msg[v] = m PROVE FALSE
    <3>1. v # w /\ Working(v)
      BY <1>1, <2>2 DEF Working
    <3>2. QED
      BY <1>4, <2>2, <3>1 DEF HoldInv
  <2>3. QED
    BY <2>1, <2>2 DEF Covered
<1>8. effects'[m] = effects[m] + 1 /\ \A n \in Msg : n # m => effects'[n] = effects[n]
  BY <1>1, <1>2
<1>9. Covered(m)' /\ \A n \in Msg : Covered(n) => Covered(n)'
  <2>1. Covered(m)'
    BY <1>1, <1>3 DEF Covered
  <2>2. pc[w] # "MarkCompleted"
    BY <1>1
  <2>3. QED
    BY <1>1, <1>3, <2>1, <2>2, CoveredKept
<1>10. ASSUME NEW n \in Msg
       PROVE  effects'[n] <= faults' + 1 /\ (~Covered(n)' => effects'[n] <= faults')
  <2>1. CASE n = m
    <3>1. effects[m] <= faults /\ effects[m] \in Nat
      BY <1>2, <1>7 DEF EffectInv
    <3>2. effects'[m] <= faults + 1
      BY SMT, <1>2, <1>8, <3>1
    <3>3. QED
      BY <1>1, <1>9, <2>1, <3>2
  <2>2. CASE n # m
    BY <1>1, <1>8, <1>9, <2>2 DEF EffectInv
  <2>3. QED
    BY <2>1, <2>2
<1>11. QED
  BY <1>6, <1>10 DEF EffectInv

LEMMA MarkOnce ==
  ASSUME ConsumerType, HoldInv, EffectInv, NEW w \in Worker, MarkCompleted(w)
  PROVE  HoldInv' /\ EffectInv'
<1> DEFINE m == msg[w]
<1>1. /\ pc[w] = "MarkCompleted" /\ Goto(w, "Ack") /\ UNCHANGED <<msg, effects, faults>>
      /\ rec' = [rec EXCEPT ![m] = "Completed"] /\ lease' = [lease EXCEPT ![m] = 0]
  BY DEF MarkCompleted
<1>2. /\ \A v \in Worker : msg[v] \in Msg
      /\ rec \in [Msg -> {"Absent", "Processing", "Completed", "Failed"}] /\ lease \in [Msg -> Nat]
  BY DEF ConsumerType
<1>3. Others(w) /\ pc'[w] = "Ack"
  BY <1>1, GotoEffect
<1>4. /\ rec'[m] = "Completed"
      /\ \A n \in Msg : n # m => rec'[n] = rec[n] /\ lease'[n] = lease[n]
  BY <1>1, <1>2
<1>5. Working(w) /\ ~Working(w)' /\ pc'[w] # "MarkFailed"
  BY <1>1, <1>3 DEF Working
<1>6. \A v \in Worker \ {w} : Working(v) => msg[v] # m
  BY <1>5 DEF HoldInv
<1>7. \A n \in Msg : rec'[n] # "Failed"
  BY SMT, <1>4 DEF HoldInv
<1>8. \A v \in Worker \ {w} : Working(v) =>
         rec'[msg[v]] = rec[msg[v]] /\ lease'[msg[v]] = lease[msg[v]]
  BY <1>2, <1>4, <1>6
<1>9. HoldInv'
  BY <1>3, <1>5, <1>7, <1>8, HoldKept
<1>10. ASSUME NEW n \in Msg, Covered(n) PROVE Covered(n)'
  <2>1. CASE n = m
    BY <1>4, <2>1 DEF Covered
  <2>2. CASE n # m
    BY <1>3, <1>4, <1>10, <2>2 DEF Covered, Others
  <2>3. QED
    BY <2>1, <2>2
<1>11. QED
  BY <1>1, <1>9, <1>10, EffectKept

LEMMA AbandonOnce ==
  ASSUME ConsumerType, HoldInv, EffectInv, NEW w \in Worker, Abandon(w)
  PROVE  HoldInv' /\ EffectInv'
<1>1. Return(w) /\ UNCHANGED <<rec, lease, effects>> /\ faults' = faults + 1
  BY DEF Abandon, inbox
<1>2. Others(w) /\ pc'[w] = "Idle"
  BY <1>1, ReturnEffect
<1>3. ~Working(w)' /\ pc'[w] # "MarkFailed"
  BY <1>2 DEF Working
<1>4. HoldInv'
  <2>1. \A n \in Msg : rec'[n] # "Failed"
    BY <1>1 DEF HoldInv
  <2>2. QED
    BY <1>1, <1>2, <1>3, <2>1, HoldKept
<1>5. \A n \in Msg : effects[n] \in Nat /\ faults \in Nat /\ effects[n] <= faults + 1
  BY DEF ConsumerType, EffectInv
<1>6. \A n \in Msg : effects'[n] <= faults' /\ effects'[n] <= faults' + 1
  BY SMT, <1>1, <1>5
<1>7. QED
  BY <1>4, <1>6 DEF EffectInv

LEMMA TickOnce ==
  ASSUME ConsumerType, deployment.prompt, HoldInv, EffectInv, Tick
  PROVE  HoldInv' /\ EffectInv'
<1>1. /\ UNCHANGED <<rec, pc, msg, effects, faults>>
      /\ lease' = [m \in Msg |-> IF lease[m] > 0 THEN lease[m] - 1 ELSE 0]
      /\ \A w \in Worker : Working(w) => lease[msg[w]] # 1
  BY DEF Tick, worker
<1>2. \A m \in Msg : lease[m] \in Nat
  BY DEF ConsumerType
<1>3. \A m \in Msg : lease[m] > 0 /\ lease[m] # 1 => lease'[m] > 0
  BY SMT, <1>1, <1>2
<1>4. \A w \in Worker : msg[w] \in Msg
  BY DEF ConsumerType
<1>5. \A w \in Worker : Working(w)' <=> Working(w)
  BY <1>1 DEF Working
<1>6. HoldInv'
  BY <1>1, <1>3, <1>4, <1>5 DEF HoldInv
<1>7. \A m \in Msg : Covered(m) => Covered(m)'
  BY <1>1 DEF Covered
<1>8. QED
  BY <1>1, <1>6, <1>7, EffectKept

LEMMA NextOnce ==
  ASSUME StaleAfter > 0, ConsumerType, OnceInv, [Next]_vars
  PROVE  OnceInv'
<1>1. UNCHANGED deployment
  BY DEF Next, Publish, Receive, Process, Begin, HandlerOk, HandlerErr, MarkCompleted,
     MarkFailed, DeadLetter, Ack, Requeue, Reject, Abandon, Tick, vars
<1> SUFFICES ASSUME deployment.prompt, ~deployment.mayFail PROVE HoldInv' /\ EffectInv'
  BY <1>1 DEF OnceInv
<1>2. HoldInv /\ EffectInv
  BY DEF OnceInv
<1>3. ASSUME UNCHANGED <<inbox, worker, effects, faults>> PROVE HoldInv' /\ EffectInv'
  <2>1. UNCHANGED <<rec, lease, pc, msg, effects, faults>>
    BY <1>3 DEF inbox, worker
  <2>2. HoldInv'
    BY <1>2, <2>1 DEF HoldInv, Working
  <2>3. \A m \in Msg : Covered(m) => Covered(m)'
    BY <2>1 DEF Covered
  <2>4. QED
    BY <1>2, <2>1, <2>2, <2>3, EffectKept
<1>4. ASSUME NEW w \in Worker, Receive(w) \/ DeadLetter(w) PROVE HoldInv' /\ EffectInv'
  <2>1. /\ pc[w] # "MarkCompleted" /\ pc'[w] \in {"Begin", "Reject"} /\ Others(w)
        /\ UNCHANGED <<rec, lease, effects, faults>>
    BY <1>4 DEF Receive, DeadLetter, ConsumerType, Goto, Others, inbox
  <2>2. ~Working(w)' /\ pc'[w] # "MarkFailed"
    BY <2>1 DEF Working
  <2>3. QED
    BY <1>2, <2>1, <2>2, QuietStep
<1>5. ASSUME NEW w \in Worker, Ack(w) \/ Requeue(w) \/ Reject(w) PROVE HoldInv' /\ EffectInv'
  <2>1. /\ pc[w] \in {"Ack", "Requeue", "Reject"} /\ Return(w)
        /\ UNCHANGED <<rec, lease, effects, faults>>
    BY <1>5 DEF Ack, Requeue, Reject, inbox
  <2>2. Others(w) /\ pc'[w] = "Idle"
    BY <2>1, ReturnEffect
  <2>3. ~Working(w)' /\ pc'[w] # "MarkFailed" /\ pc[w] # "MarkCompleted"
    BY <2>1, <2>2 DEF Working
  <2>4. QED
    BY <1>2, <2>1, <2>2, <2>3, QuietStep
<1>6. ASSUME NEW w \in Worker PROVE ~HandlerErr(w) /\ ~MarkFailed(w)
  BY <1>2 DEF HandlerErr, MarkFailed, HoldInv
<1>7. ASSUME NEW m \in Msg, Publish(m) PROVE HoldInv' /\ EffectInv'
  BY <1>3, <1>7 DEF Publish
<1>8. CASE UNCHANGED vars
  BY <1>3, <1>8 DEF vars
<1>9. QED
  BY <1>2, <1>4, <1>5, <1>6, <1>7, <1>8, BeginOnce, HandlerOkOnce, MarkOnce, AbandonOnce,
     TickOnce DEF Next, Process

-----------------------------------------------------------------------------
(* Retries are bounded *)

\* Induction on the naturals, from the well-foundedness of < (the theorems of
\* the library that take a predicate cannot be instantiated).
LEMMA Least ==
  ASSUME NEW T, T \subseteq Nat, T # {}
  PROVE  \E n \in T : \A k \in T : n <= k
<1> DEFINE R == OpToRel(<, Nat)
<1>1. IsWellFoundedOn(R, Nat)
  BY NatLessThanWellFounded
<1>2. PICK n \in T : \A k \in T : ~(<<k, n>> \in R)
  <2> HIDE DEF R
  <2> QED BY <1>1, WFMin
<1>3. \A k \in T : <<k, n>> \in Nat \X Nat /\ <<k, n>>[1] = k /\ <<k, n>>[2] = n
  BY <1>2
<1>4. \A k \in T : ~(k < n)
  BY <1>2, <1>3 DEF OpToRel
<1> QED BY SMT, <1>4

LEMMA Induction ==
  ASSUME NEW T, 0 \in T, \A n \in Nat : n \in T => n + 1 \in T
  PROVE  \A n \in Nat : n \in T
<1> SUFFICES ASSUME Nat \ T # {} PROVE FALSE
  OBVIOUS
<1>1. PICK n \in Nat \ T : \A k \in Nat \ T : n <= k
  BY Least
<1>2. n # 0
  BY <1>1
<1>3. n - 1 \in Nat /\ (n - 1) + 1 = n /\ ~(n <= n - 1)
  BY SMT, <1>1, <1>2
<1> QED BY <1>1, <1>3

\* An account of a message that was published n times: entry j of the account,
\* acc[j] - acc[j - 1] <= cap, is what was spent on the j-th copy.  A copy still
\* in flight at a place p has spent at most al[p], and all that was spent, t, is
\* on the account or was made up for by one of f faults.
Account(acc, life, al, n, t, f, cap) ==
  /\ acc[0] = 0
  /\ \A j \in 1..n : acc[j] <= acc[j - 1] + cap
  /\ \A p, q \in DOMAIN al : p # q => life[p] # life[q]
  /\ \A p \in DOMAIN al : acc[life[p]] <= acc[life[p] - 1] + al[p]
  /\ t <= acc[n] + f

Book(al, n, t, f, cap) ==
  \E acc \in [0..n -> Int] : \E life \in [DOMAIN al -> 1..n] : Account(acc, life, al, n, t, f, cap)

LEMMA OneMore ==
  ASSUME NEW a \in Int, NEW b \in Int, NEW x \in Nat, b <= a + x
  PROVE  /\ b + 1 <= a + (x + 1)
         /\ \A cap \in Nat : x < cap => b + 1 <= a + cap
BY SMT

LEMMA Shifted ==
  ASSUME NEW a \in Int, NEW b \in Int
  PROVE  \A x \in Nat : b <= a + x => b + 1 <= (a + 1) + x
BY SMT

LEMMA Lowered ==
  ASSUME NEW a \in Int, NEW b \in Int
  PROVE  /\ \A x \in Nat : b <= a + x => b - 1 <= (a - 1) + x /\ b - 1 <= a + x
         /\ \A x, y \in Nat : b <= a + x /\ x <= y + 1 => b - 1 <= a + y
BY SMT

LEMMA BookBounds ==
  ASSUME NEW al, NEW n \in Nat, NEW t \in Nat, NEW f \in Nat, NEW cap \in Nat,
         Book(al, n, t, f, cap)
  PROVE  t <= cap * n + f
<1>1. PICK acc \in [0..n -> Int] : \E life \in [DOMAIN al -> 1..n] :
                                     Account(acc, life, al, n, t, f, cap)
  BY DEF Book
<1>2. /\ acc[0] = 0 /\ t <= acc[n] + f
      /\ \A j \in 1..n : acc[j] <= acc[j - 1] + cap
  BY <1>1 DEF Account
<1> DEFINE T == {k \in Nat : k <= n => acc[k] <= cap * k}
<1>3. 0 \in T
  BY SMT, <1>2
<1>4. ASSUME NEW k \in Nat, k \in T PROVE k + 1 \in T
  <2> SUFFICES ASSUME k + 1 <= n PROVE acc[k + 1] <= cap * (k + 1)
    BY SMT
  <2>1. k \in 0..n /\ k + 1 \in 1..n /\ k + 1 \in 0..n /\ (k + 1) - 1 = k /\ k <= n
    BY SMT
  <2>2. acc[k + 1] <= acc[k] + cap /\ acc[k] <= cap * k
    BY <1>2, <1>4, <2>1
  <2>3. acc[k] \in Int /\ acc[k + 1] \in Int
    BY <2>1
  <2>4. cap * (k + 1) = cap * k + cap /\ cap * k \in Nat
    BY SMT
  <2> QED BY SMT, <2>2, <2>3, <2>4
<1>5. n \in T
  <2> HIDE DEF T
  <2> QED BY <1>3, <1>4, Induction
<1>6. acc[n] <= cap * n /\ acc[n] \in Int /\ cap * n \in Nat
  BY SMT, <1>5
<1> QED BY SMT, <1>2, <1>6

\* Copies in flight may change places, or leave, as long as none is allowed less.
AllMoved(al, al2) ==
  /\ \A p \in DOMAIN al : al[p] \in Nat
  /\ \A p \in DOMAIN al2 : al2[p] \in Nat
  /\ \E g \in [DOMAIN al2 -> DOMAIN al] : /\ \A p, q \in DOMAIN al2 : p # q => g[p] # g[q]
                                         /\ \A p \in DOMAIN al2 : al[g[p]] <= al2[p]

LEMMA BookMoved ==
  ASSUME NEW n \in Nat, NEW t \in Nat, NEW f \in Nat, NEW cap \in Nat, NEW al, NEW al2,
         Book(al, n, t, f, cap), AllMoved(al, al2)
  PROVE  Book(al2, n, t, f, cap)
<1>a. /\ \A p \in DOMAIN al : al[p] \in Nat
      /\ \A p \in DOMAIN al2 : al2[p] \in Nat
  BY DEF AllMoved
<1>b. PICK g \in [DOMAIN al2 -> DOMAIN al] : /\ \A p, q \in DOMAIN al2 : p # q => g[p] # g[q]
                                            /\ \A p \in DOMAIN al2 : al[g[p]] <= al2[p]
  BY DEF AllMoved
<1> USE <1>a, <1>b
<1>1. PICK acc \in [0..n -> Int], life \in [DOMAIN al -> 1..n] :
             Account(acc, life, al, n, t, f, cap)
  BY DEF Book
<1> DEFINE life2 == [p \in DOMAIN al2 |-> life[g[p]]]
<1>2. life2 \in [DOMAIN al2 -> 1..n] /\ \A p \in DOMAIN al2 : life2[p] = life[g[p]]
  OBVIOUS
<1> HIDE DEF life2
<1>3. \A p, q \in DOMAIN al2 : p # q => life2[p] # life2[q]
  <2>1. \A p, q \in DOMAIN al : p # q => life[p] # life[q]
    BY <1>1 DEF Account
  <2> SUFFICES ASSUME NEW p \in DOMAIN al2, NEW q \in DOMAIN al2, p # q PROVE life2[p] # life2[q]
    OBVIOUS
  <2>2. g[p] \in DOMAIN al /\ g[q] \in DOMAIN al /\ g[p] # g[q]
    OBVIOUS
  <2>3. life[g[p]] # life[g[q]]
    BY <2>1, <2>2
  <2> QED BY <1>2, <2>3
<1>4. ASSUME NEW p \in DOMAIN al2 PROVE acc[life2[p]] <= acc[life2[p] - 1] + al2[p]
  <2>1. PICK l \in 1..n : l = life2[p]
    BY <1>2
  <2>2. acc[l] <= acc[l - 1] + al[g[p]] /\ al[g[p]] <= al2[p]
    BY <1>1, <1>2, <2>1 DEF Account
  <2>3. l \in 0..n /\ l - 1 \in 0..n
    BY SMT
  <2>4. acc[l] \in Int /\ acc[l - 1] \in Int /\ al[g[p]] \in Nat /\ al2[p] \in Nat
    BY <2>3
  <2>5. acc[l] <= acc[l - 1] + al2[p]
    BY SMT, <2>2, <2>4
  <2> QED BY <2>1, <2>5
<1>5. Account(acc, life2, al2, n, t, f, cap)
  BY <1>1, <1>3, <1>4 DEF Account
<1> QED BY <1>2, <1>5 DEF Book

LEMMA BookFaults ==
  ASSUME NEW n \in Nat, NEW t \in Nat, NEW f \in Nat, NEW cap \in Nat, NEW al,
         Book(al, n, t, f, cap)
  PROVE  Book(al, n, t, f + 1, cap)
<1>1. PICK acc \in [0..n -> Int], life \in [DOMAIN al -> 1..n] :
             Account(acc, life, al, n, t, f, cap)
  BY DEF Book
<1>2. acc[n] \in Int
  BY SMT
<1>3. t <= acc[n] + f
  BY <1>1 DEF Account
<1>4. t <= acc[n] + (f + 1)
  BY SMT, <1>2, <1>3
<1>5. Account(acc, life, al, n, t, f + 1, cap)
  BY <1>1, <1>4 DEF Account
<1> QED BY <1>5 DEF Book

\* The copy at one place spends one more.
OneSpent(al, al2, cap) ==
  /\ DOMAIN al2 = DOMAIN al /\ \A p \in DOMAIN al : al[p] \in Nat
  /\ \E q \in DOMAIN al : /\ al2[q] = al[q] + 1 /\ al[q] < cap
                         /\ \A p \in DOMAIN al : p # q => al2[p] = al[p]

LEMMA BookSpent ==
  ASSUME NEW n \in Nat, NEW t \in Nat, NEW t2 \in Nat, NEW f \in Nat, NEW cap \in Nat,
         NEW al, NEW al2, Book(al, n, t, f, cap), OneSpent(al, al2, cap), t2 <= t + 1
  PROVE  Book(al2, n, t2, f, cap)
<1>a. DOMAIN al2 = DOMAIN al /\ \A p \in DOMAIN al : al[p] \in Nat
  BY DEF OneSpent
<1>b. PICK q \in DOMAIN al : /\ al2[q] = al[q] + 1 /\ al[q] < cap
                            /\ \A p \in DOMAIN al : p # q => al2[p] = al[p]
  BY DEF OneSpent
<1> USE <1>a, <1>b
<1>1. PICK acc \in [0..n -> Int], life \in [DOMAIN al -> 1..n] :
             Account(acc, life, al, n, t, f, cap)
  BY DEF Book
<1>2. PICK l \in 1..n : l = life[q]
  OBVIOUS
<1> DEFINE acc2 == [j \in 0..n |-> IF j < l THEN acc[j] ELSE acc[j] + 1]
<1>3. \A j \in 0..n : acc[j] \in Int /\ acc2[j] = IF j < l THEN acc[j] ELSE acc[j] + 1
  OBVIOUS
<1>4. acc2 \in [0..n -> Int]
  BY SMT
<1> HIDE DEF acc2
<1>5. 0 \in 0..n /\ n \in 0..n /\ 0 < l /\ ~(n < l)
  BY SMT
<1>6. acc2[0] = 0 /\ t2 <= acc2[n] + f
  <2>1. acc[0] = 0 /\ t <= acc[n] + f
    BY <1>1 DEF Account
  <2>2. acc2[n] = acc[n] + 1 /\ acc2[0] = acc[0] /\ acc[n] \in Int
    BY <1>3, <1>5
  <2> QED BY SMT, <2>1, <2>2
<1>7. acc[l] <= acc[l - 1] + al[q]
  BY <1>1, <1>2 DEF Account
<1>8. ASSUME NEW j \in 1..n
      PROVE  /\ acc2[j] <= acc2[j - 1] + cap
             /\ j # l => \A x \in Nat : acc[j] <= acc[j - 1] + x => acc2[j] <= acc2[j - 1] + x
             /\ j = l => acc2[j] = acc[j] + 1 /\ acc2[j - 1] = acc[j - 1]
  <2>1. j \in 0..n /\ j - 1 \in 0..n
    BY SMT
  <2>2. acc[j] <= acc[j - 1] + cap
    BY <1>1 DEF Account
  <2>3. /\ acc[j] \in Int /\ acc2[j] = IF j < l THEN acc[j] ELSE acc[j] + 1
        /\ acc[j - 1] \in Int /\ acc2[j - 1] = IF j - 1 < l THEN acc[j - 1] ELSE acc[j - 1] + 1
    BY <1>3, <2>1
  <2>4. CASE j = l
    <3>1. ~(j < l) /\ j - 1 < l
      BY SMT, <2>4
    <3>2. acc2[j] = acc[j] + 1 /\ acc2[j - 1] = acc[j - 1] /\ acc[j] <= acc[j - 1] + al[q]
      BY <1>7, <2>3, <2>4, <3>1
    <3>3. al[q] \in Nat
      OBVIOUS
    <3> QED BY <2>2, <2>3, <2>4, <3>2, <3>3, OneMore
  <2>5. CASE j # l
    <3>1. (j < l) <=> (j - 1 < l)
      BY SMT, <2>5
    <3>2. \/ acc2[j] = acc[j] /\ acc2[j - 1] = acc[j - 1]
          \/ acc2[j] = acc[j] + 1 /\ acc2[j - 1] = acc[j - 1] + 1
      BY <2>3, <3>1
    <3> QED BY <2>2, <2>3, <2>5, <3>2, Shifted
  <2> QED BY <2>4, <2>5
<1>9. ASSUME NEW p \in DOMAIN al2 PROVE acc2[life[p]] <= acc2[life[p] - 1] + al2[p]
  <2>1. PICK i \in 1..n : i = life[p]
    OBVIOUS
  <2>2. acc[i] <= acc[i - 1] + al[p]
    BY <1>1, <2>1 DEF Account
  <2>3. acc[i] \in Int /\ acc[i - 1] \in Int /\ acc2[i] \in Int /\ acc2[i - 1] \in Int
    <3>1. i \in 0..n /\ i - 1 \in 0..n
      BY SMT
    <3> QED BY <1>4, <3>1
  <2>4. CASE p = q
    <3>1. i = l
      BY <1>2, <2>1, <2>4
    <3>2. acc2[i] = acc[i] + 1 /\ acc2[i - 1] = acc[i - 1]
      BY <1>8, <3>1
    <3>3. acc2[i] <= acc2[i - 1] + (al[q] + 1)
      <4>1. al[q] \in Nat /\ acc[i] <= acc[i - 1] + al[q]
        BY <2>2, <2>4
      <4> QED BY <2>3, <3>2, <4>1, OneMore
    <3> QED BY <2>1, <2>4, <3>3
  <2>5. CASE p # q
    <3>1. i # l
      BY <1>1, <1>2, <2>1, <2>5 DEF Account
    <3>2. \A x \in Nat : acc[i] <= acc[i - 1] + x => acc2[i] <= acc2[i - 1] + x
      BY <1>8, <3>1
    <3>3. al2[p] = al[p]
      BY <2>5
    <3>4. al[p] \in Nat
      OBVIOUS
    <3>5. acc2[i] <= acc2[i - 1] + al[p]
      BY <2>2, <3>2, <3>4
    <3> QED BY <2>1, <3>3, <3>5
  <2> QED BY <2>4, <2>5
<1>10. Account(acc2, life, al2, n, t2, f, cap)
  BY <1>1, <1>6, <1>8, <1>9 DEF Account
<1>11. life \in [DOMAIN al2 -> 1..n]
  OBVIOUS
<1> QED BY <1>4, <1>10, <1>11 DEF Book

\* The copy at one place is allowed one less, for a fault.
OneRefunded(al, al2) ==
  /\ DOMAIN al2 = DOMAIN al /\ \A p \in DOMAIN al : al[p] \in Nat
  /\ \E q \in DOMAIN al : /\ al2[q] \in Nat /\ al[q] <= al2[q] + 1
                         /\ \A p \in DOMAIN al : p # q => al2[p] = al[p]

LEMMA BookRefunded ==
  ASSUME NEW n \in Nat, NEW t \in Nat, NEW f \in Nat, NEW cap \in Nat,
         NEW al, NEW al2, Book(al, n, t, f, cap), OneRefunded(al, al2)
  PROVE  Book(al2, n, t, f + 1, cap)
<1>a. DOMAIN al2 = DOMAIN al /\ \A p \in DOMAIN al : al[p] \in Nat
  BY DEF OneRefunded
<1>b. PICK q \in DOMAIN al : /\ al2[q] \in Nat /\ al[q] <= al2[q] + 1
                            /\ \A p \in DOMAIN al : p # q => al2[p] = al[p]
  BY DEF OneRefunded
<1> USE <1>a, <1>b
<1>1. PICK acc \in [0..n -> Int], life \in [DOMAIN al -> 1..n] :
             Account(acc, life, al, n, t, f, cap)
  BY DEF Book
<1>2. PICK l \in 1..n : l = life[q]
  OBVIOUS
<1> DEFINE acc2 == [j \in 0..n |-> IF j < l THEN acc[j] ELSE acc[j] - 1]
<1>3. \A j \in 0..n : acc[j] \in Int /\ acc2[j] = IF j < l THEN acc[j] ELSE acc[j] - 1
  OBVIOUS
<1>4. acc2 \in [0..n -> Int]
  BY SMT
<1> HIDE DEF acc2
<1>5. 0 \in 0..n /\ n \in 0..n /\ 0 < l /\ ~(n < l)
  BY SMT
<1>6. acc2[0] = 0 /\ t <= acc2[n] + (f + 1)
  <2>1. acc[0] = 0 /\ t <= acc[n] + f
    BY <1>1 DEF Account
  <2>2. acc2[n] = acc[n] - 1 /\ acc2[0] = acc[0] /\ acc[n] \in Int
    BY <1>3, <1>5
  <2> QED BY SMT, <2>1, <2>2
<1>7. acc[l] <= acc[l - 1] + al[q]
  BY <1>1, <1>2 DEF Account
<1>8. ASSUME NEW j \in 1..n
      PROVE  /\ \A x \in Nat : acc[j] <= acc[j - 1] + x => acc2[j] <= acc2[j - 1] + x
             /\ j = l => acc2[j] = acc[j] - 1 /\ acc2[j - 1] = acc[j - 1]
  <2>1. j \in 0..n /\ j - 1 \in 0..n
    BY SMT
  <2>2. /\ acc[j] \in Int /\ acc2[j] = IF j < l THEN acc[j] ELSE acc[j] - 1
        /\ acc[j - 1] \in Int /\ acc2[j - 1] = IF j - 1 < l THEN acc[j - 1] ELSE acc[j - 1] - 1
    BY <1>3, <2>1
  <2>3. CASE j = l
    <3>1. ~(j < l) /\ j - 1 < l
      BY SMT, <2>3
    <3>2. acc2[j] = acc[j] - 1 /\ acc2[j - 1] = acc[j - 1]
      BY <2>2, <3>1
    <3> QED BY <2>2, <3>2, Lowered
  <2>4. CASE j # l
    <3>1. (j < l) <=> (j - 1 < l)
      BY SMT, <2>4
    <3>2. \/ acc2[j] = acc[j] /\ acc2[j - 1] = acc[j - 1]
          \/ acc2[j] = acc[j] - 1 /\ acc2[j - 1] = acc[j - 1] - 1
      BY <2>2, <3>1
    <3> QED BY <2>2, <2>4, <3>2, Lowered
  <2> QED BY <2>3, <2>4
<1>9. ASSUME NEW p \in DOMAIN al2 PROVE acc2[life[p]] <= acc2[life[p] - 1] + al2[p]
  <2>1. PICK i \in 1..n : i = life[p]
    OBVIOUS
  <2>2. acc[i] <= acc[i - 1] + al[p] /\ al[p] \in Nat
    BY <1>1, <2>1 DEF Account
  <2>3. CASE p = q
    <3>1. i = l
      BY <1>2, <2>1, <2>3
    <3>2. acc2[i] = acc[i] - 1 /\ acc2[i - 1] = acc[i - 1]
      BY <1>8, <3>1
    <3>3. acc[i] \in Int /\ acc[i - 1] \in Int
      <4>1. i \in 0..n /\ i - 1 \in 0..n
        BY SMT
      <4> QED BY <4>1
    <3>4. acc2[i] <= acc2[i - 1] + al2[q]
      BY <2>2, <2>3, <3>2, <3>3, Lowered
    <3> QED BY <2>1, <2>3, <3>4
  <2>4. CASE p # q
    BY <1>8, <2>1, <2>2, <2>4
  <2> QED BY <2>3, <2>4
<1>10. \A j \in 1..n : acc2[j] <= acc2[j - 1] + cap
  BY <1>1, <1>8 DEF Account
<1>11. Account(acc2, life, al2, n, t, f + 1, cap)
  BY <1>1, <1>6, <1>9, <1>10 DEF Account
<1>12. life \in [DOMAIN al2 -> 1..n]
  OBVIOUS
<1> QED BY <1>4, <1>11, <1>12 DEF Book

\* One more copy is published.
OneOpened(al, al2) ==
  \E q : /\ q \notin DOMAIN al /\ DOMAIN al2 = DOMAIN al \cup {q}
         /\ al2[q] \in Nat /\ \A p \in DOMAIN al : al2[p] = al[p]

LEMMA BookOpened ==
  ASSUME NEW n \in Nat, NEW t \in Nat, NEW f \in Nat, NEW cap \in Nat,
         NEW al, NEW al2, Book(al, n, t, f, cap), OneOpened(al, al2)
  PROVE  Book(al2, n + 1, t, f, cap)
<1>b. PICK q : /\ q \notin DOMAIN al /\ DOMAIN al2 = DOMAIN al \cup {q}
               /\ al2[q] \in Nat /\ \A p \in DOMAIN al : al2[p] = al[p]
  BY DEF OneOpened
<1> USE <1>b
<1>1. PICK acc \in [0..n -> Int], life \in [DOMAIN al -> 1..n] :
             Account(acc, life, al, n, t, f, cap)
  BY DEF Book
<1> DEFINE acc2 == [j \in 0..(n + 1) |-> IF j = n + 1 THEN acc[n] ELSE acc[j]]
           life2 == [p \in DOMAIN al2 |-> IF p = q THEN n + 1 ELSE life[p]]
<1>2. /\ n \in 0..n /\ n + 1 \in 1..(n + 1) /\ n + 1 \in 0..(n + 1) /\ (n + 1) - 1 = n
      /\ \A j \in 0..(n + 1) : j # n + 1 => j \in 0..n
      /\ \A j \in 1..(n + 1) : j # n + 1 => j \in 1..n
      /\ \A j \in 1..n : j \in 1..(n + 1) /\ j # n + 1 /\ j \in 0..n
      /\ \A j \in 0..n : j # n + 1 /\ j \in 0..(n + 1)
      /\ \A j \in 1..n : j - 1 \in 0..n
      /\ 0 \in 0..n
  BY SMT
<1>3. /\ acc2 \in [0..(n + 1) -> Int] /\ acc2[n + 1] = acc[n]
      /\ \A j \in 0..n : acc2[j] = acc[j]
  BY <1>2
<1>4. /\ life2 \in [DOMAIN al2 -> 1..(n + 1)] /\ life2[q] = n + 1
      /\ \A p \in DOMAIN al : life2[p] = life[p]
  BY <1>2
<1> HIDE DEF acc2, life2
<1>5. acc[n] \in Int
  BY <1>2
<1>6. \A x \in Nat : acc[n] <= acc[n] + x
  BY SMT, <1>5
<1>7. acc2[0] = 0 /\ t <= acc2[n + 1] + f
  BY <1>1, <1>2, <1>3 DEF Account
<1>8. ASSUME NEW j \in 1..(n + 1) PROVE acc2[j] <= acc2[j - 1] + cap
  <2>1. CASE j = n + 1
    BY <1>2, <1>3, <1>6, <2>1
  <2>2. CASE j # n + 1
    BY <1>1, <1>2, <1>3, <2>2 DEF Account
  <2> QED BY <2>1, <2>2
<1>9. \A p \in DOMAIN al : life[p] \in 1..n
  OBVIOUS
<1>10. \A p, r \in DOMAIN al2 : p # r => life2[p] # life2[r]
  <2> SUFFICES ASSUME NEW p \in DOMAIN al2, NEW r \in DOMAIN al2, p # r PROVE life2[p] # life2[r]
    OBVIOUS
  <2>1. CASE p = q
    BY <1>2, <1>4, <1>9, <2>1
  <2>2. CASE r = q
    BY <1>2, <1>4, <1>9, <2>2
  <2>3. CASE p # q /\ r # q
    <3>1. p \in DOMAIN al /\ r \in DOMAIN al
      BY <2>3
    <3> QED BY <1>1, <1>4, <3>1 DEF Account
  <2> QED BY <2>1, <2>2, <2>3
<1>11. ASSUME NEW p \in DOMAIN al2 PROVE acc2[life2[p]] <= acc2[life2[p] - 1] + al2[p]
  <2>1. CASE p = q
    <3>1. life2[p] = n + 1 /\ life2[p] - 1 = n
      BY <1>2, <1>4, <2>1
    <3>2. acc2[n + 1] = acc[n] /\ acc2[n] = acc[n]
      BY <1>2, <1>3
    <3>3. acc[n] <= acc[n] + al2[p]
      BY <1>6, <2>1
    <3> QED BY <3>1, <3>2, <3>3
  <2>2. CASE p \in DOMAIN al
    <3>1. PICK i \in 1..n : i = life[p]
      BY <2>2
    <3>2. acc[i] <= acc[i - 1] + al2[p]
      BY <1>1, <2>2, <3>1 DEF Account
    <3>3. acc2[i] = acc[i] /\ acc2[i - 1] = acc[i - 1]
      BY <1>2, <1>3
    <3>4. life2[p] = i
      BY <1>4, <2>2, <3>1
    <3> QED BY <3>2, <3>3, <3>4
  <2> QED BY <2>1, <2>2
<1>12. Account(acc2, life2, al2, n + 1, t, f, cap)
  BY <1>7, <1>8, <1>10, <1>11 DEF Account
<1> QED BY <1>3, <1>4, <1>12 DEF Book

\* The places where copies of m are in flight: the queue, and the workers.
InQueue(i) == <<"queue", i>>
AtWorker(w) == <<"worker", w>>
Places(m) ==
  {InQueue(i) : i \in {j \in 1..Len(queue) : queue[j].msg = m}} \cup
  {AtWorker(w) : w \in {v \in Worker : pc[v] # "Idle" /\ msg[v] = m}}

\* How many handler starts (or dead letters) a copy in its attempt a accounts
\* for at most, when it is queued or its worker is about to make the call `at`.
Spends(k, at, a) ==
  IF k = "dead" THEN IF at = "Reject" THEN 1 ELSE 0
  ELSE IF at \in {"Queue", "Begin"} \/ (at = "Requeue" /\ a = MaxAttempts) THEN a - 1 ELSE a

Allows(k, m) ==
  [p \in Places(m) |-> IF p[1] = "queue" THEN Spends(k, "Queue", queue[p[2]].attempt)
                                         ELSE Spends(k, pc[p[2]], attempt[p[2]])]

Kinds == {"runs", "dead"}
Total(k, m) == IF k = "dead" THEN dead[m] ELSE runs[m]
Cap(k) == IF k = "dead" THEN 1 ELSE MaxAttempts

AttemptInv ==
  /\ runs \in [Msg -> Nat]
  /\ \A i \in 1..Len(queue) : queue[i].attempt \in 1..MaxAttempts
  /\ \A w \in Worker : attempt[w] \in 1..MaxAttempts

LedgerInv ==
  deployment.withRetry =>
    \A m \in Msg : \A k \in Kinds : Book(Allows(k, m), sent[m], Total(k, m), faults, Cap(k))

Ledger(k, m) == Book(Allows(k, m), sent[m], Total(k, m), faults, Cap(k))

LEMMA SpendsType ==
  ASSUME NEW k \in Kinds, NEW at, NEW a \in 1..MaxAttempts
  PROVE  Spends(k, at, a) \in Nat /\ Spends(k, at, a) <= Cap(k) /\ Cap(k) \in Nat
<1>1. a - 1 \in Nat /\ a \in Nat /\ a - 1 <= MaxAttempts /\ a <= MaxAttempts /\ MaxAttempts \in Nat
  BY SMT, ConsumerAssumption
<1>2. 0 \in Nat /\ 1 \in Nat /\ 0 <= 1 /\ 1 <= 1
  BY SMT
<1> QED BY <1>1, <1>2 DEF Spends, Cap, Kinds

LEMMA PlaceFacts ==
  /\ \A i, j : InQueue(i) = InQueue(j) => i = j
  /\ \A v, w : AtWorker(v) = AtWorker(w) => v = w
  /\ \A i, w : InQueue(i) # AtWorker(w)
  /\ \A i : InQueue(i)[1] = "queue" /\ InQueue(i)[2] = i
  /\ \A w : AtWorker(w)[1] = "worker" /\ AtWorker(w)[2] = w
BY DEF InQueue, AtWorker

\* What the copies of m in flight are, and may have spent.
Flying(al, P, q, l, g, a, k, m) ==
  /\ DOMAIN al = P
  /\ \A p \in P : \/ \E i \in 1..Len(q) : p = InQueue(i) /\ q[i].msg = m
                  \/ \E w \in Worker : p = AtWorker(w) /\ l[w] # "Idle" /\ g[w] = m
  /\ \A i \in 1..Len(q) : q[i].msg = m =>
       InQueue(i) \in P /\ al[InQueue(i)] = Spends(k, "Queue", q[i].attempt)
  /\ \A w \in Worker : l[w] # "Idle" /\ g[w] = m =>
       AtWorker(w) \in P /\ al[AtWorker(w)] = Spends(k, l[w], a[w])

LEMMA FlyingNow ==
  ASSUME NEW k, NEW m
  PROVE  Flying(Allows(k, m), Places(m), queue, pc, msg, attempt, k, m)
<1>1. DOMAIN Allows(k, m) = Places(m)
  BY DEF Allows
<1>2. \A p \in Places(m) :
        Allows(k, m)[p] = IF p[1] = "queue" THEN Spends(k, "Queue", queue[p[2]].attempt)
                                            ELSE Spends(k, pc[p[2]], attempt[p[2]])
  BY DEF Allows
<1>3. \A i \in 1..Len(queue) : queue[i].msg = m => InQueue(i) \in Places(m)
  BY DEF Places
<1>4. \A w \in Worker : pc[w] # "Idle" /\ msg[w] = m => AtWorker(w) \in Places(m)
  BY DEF Places
<1>5. \A p \in Places(m) :
        \/ \E i \in 1..Len(queue) : p = InQueue(i) /\ queue[i].msg = m
        \/ \E w \in Worker : p = AtWorker(w) /\ pc[w] # "Idle" /\ msg[w] = m
  BY DEF Places
<1>6. ASSUME NEW i \in 1..Len(queue), queue[i].msg = m
      PROVE  Allows(k, m)[InQueue(i)] = Spends(k, "Queue", queue[i].attempt)
  <2>1. InQueue(i) \in Places(m) /\ InQueue(i)[1] = "queue" /\ InQueue(i)[2] = i
    BY <1>3, <1>6, PlaceFacts
  <2> QED BY <1>2, <2>1
<1>7. ASSUME NEW w \in Worker, pc[w] # "Idle", msg[w] = m
      PROVE  Allows(k, m)[AtWorker(w)] = Spends(k, pc[w], attempt[w])
  <2>1. AtWorker(w) \in Places(m) /\ AtWorker(w)[1] # "queue" /\ AtWorker(w)[2] = w
    BY <1>4, <1>7, PlaceFacts
  <2> QED BY <1>2, <2>1
<1> QED BY <1>1, <1>3, <1>4, <1>5, <1>6, <1>7 DEF Flying

LEMMA FlyingNext ==
  ASSUME NEW k, NEW m
  PROVE  Flying(Allows(k, m)', Places(m)', queue', pc', msg', attempt', k, m)
<1>1. DOMAIN Allows(k, m)' = Places(m)'
  BY DEF Allows
<1>2. \A p \in Places(m)' :
        Allows(k, m)'[p] = IF p[1] = "queue" THEN Spends(k, "Queue", queue'[p[2]].attempt)
                                             ELSE Spends(k, pc'[p[2]], attempt'[p[2]])
  BY DEF Allows, Spends
<1>3. \A i \in 1..Len(queue') : queue'[i].msg = m => InQueue(i) \in Places(m)'
  BY DEF Places, InQueue
<1>4. \A w \in Worker : pc'[w] # "Idle" /\ msg'[w] = m => AtWorker(w) \in Places(m)'
  BY DEF Places, AtWorker
<1>5. \A p \in Places(m)' :
        \/ \E i \in 1..Len(queue') : p = InQueue(i) /\ queue'[i].msg = m
        \/ \E w \in Worker : p = AtWorker(w) /\ pc'[w] # "Idle" /\ msg'[w] = m
  BY DEF Places, InQueue, AtWorker
<1>6. ASSUME NEW i \in 1..Len(queue'), queue'[i].msg = m
      PROVE  Allows(k, m)'[InQueue(i)] = Spends(k, "Queue", queue'[i].attempt)
  <2>1. InQueue(i) \in Places(m)' /\ InQueue(i)[1] = "queue" /\ InQueue(i)[2] = i
    BY <1>3, <1>6, PlaceFacts
  <2> QED BY <1>2, <2>1
<1>7. ASSUME NEW w \in Worker, pc'[w] # "Idle", msg'[w] = m
      PROVE  Allows(k, m)'[AtWorker(w)] = Spends(k, pc'[w], attempt'[w])
  <2>1. AtWorker(w) \in Places(m)' /\ AtWorker(w)[1] # "queue" /\ AtWorker(w)[2] = w
    BY <1>4, <1>7, PlaceFacts
  <2> QED BY <1>2, <2>1
<1> QED BY <1>1, <1>3, <1>4, <1>5, <1>6, <1>7 DEF Flying

LEMMA FlyingType ==
  ASSUME NEW k \in Kinds, NEW m, NEW al, NEW P, NEW q, NEW l, NEW g, NEW a,
         Flying(al, P, q, l, g, a, k, m),
         \A i \in 1..Len(q) : q[i].attempt \in 1..MaxAttempts,
         \A w \in Worker : a[w] \in 1..MaxAttempts
  PROVE  \A p \in P : al[p] \in Nat
<1>1. \A at : \A b \in 1..MaxAttempts : Spends(k, at, b) \in Nat
  BY SpendsType
<1> SUFFICES ASSUME NEW p \in P PROVE al[p] \in Nat
  OBVIOUS
<1>2. CASE \E i \in 1..Len(q) : p = InQueue(i) /\ q[i].msg = m
  <2>1. PICK i \in 1..Len(q) : p = InQueue(i) /\ q[i].msg = m
    BY <1>2
  <2>2. al[InQueue(i)] = Spends(k, "Queue", q[i].attempt)
    BY <2>1 DEF Flying
  <2>3. Spends(k, "Queue", q[i].attempt) \in Nat
    BY <1>1
  <2> QED BY <2>1, <2>2, <2>3
<1>3. CASE \E w \in Worker : p = AtWorker(w) /\ l[w] # "Idle" /\ g[w] = m
  <2>1. PICK w \in Worker : p = AtWorker(w) /\ l[w] # "Idle" /\ g[w] = m
    BY <1>3
  <2>2. al[AtWorker(w)] = Spends(k, l[w], a[w])
    BY <2>1 DEF Flying
  <2>3. Spends(k, l[w], a[w]) \in Nat
    BY <1>1
  <2> QED BY <2>1, <2>2, <2>3
<1> QED BY <1>2, <1>3 DEF Flying

\* What is known of the copies of m before and after a step.
Flights(k, m) ==
  /\ Flying(Allows(k, m), Places(m), queue, pc, msg, attempt, k, m)
  /\ Flying(Allows(k, m)', Places(m)', queue', pc', msg', attempt', k, m)
  /\ DOMAIN Allows(k, m) = Places(m) /\ DOMAIN Allows(k, m)' = Places(m)'
  /\ \A p \in Places(m) : Allows(k, m)[p] \in Nat
  /\ \A p \in Places(m)' : Allows(k, m)'[p] \in Nat
  /\ sent[m] \in Nat /\ Total(k, m) \in Nat /\ faults \in Nat /\ Cap(k) \in Nat

LEMMA Flight ==
  ASSUME ConsumerType, AttemptInv, AttemptInv', NEW k \in Kinds, NEW m \in Msg
  PROVE  Flights(k, m)
<1>1. Flying(Allows(k, m), Places(m), queue, pc, msg, attempt, k, m)
  BY FlyingNow
<1>2. Flying(Allows(k, m)', Places(m)', queue', pc', msg', attempt', k, m)
  BY FlyingNext
<1>3. \A p \in Places(m) : Allows(k, m)[p] \in Nat
  <2>1. /\ \A i \in 1..Len(queue) : queue[i].attempt \in 1..MaxAttempts
        /\ \A w \in Worker : attempt[w] \in 1..MaxAttempts
    BY DEF AttemptInv
  <2> QED BY <1>1, <2>1, FlyingType
<1>4. \A p \in Places(m)' : Allows(k, m)'[p] \in Nat
  <2>1. /\ \A i \in 1..Len(queue') : queue'[i].attempt \in 1..MaxAttempts
        /\ \A w \in Worker : attempt'[w] \in 1..MaxAttempts
    BY DEF AttemptInv
  <2> QED BY <1>2, <2>1, FlyingType
<1>5. DOMAIN Allows(k, m) = Places(m) /\ DOMAIN Allows(k, m)' = Places(m)'
  BY <1>1, <1>2 DEF Flying
<1>6. sent[m] \in Nat /\ Total(k, m) \in Nat /\ faults \in Nat
  BY DEF ConsumerType, AttemptInv, Total
<1>7. Cap(k) \in Nat
  BY ConsumerAssumption DEF Cap
<1> QED BY <1>1, <1>2, <1>3, <1>4, <1>5, <1>6, <1>7 DEF Flights

\* The ledger of m is the same, over other places.
LEMMA LedgerMoved ==
  ASSUME NEW k \in Kinds, NEW m \in Msg, Flights(k, m), Ledger(k, m),
         sent'[m] = sent[m], faults' = faults, Total(k, m)' = Total(k, m),
         NEW g \in [Places(m)' -> Places(m)],
         \A p, q \in Places(m)' : p # q => g[p] # g[q],
         \A p \in Places(m)' : Allows(k, m)[g[p]] <= Allows(k, m)'[p]
  PROVE  Ledger(k, m)'
<1>1. Book(Allows(k, m)', sent[m], Total(k, m), faults, Cap(k))
  <2>1. DOMAIN Allows(k, m) = Places(m) /\ DOMAIN Allows(k, m)' = Places(m)'
    BY DEF Flights
  <2>2. AllMoved(Allows(k, m), Allows(k, m)')
    BY <2>1 DEF AllMoved, Flights
  <2> QED BY <2>2, BookMoved DEF Flights, Ledger
<1> QED BY <1>1 DEF Ledger, Cap

LEMMA LedgerStays ==
  ASSUME NEW k \in Kinds, NEW m \in Msg, Flights(k, m), Ledger(k, m),
         sent'[m] = sent[m], faults' = faults, Total(k, m)' = Total(k, m),
         Places(m)' \subseteq Places(m),
         \A p \in Places(m)' : Allows(k, m)[p] <= Allows(k, m)'[p]
  PROVE  Ledger(k, m)'
<1> DEFINE g == [p \in Places(m)' |-> p]
<1>1. g \in [Places(m)' -> Places(m)] /\ \A p \in Places(m)' : g[p] = p
  OBVIOUS
<1> HIDE DEF g
<1>2. \A p, q \in Places(m)' : p # q => g[p] # g[q]
  BY <1>1
<1>3. \A p \in Places(m)' : Allows(k, m)[g[p]] <= Allows(k, m)'[p]
  BY <1>1
<1> QED BY <1>1, <1>2, <1>3, LedgerMoved

\* A worker goes on with its copy.
GoesOn(w, l) ==
  /\ pc[w] # "Idle" /\ l # "Idle" /\ pc'[w] = l
  /\ \A v \in Worker : v # w => pc'[v] = pc[v]
  /\ UNCHANGED <<queue, sent, msg, attempt, faults>>

OnlyAt(k, m, w, l) ==
  /\ Places(m)' = Places(m)
  /\ \A p \in Places(m) : p # AtWorker(w) => Allows(k, m)'[p] = Allows(k, m)[p]
  /\ msg[w] = m => /\ AtWorker(w) \in Places(m)
                   /\ Allows(k, m)[AtWorker(w)] = Spends(k, pc[w], attempt[w])
                   /\ Allows(k, m)'[AtWorker(w)] = Spends(k, l, attempt[w])
  /\ msg[w] # m => AtWorker(w) \notin Places(m)

LEMMA GoesOnPlaces ==
  ASSUME NEW k \in Kinds, NEW m \in Msg, Flights(k, m), NEW w \in Worker, NEW l, GoesOn(w, l)
  PROVE  OnlyAt(k, m, w, l)
<1>1. Flying(Allows(k, m), Places(m), queue, pc, msg, attempt, k, m)
  BY DEF Flights
<1>2. Flying(Allows(k, m)', Places(m)', queue, pc', msg, attempt, k, m)
  BY DEF Flights, GoesOn
<1>3. \A v \in Worker : (pc'[v] # "Idle") <=> (pc[v] # "Idle")
  BY DEF GoesOn
<1>4. Places(m)' \subseteq Places(m)
  BY <1>1, <1>2, <1>3 DEF Flying
<1>5. Places(m) \subseteq Places(m)'
  BY <1>1, <1>2, <1>3 DEF Flying
<1>6. ASSUME NEW p \in Places(m), p # AtWorker(w) PROVE Allows(k, m)'[p] = Allows(k, m)[p]
  <2>1. CASE \E i \in 1..Len(queue) : p = InQueue(i) /\ queue[i].msg = m
    <3>1. PICK i \in 1..Len(queue) : p = InQueue(i) /\ queue[i].msg = m
      BY <2>1
    <3>2. Allows(k, m)[InQueue(i)] = Spends(k, "Queue", queue[i].attempt)
      BY <1>1, <3>1 DEF Flying
    <3>3. Allows(k, m)'[InQueue(i)] = Spends(k, "Queue", queue[i].attempt)
      BY <1>2, <3>1 DEF Flying
    <3> QED BY <3>1, <3>2, <3>3
  <2>2. CASE \E v \in Worker : p = AtWorker(v) /\ pc[v] # "Idle" /\ msg[v] = m
    <3>1. PICK v \in Worker : p = AtWorker(v) /\ pc[v] # "Idle" /\ msg[v] = m
      BY <2>2
    <3>2. pc'[v] = pc[v]
      BY <1>6, <3>1 DEF GoesOn
    <3>3. Allows(k, m)[AtWorker(v)] = Spends(k, pc[v], attempt[v])
      BY <1>1, <3>1 DEF Flying
    <3>4. Allows(k, m)'[AtWorker(v)] = Spends(k, pc'[v], attempt[v])
      BY <1>2, <3>1, <3>2 DEF Flying
    <3> QED BY <3>1, <3>2, <3>3, <3>4
  <2> QED BY <1>1, <2>1, <2>2 DEF Flying
<1>7. ASSUME msg[w] = m
      PROVE  /\ AtWorker(w) \in Places(m)
             /\ Allows(k, m)[AtWorker(w)] = Spends(k, pc[w], attempt[w])
             /\ Allows(k, m)'[AtWorker(w)] = Spends(k, l, attempt[w])
  <2>1. pc[w] # "Idle" /\ pc'[w] # "Idle" /\ pc'[w] = l
    BY DEF GoesOn
  <2>2. AtWorker(w) \in Places(m) /\ Allows(k, m)[AtWorker(w)] = Spends(k, pc[w], attempt[w])
    BY <1>1, <1>7, <2>1 DEF Flying
  <2>3. Allows(k, m)'[AtWorker(w)] = Spends(k, pc'[w], attempt[w])
    BY <1>2, <1>7, <2>1 DEF Flying
  <2> QED BY <2>1, <2>2, <2>3
<1>8. msg[w] # m => AtWorker(w) \notin Places(m)
  <2> SUFFICES ASSUME AtWorker(w) \in Places(m) PROVE msg[w] = m
    OBVIOUS
  <2>1. \A i : AtWorker(w) # InQueue(i)
    BY PlaceFacts
  <2>2. PICK v \in Worker : AtWorker(w) = AtWorker(v) /\ msg[v] = m
    BY <1>1, <2>1 DEF Flying
  <2> QED BY <2>2, PlaceFacts
<1> QED BY <1>4, <1>5, <1>6, <1>7, <1>8 DEF OnlyAt

LEMMA GoesOnKeeps ==
  ASSUME NEW k \in Kinds, NEW m \in Msg, Flights(k, m), Ledger(k, m),
         NEW w \in Worker, NEW l, GoesOn(w, l), Total(k, m)' = Total(k, m),
         msg[w] = m => Spends(k, pc[w], attempt[w]) <= Spends(k, l, attempt[w])
  PROVE  Ledger(k, m)'
<1>1. /\ Places(m)' = Places(m)
      /\ \A p \in Places(m) : p # AtWorker(w) => Allows(k, m)'[p] = Allows(k, m)[p]
      /\ msg[w] = m => /\ Allows(k, m)[AtWorker(w)] = Spends(k, pc[w], attempt[w])
                       /\ Allows(k, m)'[AtWorker(w)] = Spends(k, l, attempt[w])
      /\ msg[w] # m => AtWorker(w) \notin Places(m)
  <2>1. OnlyAt(k, m, w, l)
    BY GoesOnPlaces
  <2> QED BY <2>1 DEF OnlyAt
<1>2. \A n \in Nat : n <= n
  BY SMT
<1>3. \A p \in Places(m)' : Allows(k, m)[p] <= Allows(k, m)'[p]
  <2> SUFFICES ASSUME NEW p \in Places(m) PROVE Allows(k, m)[p] <= Allows(k, m)'[p]
    BY <1>1
  <2>1. CASE p # AtWorker(w)
    <3>1. Allows(k, m)[p] \in Nat /\ Allows(k, m)'[p] = Allows(k, m)[p]
      BY <1>1, <2>1 DEF Flights
    <3> QED BY <1>2, <3>1
  <2>2. CASE p = AtWorker(w)
    BY <1>1, <2>2
  <2> QED BY <2>1, <2>2
<1>4. sent'[m] = sent[m] /\ faults' = faults
  BY DEF GoesOn
<1> QED BY <1>1, <1>3, <1>4, LedgerStays

LEMMA GoesOnSpends ==
  ASSUME NEW k \in Kinds, NEW m \in Msg, Flights(k, m), Ledger(k, m), AttemptInv,
         NEW w \in Worker, NEW l, GoesOn(w, l), msg[w] = m,
         Total(k, m)' \in Nat, Total(k, m)' <= Total(k, m) + 1,
         Spends(k, l, attempt[w]) = Spends(k, pc[w], attempt[w]) + 1
  PROVE  Ledger(k, m)'
<1> DEFINE q == AtWorker(w)
           al == Allows(k, m)
           al2 == Allows(k, m)'
<1>1. /\ Places(m)' = Places(m) /\ q \in Places(m)
      /\ \A p \in Places(m) : p # q => al2[p] = al[p]
      /\ al[q] = Spends(k, pc[w], attempt[w]) /\ al2[q] = Spends(k, l, attempt[w])
  <2>1. OnlyAt(k, m, w, l)
    BY GoesOnPlaces
  <2> QED BY <2>1 DEF OnlyAt
<1>2. DOMAIN al = Places(m) /\ DOMAIN al2 = Places(m)
      /\ \A p \in DOMAIN al : al[p] \in Nat
  BY <1>1 DEF Flights
<1>3. al2[q] = al[q] + 1
  BY <1>1
<1>4. al[q] < Cap(k)
  <2>1. Spends(k, l, attempt[w]) <= Cap(k) /\ Cap(k) \in Nat
    BY SpendsType DEF AttemptInv
  <2>2. al[q] \in Nat /\ al[q] + 1 <= Cap(k)
    BY <1>1, <1>2, <1>3, <2>1
  <2> HIDE DEF al, q
  <2> QED BY SMT, <2>1, <2>2
<1>5. Book(al, sent[m], Total(k, m), faults, Cap(k))
      /\ sent[m] \in Nat /\ Total(k, m) \in Nat /\ faults \in Nat /\ Cap(k) \in Nat
  BY DEF Ledger, Flights
<1> HIDE DEF al, al2, q
<1>6. Book(al2, sent[m], Total(k, m)', faults, Cap(k))
  <2>1. OneSpent(al, al2, Cap(k))
    BY <1>1, <1>2, <1>3, <1>4 DEF OneSpent
  <2> QED BY <1>5, <2>1, BookSpent
<1>7. sent'[m] = sent[m] /\ faults' = faults
  BY DEF GoesOn
<1> QED BY <1>6, <1>7 DEF Ledger, Cap, al2

\* A worker lets go of its copy.
LetsGo(w) ==
  /\ pc[w] # "Idle" /\ pc'[w] = "Idle"
  /\ \A v \in Worker : v # w => pc'[v] = pc[v] /\ msg'[v] = msg[v] /\ attempt'[v] = attempt[v]

\* The copy that was at w, if it is still in flight, is allowed x.
Relocates(k, m, w, x) ==
  \E g \in [Places(m)' -> Places(m)] :
    /\ \A p, q \in Places(m)' : p # q => g[p] # g[q]
    /\ \A p \in Places(m)' : /\ g[p] = AtWorker(w) => Allows(k, m)'[p] = x
                             /\ g[p] # AtWorker(w) => Allows(k, m)'[p] = Allows(k, m)[g[p]]

LEMMA LetGoPlaces ==
  ASSUME NEW k \in Kinds, NEW m \in Msg, Flights(k, m), NEW w \in Worker, LetsGo(w)
  PROVE  /\ AtWorker(w) \notin Places(m)'
         /\ AtWorker(w) \in Places(m) <=> msg[w] = m
         /\ \A v \in Worker : AtWorker(v) \in Places(m)' =>
              AtWorker(v) \in Places(m) /\ Allows(k, m)'[AtWorker(v)] = Allows(k, m)[AtWorker(v)]
<1>1. Flying(Allows(k, m), Places(m), queue, pc, msg, attempt, k, m)
  BY DEF Flights
<1>2. Flying(Allows(k, m)', Places(m)', queue', pc', msg', attempt', k, m)
  BY DEF Flights
<1>3. \A i, v : AtWorker(v) # InQueue(i)
  BY PlaceFacts
<1>4. ASSUME NEW v \in Worker, AtWorker(v) \in Places(m)'
      PROVE  pc'[v] # "Idle" /\ msg'[v] = m
  <2>1. PICK u \in Worker : AtWorker(v) = AtWorker(u) /\ pc'[u] # "Idle" /\ msg'[u] = m
    BY <1>2, <1>3, <1>4 DEF Flying
  <2> QED BY <2>1, PlaceFacts
<1>5. AtWorker(w) \notin Places(m)'
  BY <1>4 DEF LetsGo
<1>6. AtWorker(w) \in Places(m) <=> msg[w] = m
  <2>1. msg[w] = m => AtWorker(w) \in Places(m)
    BY <1>1 DEF Flying, LetsGo
  <2>2. ASSUME AtWorker(w) \in Places(m) PROVE msg[w] = m
    <3>1. PICK u \in Worker : AtWorker(w) = AtWorker(u) /\ msg[u] = m
      BY <1>1, <1>3, <2>2 DEF Flying
    <3> QED BY <3>1, PlaceFacts
  <2> QED BY <2>1, <2>2
<1>7. ASSUME NEW v \in Worker, AtWorker(v) \in Places(m)'
      PROVE  AtWorker(v) \in Places(m) /\ Allows(k, m)'[AtWorker(v)] = Allows(k, m)[AtWorker(v)]
  <2>1. v # w
    BY <1>5, <1>7
  <2>2. pc'[v] # "Idle" /\ msg'[v] = m
    BY <1>4, <1>7
  <2>3. pc'[v] = pc[v] /\ msg'[v] = msg[v] /\ attempt'[v] = attempt[v]
    BY <2>1 DEF LetsGo
  <2>4. AtWorker(v) \in Places(m) /\ Allows(k, m)[AtWorker(v)] = Spends(k, pc[v], attempt[v])
    BY <1>1, <2>2, <2>3 DEF Flying
  <2>5. Allows(k, m)'[AtWorker(v)] = Spends(k, pc'[v], attempt'[v])
    BY <1>2, <2>2 DEF Flying
  <2> QED BY <2>3, <2>4, <2>5
<1> QED BY <1>5, <1>6, <1>7

LEMMA LeavePlaces ==
  ASSUME NEW k \in Kinds, NEW m \in Msg, Flights(k, m), NEW w \in Worker, NEW x, LetsGo(w),
         queue' = queue
  PROVE  Relocates(k, m, w, x)
<1>1. /\ AtWorker(w) \notin Places(m)'
      /\ \A v \in Worker : AtWorker(v) \in Places(m)' =>
           AtWorker(v) \in Places(m) /\ Allows(k, m)'[AtWorker(v)] = Allows(k, m)[AtWorker(v)]
  BY LetGoPlaces
<1>2. Flying(Allows(k, m), Places(m), queue, pc, msg, attempt, k, m)
  BY DEF Flights
<1>3. Flying(Allows(k, m)', Places(m)', queue, pc', msg', attempt', k, m)
  BY DEF Flights
<1>4. ASSUME NEW p \in Places(m)'
      PROVE  p \in Places(m) /\ Allows(k, m)'[p] = Allows(k, m)[p]
  <2>1. CASE \E i \in 1..Len(queue) : p = InQueue(i) /\ queue[i].msg = m
    <3>1. PICK i \in 1..Len(queue) : p = InQueue(i) /\ queue[i].msg = m
      BY <2>1
    <3>2. p \in Places(m) /\ Allows(k, m)[p] = Spends(k, "Queue", queue[i].attempt)
      BY <1>2, <3>1 DEF Flying
    <3>3. Allows(k, m)'[p] = Spends(k, "Queue", queue[i].attempt)
      BY <1>3, <3>1 DEF Flying
    <3> QED BY <3>2, <3>3
  <2>2. CASE \E v \in Worker : p = AtWorker(v)
    BY <1>1, <2>2
  <2> QED BY <1>3, <2>1, <2>2 DEF Flying
<1> DEFINE g == [p \in Places(m)' |-> p]
<1>5. g \in [Places(m)' -> Places(m)] /\ \A p \in Places(m)' : g[p] = p
  BY <1>4
<1> HIDE DEF g
<1>6. /\ \A p, q \in Places(m)' : p # q => g[p] # g[q]
      /\ \A p \in Places(m)' : /\ g[p] = AtWorker(w) => Allows(k, m)'[p] = x
                               /\ g[p] # AtWorker(w) => Allows(k, m)'[p] = Allows(k, m)[g[p]]
  BY <1>1, <1>4, <1>5
<1> QED BY <1>5, <1>6 DEF Relocates

LEMMA RequeuePlaces ==
  ASSUME ConsumerType, NEW k \in Kinds, NEW m \in Msg, Flights(k, m), NEW w \in Worker, LetsGo(w),
         NEW c \in Copy, c.msg = msg[w], queue' = Append(queue, c)
  PROVE  Relocates(k, m, w, Spends(k, "Queue", c.attempt))
<1>1. /\ AtWorker(w) \notin Places(m)' /\ (msg[w] = m => AtWorker(w) \in Places(m))
      /\ \A v \in Worker : AtWorker(v) \in Places(m)' =>
           AtWorker(v) \in Places(m) /\ Allows(k, m)'[AtWorker(v)] = Allows(k, m)[AtWorker(v)]
  BY LetGoPlaces
<1>2. Flying(Allows(k, m), Places(m), queue, pc, msg, attempt, k, m)
  BY DEF Flights
<1>3. Flying(Allows(k, m)', Places(m)', queue', pc', msg', attempt', k, m)
  BY DEF Flights
<1>4. PICK n \in Nat : n = Len(queue) + 1
  BY SMT DEF ConsumerType
<1>5. /\ queue'[n] = c /\ n \in 1..Len(queue')
      /\ \A i \in 1..Len(queue') : i # n => i \in 1..Len(queue) /\ queue'[i] = queue[i]
      /\ \A i \in 1..Len(queue) : i # n
  BY SMT, <1>4 DEF ConsumerType
<1> DEFINE g == [p \in Places(m)' |-> IF p = InQueue(n) THEN AtWorker(w) ELSE p]
<1>6. ASSUME NEW p \in Places(m)', p # InQueue(n)
      PROVE  p \in Places(m) /\ Allows(k, m)'[p] = Allows(k, m)[p] /\ p # AtWorker(w)
  <2>1. CASE \E i \in 1..Len(queue') : p = InQueue(i) /\ queue'[i].msg = m
    <3>1. PICK i \in 1..Len(queue') : p = InQueue(i) /\ queue'[i].msg = m
      BY <2>1
    <3>2. i \in 1..Len(queue) /\ queue'[i] = queue[i]
      BY <1>5, <1>6, <3>1
    <3>3. p \in Places(m) /\ Allows(k, m)[p] = Spends(k, "Queue", queue[i].attempt)
      BY <1>2, <3>1, <3>2 DEF Flying
    <3>4. Allows(k, m)'[p] = Spends(k, "Queue", queue'[i].attempt)
      BY <1>3, <3>1 DEF Flying
    <3> QED BY <1>1, <3>2, <3>3, <3>4
  <2>2. CASE \E v \in Worker : p = AtWorker(v)
    BY <1>1, <2>2
  <2> QED BY <1>3, <2>1, <2>2 DEF Flying
<1>7. ASSUME InQueue(n) \in Places(m)'
      PROVE  msg[w] = m /\ Allows(k, m)'[InQueue(n)] = Spends(k, "Queue", c.attempt)
  <2>1. PICK i \in 1..Len(queue') : InQueue(n) = InQueue(i) /\ queue'[i].msg = m
    <3>1. \A v : InQueue(n) # AtWorker(v)
      BY PlaceFacts
    <3> QED BY <1>3, <1>7, <3>1 DEF Flying
  <2>2. i = n
    BY <2>1, PlaceFacts
  <2>3. Allows(k, m)'[InQueue(i)] = Spends(k, "Queue", queue'[i].attempt)
    BY <1>3, <2>1 DEF Flying
  <2> QED BY <1>5, <2>1, <2>2, <2>3
<1>8. /\ g \in [Places(m)' -> Places(m)]
      /\ \A p \in Places(m)' : g[p] = IF p = InQueue(n) THEN AtWorker(w) ELSE p
  BY <1>1, <1>6, <1>7
<1> HIDE DEF g
<1>9. \A p, q \in Places(m)' : p # q => g[p] # g[q]
  BY <1>6, <1>8
<1>10. \A p \in Places(m)' :
         /\ g[p] = AtWorker(w) => Allows(k, m)'[p] = Spends(k, "Queue", c.attempt)
         /\ g[p] # AtWorker(w) => Allows(k, m)'[p] = Allows(k, m)[g[p]]
  BY <1>6, <1>7, <1>8
<1> QED BY <1>8, <1>9, <1>10 DEF Relocates

LEMMA LedgerRelocated ==
  ASSUME NEW k \in Kinds, NEW m \in Msg, Flights(k, m), Ledger(k, m), NEW w \in Worker, LetsGo(w),
         NEW x \in Nat, Relocates(k, m, w, x), sent'[m] = sent[m], Total(k, m)' = Total(k, m),
         \/ faults' = faults /\ (msg[w] = m => Spends(k, pc[w], attempt[w]) <= x)
         \/ faults' = faults + 1 /\ (msg[w] = m => Spends(k, pc[w], attempt[w]) <= x + 1)
  PROVE  Ledger(k, m)'
<1> DEFINE q == AtWorker(w)
           al == Allows(k, m)
           al2 == [p \in Places(m) |-> IF p = q THEN x ELSE al[p]]
<1>1. PICK g \in [Places(m)' -> Places(m)] :
        /\ \A p, r \in Places(m)' : p # r => g[p] # g[r]
        /\ \A p \in Places(m)' : /\ g[p] = q => Allows(k, m)'[p] = x
                                 /\ g[p] # q => Allows(k, m)'[p] = al[g[p]]
  BY DEF Relocates
<1>2. /\ DOMAIN al = Places(m) /\ DOMAIN Allows(k, m)' = Places(m)'
      /\ \A p \in Places(m) : al[p] \in Nat
      /\ \A p \in Places(m)' : Allows(k, m)'[p] \in Nat
      /\ sent[m] \in Nat /\ Total(k, m) \in Nat /\ faults \in Nat /\ Cap(k) \in Nat
  BY DEF Flights
<1>3. /\ DOMAIN al2 = Places(m) /\ \A p \in Places(m) : al2[p] = IF p = q THEN x ELSE al[p]
      /\ \A p \in Places(m) : al2[p] \in Nat
  BY <1>2
<1>4. q \in Places(m) => msg[w] = m /\ al[q] = Spends(k, pc[w], attempt[w])
  <2>1. q \in Places(m) <=> msg[w] = m
    BY LetGoPlaces
  <2>2. Flying(al, Places(m), queue, pc, msg, attempt, k, m)
    BY DEF Flights
  <2> QED BY <2>1, <2>2 DEF Flying, LetsGo
<1>5. Book(al, sent[m], Total(k, m), faults, Cap(k))
  BY DEF Ledger
<1> HIDE DEF al2, al, q
<1>6. Book(al2, sent[m], Total(k, m), faults', Cap(k))
  <2>1. CASE faults' = faults /\ (msg[w] = m => Spends(k, pc[w], attempt[w]) <= x)
    <3> DEFINE i == [p \in Places(m) |-> p]
    <3>1. i \in [DOMAIN al2 -> DOMAIN al] /\ \A p \in Places(m) : i[p] = p
      BY <1>2, <1>3
    <3> HIDE DEF i
    <3>2. \A n \in Nat : n <= n
      BY SMT
    <3>3. \A p \in DOMAIN al2 : al[i[p]] <= al2[p]
      <4> SUFFICES ASSUME NEW p \in Places(m) PROVE al[p] <= al2[p]
        BY <1>3, <3>1
      <4>1. CASE p = q
        BY <1>3, <1>4, <2>1, <4>1
      <4>2. CASE p # q
        BY <1>2, <1>3, <3>2, <4>2
      <4> QED BY <4>1, <4>2
    <3>4. \A p, r \in DOMAIN al2 : p # r => i[p] # i[r]
      <4> SUFFICES ASSUME NEW p \in Places(m), NEW r \in Places(m), p # r PROVE i[p] # i[r]
        BY <1>3
      <4>1. i[p] = p /\ i[r] = r
        BY <3>1
      <4> QED BY <4>1
    <3>5. Book(al2, sent[m], Total(k, m), faults, Cap(k))
      <4>1. AllMoved(al, al2)
        BY <1>2, <1>3, <3>1, <3>3, <3>4 DEF AllMoved
      <4> QED BY <1>2, <1>5, <4>1, BookMoved
    <3> QED BY <2>1, <3>5
  <2>2. CASE faults' = faults + 1 /\ (msg[w] = m => Spends(k, pc[w], attempt[w]) <= x + 1)
    <3>1. CASE q \in Places(m)
      <4>1. OneRefunded(al, al2)
        <5>1. al2[q] = x /\ x \in Nat /\ al[q] <= x + 1
          BY <1>3, <1>4, <2>2, <3>1
        <5>2. \A p \in DOMAIN al : p # q => al2[p] = al[p]
          BY <1>2, <1>3
        <5>3. DOMAIN al2 = DOMAIN al /\ q \in DOMAIN al /\ \A p \in DOMAIN al : al[p] \in Nat
          BY <1>2, <1>3, <3>1
        <5>4. al2[q] \in Nat /\ al[q] <= al2[q] + 1
          BY <5>1
        <5> QED BY <5>2, <5>3, <5>4 DEF OneRefunded
      <4>2. Book(al2, sent[m], Total(k, m), faults + 1, Cap(k))
        BY <1>2, <1>5, <4>1, BookRefunded
      <4> QED BY <2>2, <4>2
    <3>2. CASE q \notin Places(m)
      <4>1. \A p \in Places(m) : al2[p] = al[p]
        BY <1>3, <3>2
      <4>2. Book(al, sent[m], Total(k, m), faults + 1, Cap(k))
        BY <1>2, <1>5, BookFaults
      <4>3. al2 = al
        <5>1. al2 = [p \in Places(m) |-> al[p]]
          BY <3>2 DEF al2
        <5>2. al = [p \in Places(m) |-> al[p]]
          BY DEF al, Allows
        <5> QED BY <5>1, <5>2
      <4> QED BY <2>2, <4>2, <4>3
    <3> QED BY <3>1, <3>2
  <2> QED BY <2>1, <2>2
<1>7. faults' \in Nat
  BY SMT, <1>2
<1>8. g \in [DOMAIN Allows(k, m)' -> DOMAIN al2]
  BY <1>1, <1>2, <1>3
<1>9. \A p \in DOMAIN Allows(k, m)' : al2[g[p]] <= Allows(k, m)'[p]
  <2> SUFFICES ASSUME NEW p \in Places(m)' PROVE al2[g[p]] <= Allows(k, m)'[p]
    BY <1>2
  <2>1. al2[g[p]] = Allows(k, m)'[p] /\ al2[g[p]] \in Nat
    BY <1>1, <1>3
  <2> QED BY SMT, <2>1
<1>10. Book(Allows(k, m)', sent[m], Total(k, m), faults', Cap(k))
  <2>1. \A p, r \in DOMAIN Allows(k, m)' : p # r => g[p] # g[r]
    BY <1>1, <1>2
  <2>2. AllMoved(al2, Allows(k, m)')
    BY <1>2, <1>3, <1>8, <1>9, <2>1 DEF AllMoved
  <2> QED BY <1>2, <1>6, <1>7, <2>2, BookMoved
<1> QED BY <1>10 DEF Ledger, Cap

\* A worker takes the first copy of the queue.
Takes(w) ==
  /\ queue # <<>> /\ queue' = Tail(queue)
  /\ pc[w] = "Idle" /\ pc'[w] = "Begin"
  /\ msg'[w] = Head(queue).msg /\ attempt'[w] = Head(queue).attempt
  /\ \A v \in Worker : v # w => pc'[v] = pc[v] /\ msg'[v] = msg[v] /\ attempt'[v] = attempt[v]

LEMMA TakeKeeps ==
  ASSUME ConsumerType, NEW k \in Kinds, NEW m \in Msg, Flights(k, m), Ledger(k, m),
         NEW w \in Worker, Takes(w), sent'[m] = sent[m], Total(k, m)' = Total(k, m),
         faults' = faults
  PROVE  Ledger(k, m)'
<1> DEFINE Next1(p) == IF p[1] = "queue" THEN InQueue(p[2] + 1)
                       ELSE IF p = AtWorker(w) THEN InQueue(1) ELSE p
           g == [p \in Places(m)' |-> Next1(p)]
<1>1. Flying(Allows(k, m), Places(m), queue, pc, msg, attempt, k, m)
  BY DEF Flights
<1>2. Flying(Allows(k, m)', Places(m)', queue', pc', msg', attempt', k, m)
  BY DEF Flights
<1>3. /\ Head(queue) = queue[1] /\ 1 \in 1..Len(queue)
      /\ \A i \in 1..Len(queue') : i + 1 \in 1..Len(queue) /\ queue'[i] = queue[i + 1]
      /\ \A i \in 1..Len(queue') : i + 1 # 1
      /\ \A i, j \in 1..Len(queue') : i + 1 = j + 1 => i = j
  BY SMT DEF ConsumerType, Takes
<1>4. /\ \A i : Next1(InQueue(i)) = InQueue(i + 1)
      /\ Next1(AtWorker(w)) = InQueue(1)
      /\ \A v : v # w => Next1(AtWorker(v)) = AtWorker(v)
  BY PlaceFacts
<1>5. \A a : Spends(k, "Begin", a) = Spends(k, "Queue", a)
  BY DEF Spends
<1> HIDE DEF Next1
<1>6. ASSUME NEW i \in 1..Len(queue'), queue'[i].msg = m
      PROVE  /\ Next1(InQueue(i)) \in Places(m)
             /\ Allows(k, m)'[InQueue(i)] = Allows(k, m)[Next1(InQueue(i))]
  <2>1. InQueue(i + 1) \in Places(m)
        /\ Allows(k, m)[InQueue(i + 1)] = Spends(k, "Queue", queue[i + 1].attempt)
    BY <1>1, <1>3, <1>6 DEF Flying
  <2>2. Allows(k, m)'[InQueue(i)] = Spends(k, "Queue", queue'[i].attempt)
    BY <1>2, <1>6 DEF Flying
  <2> QED BY <1>3, <1>4, <2>1, <2>2
<1>7. ASSUME NEW v \in Worker, pc'[v] # "Idle", msg'[v] = m
      PROVE  /\ Next1(AtWorker(v)) \in Places(m)
             /\ Allows(k, m)'[AtWorker(v)] = Allows(k, m)[Next1(AtWorker(v))]
  <2>1. Allows(k, m)'[AtWorker(v)] = Spends(k, pc'[v], attempt'[v])
    BY <1>2, <1>7 DEF Flying
  <2>2. CASE v = w
    <3>1. pc'[v] = "Begin" /\ queue[1].msg = m /\ attempt'[v] = queue[1].attempt
      BY <1>3, <1>7, <2>2 DEF Takes
    <3>2. InQueue(1) \in Places(m)
          /\ Allows(k, m)[InQueue(1)] = Spends(k, "Queue", queue[1].attempt)
      BY <1>1, <1>3, <3>1 DEF Flying
    <3> QED BY <1>4, <1>5, <2>1, <2>2, <3>1, <3>2
  <2>3. CASE v # w
    <3>1. pc'[v] = pc[v] /\ msg'[v] = msg[v] /\ attempt'[v] = attempt[v]
      BY <2>3 DEF Takes
    <3>2. AtWorker(v) \in Places(m) /\ Allows(k, m)[AtWorker(v)] = Spends(k, pc[v], attempt[v])
      BY <1>1, <1>7, <3>1 DEF Flying
    <3> QED BY <1>4, <2>1, <2>3, <3>1, <3>2
  <2> QED BY <2>2, <2>3
<1>8. ASSUME NEW p \in Places(m)'
      PROVE  Next1(p) \in Places(m) /\ Allows(k, m)'[p] = Allows(k, m)[Next1(p)]
  <2>1. CASE \E i \in 1..Len(queue') : p = InQueue(i) /\ queue'[i].msg = m
    BY <1>6, <2>1
  <2>2. CASE \E v \in Worker : p = AtWorker(v) /\ pc'[v] # "Idle" /\ msg'[v] = m
    BY <1>7, <2>2
  <2> QED BY <1>2, <2>1, <2>2 DEF Flying
<1>9. g \in [Places(m)' -> Places(m)] /\ \A p \in Places(m)' : g[p] = Next1(p)
  BY <1>8
<1> HIDE DEF g
<1>10. ASSUME NEW p \in Places(m)', NEW q \in Places(m)', Next1(p) = Next1(q) PROVE p = q
  <2> DEFINE Q(x) == \E i \in 1..Len(queue') : x = InQueue(i)
             V(x) == \E v \in Worker : x = AtWorker(v)
  <2>1. (Q(p) \/ V(p)) /\ (Q(q) \/ V(q))
    BY <1>2 DEF Flying
  <2>2. CASE Q(p) /\ Q(q)
    <3>1. PICK i \in 1..Len(queue'), j \in 1..Len(queue') : p = InQueue(i) /\ q = InQueue(j)
      BY <2>2
    <3>2. InQueue(i + 1) = InQueue(j + 1)
      BY <1>4, <1>10, <3>1
    <3>3. i + 1 = j + 1
      BY <3>2, PlaceFacts
    <3> QED BY <1>3, <3>1, <3>3
  <2>3. ASSUME NEW a, NEW b, Q(a), V(b) PROVE Next1(a) # Next1(b)
    <3>1. PICK i \in 1..Len(queue'), v \in Worker : a = InQueue(i) /\ b = AtWorker(v)
      BY <2>3
    <3>2. Next1(a) = InQueue(i + 1) /\ (Next1(b) = InQueue(1) \/ Next1(b) = AtWorker(v))
      BY <1>4, <3>1
    <3>3. InQueue(i + 1) # InQueue(1)
      BY <1>3, PlaceFacts
    <3>4. InQueue(i + 1) # AtWorker(v)
      BY PlaceFacts
    <3> QED BY <3>2, <3>3, <3>4
  <2>4. CASE V(p) /\ V(q)
    <3>1. PICK u \in Worker, v \in Worker : p = AtWorker(u) /\ q = AtWorker(v)
      BY <2>4
    <3>2. \A y : AtWorker(y) # InQueue(1)
      BY PlaceFacts
    <3> QED BY <1>4, <1>10, <3>1, <3>2
  <2> QED BY <1>10, <2>1, <2>2, <2>3, <2>4
<1>11. \A p \in Places(m)' : Allows(k, m)[g[p]] <= Allows(k, m)'[p]
  <2> SUFFICES ASSUME NEW p \in Places(m)' PROVE Allows(k, m)[g[p]] <= Allows(k, m)'[p]
    OBVIOUS
  <2>1. Allows(k, m)[g[p]] = Allows(k, m)'[p] /\ Allows(k, m)'[p] \in Nat
    BY <1>8, <1>9 DEF Flights
  <2> QED BY SMT, <2>1
<1>12. \A p, q \in Places(m)' : p # q => g[p] # g[q]
  BY <1>9, <1>10
<1> QED BY <1>9, <1>11, <1>12, LedgerMoved

LEMMA PublishKeeps ==
  ASSUME ConsumerType, NEW k \in Kinds, NEW m \in Msg, Flights(k, m), Ledger(k, m),
         NEW c \in Copy, queue' = Append(queue, c), UNCHANGED <<pc, msg, attempt, faults>>,
         sent'[m] = IF c.msg = m THEN sent[m] + 1 ELSE sent[m], Total(k, m)' = Total(k, m)
  PROVE  Ledger(k, m)'
<1>1. Flying(Allows(k, m), Places(m), queue, pc, msg, attempt, k, m)
  BY DEF Flights
<1>2. Flying(Allows(k, m)', Places(m)', queue', pc, msg, attempt, k, m)
  BY DEF Flights
<1>3. PICK n \in Nat : n = Len(queue) + 1
  BY SMT DEF ConsumerType
<1>4. /\ queue'[n] = c /\ n \in 1..Len(queue')
      /\ \A i \in 1..Len(queue') : i # n => i \in 1..Len(queue) /\ queue'[i] = queue[i]
      /\ \A i \in 1..Len(queue) : i # n /\ i \in 1..Len(queue') /\ queue'[i] = queue[i]
  BY SMT, <1>3 DEF ConsumerType
<1>5. ASSUME NEW p \in Places(m)
      PROVE  p \in Places(m)' /\ Allows(k, m)'[p] = Allows(k, m)[p] /\ p # InQueue(n)
  <2>1. CASE \E i \in 1..Len(queue) : p = InQueue(i) /\ queue[i].msg = m
    <3>1. PICK i \in 1..Len(queue) : p = InQueue(i) /\ queue[i].msg = m
      BY <2>1
    <3>2. i # n /\ i \in 1..Len(queue') /\ queue'[i] = queue[i]
      BY <1>4
    <3>3. Allows(k, m)[p] = Spends(k, "Queue", queue[i].attempt)
      BY <1>1, <3>1 DEF Flying
    <3>4. p \in Places(m)' /\ Allows(k, m)'[p] = Spends(k, "Queue", queue'[i].attempt)
      BY <1>2, <3>1, <3>2 DEF Flying
    <3>5. p # InQueue(n)
      BY <3>1, <3>2, PlaceFacts
    <3> QED BY <3>2, <3>3, <3>4, <3>5
  <2>2. CASE \E v \in Worker : p = AtWorker(v) /\ pc[v] # "Idle" /\ msg[v] = m
    <3>1. PICK v \in Worker : p = AtWorker(v) /\ pc[v] # "Idle" /\ msg[v] = m
      BY <2>2
    <3>2. Allows(k, m)[p] = Spends(k, pc[v], attempt[v])
      BY <1>1, <3>1 DEF Flying
    <3>3. p \in Places(m)' /\ Allows(k, m)'[p] = Spends(k, pc[v], attempt[v])
      BY <1>2, <3>1 DEF Flying
    <3>4. p # InQueue(n)
      BY <3>1, PlaceFacts
    <3> QED BY <3>2, <3>3, <3>4
  <2> QED BY <1>1, <2>1, <2>2 DEF Flying
<1>6. ASSUME NEW p \in Places(m)' PROVE p \in Places(m) \/ (p = InQueue(n) /\ c.msg = m)
  <2>1. CASE \E i \in 1..Len(queue') : p = InQueue(i) /\ queue'[i].msg = m
    <3>1. PICK i \in 1..Len(queue') : p = InQueue(i) /\ queue'[i].msg = m
      BY <2>1
    <3>2. CASE i = n
      BY <1>4, <3>1, <3>2
    <3>3. CASE i # n
      <4>1. i \in 1..Len(queue) /\ queue[i].msg = m
        BY <1>4, <3>1, <3>3
      <4>2. InQueue(i) \in Places(m)
        BY <1>1, <4>1 DEF Flying
      <4> QED BY <3>1, <4>2
    <3> QED BY <3>2, <3>3
  <2>2. CASE \E v \in Worker : p = AtWorker(v) /\ pc[v] # "Idle" /\ msg[v] = m
    <3>1. PICK v \in Worker : p = AtWorker(v) /\ pc[v] # "Idle" /\ msg[v] = m
      BY <2>2
    <3>2. AtWorker(v) \in Places(m)
      BY <1>1, <3>1 DEF Flying
    <3> QED BY <3>1, <3>2
  <2> QED BY <1>2, <2>1, <2>2 DEF Flying
<1>7. CASE c.msg # m
  <2>1. Places(m)' \subseteq Places(m) /\ sent'[m] = sent[m] /\ faults' = faults
    BY <1>6, <1>7
  <2>2. \A j \in Nat : j <= j
    BY SMT
  <2>3. \A p \in Places(m)' : Allows(k, m)[p] <= Allows(k, m)'[p]
    <3> SUFFICES ASSUME NEW p \in Places(m)' PROVE Allows(k, m)[p] <= Allows(k, m)'[p]
      OBVIOUS
    <3>1. Allows(k, m)[p] \in Nat /\ Allows(k, m)'[p] = Allows(k, m)[p]
      BY <1>5, <2>1 DEF Flights
    <3> QED BY <2>2, <3>1
  <2> QED BY <2>1, <2>3, LedgerStays
<1>8. CASE c.msg = m
  <2>1. InQueue(n) \in Places(m)'
    BY <1>2, <1>4, <1>8 DEF Flying
  <2>2. /\ DOMAIN Allows(k, m) = Places(m) /\ DOMAIN Allows(k, m)' = Places(m)'
        /\ Allows(k, m)'[InQueue(n)] \in Nat
    BY <2>1 DEF Flights
  <2>3. Places(m)' = Places(m) \cup {InQueue(n)} /\ InQueue(n) \notin Places(m)
    BY <1>5, <1>6, <2>1
  <2>4. \A p \in Places(m) : Allows(k, m)'[p] = Allows(k, m)[p]
    BY <1>5
  <2>5. OneOpened(Allows(k, m), Allows(k, m)')
    BY <2>2, <2>3, <2>4 DEF OneOpened
  <2>6. Book(Allows(k, m)', sent[m] + 1, Total(k, m), faults, Cap(k))
    BY <2>5, BookOpened DEF Flights, Ledger
  <2> QED BY <1>8, <2>6 DEF Ledger, Cap
<1> QED BY <1>7, <1>8

LEMMA SpendsTable ==
  ASSUME NEW k \in Kinds, NEW a \in 1..MaxAttempts
  PROVE  /\ k = "runs" => Spends(k, "Handle", a) = Spends(k, "Begin", a) + 1
         /\ k = "dead" => Spends(k, "Begin", a) <= Spends(k, "Handle", a)
         /\ Spends(k, "Begin", a) <= Spends(k, "Ack", a)
         /\ Spends(k, "Begin", a) <= Spends(k, "Requeue", a)
         /\ Spends(k, "Handle", a) <= Spends(k, "MarkCompleted", a)
         /\ Spends(k, "Handle", a) <= Spends(k, "MarkFailed", a)
         /\ Spends(k, "MarkCompleted", a) <= Spends(k, "Ack", a)
         /\ Spends(k, "MarkFailed", a) <= Spends(k, "DeadLetter", a)
         /\ a < MaxAttempts => Spends(k, "MarkFailed", a) <= Spends(k, "Requeue", a)
         /\ k = "runs" => Spends(k, "DeadLetter", a) <= Spends(k, "Reject", a)
         /\ k = "dead" => Spends(k, "Reject", a) = Spends(k, "DeadLetter", a) + 1
         /\ Spends(k, "Requeue", a) <= Spends(k, "Queue", IF a < MaxAttempts THEN a + 1 ELSE a)
         /\ \A at : Spends(k, at, a) <= Spends(k, "Queue", a) + 1
<1>1. CASE k = "dead"
  BY SMT, <1>1 DEF Spends
<1>2. CASE k = "runs"
  BY SMT, <1>2, ConsumerAssumption DEF Spends
<1> QED BY <1>1, <1>2 DEF Kinds

LEMMA GotoGoesOn ==
  ASSUME ConsumerType, NEW w \in Worker, NEW l, pc[w] # "Idle", l # "Idle", Goto(w, l),
         UNCHANGED <<broker, msg, attempt, faults>>
  PROVE  GoesOn(w, l)
BY DEF GoesOn, Goto, ConsumerType, broker

LEMMA ReturnLetsGo ==
  ASSUME ConsumerType, NEW w \in Worker, pc[w] # "Idle", Return(w)
  PROVE  LetsGo(w)
BY DEF LetsGo, Return, Goto, ConsumerType

LEMMA AttemptNext ==
  ASSUME ConsumerType, AttemptInv, [Next]_vars
  PROVE  AttemptInv'
<1>1. 1 \in 1..MaxAttempts
  BY SMT, ConsumerAssumption
<1>2. ASSUME NEW c \in Copy, c.attempt \in 1..MaxAttempts, queue' = Append(queue, c)
      PROVE  \A i \in 1..Len(queue') : queue'[i].attempt \in 1..MaxAttempts
  <2>1. \A i \in 1..Len(queue') : queue'[i] = c \/ (i \in 1..Len(queue) /\ queue'[i] = queue[i])
    BY SMT, <1>2 DEF ConsumerType
  <2> QED BY <1>2, <2>1 DEF AttemptInv
<1>3. ASSUME NEW w \in Worker, Return(w) PROVE \A v \in Worker : attempt'[v] \in 1..MaxAttempts
  BY <1>1, <1>3 DEF Return, ConsumerType, AttemptInv
<1>4. ASSUME UNCHANGED queue PROVE \A i \in 1..Len(queue') : queue'[i].attempt \in 1..MaxAttempts
  BY <1>4 DEF AttemptInv
<1>5. ASSUME UNCHANGED attempt PROVE \A v \in Worker : attempt'[v] \in 1..MaxAttempts
  BY <1>5 DEF AttemptInv
<1>6. ASSUME UNCHANGED runs PROVE runs' \in [Msg -> Nat]
  BY <1>6 DEF AttemptInv
<1>7. ASSUME NEW m \in Msg, Publish(m) PROVE AttemptInv'
  <2>1. [msg |-> m, attempt |-> 1] \in Copy /\ [msg |-> m, attempt |-> 1].attempt = 1
    BY DEF Copy
  <2> QED BY <1>1, <1>2, <1>5, <1>6, <1>7, <2>1 DEF Publish, AttemptInv, worker
<1>8. ASSUME NEW w \in Worker, Receive(w) PROVE AttemptInv'
  <2>1. /\ \A i \in 1..Len(queue') : i + 1 \in 1..Len(queue) /\ queue'[i] = queue[i + 1]
        /\ Head(queue) = queue[1] /\ 1 \in 1..Len(queue)
    BY SMT, <1>8 DEF Receive, ConsumerType
  <2>2. \A i \in 1..Len(queue') : queue'[i].attempt \in 1..MaxAttempts
    BY <2>1 DEF AttemptInv
  <2>3. Head(queue).attempt \in 1..MaxAttempts
    BY <2>1 DEF AttemptInv
  <2>4. attempt' = [attempt EXCEPT ![w] = Head(queue).attempt] /\ UNCHANGED runs
    BY <1>8 DEF Receive
  <2>5. \A v \in Worker : attempt'[v] \in 1..MaxAttempts
    BY <2>3, <2>4 DEF AttemptInv, ConsumerType
  <2> QED BY <1>6, <2>2, <2>4, <2>5 DEF AttemptInv
<1>9. ASSUME NEW w \in Worker, Begin(w) PROVE AttemptInv'
  <2>1. UNCHANGED <<queue, attempt>>
    BY <1>9 DEF Begin, broker
  <2>2. runs' = runs \/ runs' = [runs EXCEPT ![msg[w]] = IF runs[msg[w]] < MaxRuns
                                                          THEN runs[msg[w]] + 1 ELSE runs[msg[w]]]
    BY <1>9 DEF Begin, Start
  <2>3. runs' \in [Msg -> Nat]
    <3>1. PICK x \in Msg : x = msg[w]
      BY DEF ConsumerType
    <3>2. runs[x] \in Nat
      BY DEF AttemptInv
    <3>3. (IF runs[x] < MaxRuns THEN runs[x] + 1 ELSE runs[x]) \in Nat
      BY SMT, <3>2
    <3> QED BY <2>2, <3>1, <3>3 DEF AttemptInv
  <2> QED BY <1>4, <1>5, <2>1, <2>3 DEF AttemptInv
<1>10. ASSUME NEW w \in Worker,
              HandlerOk(w) \/ HandlerErr(w) \/ MarkCompleted(w) \/ MarkFailed(w) \/ DeadLetter(w)
       PROVE  AttemptInv'
  <2>1. UNCHANGED <<queue, attempt, runs>>
    BY <1>10 DEF HandlerOk, HandlerErr, MarkCompleted, MarkFailed, DeadLetter, broker
  <2> QED BY <1>4, <1>5, <1>6, <2>1 DEF AttemptInv
<1>11. ASSUME NEW w \in Worker, Ack(w) \/ Reject(w) PROVE AttemptInv'
  <2>1. Return(w) /\ UNCHANGED <<queue, runs>>
    BY <1>11 DEF Ack, Reject, broker
  <2> QED BY <1>3, <1>4, <1>6, <2>1 DEF AttemptInv
<1>12. ASSUME NEW w \in Worker, Requeue(w) PROVE AttemptInv'
  <2> DEFINE a == IF attempt[w] < MaxAttempts THEN attempt[w] + 1 ELSE attempt[w]
             c == [msg |-> msg[w], attempt |-> a]
  <2>1. attempt[w] \in 1..MaxAttempts /\ msg[w] \in Msg
    BY DEF AttemptInv, ConsumerType
  <2>2. a \in 1..MaxAttempts
    BY SMT, <2>1, ConsumerAssumption
  <2>3. c \in Copy /\ c.attempt = a
    BY SMT, <2>1, <2>2 DEF Copy
  <2>4. queue' = Append(queue, c) /\ Return(w) /\ UNCHANGED runs
    BY <1>12 DEF Requeue
  <2> HIDE DEF a, c
  <2> QED BY <1>2, <1>3, <1>6, <2>2, <2>3, <2>4 DEF AttemptInv
<1>13. ASSUME NEW w \in Worker, Abandon(w) PROVE AttemptInv'
  <2> DEFINE c == [msg |-> msg[w], attempt |-> attempt[w]]
  <2>1. attempt[w] \in 1..MaxAttempts /\ msg[w] \in Msg
    BY DEF AttemptInv, ConsumerType
  <2>2. c \in Copy /\ c.attempt = attempt[w]
    BY SMT, <2>1 DEF Copy
  <2>3. (queue' = Append(queue, c) \/ queue' = queue) /\ Return(w) /\ UNCHANGED runs
    BY <1>13 DEF Abandon
  <2> HIDE DEF c
  <2> QED BY <1>2, <1>3, <1>4, <1>6, <2>1, <2>2, <2>3 DEF AttemptInv
<1>14. ASSUME Tick \/ UNCHANGED vars PROVE AttemptInv'
  <2>1. UNCHANGED <<queue, attempt, runs>>
    BY <1>14 DEF Tick, vars, broker, worker
  <2> QED BY <1>4, <1>5, <1>6, <2>1 DEF AttemptInv
<1> QED BY <1>7, <1>8, <1>9, <1>10, <1>11, <1>12, <1>13, <1>14 DEF Next, Process

LEMMA BeginLedger ==
  ASSUME ConsumerType, AttemptInv, NEW k \in Kinds, NEW m \in Msg, Flights(k, m), Ledger(k, m),
         runs' \in [Msg -> Nat], NEW w \in Worker, Begin(w)
  PROVE  Ledger(k, m)'
<1>1. /\ pc[w] = "Begin" /\ pc[w] # "Idle" /\ attempt[w] \in 1..MaxAttempts
      /\ UNCHANGED <<broker, msg, attempt, dead, faults>>
  BY DEF Begin, AttemptInv
<1>2. CASE Start(w)
  <2>1. GoesOn(w, "Handle")
    BY <1>1, <1>2, GotoGoesOn DEF Start
  <2>2. runs' = [runs EXCEPT ![msg[w]] = IF runs[msg[w]] < MaxRuns
                                          THEN runs[msg[w]] + 1 ELSE runs[msg[w]]]
    BY <1>2 DEF Start
  <2>3. msg[w] # m => runs'[m] = runs[m]
    BY <2>2 DEF AttemptInv
  <2>4. CASE k = "runs" /\ msg[w] = m
    <3>1. runs[m] \in Nat /\ runs'[m] \in Nat
      BY DEF AttemptInv
    <3>2. runs'[m] = IF runs[m] < MaxRuns THEN runs[m] + 1 ELSE runs[m]
      BY <2>2, <2>4 DEF AttemptInv
    <3>3. runs'[m] <= runs[m] + 1
      BY SMT, <3>1, <3>2
    <3>4. Total(k, m)' = runs'[m] /\ Total(k, m) = runs[m]
      BY <2>4 DEF Total
    <3>5. Total(k, m)' \in Nat /\ Total(k, m)' <= Total(k, m) + 1
      BY <3>1, <3>3, <3>4
    <3>6. Spends(k, "Handle", attempt[w]) = Spends(k, pc[w], attempt[w]) + 1
      BY <1>1, <2>4, SpendsTable
    <3> QED BY <2>1, <2>4, <3>5, <3>6, GoesOnSpends
  <2>5. CASE k = "dead" \/ msg[w] # m
    <3>1. Total(k, m)' = Total(k, m)
      BY <1>1, <2>3, <2>5 DEF Total
    <3>2. msg[w] = m => Spends(k, pc[w], attempt[w]) <= Spends(k, "Handle", attempt[w])
      BY <1>1, <2>5, SpendsTable
    <3> QED BY <2>1, <3>1, <3>2, GoesOnKeeps
  <2> QED BY <2>4, <2>5 DEF Kinds
<1>3. CASE UNCHANGED runs /\ \E l \in {"Ack", "Requeue"} : Goto(w, l)
  <2>1. PICK l \in {"Ack", "Requeue"} : Goto(w, l)
    BY <1>3
  <2>2. GoesOn(w, l)
    BY <1>1, <2>1, GotoGoesOn
  <2>3. Total(k, m)' = Total(k, m)
    BY <1>1, <1>3 DEF Total
  <2>4. Spends(k, pc[w], attempt[w]) <= Spends(k, l, attempt[w])
    BY <1>1, <2>1, SpendsTable
  <2> QED BY <2>2, <2>3, <2>4, GoesOnKeeps
<1> QED BY <1>2, <1>3 DEF Begin, Skip

LEMMA WorkLedger ==
  ASSUME ConsumerType, AttemptInv, deployment.withRetry, NEW k \in Kinds, NEW m \in Msg,
         Flights(k, m), Ledger(k, m), NEW w \in Worker,
         HandlerOk(w) \/ HandlerErr(w) \/ MarkCompleted(w) \/ MarkFailed(w) \/ DeadLetter(w)
  PROVE  Ledger(k, m)'
<1>1. attempt[w] \in 1..MaxAttempts /\ msg[w] \in Msg
  BY DEF AttemptInv, ConsumerType
<1>2. UNCHANGED <<broker, msg, attempt, faults, runs>>
  BY DEF HandlerOk, HandlerErr, MarkCompleted, MarkFailed, DeadLetter
<1>3. ASSUME NEW l, l # "Idle", Goto(w, l), pc[w] # "Idle", UNCHANGED dead,
             Spends(k, pc[w], attempt[w]) <= Spends(k, l, attempt[w])
      PROVE  Ledger(k, m)'
  <2>1. GoesOn(w, l)
    BY <1>2, <1>3, GotoGoesOn
  <2>2. Total(k, m)' = Total(k, m)
    BY <1>2, <1>3 DEF Total
  <2> QED BY <1>3, <2>1, <2>2, GoesOnKeeps
<1>4. CASE HandlerOk(w)
  <2>1. pc[w] = "Handle" /\ Goto(w, "MarkCompleted") /\ UNCHANGED dead
    BY <1>4 DEF HandlerOk
  <2>2. Spends(k, pc[w], attempt[w]) <= Spends(k, "MarkCompleted", attempt[w])
    BY <1>1, <2>1, SpendsTable
  <2> QED BY <1>3, <2>1, <2>2
<1>5. CASE HandlerErr(w)
  <2>1. pc[w] = "Handle" /\ Goto(w, "MarkFailed") /\ UNCHANGED dead
    BY <1>5 DEF HandlerErr
  <2>2. Spends(k, pc[w], attempt[w]) <= Spends(k, "MarkFailed", attempt[w])
    BY <1>1, <2>1, SpendsTable
  <2> QED BY <1>3, <2>1, <2>2
<1>6. CASE MarkCompleted(w)
  <2>1. pc[w] = "MarkCompleted" /\ Goto(w, "Ack") /\ UNCHANGED dead
    BY <1>6 DEF MarkCompleted
  <2>2. Spends(k, pc[w], attempt[w]) <= Spends(k, "Ack", attempt[w])
    BY <1>1, <2>1, SpendsTable
  <2> QED BY <1>3, <2>1, <2>2
<1>7. CASE MarkFailed(w)
  <2>1. pc[w] = "MarkFailed" /\ Goto(w, Decide(attempt[w])) /\ UNCHANGED dead
    BY <1>7 DEF MarkFailed
  <2>2. \/ Decide(attempt[w]) = "DeadLetter"
        \/ Decide(attempt[w]) = "Requeue" /\ attempt[w] < MaxAttempts
    <3>1. attempt[w] >= MaxAttempts \/ attempt[w] < MaxAttempts
      BY SMT, <1>1, ConsumerAssumption
    <3> QED BY <3>1 DEF Decide
  <2>3. CASE Decide(attempt[w]) = "DeadLetter"
    <3>1. Spends(k, pc[w], attempt[w]) <= Spends(k, "DeadLetter", attempt[w])
      BY <1>1, <2>1, SpendsTable
    <3> QED BY <1>3, <2>1, <2>3, <3>1
  <2>4. CASE Decide(attempt[w]) = "Requeue" /\ attempt[w] < MaxAttempts
    <3>1. Spends(k, pc[w], attempt[w]) <= Spends(k, "Requeue", attempt[w])
      BY <1>1, <2>1, <2>4, SpendsTable
    <3> QED BY <1>3, <2>1, <2>4, <3>1
  <2> QED BY <2>2, <2>3, <2>4
<1>8. CASE DeadLetter(w)
  <2>1. pc[w] = "DeadLetter" /\ pc[w] # "Idle" /\ Goto(w, "Reject")
        /\ dead' = [dead EXCEPT ![msg[w]] = dead[msg[w]] + 1]
    BY <1>8 DEF DeadLetter
  <2>2. GoesOn(w, "Reject")
    BY <1>2, <2>1, GotoGoesOn
  <2>3. msg[w] # m => dead'[m] = dead[m]
    BY <2>1 DEF ConsumerType
  <2>4. CASE k = "dead" /\ msg[w] = m
    <3>1. dead'[m] = dead[m] + 1 /\ dead[m] \in Nat
      BY <2>1, <2>4 DEF ConsumerType
    <3>2. Total(k, m)' = dead'[m] /\ Total(k, m) = dead[m]
      BY <2>4 DEF Total
    <3>3. dead'[m] \in Nat /\ dead'[m] <= dead[m] + 1
      BY SMT, <3>1
    <3>4. Total(k, m)' \in Nat /\ Total(k, m)' <= Total(k, m) + 1
      BY <3>2, <3>3
    <3>5. Spends(k, "Reject", attempt[w]) = Spends(k, pc[w], attempt[w]) + 1
      BY <1>1, <2>1, <2>4, SpendsTable
    <3> QED BY <2>2, <2>4, <3>4, <3>5, GoesOnSpends
  <2>5. CASE k = "runs" \/ msg[w] # m
    <3>1. Total(k, m)' = Total(k, m)
      BY <1>2, <2>3, <2>5 DEF Total
    <3>2. msg[w] = m => Spends(k, pc[w], attempt[w]) <= Spends(k, "Reject", attempt[w])
      BY <1>1, <2>1, <2>5, SpendsTable
    <3> QED BY <2>2, <3>1, <3>2, GoesOnKeeps
  <2> QED BY <2>4, <2>5 DEF Kinds
<1> QED BY <1>4, <1>5, <1>6, <1>7, <1>8

LEMMA ReturnLedger ==
  ASSUME ConsumerType, AttemptInv, NEW k \in Kinds, NEW m \in Msg, Flights(k, m), Ledger(k, m),
         NEW w \in Worker, Ack(w) \/ Reject(w) \/ Requeue(w) \/ Abandon(w)
  PROVE  Ledger(k, m)'
<1>1. attempt[w] \in 1..MaxAttempts /\ msg[w] \in Msg
  BY DEF AttemptInv, ConsumerType
<1>2. Return(w) /\ pc[w] # "Idle" /\ UNCHANGED <<sent, runs, dead>>
  BY DEF Ack, Reject, Requeue, Abandon, broker
<1>3. LetsGo(w)
  BY <1>2, ReturnLetsGo
<1>4. sent'[m] = sent[m] /\ Total(k, m)' = Total(k, m)
  BY <1>2 DEF Total
<1>5. CASE Ack(w) \/ Reject(w)
  <2>1. queue' = queue /\ faults' = faults
    BY <1>5 DEF Ack, Reject, broker
  <2>2. PICK x \in Nat : x = Spends(k, pc[w], attempt[w])
    BY <1>1, SpendsType
  <2>3. Spends(k, pc[w], attempt[w]) <= x
    BY SMT, <2>2
  <2>4. Relocates(k, m, w, x)
    BY <1>3, <2>1, LeavePlaces
  <2> QED BY <1>3, <1>4, <2>1, <2>3, <2>4, LedgerRelocated
<1>6. CASE Requeue(w)
  <2> DEFINE a == IF attempt[w] < MaxAttempts THEN attempt[w] + 1 ELSE attempt[w]
             c == [msg |-> msg[w], attempt |-> a]
             x == Spends(k, "Queue", a)
  <2>1. pc[w] = "Requeue" /\ queue' = Append(queue, c) /\ faults' = faults
    BY <1>6 DEF Requeue
  <2>2. a \in 1..MaxAttempts
    BY SMT, <1>1, ConsumerAssumption
  <2>3. c \in Copy /\ c.attempt = a /\ c.msg = msg[w]
    BY SMT, <1>1, <2>2 DEF Copy
  <2>4. Spends(k, pc[w], attempt[w]) <= x
    BY <1>1, <2>1, SpendsTable
  <2>5. x \in Nat
    BY <2>2, SpendsType
  <2> HIDE DEF a, c
  <2>6. Relocates(k, m, w, x)
    <3>1. Relocates(k, m, w, Spends(k, "Queue", c.attempt))
      BY <1>3, <2>1, <2>3, RequeuePlaces
    <3> QED BY <2>3, <3>1
  <2> HIDE DEF x
  <2> QED BY <1>3, <1>4, <2>1, <2>4, <2>5, <2>6, LedgerRelocated
<1>7. CASE Abandon(w)
  <2> DEFINE c == [msg |-> msg[w], attempt |-> attempt[w]]
             x == Spends(k, "Queue", attempt[w])
  <2>1. (queue' = Append(queue, c) \/ queue' = queue) /\ faults' = faults + 1
    BY <1>7 DEF Abandon
  <2>2. c \in Copy /\ c.attempt = attempt[w] /\ c.msg = msg[w]
    BY SMT, <1>1 DEF Copy
  <2>3. Spends(k, pc[w], attempt[w]) <= x + 1
    BY <1>1, SpendsTable
  <2>4. x \in Nat
    BY <1>1, SpendsType
  <2> HIDE DEF c
  <2>5. Relocates(k, m, w, x)
    <3>1. CASE queue' = Append(queue, c)
      <4>1. Relocates(k, m, w, Spends(k, "Queue", c.attempt))
        BY <1>3, <2>2, <3>1, RequeuePlaces
      <4> QED BY <2>2, <4>1
    <3>2. CASE queue' = queue
      BY <1>3, <3>2, LeavePlaces
    <3> QED BY <2>1, <3>1, <3>2
  <2> HIDE DEF x
  <2> QED BY <1>3, <1>4, <2>1, <2>3, <2>4, <2>5, LedgerRelocated
<1> QED BY <1>5, <1>6, <1>7

RetryInv == AttemptInv /\ LedgerInv

LEMMA NextRetry ==
  ASSUME ConsumerType, RetryInv, [Next]_vars
  PROVE  RetryInv'
<1>1. AttemptInv /\ AttemptInv' /\ runs' \in [Msg -> Nat]
  <2>1. AttemptInv'
    BY AttemptNext DEF RetryInv
  <2> QED BY <2>1 DEF AttemptInv, RetryInv
<1>2. deployment' = deployment
  BY DEF Next, Process, vars, Publish, Receive, Begin, HandlerOk, HandlerErr, MarkCompleted,
     MarkFailed, DeadLetter, Ack, Requeue, Reject, Abandon, Tick
<1>3. ASSUME deployment.withRetry, NEW m \in Msg, NEW k \in Kinds PROVE Ledger(k, m)'
  <2>1. Ledger(k, m)
    BY <1>3 DEF RetryInv, LedgerInv, Ledger
  <2>2. Flights(k, m)
    BY <1>1, Flight
  <2>3. ASSUME NEW n \in Msg, Publish(n) PROVE Ledger(k, m)'
    <3> DEFINE c == [msg |-> n, attempt |-> 1]
    <3>1. c \in Copy /\ c.msg = n
      BY DEF Copy
    <3>2. /\ queue' = Append(queue, c) /\ UNCHANGED <<pc, msg, attempt, faults, runs, dead>>
          /\ sent' = [sent EXCEPT ![n] = sent[n] + 1]
      BY <2>3 DEF Publish, worker
    <3>3. sent'[m] = IF c.msg = m THEN sent[m] + 1 ELSE sent[m]
      BY <3>1, <3>2 DEF ConsumerType
    <3>4. Total(k, m)' = Total(k, m)
      BY <3>2 DEF Total
    <3> HIDE DEF c
    <3> QED BY <2>1, <2>2, <3>1, <3>2, <3>3, <3>4, PublishKeeps
  <2>4. ASSUME NEW w \in Worker, Receive(w) PROVE Ledger(k, m)'
    <3>1. Takes(w)
      BY <2>4 DEF Takes, Receive, Goto, ConsumerType
    <3>2. sent'[m] = sent[m] /\ Total(k, m)' = Total(k, m) /\ faults' = faults
      BY <2>4 DEF Receive, Total
    <3> QED BY <2>1, <2>2, <3>1, <3>2, TakeKeeps
  <2>5. ASSUME NEW w \in Worker, Process(w) \/ Abandon(w) PROVE Ledger(k, m)'
    <3>1. CASE Begin(w)
      BY <1>1, <2>1, <2>2, <3>1, BeginLedger
    <3>2. CASE HandlerOk(w) \/ HandlerErr(w) \/ MarkCompleted(w) \/ MarkFailed(w) \/ DeadLetter(w)
      BY <1>1, <1>3, <2>1, <2>2, <3>2, WorkLedger
    <3>3. CASE Ack(w) \/ Reject(w) \/ Requeue(w) \/ Abandon(w)
      BY <1>1, <2>1, <2>2, <3>3, ReturnLedger
    <3> QED BY <2>5, <3>1, <3>2, <3>3 DEF Process
  <2>6. CASE Tick \/ UNCHANGED vars
    <3>1. UNCHANGED <<queue, sent, pc, msg, attempt, faults, runs, dead>>
      BY <2>6 DEF Tick, vars, broker, worker
    <3>2. Allows(k, m)' = Allows(k, m)
      BY <3>1 DEF Allows, Places, Spends, InQueue, AtWorker
    <3> QED BY <2>1, <3>1, <3>2 DEF Ledger, Total, Cap
  <2> QED BY <2>3, <2>4, <2>5, <2>6 DEF Next
<1> QED BY <1>1, <1>2, <1>3 DEF RetryInv, LedgerInv, Ledger, Kinds

LEMMA InitRetry ==
  ASSUME Init
  PROVE  RetryInv
<1>1. /\ queue = <<>> /\ pc = [w \in Worker |-> "Idle"] /\ attempt = [w \in Worker |-> 1]
      /\ sent = [m \in Msg |-> 0] /\ runs = [m \in Msg |-> 0] /\ dead = [m \in Msg |-> 0]
      /\ faults = 0
  BY DEF Init
<1>2. 1 \in 1..MaxAttempts /\ 1..Len(queue) = {} /\ 0 \in Nat
  BY SMT, <1>1, ConsumerAssumption
<1>3. AttemptInv
  BY <1>1, <1>2 DEF AttemptInv
<1>4. ASSUME NEW m \in Msg, NEW k \in Kinds PROVE Ledger(k, m)
  <2>1. Places(m) = {}
    BY <1>1, <1>2 DEF Places
  <2>2. DOMAIN Allows(k, m) = {}
    BY <2>1 DEF Allows
  <2>3. sent[m] = 0 /\ Total(k, m) = 0
    BY <1>1 DEF Total
  <2> DEFINE acc == [j \in 0..0 |-> 0]
             life == [p \in {} |-> 1]
  <2>4. acc \in [0..0 -> Int] /\ acc[0] = 0 /\ 1..0 = {} /\ 0 <= acc[0] + 0
    BY SMT
  <2>5. life \in [DOMAIN Allows(k, m) -> 1..0]
    BY <2>2
  <2> HIDE DEF acc, life
  <2>6. Account(acc, life, Allows(k, m), 0, 0, 0, Cap(k))
    BY <2>2, <2>4 DEF Account
  <2>7. Book(Allows(k, m), 0, 0, 0, Cap(k))
    BY <2>4, <2>5, <2>6 DEF Book
  <2> QED BY <1>1, <2>3, <2>7 DEF Ledger
<1> QED BY <1>3, <1>4 DEF RetryInv, LedgerInv, Ledger

LEMMA LedgersBound ==
  ASSUME ConsumerType, RetryInv
  PROVE  deployment.withRetry => \A m \in Msg :
           runs[m] <= MaxAttempts * sent[m] + faults /\ dead[m] <= sent[m] + faults
<1> SUFFICES ASSUME deployment.withRetry, NEW m \in Msg
             PROVE  runs[m] <= MaxAttempts * sent[m] + faults /\ dead[m] <= sent[m] + faults
  OBVIOUS
<1>1. sent[m] \in Nat /\ runs[m] \in Nat /\ dead[m] \in Nat /\ faults \in Nat
      /\ MaxAttempts \in Nat /\ 1 \in Nat
  BY ConsumerAssumption DEF ConsumerType, RetryInv, AttemptInv
<1>2. Book(Allows("runs", m), sent[m], runs[m], faults, MaxAttempts)
  BY DEF RetryInv, LedgerInv, Kinds, Total, Cap
<1>3. Book(Allows("dead", m), sent[m], dead[m], faults, 1)
  BY DEF RetryInv, LedgerInv, Kinds, Total, Cap
<1>4. runs[m] <= MaxAttempts * sent[m] + faults
  BY <1>1, <1>2, BookBounds
<1>5. dead[m] <= 1 * sent[m] + faults
  BY <1>1, <1>3, BookBounds
<1>6. 1 * sent[m] = sent[m]
  BY SMT, <1>1
<1> QED BY <1>4, <1>5, <1>6


-----------------------------------------------------------------------------
(* The workers with a bus as their handler are workers *)

LEMMA BusWorksAsWorker == InitBus => Init
BY DEF InitBus

LEMMA BusStepsAreSteps == [NextBus]_allVars => [Next]_vars
<1> SUFFICES ASSUME [NextBus]_allVars PROVE [Next]_vars
  OBVIOUS
<1>1. ASSUME NEW m \in Msg, Publish(m) PROVE Next
  BY <1>1 DEF Next
<1>2. ASSUME NEW w \in Worker, Work(w) \/ Crash(w) PROVE Next \/ UNCHANGED vars
  BY <1>2 DEF Work, Crash, BeginCall, BusStep, CallOk, CallErr, Rest, Next, Process
<1>3. ASSUME Tick PROVE Next
  BY <1>3 DEF Next
<1>4. CASE UNCHANGED allVars
  BY <1>4 DEF allVars
<1>5. QED
  BY <1>1, <1>2, <1>3, <1>4 DEF NextBus

\* NothingLost holds for any consumers, copies, faults and handlers: whatever
\* duplicates, takeovers, late marks and crashes do, a published message is in
\* flight, handled and recorded, or dead-lettered.
THEOREM NoMessageLost == SpecBus => []NothingLost
<1>1. InitBus => LostInv
  BY BusWorksAsWorker, InitLost
<1>2. LostInv /\ [NextBus]_allVars => LostInv'
  BY BusStepsAreSteps, NextLost
<1>3. LostInv => NothingLost
  BY DEF LostInv
<1>4. QED
  BY <1>1, <1>2, <1>3, PTL DEF SpecBus

\* HandledOnce holds for any consumers, copies, faults and handlers, as long as
\* a stale-record timeout is set: one worker at a time handles a message, and it
\* takes effect once, plus once for every crash or error.
THEOREM DependableHandledOnce ==
  ASSUME StaleAfter > 0
  PROVE  SpecBus => []HandledOnce
<1>1. InitBus => LostInv /\ OnceInv
  <2>1. Init => HoldInv /\ EffectInv
    BY SMT DEF Init, HoldInv, EffectInv, Working
  <2>2. QED
    BY <2>1, BusWorksAsWorker, InitLost DEF OnceInv
<1>2. LostInv /\ OnceInv /\ [NextBus]_allVars => (LostInv /\ OnceInv)'
  <2>1. LostInv => ConsumerType
    BY SMT DEF LostInv
  <2>2. QED
    BY <2>1, BusStepsAreSteps, NextLost, NextOnce
<1>3. LostInv /\ OnceInv => HandledOnce
  <2>1. HoldInv => ExclusiveHandler
    BY DEF HoldInv, ExclusiveHandler, Working
  <2>2. ASSUME ConsumerType, EffectInv, NEW m \in Msg
        PROVE  effects[m] <= 1 + faults
    <3>1. effects[m] \in Nat /\ faults \in Nat /\ effects[m] <= faults + 1
      BY <2>2 DEF ConsumerType, EffectInv
    <3>2. QED
      BY SMT, <3>1
  <2>3. QED
    BY <2>1, <2>2 DEF LostInv, OnceInv, HandledOnce
<1>4. QED
  BY <1>1, <1>2, <1>3, PTL DEF SpecBus

-----------------------------------------------------------------------------
(* The bus behind the workers *)

BusCall == [state : {"idle", "calling", "ok", "err"}, ev : Msg, list : Seq(Handler), pos : Nat,
            step : {"handle", "cascade", "park"}, attempt : Nat, tries : Nat, failed : BOOLEAN]

BusType ==
  /\ handlers \in Seq(Handler) /\ call \in [Worker -> BusCall]
  /\ tried \in [Msg -> SUBSET Handler] /\ done \in [Msg -> SUBSET Handler]
  /\ parked \in [Msg -> SUBSET Handler] /\ answered \in [Msg -> SUBSET Handler]

\* What holds of a call k under the policy p, when the handlers in T were
\* started on its event and those in R have reacted to it or parked it.
Good(k, T, R, p) ==
  /\ k.state = "calling" =>
       /\ k.pos \in 1..Len(k.list)
       /\ \A i \in 1..(k.pos - 1) : k.list[i] \in T /\ (k.failed \/ k.list[i] \in R)
       /\ k.step # "handle" => k.list[k.pos] \in T
       /\ k.step = "handle" => k.attempt = k.tries + 1 /\ k.attempt <= Budget[k.list[k.pos]]
       /\ k.step = "cascade" => k.tries <= Budget[k.list[k.pos]]
       /\ k.step = "park" => k.tries = Budget[k.list[k.pos]]
  /\ k.state = "ok" => \A i \in 1..Len(k.list) : k.list[i] \in R
  /\ k.state = "err" /\ p = "CollectAll" => \A i \in 1..Len(k.list) : k.list[i] \in T

Reacted(e) == done[e] \cup parked[e]

CallInv ==
  \A w \in Worker :
    /\ Good(call[w], tried[call[w].ev], Reacted(call[w].ev), policy)
    /\ call[w].state # "idle" => pc[w] = "Handle" /\ call[w].ev = msg[w]

AnswerInv == \A m \in Msg : answered[m] \subseteq Reacted(m)

BusInv == BusType /\ CallInv /\ AnswerInv

-----------------------------------------------------------------------------

LEMMA GoodGrows ==
  ASSUME NEW k, NEW T, NEW R, NEW p, NEW T2, NEW R2, Good(k, T, R, p), T \subseteq T2, R \subseteq R2
  PROVE  Good(k, T2, R2, p)
  BY DEF Good

LEMMA ListEntry ==
  ASSUME NEW S, NEW s \in Seq(S), NEW i \in 1..Len(s)
  PROVE  s[i] \in S
  BY SMT

LEMMA NoCallType ==
  /\ B!NoCall \in BusCall /\ B!NoCall.state = "idle" /\ B!NoCall.list = <<>> /\ B!NoCall.pos = 1
  /\ B!NoCall.step = "handle" /\ B!NoCall.attempt = 1 /\ B!NoCall.tries = 0
  /\ \A T, R, p : Good(B!NoCall, T, R, p)
<1>1. Msg # {}
  BY ConsumerAssumption
<1>2. (CHOOSE e \in Msg : TRUE) \in Msg
  BY <1>1
<1>3. /\ B!NoCall \in BusCall /\ B!NoCall.state = "idle" /\ B!NoCall.list = <<>>
      /\ B!NoCall.pos = 1 /\ B!NoCall.step = "handle" /\ B!NoCall.attempt = 1 /\ B!NoCall.tries = 0
  BY SMT, <1>2 DEF B!NoCall, BusCall
<1>4. QED
  BY <1>3 DEF Good

\* What a call is when it has begun.
Entered(e, list) ==
  [B!NoCall EXCEPT !.ev = e, !.list = list, !.state = IF list = <<>> THEN "ok" ELSE "calling"]
Refusal(e) == [B!NoCall EXCEPT !.ev = e, !.state = "err"]

LEMMA EnterGood ==
  ASSUME NEW e \in Msg, NEW list \in Seq(Handler)
  PROVE  /\ Entered(e, list) \in BusCall /\ Entered(e, list).ev = e
         /\ \A T, R, p : Good(Entered(e, list), T, R, p)
<1> DEFINE k == Entered(e, list)
<1>1. /\ k \in BusCall /\ k.ev = e /\ k.list = list
      /\ k.state = IF list = <<>> THEN "ok" ELSE "calling"
      /\ k.pos = 1 /\ k.step = "handle" /\ k.attempt = 1 /\ k.tries = 0
  BY NoCallType DEF BusCall, Entered
<1>2. Len(list) \in Nat /\ (list = <<>> => Len(list) = 0) /\ (list # <<>> => 1 \in 1..Len(list))
  BY SMT
<1>3. list # <<>> => Budget[list[1]] \in Nat \ {0}
  BY <1>2, ListEntry, BusAssumption
<1> HIDE DEF k
<1>4. \A T, R, p : Good(k, T, R, p)
  BY SMT, <1>1, <1>2, <1>3 DEF Good
<1>5. QED
  BY <1>1, <1>4 DEF k

LEMMA RefuseGood ==
  ASSUME NEW e \in Msg
  PROVE  /\ Refusal(e) \in BusCall /\ Refusal(e).ev = e
         /\ \A T, R, p : Good(Refusal(e), T, R, p)
<1> DEFINE k == Refusal(e)
<1>1. k \in BusCall /\ k.ev = e /\ k.list = <<>> /\ k.state = "err"
  BY NoCallType DEF BusCall, Refusal
<1>2. Len(<<>>) = 0
  OBVIOUS
<1> HIDE DEF k
<1>3. \A T, R, p : Good(k, T, R, p)
  BY SMT, <1>1, <1>2 DEF Good
<1>4. QED
  BY <1>1, <1>3 DEF k

\* The loop of publish goes on after a handler that was started and, when it
\* answered Ok, has reacted.
LEMMA AdvanceGood ==
  ASSUME NEW k \in BusCall, NEW ok \in BOOLEAN, NEW T, NEW R, Good(k, T, R, policy),
         k.state = "calling", k.list[k.pos] \in T, ok => k.list[k.pos] \in R
  PROVE  /\ B!Advance(k, ok) \in BusCall /\ B!Advance(k, ok).ev = k.ev
         /\ Good(B!Advance(k, ok), T, R, policy)
<1> DEFINE a == B!Advance(k, ok)
           last == k.pos = Len(k.list)
           failed == k.failed \/ ~ok
<1>1. /\ k.pos \in 1..Len(k.list) /\ k.list \in Seq(Handler) /\ Len(k.list) \in Nat
      /\ k.pos \in Nat /\ k.failed \in BOOLEAN
      /\ \A i \in 1..(k.pos - 1) : k.list[i] \in T /\ (k.failed \/ k.list[i] \in R)
  BY SMT DEF Good, BusCall
<1>2. \A i \in 1..k.pos : k.list[i] \in T /\ (failed \/ k.list[i] \in R)
  <2> SUFFICES ASSUME NEW i \in 1..k.pos
               PROVE  k.list[i] \in T /\ (failed \/ k.list[i] \in R)
    OBVIOUS
  <2>1. i = k.pos \/ i \in 1..(k.pos - 1)
    BY SMT, <1>1
  <2>2. QED
    BY <1>1, <2>1
<1>3. CASE ~ok /\ policy = "FailFast"
  <2>1. a = [k EXCEPT !.state = "err"]
    BY <1>3 DEF B!Advance
  <2>2. a \in BusCall /\ a.ev = k.ev /\ a.state = "err"
    BY <2>1 DEF BusCall
  <2>3. QED
    BY <1>3, <2>2 DEF Good
<1>4. CASE ~(~ok /\ policy = "FailFast")
  <2>1. a = [k EXCEPT !.failed = failed, !.pos = IF last THEN @ ELSE @ + 1,
                      !.step = "handle", !.attempt = 1, !.tries = 0,
                      !.state = CASE ~last -> "calling" [] last /\ failed -> "err"
                                  [] last /\ ~failed -> "ok"]
    BY <1>4 DEF B!Advance
  <2>2. failed \in BOOLEAN
    BY <1>1
  <2>3. CASE last
    <3>1. a = [k EXCEPT !.failed = failed, !.pos = k.pos, !.step = "handle", !.attempt = 1,
                        !.tries = 0, !.state = IF failed THEN "err" ELSE "ok"]
      BY <2>1, <2>2, <2>3
    <3> HIDE DEF a, failed
    <3>2. /\ a \in BusCall /\ a.ev = k.ev /\ a.list = k.list
          /\ a.state = IF failed THEN "err" ELSE "ok"
      BY <1>1, <2>2, <3>1 DEF BusCall
    <3>3. Good(a, T, R, policy)
      BY <1>2, <2>3, <3>2 DEF Good
    <3>4. QED
      BY <3>2, <3>3 DEF a
  <2>4. CASE ~last
    <3>1. a = [k EXCEPT !.failed = failed, !.pos = k.pos + 1, !.step = "handle", !.attempt = 1,
                        !.tries = 0, !.state = "calling"]
      BY <2>1, <2>2, <2>4
    <3> HIDE DEF a, failed
    <3>2. /\ a \in BusCall /\ a.ev = k.ev /\ a.list = k.list /\ a.pos = k.pos + 1
          /\ a.state = "calling" /\ a.step = "handle" /\ a.attempt = 1 /\ a.tries = 0
          /\ a.failed = failed
      <4>1. k.pos + 1 \in Nat /\ 1 \in Nat /\ 0 \in Nat
        BY SMT, <1>1
      <4>2. QED
        BY <2>2, <3>1, <4>1 DEF BusCall
    <3>3. k.pos + 1 \in 1..Len(k.list) /\ (k.pos + 1) - 1 = k.pos
      BY SMT, <1>1, <2>4
    <3>4. Budget[k.list[k.pos + 1]] \in Nat \ {0}
      BY SMT, <1>1, <3>3, ListEntry, BusAssumption
    <3>5. 1 <= Budget[k.list[k.pos + 1]] /\ 1 = 0 + 1
      BY SMT, <3>4
    <3>6. Good(a, T, R, policy)
      BY <1>2, <3>2, <3>3, <3>5 DEF Good
    <3>7. QED
      BY <3>2, <3>6 DEF a
  <2>5. QED
    BY <2>3, <2>4
<1>5. QED
  BY <1>3, <1>4

-----------------------------------------------------------------------------
(* The steps of a call *)

\* Handlers are only ever added to the sets that record what they did.
Grows ==
  /\ tried' \in [Msg -> SUBSET Handler] /\ done' \in [Msg -> SUBSET Handler]
  /\ parked' \in [Msg -> SUBSET Handler]
  /\ \A e \in Msg : tried[e] \subseteq tried'[e] /\ Reacted(e) \subseteq Reacted(e)'

\* The call of w becomes k, in accordance with what was recorded.
Becomes(w, k) ==
  /\ call' = [call EXCEPT ![w] = k]
  /\ k \in BusCall /\ Good(k, tried'[k.ev], done'[k.ev] \cup parked'[k.ev], policy)
  /\ k.state # "idle" => pc'[w] = "Handle" /\ k.ev = msg'[w]

LEMMA AddEffect ==
  ASSUME NEW sets \in [Msg -> SUBSET Handler], NEW e \in Msg, NEW h \in Handler
  PROVE  /\ B!Add(sets, e, h) \in [Msg -> SUBSET Handler] /\ h \in B!Add(sets, e, h)[e]
         /\ \A x \in Msg : sets[x] \subseteq B!Add(sets, e, h)[x]
  BY DEF B!Add

LEMMA CountsSame ==
  ASSUME BusType, UNCHANGED <<tried, done, parked>>
  PROVE  Grows
  BY DEF BusType, Grows, Reacted

LEMMA Later ==
  ASSUME Grows, NEW e \in Msg, NEW k, NEW p, Good(k, tried[e], done[e] \cup parked[e], p)
  PROVE  Good(k, tried'[e], done'[e] \cup parked'[e], p)
<1> DEFINE T == tried[e]
           T2 == tried'[e]
           R == done[e] \cup parked[e]
           R2 == done'[e] \cup parked'[e]
<1>1. T \subseteq T2 /\ R \subseteq R2 /\ Good(k, T, R, p)
  BY DEF Grows, Reacted
<1> HIDE DEF T, T2, R, R2
<1>2. Good(k, T2, R2, p)
  BY <1>1, GoodGrows
<1>3. QED
  BY <1>2 DEF T2, R2

LEMMA CallKept ==
  ASSUME BusType, CallInv, Grows, UNCHANGED policy, NEW v \in Worker, call'[v] = call[v],
         pc'[v] = pc[v], msg'[v] = msg[v]
  PROVE  /\ Good(call'[v], tried'[call'[v].ev], Reacted(call[v].ev)', policy')
         /\ call'[v].state # "idle" => pc'[v] = "Handle" /\ call'[v].ev = msg'[v]
<1> DEFINE e == call[v].ev
<1>1. e \in Msg
  BY DEF BusType, BusCall
<1>2. tried[e] \subseteq tried'[e] /\ done[e] \cup parked[e] \subseteq done'[e] \cup parked'[e]
  BY <1>1 DEF Grows, Reacted
<1>3. Good(call[v], tried[e], done[e] \cup parked[e], policy')
  BY DEF CallInv, Reacted
<1>4. Good(call[v], tried'[e], done'[e] \cup parked'[e], policy')
  BY <1>1, <1>3, Later
<1>5. Good(call'[v], tried'[call'[v].ev], Reacted(call[v].ev)', policy')
  BY <1>4 DEF Reacted
<1>6. QED
  BY <1>5 DEF CallInv

\* One worker's call moves, the others stay.
LEMMA MoveKeeps ==
  ASSUME BusType, CallInv, Grows, UNCHANGED policy, NEW w \in Worker, Others(w), NEW k,
         Becomes(w, k)
  PROVE  call' \in [Worker -> BusCall] /\ CallInv'
<1>1. call \in [Worker -> BusCall] /\ k \in BusCall /\ call' = [call EXCEPT ![w] = k]
  BY DEF BusType, Becomes
<1>2. /\ call' \in [Worker -> BusCall] /\ call'[w] = k
      /\ \A v \in Worker \ {w} : call'[v] = call[v]
  BY <1>1
<1>3. ASSUME NEW v \in Worker
      PROVE  /\ Good(call[v], tried[call[v].ev], Reacted(call[v].ev), policy)'
             /\ (call[v].state # "idle" => pc[v] = "Handle" /\ call[v].ev = msg[v])'
  <2>1. CASE v = w
    BY <1>2, <2>1 DEF Becomes, Reacted
  <2>2. CASE v # w
    <3>1. call'[v] = call[v] /\ pc'[v] = pc[v] /\ msg'[v] = msg[v]
      BY <1>2, <2>2 DEF Others
    <3>2. QED
      BY <3>1, CallKept
  <2>3. QED
    BY <2>1, <2>2
<1>4. CallInv'
  BY <1>3 DEF CallInv
<1>5. QED
  BY <1>2, <1>4

\* A step of the bus on the call of w, which is under way.
LEMMA Underway ==
  ASSUME BusType, CallInv, NEW w \in Worker, call[w].state = "calling"
  PROVE  /\ call[w] \in BusCall /\ call[w].ev \in Msg /\ B!Current(w) \in Handler
         /\ B!Current(w) = call[w].list[call[w].pos]
         /\ Good(call[w], tried[call[w].ev], done[call[w].ev] \cup parked[call[w].ev], policy)
         /\ pc[w] = "Handle" /\ call[w].ev = msg[w]
         /\ Commands[B!Current(w)] \in Nat /\ Budget[B!Current(w)] \in Nat \ {0}
<1>1. call[w] \in BusCall
  BY DEF BusType
<1>2. call[w].ev \in Msg /\ call[w].list \in Seq(Handler)
  BY <1>1 DEF BusCall
<1>3. /\ Good(call[w], tried[call[w].ev], done[call[w].ev] \cup parked[call[w].ev], policy)
      /\ pc[w] = "Handle" /\ call[w].ev = msg[w]
  BY DEF CallInv, Reacted
<1>4. call[w].pos \in 1..Len(call[w].list)
  BY <1>3 DEF Good
<1>5. B!Current(w) \in Handler /\ B!Current(w) = call[w].list[call[w].pos]
  BY <1>2, <1>4, ListEntry DEF B!Current
<1>6. Commands[B!Current(w)] \in Nat /\ Budget[B!Current(w)] \in Nat \ {0}
  BY <1>5, BusAssumption
<1>7. QED
  BY <1>1, <1>2, <1>3, <1>5, <1>6

\* The current handler of w has answered.
LEMMA AnswerMoves ==
  ASSUME BusType, CallInv, Grows, NEW w \in Worker, call[w].state = "calling", NEW ok \in BOOLEAN,
         B!Answer(w, ok), UNCHANGED <<pc, msg, policy>>,
         B!Current(w) \in tried'[call[w].ev],
         ok => B!Current(w) \in done'[call[w].ev] \cup parked'[call[w].ev]
  PROVE  \E k : Becomes(w, k)
<1> DEFINE e == call[w].ev
           k == B!Advance(call[w], ok)
<1>1. /\ call[w] \in BusCall /\ e \in Msg /\ B!Current(w) = call[w].list[call[w].pos]
      /\ Good(call[w], tried[e], done[e] \cup parked[e], policy)
      /\ pc[w] = "Handle" /\ e = msg[w]
  BY Underway
<1>2. tried[e] \subseteq tried'[e] /\ done[e] \cup parked[e] \subseteq done'[e] \cup parked'[e]
  BY <1>1 DEF Grows, Reacted
<1>3. Good(call[w], tried'[e], done'[e] \cup parked'[e], policy)
  BY <1>1, Later
<1>4. k \in BusCall /\ k.ev = e /\ Good(k, tried'[e], done'[e] \cup parked'[e], policy)
  BY <1>1, <1>3, AdvanceGood
<1>5. call' = [call EXCEPT ![w] = k]
  BY DEF B!Answer
<1> HIDE DEF k, e
<1>6. Becomes(w, k)
  BY <1>1, <1>4, <1>5 DEF Becomes
<1>7. QED
  BY <1>6

\* The call of w stays with its handler.
LEMMA StayMoves ==
  ASSUME BusType, CallInv, Grows, NEW w \in Worker, call[w].state = "calling",
         UNCHANGED <<pc, msg, policy>>, NEW k \in BusCall, call' = [call EXCEPT ![w] = k],
         k.state = "calling", k.ev = call[w].ev, k.list = call[w].list, k.pos = call[w].pos,
         k.failed = call[w].failed,
         k.step # "handle" => B!Current(w) \in tried'[call[w].ev],
         k.step = "handle" => k.attempt = k.tries + 1 /\ k.attempt <= Budget[B!Current(w)],
         k.step = "cascade" => k.tries <= Budget[B!Current(w)],
         k.step = "park" => k.tries = Budget[B!Current(w)]
  PROVE  \E x : Becomes(w, x)
<1> DEFINE e == call[w].ev
<1>1. /\ e \in Msg /\ B!Current(w) = call[w].list[call[w].pos]
      /\ Good(call[w], tried[e], done[e] \cup parked[e], policy)
      /\ pc[w] = "Handle" /\ e = msg[w]
  BY Underway
<1>2. Good(call[w], tried'[e], done'[e] \cup parked'[e], policy)
  BY <1>1, Later
<1> DEFINE T2 == tried'[e]
           R2 == done'[e] \cup parked'[e]
<1>3. /\ k.pos \in 1..Len(k.list)
      /\ \A i \in 1..(k.pos - 1) : k.list[i] \in T2 /\ (k.failed \/ k.list[i] \in R2)
  BY <1>2 DEF Good
<1>4. B!Current(w) = k.list[k.pos]
  BY <1>1
<1>5. Good(k, T2, R2, policy)
  BY <1>3, <1>4 DEF Good
<1>6. Becomes(w, k)
  BY <1>1, <1>5 DEF Becomes
<1>7. QED
  BY <1>6

LEMMA AddedOrSame ==
  ASSUME NEW s \in [Msg -> SUBSET Handler], NEW s2, NEW e \in Msg, NEW h \in Handler,
         s2 = s \/ s2 = B!Add(s, e, h)
  PROVE  /\ s2 \in [Msg -> SUBSET Handler] /\ \A x \in Msg : s[x] \subseteq s2[x]
         /\ s2 = B!Add(s, e, h) => h \in s2[e]
<1>1. CASE s2 = s
  <2>1. s2 = B!Add(s, e, h) => h \in s2[e]
    BY AddEffect
  <2>2. QED
    BY <1>1, <2>1
<1>2. CASE s2 = B!Add(s, e, h)
  BY <1>2, AddEffect
<1>3. QED
  BY <1>1, <1>2

\* What the bus records of the current handler.
LEMMA Noted ==
  ASSUME BusType, NEW e \in Msg, NEW h \in Handler, tried' = tried \/ tried' = B!Add(tried, e, h),
         done' = done \/ done' = B!Add(done, e, h), parked' = parked \/ parked' = B!Add(parked, e, h)
  PROVE  /\ Grows
         /\ tried' = B!Add(tried, e, h) => h \in tried'[e]
         /\ done' = B!Add(done, e, h) => h \in done'[e]
         /\ parked' = B!Add(parked, e, h) => h \in parked'[e]
<1>1. /\ tried \in [Msg -> SUBSET Handler] /\ done \in [Msg -> SUBSET Handler]
      /\ parked \in [Msg -> SUBSET Handler]
  BY DEF BusType
<1>2. /\ tried' \in [Msg -> SUBSET Handler] /\ \A x \in Msg : tried[x] \subseteq tried'[x]
      /\ tried' = B!Add(tried, e, h) => h \in tried'[e]
  BY <1>1, AddedOrSame
<1>3. /\ done' \in [Msg -> SUBSET Handler] /\ \A x \in Msg : done[x] \subseteq done'[x]
      /\ done' = B!Add(done, e, h) => h \in done'[e]
  BY <1>1, AddedOrSame
<1>4. /\ parked' \in [Msg -> SUBSET Handler] /\ \A x \in Msg : parked[x] \subseteq parked'[x]
      /\ parked' = B!Add(parked, e, h) => h \in parked'[e]
  BY <1>1, AddedOrSame
<1>5. Grows
  BY <1>2, <1>3, <1>4 DEF Grows, Reacted
<1>6. QED
  BY <1>2, <1>3, <1>4, <1>5

LEMMA HandleOkMoves ==
  ASSUME BusType, CallInv, NEW w \in Worker, B!HandleOk(w), UNCHANGED <<pc, msg>>
  PROVE  Grows /\ \E k : Becomes(w, k)
<1> DEFINE e == call[w].ev
           h == B!Current(w)
<1>1. /\ call[w].state = "calling" /\ call[w].step = "handle" /\ UNCHANGED <<policy, parked>>
      /\ tried' = B!Add(tried, e, h)
      /\ \/ done' = B!Add(done, e, h) /\ B!Answer(w, TRUE)
         \/ /\ call' = [call EXCEPT ![w].step = "cascade", ![w].tries = @ + 1]
            /\ UNCHANGED done
  BY DEF B!HandleOk, B!At
<1>2. /\ call[w] \in BusCall /\ e \in Msg /\ h \in Handler /\ h = call[w].list[call[w].pos]
      /\ Good(call[w], tried[e], done[e] \cup parked[e], policy)
  BY <1>1, Underway
<1>3. /\ Grows /\ h \in tried'[e] /\ (done' = B!Add(done, e, h) => h \in done'[e])
  BY <1>1, <1>2, Noted
<1>4. CASE done' = B!Add(done, e, h) /\ B!Answer(w, TRUE)
  BY <1>1, <1>3, <1>4, AnswerMoves
<1>5. CASE call' = [call EXCEPT ![w].step = "cascade", ![w].tries = @ + 1]
  <2> DEFINE k == [call[w] EXCEPT !.step = "cascade", !.tries = call[w].tries + 1]
  <2>1. call' = [call EXCEPT ![w] = k]
    <3>1. call \in [Worker -> BusCall]
      BY DEF BusType
    <3>2. QED
      BY <1>5, <3>1
  <2>2. /\ call[w].tries \in Nat /\ call[w].attempt \in Nat /\ call[w].attempt = call[w].tries + 1
        /\ call[w].attempt <= Budget[h]
    BY <1>1, <1>2 DEF BusCall, Good
  <2>3. call[w].tries + 1 \in Nat /\ call[w].tries + 1 <= Budget[h]
    BY <2>2
  <2>4. /\ k \in BusCall /\ k.state = "calling" /\ k.ev = call[w].ev /\ k.list = call[w].list
        /\ k.pos = call[w].pos /\ k.failed = call[w].failed /\ k.step = "cascade"
        /\ k.tries = call[w].tries + 1
    BY <1>1, <1>2, <2>3 DEF BusCall
  <2> HIDE DEF k
  <2>5. QED
    BY <1>1, <1>3, <2>1, <2>3, <2>4, StayMoves
<1>6. QED
  BY <1>1, <1>3, <1>4, <1>5

LEMMA HandleErrMoves ==
  ASSUME BusType, CallInv, NEW w \in Worker, B!HandleErr(w), UNCHANGED <<pc, msg>>
  PROVE  Grows /\ \E k : Becomes(w, k)
<1> DEFINE e == call[w].ev
           h == B!Current(w)
<1>1. /\ call[w].state = "calling" /\ call[w].step = "handle" /\ UNCHANGED <<policy, done, parked>>
      /\ tried' = B!Add(tried, e, h)
      /\ \/ /\ B!Retries(h, call[w].attempt)
            /\ call' = [call EXCEPT ![w].attempt = @ + 1, ![w].tries = @ + 1]
         \/ /\ ~B!Retries(h, call[w].attempt)
            /\ call' = [call EXCEPT ![w].step = "park", ![w].tries = @ + 1]
         \/ B!Answer(w, FALSE)
  BY DEF B!HandleErr, B!At
<1>2. /\ call[w] \in BusCall /\ e \in Msg /\ h \in Handler /\ h = call[w].list[call[w].pos]
      /\ Good(call[w], tried[e], done[e] \cup parked[e], policy) /\ Budget[h] \in Nat \ {0}
  BY <1>1, Underway
<1>3. Grows /\ h \in tried'[e]
  BY <1>1, <1>2, Noted
<1>4. CASE B!Answer(w, FALSE)
  BY <1>1, <1>3, <1>4, AnswerMoves
<1>5. /\ call[w].tries \in Nat /\ call[w].attempt \in Nat /\ call[w].attempt = call[w].tries + 1
      /\ call[w].attempt <= Budget[h] /\ call \in [Worker -> BusCall]
  BY <1>1, <1>2 DEF BusCall, Good, BusType
<1>6. /\ call[w].tries + 1 \in Nat /\ call[w].attempt + 1 \in Nat
      /\ call[w].attempt + 1 = (call[w].tries + 1) + 1
      /\ B!Retries(h, call[w].attempt) => call[w].attempt + 1 <= Budget[h]
      /\ ~B!Retries(h, call[w].attempt) => call[w].tries + 1 = Budget[h]
  <2> DEFINE n == call[w].tries
             a == call[w].attempt
             b == Budget[h]
  <2>1. n \in Nat /\ a \in Nat /\ a = n + 1 /\ a <= b /\ b \in Nat /\ (B!Retries(h, a) <=> a < b)
    BY <1>2, <1>5 DEF B!Retries
  <2> HIDE DEF n, a, b
  <2>2. n + 1 \in Nat /\ a + 1 \in Nat /\ a + 1 = (n + 1) + 1 /\ (a < b => a + 1 <= b)
        /\ (~(a < b) => n + 1 = b)
    BY SMT, <2>1
  <2>3. QED
    BY <2>1, <2>2 DEF n, a, b
<1>7. CASE /\ B!Retries(h, call[w].attempt)
           /\ call' = [call EXCEPT ![w].attempt = @ + 1, ![w].tries = @ + 1]
  <2> DEFINE k == [call[w] EXCEPT !.attempt = call[w].attempt + 1, !.tries = call[w].tries + 1]
  <2>1. call' = [call EXCEPT ![w] = k]
    BY <1>5, <1>7
  <2>2. /\ k \in BusCall /\ k.state = "calling" /\ k.ev = call[w].ev /\ k.list = call[w].list
        /\ k.pos = call[w].pos /\ k.failed = call[w].failed /\ k.step = "handle"
        /\ k.tries = call[w].tries + 1 /\ k.attempt = call[w].attempt + 1
    BY <1>1, <1>2, <1>6 DEF BusCall
  <2> HIDE DEF k
  <2>3. k.attempt = k.tries + 1 /\ k.attempt <= Budget[h]
    BY <1>6, <1>7, <2>2
  <2>4. QED
    BY <1>1, <1>3, <2>1, <2>2, <2>3, StayMoves
<1>8. CASE /\ ~B!Retries(h, call[w].attempt)
           /\ call' = [call EXCEPT ![w].step = "park", ![w].tries = @ + 1]
  <2> DEFINE k == [call[w] EXCEPT !.step = "park", !.tries = call[w].tries + 1]
  <2>1. call' = [call EXCEPT ![w] = k]
    BY <1>5, <1>8
  <2>2. /\ k \in BusCall /\ k.state = "calling" /\ k.ev = call[w].ev /\ k.list = call[w].list
        /\ k.pos = call[w].pos /\ k.failed = call[w].failed /\ k.step = "park"
        /\ k.tries = call[w].tries + 1
    BY <1>1, <1>2, <1>6 DEF BusCall
  <2> HIDE DEF k
  <2>3. k.tries = Budget[h]
    BY <1>6, <1>8, <2>2
  <2>4. QED
    BY <1>1, <1>3, <2>1, <2>2, <2>3, StayMoves
<1>9. QED
  BY <1>1, <1>3, <1>4, <1>7, <1>8

LEMMA CommandMoves ==
  ASSUME BusType, CallInv, NEW w \in Worker, B!CommandOk(w) \/ B!CommandErr(w), UNCHANGED <<pc, msg>>
  PROVE  Grows /\ \E k : Becomes(w, k)
<1> DEFINE e == call[w].ev
           h == B!Current(w)
<1>1. /\ call[w].state = "calling" /\ call[w].step = "cascade"
      /\ UNCHANGED <<policy, tried, parked>>
      /\ \/ call' = [call EXCEPT ![w].attempt = @ + 1] /\ UNCHANGED done
         \/ done' = B!Add(done, e, h) /\ B!Answer(w, TRUE)
         \/ UNCHANGED done /\ B!Answer(w, FALSE)
  BY DEF B!CommandOk, B!CommandErr, B!At, B!counts
<1>2. /\ call[w] \in BusCall /\ e \in Msg /\ h \in Handler /\ h = call[w].list[call[w].pos]
      /\ Good(call[w], tried[e], done[e] \cup parked[e], policy)
  BY <1>1, Underway
<1>3. Grows /\ (done' = B!Add(done, e, h) => h \in done'[e])
  BY <1>1, <1>2, Noted
<1>4. h \in tried'[e] /\ call[w].tries <= Budget[h]
  BY <1>1, <1>2 DEF Good
<1>5. CASE done' = B!Add(done, e, h) /\ B!Answer(w, TRUE)
  BY <1>1, <1>3, <1>4, <1>5, AnswerMoves
<1>6. CASE B!Answer(w, FALSE)
  BY <1>1, <1>3, <1>4, <1>6, AnswerMoves
<1>7. CASE call' = [call EXCEPT ![w].attempt = @ + 1]
  <2> DEFINE k == [call[w] EXCEPT !.attempt = call[w].attempt + 1]
  <2>1. call \in [Worker -> BusCall] /\ call[w].attempt \in Nat
    BY <1>2 DEF BusType, BusCall
  <2>2. call[w].attempt + 1 \in Nat
    BY SMT, <2>1
  <2>3. call' = [call EXCEPT ![w] = k]
    BY <1>7, <2>1
  <2>4. /\ k \in BusCall /\ k.state = "calling" /\ k.ev = call[w].ev /\ k.list = call[w].list
        /\ k.pos = call[w].pos /\ k.failed = call[w].failed /\ k.step = "cascade"
        /\ k.tries = call[w].tries
    BY <1>1, <1>2, <2>2 DEF BusCall
  <2> HIDE DEF k
  <2>5. QED
    BY <1>1, <1>3, <1>4, <2>3, <2>4, StayMoves
<1>8. QED
  BY <1>1, <1>3, <1>5, <1>6, <1>7

LEMMA ParkMoves ==
  ASSUME BusType, CallInv, NEW w \in Worker, B!ParkOk(w) \/ B!ParkErr(w), UNCHANGED <<pc, msg>>
  PROVE  Grows /\ \E k : Becomes(w, k)
<1> DEFINE e == call[w].ev
           h == B!Current(w)
<1>1. /\ call[w].state = "calling" /\ call[w].step = "park" /\ UNCHANGED <<policy, tried, done>>
      /\ \/ parked' = B!Add(parked, e, h) /\ B!Answer(w, TRUE)
         \/ UNCHANGED parked /\ B!Answer(w, FALSE)
  BY DEF B!ParkOk, B!ParkErr, B!At, B!counts
<1>2. /\ e \in Msg /\ h \in Handler /\ h = call[w].list[call[w].pos]
      /\ Good(call[w], tried[e], done[e] \cup parked[e], policy)
  BY <1>1, Underway
<1>3. Grows /\ (parked' = B!Add(parked, e, h) => h \in parked'[e])
  BY <1>1, <1>2, Noted
<1>4. h \in tried'[e]
  BY <1>1, <1>2 DEF Good
<1>5. CASE parked' = B!Add(parked, e, h) /\ B!Answer(w, TRUE)
  BY <1>1, <1>3, <1>4, <1>5, AnswerMoves
<1>6. CASE B!Answer(w, FALSE)
  BY <1>1, <1>3, <1>4, <1>6, AnswerMoves
<1>7. QED
  BY <1>1, <1>3, <1>5, <1>6

-----------------------------------------------------------------------------
(* The workers' steps *)

LEMMA AnswersKept ==
  ASSUME AnswerInv, Grows, UNCHANGED answered
  PROVE  AnswerInv'
<1>1. \A m \in Msg : Reacted(m) \subseteq Reacted(m)'
  BY DEF Grows
<1>2. QED
  BY <1>1 DEF AnswerInv

\* The bus rests while w, which has no call, takes a step.
LEMMA QuietKeeps ==
  ASSUME BusInv, Quiet, NEW w \in Worker, Others(w), call[w].state = "idle"
  PROVE  BusInv'
<1>1. BusType /\ CallInv /\ AnswerInv /\ UNCHANGED <<handlers, policy, call, tried, done, parked, answered>>
  BY DEF BusInv, Quiet, bus
<1>2. BusType' /\ Grows
  BY <1>1, CountsSame DEF BusType
<1>3. AnswerInv'
  BY <1>1, <1>2, AnswersKept
<1>4. CallInv'
  BY <1>1 DEF CallInv, Others, Reacted
<1>5. QED
  BY <1>2, <1>3, <1>4 DEF BusInv

LEMMA IdleCall ==
  ASSUME CallInv, NEW w \in Worker, pc[w] # "Handle"
  PROVE  call[w].state = "idle"
  BY DEF CallInv

\* A step of w's call on the bus.
LEMMA MoveInv ==
  ASSUME BusInv, NEW w \in Worker, Others(w), Grows, UNCHANGED <<handlers, policy, answered>>,
         \E k : Becomes(w, k)
  PROVE  BusInv'
<1>1. BusType /\ CallInv /\ AnswerInv
  BY DEF BusInv
<1>2. call' \in [Worker -> BusCall] /\ CallInv'
  BY <1>1, MoveKeeps
<1>3. BusType'
  BY <1>1, <1>2 DEF BusType, Grows
<1>4. AnswerInv'
  BY <1>1, AnswersKept
<1>5. QED
  BY <1>2, <1>3, <1>4 DEF BusInv

LEMMA BusStepInv ==
  ASSUME BusInv, NEW w \in Worker, BusStep(w)
  PROVE  BusInv'
<1>1. BusType /\ CallInv /\ UNCHANGED <<pc, msg, answered>>
  BY DEF BusInv, BusStep, vars, worker
<1>2. Others(w)
  BY <1>1 DEF Others
<1>3. Grows /\ \E k : Becomes(w, k)
  BY <1>1, HandleOkMoves, HandleErrMoves, CommandMoves, ParkMoves
     DEF BusStep, B!Succeed, B!Fail
<1>4. UNCHANGED <<handlers, policy>>
  BY DEF BusStep, B!Succeed, B!Fail, B!HandleOk, B!HandleErr, B!CommandOk, B!CommandErr,
               B!ParkOk, B!ParkErr
<1>5. QED
  BY <1>1, <1>2, <1>3, <1>4, MoveInv

LEMMA LeastMember ==
  ASSUME NEW T, T \subseteq Nat, T # {}
  PROVE  \E i \in T : \A j \in T : i <= j
<1> DEFINE R == OpToRel(<, Nat)
<1>1. \E i \in T : \A j \in T : ~(<<j, i>> \in R)
  BY NatLessThanWellFounded, WFMin
<1>2. \A i, j \in Nat : j < i => <<j, i>> \in R
  BY DEF OpToRel
<1> HIDE DEF R
<1>3. PICK i \in T : \A j \in T : ~(<<j, i>> \in R)
  BY <1>1
<1>4. \A j \in T : i \in Nat /\ j \in Nat /\ ~(j < i)
  BY <1>2, <1>3
<1>5. \A j \in T : i <= j
  BY SMT, <1>4
<1>6. QED
  BY <1>5

\* The list a call begins with.
LEMMA NamedType ==
  ASSUME BusType, NEW n
  PROVE  B!Named(n) \in Seq(Handler)
<1> DEFINE at == {i \in DOMAIN handlers : Name[handlers[i]] = n}
<1>1. handlers \in Seq(Handler)
  BY DEF BusType
<1>2. CASE at = {}
  BY SMT, <1>2 DEF B!Named
<1>3. CASE at # {}
  <2>1. at \subseteq Nat /\ \A i \in at : handlers[i] \in Handler
    BY SMT, <1>1
  <2>2. \E i \in at : \A j \in at : i <= j
    BY <1>3, <2>1, LeastMember
  <2>3. (CHOOSE i \in at : \A j \in at : i <= j) \in at
    BY <2>2
  <2>4. handlers[CHOOSE i \in at : \A j \in at : i <= j] \in Handler
    BY <2>1, <2>3
  <2>5. B!Named(n) = <<handlers[CHOOSE i \in at : \A j \in at : i <= j]>>
    BY <1>3 DEF B!Named
  <2>6. QED
    BY SMT, <2>4, <2>5
<1>4. QED
  BY <1>2, <1>3

LEMMA CallMoves ==
  ASSUME BusType, NEW w \in Worker, NEW m \in Msg, Call(w, m), pc'[w] = "Handle", msg'[w] = m
  PROVE  Grows /\ UNCHANGED <<handlers, policy>> /\ \E k : Becomes(w, k)
<1>1. \/ \E list \in Seq(Handler) : B!Enter(w, m, list)
      \/ B!Refuse(w, m)
  <2>1. <<>> \in Seq(Handler) /\ handlers \in Seq(Handler)
    BY SMT DEF BusType
  <2>2. QED
    BY <2>1, NamedType
       DEF Call, B!Publish, B!PublishTrustedBytes, B!DispatchTrustedBytesToHandler
<1>2. UNCHANGED <<handlers, policy, tried, done, parked>>
  BY <1>1 DEF B!Enter, B!Refuse, B!counts
<1>3. Grows
  BY <1>2, CountsSame
<1>4. ASSUME NEW list \in Seq(Handler), B!Enter(w, m, list)
      PROVE  \E k : Becomes(w, k)
  <2>1. call' = [call EXCEPT ![w] = Entered(m, list)]
    BY <1>4 DEF B!Enter, Entered
  <2>2. QED
    BY <2>1, EnterGood DEF Becomes
<1>5. CASE B!Refuse(w, m)
  <2>1. call' = [call EXCEPT ![w] = Refusal(m)]
    BY <1>5 DEF B!Refuse, Refusal
  <2>2. Becomes(w, Refusal(m))
    BY <2>1, RefuseGood DEF Becomes
  <2>3. QED
    BY <1>2, <1>3, <2>2
<1>6. QED
  BY <1>1, <1>2, <1>3, <1>4, <1>5

LEMMA BeginInv ==
  ASSUME ConsumerType, BusInv, NEW w \in Worker, BeginCall(w)
  PROVE  BusInv'
<1>1. /\ pc[w] = "Begin" /\ UNCHANGED msg /\ \E l : Goto(w, l)
      /\ IF pc'[w] = "Handle" THEN Call(w, msg[w]) /\ UNCHANGED answered ELSE Quiet
  BY DEF BeginCall, Begin, Start
<1>2. Others(w) /\ msg'[w] = msg[w] /\ msg[w] \in Msg
  <2>1. msg[w] \in Msg
    BY DEF ConsumerType
  <2>2. QED
    BY <1>1, <2>1, GotoEffect
<1>3. BusType /\ CallInv /\ call[w].state = "idle"
  <2>1. pc[w] # "Handle"
    BY <1>1
  <2>2. QED
    BY <2>1, IdleCall DEF BusInv
<1>4. CASE pc'[w] = "Handle"
  <2>1. Grows /\ UNCHANGED <<handlers, policy, answered>> /\ \E k : Becomes(w, k)
    BY <1>1, <1>2, <1>3, <1>4, CallMoves
  <2>2. QED
    BY <1>2, <2>1, MoveInv
<1>5. CASE pc'[w] # "Handle"
  BY <1>1, <1>2, <1>3, <1>5, QuietKeeps
<1>6. QED
  BY <1>4, <1>5

\* The call of w is over or dropped.
LEMMA ForgetMoves ==
  ASSUME BusType, NEW w \in Worker, B!Forget(w)
  PROVE  Grows /\ UNCHANGED <<handlers, policy>> /\ \E k : Becomes(w, k)
<1>1. /\ UNCHANGED <<handlers, policy, tried, done, parked>>
      /\ call' = [call EXCEPT ![w] = B!NoCall]
  BY DEF B!Forget, B!counts
<1>2. Grows
  BY <1>1, CountsSame
<1>3. B!NoCall \in BusCall /\ B!NoCall.state = "idle" /\ \A T, R, p : Good(B!NoCall, T, R, p)
  BY NoCallType
<1>4. Becomes(w, B!NoCall)
  BY <1>1, <1>3 DEF Becomes
<1>5. QED
  BY <1>1, <1>2, <1>4

LEMMA CallOkInv ==
  ASSUME ConsumerType, BusInv, NEW w \in Worker, CallOk(w)
  PROVE  BusInv'
<1> DEFINE m == msg[w]
           new == B!Range(call[w].list)
<1>1. BusType /\ CallInv /\ AnswerInv
  BY DEF BusInv
<1>2. /\ call[w].state = "ok" /\ B!Forget(w) /\ answered' = [answered EXCEPT ![m] = @ \cup new]
      /\ Goto(w, "MarkCompleted") /\ UNCHANGED msg
  BY DEF CallOk, HandlerOk
<1>3. Others(w)
  BY <1>2, GotoEffect
<1>4. Grows /\ UNCHANGED <<handlers, policy>> /\ \E k : Becomes(w, k)
  BY <1>1, <1>2, ForgetMoves
<1>5. call' \in [Worker -> BusCall] /\ CallInv'
  BY <1>1, <1>3, <1>4, MoveKeeps
<1>6. /\ call[w].list \in Seq(Handler) /\ call[w].ev = m /\ m \in Msg
      /\ \A i \in 1..Len(call[w].list) : call[w].list[i] \in Reacted(m)
  <2>1. call[w] \in BusCall /\ m \in Msg
    BY DEF BusType, ConsumerType, BusInv
  <2>2. call[w].ev = m /\ Good(call[w], tried[m], Reacted(m), policy)
    BY <1>1, <1>2 DEF CallInv, Reacted
  <2>3. call[w].list \in Seq(Handler)
    BY SMT, <2>1 DEF BusCall
  <2>4. QED
    BY <1>2, <2>1, <2>2, <2>3 DEF Good
<1>7. new \subseteq Reacted(m) /\ new \subseteq Handler
  <2>1. DOMAIN call[w].list = 1..Len(call[w].list)
    BY SMT, <1>6
  <2>2. \A x \in new : \E i \in 1..Len(call[w].list) : x = call[w].list[i]
    BY <2>1 DEF B!Range
  <2>3. \A i \in 1..Len(call[w].list) : call[w].list[i] \in Handler
    BY <1>6, ListEntry
  <2>4. QED
    BY <1>6, <2>2, <2>3
<1> HIDE DEF new
<1>8. answered \in [Msg -> SUBSET Handler]
  BY <1>1 DEF BusType
<1>9. /\ answered' \in [Msg -> SUBSET Handler]
      /\ \A x \in Msg : answered'[x] = IF x = m THEN answered[x] \cup new ELSE answered[x]
  BY <1>2, <1>6, <1>7, <1>8
<1>10. BusType'
  BY <1>1, <1>4, <1>5, <1>9 DEF BusType, Grows
<1>11. AnswerInv'
  <2>1. \A x \in Msg : answered'[x] \subseteq Reacted(x)
    BY <1>1, <1>7, <1>9 DEF AnswerInv
  <2>2. \A x \in Msg : Reacted(x) \subseteq Reacted(x)'
    BY <1>4 DEF Grows
  <2>3. QED
    BY <2>1, <2>2 DEF AnswerInv
<1>12. QED
  BY <1>5, <1>10, <1>11 DEF BusInv

LEMMA ForgetInv ==
  ASSUME ConsumerType, BusInv, NEW w \in Worker, CallErr(w) \/ Crash(w)
  PROVE  BusInv'
<1>1. B!Forget(w) /\ UNCHANGED answered
  BY DEF CallErr, Crash
<1>2. CASE CallErr(w)
  <2>1. Goto(w, "MarkFailed") /\ UNCHANGED msg
    BY <1>2 DEF CallErr, HandlerErr
  <2>2. Others(w)
    BY <2>1, GotoEffect
  <2>3. QED
    BY <1>1, <2>2, ForgetMoves, MoveInv DEF BusInv
<1>3. CASE Crash(w)
  <2>1. Return(w)
    BY <1>3 DEF Crash, Abandon
  <2>2. Others(w)
    BY <2>1, ReturnEffect
  <2>3. QED
    BY <1>1, <2>2, ForgetMoves, MoveInv DEF BusInv
<1>4. QED
  BY <1>2, <1>3

LEMMA RestInv ==
  ASSUME ConsumerType, BusInv, NEW w \in Worker, Rest(w) \/ (Receive(w) /\ Quiet)
  PROVE  BusInv'
<1>1. /\ Quiet /\ pc[w] # "Handle"
      /\ \/ UNCHANGED msg /\ \E l : Goto(w, l)
         \/ Return(w)
         \/ Receive(w)
  BY DEF Rest, MarkCompleted, MarkFailed, DeadLetter, Ack, Requeue, Reject, Receive
<1>2. Others(w)
  <2>1. CASE UNCHANGED msg /\ \E l : Goto(w, l)
    BY <2>1, GotoEffect
  <2>2. CASE Return(w)
    BY <2>2, ReturnEffect
  <2>3. CASE Receive(w)
    <3>1. pc \in [Worker -> Pcs] /\ msg \in [Worker -> Msg]
      BY DEF ConsumerType
    <3>2. pc' = [pc EXCEPT ![w] = "Begin"] /\ msg' = [msg EXCEPT ![w] = Head(queue).msg]
      BY <2>3 DEF Receive, Goto
    <3>3. QED
      BY <3>1, <3>2 DEF Others
  <2>4. QED
    BY <1>1, <2>1, <2>2, <2>3
<1>3. call[w].state = "idle"
  BY <1>1, IdleCall DEF BusInv
<1>4. QED
  BY <1>1, <1>2, <1>3, QuietKeeps

\* No worker moves and no call does.
LEMMA StillInv ==
  ASSUME BusInv, UNCHANGED <<pc, msg, policy, call, tried, done, parked, answered>>,
         handlers' \in Seq(Handler)
  PROVE  BusInv'
<1>1. BusType'
  BY DEF BusInv, BusType
<1>2. CallInv' /\ AnswerInv'
  BY DEF BusInv, CallInv, AnswerInv, Reacted
<1>3. QED
  BY <1>1, <1>2 DEF BusInv

LEMMA NextBusInv ==
  ASSUME ConsumerType, BusInv, [NextBus]_allVars
  PROVE  BusInv'
<1>1. handlers \in Seq(Handler)
  BY DEF BusInv, BusType
<1>2. ASSUME NEW m \in Msg, Publish(m), Quiet
      PROVE  BusInv'
  <2>1. UNCHANGED <<pc, msg, policy, call, tried, done, parked, answered, handlers>>
    BY <1>2 DEF Publish, Quiet, bus, worker
  <2>2. QED
    BY <1>1, <2>1, StillInv
<1>3. ASSUME NEW w \in Worker, Work(w) \/ Crash(w)
      PROVE  BusInv'
  BY <1>3, BeginInv, BusStepInv, CallOkInv, ForgetInv, RestInv DEF Work
<1>4. CASE Tick /\ Quiet
  <2>1. UNCHANGED <<pc, msg, policy, call, tried, done, parked, answered, handlers>>
    BY <1>4 DEF Tick, Quiet, bus, worker
  <2>2. QED
    BY <1>1, <2>1, StillInv
<1>5. CASE Setup /\ UNCHANGED <<vars, answered>>
  <2>1. /\ UNCHANGED <<pc, msg, policy, call, tried, done, parked, answered>>
        /\ UNCHANGED handlers \/ \E h \in Handler : handlers' = Append(handlers, h)
    BY <1>5 DEF Setup, B!Register, B!RegisterDecoder, B!counts, vars, worker
  <2>2. handlers' \in Seq(Handler)
    BY SMT, <1>1, <2>1
  <2>3. QED
    BY <2>1, <2>2, StillInv
<1>6. CASE UNCHANGED allVars
  <2>1. UNCHANGED <<pc, msg, policy, call, tried, done, parked, answered, handlers>>
    BY <1>6 DEF allVars, vars, bus, worker
  <2>2. QED
    BY <1>1, <2>1, StillInv
<1>7. QED
  BY <1>2, <1>3, <1>4, <1>5, <1>6 DEF NextBus

LEMMA InitBusInv == InitBus => BusInv
<1> SUFFICES ASSUME InitBus PROVE BusInv
  OBVIOUS
<1>1. PICK s \in Setups : B!BusInit(s.list, s.decoder, s.policy)
  BY DEF InitBus
<1>2. /\ handlers = s.list /\ call = [c \in Worker |-> B!NoCall]
      /\ tried = [e \in Msg |-> {}] /\ done = tried /\ parked = tried
      /\ answered = [m \in Msg |-> {}]
  BY <1>1 DEF B!BusInit, InitBus
<1>3. s.list \in Seq(Handler)
  BY BusAssumption
<1>4. B!NoCall \in BusCall /\ B!NoCall.state = "idle" /\ \A T, R, p : Good(B!NoCall, T, R, p)
  BY NoCallType
<1>5. BusType
  BY <1>2, <1>3, <1>4 DEF BusType
<1>6. \A w \in Worker : call[w] = B!NoCall
  BY <1>2
<1>7. CallInv
  BY <1>4, <1>6 DEF CallInv
<1>8. AnswerInv
  BY <1>2 DEF AnswerInv
<1>9. QED
  BY <1>5, <1>7, <1>8 DEF BusInv

LEMMA BusInvariant == SpecBus => [](LostInv /\ BusInv)
<1>1. InitBus => LostInv /\ BusInv
  BY BusWorksAsWorker, InitLost, InitBusInv
<1>2. LostInv /\ BusInv /\ [NextBus]_allVars => (LostInv /\ BusInv)'
  <2> SUFFICES ASSUME LostInv, BusInv, [NextBus]_allVars PROVE (LostInv /\ BusInv)'
    OBVIOUS
  <2>1. LostInv'
    BY BusStepsAreSteps, NextLost
  <2>2. BusInv'
    BY NextBusInv DEF LostInv
  <2>3. QED
    BY <2>1, <2>2
<1>3. QED
  BY <1>1, <1>2, PTL DEF SpecBus

\* A completed message was reacted to by, or parked for, every handler of the
\* publish that completed it, and under CollectAll a call that failed has
\* started every handler of its list, for any handlers, commands, retry budgets
\* and registrations that go on meanwhile.
THEOREM HandlersReached == SpecBus => []EveryHandlerReached
<1>1. LostInv /\ BusInv => EveryHandlerReached
  <2> SUFFICES ASSUME LostInv, BusInv PROVE EveryHandlerReached
    OBVIOUS
  <2>1. \A m \in Msg : rec[m] = "Completed" => effects[m] > 0
    BY DEF LostInv, DoneInv
  <2>2. \A m \in Msg : \A h \in answered[m] : h \in done[m] \cup parked[m]
    BY DEF BusInv, AnswerInv, Reacted
  <2>3. ASSUME policy = "CollectAll", NEW w \in Worker, call[w].state = "err",
               NEW i \in DOMAIN call[w].list
        PROVE  call[w].list[i] \in tried[call[w].ev]
    <3>1. call[w] \in BusCall
      BY DEF BusInv, BusType
    <3>2. call[w].list \in Seq(Handler)
      BY <3>1 DEF BusCall
    <3>3. i \in 1..Len(call[w].list)
      BY SMT, <3>2
    <3>4. QED
      BY <2>3, <3>3 DEF BusInv, CallInv, Good
  <2>4. QED
    BY <2>1, <2>2, <2>3 DEF EveryHandlerReached
<1>2. QED
  BY <1>1, BusInvariant, PTL

\* No call of the bus starts a handler more often than its budget, and an event
\* is parked only once the budget is spent.
THEOREM BusRetriesBounded == SpecBus => []BusRetryBounded
<1>1. BusInv => BusRetryBounded
  <2> SUFFICES ASSUME BusInv, NEW w \in Worker, call[w].state = "calling"
               PROVE  /\ call[w].tries <= Budget[call[w].list[call[w].pos]]
                      /\ call[w].step = "park" => call[w].tries = Budget[call[w].list[call[w].pos]]
    BY DEF BusRetryBounded
  <2> DEFINE k == call[w]
             b == Budget[k.list[k.pos]]
  <2>1. /\ k \in BusCall /\ B!Current(w) = k.list[k.pos] /\ Budget[B!Current(w)] \in Nat \ {0}
        /\ Good(k, tried[k.ev], done[k.ev] \cup parked[k.ev], policy)
    BY Underway DEF BusInv
  <2>2. k.tries \in Nat /\ k.attempt \in Nat /\ k.step \in {"handle", "cascade", "park"} /\ b \in Nat
    BY <2>1 DEF BusCall
  <2>3. /\ k.step = "handle" => k.attempt = k.tries + 1 /\ k.attempt <= b
        /\ k.step = "cascade" => k.tries <= b
        /\ k.step = "park" => k.tries = b
    BY <2>1 DEF Good
  <2> HIDE DEF k, b
  <2>4. k.tries <= b /\ (k.step = "park" => k.tries = b)
    BY SMT, <2>2, <2>3
  <2>5. QED
    BY <2>4 DEF k, b
<1>2. QED
  BY <1>1, BusInvariant, PTL

\* No message starts the handler of process_idempotent_with_retry more often
\* than the attempts allowed for each published copy, nor is it dead-lettered
\* more than once per copy, but for what crashes and errors made the broker
\* redeliver; and the calls of the bus keep their own budgets.
THEOREM RetriesBounded == SpecBus => []RetryBounded
<1>1. InitBus => RetryInv
  BY SMT, BusWorksAsWorker, InitRetry
<1>2. LostInv /\ RetryInv /\ [NextBus]_allVars => RetryInv'
  BY BusStepsAreSteps, NextRetry DEF LostInv
<1>3. LostInv /\ RetryInv /\ BusRetryBounded => RetryBounded
  BY LedgersBound DEF LostInv, RetryBounded
<1>4. QED
  BY <1>1, <1>2, <1>3, BusInvariant, BusRetriesBounded, PTL DEF SpecBus
=============================================================================
