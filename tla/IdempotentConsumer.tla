------------------------- MODULE IdempotentConsumer -------------------------
(***************************************************************************)
(* The workers of one consumer group, each running process_idempotent or   *)
(* process_idempotent_with_retry in its poll loop, over one topic of       *)
(* InMemoryMessageBroker, the group's InMemoryInboxStore and an            *)
(* InMemoryDeadLetterQueue.                                                *)
(*                                                                         *)
(* lease[m] is the time until the `processing` record of m is stale.       *)
(* A Delivery's attempt is only ever compared with max_attempts, so it is  *)
(* kept up to that bound.                                                  *)
(*                                                                         *)
(* The operators named Mut... are plausible defects of the definition that *)
(* follows them; they are not part of the specification.                   *)
(***************************************************************************)
EXTENDS Naturals, Sequences

CONSTANTS
  Msg,           \* message ids
  Worker,        \* workers of the consumer group
  MaxCopies,     \* bound: how often a message is published
  MaxAttempts,   \* RetryPolicy::max_attempts
  StaleAfter,    \* InMemoryInboxStore::stale_after
  MaxRuns,       \* bound: handler starts are counted up to this number
  MaxFaults,     \* bound on crashes and on errors of the stores and the broker
  Redelivers,    \* TRUE: the broker redelivers what a worker neither acked nor nacked
  Deployments    \* ways the consumer is deployed, of which Init picks one

ASSUME ConsumerAssumption ==
  /\ Msg # {} /\ MaxCopies \in Nat /\ MaxAttempts \in Nat \ {0} /\ StaleAfter \in Nat
  /\ MaxRuns \in Nat /\ MaxFaults \in Nat
  /\ Redelivers \in BOOLEAN
  /\ Deployments \subseteq [withRetry : BOOLEAN, mayFail : BOOLEAN, prompt : BOOLEAN]

VARIABLES
  queue,     \* the topic's deliveries
  sent,      \* how often the message was published
  acked,     \* messages acked to the broker
  rec,       \* InboxMessage::status, or Absent
  lease,     \* time until a `processing` record is stale
  pc,        \* the next call of a worker's run
  msg,       \* the message of the worker's delivery
  attempt,   \* Delivery::attempt of the worker's delivery
  runs,      \* how often the handler was started
  effects,   \* how often the handler succeeded
  dead,      \* entries of the message on the dead-letter queue
  faults,    \* crashes and errors so far
  deployment \* withRetry: process_idempotent_with_retry or process_idempotent;
             \* mayFail: the handler may return an error; prompt: a worker is
             \* done before its `processing` record is stale.  Never changes

broker == <<queue, sent, acked>>
inbox == <<rec, lease>>
worker == <<pc, msg, attempt>>
vars == <<broker, inbox, worker, runs, effects, dead, faults, deployment>>

AnyMsg == CHOOSE m \in Msg : TRUE

Goto(w, l) == pc' = [pc EXCEPT ![w] = l]

\* The run is over; the worker forgets its delivery.
Return(w) ==
  /\ Goto(w, "Idle")
  /\ msg' = [msg EXCEPT ![w] = AnyMsg]
  /\ attempt' = [attempt EXCEPT ![w] = 1]

Init ==
  /\ queue = <<>>
  /\ sent = [m \in Msg |-> 0]
  /\ acked = {}
  /\ rec = [m \in Msg |-> "Absent"]
  /\ lease = [m \in Msg |-> 0]
  /\ pc = [w \in Worker |-> "Idle"]
  /\ msg = [w \in Worker |-> AnyMsg]
  /\ attempt = [w \in Worker |-> 1]
  /\ runs = [m \in Msg |-> 0]
  /\ effects = [m \in Msg |-> 0]
  /\ dead = [m \in Msg |-> 0]
  /\ faults = 0
  /\ deployment \in Deployments

-----------------------------------------------------------------------------
(* The broker *)

\* publish; an at-least-once publisher may do it again for the same message.
Publish(m) ==
  /\ sent[m] < MaxCopies
  /\ sent' = [sent EXCEPT ![m] = @ + 1]
  /\ queue' = Append(queue, [msg |-> m, attempt |-> 1])
  /\ UNCHANGED <<acked, inbox, worker, runs, effects, dead, faults, deployment>>

\* next: the delivery leaves the queue.
Receive(w) ==
  /\ pc[w] = "Idle" /\ queue # <<>>
  /\ queue' = Tail(queue)
  /\ msg' = [msg EXCEPT ![w] = Head(queue).msg]
  /\ attempt' = [attempt EXCEPT ![w] = Head(queue).attempt]
  /\ Goto(w, "Begin")
  /\ UNCHANGED <<sent, acked, inbox, runs, effects, dead, faults, deployment>>

Ack(w) ==
  /\ pc[w] = "Ack"
  /\ acked' = acked \cup {msg[w]}
  /\ Return(w)
  /\ UNCHANGED <<queue, sent, inbox, runs, effects, dead, faults, deployment>>

\* nack(delivery, true)
Requeue(w) ==
  /\ pc[w] = "Requeue"
  /\ queue' = Append(queue, [msg |-> msg[w],
                             attempt |-> IF attempt[w] < MaxAttempts THEN attempt[w] + 1
                                                                     ELSE attempt[w]])
  /\ Return(w)
  /\ UNCHANGED <<sent, acked, inbox, runs, effects, dead, faults, deployment>>

\* nack(delivery, false)
Reject(w) ==
  /\ pc[w] = "Reject"
  /\ Return(w)
  /\ UNCHANGED <<broker, inbox, runs, effects, dead, faults, deployment>>

-----------------------------------------------------------------------------
(* process_idempotent and process_idempotent_with_retry *)

\* The handler is started.
Start(w) ==
  /\ Goto(w, "Handle")
  /\ runs' = [runs EXCEPT ![msg[w]] = IF @ < MaxRuns THEN @ + 1 ELSE @]

\* InMemoryInboxStore::begin_processing, its answer.
MutDecisionSteals(m) ==
  CASE rec[m] \in {"Absent", "Processing"} -> "StartProcessing"
    [] rec[m] = "Completed" -> "AlreadyCompleted"
    [] rec[m] = "Failed" -> "RetryPreviousFailure"
MutDecisionNoTakeover(m) ==
  CASE rec[m] = "Absent" -> "StartProcessing"
    [] rec[m] = "Processing" -> "AlreadyProcessing"
    [] rec[m] = "Completed" -> "AlreadyCompleted"
    [] rec[m] = "Failed" -> "RetryPreviousFailure"
Decision(m) ==
  CASE rec[m] = "Absent" -> "StartProcessing"
    [] rec[m] = "Processing" /\ lease[m] > 0 -> "AlreadyProcessing"
    [] rec[m] = "Processing" /\ lease[m] = 0 -> "StartProcessing"
    [] rec[m] = "Completed" -> "AlreadyCompleted"
    [] rec[m] = "Failed" -> "RetryPreviousFailure"

\* What becomes of a delivery whose handler is not started.
MutSkip(decision) == "Ack"
Skip(decision) == IF decision = "AlreadyCompleted" THEN "Ack" ELSE "Requeue"

\* begin_processing makes the record of m a fresh `processing` one.
Take(m) ==
  /\ rec' = [rec EXCEPT ![m] = "Processing"]
  /\ lease' = [lease EXCEPT ![m] = StaleAfter]

\* begin_processing, its effect, and the match on its answer.
Begin(w) ==
  LET m == msg[w] IN
  /\ pc[w] = "Begin"
  /\ \/ /\ Decision(m) = "StartProcessing"
        /\ Take(m)
        /\ Start(w)
     \/ /\ Decision(m) = "RetryPreviousFailure"
        /\ Start(w)
        /\ UNCHANGED inbox
     \/ /\ Decision(m) \in {"AlreadyCompleted", "AlreadyProcessing"}
        /\ Goto(w, Skip(Decision(m)))
        /\ UNCHANGED <<inbox, runs>>
  /\ UNCHANGED <<broker, msg, attempt, effects, dead, faults, deployment>>

HandlerOk(w) ==
  /\ pc[w] = "Handle"
  /\ effects' = [effects EXCEPT ![msg[w]] = @ + 1]
  /\ Goto(w, "MarkCompleted")
  /\ UNCHANGED <<broker, inbox, msg, attempt, runs, dead, faults, deployment>>

HandlerErr(w) ==
  /\ pc[w] = "Handle" /\ deployment.mayFail
  /\ Goto(w, "MarkFailed")
  /\ UNCHANGED <<broker, inbox, msg, attempt, runs, effects, dead, faults, deployment>>

\* A record that is not `processing` has no lease.
MarkCompleted(w) ==
  /\ pc[w] = "MarkCompleted"
  /\ rec' = [rec EXCEPT ![msg[w]] = "Completed"]
  /\ lease' = [lease EXCEPT ![msg[w]] = 0]
  /\ Goto(w, "Ack")
  /\ UNCHANGED <<broker, msg, attempt, runs, effects, dead, faults, deployment>>

\* RetryPolicy::decide, consulted only by process_idempotent_with_retry.
Decide(a) == IF deployment.withRetry /\ a >= MaxAttempts THEN "DeadLetter" ELSE "Requeue"

MarkFailed(w) ==
  /\ pc[w] = "MarkFailed"
  /\ rec' = [rec EXCEPT ![msg[w]] = "Failed"]
  /\ lease' = [lease EXCEPT ![msg[w]] = 0]
  /\ Goto(w, Decide(attempt[w]))
  /\ UNCHANGED <<broker, msg, attempt, runs, effects, dead, faults, deployment>>

DeadLetter(w) ==
  /\ pc[w] = "DeadLetter"
  /\ dead' = [dead EXCEPT ![msg[w]] = @ + 1]
  /\ Goto(w, "Reject")
  /\ UNCHANGED <<broker, inbox, msg, attempt, runs, effects, faults, deployment>>

\* The worker crashes, or the call it is to make next returns an error: every
\* one of them ends the run with the delivery neither acked nor nacked.
Abandon(w) ==
  /\ pc[w] # "Idle"
  /\ faults < MaxFaults
  /\ faults' = faults + 1
  /\ queue' = IF Redelivers THEN Append(queue, [msg |-> msg[w], attempt |-> attempt[w]])
                            ELSE queue
  /\ Return(w)
  /\ UNCHANGED <<sent, acked, inbox, runs, effects, dead, deployment>>

-----------------------------------------------------------------------------

\* The worker is between begin_processing and the mark of its outcome.
Working(w) == pc[w] \in {"Handle", "MarkCompleted", "MarkFailed"}

Tick ==
  /\ \E m \in Msg : lease[m] > 0
  /\ deployment.prompt => \A w \in Worker : Working(w) => lease[msg[w]] # 1
  /\ lease' = [m \in Msg |-> IF lease[m] > 0 THEN lease[m] - 1 ELSE 0]
  /\ UNCHANGED <<broker, rec, worker, runs, effects, dead, faults, deployment>>

Process(w) ==
  \/ Begin(w) \/ HandlerOk(w) \/ HandlerErr(w) \/ MarkCompleted(w) \/ MarkFailed(w)
  \/ DeadLetter(w) \/ Ack(w) \/ Requeue(w) \/ Reject(w)

Next ==
  \/ \E m \in Msg : Publish(m)
  \/ \E w \in Worker : Receive(w) \/ Process(w) \/ Abandon(w)
  \/ Tick

Spec == Init /\ [][Next]_vars

\* Every worker's poll loop goes on, and time passes.
Fairness ==
  /\ \A w \in Worker : WF_vars(Receive(w) \/ Process(w))
  /\ WF_vars(Tick)

FairSpec == Spec /\ Fairness
-----------------------------------------------------------------------------
(* Properties *)

\* A copy of m that some worker will still mark, requeue or dead-letter.
InFlight(m) ==
  \/ \E i \in 1..Len(queue) : queue[i].msg = m
  \/ \E w \in Worker : pc[w] \notin {"Idle", "Ack", "Reject"} /\ msg[w] = m

\* No message is lost between the broker and the inbox: over a broker that
\* redelivers abandoned deliveries, a published message is in flight, or was
\* handled and is recorded as completed, or is on the dead-letter queue,
\* whatever duplicates, takeovers of stale records, late marks and crashes do.
NothingLost ==
  Redelivers => \A m \in Msg : sent[m] > 0 =>
    \/ InFlight(m)
    \/ rec[m] = "Completed" /\ effects[m] > 0
    \/ dead[m] > 0

\* "Two concurrent consumers cannot both start processing the same message"
\* (docs/guide/production.md).
ExclusiveHandler ==
  \A v, w \in Worker : v # w /\ pc[v] = "Handle" /\ pc[w] = "Handle" => msg[v] # msg[w]

\* When handlers do not fail and finish before their record is stale, one
\* worker at a time handles a message, and it takes effect once, plus once for
\* every crash or error between the handler's success and the record of it.
HandledOnce ==
  deployment.prompt /\ ~deployment.mayFail =>
    ExclusiveHandler /\ \A m \in Msg : effects[m] <= 1 + faults

\* Every published message is eventually out of flight for good, completed or
\* dead-lettered: neither contention on a record whose worker died nor, with a
\* retry policy, a handler that always fails keeps it circling.
EventuallySettled ==
  \A m \in Msg : <>[](sent[m] > 0 /\ (deployment.withRetry \/ ~deployment.mayFail) =>
    ~InFlight(m) /\ (rec[m] = "Completed" \/ dead[m] > 0))
=============================================================================
