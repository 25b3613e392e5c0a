----------------------------- MODULE ConsumerBus -----------------------------
(***************************************************************************)
(* The workers of IdempotentConsumer with an EventBus as their handler:    *)
(* the worker's handler publishes the message on the bus, or a relay       *)
(* dispatches it to the one handler its consumer id names, and the bus's   *)
(* answer decides the fate of the delivery.  Crashes drop the bus call at  *)
(* whatever await it is in.                                                *)
(***************************************************************************)
EXTENDS IdempotentConsumer

CONSTANTS
  Handler, Name, Commands, Budget, Parks,
  Setups  \* [port, list, decoder, policy]: how the consumer's handler uses the bus
          \* ("publish", "bytes", or the name a relay dispatches to), what is
          \* registered at first, and the error policy; Init picks one

\* The decorators implement EventHandler only, so a cascading handler is bare.
ASSUME BusAssumption ==
  /\ Commands \in [Handler -> Nat] /\ Budget \in [Handler -> Nat \ {0}]
  /\ Parks \subseteq Handler /\ \A s \in Setups : s.list \in Seq(Handler)
  /\ \A h \in Handler : Commands[h] > 0 => Budget[h] = 1 /\ h \notin Parks

VARIABLES handlers, decoder, policy, call, tried, done, parked,
  port,     \* never changes
  answered  \* handlers in the lists of the calls that answered Ok

B == INSTANCE EventBus WITH Caller <- Worker, Event <- Msg

bus == <<handlers, decoder, policy, call, tried, done, parked>>
allVars == <<vars, bus, port, answered>>

InitBus ==
  /\ Init
  /\ \E s \in Setups : port = s.port /\ B!BusInit(s.list, s.decoder, s.policy)
  /\ answered = [m \in Msg |-> {}]

Quiet == UNCHANGED <<bus, answered>>

\* The handler's first act.
Call(w, m) ==
  \/ port = "publish" /\ B!Publish(w, m)
  \/ port = "bytes" /\ B!PublishTrustedBytes(w, m)
  \/ port \notin {"publish", "bytes"} /\ B!DispatchTrustedBytesToHandler(w, m, port)

BeginCall(w) ==
  /\ Begin(w)
  /\ IF pc'[w] = "Handle" THEN Call(w, msg[w]) /\ UNCHANGED answered ELSE Quiet

CallOk(w) ==
  /\ call[w].state = "ok"
  /\ HandlerOk(w)
  /\ B!Forget(w)
  /\ answered' = [answered EXCEPT ![msg[w]] = @ \cup B!Range(call[w].list)]

CallErr(w) ==
  /\ call[w].state = "err"
  /\ HandlerErr(w)
  /\ B!Forget(w)
  /\ UNCHANGED answered

BusStep(w) ==
  /\ B!Succeed(w) \/ (deployment.mayFail /\ B!Fail(w))
  /\ UNCHANGED <<vars, answered>>

\* A crash drops the bus call the worker is in.
Crash(w) ==
  /\ Abandon(w)
  /\ B!Forget(w)
  /\ UNCHANGED answered

Rest(w) ==
  /\ MarkCompleted(w) \/ MarkFailed(w) \/ DeadLetter(w) \/ Ack(w) \/ Requeue(w) \/ Reject(w)
  /\ Quiet

Work(w) == (Receive(w) /\ Quiet) \/ BeginCall(w) \/ BusStep(w) \/ CallOk(w) \/ CallErr(w) \/ Rest(w)

\* The application registers its handlers and decoders while workers run.
Setup ==
  \/ \E h \in Handler : B!Register(h)
  \/ B!RegisterDecoder("own")
  \/ deployment.mayFail /\ B!RegisterDecoder("other")

NextBus ==
  /\ \/ \E m \in Msg : Publish(m) /\ Quiet
     \/ \E w \in Worker : Work(w) \/ Crash(w)
     \/ Tick /\ Quiet
     \/ Setup /\ UNCHANGED <<vars, answered>>
  /\ UNCHANGED port

SpecBus == InitBus /\ [][NextBus]_allVars

FairSpecBus ==
  /\ SpecBus
  /\ \A w \in Worker : WF_allVars(Work(w) /\ UNCHANGED port)
  /\ WF_allVars(Tick /\ Quiet /\ UNCHANGED port)

-----------------------------------------------------------------------------
(* Properties *)

\* Every handler is reached.  A message recorded as completed has been reacted
\* to by every handler the completing publish found registered, cascaded
\* commands included, or is parked on that handler's dead-letter queue: no
\* failure policy, retry or failing dead-letter queue turns a failed reaction
\* into a completed message.  And under CollectAll a failing handler starves
\* none: a call that answers an error, after which the consumer retries or gives
\* the message up, has started every handler of its list on it.
EveryHandlerReached ==
  /\ \A m \in Msg : rec[m] = "Completed" =>
       effects[m] > 0 /\ \A h \in answered[m] : h \in done[m] \cup parked[m]
  /\ policy = "CollectAll" => \A w \in Worker : call[w].state = "err" =>
       \A i \in DOMAIN call[w].list : call[w].list[i] \in tried[call[w].ev]

\* Within one call of the bus Retrying starts a handler at most max_attempts
\* times, and DeadLettering parks the event only when that budget is spent.
BusRetryBounded ==
  \A w \in Worker : call[w].state = "calling" =>
    LET h == call[w].list[call[w].pos] IN
    /\ call[w].tries <= Budget[h]
    /\ call[w].step = "park" => call[w].tries = Budget[h]

\* Retries have a floor, on both levels: in the calls of the bus, and in
\* process_idempotent_with_retry, which starts the bus call at most max_attempts
\* times per published copy and dead-letters the copy once, plus once for every
\* crash or error that made the broker redeliver.
RetryBounded ==
  /\ BusRetryBounded
  /\ deployment.withRetry => \A m \in Msg :
       runs[m] <= MaxAttempts * sent[m] + faults /\ dead[m] <= sent[m] + faults
=============================================================================
