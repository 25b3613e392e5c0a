------------------------------ MODULE EventBus ------------------------------
(***************************************************************************)
(* The in-process EventBus with its two handler wrappers, the Retrying and *)
(* DeadLettering decorators and the InMemoryDeadLetterQueue behind them.   *)
(*                                                                         *)
(* A call is one publish, publish_trusted_bytes or                         *)
(* dispatch_trusted_bytes_to_handler of a Caller; every await of it (a     *)
(* handler, a cascaded command, the dead-letter queue) is a step, so that  *)
(* calls interleave with each other and with register.  A call takes its   *)
(* list of handlers once, when it begins.  What a handler, a command or    *)
(* the queue answers is chosen freely.                                     *)
(*                                                                         *)
(* tried, done, parked and the tries of a call serve the properties.       *)
(*                                                                         *)
(* The operators named Mut... are plausible defects of the definition that *)
(* follows them; they are not part of the specification.                   *)
(***************************************************************************)
EXTENDS Naturals, Sequences, Functions

CONSTANTS
  Caller,        \* tasks that publish
  Event,         \* events
  Handler,       \* registered handler instances
  Name,          \* type_name of a handler's type
  Commands,      \* how many commands a cascading handler returns, 0: EventHandler
  Budget,        \* max_attempts of Retrying around the handler, 1: not wrapped
  Parks          \* handlers wrapped, outermost, in DeadLettering

VARIABLES
  handlers,  \* the handlers of the event type, in registration order
  decoder,   \* the topic's decoder: "none", the event type's, or another type's,
             \* which rejects the payload
  policy,    \* PublishErrorPolicy; never changes
  call,      \* the call of each caller
  tried,     \* handlers started on the event
  done,      \* handlers that succeeded on it, all their commands included
  parked     \* handlers whose dead-letter queue holds the event

counts == <<tried, done, parked>>

NoCall == [state |-> "idle", ev |-> CHOOSE e \in Event : TRUE, list |-> <<>>,
           pos |-> 1, step |-> "handle", attempt |-> 1, tries |-> 0, failed |-> FALSE]

\* What the application registered before its first call, and its policy.
BusInit(list, decodes, p) ==
  /\ handlers = list /\ decoder = decodes /\ policy = p
  /\ call = [c \in Caller |-> NoCall]
  /\ tried = [e \in Event |-> {}]
  /\ done = tried /\ parked = tried

Add(sets, e, h) == [sets EXCEPT ![e] = @ \cup {h}]

-----------------------------------------------------------------------------
(* register, register_cascading and register_decoder *)

Register(h) ==
  /\ h \notin Range(handlers)
  /\ handlers' = Append(handlers, h)
  /\ UNCHANGED <<decoder, policy, call, counts>>

\* A second registration for the topic replaces the first.  Bound: only by the
\* event type's own decoder.
RegisterDecoder(d) ==
  /\ decoder = "none" \/ (decoder = "other" /\ d = "own")
  /\ decoder' = d
  /\ UNCHANGED <<handlers, policy, call, counts>>

-----------------------------------------------------------------------------
(* The calls *)

\* dispatch_trusted_bytes_to_handler: the first handler of that name.
Named(n) ==
  LET at == {i \in DOMAIN handlers : Name[handlers[i]] = n}
  IN IF at = {} THEN <<>>
     ELSE <<handlers[CHOOSE i \in at : \A j \in at : i <= j]>>

\* The call answers at once, or starts on the first handler of its list.
Enter(c, e, list) ==
  /\ call[c].state = "idle"
  /\ call' = [call EXCEPT ![c] =
       [NoCall EXCEPT !.ev = e, !.list = list,
                      !.state = IF list = <<>> THEN "ok" ELSE "calling"]]
  /\ UNCHANGED <<handlers, decoder, policy, counts>>

\* The decoder rejects the payload.
Refuse(c, e) ==
  /\ call[c].state = "idle"
  /\ call' = [call EXCEPT ![c] = [NoCall EXCEPT !.ev = e, !.state = "err"]]
  /\ UNCHANGED <<handlers, decoder, policy, counts>>

\* publish: the event is typed, no decoder is involved.
Publish(c, e) == Enter(c, e, handlers)

\* A topic without a decoder is dropped, a payload it rejects is an error.
PublishTrustedBytes(c, e) ==
  \/ decoder = "none" /\ Enter(c, e, <<>>)
  \/ decoder = "other" /\ Refuse(c, e)
  \/ decoder = "own" /\ Enter(c, e, handlers)

DispatchTrustedBytesToHandler(c, e, n) ==
  \/ decoder = "none" /\ Enter(c, e, <<>>)
  \/ decoder = "other" /\ Refuse(c, e)
  \/ decoder = "own" /\ Enter(c, e, Named(n))

\* The loop of publish after handler number pos answered.
Advance(k, ok) ==
  LET last == k.pos = Len(k.list)
      failed == k.failed \/ ~ok
  IN IF ~ok /\ policy = "FailFast" THEN [k EXCEPT !.state = "err"]
     ELSE [k EXCEPT !.failed = failed, !.pos = IF last THEN @ ELSE @ + 1,
                    !.step = "handle", !.attempt = 1, !.tries = 0,
                    !.state = CASE ~last -> "calling" [] last /\ failed -> "err"
                                [] last /\ ~failed -> "ok"]

At(c, step) == call[c].state = "calling" /\ call[c].step = step
Current(c) == call[c].list[call[c].pos]
Answer(c, ok) == call' = [call EXCEPT ![c] = Advance(@, ok)]

\* The handler succeeds; the commands of a cascading one are still to be run.
HandleOk(c) ==
  LET h == Current(c) e == call[c].ev IN
  /\ At(c, "handle")
  /\ tried' = Add(tried, e, h)
  /\ \/ /\ Commands[h] = 0
        /\ done' = Add(done, e, h)
        /\ Answer(c, TRUE)
     \/ /\ Commands[h] > 0
        /\ call' = [call EXCEPT ![c].step = "cascade", ![c].tries = @ + 1]
        /\ UNCHANGED done
  /\ UNCHANGED <<handlers, decoder, policy, parked>>

\* The handler fails: RetryPolicy::decide, then DeadLettering, then the policy.
\* attempt counts the tries, and after them the commands run.
MutRetries(h, attempt) == attempt <= Budget[h]
Retries(h, attempt) == attempt < Budget[h]

HandleErr(c) ==
  LET h == Current(c) k == call[c] IN
  /\ At(c, "handle")
  /\ tried' = Add(tried, k.ev, h)
  /\ \/ /\ Retries(h, k.attempt)
        /\ call' = [call EXCEPT ![c].attempt = @ + 1, ![c].tries = @ + 1]
     \/ /\ ~Retries(h, k.attempt) /\ h \in Parks
        /\ call' = [call EXCEPT ![c].step = "park", ![c].tries = @ + 1]
     \/ /\ ~Retries(h, k.attempt) /\ h \notin Parks
        /\ Answer(c, FALSE)
  /\ UNCHANGED <<handlers, decoder, policy, done, parked>>

\* One cascaded command succeeds.
CommandOk(c) ==
  LET h == Current(c) k == call[c] IN
  /\ At(c, "cascade")
  /\ \/ /\ k.attempt < Commands[h]
        /\ call' = [call EXCEPT ![c].attempt = @ + 1]
        /\ UNCHANGED done
     \/ /\ k.attempt = Commands[h]
        /\ done' = Add(done, k.ev, h)
        /\ Answer(c, TRUE)
  /\ UNCHANGED <<handlers, decoder, policy, tried, parked>>

\* The rest of the cascade is not run.
CommandErr(c) ==
  /\ At(c, "cascade")
  /\ Answer(c, FALSE)
  /\ UNCHANGED <<handlers, decoder, policy, counts>>

\* InMemoryDeadLetterQueue::dead_letter; DeadLettering reports success.
ParkOk(c) ==
  /\ At(c, "park")
  /\ parked' = Add(parked, call[c].ev, Current(c))
  /\ Answer(c, TRUE)
  /\ UNCHANGED <<handlers, decoder, policy, tried, done>>

\* Another DeadLetterQueue may fail: DeadLetteringError.
MutParkErr(c) ==
  /\ At(c, "park")
  /\ Answer(c, TRUE)
  /\ UNCHANGED <<handlers, decoder, policy, counts>>
ParkErr(c) ==
  /\ At(c, "park")
  /\ Answer(c, FALSE)
  /\ UNCHANGED <<handlers, decoder, policy, counts>>

Succeed(c) == HandleOk(c) \/ CommandOk(c) \/ ParkOk(c)
Fail(c) == HandleErr(c) \/ CommandErr(c) \/ ParkErr(c)

\* The caller has its answer, or the call is dropped at an await.
Forget(c) ==
  /\ call' = [call EXCEPT ![c] = NoCall]
  /\ UNCHANGED <<handlers, decoder, policy, counts>>
=============================================================================
