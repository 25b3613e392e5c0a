----------------------------- MODULE EdgeProofs -----------------------------
(***************************************************************************)
(* Proofs about Tenancy, for any tasks, tenants, policies and bounds, and  *)
(* about WsConnection, for any periods, timeouts and rates.                *)
(*                                                                         *)
(* The tenancy properties follow from what every frame on a task's stack,  *)
(* every future of an elevation and every message says of where its tenant *)
(* and its elevation came from (ScopeInv); an action answers for one new   *)
(* frame only.                                                             *)
(*                                                                         *)
(* ReapedInTime relates the clocks of the loop to the observed silence and *)
(* the time since rights were lost (SilentInv, BarredInv).  FramesAdmitted *)
(* bounds the sums over every window; what is inductive is that a sum      *)
(* and the tokens left never exceed the capacity and the refill of the     *)
(* window together (BucketInv).                                            *)
(*                                                                         *)
(* Zenon is the default prover; the leaves that need arithmetic name SMT.  *)
(***************************************************************************)
EXTENDS Tenancy, WellFoundedInduction, TLAPS

USE Zenon

\* The constants and the state of WsConnection.
CONSTANTS HeartbeatEvery, HeartbeatTimeout, RevalidateEvery, IoTimeout, Rate, Second, MaxReplay,
          Window
VARIABLES pc, sending, reason, waited, replay, outbound, frame, heartbeat, revalidate, seen, tokens,
          rights, client, prompt, silent, barred, admitted

Ws == INSTANCE WsConnection

Tenants == Tenant \cup {NoTenant}
Elevation == [issuer : Elevators \cup {"none"}, purpose : Purpose \cup {"none"}, actor : Actors,
              kind : {"none", "CrossTenant", "Impersonation"}, tenant : Tenants]
Scope == [kind : {"root", "elevated", "message", "visit"}, tenant : Tenants,
          elevation : Elevation, cause : Tenants, rest : Seq(Tenant), ok : Nat, failed : Nat]
Future == [granted : BOOLEAN, elevation : Elevation, held : BOOLEAN]
Message == [header : Tenants \cup {"malformed"}, cause : Tenants]

TenancyType ==
  /\ stack \in [Task -> Seq(Scope)]
  /\ future \in [Task -> Future]
  /\ queue \in Seq(Message)

\* An elevation that lifts the adapter's filter was granted under the policy
\* and is in the audit trail a.
Accounted(e, a) ==
  e.kind = "CrossTenant" /\ Issued(e) =>
    e.purpose \in Allowed /\ [granted |-> TRUE, elevation |-> e] \in a

\* What holds of every scope that is open.
Sound(f, a) ==
  /\ f.tenant = f.cause
  /\ f.kind # "elevated" => f.elevation = NoElevation
  /\ Accounted(f.elevation, a)
  /\ f.kind = "visit" => f.ok + f.failed + 1 + Len(f.rest) = Cardinality(Tenant)

ScopeInv ==
  /\ \A t \in Task : \A i \in 1..Len(stack[t]) : Sound(stack[t][i], audit)
  /\ \A t \in Task : Accounted(future[t].elevation, audit)
  /\ \A i \in 1..Len(queue) : queue[i].header \in {queue[i].cause, "malformed"}

-----------------------------------------------------------------------------
(* Operators *)

LEMMA EntryType ==
  ASSUME NEW S, NEW s \in Seq(S), NEW i \in 1..Len(s)
  PROVE  s[i] \in S
  BY SMT

LEMMA SequenceDomain ==
  ASSUME NEW S, NEW s \in Seq(S)
  PROVE  DOMAIN s = 1..Len(s)
  BY SMT

\* Facts about sequences.
LEMMA AppendFacts ==
  ASSUME NEW S, NEW s \in Seq(S), NEW e \in S
  PROVE  /\ Append(s, e) \in Seq(S) /\ Len(Append(s, e)) = Len(s) + 1 /\ Len(s) \in Nat
         /\ \A i \in 1..Len(s) : Append(s, e)[i] = s[i]
         /\ Append(s, e)[Len(s) + 1] = e
  BY SMT

LEMMA TailFacts ==
  ASSUME NEW S, NEW s \in Seq(S), s # <<>>
  PROVE  /\ Head(s) \in S /\ Tail(s) \in Seq(S)
         /\ Len(Tail(s)) = Len(s) - 1 /\ Len(s) \in Nat \ {0}
         /\ \A i \in 1..Len(Tail(s)) : Tail(s)[i] = s[i + 1]
  BY SMT

LEMMA PrefixFacts ==
  ASSUME NEW S, NEW s \in Seq(S), NEW n \in Nat, n < Len(s)
  PROVE  /\ SubSeq(s, 1, n) \in Seq(S) /\ Len(SubSeq(s, 1, n)) = n
         /\ \A i \in 1..n : SubSeq(s, 1, n)[i] = s[i]
  BY SMT

LEMMA InFrontFacts ==
  ASSUME NEW S, NEW e \in S, NEW s \in Seq(S)
  PROVE  /\ <<e>> \o s \in Seq(S) /\ Len(<<e>> \o s) = 1 + Len(s)
         /\ \A i \in 1..(1 + Len(s)) : (<<e>> \o s)[i] = IF i <= 1 THEN e ELSE s[i - 1]
  BY SMT

LEMMA FrontType ==
  ASSUME NEW S, NEW s \in Seq(S), s # <<>>
  PROVE  /\ SubSeq(s, 1, Len(s) - 1) \in Seq(S) /\ Len(SubSeq(s, 1, Len(s) - 1)) = Len(s) - 1
         /\ \A i \in 1..(Len(s) - 1) : SubSeq(s, 1, Len(s) - 1)[i] = s[i]
<1>1. Len(s) \in Nat \ {0} /\ \A i \in 1..(Len(s) - 1) : s[i] \in S
  BY SMT
<1> DEFINE n == Len(s) - 1
<1>2. n \in Nat /\ n = Len(s) - 1 /\ \A i \in 1..n : s[i] \in S
  BY SMT, <1>1
<1> HIDE DEF n
<1>3. /\ SubSeq(s, 1, n) \in Seq(S) /\ Len(SubSeq(s, 1, n)) = n
      /\ \A i \in 1..n : SubSeq(s, 1, n)[i] = s[i]
  BY SMT, <1>1, <1>2, PrefixFacts
<1>4. QED
  BY <1>2, <1>3

\* The source lists as many tenants as there are.
LEMMA SourceType == Source \in Seq(Tenant) /\ Len(Source) = Cardinality(Tenant)
  BY TenancyAssumption

LEMMA NoElevationSound == NoElevation \in Elevation /\ \A a : Accounted(NoElevation, a)
  BY DEF NoElevation, Elevation, Elevators, Actors, Tenants, Accounted

\* A frame that opens no visit.
LEMMA FrameSound ==
  ASSUME NEW k \in {"root", "elevated", "message"}, NEW x \in Tenants, NEW e \in Elevation, NEW a,
         Accounted(e, a), k # "elevated" => e = NoElevation
  PROVE  Frame(k, x, e, x) \in Scope /\ Sound(Frame(k, x, e, x), a)
<1>1. Frame(k, x, e, x) \in Scope
  BY SMT DEF Frame, Scope
<1>2. QED
  BY <1>1 DEF Frame, Sound

LEMMA VisitSound ==
  ASSUME NEW x \in Tenant, NEW r \in Seq(Tenant), NEW n \in Nat, NEW m \in Nat, NEW a,
         n + m + 1 + Len(r) = Cardinality(Tenant)
  PROVE  Visit(x, r, n, m) \in Scope /\ Sound(Visit(x, r, n, m), a)
<1> DEFINE f == Frame("visit", x, NoElevation, x)
           v == Visit(x, r, n, m)
<1>1. f \in Scope
  BY SMT, NoElevationSound DEF Frame, Scope, Tenants
<1>2. /\ f.kind = "visit" /\ f.tenant = x /\ f.cause = x /\ f.elevation = NoElevation
  BY DEF Frame
<1>3. v = [[[f EXCEPT !.rest = r] EXCEPT !.ok = n] EXCEPT !.failed = m]
  BY DEF Visit
<1> HIDE DEF f, v
<1>4. /\ v \in Scope /\ v.kind = "visit" /\ v.tenant = x /\ v.cause = x
      /\ v.elevation = NoElevation /\ v.rest = r /\ v.ok = n /\ v.failed = m
  BY <1>1, <1>2, <1>3 DEF Scope
<1>5. Sound(v, a)
  BY <1>4, NoElevationSound DEF Sound
<1>6. QED
  BY <1>4, <1>5 DEF v

\* Scopes that answer for themselves before the audit trail a.
Scoped(s, a) == s \in Seq(Scope) /\ \A i \in 1..Len(s) : Sound(s[i], a)

LEMMA ScopedAppend ==
  ASSUME NEW s, NEW a, NEW f \in Scope, Scoped(s, a), Sound(f, a)
  PROVE  Scoped(Append(s, f), a)
<1>1. /\ s \in Seq(Scope) /\ Append(s, f) \in Seq(Scope) /\ Len(s) \in Nat
      /\ Len(Append(s, f)) = Len(s) + 1
      /\ \A i \in 1..Len(s) : Append(s, f)[i] = s[i]
      /\ Append(s, f)[Len(s) + 1] = f
  BY SMT, AppendFacts DEF Scoped
<1>2. \A i \in 1..(Len(s) + 1) : i \in 1..Len(s) \/ i = Len(s) + 1
  BY SMT, <1>1
<1>3. \A i \in 1..(Len(s) + 1) : Sound(Append(s, f)[i], a)
  BY <1>1, <1>2 DEF Scoped
<1>4. QED
  BY <1>1, <1>3 DEF Scoped

LEMMA ScopedFront ==
  ASSUME NEW s, NEW a, Scoped(s, a), s # <<>>
  PROVE  Scoped(SubSeq(s, 1, Len(s) - 1), a)
<1>1. s \in Seq(Scope) /\ Len(s) \in Nat /\ Len(s) # 0
  BY SMT DEF Scoped
<1>2. /\ SubSeq(s, 1, Len(s) - 1) \in Seq(Scope) /\ Len(SubSeq(s, 1, Len(s) - 1)) = Len(s) - 1
      /\ \A i \in 1..(Len(s) - 1) : SubSeq(s, 1, Len(s) - 1)[i] = s[i]
  BY <1>1, FrontType
<1>3. \A i \in 1..(Len(s) - 1) : i \in 1..Len(s)
  BY SMT, <1>1
<1>4. QED
  BY <1>2, <1>3 DEF Scoped

LEMMA ScopedEmpty == \A a : Scoped(<<>>, a)
  BY SMT DEF Scoped

LEMMA TopScope ==
  ASSUME TenancyType, ScopeInv, NEW t \in Task, Running(t)
  PROVE  Top(t) \in Scope /\ Sound(Top(t), audit) /\ Len(stack[t]) \in 1..Len(stack[t])
<1>1. stack[t] \in Seq(Scope) /\ Len(stack[t]) \in 1..Len(stack[t])
  BY SMT DEF TenancyType, Running
<1>2. QED
  BY <1>1, EntryType DEF Top, ScopeInv

\* The audit trail only grows.
LEMMA Kept ==
  ASSUME TenancyType, ScopeInv, audit \subseteq audit', NEW t \in Task
  PROVE  Scoped(stack[t], audit')
<1>1. stack[t] \in Seq(Scope)
  BY DEF TenancyType
<1>2. \A i \in 1..Len(stack[t]) : Sound(stack[t][i], audit')
  BY DEF ScopeInv, Sound, Accounted
<1>3. QED
  BY <1>1, <1>2 DEF Scoped

-----------------------------------------------------------------------------
(* What a step does to each part of the state *)

StackOK ==
  \/ UNCHANGED stack
  \/ \E t \in Task : \E s : Scoped(s, audit') /\ stack' = [stack EXCEPT ![t] = s]
FutureOK == future' \in [Task -> Future] /\ \A t \in Task : Accounted(future'[t].elevation, audit')
QueueOK ==
  /\ queue' \in Seq(Message)
  /\ \A i \in 1..Len(queue') : queue'[i].header \in {queue'[i].cause, "malformed"}
StepOK == audit \subseteq audit' /\ StackOK /\ FutureOK /\ QueueOK

LEMMA StepPreserves ==
  ASSUME TenancyType, ScopeInv, StepOK
  PROVE  TenancyType' /\ ScopeInv'
<1>1. stack \in [Task -> Seq(Scope)] /\ audit \subseteq audit' /\ FutureOK /\ QueueOK /\ StackOK
  BY DEF TenancyType, StepOK
<1>2. \A u \in Task : Scoped(stack[u], audit')
  BY <1>1, Kept
<1>3. stack' \in [Task -> Seq(Scope)] /\ \A u \in Task : Scoped(stack'[u], audit')
  <2>1. CASE UNCHANGED stack
    BY <1>1, <1>2, <2>1
  <2>2. ASSUME NEW t \in Task, NEW s, Scoped(s, audit'), stack' = [stack EXCEPT ![t] = s]
        PROVE  stack' \in [Task -> Seq(Scope)] /\ \A u \in Task : Scoped(stack'[u], audit')
    <3>1. s \in Seq(Scope)
      BY <2>2 DEF Scoped
    <3>2. stack' \in [Task -> Seq(Scope)]
      BY <1>1, <2>2, <3>1
    <3>3. \A u \in Task : stack'[u] = IF u = t THEN s ELSE stack[u]
      BY <1>1, <2>2
    <3>4. QED
      BY <1>2, <2>2, <3>2, <3>3
  <2>3. QED
    BY <1>1, <2>1, <2>2 DEF StackOK
<1>4. TenancyType'
  BY <1>1, <1>3 DEF TenancyType, FutureOK, QueueOK
<1>5. ScopeInv'
  BY <1>1, <1>3 DEF ScopeInv, FutureOK, QueueOK, Scoped
<1>6. QED
  BY <1>4, <1>5

LEMMA FutureSame ==
  ASSUME TenancyType, ScopeInv, UNCHANGED future, audit \subseteq audit'
  PROVE  FutureOK
  BY DEF TenancyType, ScopeInv, FutureOK, Accounted

LEMMA QueueSame ==
  ASSUME TenancyType, ScopeInv, UNCHANGED queue
  PROVE  QueueOK
  BY DEF TenancyType, ScopeInv, QueueOK

LEMMA NoFutureOK == NoFuture \in Future /\ \A a : Accounted(NoFuture.elevation, a)
<1>1. NoFuture.elevation = NoElevation
  BY DEF NoFuture
<1>2. QED
  BY <1>1, NoElevationSound DEF NoFuture, Future

\* The future of t is dropped.
LEMMA FutureDropped ==
  ASSUME TenancyType, ScopeInv, NEW t \in Task, audit \subseteq audit',
         future' = [future EXCEPT ![t] = NoFuture]
  PROVE  FutureOK
<1>1. future \in [Task -> Future]
  BY DEF TenancyType
<1>2. future' \in [Task -> Future]
  BY <1>1, NoFutureOK
<1>3. \A u \in Task : future'[u] = IF u = t THEN NoFuture ELSE future[u]
  BY <1>1
<1>4. \A u \in Task : Accounted(future[u].elevation, audit')
  BY DEF ScopeInv, Accounted
<1>5. QED
  BY <1>2, <1>3, <1>4, NoFutureOK DEF FutureOK

\* The future of t goes with the task u it spawns.
LEMMA FutureMoved ==
  ASSUME TenancyType, ScopeInv, NEW t \in Task, NEW u \in Task, UNCHANGED audit,
         future' = [future EXCEPT ![u] = future[t], ![t] = NoFuture]
  PROVE  FutureOK
<1>1. future \in [Task -> Future]
  BY DEF TenancyType
<1>2. future' \in [Task -> Future]
  BY <1>1, NoFutureOK
<1>3. \A x \in Task : future'[x] \in {NoFuture, future[t], future[x]}
  BY <1>1
<1>4. \A x \in Task : Accounted(future[x].elevation, audit')
  BY DEF ScopeInv
<1>5. QED
  BY <1>2, <1>3, <1>4, NoFutureOK DEF FutureOK

\* A scope is opened.
LEMMA Pushed ==
  ASSUME TenancyType, ScopeInv, NEW t \in Task, audit \subseteq audit', NEW f \in Scope,
         Sound(f, audit'), Push(t, f)
  PROVE  StackOK
<1>1. Scoped(Append(stack[t], f), audit')
  BY Kept, ScopedAppend
<1>2. QED
  BY <1>1 DEF StackOK, Push

-----------------------------------------------------------------------------
(* The actions *)

LEMMA RequestOK ==
  ASSUME TenancyType, ScopeInv, NEW t \in Task, NEW x \in Tenant \cup {NoTenant}, Request(t, x)
  PROVE  StepOK
<1>1. /\ Push(t, Frame("root", x, NoElevation, x)) /\ UNCHANGED <<future, audit, queue>>
      /\ x \in Tenants
  BY DEF Request, Tenants
<1>2. Frame("root", x, NoElevation, x) \in Scope /\ Sound(Frame("root", x, NoElevation, x), audit')
  BY <1>1, FrameSound, NoElevationSound
<1>3. audit \subseteq audit'
  BY <1>1
<1>4. QED
  BY <1>1, <1>2, <1>3, Pushed, FutureSame, QueueSame DEF StepOK

LEMMA SpawnOK ==
  ASSUME TenancyType, ScopeInv, NEW t \in Task, NEW u \in Task,
         SpawnScoped(t, u) \/ SpawnPlain(t, u)
  PROVE  StepOK
<1>1. /\ Running(t) /\ UNCHANGED <<audit, queue>>
      /\ future' = [future EXCEPT ![u] = future[t], ![t] = NoFuture]
  BY DEF SpawnScoped, SpawnPlain
<1>2. Top(t).tenant \in Tenants /\ Top(t).cause = Top(t).tenant /\ NoTenant \in Tenants
  BY <1>1, TopScope DEF Sound, Scope, Tenants
<1>3. \E x \in Tenants : Push(u, Frame("root", x, NoElevation, x))
  BY <1>2 DEF SpawnScoped, SpawnPlain, Spawned
<1>4. PICK x \in Tenants : Push(u, Frame("root", x, NoElevation, x))
  BY <1>3
<1>5. Frame("root", x, NoElevation, x) \in Scope /\ Sound(Frame("root", x, NoElevation, x), audit')
  BY FrameSound, NoElevationSound
<1>6. audit \subseteq audit'
  BY <1>1
<1>7. QED
  BY <1>1, <1>4, <1>5, <1>6, Pushed, FutureMoved, QueueSame DEF StepOK

LEMMA AbortOK ==
  ASSUME TenancyType, ScopeInv, NEW t \in Task, Abort(t)
  PROVE  StepOK
<1>1. /\ stack' = [stack EXCEPT ![t] = <<>>] /\ future' = [future EXCEPT ![t] = NoFuture]
      /\ UNCHANGED <<audit, queue>> /\ audit \subseteq audit'
  BY DEF Abort
<1>2. StackOK
  BY <1>1, ScopedEmpty DEF StackOK
<1>3. QED
  BY <1>1, <1>2, FutureDropped, QueueSame DEF StepOK

LEMMA AdmitOK ==
  ASSUME TenancyType, ScopeInv, NEW t \in Task, NEW l \in Elevators, NEW p \in Purpose,
         NEW n \in Actors, NEW k \in {"CrossTenant", "Impersonation"}, NEW x \in Tenants,
         Admit(t, l, p, n, k, x)
  PROVE  StepOK
<1> DEFINE e == [issuer |-> l, purpose |-> p, actor |-> n, kind |-> k, tenant |-> x]
           entry == IF Decision(l, p, n, k) THEN [granted |-> TRUE, elevation |-> e] ELSE Refused
           new == [held |-> TRUE, granted |-> entry.granted, elevation |-> entry.elevation]
<1>1. /\ audit' = IF l = "app" THEN audit \cup {entry} ELSE audit
      /\ future' = [future EXCEPT ![t] = new] /\ UNCHANGED <<stack, queue>>
  BY DEF Admit, Record
<1>2. e \in Elevation /\ e.kind = k /\ e.issuer = l /\ e.purpose = p
  BY DEF Elevation
<1>3. k = "CrossTenant" /\ l = "app" /\ Decision(l, p, n, k) => p \in Allowed
  BY DEF Decision, Authorize
<1>4. /\ Decision(l, p, n, k) => entry = [granted |-> TRUE, elevation |-> e]
      /\ ~Decision(l, p, n, k) => entry = Refused
  OBVIOUS
<1> HIDE DEF e, entry
<1>5. audit \subseteq audit'
  BY <1>1
<1>6. /\ entry.granted \in BOOLEAN /\ entry.elevation \in Elevation
      /\ Accounted(entry.elevation, audit')
  <2>1. CASE Decision(l, p, n, k)
    <3>1. entry = [granted |-> TRUE, elevation |-> e]
      BY <1>4, <2>1
    <3>2. entry.granted = TRUE /\ entry.elevation = e
      BY <3>1
    <3>3. Accounted(e, audit')
      BY <1>1, <1>2, <1>3, <2>1, <3>1 DEF Accounted, Issued
    <3>4. QED
      BY <1>2, <3>2, <3>3
  <2>2. CASE ~Decision(l, p, n, k)
    <3>1. entry = Refused
      BY <1>4, <2>2
    <3>2. entry.granted = FALSE /\ entry.elevation = NoElevation
      BY <3>1 DEF Refused
    <3>3. QED
      BY <3>2, NoElevationSound
  <2>3. QED
    BY <2>1, <2>2
<1>7. new \in Future /\ new.elevation = entry.elevation
  BY <1>6 DEF Future
<1> HIDE DEF new
<1>8. FutureOK
  <2>1. future \in [Task -> Future]
    BY DEF TenancyType
  <2>2. future' \in [Task -> Future]
    BY <1>1, <1>7, <2>1
  <2>3. \A u \in Task : future'[u] = IF u = t THEN new ELSE future[u]
    BY <1>1, <2>1
  <2>4. \A u \in Task : Accounted(future[u].elevation, audit')
    BY <1>5 DEF ScopeInv, Accounted
  <2>5. QED
    BY <1>6, <1>7, <2>2, <2>3, <2>4 DEF FutureOK
<1>9. StackOK
  BY <1>1 DEF StackOK
<1>10. QueueOK
  BY <1>1, QueueSame
<1>11. QED
  BY <1>5, <1>8, <1>9, <1>10 DEF StepOK

LEMMA AwaitOK ==
  ASSUME TenancyType, ScopeInv, NEW t \in Task, Await(t)
  PROVE  StepOK
<1> DEFINE e == future[t].elevation
           x == IF e.kind = "Impersonation" THEN e.tenant ELSE Top(t).tenant
<1>1. /\ future' = [future EXCEPT ![t] = NoFuture] /\ UNCHANGED <<audit, queue>>
      /\ Running(t) /\ audit \subseteq audit'
  BY DEF Await, Free
<1>2. e \in Elevation /\ e.tenant \in Tenants
  BY DEF TenancyType, Future, Elevation
<1>3. Top(t).tenant \in Tenants /\ Top(t).cause = Top(t).tenant
  BY <1>1, TopScope DEF Scope, Sound
<1>4. UNCHANGED stack \/ Push(t, Frame("elevated", x, e, x))
  BY <1>3 DEF Await
<1>5. x \in Tenants /\ Accounted(e, audit')
  BY <1>1, <1>2, <1>3 DEF ScopeInv
<1> HIDE DEF e, x
<1>6. Frame("elevated", x, e, x) \in Scope /\ Sound(Frame("elevated", x, e, x), audit')
  BY <1>2, <1>5, FrameSound
<1>7. StackOK
  BY <1>1, <1>4, <1>6, Pushed DEF StackOK
<1>8. QED
  BY <1>1, <1>7, FutureDropped, QueueSame DEF StepOK

LEMMA ProduceOK ==
  ASSUME TenancyType, ScopeInv, NEW t \in Task, Produce(t)
  PROVE  StepOK
<1> DEFINE m == [header |-> Top(t).tenant, cause |-> Top(t).cause]
<1>1. /\ queue' = Append(queue, m) /\ UNCHANGED <<stack, future, audit>>
      /\ Running(t) /\ audit \subseteq audit'
  BY DEF Produce, Header
<1>2. Top(t).tenant \in Tenants /\ Top(t).cause = Top(t).tenant
  BY <1>1, TopScope DEF Scope, Sound
<1>3. m \in Message /\ m.header = m.cause
  BY <1>2 DEF Message
<1> HIDE DEF m
<1>4. /\ queue \in Seq(Message) /\ queue' \in Seq(Message) /\ Len(queue) \in Nat
      /\ Len(queue') = Len(queue) + 1
      /\ \A i \in 1..Len(queue) : queue'[i] = queue[i]
      /\ queue'[Len(queue) + 1] = m
  BY SMT, <1>1, <1>3, AppendFacts DEF TenancyType
<1>5. \A i \in 1..Len(queue') : i \in 1..Len(queue) \/ i = Len(queue) + 1
  BY SMT, <1>4
<1>6. QueueOK
  BY <1>3, <1>4, <1>5 DEF QueueOK, ScopeInv
<1>7. QED
  BY <1>1, <1>6, FutureSame DEF StepOK, StackOK

\* What is left of the queue without its head.
LEMMA QueueTail ==
  ASSUME TenancyType, ScopeInv, queue # <<>>
  PROVE  /\ Head(queue) \in Message /\ Head(queue).header \in {Head(queue).cause, "malformed"}
         /\ Tail(queue) \in Seq(Message) /\ Len(Tail(queue)) = Len(queue) - 1
         /\ \A i \in 1..Len(Tail(queue)) :
              Tail(queue)[i].header \in {Tail(queue)[i].cause, "malformed"}
<1>1. queue \in Seq(Message) /\ Len(queue) \in Nat /\ 1 \in 1..Len(queue) /\ Head(queue) = queue[1]
  BY SMT DEF TenancyType
<1>2. /\ Tail(queue) \in Seq(Message) /\ Len(Tail(queue)) = Len(queue) - 1
      /\ \A i \in 1..Len(Tail(queue)) : Tail(queue)[i] = queue[i + 1]
  BY <1>1, TailFacts
<1>3. \A i \in 1..Len(Tail(queue)) : i + 1 \in 1..Len(queue)
  BY SMT, <1>1, <1>2
<1>4. queue[1] \in Message
  BY <1>1, EntryType
<1>5. QED
  BY <1>1, <1>2, <1>3, <1>4 DEF ScopeInv

LEMMA DamageOK ==
  ASSUME TenancyType, ScopeInv, Damage
  PROVE  StepOK
<1> DEFINE m == [Head(queue) EXCEPT !.header = "malformed"]
<1>1. /\ queue # <<>> /\ queue' = <<m>> \o Tail(queue) /\ UNCHANGED <<stack, future, audit>>
      /\ audit \subseteq audit'
  BY DEF Damage
<1>2. m \in Message /\ m.header = "malformed"
  BY <1>1, QueueTail DEF Message
<1> HIDE DEF m
<1>3. /\ <<m>> \in Seq(Message) /\ Len(<<m>>) = 1 /\ <<m>>[1] = m
  BY SMT, <1>2
<1>4. /\ Tail(queue) \in Seq(Message) /\ Len(Tail(queue)) \in Nat
  BY SMT, <1>1, QueueTail
<1> DEFINE r == Tail(queue)
<1>5. /\ queue' \in Seq(Message) /\ Len(queue') = 1 + Len(r)
      /\ \A i \in 1..(1 + Len(r)) : queue'[i] = IF i <= 1 THEN m ELSE r[i - 1]
  BY SMT, <1>1, <1>3, <1>4, InFrontFacts
<1> HIDE DEF r
<1>6. \A i \in 1..(1 + Len(r)) : (i <= 1 /\ i = 1) \/ (~(i <= 1) /\ i - 1 \in 1..Len(r))
  BY SMT, <1>4 DEF r
<1>7. \A i \in 1..Len(r) : r[i].header \in {r[i].cause, "malformed"}
  BY <1>1, QueueTail DEF r
<1>8. QueueOK
  BY <1>2, <1>3, <1>5, <1>6, <1>7 DEF QueueOK
<1>9. QED
  BY <1>1, <1>8, FutureSame DEF StepOK, StackOK

LEMMA ConsumeOK ==
  ASSUME TenancyType, ScopeInv, NEW t \in Task, Consume(t)
  PROVE  StepOK
<1> DEFINE m == Head(queue)
<1>1. /\ queue # <<>> /\ queue' = Tail(queue) /\ UNCHANGED <<future, audit>>
      /\ audit \subseteq audit'
      /\ \/ UNCHANGED stack
         \/ m.header # "malformed" /\ Push(t, Frame("message", m.header, NoElevation, m.cause))
  BY DEF Consume, TenantOf, MessageElevation
<1>2. QueueOK
  BY <1>1, QueueTail DEF QueueOK
<1>3. m.header \in {m.cause, "malformed"} /\ m.cause \in Tenants
  BY <1>1, QueueTail DEF Message
<1> HIDE DEF m
<1>4. UNCHANGED stack \/ Push(t, Frame("message", m.cause, NoElevation, m.cause))
  BY <1>1, <1>3
<1>5. /\ Frame("message", m.cause, NoElevation, m.cause) \in Scope
      /\ Sound(Frame("message", m.cause, NoElevation, m.cause), audit')
  BY <1>3, FrameSound, NoElevationSound
<1>6. StackOK
  BY <1>1, <1>4, <1>5, Pushed DEF StackOK
<1>7. QED
  BY <1>1, <1>2, <1>6, FutureSame DEF StepOK

LEMMA StartPassOK ==
  ASSUME TenancyType, ScopeInv, NEW t \in Task, StartPass(t)
  PROVE  /\ StepOK /\ UNCHANGED <<audit, crossed>>
         /\ \A q \in passes' : q.listed => q.ok + q.failed = Cardinality(Tenant)
<1>1. /\ UNCHANGED <<future, audit, queue, crossed>> /\ audit \subseteq audit'
      /\ \A q \in passes : q = NotListed
      /\ \/ passes' = {NotListed} /\ UNCHANGED stack
         \/ Source = <<>> /\ passes' = passes \cup {Report(0, 0)} /\ UNCHANGED stack
         \/ /\ Source # <<>> /\ UNCHANGED passes
            /\ Push(t, Visit(Head(Source), Tail(Source), 0, 0))
  BY DEF StartPass
<1>5. ~NotListed.listed
  BY DEF NotListed
<1>6. CASE passes' = {NotListed} /\ UNCHANGED stack
  <2>1. \A q \in passes' : ~q.listed
    BY <1>5, <1>6
  <2>2. QED
    BY <1>1, <1>6, <2>1, FutureSame, QueueSame DEF StepOK, StackOK
<1>2. CASE Source = <<>> /\ passes' = passes \cup {Report(0, 0)} /\ UNCHANGED stack
  <2>1. Cardinality(Tenant) = 0 /\ Report(0, 0).ok = 0 /\ Report(0, 0).failed = 0
    BY <1>2, SourceType DEF Report
  <2>2. Report(0, 0).ok + Report(0, 0).failed = Cardinality(Tenant)
    BY SMT, <2>1
  <2>4. \A q \in passes' : q.listed => q.ok + q.failed = Cardinality(Tenant)
    BY <1>1, <1>2, <1>5, <2>2
  <2>3. QED
    BY <1>1, <1>2, <2>4, FutureSame, QueueSame DEF StepOK, StackOK
<1>3. CASE /\ Source # <<>> /\ UNCHANGED passes
           /\ Push(t, Visit(Head(Source), Tail(Source), 0, 0))
  <2>1. /\ Head(Source) \in Tenant /\ Tail(Source) \in Seq(Tenant)
        /\ Len(Tail(Source)) = Len(Source) - 1 /\ Len(Source) \in Nat
    BY <1>3, SourceType, TailFacts
  <2>2. 0 + 0 + 1 + Len(Tail(Source)) = Cardinality(Tenant) /\ 0 \in Nat
    BY SMT, <2>1, SourceType
  <2>3. /\ Visit(Head(Source), Tail(Source), 0, 0) \in Scope
        /\ Sound(Visit(Head(Source), Tail(Source), 0, 0), audit')
    BY <2>1, <2>2, VisitSound
  <2>4. StackOK
    BY <1>1, <1>3, <2>3, Pushed
  <2>6. \A q \in passes' : ~q.listed
    BY <1>1, <1>3, <1>5
  <2>5. QED
    BY <1>1, <1>3, <2>4, <2>6, FutureSame, QueueSame DEF StepOK
<1>4. QED
  BY <1>1, <1>2, <1>3, <1>6

LEMMA FinishOK ==
  ASSUME TenancyType, ScopeInv, PassComplete, NEW t \in Task, NEW ok \in BOOLEAN, Finish(t, ok)
  PROVE  StepOK /\ UNCHANGED <<audit, crossed>> /\ PassComplete'
<1> DEFINE f == Top(t)
           n == f.ok + (IF ok THEN 1 ELSE 0)
           m == f.failed + (IF ok THEN 0 ELSE 1)
           outer == SubSeq(stack[t], 1, Len(stack[t]) - 1)
           visit == Visit(Head(f.rest), Tail(f.rest), n, m)
           more == f.kind = "visit" /\ f.rest # <<>>
<1>1. /\ UNCHANGED <<audit, queue, crossed>> /\ audit \subseteq audit' /\ Running(t)
      /\ stack' = [stack EXCEPT ![t] = IF more THEN Append(outer, visit) ELSE outer]
      /\ passes' = IF f.kind = "visit" /\ ~more THEN passes \cup {Report(n, m)}
                   ELSE passes
      /\ future' = [future EXCEPT ![t] = NoFuture] \/ UNCHANGED future
  BY DEF Finish, AfterVisit
<1>2. f \in Scope /\ Sound(f, audit)
  BY <1>1, TopScope
<1>3. /\ f.rest \in Seq(Tenant) /\ f.ok \in Nat /\ f.failed \in Nat
      /\ f.kind = "visit" => f.ok + f.failed + 1 + Len(f.rest) = Cardinality(Tenant)
  BY <1>2 DEF Scope, Sound
<1>4. /\ f.ok \in Nat /\ f.failed \in Nat /\ n \in Nat /\ m \in Nat
      /\ n + m = f.ok + f.failed + 1
  BY SMT, <1>3
<1>5. more => visit \in Scope /\ Sound(visit, audit')
  <2> SUFFICES ASSUME more PROVE visit \in Scope /\ Sound(visit, audit')
    OBVIOUS
  <2>1. /\ Head(f.rest) \in Tenant /\ Tail(f.rest) \in Seq(Tenant)
        /\ Len(Tail(f.rest)) = Len(f.rest) - 1 /\ Len(f.rest) \in Nat
    BY <1>3, TailFacts
  <2>2. f.ok + f.failed + 1 + Len(f.rest) = Cardinality(Tenant)
    BY <1>3
  <2> HIDE DEF n, m, f
  <2>3. n + m + 1 + (Len(f.rest) - 1) = Cardinality(Tenant)
    <3> DEFINE k == Len(f.rest)
               c == Cardinality(Tenant)
               a == f.ok
               b == f.failed
    <3>1. /\ a \in Nat /\ b \in Nat /\ n \in Nat /\ m \in Nat /\ k \in Nat
          /\ n + m = a + b + 1 /\ a + b + 1 + k = c
      BY <1>4, <2>1, <2>2
    <3> HIDE DEF k, c, a, b
    <3>2. n + m + 1 + (k - 1) = c
      BY SMT, <3>1
    <3>3. QED
      BY <3>2 DEF k, c
  <2>4. n + m + 1 + Len(Tail(f.rest)) = Cardinality(Tenant)
    BY <2>1, <2>3
  <2>5. QED
    BY <1>4, <2>1, <2>4, VisitSound
<1>6. f.kind = "visit" /\ ~more => n + m = Cardinality(Tenant)
  <2> SUFFICES ASSUME f.kind = "visit", ~more PROVE n + m = Cardinality(Tenant)
    OBVIOUS
  <2>1. Len(f.rest) = 0
    BY SMT, <1>3
  <2>2. f.ok + f.failed + 1 + Len(f.rest) = Cardinality(Tenant) /\ Len(f.rest) \in Nat
    BY <1>3, <2>1
  <2> HIDE DEF n, m, f
  <2>3. QED
    BY SMT, <1>4, <2>1, <2>2
<1> HIDE DEF n, m, f, visit, more
<1>7. Scoped(outer, audit')
  <2>1. Scoped(stack[t], audit')
    BY <1>1, Kept
  <2>2. QED
    BY <1>1, <2>1, ScopedFront DEF Running
<1> HIDE DEF outer
<1>8. StackOK
  <2>1. Scoped(IF more THEN Append(outer, visit) ELSE outer, audit')
    BY <1>5, <1>7, ScopedAppend
  <2>2. QED
    BY <1>1, <2>1 DEF StackOK
<1>9. PassComplete'
  <2>1. Report(n, m).ok = n /\ Report(n, m).failed = m
    BY DEF Report
  <2>2. QED
    BY <1>1, <1>6, <2>1 DEF PassComplete
<1>10. QED
  BY <1>1, <1>8, <1>9, FutureDropped, FutureSame, QueueSame DEF StepOK

\* A touch beyond the tenant in scope is made under an elevation of the
\* innermost scope, which was granted and is on record.
LEMMA TouchOK ==
  ASSUME TenancyType, ScopeInv, CrossingOnRecord, NEW t \in Task, NEW x \in Tenant, Touch(t, x)
  PROVE  StepOK /\ UNCHANGED <<audit, passes>> /\ CrossingOnRecord'
<1> DEFINE n == Len(stack[t])
           e == Top(t).elevation
           a == \E i \in DOMAIN stack[t] : stack[t][i].kind = "elevated" /\
                  \A j \in i..n : stack[t][j].kind = "elevated"
<1>1. /\ UNCHANGED <<stack, future, audit, queue, passes>> /\ audit \subseteq audit' /\ Running(t)
      /\ e.kind = "CrossTenant" /\ Issued(e)
      /\ crossed' = crossed \cup {[elevation |-> e, asked |-> a]}
  BY DEF Touch, Lifted
<1>2. Sound(Top(t), audit) /\ n \in 1..n
  BY <1>1, TopScope
<1>3. e.purpose \in Allowed /\ [granted |-> TRUE, elevation |-> e] \in audit'
  BY <1>1, <1>2 DEF Sound, Accounted
<1>4. Top(t).kind = "elevated"
  BY SMT, <1>1, <1>2 DEF Sound, NoElevation
<1>5. a
  <2>1. DOMAIN stack[t] = 1..n /\ \A j \in n..n : j = n
    <3>1. stack[t] \in Seq(Scope)
      BY DEF TenancyType
    <3>2. n \in Int
      BY SMT, <1>2
    <3> HIDE DEF n
    <3>3. \A j \in n..n : j = n
      BY SMT, <3>2
    <3>4. QED
      BY <3>1, <3>3, SequenceDomain DEF n
  <2>2. stack[t][n].kind = "elevated"
    BY <1>4 DEF Top
  <2>3. QED
    BY <1>2, <2>1, <2>2
<1> HIDE DEF e, a
<1>6. [elevation |-> e, asked |-> a].elevation = e /\ [elevation |-> e, asked |-> a].asked = a
  OBVIOUS
<1>7. CrossingOnRecord'
  BY <1>1, <1>3, <1>5, <1>6 DEF CrossingOnRecord
<1>8. QED
  BY <1>1, <1>7, FutureSame, QueueSame DEF StepOK, StackOK

-----------------------------------------------------------------------------
(* The specification *)

TenancyInv == TenancyType /\ ScopeInv /\ CrossingOnRecord /\ PassComplete

\* The steps that neither end a pass nor touch a row.
LEMMA OtherStep ==
  ASSUME TenancyInv, StepOK, UNCHANGED <<passes, crossed>>
  PROVE  TenancyInv'
<1>1. TenancyType' /\ ScopeInv'
  BY StepPreserves DEF TenancyInv
<1>2. CrossingOnRecord' /\ PassComplete'
  BY DEF TenancyInv, StepOK, CrossingOnRecord, PassComplete
<1>3. QED
  BY <1>1, <1>2 DEF TenancyInv

LEMMA NextInv ==
  ASSUME TenancyInv, [Next]_vars
  PROVE  TenancyInv'
<1>1. TenancyType /\ ScopeInv /\ CrossingOnRecord /\ PassComplete
  BY DEF TenancyInv
<1>2. CASE UNCHANGED vars
  BY <1>1, <1>2 DEF TenancyInv, TenancyType, ScopeInv, CrossingOnRecord, PassComplete, vars
<1>3. CASE Damage
  <2>1. StepOK
    BY <1>1, <1>3, DamageOK
  <2>2. UNCHANGED <<passes, crossed>>
    BY <1>3 DEF Damage
  <2>3. QED
    BY <2>1, <2>2, OtherStep
<1>4. ASSUME NEW t \in Task, NEW x \in Tenant \cup {NoTenant}, Request(t, x)
      PROVE  TenancyInv'
  <2>1. UNCHANGED <<passes, crossed>>
    BY <1>4 DEF Request
  <2>2. QED
    BY <1>1, <1>4, <2>1, RequestOK, OtherStep
<1>5. ASSUME NEW t \in Task, NEW u \in Task, SpawnScoped(t, u) \/ SpawnPlain(t, u)
      PROVE  TenancyInv'
  <2>1. UNCHANGED <<passes, crossed>>
    BY <1>5 DEF SpawnScoped, SpawnPlain
  <2>2. QED
    BY <1>1, <1>5, <2>1, SpawnOK, OtherStep
<1>6. ASSUME NEW t \in Task, Ask(t)
      PROVE  TenancyInv'
  <2>1. PICK l \in Elevators, p \in Purpose, n \in Actors :
          \/ Admit(t, l, p, n, "CrossTenant", NoTenant)
          \/ \E x \in Tenant : Admit(t, l, p, n, "Impersonation", x)
    BY <1>6 DEF Ask
  <2>2. PICK k \in {"CrossTenant", "Impersonation"}, x \in Tenants : Admit(t, l, p, n, k, x)
    BY <2>1 DEF Tenants
  <2>3. StepOK
    BY <1>1, <2>2, AdmitOK
  <2>4. UNCHANGED <<passes, crossed>>
    BY <2>2 DEF Admit
  <2>5. QED
    BY <2>3, <2>4, OtherStep
<1>7. ASSUME NEW t \in Task, Abort(t) \/ Await(t) \/ Produce(t) \/ Consume(t)
      PROVE  TenancyInv'
  <2>1. UNCHANGED <<passes, crossed>>
    BY <1>7 DEF Abort, Await, Produce, Consume
  <2>2. StepOK
    BY <1>1, <1>7, AbortOK, AwaitOK, ProduceOK, ConsumeOK
  <2>3. QED
    BY <2>1, <2>2, OtherStep
<1>8. ASSUME NEW t \in Task, StartPass(t)
      PROVE  TenancyInv'
  <2>1. /\ StepOK /\ UNCHANGED <<audit, crossed>>
        /\ \A q \in passes' : q.listed => q.ok + q.failed = Cardinality(Tenant)
    BY <1>1, <1>8, StartPassOK
  <2>2. CrossingOnRecord' /\ PassComplete'
    BY <1>1, <2>1 DEF CrossingOnRecord, PassComplete
  <2>3. QED
    BY <1>1, <2>1, <2>2, StepPreserves DEF TenancyInv
<1>9. ASSUME NEW t \in Task, NEW ok \in BOOLEAN, Finish(t, ok)
      PROVE  TenancyInv'
  <2>1. StepOK /\ UNCHANGED <<audit, crossed>> /\ PassComplete'
    BY <1>1, <1>9, FinishOK
  <2>2. CrossingOnRecord'
    BY <1>1, <2>1 DEF CrossingOnRecord
  <2>3. QED
    BY <1>1, <2>1, <2>2, StepPreserves DEF TenancyInv
<1>10. ASSUME NEW t \in Task, NEW x \in Tenant, Touch(t, x)
       PROVE  TenancyInv'
  <2>1. StepOK /\ UNCHANGED <<audit, passes>> /\ CrossingOnRecord'
    BY <1>1, <1>10, TouchOK
  <2>2. PassComplete'
    BY <1>1, <2>1 DEF PassComplete
  <2>3. QED
    BY <1>1, <2>1, <2>2, StepPreserves DEF TenancyInv
<1>11. QED
  BY <1>2, <1>3, <1>4, <1>5, <1>6, <1>7, <1>8, <1>9, <1>10 DEF Next

LEMMA InitInv == Init => TenancyInv
<1> SUFFICES ASSUME Init PROVE TenancyInv
  OBVIOUS
<1>1. \A t \in Task : stack[t] = <<>> /\ future[t] = NoFuture
  BY DEF Init
<1>2. TenancyType
  BY SMT, NoFutureOK DEF Init, TenancyType
<1>3. Len(<<>>) = 0 /\ 1..0 = {}
  BY SMT
<1>4. ScopeInv
  BY <1>1, <1>3, NoFutureOK DEF Init, ScopeInv
<1>5. CrossingOnRecord /\ PassComplete
  BY DEF Init, CrossingOnRecord, PassComplete
<1>6. QED
  BY <1>2, <1>4, <1>5 DEF TenancyInv

\* Whatever the policy, and whoever made or awaited the future of an elevation,
\* rows of another tenant are touched only under an elevation that the policy
\* granted, that the audit trail names and that the innermost unit of work
\* itself asked for.
THEOREM CrossingsAreOnRecord == Spec => []CrossingOnRecord
<1>1. TenancyInv => CrossingOnRecord
  BY DEF TenancyInv
<1>2. QED
  BY <1>1, InitInv, NextInv, PTL DEF Spec

\* Work stays in the tenant it was set off for, through any chain of messages,
\* spawns, visits and impersonations.
THEOREM TenantsFollowCauses == Spec => []TenantFollowsCause
<1>1. TenancyInv => TenantFollowsCause
  <2> SUFFICES ASSUME TenancyInv, NEW t \in Task, NEW i \in DOMAIN stack[t]
               PROVE  stack[t][i].tenant = stack[t][i].cause
    BY DEF TenantFollowsCause
  <2>1. stack[t] \in Seq(Scope)
    BY DEF TenancyInv, TenancyType
  <2>2. i \in 1..Len(stack[t])
    BY <2>1, SequenceDomain
  <2>3. QED
    BY <2>2 DEF TenancyInv, ScopeInv, Sound
<1>2. QED
  BY <1>1, InitInv, NextInv, PTL DEF Spec

\* for_each_tenant reports on as many visits as the source has tenants,
\* whichever of them failed, also for a source that has none.
THEOREM PassesAreComplete == Spec => []PassComplete
<1>1. TenancyInv => PassComplete
  BY DEF TenancyInv
<1>2. QED
  BY <1>1, InitInv, NextInv, PTL DEF Spec

-----------------------------------------------------------------------------
(* A WebSocket connection *)

LEMMA Least ==
  ASSUME NEW T, T \subseteq Nat, T # {}
  PROVE  \E n \in T : \A k \in T : n <= k
<1> DEFINE R == OpToRel(<, Nat)
<1>1. IsWellFoundedOn(R, Nat)
  BY NatLessThanWellFounded
<1>2. PICK n \in T : \A k \in T : ~(<<k, n>> \in R)
  <2> HIDE DEF R
  <2> QED BY <1>1, WFMin
<1>3. \A k \in T : <<k, n>> \in Nat \X Nat /\ <<k, n>>[1] = k /\ <<k, n>>[2] = n
  BY <1>2
<1>4. \A k \in T : ~(k < n)
  BY <1>2, <1>3 DEF OpToRel
<1> QED BY SMT, <1>4

LEMMA Induction ==
  ASSUME NEW T, 0 \in T, \A n \in Nat : n \in T => n + 1 \in T
  PROVE  \A n \in Nat : n \in T
<1> SUFFICES ASSUME Nat \ T # {} PROVE FALSE
  OBVIOUS
<1>1. PICK n \in Nat \ T : \A k \in Nat \ T : n <= k
  BY Least
<1>2. n # 0
  BY <1>1
<1>3. n - 1 \in Nat /\ (n - 1) + 1 = n /\ ~(n <= n - 1)
  BY SMT, <1>1, <1>2
<1> QED BY <1>1, <1>3

-----------------------------------------------------------------------------
(* The websocket connection *)

Upgrading == {"Authenticate", "Authorize", "Subscribe"}
Revalidating == {"Reauthenticate", "Reauthorize"}
Handling == {"AuthorizePublish", "OnMessage"}
Replies == {"live", "reply", "ping"}
Pcs == Upgrading \cup Revalidating \cup Handling \cup {"Send", "Select", "SinkClose", "Closed", "Refused"}

WsType ==
  /\ pc \in Pcs /\ sending \in Replies \cup {"replay", "close"}
  /\ waited \in Nat /\ replay \in Nat
  /\ outbound \in {"empty", "message", "ended"}
  /\ frame \in {"none", "control", "data", "late", "end"}
  /\ heartbeat \in 0..HeartbeatEvery /\ revalidate \in 0..RevalidateEvery
  /\ seen \in 0..HeartbeatTimeout
  /\ rights \subseteq Ws!AllRights /\ client \in {"live", "mute", "stalled"}
  /\ prompt \in BOOLEAN /\ silent \in Nat /\ barred \in Nat

\* Where a prompt connection goes on without time passing, or waits in the loop.
Early == pc \in Upgrading \/ (pc = "Send" /\ sending = "replay" /\ client # "stalled")
Looping ==
  \/ pc \in {"Select"} \cup Revalidating \cup Handling
  \/ pc = "Send" /\ sending \in Replies /\ client # "stalled"

\* The right to be connected: lost time and the time to the next revalidation
\* make up one period at most, unless the revalidation is going on and ends
\* the connection.
BarredInv ==
  prompt =>
    /\ barred > 0 => ~Ws!Granted
    /\ Early => barred = 0
    /\ Looping /\ pc \notin Revalidating => barred + revalidate <= RevalidateEvery
    /\ pc = "Reauthorize" => barred = 0 \/ "subscribe" \notin rights

\* The silence: what last_seen shows of it, and that it is less than the
\* timeout and a period at the last heartbeat.
SilentInv ==
  prompt =>
    /\ Early => silent = 0
    /\ Looping =>
         /\ silent + heartbeat < HeartbeatTimeout + HeartbeatEvery
         /\ frame # "none" => silent = 0
         /\ frame = "none" => seen = Ws!AtMost(silent, HeartbeatTimeout)
         /\ pc \in Handling => seen = 0

\* A frame that is being handled, and one that came after the right was lost.
FrameInv ==
  /\ pc \in Handling => frame \in {"data", "late"}
  /\ frame = "late" => "publish" \notin rights
  /\ pc = "OnMessage" => frame = "data"

\* What was admitted in the last ticks, and what is left, was paid for.
BucketInv ==
  /\ tokens \in 0..Ws!Capacity /\ admitted \in [1..Window -> Nat]
  /\ \A j \in 0..Window : Ws!InLast[j] * Second + tokens <= Ws!Capacity + j * Ws!Refill

\* Time passes for a prompt connection in the loop, with nothing to do, or once
\* its client is stalled.
LEMMA PromptTick ==
  ASSUME WsType, prompt, Ws!Tick
  PROVE  /\ pc \notin Revalidating /\ ~Early /\ ~Early' /\ (Looping' => Looping /\ pc = "Select")
         /\ pc = "Select" => frame = "none" /\ heartbeat # 0 /\ revalidate # 0
<1>1. ~Ws!Ready /\ pc \notin Ws!Final /\ UNCHANGED <<pc, sending, client>>
  BY DEF Ws!Tick, Ws!Open
<1>2. /\ pc \in {"Send", "SinkClose", "Select"}
      /\ pc \in {"Send", "SinkClose"} => client = "stalled"
      /\ pc = "Select" => frame = "none" /\ heartbeat # 0 /\ revalidate # 0
  BY <1>1 DEF Ws!Ready
<1>3. pc \notin Revalidating /\ ~Early /\ (Looping => pc = "Select")
  BY <1>2 DEF Early, Looping, Upgrading, Revalidating, Handling
<1> QED BY <1>1, <1>2, <1>3 DEF Early, Looping

\* Before the loop: a message of the backlog is sent, or the loop begins.
Replays ==
  /\ pc' = "Send" /\ sending' = "replay"
  /\ UNCHANGED <<frame, rights, client, prompt, silent, barred>>
Begins ==
  /\ pc' = "Select" /\ heartbeat' = HeartbeatEvery /\ revalidate' = RevalidateEvery /\ seen' = 0
  /\ UNCHANGED <<frame, rights, client, prompt, silent, barred>>

LEMMA EarlyStep ==
  ASSUME (\E n \in 0..MaxReplay : Ws!Subscribe(n)) \/ (sending = "replay" /\ Ws!SendOk /\ Ws!Sent)
  PROVE  Early /\ (Replays \/ Begins)
<1>1. ASSUME NEW n \in 0..MaxReplay, Ws!Subscribe(n)
      PROVE  Early /\ (Replays \/ Begins)
  <2>1. pc = "Subscribe" /\ ((Ws!Send("replay") /\ UNCHANGED frame /\ Ws!Keep) \/ Ws!EnterLoop)
    BY <1>1 DEF Ws!Subscribe
  <2>2. Early
    BY <2>1 DEF Early, Upgrading
  <2> QED BY <2>1, <2>2 DEF Replays, Begins, Ws!Send, Ws!EnterLoop, Ws!Goto, Ws!Keep, Ws!env
<1>2. ASSUME sending = "replay", Ws!SendOk, Ws!Sent
      PROVE  Early /\ (Replays \/ Begins)
  <2>1. (Ws!Send("replay") /\ UNCHANGED frame /\ Ws!Keep) \/ Ws!EnterLoop
    BY <1>2 DEF Ws!Sent
  <2>2. Early
    BY <1>2 DEF Early, Ws!SendOk
  <2> QED BY <2>1, <2>2 DEF Replays, Begins, Ws!Send, Ws!EnterLoop, Ws!Goto, Ws!Keep, Ws!env
<1> QED BY <1>1, <1>2

LEMMA EarlyNext ==
  ASSUME Ws!WsAssumption, BarredInv, SilentInv, Early, Replays \/ Begins
  PROVE  BarredInv' /\ SilentInv'
<1>0. UNCHANGED prompt
  BY DEF Replays, Begins
<1> SUFFICES ASSUME prompt PROVE BarredInv' /\ SilentInv'
  BY <1>0 DEF BarredInv, SilentInv
<1>1. barred = 0 /\ silent = 0
  BY DEF BarredInv, SilentInv
<1>2. CASE Replays
  <2>1. ~Looping' /\ pc' = "Send" /\ barred' = 0 /\ silent' = 0
    BY <1>1, <1>2 DEF Replays, Looping, Revalidating, Handling, Replies
  <2> QED BY SMT, <2>1 DEF BarredInv, SilentInv
<1>3. CASE Begins
  <2>1. /\ pc' = "Select" /\ barred' = 0 /\ silent' = 0 /\ seen' = 0
        /\ heartbeat' = HeartbeatEvery /\ revalidate' = RevalidateEvery
    BY <1>1, <1>3 DEF Begins
  <2>2. ~Early' /\ pc' \notin Handling
    BY <2>1 DEF Early, Upgrading, Handling
  <2>3. barred' + revalidate' <= RevalidateEvery
    BY SMT, <2>1 DEF Ws!WsAssumption
  <2>4. /\ silent' + heartbeat' < HeartbeatTimeout + HeartbeatEvery
        /\ seen' = Ws!AtMost(silent, HeartbeatTimeout)'
    BY SMT, <2>1 DEF Ws!WsAssumption, Ws!AtMost
  <2>5. BarredInv'
    BY SMT, <2>1, <2>2, <2>3 DEF BarredInv
  <2> QED BY <2>1, <2>2, <2>4, <2>5 DEF SilentInv
<1> QED BY <1>2, <1>3

\* The counters kept for the properties count up to a bound.
LEMMA Counted ==
  ASSUME NEW n \in Nat, NEW b \in Nat
  PROVE  Ws!AtMost(n, b) \in Nat /\ Ws!AtMost(n, b) <= n
BY SMT DEF Ws!AtMost

LEMMA LongestType ==
  ASSUME Ws!WsAssumption
  PROVE  Ws!Longest \in Nat
BY SMT DEF Ws!WsAssumption, Ws!Longest

\* Every step keeps the types.
LEMMA WsTypeNext ==
  ASSUME Ws!WsAssumption, WsType, Ws!Next
  PROVE  WsType'
<1> USE DEF WsType, Ws!WsAssumption, Pcs, Upgrading, Revalidating, Handling, Replies
<1>1. ASSUME NEW f \in {"control", "data", "end"}, Ws!Arrive(f) PROVE WsType'
  BY SMT, <1>1 DEF Ws!Arrive, Ws!Open, Ws!timers
<1>2. ASSUME NEW o \in {"message", "ended"}, Ws!Outbound(o) PROVE WsType'
  BY SMT, <1>2 DEF Ws!Outbound, Ws!timers
<1>3. ASSUME NEW r \in rights, Ws!Revoke(r) PROVE WsType'
  BY SMT, <1>3 DEF Ws!Revoke, Ws!timers
<1>4. ASSUME NEW c \in {"mute", "stalled"}, Ws!Degrade(c) PROVE WsType'
  BY SMT, <1>4 DEF Ws!Degrade, Ws!timers
<1>5. ASSUME Ws!Authenticate PROVE WsType'
  BY SMT, <1>5 DEF Ws!Authenticate, Ws!Goto, Ws!Keep, Ws!timers, Ws!env
<1>6. ASSUME Ws!Authorize PROVE WsType'
  BY SMT, <1>6 DEF Ws!Authorize, Ws!Goto, Ws!Keep, Ws!timers, Ws!env
<1>7. ASSUME NEW n \in 0..MaxReplay, Ws!Subscribe(n) PROVE WsType'
  BY SMT, <1>7 DEF Ws!Subscribe, Ws!Send, Ws!EnterLoop, Ws!Goto, Ws!Keep, Ws!timers, Ws!env
<1>8. ASSUME Ws!SubscribeFails PROVE WsType'
  BY <1>8 DEF Ws!SubscribeFails, Ws!Send, Ws!Goto, Ws!Keep, Ws!timers, Ws!env
<1>9. ASSUME Ws!SendOk PROVE WsType'
  BY SMT, <1>9 DEF Ws!SendOk, Ws!Sent, Ws!CloseSent, Ws!Send, Ws!EnterLoop, Ws!Goto, Ws!Keep, Ws!timers,
     Ws!env
<1>10. ASSUME Ws!SendErr PROVE WsType'
  BY SMT, <1>10 DEF Ws!SendErr, Ws!Unsent, Ws!CloseSent, Ws!Goto, Ws!Keep, Ws!timers, Ws!env
<1>11. ASSUME Ws!SendTimeout PROVE WsType'
  BY SMT, <1>11 DEF Ws!SendTimeout, Ws!Unsent, Ws!CloseSent, Ws!Goto, Ws!Keep, Ws!timers, Ws!env
<1>12. ASSUME Ws!SinkClose PROVE WsType'
  BY <1>12 DEF Ws!SinkClose, Ws!Goto, Ws!Keep, Ws!timers, Ws!env
<1>13. ASSUME Ws!TakeOutbound PROVE WsType'
  BY SMT, <1>13 DEF Ws!TakeOutbound, Ws!Break, Ws!Send, Ws!Goto, Ws!timers
<1>14. ASSUME Ws!TakeFrame PROVE WsType'
  BY SMT, <1>14 DEF Ws!TakeFrame, Ws!Break, Ws!Goto, Ws!env
<1>15. ASSUME Ws!AuthorizePublish PROVE WsType'
  BY SMT, <1>15 DEF Ws!AuthorizePublish, Ws!PublishAllowed, Ws!Goto, Ws!Keep, Ws!timers, Ws!env
<1>16. ASSUME Ws!OnMessageDone PROVE WsType'
  BY SMT, <1>16 DEF Ws!OnMessageDone, Ws!Send, Ws!Goto, Ws!Keep, Ws!timers, Ws!env
<1>17. ASSUME Ws!OnMessageTimeout PROVE WsType'
  BY <1>17 DEF Ws!OnMessageTimeout, Ws!Break, Ws!Goto, Ws!Keep, Ws!timers, Ws!env
<1>18. ASSUME Ws!RevalidateTick PROVE WsType'
  BY SMT, <1>18 DEF Ws!RevalidateTick, Ws!Goto, Ws!env
<1>19. ASSUME Ws!Reauthenticate PROVE WsType'
  BY SMT, <1>19 DEF Ws!Reauthenticate, Ws!Send, Ws!Goto, Ws!Keep, Ws!timers, Ws!env
<1>20. ASSUME Ws!Reauthorize PROVE WsType'
  BY SMT, <1>20 DEF Ws!Reauthorize, Ws!StillSubscribed, Ws!Send, Ws!Goto, Ws!Keep, Ws!timers, Ws!env
<1>21. ASSUME Ws!HeartbeatTick PROVE WsType'
  BY SMT, <1>21 DEF Ws!HeartbeatTick, Ws!SeenAfterPing, Ws!Send, Ws!Goto, Ws!env
<1>22. ASSUME Ws!Tick PROVE WsType'
  <2>1. heartbeat' \in 0..HeartbeatEvery /\ revalidate' \in 0..RevalidateEvery
    BY SMT, <1>22 DEF Ws!Tick, Ws!Less
  <2>2. seen' \in 0..HeartbeatTimeout
    BY SMT, <1>22 DEF Ws!Tick, Ws!AtMost
  <2>3. silent + 1 \in Nat /\ barred + 1 \in Nat /\ waited + 1 \in Nat
    BY SMT
  <2>4. silent' \in Nat /\ barred' \in Nat /\ waited' \in Nat
    BY <1>22, <2>3, Counted, LongestType DEF Ws!Tick
  <2> QED BY SMT, <1>22, <2>1, <2>2, <2>4 DEF Ws!Tick
<1> HIDE DEF WsType
<1> QED BY <1>1, <1>2, <1>3, <1>4, <1>5, <1>6, <1>7, <1>8, <1>9, <1>10, <1>11, <1>12,
    <1>13, <1>14, <1>15, <1>16, <1>17, <1>18, <1>19, <1>20, <1>21, <1>22 DEF Ws!Next,
    Ws!Environment, Ws!Upgrade, Ws!Pump

\* A frame that is handled was sent with the right to publish.
LEMMA FrameNext ==
  ASSUME Ws!WsAssumption, WsType, FrameInv, Ws!Next
  PROVE  FrameInv'
<1> USE DEF FrameInv, WsType, Pcs, Upgrading, Revalidating, Handling, Replies
<1>1. ASSUME NEW f \in {"control", "data", "end"}, Ws!Arrive(f) PROVE FrameInv'
  BY <1>1 DEF Ws!Arrive, Ws!Open, Ws!timers
<1>2. ASSUME NEW o \in {"message", "ended"}, Ws!Outbound(o) PROVE FrameInv'
  BY <1>2 DEF Ws!Outbound, Ws!timers
<1>3. ASSUME NEW r \in rights, Ws!Revoke(r) PROVE FrameInv'
  BY <1>3 DEF Ws!Revoke, Ws!timers
<1>4. ASSUME NEW c \in {"mute", "stalled"}, Ws!Degrade(c) PROVE FrameInv'
  BY <1>4 DEF Ws!Degrade, Ws!timers
<1>5. ASSUME Ws!Authenticate PROVE FrameInv'
  BY <1>5 DEF Ws!Authenticate, Ws!Goto, Ws!Keep, Ws!timers, Ws!env
<1>6. ASSUME Ws!Authorize PROVE FrameInv'
  BY <1>6 DEF Ws!Authorize, Ws!Goto, Ws!Keep, Ws!timers, Ws!env
<1>7. ASSUME NEW n \in 0..MaxReplay, Ws!Subscribe(n) PROVE FrameInv'
  BY <1>7 DEF Ws!Subscribe, Ws!Send, Ws!EnterLoop, Ws!Goto, Ws!Keep, Ws!timers, Ws!env
<1>8. ASSUME Ws!SubscribeFails PROVE FrameInv'
  BY <1>8 DEF Ws!SubscribeFails, Ws!Send, Ws!Goto, Ws!Keep, Ws!timers, Ws!env
<1>9. ASSUME Ws!SendOk PROVE FrameInv'
  BY <1>9 DEF Ws!SendOk, Ws!Sent, Ws!CloseSent, Ws!Send, Ws!EnterLoop, Ws!Goto, Ws!Keep, Ws!timers,
     Ws!env
<1>10. ASSUME Ws!SendErr PROVE FrameInv'
  BY <1>10 DEF Ws!SendErr, Ws!Unsent, Ws!CloseSent, Ws!Goto, Ws!Keep, Ws!timers, Ws!env
<1>11. ASSUME Ws!SendTimeout PROVE FrameInv'
  BY <1>11 DEF Ws!SendTimeout, Ws!Unsent, Ws!CloseSent, Ws!Goto, Ws!Keep, Ws!timers, Ws!env
<1>12. ASSUME Ws!SinkClose PROVE FrameInv'
  BY <1>12 DEF Ws!SinkClose, Ws!Goto, Ws!Keep, Ws!timers, Ws!env
<1>13. ASSUME Ws!TakeOutbound PROVE FrameInv'
  BY <1>13 DEF Ws!TakeOutbound, Ws!Break, Ws!Send, Ws!Goto, Ws!timers
<1>14. ASSUME Ws!TakeFrame PROVE FrameInv'
  BY <1>14 DEF Ws!TakeFrame, Ws!Break, Ws!Goto, Ws!env
<1>15. ASSUME Ws!AuthorizePublish PROVE FrameInv'
  BY <1>15 DEF Ws!AuthorizePublish, Ws!PublishAllowed, Ws!Goto, Ws!Keep, Ws!timers, Ws!env
<1>16. ASSUME Ws!OnMessageDone PROVE FrameInv'
  BY <1>16 DEF Ws!OnMessageDone, Ws!Send, Ws!Goto, Ws!Keep, Ws!timers, Ws!env
<1>17. ASSUME Ws!OnMessageTimeout PROVE FrameInv'
  BY <1>17 DEF Ws!OnMessageTimeout, Ws!Break, Ws!Goto, Ws!Keep, Ws!timers, Ws!env
<1>18. ASSUME Ws!RevalidateTick PROVE FrameInv'
  BY <1>18 DEF Ws!RevalidateTick, Ws!Goto, Ws!env
<1>19. ASSUME Ws!Reauthenticate PROVE FrameInv'
  BY <1>19 DEF Ws!Reauthenticate, Ws!Send, Ws!Goto, Ws!Keep, Ws!timers, Ws!env
<1>20. ASSUME Ws!Reauthorize PROVE FrameInv'
  BY <1>20 DEF Ws!Reauthorize, Ws!StillSubscribed, Ws!Send, Ws!Goto, Ws!Keep, Ws!timers, Ws!env
<1>21. ASSUME Ws!HeartbeatTick PROVE FrameInv'
  BY <1>21 DEF Ws!HeartbeatTick, Ws!SeenAfterPing, Ws!Send, Ws!Goto, Ws!env
<1>22. ASSUME Ws!Tick PROVE FrameInv'
  BY <1>22 DEF Ws!Tick, Ws!AtMost, Ws!Less, Ws!Longest
<1> HIDE DEF FrameInv
<1> QED BY <1>1, <1>2, <1>3, <1>4, <1>5, <1>6, <1>7, <1>8, <1>9, <1>10, <1>11, <1>12,
    <1>13, <1>14, <1>15, <1>16, <1>17, <1>18, <1>19, <1>20, <1>21, <1>22 DEF Ws!Next,
    Ws!Environment, Ws!Upgrade, Ws!Pump

\* The time a prompt connection is held without the right to it.
LEMMA BarredNext ==
  ASSUME Ws!WsAssumption, WsType, BarredInv, SilentInv, Ws!Next
  PROVE  BarredInv'
<1> USE DEF BarredInv, Early, Looping, WsType, Ws!Granted, Ws!WsAssumption, Pcs, Upgrading,
    Revalidating, Handling, Replies
<1>1. ASSUME NEW f \in {"control", "data", "end"}, Ws!Arrive(f) PROVE BarredInv'
  BY <1>1 DEF Ws!Arrive, Ws!Open, Ws!timers
<1>2. ASSUME NEW o \in {"message", "ended"}, Ws!Outbound(o) PROVE BarredInv'
  BY <1>2 DEF Ws!Outbound, Ws!timers
<1>3. ASSUME NEW r \in rights, Ws!Revoke(r) PROVE BarredInv'
  BY <1>3 DEF Ws!Revoke, Ws!timers
<1>4. ASSUME NEW c \in {"mute", "stalled"}, Ws!Degrade(c) PROVE BarredInv'
  BY <1>4 DEF Ws!Degrade, Ws!timers
<1>5. ASSUME Ws!Authenticate PROVE BarredInv'
  BY <1>5 DEF Ws!Authenticate, Ws!Goto, Ws!Keep, Ws!timers, Ws!env
<1>6. ASSUME Ws!Authorize PROVE BarredInv'
  BY <1>6 DEF Ws!Authorize, Ws!Goto, Ws!Keep, Ws!timers, Ws!env
<1>7. ASSUME NEW n \in 0..MaxReplay, Ws!Subscribe(n) PROVE BarredInv'
  BY <1>7, EarlyStep, EarlyNext
<1>8. ASSUME Ws!SubscribeFails PROVE BarredInv'
  BY <1>8 DEF Ws!SubscribeFails, Ws!Send, Ws!Goto, Ws!Keep, Ws!timers, Ws!env
<1>9. ASSUME Ws!SendOk PROVE BarredInv'
  <2>1. CASE Ws!CloseSent
    BY <1>9, <2>1 DEF Ws!SendOk, Ws!CloseSent, Ws!Goto, Ws!Keep, Ws!timers, Ws!env
  <2>2. CASE sending = "replay" /\ Ws!Sent
    BY <1>9, <2>2, EarlyStep, EarlyNext
  <2>3. CASE sending \in Replies /\ Ws!Sent
    <3>1. pc = "Send" /\ pc' = "Select" /\ client # "stalled" /\ UNCHANGED <<frame, Ws!timers, Ws!env, prompt>>
      BY <1>9, <2>3 DEF Ws!SendOk, Ws!Sent, Ws!Goto, Ws!Keep
    <3> QED BY <2>3, <3>1 DEF Ws!timers, Ws!env
  <2> QED BY <1>9, <2>1, <2>2, <2>3 DEF Ws!SendOk, Ws!Sent
<1>10. ASSUME Ws!SendErr PROVE BarredInv'
  BY <1>10 DEF Ws!SendErr, Ws!Unsent, Ws!CloseSent, Ws!Goto, Ws!Keep, Ws!timers, Ws!env
<1>11. ASSUME Ws!SendTimeout PROVE BarredInv'
  BY <1>11 DEF Ws!SendTimeout, Ws!Unsent, Ws!CloseSent, Ws!Goto, Ws!Keep, Ws!timers, Ws!env
<1>12. ASSUME Ws!SinkClose PROVE BarredInv'
  BY <1>12 DEF Ws!SinkClose, Ws!Goto, Ws!Keep, Ws!timers, Ws!env
<1>13. ASSUME Ws!TakeOutbound PROVE BarredInv'
  BY <1>13 DEF Ws!TakeOutbound, Ws!Break, Ws!Send, Ws!Goto, Ws!timers
<1>14. ASSUME Ws!TakeFrame PROVE BarredInv'
  BY <1>14 DEF Ws!TakeFrame, Ws!Break, Ws!Goto, Ws!env
<1>15. ASSUME Ws!AuthorizePublish PROVE BarredInv'
  BY <1>15 DEF Ws!AuthorizePublish, Ws!PublishAllowed, Ws!Goto, Ws!Keep, Ws!timers, Ws!env
<1>16. ASSUME Ws!OnMessageDone PROVE BarredInv'
  BY <1>16 DEF Ws!OnMessageDone, Ws!Send, Ws!Goto, Ws!Keep, Ws!timers, Ws!env
<1>17. ASSUME Ws!OnMessageTimeout PROVE BarredInv'
  BY <1>17 DEF Ws!OnMessageTimeout, Ws!Break, Ws!Goto, Ws!Keep, Ws!timers, Ws!env
<1>18. ASSUME Ws!RevalidateTick PROVE BarredInv'
  BY <1>18 DEF Ws!RevalidateTick, Ws!Goto, Ws!env
<1>19. ASSUME Ws!Reauthenticate PROVE BarredInv'
  BY SMT, <1>19 DEF Ws!Reauthenticate, Ws!Send, Ws!Goto, Ws!Keep, Ws!timers, Ws!env
<1>20. ASSUME Ws!Reauthorize PROVE BarredInv'
  BY SMT, <1>20 DEF Ws!Reauthorize, Ws!StillSubscribed, Ws!Send, Ws!Goto, Ws!Keep, Ws!timers, Ws!env
<1>21. ASSUME Ws!HeartbeatTick PROVE BarredInv'
  BY <1>21 DEF Ws!HeartbeatTick, Ws!SeenAfterPing, Ws!Send, Ws!Goto, Ws!env
<1>22. ASSUME Ws!Tick PROVE BarredInv'
  <2> SUFFICES ASSUME prompt PROVE BarredInv'
    BY <1>22 DEF Ws!Tick
  <2>1. /\ pc \notin Revalidating /\ ~Early' /\ (Looping' => Looping /\ pc = "Select")
        /\ pc = "Select" => revalidate # 0
    <3> HIDE DEF Early, Looping, WsType
    <3> QED BY <1>22, PromptTick
  <2> HIDE DEF Early, Looping
  <2>2. /\ UNCHANGED <<pc, rights>> /\ revalidate' = Ws!Less(revalidate)
        /\ barred' = IF ~Ws!Granted THEN Ws!AtMost(barred + 1, Ws!Longest) ELSE 0
    BY <1>22 DEF Ws!Tick
  <2>3. barred' > 0 => ~Ws!Granted'
    BY SMT, <2>2
  <2>4. pc # "Reauthorize"
    BY <2>1
  <2>5. barred' \in Nat /\ barred' <= barred + 1
    <3>1. barred + 1 \in Nat
      BY SMT
    <3>2. Ws!AtMost(barred + 1, Ws!Longest) \in Nat /\ Ws!AtMost(barred + 1, Ws!Longest) <= barred + 1
      BY <3>1, LongestType, Counted
    <3> QED BY SMT, <2>2, <3>2
  <2>6. ASSUME Looping' PROVE barred' + revalidate' <= RevalidateEvery
    <3>1. barred + revalidate <= RevalidateEvery /\ revalidate' = revalidate - 1
      BY SMT, <2>1, <2>2, <2>6 DEF Ws!Less
    <3> QED BY SMT, <2>5, <3>1
  <2> QED BY <2>1, <2>2, <2>3, <2>4, <2>6
<1> HIDE DEF BarredInv
<1> QED BY <1>1, <1>2, <1>3, <1>4, <1>5, <1>6, <1>7, <1>8, <1>9, <1>10, <1>11, <1>12,
    <1>13, <1>14, <1>15, <1>16, <1>17, <1>18, <1>19, <1>20, <1>21, <1>22 DEF Ws!Next,
    Ws!Environment, Ws!Upgrade, Ws!Pump

\* The time a prompt connection is held in silence.
LEMMA SilentNext ==
  ASSUME Ws!WsAssumption, WsType, FrameInv, BarredInv, SilentInv, Ws!Next
  PROVE  SilentInv'
<1> USE DEF SilentInv, FrameInv, Early, Looping, WsType, Ws!AtMost, Ws!WsAssumption, Pcs,
    Upgrading, Revalidating, Handling, Replies
<1>1. ASSUME NEW f \in {"control", "data", "end"}, Ws!Arrive(f) PROVE SilentInv'
  BY SMT, <1>1 DEF Ws!Arrive, Ws!Open, Ws!timers
<1>2. ASSUME NEW o \in {"message", "ended"}, Ws!Outbound(o) PROVE SilentInv'
  BY <1>2 DEF Ws!Outbound, Ws!timers
<1>3. ASSUME NEW r \in rights, Ws!Revoke(r) PROVE SilentInv'
  BY <1>3 DEF Ws!Revoke, Ws!timers
<1>4. ASSUME NEW c \in {"mute", "stalled"}, Ws!Degrade(c) PROVE SilentInv'
  BY <1>4 DEF Ws!Degrade, Ws!timers
<1>5. ASSUME Ws!Authenticate PROVE SilentInv'
  BY <1>5 DEF Ws!Authenticate, Ws!Goto, Ws!Keep, Ws!timers, Ws!env
<1>6. ASSUME Ws!Authorize PROVE SilentInv'
  BY <1>6 DEF Ws!Authorize, Ws!Goto, Ws!Keep, Ws!timers, Ws!env
<1>7. ASSUME NEW n \in 0..MaxReplay, Ws!Subscribe(n) PROVE SilentInv'
  BY <1>7, EarlyStep, EarlyNext
<1>8. ASSUME Ws!SubscribeFails PROVE SilentInv'
  BY <1>8 DEF Ws!SubscribeFails, Ws!Send, Ws!Goto, Ws!Keep, Ws!timers, Ws!env
<1>9. ASSUME Ws!SendOk PROVE SilentInv'
  <2>1. CASE Ws!CloseSent
    BY <1>9, <2>1 DEF Ws!SendOk, Ws!CloseSent, Ws!Goto, Ws!Keep, Ws!timers, Ws!env
  <2>2. CASE sending = "replay" /\ Ws!Sent
    BY <1>9, <2>2, EarlyStep, EarlyNext
  <2>3. CASE sending \in Replies /\ Ws!Sent
    <3>1. pc = "Send" /\ pc' = "Select" /\ client # "stalled" /\ UNCHANGED <<frame, Ws!timers, Ws!env, prompt>>
      BY <1>9, <2>3 DEF Ws!SendOk, Ws!Sent, Ws!Goto, Ws!Keep
    <3> QED BY <2>3, <3>1 DEF Ws!timers, Ws!env
  <2> QED BY <1>9, <2>1, <2>2, <2>3 DEF Ws!SendOk, Ws!Sent
<1>10. ASSUME Ws!SendErr PROVE SilentInv'
  BY <1>10 DEF Ws!SendErr, Ws!Unsent, Ws!CloseSent, Ws!Goto, Ws!Keep, Ws!timers, Ws!env
<1>11. ASSUME Ws!SendTimeout PROVE SilentInv'
  BY <1>11 DEF Ws!SendTimeout, Ws!Unsent, Ws!CloseSent, Ws!Goto, Ws!Keep, Ws!timers, Ws!env
<1>12. ASSUME Ws!SinkClose PROVE SilentInv'
  BY <1>12 DEF Ws!SinkClose, Ws!Goto, Ws!Keep, Ws!timers, Ws!env
<1>13. ASSUME Ws!TakeOutbound PROVE SilentInv'
  BY <1>13 DEF Ws!TakeOutbound, Ws!Break, Ws!Send, Ws!Goto, Ws!timers
<1>14. ASSUME Ws!TakeFrame PROVE SilentInv'
  BY SMT, <1>14 DEF Ws!TakeFrame, Ws!Break, Ws!Goto, Ws!env
<1>15. ASSUME Ws!AuthorizePublish PROVE SilentInv'
  BY SMT, <1>15 DEF Ws!AuthorizePublish, Ws!PublishAllowed, Ws!Goto, Ws!Keep, Ws!timers, Ws!env
<1>16. ASSUME Ws!OnMessageDone PROVE SilentInv'
  BY SMT, <1>16 DEF Ws!OnMessageDone, Ws!Send, Ws!Goto, Ws!Keep, Ws!timers, Ws!env
<1>17. ASSUME Ws!OnMessageTimeout PROVE SilentInv'
  BY <1>17 DEF Ws!OnMessageTimeout, Ws!Break, Ws!Goto, Ws!Keep, Ws!timers, Ws!env
<1>18. ASSUME Ws!RevalidateTick PROVE SilentInv'
  BY <1>18 DEF Ws!RevalidateTick, Ws!Goto, Ws!env
<1>19. ASSUME Ws!Reauthenticate PROVE SilentInv'
  BY <1>19 DEF Ws!Reauthenticate, Ws!Send, Ws!Goto, Ws!Keep, Ws!timers, Ws!env
<1>20. ASSUME Ws!Reauthorize PROVE SilentInv'
  BY <1>20 DEF Ws!Reauthorize, Ws!StillSubscribed, Ws!Send, Ws!Goto, Ws!Keep, Ws!timers, Ws!env
<1>21. ASSUME Ws!HeartbeatTick PROVE SilentInv'
  BY SMT, <1>21 DEF Ws!HeartbeatTick, Ws!SeenAfterPing, Ws!Send, Ws!Goto, Ws!env
<1>22. ASSUME Ws!Tick PROVE SilentInv'
  <2> SUFFICES ASSUME prompt PROVE SilentInv'
    BY <1>22 DEF Ws!Tick
  <2>1. /\ ~Early' /\ (Looping' => Looping /\ pc = "Select")
        /\ pc = "Select" => frame = "none" /\ heartbeat # 0
    <3> HIDE DEF Early, Looping, WsType
    <3> QED BY <1>22, PromptTick
  <2> HIDE DEF Early, Looping
  <2>2. /\ UNCHANGED <<pc, frame>> /\ heartbeat' = Ws!Less(heartbeat)
        /\ silent' = Ws!AtMost(silent + 1, Ws!Longest)
        /\ seen' = Ws!AtMost(seen + 1, HeartbeatTimeout)
    BY <1>22 DEF Ws!Tick
  <2>3. ASSUME Looping'
        PROVE  /\ silent' + heartbeat' < HeartbeatTimeout + HeartbeatEvery
               /\ frame' = "none" /\ seen' = Ws!AtMost(silent, HeartbeatTimeout)'
               /\ pc' \notin Handling
    <3>1. /\ silent + heartbeat < HeartbeatTimeout + HeartbeatEvery
          /\ frame' = "none" /\ pc' \notin Handling
          /\ seen = Ws!AtMost(silent, HeartbeatTimeout) /\ heartbeat' = heartbeat - 1
      BY SMT, <2>1, <2>2, <2>3 DEF Ws!Less
    <3>2. silent' = silent + 1
      BY SMT, <2>1, <2>2, <2>3, <3>1 DEF Ws!Longest
    <3> QED BY SMT, <2>2, <3>1, <3>2
  <2> QED BY <2>1, <2>2, <2>3
<1> HIDE DEF SilentInv
<1> QED BY <1>1, <1>2, <1>3, <1>4, <1>5, <1>6, <1>7, <1>8, <1>9, <1>10, <1>11, <1>12,
    <1>13, <1>14, <1>15, <1>16, <1>17, <1>18, <1>19, <1>20, <1>21, <1>22 DEF Ws!Next,
    Ws!Environment, Ws!Upgrade, Ws!Pump

\* The sums of the first elements of a.
IsSums(f, a, n) == f = [j \in 0..n |-> IF j = 0 THEN 0 ELSE a[j] + f[j - 1]]

LEMMA SumsExist ==
  ASSUME NEW a, NEW n \in Nat
  PROVE  \E f : IsSums(f, a, n)
<1> DEFINE T == {k \in Nat : \E f : IsSums(f, a, k)}
<1>1. 0 \in T
  <2> DEFINE f == [j \in 0..0 |-> 0]
  <2>1. \A j \in 0..0 : j = 0
    BY SMT
  <2>2. f = [j \in 0..0 |-> IF j = 0 THEN 0 ELSE a[j] + f[j - 1]]
    BY <2>1
  <2> QED BY <2>2 DEF IsSums
<1>2. ASSUME NEW k \in Nat, k \in T PROVE k + 1 \in T
  <2>1. PICK f : f = [j \in 0..k |-> IF j = 0 THEN 0 ELSE a[j] + f[j - 1]]
    BY <1>2 DEF IsSums
  <2> DEFINE g == [j \in 0..(k + 1) |-> IF j = k + 1 THEN a[k + 1] + f[k] ELSE f[j]]
             h == [j \in 0..(k + 1) |-> IF j = 0 THEN 0 ELSE a[j] + g[j - 1]]
  <2>2. ASSUME NEW j \in 0..(k + 1) PROVE g[j] = h[j]
    <3>1. CASE j = k + 1
      <4>1. k \in 0..(k + 1) /\ k # k + 1 /\ j # 0 /\ j - 1 = k
        BY SMT, <3>1
      <4>2. g[k] = f[k] /\ h[j] = a[j] + g[k]
        BY <4>1
      <4> QED BY <3>1, <4>2
    <3>2. CASE j = 0
      <4>1. 0 # k + 1 /\ 0 \in 0..k
        BY SMT
      <4> QED BY <2>1, <3>2, <4>1
    <3>3. CASE j # 0 /\ j # k + 1
      <4>1. j \in 0..k /\ j - 1 \in 0..(k + 1) /\ j - 1 # k + 1
        BY SMT, <3>3
      <4>2. f[j] = a[j] + f[j - 1]
        BY <2>1, <3>3, <4>1
      <4>3. g[j - 1] = f[j - 1] /\ g[j] = f[j]
        BY <3>3, <4>1
      <4> QED BY <3>3, <4>2, <4>3
    <3> QED BY <3>1, <3>2, <3>3
  <2>3. g = h
    BY <2>2
  <2>4. k + 1 \in Nat
    BY SMT
  <2> QED BY <2>3, <2>4 DEF IsSums
<1> HIDE DEF T
<1>3. n \in T
  BY <1>1, <1>2, Induction
<1> QED BY <1>3 DEF T

LEMMA SumsStep ==
  ASSUME NEW a, NEW n \in Nat, NEW f, IsSums(f, a, n)
  PROVE  /\ DOMAIN f = 0..n /\ f[0] = 0
         /\ \A j \in 1..n : j - 1 \in 0..n /\ f[j] = a[j] + f[j - 1]
<1>1. 0 \in 0..n /\ \A j \in 1..n : j \in 0..n /\ j # 0 /\ j - 1 \in 0..n
  BY SMT
<1> QED BY <1>1 DEF IsSums

LEMMA SumsRun ==
  ASSUME NEW a, NEW n \in Nat, NEW f, IsSums(f, a, n)
  PROVE  f[0] = 0 /\ \A j \in 1..n : f[j] = a[j] + f[j - 1]
<1>1. f[0] = 0
  BY SumsStep
<1>2. ASSUME NEW j \in 1..n PROVE f[j] = a[j] + f[j - 1]
  BY SumsStep
<1> QED BY ONLY Zenon, <1>1, <1>2

LEMMA SumsType ==
  ASSUME NEW n \in Nat, NEW a \in [1..n -> Nat], NEW f, IsSums(f, a, n)
  PROVE  \A j \in 0..n : f[j] \in Nat
<1> DEFINE T == {j \in Nat : j <= n => f[j] \in Nat}
<1>1. f[0] = 0 /\ \A j \in 1..n : f[j] = a[j] + f[j - 1]
  BY SumsRun
<1>2. 0 \in T
  BY SMT, <1>1
<1>3. ASSUME NEW j \in Nat, j \in T PROVE j + 1 \in T
  <2> SUFFICES ASSUME j + 1 <= n PROVE f[j + 1] \in Nat
    BY SMT
  <2>1. j <= n /\ j + 1 \in 1..n /\ (j + 1) - 1 = j
    BY SMT
  <2>2. a[j + 1] \in Nat /\ f[j] \in Nat /\ f[j + 1] = a[j + 1] + f[j]
    BY <1>1, <1>3, <2>1
  <2> QED BY SMT, <2>2
<1> HIDE DEF T
<1>4. \A j \in Nat : j \in T
  BY <1>2, <1>3, Induction
<1>5. \A j \in 0..n : j \in Nat /\ j <= n
  BY SMT
<1> QED BY <1>4, <1>5 DEF T

\* A tick shifts the window: its last j ticks were the last j - 1.
Shifted(a, n) == [i \in 1..n |-> IF i = 1 THEN 0 ELSE a[i - 1]]

LEMMA SumsShift ==
  ASSUME NEW n \in Nat, NEW a \in [1..n -> Nat], NEW f, IsSums(f, a, n),
         NEW g, IsSums(g, Shifted(a, n), n)
  PROVE  \A j \in 1..n : g[j] = f[j - 1]
<1> DEFINE b == Shifted(a, n)
<1>b. b = [i \in 1..n |-> IF i = 1 THEN 0 ELSE a[i - 1]]
  BY DEF Shifted
<1>c. IsSums(g, b, n)
  OBVIOUS
<1> HIDE DEF b
<1> DEFINE T == {j \in Nat : j + 1 <= n => g[j + 1] = f[j]}
<1>1. f[0] = 0 /\ \A j \in 1..n : f[j] = a[j] + f[j - 1]
  BY SumsRun
<1>2. g[0] = 0 /\ \A j \in 1..n : g[j] = b[j] + g[j - 1]
  BY ONLY Zenon, n \in Nat, <1>c, SumsRun
<1>3. 0 \in T
  <2> SUFFICES ASSUME 1 <= n PROVE g[1] = 0
    BY SMT, <1>1
  <2>1. 1 \in 1..n /\ 1 - 1 = 0 /\ 0 + 0 = 0
    BY SMT
  <2>2. g[1] = b[1] + g[0] /\ b[1] = 0
    BY <1>b, <1>2, <2>1
  <2> QED BY <1>2, <2>1, <2>2
<1>4. ASSUME NEW j \in Nat, j \in T PROVE j + 1 \in T
  <2> DEFINE i == j + 1
  <2> SUFFICES ASSUME i + 1 <= n PROVE g[i + 1] = f[i]
    BY SMT
  <2>1. /\ i \in 1..n /\ i + 1 \in 1..n /\ i + 1 # 1 /\ (i + 1) - 1 = i /\ i - 1 = j /\ i <= n
    BY SMT
  <2>2. g[i] = f[j]
    BY <1>4, <2>1
  <2>3. b[i + 1] = a[i]
    BY <1>b, <2>1
  <2>4. g[i + 1] = b[i + 1] + g[i] /\ f[i] = a[i] + f[j]
    <3> HIDE DEF i
    <3> QED BY <1>1, <1>2, <2>1
  <2> QED BY <2>2, <2>3, <2>4
<1> HIDE DEF T
<1>5. \A j \in Nat : j \in T
  BY <1>3, <1>4, Induction
<1>6. ASSUME NEW j \in 1..n PROVE g[j] = f[j - 1]
  <2>1. j - 1 \in Nat /\ (j - 1) + 1 = j /\ j <= n
    BY SMT
  <2>2. j - 1 \in T
    BY <1>5, <2>1
  <2> QED BY <2>1, <2>2 DEF T
<1> QED BY <1>6

\* A frame admitted in this tick counts in every window.
OneMore(a) == [a EXCEPT ![1] = a[1] + 1]

LEMMA SumsMore ==
  ASSUME NEW n \in Nat, NEW a \in [1..n -> Nat], NEW f, IsSums(f, a, n),
         NEW g, IsSums(g, OneMore(a), n)
  PROVE  \A j \in 1..n : g[j] = f[j] + 1
<1> DEFINE b == OneMore(a)
<1>b. b = [a EXCEPT ![1] = a[1] + 1]
  BY DEF OneMore
<1>c. IsSums(g, b, n)
  BY SMT
<1> HIDE DEF b
<1> DEFINE T == {j \in Nat : j + 1 <= n => g[j + 1] = f[j + 1] + 1}
<1>1. f[0] = 0 /\ \A j \in 1..n : f[j] = a[j] + f[j - 1]
  BY SumsRun
<1>2. g[0] = 0 /\ \A j \in 1..n : g[j] = b[j] + g[j - 1]
  BY ONLY Zenon, n \in Nat, <1>c, SumsRun
<1>t. \A j \in 0..n : f[j] \in Nat
  BY SumsType
<1>3. 0 \in T
  <2> SUFFICES ASSUME 1 <= n PROVE g[1] = f[1] + 1
    BY SMT
  <2>1. 1 \in 1..n /\ 1 - 1 = 0
    BY SMT
  <2>2. /\ g[1] = b[1] + 0 /\ b[1] = a[1] + 1 /\ f[1] = a[1] + 0 /\ a[1] \in Nat
    BY <1>b, <1>1, <1>2, <2>1
  <2> QED BY SMT, <2>2
<1>4. ASSUME NEW j \in Nat, j \in T PROVE j + 1 \in T
  <2> DEFINE i == j + 1
             k == i + 1
  <2> SUFFICES ASSUME k <= n PROVE g[k] = f[k] + 1
    BY SMT
  <2>1. i \in 0..n /\ k \in 1..n /\ k # 1 /\ k - 1 = i /\ i <= n
    BY SMT
  <2>2. g[i] = f[i] + 1 /\ f[i] \in Nat
    BY <1>4, <1>t, <2>1
  <2>3. b[k] = a[k] /\ a[k] \in Nat
    <3> HIDE DEF k
    <3> QED BY <1>b, <2>1
  <2>4. g[k] = b[k] + g[i] /\ f[k] = a[k] + f[i]
    <3> HIDE DEF i, k
    <3> QED BY <1>1, <1>2, <2>1
  <2> HIDE DEF i, k
  <2> QED BY ONLY SMT, <2>2, <2>3, <2>4
<1> HIDE DEF T
<1>5. \A j \in Nat : j \in T
  BY <1>3, <1>4, Induction
<1>6. ASSUME NEW j \in 1..n PROVE g[j] = f[j] + 1
  <2>1. j - 1 \in Nat /\ (j - 1) + 1 = j /\ j <= n
    BY SMT
  <2>2. j - 1 \in T
    BY <1>5, <2>1
  <2> QED BY <2>1, <2>2 DEF T
<1> QED BY <1>6

LEMMA InLastSums ==
  ASSUME Ws!WsAssumption
  PROVE  IsSums(Ws!InLast, admitted, Window) /\ IsSums(Ws!InLast', admitted', Window)
<1>1. Window \in Nat
  BY DEF Ws!WsAssumption
<1>2. Ws!InLast = CHOOSE f : IsSums(f, admitted, Window)
  BY DEF IsSums, Ws!InLast
<1>3. Ws!InLast' = CHOOSE f : IsSums(f, admitted', Window)
  BY DEF IsSums, Ws!InLast
<1> QED BY <1>1, <1>2, <1>3, SumsExist

LEMMA Quotient ==
  ASSUME NEW c \in Nat, NEW d \in Nat \ {0}
  PROVE  c \div d \in Nat
BY SMT

LEMMA BucketTypes ==
  ASSUME Ws!WsAssumption
  PROVE  /\ Window \in Nat \ {0} /\ Second \in Nat \ {0}
         /\ Ws!Capacity \in Nat /\ Ws!Refill \in Nat /\ Second <= Ws!Capacity
<1>1. Window \in Nat \ {0} /\ Second \in Nat \ {0} /\ Rate \in Nat
  BY DEF Ws!WsAssumption
<1>2. Ws!Capacity \in Nat /\ Second <= Ws!Capacity
  <2> DEFINE k == IF Rate > 1 THEN Rate ELSE 1
  <2>1. k \in Nat \ {0}
    BY SMT, <1>1
  <2>2. Ws!Capacity = Second * k
    BY DEF Ws!Capacity
  <2> HIDE DEF k
  <2> QED BY SMT, <1>1, <2>1, <2>2
<1>3. Ws!Refill \in Nat
  BY <1>1, <1>2, Quotient DEF Ws!Refill
<1> QED BY <1>1, <1>2, <1>3

\* A frame is paid for with a second's worth of tokens.
LEMMA PaidFrame ==
  ASSUME NEW t \in Nat, NEW s \in Nat, NEW k \in Nat, NEW x \in Nat, s <= k, t * s + k <= x
  PROVE  (t + 1) * s + (k - s) <= x
<1>1. (t + 1) * s = t * s + s /\ t * s \in Nat
  BY SMT
<1> DEFINE p == t * s
           q == (t + 1) * s
<1>2. p \in Nat /\ q = p + s /\ p + k <= x
  BY <1>1
<1>3. q + (k - s) <= x
  <2> HIDE DEF p, q
  <2> QED BY SMT, <1>2
<1> QED BY <1>3

\* The refill of a tick pays for a window that is one tick longer.
LEMMA PaidTick ==
  ASSUME NEW p \in Nat, NEW k \in Nat, NEW l \in Nat, NEW c \in Nat, NEW r \in Nat,
         NEW j \in Nat \ {0}, p + k <= c + (j - 1) * r, l <= k + r
  PROVE  p + l <= c + j * r
<1> DEFINE y == (j - 1) * r
           z == j * r
<1>1. y \in Nat /\ z \in Nat /\ z = y + r
  BY SMT
<1>2. p + k <= c + y
  OBVIOUS
<1>3. p + l <= c + z
  <2> HIDE DEF y, z
  <2> QED BY SMT, <1>1, <1>2
<1> QED BY <1>3

LEMMA TypedProduct ==
  ASSUME NEW m \in Nat, NEW n \in Nat
  PROVE  m * n \in Nat /\ m + n \in Nat /\ 0 * n = 0 /\ 0 + n = n /\ n + 0 = n
BY SMT

LEMMA FrameBucket ==
  ASSUME Ws!WsAssumption, BucketInv, tokens >= Second, tokens' = tokens - Second,
         admitted' = admitted \/ admitted' = [admitted EXCEPT ![1] = admitted[1] + 1]
  PROVE  BucketInv'
<1>1. /\ Window \in Nat \ {0} /\ Second \in Nat \ {0}
      /\ Ws!Capacity \in Nat /\ Ws!Refill \in Nat
  BY BucketTypes
<1>2. tokens \in 0..Ws!Capacity /\ admitted \in [1..Window -> Nat]
  BY DEF BucketInv
<1>3. tokens' \in 0..Ws!Capacity /\ tokens \in Nat /\ tokens' \in Nat /\ Second <= tokens /\ tokens' <= tokens
  BY SMT, <1>1, <1>2
<1>4. admitted' \in [1..Window -> Nat]
  BY SMT, <1>1, <1>2
<1>5. IsSums(Ws!InLast, admitted, Window) /\ IsSums(Ws!InLast', admitted', Window)
  BY InLastSums
<1>6. ASSUME NEW j \in 0..Window
      PROVE  Ws!InLast'[j] * Second + tokens' <= Ws!Capacity + j * Ws!Refill
  <2> DEFINE t == Ws!InLast[j]
             x == Ws!Capacity + j * Ws!Refill
  <2>1. t \in Nat /\ x \in Nat /\ t * Second + tokens <= x /\ t * Second \in Nat
    <3>1. t \in Nat
      BY <1>1, <1>2, <1>5, SumsType
    <3>2. t * Second + tokens <= x
      BY DEF BucketInv
    <3>3. j \in Nat
      BY SMT, <1>1
    <3> QED BY <1>1, <3>1, <3>2, <3>3, TypedProduct
  <2>2. Ws!InLast'[j] = t \/ Ws!InLast'[j] = t + 1
    <3>1. CASE j = 0
      BY ONLY Zenon, <1>1, <1>5, <3>1, SumsRun
    <3>2. CASE j # 0 /\ admitted' = admitted
      BY ONLY Zenon, <3>2 DEF Ws!InLast
    <3>3. CASE j # 0 /\ admitted' = [admitted EXCEPT ![1] = admitted[1] + 1]
      <4>1. j \in 1..Window
        BY SMT, <1>1, <3>3
      <4>2. admitted' = OneMore(admitted) /\ Window \in Nat
        BY <1>1, <3>3 DEF OneMore
      <4>3. \A i \in 1..Window : Ws!InLast'[i] = Ws!InLast[i] + 1
        <5>1. IsSums(Ws!InLast', OneMore(admitted), Window)
          BY <1>5, <4>2
        <5>2. IsSums(Ws!InLast, admitted, Window) /\ Window \in Nat
          BY <1>5, <4>2
        <5> QED BY ONLY SMT, <1>2, <5>1, <5>2, SumsMore
      <4> QED BY <4>1, <4>3
    <3> QED BY <3>1, <3>2, <3>3
  <2>3. (t + 1) * Second + (tokens - Second) <= x
    <3> HIDE DEF t, x
    <3> QED BY <1>1, <1>3, <2>1, PaidFrame
  <2>4. t * Second + tokens' <= x
    <3> HIDE DEF t, x
    <3> QED BY SMT, <1>3, <2>1
  <2> QED BY <2>2, <2>3, <2>4
<1> QED BY <1>3, <1>4, <1>6 DEF BucketInv

LEMMA TickBucket ==
  ASSUME Ws!WsAssumption, BucketInv, Ws!Tick
  PROVE  BucketInv'
<1>1. /\ Window \in Nat \ {0} /\ Second \in Nat \ {0}
      /\ Ws!Capacity \in Nat /\ Ws!Refill \in Nat
  BY BucketTypes
<1>2. tokens \in 0..Ws!Capacity /\ admitted \in [1..Window -> Nat]
  BY DEF BucketInv
<1>3. /\ tokens' = Ws!AtMost(tokens + Ws!Refill, Ws!Capacity)
      /\ admitted' = [i \in 1..Window |-> IF i = 1 THEN 0 ELSE admitted[i - 1]]
  BY DEF Ws!Tick, Ws!Refilled
<1>4. tokens' \in 0..Ws!Capacity /\ tokens \in Nat /\ tokens' \in Nat /\ tokens' <= tokens + Ws!Refill
  BY SMT, <1>1, <1>2, <1>3 DEF Ws!AtMost
<1>5. admitted' \in [1..Window -> Nat]
  <2>1. \A i \in 1..Window : i # 1 => i - 1 \in 1..Window
    BY SMT, <1>1
  <2> QED BY <1>2, <1>3, <2>1
<1>6. IsSums(Ws!InLast, admitted, Window) /\ IsSums(Ws!InLast', admitted', Window)
  BY InLastSums
<1>7. ASSUME NEW j \in 0..Window
      PROVE  Ws!InLast'[j] * Second + tokens' <= Ws!Capacity + j * Ws!Refill
  <2>1. CASE j = 0
    <3>1. Ws!InLast'[j] = 0
      BY <1>1, <1>6, <2>1, SumsRun
    <3>2. Ws!InLast'[j] * Second + tokens' = tokens' /\ Ws!Capacity + j * Ws!Refill = Ws!Capacity
      <4>1. 0 * Second = 0 /\ 0 * Ws!Refill = 0
        BY <1>1, TypedProduct
      <4>2. 0 + tokens' = tokens' /\ Ws!Capacity + 0 = Ws!Capacity
        BY <1>1, <1>4, TypedProduct
      <4> QED BY <2>1, <3>1, <4>1, <4>2
    <3> QED BY SMT, <1>1, <1>4, <3>2
  <2>2. CASE j # 0
    <3>1. j \in 1..Window /\ j \in Nat \ {0} /\ j - 1 \in 0..Window
      BY SMT, <1>1, <2>2
    <3> DEFINE t == Ws!InLast[j - 1]
               p == t * Second
    <3>2. Ws!InLast'[j] = t
      <4>1. admitted' = Shifted(admitted, Window) /\ Window \in Nat
        BY <1>1, <1>3 DEF Shifted
      <4>2. \A i \in 1..Window : Ws!InLast'[i] = Ws!InLast[i - 1]
        <5>1. IsSums(Ws!InLast', Shifted(admitted, Window), Window)
          BY <1>6, <4>1
        <5>2. IsSums(Ws!InLast, admitted, Window) /\ Window \in Nat
          BY <1>6, <4>1
        <5> QED BY ONLY SMT, <1>2, <5>1, <5>2, SumsShift
      <4> QED BY <3>1, <4>2
    <3>3. t \in Nat
      BY <1>1, <1>2, <1>6, <3>1, SumsType
    <3>4. p \in Nat /\ p + tokens <= Ws!Capacity + (j - 1) * Ws!Refill
      BY <1>1, <3>1, <3>3, TypedProduct DEF BucketInv
    <3>5. p + tokens' <= Ws!Capacity + j * Ws!Refill
      <4> HIDE DEF p, t
      <4> QED BY <1>1, <1>4, <3>1, <3>4, PaidTick
    <3> QED BY <3>2, <3>5
  <2> QED BY <2>1, <2>2
<1> QED BY <1>4, <1>5, <1>7 DEF BucketInv

LEMMA SameBucket ==
  ASSUME BucketInv, UNCHANGED <<tokens, admitted>>
  PROVE  BucketInv'
BY DEF BucketInv, Ws!InLast

LEMMA BucketNext ==
  ASSUME Ws!WsAssumption, BucketInv, Ws!Next
  PROVE  BucketInv'
<1>1. ASSUME Ws!Environment PROVE UNCHANGED <<tokens, admitted>>
  BY <1>1 DEF Ws!Environment, Ws!Arrive, Ws!Outbound, Ws!Revoke, Ws!Degrade
<1>2. ASSUME Ws!Upgrade PROVE UNCHANGED <<tokens, admitted>>
  BY <1>2 DEF Ws!Upgrade, Ws!Authenticate, Ws!Authorize, Ws!Subscribe, Ws!SubscribeFails,
    Ws!EnterLoop, Ws!Keep
<1>3. ASSUME Ws!SendOk PROVE UNCHANGED <<tokens, admitted>>
  BY <1>3 DEF Ws!SendOk, Ws!Sent, Ws!CloseSent, Ws!EnterLoop, Ws!Keep
<1>4. ASSUME Ws!SendErr \/ Ws!SendTimeout \/ Ws!SinkClose PROVE UNCHANGED <<tokens, admitted>>
  BY <1>4 DEF Ws!SendErr, Ws!SendTimeout, Ws!SinkClose, Ws!Unsent, Ws!CloseSent, Ws!Keep
<1>5. ASSUME Ws!TakeOutbound \/ Ws!RevalidateTick \/ Ws!HeartbeatTick
      PROVE  UNCHANGED <<tokens, admitted>>
  BY <1>5 DEF Ws!TakeOutbound, Ws!RevalidateTick, Ws!HeartbeatTick
<1>6. ASSUME Ws!AuthorizePublish \/ Ws!OnMessageDone \/ Ws!OnMessageTimeout
      PROVE  UNCHANGED <<tokens, admitted>>
  BY <1>6 DEF Ws!AuthorizePublish, Ws!OnMessageDone, Ws!OnMessageTimeout, Ws!Keep
<1>7. ASSUME Ws!Reauthenticate \/ Ws!Reauthorize PROVE UNCHANGED <<tokens, admitted>>
  BY <1>7 DEF Ws!Reauthenticate, Ws!Reauthorize, Ws!Keep
<1>8. ASSUME Ws!TakeFrame PROVE BucketInv'
  <2>1. CASE UNCHANGED <<tokens, admitted>>
    BY <2>1, SameBucket
  <2>2. CASE /\ tokens >= Second /\ tokens' = tokens - Second
             /\ admitted' = IF prompt THEN [admitted EXCEPT ![1] = admitted[1] + 1] ELSE admitted
    BY <2>2, FrameBucket
  <2> QED BY <1>8, <2>1, <2>2 DEF Ws!TakeFrame, Ws!MayAcquire
<1>9. ASSUME Ws!Tick PROVE BucketInv'
  BY <1>9, TickBucket
<1> QED BY <1>1, <1>2, <1>3, <1>4, <1>5, <1>6, <1>7, <1>8, <1>9, SameBucket DEF Ws!Next, Ws!Pump

WsInv == WsType /\ FrameInv /\ BarredInv /\ SilentInv /\ BucketInv

LEMMA WsInitially ==
  ASSUME Ws!WsAssumption, Ws!Init
  PROVE  WsInv
<1>1. WsType
  BY SMT DEF Ws!Init, Ws!WsAssumption, WsType, Pcs, Upgrading, Ws!AllRights
<1>2. FrameInv
  BY DEF Ws!Init, FrameInv, Handling
<1>3. BarredInv /\ SilentInv
  BY SMT DEF Ws!Init, BarredInv, SilentInv, Looping, Revalidating, Handling, Ws!WsAssumption
<1>4. BucketInv
  <2>1. /\ Window \in Nat \ {0} /\ Second \in Nat \ {0}
        /\ Ws!Capacity \in Nat /\ Ws!Refill \in Nat
    BY BucketTypes
  <2>2. tokens = Ws!Capacity /\ admitted = [i \in 1..Window |-> 0]
    BY DEF Ws!Init
  <2>3. tokens \in 0..Ws!Capacity /\ admitted \in [1..Window -> Nat] /\ Window \in Nat
    BY SMT, <2>1, <2>2
  <2>4. IsSums(Ws!InLast, admitted, Window)
    BY InLastSums
  <2>5. \A j \in 0..Window : Ws!InLast[j] = 0
    <3> DEFINE T == {j \in Nat : j <= Window => Ws!InLast[j] = 0}
    <3>1. Ws!InLast[0] = 0 /\ \A j \in 1..Window : Ws!InLast[j] = admitted[j] + Ws!InLast[j - 1]
      <4>1. Window \in Nat
        BY <2>3
      <4> QED BY ONLY SMT, <2>4, <4>1, SumsStep
    <3>2. 0 \in T
      BY <3>1
    <3>3. ASSUME NEW j \in Nat, j \in T PROVE j + 1 \in T
      <4> SUFFICES ASSUME j + 1 <= Window PROVE Ws!InLast[j + 1] = 0
        BY SMT
      <4>1. j + 1 \in 1..Window /\ (j + 1) - 1 = j /\ j <= Window /\ 0 + 0 = 0
        BY SMT, <2>3
      <4>2. Ws!InLast[j + 1] = admitted[j + 1] + Ws!InLast[j] /\ admitted[j + 1] = 0
        BY <2>2, <3>1, <4>1
      <4> QED BY <3>3, <4>1, <4>2
    <3> HIDE DEF T
    <3>4. \A j \in Nat : j \in T
      BY <3>2, <3>3, Induction
    <3>5. \A j \in 0..Window : j \in Nat /\ j <= Window
      BY SMT, <2>3
    <3> QED BY <3>4, <3>5 DEF T
  <2>6. ASSUME NEW j \in 0..Window
        PROVE  Ws!InLast[j] * Second + tokens <= Ws!Capacity + j * Ws!Refill
    <3>1. j \in Nat
      BY SMT, <2>3
    <3> DEFINE y == j * Ws!Refill
    <3>2. y \in Nat /\ Ws!InLast[j] * Second + tokens = Ws!Capacity
      BY <2>1, <2>2, <2>5, <3>1, TypedProduct
    <3> HIDE DEF y
    <3>3. Ws!Capacity <= Ws!Capacity + y
      BY SMT, <2>1, <3>2
    <3> QED BY <3>2, <3>3 DEF y
  <2> QED BY <2>3, <2>6 DEF BucketInv
<1> QED BY <1>1, <1>2, <1>3, <1>4 DEF WsInv

LEMMA WsStep ==
  ASSUME Ws!WsAssumption, WsInv, [Ws!Next]_(Ws!vars)
  PROVE  WsInv'
<1>1. CASE Ws!Next
  BY <1>1, WsTypeNext, FrameNext, BarredNext, SilentNext, BucketNext DEF WsInv
<1>2. CASE UNCHANGED Ws!vars
  <2>1. BucketInv'
    BY <1>2, SameBucket DEF WsInv, Ws!vars
  <2>2. WsType' /\ FrameInv' /\ BarredInv' /\ SilentInv'
    <3>1. UNCHANGED <<pc, sending, waited, replay, outbound, frame, heartbeat, revalidate, seen,
                      rights, client, prompt, silent, barred>>
      BY <1>2 DEF Ws!vars, Ws!timers, Ws!env
    <3>2. WsType' /\ FrameInv'
      BY <3>1 DEF WsInv, WsType, FrameInv
    <3>3. UNCHANGED <<Early, Looping, Ws!Granted>>
      BY <3>1 DEF Early, Looping, Ws!Granted
    <3>4. BarredInv'
      BY <3>1, <3>3 DEF WsInv, BarredInv
    <3>5. SilentInv'
      BY <3>1, <3>3 DEF WsInv, SilentInv
    <3> QED BY <3>2, <3>4, <3>5
  <2> QED BY <2>1, <2>2 DEF WsInv
<1> QED BY <1>1, <1>2

LEMMA WsReaps ==
  ASSUME Ws!WsAssumption, WsInv
  PROVE  Ws!ReapedInTime
<1> SUFFICES ASSUME prompt, pc = "Select"
             PROVE  barred <= RevalidateEvery /\ silent <= HeartbeatTimeout + HeartbeatEvery
  BY DEF Ws!ReapedInTime
<1>1. Looping /\ pc \notin Revalidating
  BY DEF Looping, Revalidating
<1>2. /\ barred + revalidate <= RevalidateEvery
      /\ silent + heartbeat < HeartbeatTimeout + HeartbeatEvery
  BY <1>1 DEF WsInv, BarredInv, SilentInv
<1>3. /\ barred \in Nat /\ silent \in Nat /\ revalidate \in Nat /\ heartbeat \in Nat
      /\ RevalidateEvery \in Nat /\ HeartbeatTimeout \in Nat /\ HeartbeatEvery \in Nat
  BY SMT DEF WsInv, WsType, Ws!WsAssumption
<1> QED BY SMT, <1>2, <1>3

LEMMA WsAdmits ==
  ASSUME Ws!WsAssumption, WsInv
  PROVE  Ws!FramesAdmitted
<1>1. pc = "OnMessage" => frame # "late"
  BY DEF WsInv, FrameInv
<1>2. ASSUME NEW j \in 1..Window
      PROVE  Ws!InLast[j] * Second <= Ws!Capacity + j * Ws!Refill
  <2>1. /\ Window \in Nat /\ Second \in Nat /\ Ws!Capacity \in Nat /\ Ws!Refill \in Nat
        /\ admitted \in [1..Window -> Nat] /\ tokens \in 0..Ws!Capacity
        /\ IsSums(Ws!InLast, admitted, Window)
    BY BucketTypes, InLastSums DEF WsInv, BucketInv
  <2>2. j \in 0..Window /\ j \in Nat /\ tokens \in Nat
    BY SMT, <2>1
  <2>3. Ws!InLast[j] \in Nat
    BY <2>1, <2>2, SumsType
  <2> DEFINE p == Ws!InLast[j] * Second
             x == Ws!Capacity + j * Ws!Refill
  <2>4. p \in Nat /\ x \in Nat /\ p + tokens <= x
    BY <2>1, <2>2, <2>3, TypedProduct DEF WsInv, BucketInv
  <2>5. p <= x
    <3> HIDE DEF p, x
    <3> QED BY SMT, <2>2, <2>4
  <2> QED BY <2>5
<1> QED BY <1>1, <1>2 DEF Ws!FramesAdmitted

\* A prompt connection is held at most revalidate_every after its rights are
\* gone, and less than heartbeat_timeout plus heartbeat_every after its last
\* frame, for every choice of the periods: the loop of Connection::run, whatever
\* order its branches are taken in.
THEOREM WsReapedInTime ==
  Ws!WsAssumption => (Ws!Spec => []Ws!ReapedInTime)
<1> SUFFICES ASSUME Ws!WsAssumption PROVE Ws!Spec => []Ws!ReapedInTime
  OBVIOUS
<1>1. Ws!Init => WsInv
  BY WsInitially
<1>2. WsInv /\ [Ws!Next]_(Ws!vars) => WsInv'
  BY WsStep
<1>3. WsInv => Ws!ReapedInTime
  BY WsReaps
<1> QED BY <1>1, <1>2, <1>3, PTL DEF Ws!Spec

\* However the frames of a connection arrive, InboundRateLimiter admits no more
\* of them in any window of ticks than a full bucket and the window's refill,
\* and on_message never sees a frame sent after the right to publish was lost.
THEOREM WsFramesAdmitted ==
  Ws!WsAssumption => (Ws!Spec => []Ws!FramesAdmitted)
<1> SUFFICES ASSUME Ws!WsAssumption PROVE Ws!Spec => []Ws!FramesAdmitted
  OBVIOUS
<1>1. Ws!Init => WsInv
  BY WsInitially
<1>2. WsInv /\ [Ws!Next]_(Ws!vars) => WsInv'
  BY WsStep
<1>3. WsInv => Ws!FramesAdmitted
  BY WsAdmits
<1> QED BY <1>1, <1>2, <1>3, PTL DEF Ws!Spec
=============================================================================
