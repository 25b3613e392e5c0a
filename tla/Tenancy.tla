------------------------------- MODULE Tenancy -------------------------------
(***************************************************************************)
(* Tenant scopes and elevations: the task-locals CURRENT_TENANT and        *)
(* CURRENT_ELEVATION, Elevator, spawn_scoped, for_each_tenant, and the     *)
(* tenant header that carries a scope from a producer to the consumer of   *)
(* its message.                                                            *)
(*                                                                         *)
(* A running task is a stack of frames, one for each scope it is inside    *)
(* of; the last frame holds the task-locals in force.  elevated and        *)
(* impersonating decide when they are called and open their scope only     *)
(* when the future they return is awaited, perhaps by another task.        *)
(*                                                                         *)
(* The cause of a frame (the tenant for which its work was set off, or     *)
(* none downstream of a tokio::spawn) and crossed are kept for the         *)
(* properties.                                                             *)
(*                                                                         *)
(* The operators named Mut... are plausible defects of the definition that *)
(* follows them; they are not part of the specification.                   *)
(***************************************************************************)
EXTENDS Naturals, Sequences, FiniteSets

CONSTANTS
  Task, Tenant, Purpose,
  NoTenant,        \* no tenant in scope
  Source,          \* what TenantSource::tenants answers: the tenants, in some order
  Allowed,         \* AllowPurposes::cross_tenant of the application's Elevator
  Impersonable,    \* AllowPurposes::impersonation
  ActorRequired,   \* AllowPurposes::actor_required
  MaxDepth,        \* bound: nested scopes of a task
  MaxMessages,     \* bound: messages produced
  MaxRequests      \* bound: elevations asked for

ASSUME TenancyAssumption ==
  /\ NoTenant \notin Tenant /\ IsFiniteSet(Tenant)
  /\ Source \in Seq(Tenant) /\ Len(Source) = Cardinality(Tenant)
  /\ \A x \in Tenant : \E i \in DOMAIN Source : Source[i] = x
  /\ Allowed \cup Impersonable \cup ActorRequired \subseteq Purpose
  /\ {MaxDepth, MaxMessages, MaxRequests} \subseteq Nat

VARIABLES
  stack,     \* the scopes each task is inside of; <<>>: no such task
  future,    \* the future of elevated or impersonating a task holds
  audit,     \* what the ScopeAuditSink of the application's Elevator was given
  queue,     \* messages on their way
  produced,  \* messages produced so far
  asked,     \* elevations asked for so far
  passes,    \* what the passes of for_each_tenant returned
  crossed    \* elevations under which another tenant's rows were touched

vars == <<stack, future, audit, queue, produced, asked, passes, crossed>>

\* The application's Elevator, and one that some other crate built for itself.
Elevators == {"app", "other"}
Actors == {"none", "label", "malformed"}

NoElevation == [issuer |-> "none", purpose |-> "none", actor |-> "none",
                kind |-> "none", tenant |-> NoTenant]
NoFuture == [granted |-> FALSE, elevation |-> NoElevation, held |-> FALSE]

Frame(kind, tenant, elevation, cause) ==
  [kind |-> kind, tenant |-> tenant, elevation |-> elevation, cause |-> cause,
   rest |-> <<>>, ok |-> 0, failed |-> 0]

Running(t) == stack[t] # <<>>
Top(t) == stack[t][Len(stack[t])]
Free(t) == Running(t) /\ Len(stack[t]) < MaxDepth
Push(t, f) == stack' = [stack EXCEPT ![t] = Append(@, f)]

Init ==
  /\ stack = [t \in Task |-> <<>>]
  /\ future = [t \in Task |-> NoFuture]
  /\ audit = {} /\ queue = <<>> /\ produced = 0 /\ asked = 0 /\ passes = {} /\ crossed = {}

-----------------------------------------------------------------------------
(* Tasks *)

\* The edge parses a tenant and opens its scope, or a worker starts with none.
Request(t, tenant) ==
  /\ ~Running(t)
  /\ Push(t, Frame("root", tenant, NoElevation, tenant))
  /\ UNCHANGED <<future, audit, queue, produced, asked, passes, crossed>>

\* spawn_scoped; the work may hold a future the spawning task has made.
MutSpawned(t) == Frame("root", Top(t).tenant, Top(t).elevation, Top(t).cause)
Spawned(t) == Frame("root", Top(t).tenant, NoElevation, Top(t).cause)

SpawnScoped(t, u) ==
  /\ Running(t) /\ ~Running(u)
  /\ Push(u, Spawned(t))
  /\ future' = [future EXCEPT ![u] = future[t], ![t] = NoFuture]
  /\ UNCHANGED <<audit, queue, produced, asked, passes, crossed>>

\* tokio::spawn: the task-locals are empty.
SpawnPlain(t, u) ==
  /\ Running(t) /\ ~Running(u)
  /\ Push(u, Frame("root", NoTenant, NoElevation, NoTenant))
  /\ future' = [future EXCEPT ![u] = future[t], ![t] = NoFuture]
  /\ UNCHANGED <<audit, queue, produced, asked, passes, crossed>>

\* A task is aborted: every scope it is inside of ends.
Abort(t) ==
  /\ Running(t)
  /\ stack' = [stack EXCEPT ![t] = <<>>]
  /\ future' = [future EXCEPT ![t] = NoFuture]
  /\ UNCHANGED <<audit, queue, produced, asked, passes, crossed>>

-----------------------------------------------------------------------------
(* Elevator *)

\* AllowPurposes::authorize; the other Elevator's policy allows everything.
Authorize(elevator, purpose, actor, kind) ==
  elevator = "app" =>
    /\ purpose \in IF kind = "CrossTenant" THEN Allowed ELSE Impersonable
    /\ purpose \in ActorRequired => actor # "none"

Decision(elevator, purpose, actor, kind) ==
  /\ actor # "malformed"
  /\ ~(kind = "Impersonation" /\ actor = "none")
  /\ Authorize(elevator, purpose, actor, kind)

\* audit.record, whatever the decision; the details of a refused request are
\* not told apart.
Refused == [granted |-> FALSE, elevation |-> NoElevation]
Record(elevator, entry) ==
  audit' = IF elevator = "app" THEN audit \cup {entry} ELSE audit

\* admit, called by elevated and by impersonating; the tenant is the one to be
\* impersonated.
Admit(t, elevator, purpose, actor, kind, tenant) ==
  LET elevation == [issuer |-> elevator, purpose |-> purpose, actor |-> actor, kind |-> kind,
                    tenant |-> tenant]
      entry == IF Decision(elevator, purpose, actor, kind)
               THEN [granted |-> TRUE, elevation |-> elevation] ELSE Refused
  IN
  /\ Running(t) /\ ~future[t].held /\ asked < MaxRequests
  /\ asked' = asked + 1
  /\ Record(elevator, entry)
  /\ future' = [future EXCEPT ![t] =
       [held |-> TRUE, granted |-> entry.granted, elevation |-> entry.elevation]]
  /\ UNCHANGED <<stack, queue, produced, passes, crossed>>

\* The future is awaited: the scope opens, or ElevationDenied is returned.
Await(t) ==
  LET e == future[t].elevation
      acting == e.kind = "Impersonation"
  IN
  /\ future[t].held /\ Free(t)
  /\ future' = [future EXCEPT ![t] = NoFuture]
  /\ IF future[t].granted
     THEN Push(t, Frame("elevated", IF acting THEN e.tenant ELSE Top(t).tenant, e,
                        IF acting THEN e.tenant ELSE Top(t).cause))
     ELSE UNCHANGED stack
  /\ UNCHANGED <<audit, queue, produced, asked, passes, crossed>>

-----------------------------------------------------------------------------
(* TenantHeader and with_message_scope *)

\* The message takes the header of the scope in force, if any.
Header(t) == Top(t).tenant

Produce(t) ==
  /\ Running(t) /\ produced < MaxMessages
  /\ produced' = produced + 1
  /\ queue' = Append(queue, [header |-> Header(t), cause |-> Top(t).cause])
  /\ UNCHANGED <<stack, future, audit, asked, passes, crossed>>

\* The header is damaged on its way.
Damage ==
  /\ queue # <<>> /\ Head(queue).header \in Tenant
  /\ queue' = <<[Head(queue) EXCEPT !.header = "malformed"]>> \o Tail(queue)
  /\ UNCHANGED <<stack, future, audit, produced, asked, passes, crossed>>

\* tenant_of: the scopes a message with this header may be run in.
MutTenantOf(header) == IF header = "malformed" THEN {NoTenant} ELSE {header}
TenantOf(header) == IF header = "malformed" THEN {} ELSE {header}

MessageElevation(t) == NoElevation

Consume(t) ==
  LET m == Head(queue) IN
  /\ queue # <<>> /\ Free(t)
  /\ queue' = Tail(queue)
  /\ \/ TenantOf(m.header) = {} /\ UNCHANGED stack
     \/ \E tenant \in TenantOf(m.header) :
          Push(t, Frame("message", tenant, MessageElevation(t), m.cause))
  /\ UNCHANGED <<future, audit, produced, asked, passes, crossed>>

-----------------------------------------------------------------------------
(* for_each_tenant *)

Visit(tenant, rest, ok, failed) ==
  [Frame("visit", tenant, NoElevation, tenant) EXCEPT !.rest = rest, !.ok = ok, !.failed = failed]

Report(ok, failed) == [listed |-> TRUE, ok |-> ok, failed |-> failed]
NotListed == [listed |-> FALSE, ok |-> 0, failed |-> 0]

\* The tenants cannot be listed, and the pass ends with that error; or the first
\* one is visited.  A source without tenants is reported on at once.
StartPass(t) ==
  /\ Free(t) /\ passes \subseteq {NotListed}
  /\ \A i \in DOMAIN stack[t] : stack[t][i].kind # "visit"
  /\ \/ passes' = {NotListed} /\ UNCHANGED stack
     \/ IF Source = <<>>
        THEN passes' = passes \cup {Report(0, 0)} /\ UNCHANGED stack
        ELSE Push(t, Visit(Head(Source), Tail(Source), 0, 0)) /\ UNCHANGED passes
  /\ UNCHANGED <<future, audit, queue, produced, asked, crossed>>

\* The work of the innermost scope returns.  After a visit comes the next
\* tenant, or the report.
MutAfterVisit(f, ok) == IF ok THEN f.rest ELSE <<>>
AfterVisit(f, ok) == f.rest

Finish(t, ok) ==
  LET f == Top(t)
      rest == AfterVisit(f, ok)
      succeeded == f.ok + (IF ok THEN 1 ELSE 0)
      failed == f.failed + (IF ok THEN 0 ELSE 1)
      outer == SubSeq(stack[t], 1, Len(stack[t]) - 1)
      more == f.kind = "visit" /\ rest # <<>>
  IN /\ Running(t) /\ (ok \/ f.kind = "visit")
     /\ stack' = [stack EXCEPT ![t] =
          IF more THEN Append(outer, Visit(Head(rest), Tail(rest), succeeded, failed)) ELSE outer]
     /\ passes' = IF f.kind = "visit" /\ ~more
                  THEN passes \cup {Report(succeeded, failed)} ELSE passes
     /\ future' = IF Len(stack[t]) = 1 THEN [future EXCEPT ![t] = NoFuture] ELSE future
     /\ UNCHANGED <<audit, queue, produced, asked, crossed>>

-----------------------------------------------------------------------------
(* A storage adapter *)

\* It shows the rows of the tenant in scope; a cross-tenant elevation of the
\* application's own Elevator lifts the filter.
Issued(e) == e.issuer = "app"
Lifted(t) == Top(t).elevation.kind = "CrossTenant" /\ Issued(Top(t).elevation)

Touch(t, owner) ==
  /\ Running(t) /\ owner # Top(t).tenant /\ Lifted(t)
  /\ crossed' = crossed \cup {[elevation |-> Top(t).elevation,
                               asked |-> \E i \in DOMAIN stack[t] : stack[t][i].kind = "elevated" /\
                                 \A j \in i..Len(stack[t]) : stack[t][j].kind = "elevated"]}
  /\ UNCHANGED <<stack, future, audit, queue, produced, asked, passes>>
-----------------------------------------------------------------------------

Ask(t) ==
  \E e \in Elevators, p \in Purpose, a \in Actors :
    \/ Admit(t, e, p, a, "CrossTenant", NoTenant)
    \/ \E x \in Tenant : Admit(t, e, p, a, "Impersonation", x)

Next ==
  \/ \E t \in Task :
       \/ \E x \in Tenant \cup {NoTenant} : Request(t, x)
       \/ \E u \in Task \ {t} : SpawnScoped(t, u) \/ SpawnPlain(t, u)
       \/ Abort(t) \/ Ask(t) \/ Await(t)
       \/ Produce(t) \/ Consume(t) \/ StartPass(t)
       \/ \E ok \in BOOLEAN : Finish(t, ok)
       \/ \E x \in Tenant : Touch(t, x)
  \/ Damage

Spec == Init /\ [][Next]_vars
-----------------------------------------------------------------------------
(* Properties *)

\* Rows of another tenant are touched only under a cross-tenant elevation that
\* the application's policy granted and its audit trail names, asked for by the
\* very unit of work that used it: neither a spawned task, nor the work of a
\* message or of a tenant's visit, inherits one.
CrossingOnRecord ==
  \A c \in crossed :
    /\ c.asked
    /\ c.elevation.purpose \in Allowed
    /\ [granted |-> TRUE, elevation |-> c.elevation] \in audit

\* All work runs in the tenant for which it was set off, through any chain of
\* messages, scoped spawns, visits and impersonations; work that lost its tenant
\* to a plain tokio::spawn stays without one, down to the messages it produces;
\* and a message whose header was damaged is not handled in any scope.
TenantFollowsCause ==
  \A t \in Task : \A i \in DOMAIN stack[t] : stack[t][i].tenant = stack[t][i].cause

\* A pass that returns a report has visited every tenant of its source, however
\* many of them failed.
PassComplete == \A p \in passes : p.listed => p.ok + p.failed = Cardinality(Tenant)
=============================================================================
