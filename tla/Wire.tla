-------------------------------- MODULE Wire --------------------------------
(***************************************************************************)
(* Integration events between services that are being rolled out: the      *)
(* envelope with its correlation and causation, the JSON, versioned JSON   *)
(* and Protobuf codecs, and the upcasters a release registers.             *)
(*                                                                         *)
(* Release n of a service writes payloads of version n, reads them into    *)
(* its own type of version n, and registers the upcasters of the versions  *)
(* below n, all but the ones it forgot.  A payload is the version it was   *)
(* made at, the upcasts applied to it and its flaw: "data" that the        *)
(* upcasters refuse, or a "form" that is no envelope of the codec.         *)
(* An event's id is its place in events; an id of 0 is None.               *)
(*                                                                         *)
(* The operators named Mut... are plausible defects of the definition that *)
(* follows them; they are not part of the specification.                   *)
(***************************************************************************)
EXTENDS Naturals, Sequences, FiniteSets, FiniteSetsExt

CONSTANTS
  Service,
  LastRelease, \* the last release
  MaxEvents,  \* bound: events created
  Flow,       \* a correlation id given from outside
  Width       \* 2^32: versions of a u32 are below it

ASSUME WireAssumption ==
  /\ {LastRelease, MaxEvents, Flow, Width} \subseteq Nat
  /\ Flow > MaxEvents /\ Width > LastRelease

VARIABLES
  codec,      \* the codec of the topic, "versioned" or "protobuf"
  forgotten,  \* versions whose upcaster no release registers
  lenient,    \* payload types take payloads of another version without an error
  release,    \* the release each service runs
  events,     \* the events created
  cause,      \* the event each was made from, or 0
  wire,       \* the encoded events
  decoded     \* what each service decoded, and at which release

config == <<codec, forgotten, lenient>>
vars == <<config, release, events, cause, wire, decoded>>

Init ==
  /\ codec \in {"versioned", "protobuf"} /\ lenient \in BOOLEAN
  /\ forgotten \in SUBSET (0..(LastRelease - 1)) /\ (codec = "protobuf" => forgotten = {})
  /\ release = [s \in Service |-> 0]
  /\ events = <<>> /\ cause = <<>> /\ wire = {}
  /\ decoded = [s \in Service |-> {}]

-----------------------------------------------------------------------------
(* IntegrationEvent *)

\* new, from_domain_event and with_correlation_id.  The time has ticks below a
\* millisecond, two to each.
NewEvent(version, occurred_at, correlation, flaw) ==
  [event_id |-> Len(events) + 1, schema_version |-> version, occurred_at |-> occurred_at,
   correlation_id |-> correlation, causation_id |-> 0,
   payload |-> [made |-> version, steps |-> <<>>, flaw |-> flaw]]

MutCausedBy(e, of) == [e EXCEPT !.causation_id = of.event_id, !.correlation_id = of.event_id]
CausedBy(e, of) ==
  [e EXCEPT !.causation_id = of.event_id,
            !.correlation_id = IF of.correlation_id # 0 THEN of.correlation_id ELSE of.event_id]

-----------------------------------------------------------------------------
(* Codecs *)

\* JsonEventSerializer keeps the envelope; IntegrationEventEnvelope keeps
\* milliseconds.
Encode(e) ==
  IF codec = "protobuf" THEN [e EXCEPT !.occurred_at = (@ \div 2) * 2] ELSE e

\* with_upcaster, once for each version that the release registers, and
\* max_known_version.
Registered(s) == (0..(release[s] - 1)) \ forgotten
MutMaxKnownVersion(registered) == Max(registered)
MaxKnownVersion(registered) == Max({from + 1 : from \in registered})

\* The version at which the loop of decode finds no upcaster.
StopsAt(registered, version) == Min({v \in version..(LastRelease + 1) : v \notin registered})

\* What VersionedJsonCodec::decode refuses after the loop.
MutRefused(registered, version) == registered # {} /\ version > MaxKnownVersion(registered)
Refused(registered, version) == registered # {} /\ version # MaxKnownVersion(registered)

Upcast(e, version) ==
  [e EXCEPT !.schema_version = version,
            !.payload.steps = [i \in 1..(version - e.schema_version) |-> e.schema_version + i - 1]]

\* Whether the payload, at this version, deserializes into the type of s.
Fits(s, version) == lenient \/ version = release[s]

\* The events that VersionedJsonCodec::decode returns: none on an error.
Versioned(s, e) ==
  LET registered == Registered(s)
      top == StopsAt(registered, e.schema_version)
  IN IF \/ e.payload.flaw = "form" \/ e.schema_version >= Width
        \/ top > e.schema_version /\ e.payload.flaw = "data"
        \/ Refused(registered, top) \/ ~Fits(s, top)
     THEN {} ELSE {Upcast(e, top)}

\* ProtobufEventSerializer::deserialize, which knows no upcasters.
Protobuf(s, e) == IF e.payload.flaw = "form" \/ ~Fits(s, e.schema_version) THEN {} ELSE {e}

Decode(s, e) == IF codec = "versioned" THEN Versioned(s, e) ELSE Protobuf(s, e)

-----------------------------------------------------------------------------

Create(e, of) ==
  /\ Len(events) < MaxEvents
  /\ events' = Append(events, e)
  /\ cause' = Append(cause, of)
  /\ wire' = wire \cup {Encode(e)}
  /\ UNCHANGED <<config, release, decoded>>

\* The first event of a flow.
Emit(s, occurred_at, correlation, flaw) ==
  /\ events = <<>>
  /\ Create(NewEvent(release[s], occurred_at, correlation, flaw), 0)

\* A producer outside of these services sends something that is no envelope, or
\* (JSON only) claims a version past u32.
EmitForeign ==
  /\ events = <<>>
  /\ \/ Create(NewEvent(0, 0, 0, "form"), 0)
     \/ /\ codec = "versioned"
        /\ Create([NewEvent(0, 0, 0, "none") EXCEPT !.schema_version = Width], 0)

\* A handler of a decoded event creates the next one (bound: one for an event).
React(s, d) ==
  /\ \A i \in DOMAIN cause : cause[i] # d.event.event_id
  /\ Create(CausedBy(NewEvent(release[s], 1, 0, "none"), d.event), d.event.event_id)

\* The topic delivers an event; one that fails to decode is delivered again.
Receive(s, e) ==
  /\ \A d \in decoded[s] : d.event.event_id # e.event_id
  /\ \E got \in Decode(s, e) :
       decoded' = [decoded EXCEPT ![s] = @ \cup {[event |-> got, at |-> release[s]]}]
  /\ UNCHANGED <<config, release, events, cause, wire>>

Deploy(s) ==
  /\ release[s] < LastRelease
  /\ release' = [release EXCEPT ![s] = @ + 1]
  /\ UNCHANGED <<config, events, cause, wire, decoded>>

ReceiveAny(s) == \E e \in wire : Receive(s, e)

Next ==
  \/ EmitForeign
  \/ \E s \in Service :
       \/ \E c \in {0, Flow}, flaw \in {"none", "data"} : Emit(s, 1, c, flaw)
       \/ \E d \in decoded[s] : React(s, d)
       \/ ReceiveAny(s)
       \/ Deploy(s)

Spec == Init /\ [][Next]_vars

\* A rollout is completed, and the topic delivers until an event is decoded.
FairSpec == Spec /\ \A s \in Service : WF_vars(Deploy(s)) /\ WF_vars(ReceiveAny(s))
-----------------------------------------------------------------------------
(* Properties *)

\* What a handler is given went through every upcast from the version it was made
\* at, each once and in order, up to the last one that the handler's release has
\* registered, though producers and consumers change their release at any time
\* and upcasters are missing anywhere in the chain.  That is the version of the
\* release itself if the last upcaster is registered, or the payload type is
\* strict.  (With a lenient type and without the newest upcaster the handler is
\* given an older shape: the codec knows no newer one.)
DecodedCurrent ==
  \A s \in Service : \A d \in decoded[s] :
    LET version == d.event.schema_version
        made == d.event.payload.made
        registered == (0..(d.at - 1)) \ forgotten
    IN /\ d.event.payload.steps = [i \in 1..(version - made) |-> made + i - 1]
       /\ ~lenient => version = d.at
       /\ codec = "versioned" /\ registered # {} =>
            version <= d.at /\ \A from \in registered : from < version

\* All events of a flow, across services, codecs and releases, carry the
\* correlation id of the event that began it (or its own id), and each names
\* the event it was made from.
FlowTraced ==
  LET Root[i \in DOMAIN cause] == IF cause[i] = 0 THEN i ELSE Root[cause[i]] IN
  \A i \in DOMAIN events :
    /\ events[i].causation_id = cause[i]
    /\ cause[i] # 0 =>
         LET root == Root[i] IN
         events[i].correlation_id =
           IF events[root].correlation_id # 0 THEN events[root].correlation_id ELSE root

\* Once the rollout is complete every event is decoded by every service, also
\* the ones that an older release refused, unless an upcaster is missing, the
\* upcasters refuse its data, or it is none of the library's.  (A strict Protobuf
\* type, which has no upcasters, takes only the events of its own release.)
EventuallyDecoded ==
  <>[](forgotten = {} =>
         \A s \in Service : \A i \in DOMAIN events :
           \/ events[i].payload.flaw # "none" \/ events[i].schema_version >= Width
           \/ codec = "protobuf" /\ ~lenient /\ events[i].schema_version < LastRelease
           \/ \E d \in decoded[s] : d.event.event_id = i)
=============================================================================
