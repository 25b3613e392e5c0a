----------------------------- MODULE EventProofs -----------------------------
(***************************************************************************)
(* Proofs about EventSourcing for any clients, any snapshot frequency and  *)
(* any bounds, and about Wire for any services, releases and missing       *)
(* upcasters.                                                              *)
(*                                                                         *)
(* An event is in history once because a client numbers the events it      *)
(* raises and the pending ones are drained before they are appended        *)
(* (OnceInv).  A find gives the whole history because the snapshot and     *)
(* every aggregate in use are prefixes of the stream, followed by the      *)
(* client's own pending events (ReplayInv), which only a delete or the     *)
(* reuse of an aggregate after a failed save can break.                    *)
(*                                                                         *)
(* What a handler is given is of its release because the loop of decode    *)
(* stops at a version without an upcaster, and only the one above the last *)
(* upcaster passes the check after it (Decodes).  A flow keeps its         *)
(* correlation because an event takes over the one of its cause, which is  *)
(* created before it (LinkInv), by induction on the place of the event.    *)
(*                                                                         *)
(* Leaves are left to Zenon unless they cite SMT.                          *)
(***************************************************************************)
EXTENDS EventSourcing, Integers, WellFoundedInduction, TLAPS

USE Zenon

\* The state of Wire; its MaxEvents is the number of integration events.
CONSTANTS Service, LastRelease, MaxMessages, Flow, Width
VARIABLES codec, forgotten, lenient, release, events, cause, wire, decoded

W == INSTANCE Wire WITH MaxEvents <- MaxMessages

-----------------------------------------------------------------------------
(* The stream and its snapshot *)

Event == Client \X Nat
Pcs == {"None", "FindTail", "Have", "Snapshot", "Failed"}

\* The types the proofs use.
SourcingType ==
  /\ stream \in Seq(Event)
  /\ snapVersion \in Nat /\ snapState \in Seq(Event)
  /\ pc \in [Client -> Pcs] /\ version \in [Client -> Nat]
  /\ applied \in [Client -> Seq(Event)] /\ pending \in [Client -> Seq(Event)]
  /\ raised \in [Client -> Nat] /\ deletes \in Nat /\ retries \in Nat

Distinct(s) == \A i, j \in DOMAIN s : s[i] = s[j] => i = j
Elems(s) == {s[i] : i \in DOMAIN s}

\* The pending events of c are its own, differ, and are not in history.
Unsaved(c) ==
  /\ Distinct(pending[c])
  /\ \A e \in Elems(pending[c]) : e[1] = c /\ e[2] <= raised[c] /\ e \notin Elems(stream)

\* History holds events that were raised, each once.
OnceInv ==
  /\ Distinct(stream)
  /\ \A e \in Elems(stream) : e[2] <= raised[e[1]]
  /\ \A c \in Client : Unsaved(c)

\* The aggregate of c is the history up to its version, then its pending events.
Holds(c) ==
  /\ version[c] <= Len(stream) /\ Len(applied[c]) = version[c] + Len(pending[c])
  /\ \A i \in 1..version[c] : applied[c][i] = stream[i]
  /\ \A i \in 1..Len(pending[c]) : applied[c][version[c] + i] = pending[c][i]

ClientOK(c) ==
  /\ pc[c] \in {"None", "FindTail", "Snapshot"} => pending[c] = <<>>
  /\ pc[c] # "Failed" => Holds(c)

\* The snapshot is the history up to its version.
SnapshotOK ==
  /\ snapVersion <= Len(stream) /\ Len(snapState) = snapVersion
  /\ \A i \in 1..snapVersion : snapState[i] = stream[i]

ReplayInv == Orderly => SnapshotOK /\ \A c \in Client : ClientOK(c)

-----------------------------------------------------------------------------
(* The steps of a client *)

\* The next step of c and its aggregate become l, v, a and p.
Turns(c, l, v, a, p) ==
  /\ pc' = [pc EXCEPT ![c] = l] /\ version' = [version EXCEPT ![c] = v]
  /\ applied' = [applied EXCEPT ![c] = a] /\ pending' = [pending EXCEPT ![c] = p]

Apart(c) ==
  \A d \in Client \ {c} : /\ pc'[d] = pc[d] /\ version'[d] = version[d]
                          /\ applied'[d] = applied[d] /\ pending'[d] = pending[d]

-----------------------------------------------------------------------------
(* Facts about sequences and intervals *)

LEMMA LenFacts ==
  ASSUME NEW S, NEW s \in Seq(S)
  PROVE  Len(s) \in Nat /\ DOMAIN s = 1..Len(s) /\ (s = <<>> <=> Len(s) = 0)
BY SMT

LEMMA EmptyFacts == Len(<<>>) = 0 /\ \A S : <<>> \in Seq(S)
BY SMT

LEMMA AppendFacts ==
  ASSUME NEW S, NEW s \in Seq(S), NEW e \in S
  PROVE  /\ Append(s, e) \in Seq(S) /\ Len(Append(s, e)) = Len(s) + 1
         /\ \A i \in 1..Len(s) : Append(s, e)[i] = s[i]
         /\ Append(s, e)[Len(s) + 1] = e
BY SMT

LEMMA ConcatFacts ==
  ASSUME NEW S, NEW s \in Seq(S), NEW t \in Seq(S)
  PROVE  /\ s \o t \in Seq(S) /\ Len(s \o t) = Len(s) + Len(t)
         /\ \A i \in 1..(Len(s) + Len(t)) :
              (s \o t)[i] = IF i <= Len(s) THEN s[i] ELSE t[i - Len(s)]
BY SMT

\* u is s followed by t.
Joined(s, t, u) ==
  /\ Len(u) = Len(s) + Len(t)
  /\ \A i \in 1..(Len(s) + Len(t)) : u[i] = IF i <= Len(s) THEN s[i] ELSE t[i - Len(s)]

LEMMA JoinedFacts ==
  ASSUME NEW S, NEW s \in Seq(S), NEW t \in Seq(S), NEW u, u = s \o t
  PROVE  u \in Seq(S) /\ Joined(s, t, u)
BY SMT, ConcatFacts DEF Joined

LEMMA SuffixFacts ==
  ASSUME NEW S, NEW s \in Seq(S), NEW m \in Nat
  PROVE  /\ SubSeq(s, m + 1, Len(s)) \in Seq(S)
         /\ Len(SubSeq(s, m + 1, Len(s))) = IF m < Len(s) THEN Len(s) - m ELSE 0
         /\ \A i \in 1..(Len(s) - m) : SubSeq(s, m + 1, Len(s))[i] = s[m + i]
BY SMT

LEMMA SameSeq ==
  ASSUME NEW S, NEW s \in Seq(S), NEW t \in Seq(S), Len(s) = Len(t),
         \A i \in 1..Len(s) : s[i] = t[i]
  PROVE  s = t
BY SMT

LEMMA Shifted ==
  ASSUME NEW v \in Nat, NEW n \in Nat, NEW i \in 1..n
  PROVE  v + i \in 1..(v + n)
BY SMT

LEMMA TurnEffect ==
  ASSUME SourcingType, NEW c \in Client, NEW l \in Pcs, NEW v \in Nat, NEW a \in Seq(Event),
         NEW p \in Seq(Event), Turns(c, l, v, a, p)
  PROVE  /\ pc' \in [Client -> Pcs] /\ version' \in [Client -> Nat]
         /\ applied' \in [Client -> Seq(Event)] /\ pending' \in [Client -> Seq(Event)]
         /\ pc'[c] = l /\ version'[c] = v /\ applied'[c] = a /\ pending'[c] = p
         /\ Apart(c)
<1>1. /\ pc \in [Client -> Pcs] /\ version \in [Client -> Nat]
      /\ applied \in [Client -> Seq(Event)] /\ pending \in [Client -> Seq(Event)]
  BY DEF SourcingType
<1>2. QED
  BY <1>1 DEF Turns, Apart

LEMMA Values ==
  ASSUME SourcingType, NEW c \in Client
  PROVE  /\ pc[c] \in Pcs /\ version[c] \in Nat /\ applied[c] \in Seq(Event)
         /\ pending[c] \in Seq(Event) /\ raised[c] \in Nat
         /\ pc = [pc EXCEPT ![c] = pc[c]] /\ version = [version EXCEPT ![c] = version[c]]
         /\ applied = [applied EXCEPT ![c] = applied[c]]
         /\ pending = [pending EXCEPT ![c] = pending[c]]
<1>1. /\ pc \in [Client -> Pcs] /\ version \in [Client -> Nat]
      /\ applied \in [Client -> Seq(Event)] /\ pending \in [Client -> Seq(Event)]
      /\ raised \in [Client -> Nat]
  BY DEF SourcingType
<1>2. QED
  BY <1>1

\* What each action does, for the client that takes it.
LEMMA Quiet ==
  ASSUME SourcingType, NEW c \in Client
  PROVE  /\ New(c) =>
              /\ pc[c] = "None" /\ Turns(c, "Have", version[c], applied[c], pending[c])
              /\ UNCHANGED <<stream, snapshot, raised, deletes, retries>>
         /\ FindSnapshot(c) =>
              /\ pc[c] = "None" /\ UNCHANGED <<stream, snapshot, raised, deletes, retries>>
              /\ \/ Turns(c, "FindTail", snapVersion, snapState, pending[c])
                 \/ Turns(c, "FindTail", version[c], applied[c], pending[c])
         /\ Retry(c) =>
              /\ Turns(c, "Have", version[c], applied[c], pending[c])
              /\ retries' = retries + 1 /\ UNCHANGED <<stream, snapshot, raised, deletes>>
         /\ Discard(c) =>
              /\ Turns(c, "None", 0, <<>>, <<>>)
              /\ UNCHANGED <<stream, snapshot, raised, deletes, retries>>
         /\ SaveSnapshot(c) =>
              /\ pc[c] = "Snapshot" /\ Turns(c, "Have", version[c], applied[c], pending[c])
              /\ UNCHANGED <<stream, raised, deletes, retries>>
              /\ UNCHANGED snapshot \/ (snapVersion' = version[c] /\ snapState' = applied[c])
<1>1. /\ pc = [pc EXCEPT ![c] = pc[c]] /\ version = [version EXCEPT ![c] = version[c]]
      /\ applied = [applied EXCEPT ![c] = applied[c]] /\ pending = [pending EXCEPT ![c] = pending[c]]
  BY Values
<1>2. New(c) =>
        /\ pc[c] = "None" /\ Turns(c, "Have", version[c], applied[c], pending[c])
        /\ UNCHANGED <<stream, snapshot, raised, deletes, retries>>
  BY <1>1 DEF New, Goto, Turns, aggregate, snapshot
<1>3. FindSnapshot(c) =>
        /\ pc[c] = "None" /\ UNCHANGED <<stream, snapshot, raised, deletes, retries>>
        /\ \/ Turns(c, "FindTail", snapVersion, snapState, pending[c])
           \/ Turns(c, "FindTail", version[c], applied[c], pending[c])
  BY <1>1 DEF FindSnapshot, Goto, Turns, snapshot
<1>4. Retry(c) =>
        /\ Turns(c, "Have", version[c], applied[c], pending[c])
        /\ retries' = retries + 1 /\ UNCHANGED <<stream, snapshot, raised, deletes>>
  BY <1>1 DEF Retry, Goto, Turns, aggregate, snapshot
<1>5. Discard(c) =>
        /\ Turns(c, "None", 0, <<>>, <<>>)
        /\ UNCHANGED <<stream, snapshot, raised, deletes, retries>>
  BY DEF Discard, Forget, Goto, Turns, snapshot
<1>6. SaveSnapshot(c) =>
        /\ pc[c] = "Snapshot" /\ Turns(c, "Have", version[c], applied[c], pending[c])
        /\ UNCHANGED <<stream, raised, deletes, retries>>
        /\ UNCHANGED snapshot \/ (snapVersion' = version[c] /\ snapState' = applied[c])
  BY <1>1 DEF SaveSnapshot, SnapshotVersion, Goto, Turns, aggregate
<1>7. QED
  BY <1>2, <1>3, <1>4, <1>5, <1>6

LEMMA FindTailStep ==
  ASSUME SourcingType, NEW c \in Client, FindTail(c)
  PROVE  /\ pc[c] = "FindTail" /\ UNCHANGED <<stream, snapshot, raised, deletes, retries>>
         /\ \/ Turns(c, "None", 0, <<>>, <<>>)
            \/ Turns(c, "Have", IF LoadAfter(version[c]) = <<>> THEN version[c] ELSE Len(stream),
                     applied[c] \o LoadAfter(version[c]), pending[c])
<1>1. pending = [pending EXCEPT ![c] = pending[c]]
  BY Values
<1>2. QED
  BY <1>1 DEF FindTail, Forget, Goto, Turns, snapshot

LEMMA RaiseStep ==
  ASSUME SourcingType, NEW c \in Client, Raise(c)
  PROVE  /\ pc[c] = "Have" /\ UNCHANGED <<stream, snapshot, deletes, retries>>
         /\ raised' = [raised EXCEPT ![c] = raised[c] + 1]
         /\ Turns(c, "Have", version[c], Append(applied[c], <<c, raised[c] + 1>>),
                  Append(pending[c], <<c, raised[c] + 1>>))
<1>1. pc = [pc EXCEPT ![c] = pc[c]] /\ version = [version EXCEPT ![c] = version[c]]
  BY Values
<1>2. QED
  BY <1>1 DEF Raise, Turns, snapshot

LEMMA SaveStep ==
  ASSUME SourcingType, NEW c \in Client, Save(c)
  PROVE  /\ pc[c] = "Have" /\ UNCHANGED <<snapshot, raised, deletes, retries>>
         /\ \/ /\ version[c] = Len(stream) /\ stream' = stream \o pending[c]
               /\ \E l \in {"Have", "Snapshot"} :
                    Turns(c, l, version[c] + Len(pending[c]), applied[c], <<>>)
            \/ UNCHANGED stream /\ Turns(c, "Failed", version[c], applied[c], <<>>)
<1>1. applied = [applied EXCEPT ![c] = applied[c]] /\ version = [version EXCEPT ![c] = version[c]]
  BY Values
<1>2. NextAfterAppend(c) \in {"Have", "Snapshot"}
  BY DEF NextAfterAppend
<1>3. QED
  BY <1>1, <1>2 DEF Save, Drained, Matches, Goto, Turns, snapshot

LEMMA TailType ==
  ASSUME SourcingType, NEW c \in Client
  PROVE  /\ LoadAfter(version[c]) \in Seq(Event) /\ Len(stream) \in Nat
         /\ Len(LoadAfter(version[c])) =
              IF version[c] < Len(stream) THEN Len(stream) - version[c] ELSE 0
         /\ \A i \in 1..(Len(stream) - version[c]) :
              LoadAfter(version[c])[i] = stream[version[c] + i]
<1>1. stream \in Seq(Event) /\ version[c] \in Nat
  BY DEF SourcingType
<1>2. Len(stream) \in Nat /\ \A i \in (version[c] + 1)..Len(stream) : stream[i] \in Event
  BY SMT, <1>1
<1>3. QED
  BY <1>1, <1>2, SuffixFacts DEF LoadAfter

\* The other parts of a step in which c turns.
LEMMA TurnType ==
  ASSUME SourcingType, NEW c \in Client, NEW l \in Pcs, NEW v \in Nat, NEW a \in Seq(Event),
         NEW p \in Seq(Event), Turns(c, l, v, a, p), stream' \in Seq(Event),
         snapVersion' \in Nat, snapState' \in Seq(Event), raised' \in [Client -> Nat],
         UNCHANGED deletes, retries' \in Nat
  PROVE  SourcingType'
<1>1. deletes \in Nat
  BY DEF SourcingType
<1>2. QED
  BY <1>1, TurnEffect DEF SourcingType

\* What happens to history and to what is pending.
Keeps(c) ==
  /\ UNCHANGED <<stream, raised>> /\ Apart(c)
  /\ pending'[c] = pending[c] \/ pending'[c] = <<>>
Adds(c) ==
  /\ UNCHANGED stream /\ Apart(c)
  /\ raised' = [raised EXCEPT ![c] = raised[c] + 1]
  /\ pending'[c] = Append(pending[c], <<c, raised[c] + 1>>)
Appends(c) ==
  /\ UNCHANGED raised /\ Apart(c)
  /\ stream' = stream \o pending[c] /\ pending'[c] = <<>>

LEMMA NextType ==
  ASSUME SourcingType, [Next]_vars
  PROVE  /\ SourcingType'
         /\ \/ \E c \in Client : Keeps(c) \/ Adds(c) \/ Appends(c)
            \/ UNCHANGED <<raised, pending>> /\ (stream' = stream \/ stream' = <<>>)
<1>1. /\ stream \in Seq(Event) /\ snapVersion \in Nat /\ snapState \in Seq(Event)
      /\ raised \in [Client -> Nat] /\ deletes \in Nat /\ retries \in Nat /\ <<>> \in Seq(Event)
  BY SMT DEF SourcingType
<1>2. ASSUME NEW c \in Client, NEW l \in Pcs, NEW v \in Nat, NEW a \in Seq(Event),
             NEW p \in {pending[c], <<>>}, Turns(c, l, v, a, p), UNCHANGED <<stream, raised, deletes>>,
             snapVersion' \in Nat, snapState' \in Seq(Event), retries' \in Nat
      PROVE  SourcingType' /\ Keeps(c)
  <2>1. p \in Seq(Event) /\ stream' \in Seq(Event) /\ raised' \in [Client -> Nat]
    BY <1>1, <1>2, Values
  <2>2. SourcingType'
    BY <1>2, <2>1, TurnType
  <2>3. Apart(c) /\ pending'[c] = p
    BY <1>2, <2>1, TurnEffect
  <2>4. QED
    BY <1>2, <2>2, <2>3 DEF Keeps
<1>3. ASSUME NEW c \in Client, New(c) \/ FindSnapshot(c) \/ Discard(c) \/ Retry(c) \/ SaveSnapshot(c)
      PROVE  SourcingType' /\ Keeps(c)
  <2>1. /\ version[c] \in Nat /\ applied[c] \in Seq(Event) /\ "Have" \in Pcs
        /\ "FindTail" \in Pcs /\ "None" \in Pcs /\ 0 \in Nat
    BY Values DEF Pcs
  <2>2. /\ UNCHANGED <<stream, raised, deletes>> /\ (retries' = retries \/ retries' = retries + 1)
        /\ UNCHANGED snapshot \/ (snapVersion' = version[c] /\ snapState' = applied[c])
        /\ \/ Turns(c, "Have", version[c], applied[c], pending[c])
           \/ Turns(c, "FindTail", snapVersion, snapState, pending[c])
           \/ Turns(c, "FindTail", version[c], applied[c], pending[c])
           \/ Turns(c, "None", 0, <<>>, <<>>)
    BY <1>3, Quiet
  <2>3. snapVersion' \in Nat /\ snapState' \in Seq(Event) /\ retries' \in Nat
    BY SMT, <1>1, <2>1, <2>2 DEF snapshot
  <2>4. QED
    BY <1>1, <1>2, <2>1, <2>2, <2>3
<1>4. ASSUME NEW c \in Client, FindTail(c)
      PROVE  SourcingType' /\ Keeps(c)
  <2>1. /\ UNCHANGED <<stream, snapVersion, snapState, raised, deletes, retries>>
        /\ \/ Turns(c, "None", 0, <<>>, <<>>)
           \/ Turns(c, "Have", IF LoadAfter(version[c]) = <<>> THEN version[c] ELSE Len(stream),
                    applied[c] \o LoadAfter(version[c]), pending[c])
    BY <1>4, FindTailStep DEF snapshot
  <2>2. /\ (IF LoadAfter(version[c]) = <<>> THEN version[c] ELSE Len(stream)) \in Nat
        /\ applied[c] \o LoadAfter(version[c]) \in Seq(Event)
    BY Values, TailType, ConcatFacts
  <2>3. "Have" \in Pcs /\ "None" \in Pcs /\ 0 \in Nat
    BY DEF Pcs
  <2>4. snapVersion' \in Nat /\ snapState' \in Seq(Event) /\ retries' \in Nat
    BY <1>1, <2>1
  <2>5. QED
    BY <1>1, <1>2, <2>1, <2>2, <2>3, <2>4
<1>5. ASSUME NEW c \in Client, Raise(c)
      PROVE  SourcingType' /\ Adds(c)
  <2> DEFINE e == <<c, raised[c] + 1>>
  <2>1. e \in Event /\ raised[c] + 1 \in Nat
    BY SMT, Values DEF Event
  <2>2. /\ Append(applied[c], e) \in Seq(Event) /\ Append(pending[c], e) \in Seq(Event)
        /\ version[c] \in Nat /\ "Have" \in Pcs
    BY <2>1, Values, AppendFacts DEF Pcs
  <2>3. /\ UNCHANGED <<stream, snapVersion, snapState, deletes, retries>>
        /\ raised' = [raised EXCEPT ![c] = raised[c] + 1]
        /\ Turns(c, "Have", version[c], Append(applied[c], e), Append(pending[c], e))
    BY <1>5, RaiseStep DEF snapshot
  <2>4. raised' \in [Client -> Nat]
    BY <1>1, <2>1, <2>3
  <2> HIDE DEF e
  <2>5. SourcingType'
    <3>1. stream' \in Seq(Event) /\ snapVersion' \in Nat /\ snapState' \in Seq(Event) /\ retries' \in Nat
      BY <1>1, <2>3
    <3>2. QED
      BY <2>2, <2>3, <2>4, <3>1, TurnType
  <2>6. Apart(c) /\ pending'[c] = Append(pending[c], e)
    BY <2>2, <2>3, TurnEffect
  <2>7. QED
    BY <2>3, <2>5, <2>6 DEF Adds, e
<1>6. ASSUME NEW c \in Client, Save(c)
      PROVE  SourcingType' /\ (Keeps(c) \/ Appends(c))
  <2>1. /\ UNCHANGED <<snapVersion, snapState, raised, deletes, retries>>
        /\ \/ /\ stream' = stream \o pending[c]
              /\ \E l \in {"Have", "Snapshot"} :
                   Turns(c, l, version[c] + Len(pending[c]), applied[c], <<>>)
           \/ UNCHANGED stream /\ Turns(c, "Failed", version[c], applied[c], <<>>)
    BY <1>6, SaveStep DEF snapshot
  <2>2. /\ stream \o pending[c] \in Seq(Event) /\ version[c] + Len(pending[c]) \in Nat
        /\ version[c] \in Nat /\ applied[c] \in Seq(Event) /\ "Failed" \in Pcs
        /\ {"Have", "Snapshot"} \subseteq Pcs
    <3>1. stream \o pending[c] \in Seq(Event) /\ applied[c] \in Seq(Event) /\ version[c] \in Nat
      BY <1>1, Values, ConcatFacts
    <3>2. Len(pending[c]) \in Nat
      BY Values, LenFacts
    <3>3. version[c] + Len(pending[c]) \in Nat
      BY SMT, <3>1, <3>2
    <3>4. QED
      BY <3>1, <3>3 DEF Pcs
  <2>3. /\ snapVersion' \in Nat /\ snapState' \in Seq(Event) /\ retries' \in Nat
        /\ raised' \in [Client -> Nat]
    BY <1>1, <2>1
  <2>4. CASE UNCHANGED stream /\ Turns(c, "Failed", version[c], applied[c], <<>>)
    BY <1>1, <1>2, <2>1, <2>2, <2>3, <2>4
  <2>5. ASSUME stream' = stream \o pending[c], NEW l \in {"Have", "Snapshot"},
               Turns(c, l, version[c] + Len(pending[c]), applied[c], <<>>)
        PROVE  SourcingType' /\ Appends(c)
    <3>1. stream' \in Seq(Event) /\ l \in Pcs
      BY <2>2, <2>5
    <3>2. SourcingType'
      BY <1>1, <2>1, <2>2, <2>3, <2>5, <3>1, TurnType
    <3>3. Apart(c) /\ pending'[c] = <<>>
      <4> DEFINE v == version[c] + Len(pending[c])
      <4>1. v \in Nat /\ Turns(c, l, v, applied[c], <<>>)
        BY <2>2, <2>5
      <4> HIDE DEF v
      <4>2. QED
        BY <1>1, <2>2, <3>1, <4>1, TurnEffect
    <3>4. QED
      BY <2>1, <2>5, <3>2, <3>3 DEF Appends
  <2>6. QED
    BY <2>1, <2>4, <2>5
<1>7. CASE DeleteStream \/ UNCHANGED vars
  <2>1. /\ UNCHANGED <<snapVersion, snapState, pc, version, applied, pending, raised, retries>>
        /\ stream' = stream \/ stream' = <<>>
        /\ deletes' = deletes \/ deletes' = deletes + 1
    BY <1>7 DEF DeleteStream, vars, snapshot, aggregate
  <2>2. stream' \in Seq(Event)
    BY <1>1, <2>1
  <2>3. deletes' \in Nat
    <3>1. deletes + 1 \in Nat
      BY SMT, <1>1
    <3>2. QED
      BY <1>1, <2>1, <3>1
  <2>4. SourcingType'
    BY <1>1, <2>1, <2>2, <2>3 DEF SourcingType
  <2>5. QED
    BY <2>1, <2>4
<1>8. QED
  BY <1>3, <1>4, <1>5, <1>6, <1>7 DEF Next

-----------------------------------------------------------------------------
(* History *)

LEMMA ElemsEmpty == Elems(<<>>) = {} /\ Distinct(<<>>)
BY SMT DEF Elems, Distinct

LEMMA ElemsType ==
  ASSUME NEW s \in Seq(Event)
  PROVE  \A e \in Elems(s) : e \in Event /\ e[1] \in Client /\ e[2] \in Nat
BY SMT DEF Elems, Event

LEMMA DistinctAppend ==
  ASSUME NEW s \in Seq(Event), Distinct(s), NEW x \in Event, x \notin Elems(s)
  PROVE  Distinct(Append(s, x)) /\ Elems(Append(s, x)) = Elems(s) \cup {x}
<1>1. /\ DOMAIN Append(s, x) = 1..(Len(s) + 1) /\ DOMAIN s = 1..Len(s) /\ Len(s) \in Nat
      /\ \A i \in 1..Len(s) : Append(s, x)[i] = s[i]
      /\ Append(s, x)[Len(s) + 1] = x
  BY SMT, AppendFacts, LenFacts
<1>2. Elems(Append(s, x)) = Elems(s) \cup {x}
  BY SMT, <1>1 DEF Elems
<1>3. Distinct(Append(s, x))
  <2> SUFFICES ASSUME NEW i \in 1..(Len(s) + 1), NEW j \in 1..(Len(s) + 1),
                      Append(s, x)[i] = Append(s, x)[j]
               PROVE  i = j
    BY <1>1 DEF Distinct
  <2>1. \A k \in 1..Len(s) : s[k] # x
    BY <1>1 DEF Elems
  <2>2. \A k, m \in 1..Len(s) : s[k] = s[m] => k = m
    BY <1>1 DEF Distinct
  <2>3. QED
    BY SMT, <1>1, <2>1, <2>2
<1>4. QED
  BY <1>2, <1>3

LEMMA DistinctConcat ==
  ASSUME NEW s \in Seq(Event), NEW t \in Seq(Event), Distinct(s), Distinct(t),
         \A e \in Elems(t) : e \notin Elems(s)
  PROVE  Distinct(s \o t) /\ Elems(s \o t) \subseteq Elems(s) \cup Elems(t)
<1> DEFINE u == s \o t
<1>1. /\ Len(s) \in Nat /\ Len(t) \in Nat /\ DOMAIN s = 1..Len(s) /\ DOMAIN t = 1..Len(t)
      /\ DOMAIN u = 1..(Len(s) + Len(t))
      /\ \A i \in 1..(Len(s) + Len(t)) : u[i] = IF i <= Len(s) THEN s[i] ELSE t[i - Len(s)]
  BY SMT, ConcatFacts, LenFacts
<1> HIDE DEF u
<1>2. \A i \in DOMAIN u : \/ i \in DOMAIN s /\ u[i] = s[i]
                          \/ i - Len(s) \in DOMAIN t /\ u[i] = t[i - Len(s)]
  BY SMT, <1>1
<1>3. Elems(u) \subseteq Elems(s) \cup Elems(t)
  BY <1>2 DEF Elems
<1>4. ASSUME NEW i \in DOMAIN u, NEW j \in DOMAIN u, u[i] = u[j]
      PROVE  i = j
  <2>1. i \in Int /\ j \in Int
    BY SMT, <1>1
  <2>2. CASE i \in DOMAIN s /\ u[i] = s[i] /\ j \in DOMAIN s /\ u[j] = s[j]
    BY <1>4, <2>2 DEF Distinct
  <2>3. CASE i - Len(s) \in DOMAIN t /\ u[i] = t[i - Len(s)] /\ j - Len(s) \in DOMAIN t /\ u[j] = t[j - Len(s)]
    <3>1. i - Len(s) = j - Len(s)
      BY <1>4, <2>3 DEF Distinct
    <3>2. QED
      BY SMT, <1>1, <2>1, <3>1
  <2>4. \A k \in DOMAIN s, m \in DOMAIN t : s[k] # t[m]
    BY DEF Elems
  <2>5. QED
    BY <1>2, <1>4, <2>2, <2>3, <2>4
<1>5. QED
  BY <1>3, <1>4 DEF Distinct, u

LEMMA OnceStep ==
  ASSUME SourcingType, OnceInv, [Next]_vars
  PROVE  OnceInv'
<1>1. /\ stream \in Seq(Event) /\ raised \in [Client -> Nat]
      /\ \A c \in Client : pending[c] \in Seq(Event)
      /\ Distinct(stream) /\ (\A e \in Elems(stream) : e[2] <= raised[e[1]])
      /\ \A c \in Client : Unsaved(c)
  BY DEF SourcingType, OnceInv
<1>2. ASSUME NEW c \in Client, Keeps(c)
      PROVE  OnceInv'
  <2>1. Unsaved(c)'
    BY <1>1, <1>2, ElemsEmpty DEF Unsaved, Keeps
  <2>2. \A d \in Client \ {c} : Unsaved(d)'
    BY <1>1, <1>2 DEF Unsaved, Keeps, Apart
  <2>3. QED
    BY <1>1, <1>2, <2>1, <2>2 DEF OnceInv, Keeps
<1>3. ASSUME NEW c \in Client, Adds(c)
      PROVE  OnceInv'
  <2> DEFINE e == <<c, raised[c] + 1>>
  <2>1. e \in Event /\ e[1] = c /\ e[2] = raised[c] + 1 /\ raised[c] \in Nat
    BY SMT, <1>1 DEF Event
  <2>2. /\ raised'[c] = raised[c] + 1 /\ \A d \in Client \ {c} : raised'[d] = raised[d]
        /\ stream' = stream /\ pending'[c] = Append(pending[c], e)
    BY <1>1, <1>3 DEF Adds
  <2> HIDE DEF e
  <2>3. ~(e[2] <= raised[e[1]])
    BY SMT, <2>1
  <2>4. e \notin Elems(stream) /\ e \notin Elems(pending[c])
    BY <1>1, <2>1, <2>3 DEF Unsaved
  <2>5. Distinct(pending'[c]) /\ Elems(pending'[c]) = Elems(pending[c]) \cup {e}
    BY SMT, <1>1, <2>1, <2>2, <2>4, DistinctAppend DEF Unsaved
  <2>6. \A f \in Elems(pending[c]) : f[2] <= raised'[c]
    BY SMT, <1>1, <2>1, <2>2, ElemsType DEF Unsaved
  <2>7. Unsaved(c)'
    BY SMT, <1>1, <2>1, <2>2, <2>4, <2>5, <2>6 DEF Unsaved
  <2>8. \A d \in Client \ {c} : Unsaved(d)'
    BY <1>1, <1>3, <2>2 DEF Unsaved, Adds, Apart
  <2>9. \A f \in Elems(stream) : f[2] <= raised'[f[1]]
    <3> SUFFICES ASSUME NEW f \in Elems(stream)
                 PROVE  f[2] <= raised'[f[1]]
      OBVIOUS
    <3>1. f[1] \in Client /\ f[2] \in Nat /\ f[2] <= raised[f[1]]
      BY <1>1, ElemsType
    <3>2. QED
      BY SMT, <1>1, <2>1, <2>2, <3>1
  <2>10. QED
    BY <1>1, <2>2, <2>7, <2>8, <2>9 DEF OnceInv
<1>4. ASSUME NEW c \in Client, Appends(c)
      PROVE  OnceInv'
  <2>1. /\ stream' = stream \o pending[c] /\ pending'[c] = <<>> /\ UNCHANGED raised
        /\ \A d \in Client \ {c} : pending'[d] = pending[d]
    BY <1>4 DEF Appends, Apart
  <2>2. Distinct(pending[c]) /\ \A e \in Elems(pending[c]) :
           e[1] = c /\ e[2] <= raised[c] /\ e \notin Elems(stream)
    BY <1>1 DEF Unsaved
  <2>3. Distinct(stream') /\ Elems(stream') \subseteq Elems(stream) \cup Elems(pending[c])
    BY <1>1, <2>1, <2>2, DistinctConcat
  <2>4. \A e \in Elems(stream') : e[2] <= raised'[e[1]]
    BY <1>1, <2>1, <2>2, <2>3
  <2>5. Unsaved(c)'
    BY <2>1, ElemsEmpty DEF Unsaved
  <2>6. ASSUME NEW d \in Client \ {c}
        PROVE  Unsaved(d)'
    <3>1. \A e \in Elems(pending[d]) : e[1] = d /\ e[2] <= raised[d] /\ e \notin Elems(stream)
      BY <1>1 DEF Unsaved
    <3>2. \A e \in Elems(pending[d]) : e \notin Elems(stream')
      BY SMT, <2>2, <2>3, <3>1
    <3>3. QED
      BY <1>1, <2>1, <3>1, <3>2 DEF Unsaved
  <2>7. QED
    BY <2>3, <2>4, <2>5, <2>6 DEF OnceInv
<1>5. CASE UNCHANGED <<raised, pending>> /\ (stream' = stream \/ stream' = <<>>)
  <2>1. Elems(stream') \subseteq Elems(stream) /\ Distinct(stream')
    BY <1>1, <1>5, ElemsEmpty
  <2>2. QED
    BY <1>1, <1>5, <2>1 DEF OnceInv, Unsaved
<1>6. QED
  BY <1>2, <1>3, <1>4, <1>5, NextType

-----------------------------------------------------------------------------
(* Rehydration *)

\* The history up to the version of c, and the rest, are the history.
LEMMA PrefixAndTail ==
  ASSUME SourcingType, NEW c \in Client, Holds(c), pending[c] = <<>>
  PROVE  /\ applied[c] \o LoadAfter(version[c]) = stream
         /\ (IF LoadAfter(version[c]) = <<>> THEN version[c] ELSE Len(stream)) = Len(stream)
<1> DEFINE t == LoadAfter(version[c])
<1>1. /\ stream \in Seq(Event) /\ version[c] \in Nat /\ applied[c] \in Seq(Event)
      /\ Len(stream) \in Nat /\ t \in Seq(Event)
      /\ Len(t) = (IF version[c] < Len(stream) THEN Len(stream) - version[c] ELSE 0)
      /\ \A i \in 1..(Len(stream) - version[c]) : t[i] = stream[version[c] + i]
  BY TailType, Values DEF SourcingType
<1>2. /\ version[c] <= Len(stream) /\ Len(applied[c]) = version[c]
      /\ \A i \in 1..version[c] : applied[c][i] = stream[i]
  <2>1. Len(pending[c]) = 0
    BY EmptyFacts
  <2>2. QED
    BY SMT, <1>1, <2>1 DEF Holds
<1> HIDE DEF t
<1>3. Len(t) = Len(stream) - version[c]
  BY SMT, <1>1, <1>2
<1> DEFINE u == applied[c] \o t
<1>4. /\ u \in Seq(Event) /\ Len(u) = Len(stream)
      /\ \A i \in 1..Len(stream) : u[i] = IF i <= version[c] THEN applied[c][i] ELSE t[i - version[c]]
  <2>1. /\ u \in Seq(Event) /\ Len(u) = version[c] + Len(t)
        /\ \A i \in 1..(version[c] + Len(t)) :
             u[i] = IF i <= version[c] THEN applied[c][i] ELSE t[i - version[c]]
    <3>1. u \in Seq(Event) /\ Joined(applied[c], t, u)
      BY <1>1, JoinedFacts
    <3> HIDE DEF u
    <3>2. Len(applied[c]) = version[c]
      BY <1>2
    <3>3. QED
      BY <3>1, <3>2 DEF Joined
  <2> HIDE DEF u
  <2>2. version[c] + Len(t) = Len(stream)
    BY SMT, <1>1, <1>3
  <2>3. QED
    BY <2>1, <2>2
<1> HIDE DEF u
<1>5. u = stream
  <2>1. ASSUME NEW i \in 1..Len(stream)
        PROVE  u[i] = stream[i]
    <3>1. CASE i <= version[c]
      BY SMT, <1>1, <1>2, <1>4, <3>1
    <3>2. CASE ~(i <= version[c])
      <4>1. /\ i - version[c] \in 1..(Len(stream) - version[c])
            /\ version[c] + (i - version[c]) = i
        BY SMT, <1>1, <1>2, <3>2
      <4>2. t[i - version[c]] = stream[i]
        BY <1>1, <4>1
      <4>3. QED
        BY <1>4, <3>2, <4>2
    <3>3. QED
      BY <3>1, <3>2
  <2>2. QED
    BY <1>1, <1>4, <2>1, SameSeq
<1>6. t = <<>> => version[c] = Len(stream)
  BY SMT, <1>1, <1>3, LenFacts
<1>7. QED
  BY <1>5, <1>6 DEF t, u

LEMMA OrderlyBefore ==
  ASSUME SourcingType, [Next]_vars, Orderly'
  PROVE  Orderly
<1>1. /\ deletes \in Nat /\ retries \in Nat
  BY DEF SourcingType
<1>2. \/ UNCHANGED <<deletes, retries>>
      \/ deletes' = deletes + 1 \/ retries' = retries + 1
  BY DEF Next, New, FindSnapshot, FindTail, Raise, Save, SaveSnapshot, Retry, Discard,
     DeleteStream, vars
<1>3. QED
  <2>1. CASE UNCHANGED <<deletes, retries>>
    BY <2>1 DEF Orderly
  <2>2. ~(deletes' = deletes + 1) /\ ~(retries' = retries + 1)
    BY SMT, <1>1 DEF Orderly
  <2>3. QED
    BY <1>2, <2>1, <2>2

\* A step of c that leaves history alone.
LEMMA StillStep ==
  ASSUME \A d \in Client : ClientOK(d), SnapshotOK, NEW c \in Client, Apart(c),
         UNCHANGED <<stream, snapVersion, snapState>>, ClientOK(c)'
  PROVE  ReplayInv'
<1>1. SnapshotOK'
  BY DEF SnapshotOK
<1>2. ASSUME NEW d \in Client \ {c}
      PROVE  ClientOK(d)'
  <2>1. pc'[d] = pc[d] /\ version'[d] = version[d] /\ applied'[d] = applied[d] /\ pending'[d] = pending[d]
    BY DEF Apart
  <2>2. Holds(d)' = Holds(d)
    BY <2>1 DEF Holds
  <2>3. QED
    BY <2>1, <2>2 DEF ClientOK
<1>3. QED
  BY <1>1, <1>2 DEF ReplayInv

\* An empty aggregate is the empty prefix.
LEMMA FreshHolds ==
  ASSUME SourcingType, NEW c \in Client, version'[c] = 0, applied'[c] = <<>>, pending'[c] = <<>>,
         UNCHANGED stream
  PROVE  Holds(c)'
<1>1. Len(<<>>) = 0 /\ Len(stream) \in Nat
  BY SMT DEF SourcingType
<1>2. QED
  BY SMT, <1>1 DEF Holds

LEMMA LocalReplay ==
  ASSUME SourcingType, ReplayInv, Orderly, Orderly', NEW c \in Client,
         New(c) \/ FindSnapshot(c) \/ Discard(c) \/ Retry(c) \/ SaveSnapshot(c)
  PROVE  ReplayInv'
<1>1. /\ \A d \in Client : ClientOK(d)
      /\ SnapshotOK
  BY DEF ReplayInv
<1>2. /\ pc[c] \in Pcs /\ version[c] \in Nat /\ applied[c] \in Seq(Event) /\ pending[c] \in Seq(Event)
      /\ snapVersion \in Nat /\ snapState \in Seq(Event) /\ <<>> \in Seq(Event) /\ 0 \in Nat
      /\ "Have" \in Pcs /\ "FindTail" \in Pcs /\ "None" \in Pcs /\ retries \in Nat
  BY SMT, Values DEF Pcs, SourcingType
<1>3. ~Retry(c)
  BY SMT, <1>2, Quiet DEF Orderly
<1>4. CASE New(c)
  <2>1. /\ pc[c] = "None" /\ Turns(c, "Have", version[c], applied[c], pending[c])
        /\ UNCHANGED <<stream, snapVersion, snapState>>
    BY <1>4, Quiet DEF snapshot
  <2>2. /\ pc'[c] = "Have" /\ version'[c] = version[c] /\ applied'[c] = applied[c]
        /\ pending'[c] = pending[c] /\ Apart(c)
    BY SMTT(60), <1>2, <2>1, TurnEffect
  <2>3. Holds(c)
    BY <1>1, <2>1 DEF ClientOK
  <2>4. ClientOK(c)'
    BY <2>1, <2>2, <2>3 DEF ClientOK, Holds
  <2>5. QED
    BY <1>1, <2>1, <2>2, <2>4, StillStep
<1>5. CASE FindSnapshot(c)
  <2>1. /\ pc[c] = "None" /\ UNCHANGED <<stream, snapVersion, snapState>>
        /\ \/ Turns(c, "FindTail", snapVersion, snapState, pending[c])
           \/ Turns(c, "FindTail", version[c], applied[c], pending[c])
    BY <1>5, Quiet DEF snapshot
  <2>2. pending[c] = <<>> /\ Holds(c)
    BY <1>1, <2>1 DEF ClientOK
  <2>3. /\ pc'[c] = "FindTail" /\ pending'[c] = <<>> /\ Apart(c)
        /\ \/ version'[c] = snapVersion /\ applied'[c] = snapState
           \/ version'[c] = version[c] /\ applied'[c] = applied[c]
    <3>1. ASSUME NEW v \in Nat, NEW a \in Seq(Event), Turns(c, "FindTail", v, a, pending[c])
          PROVE  /\ pc'[c] = "FindTail" /\ pending'[c] = pending[c] /\ Apart(c)
                 /\ version'[c] = v /\ applied'[c] = a
      BY <1>2, <3>1, TurnEffect
    <3>2. QED
      BY <1>2, <2>1, <2>2, <3>1
  <2>4. Holds(c)'
    <3>1. CASE version'[c] = version[c] /\ applied'[c] = applied[c]
      BY <2>1, <2>2, <2>3, <3>1 DEF Holds
    <3>2. CASE version'[c] = snapVersion /\ applied'[c] = snapState
      <4>1. Len(<<>>) = 0
        BY EmptyFacts
      <4>2. QED
        BY SMT, <1>1, <1>2, <2>1, <2>3, <3>2, <4>1 DEF Holds, SnapshotOK
    <3>3. QED
      BY <2>3, <3>1, <3>2
  <2>5. ClientOK(c)'
    BY <2>3, <2>4 DEF ClientOK
  <2>6. QED
    BY <1>1, <2>1, <2>3, <2>5, StillStep
<1>6. CASE Discard(c)
  <2>1. Turns(c, "None", 0, <<>>, <<>>) /\ UNCHANGED <<stream, snapVersion, snapState>>
    BY <1>6, Quiet DEF snapshot
  <2>2. version'[c] = 0 /\ applied'[c] = <<>> /\ pending'[c] = <<>> /\ Apart(c)
    BY <1>2, <2>1, TurnEffect
  <2>3. Holds(c)'
    BY <2>1, <2>2, FreshHolds
  <2>4. ClientOK(c)'
    BY <2>2, <2>3 DEF ClientOK
  <2>5. QED
    BY <1>1, <2>1, <2>2, <2>4, StillStep
<1>7. CASE SaveSnapshot(c)
  <2>1. /\ pc[c] = "Snapshot" /\ Turns(c, "Have", version[c], applied[c], pending[c])
        /\ UNCHANGED stream
        /\ \/ UNCHANGED <<snapVersion, snapState>>
           \/ snapVersion' = version[c] /\ snapState' = applied[c]
    BY <1>7, Quiet DEF snapshot
  <2>2. pending[c] = <<>> /\ Holds(c)
    BY <1>1, <2>1 DEF ClientOK
  <2>3. /\ pc'[c] = "Have" /\ version'[c] = version[c] /\ applied'[c] = applied[c]
        /\ pending'[c] = pending[c] /\ Apart(c)
    <3>1. Turns(c, "Have", version[c], applied[c], pending[c])
      BY <2>1
    <3>2. QED
      BY <1>2, <3>1, TurnEffect
  <2>4. \A d \in Client : ClientOK(d)'
    <3>1. ClientOK(c)'
      BY <2>1, <2>2, <2>3 DEF ClientOK, Holds
    <3>2. ASSUME NEW d \in Client \ {c}
          PROVE  ClientOK(d)'
      <4>1. /\ pc'[d] = pc[d] /\ version'[d] = version[d] /\ applied'[d] = applied[d]
            /\ pending'[d] = pending[d]
        BY <2>3 DEF Apart
      <4>2. Holds(d)' = Holds(d)
        BY <2>1, <4>1 DEF Holds
      <4>3. QED
        BY <1>1, <4>1, <4>2 DEF ClientOK
    <3>3. QED
      BY <3>1, <3>2
  <2>5. SnapshotOK'
    <3>1. CASE UNCHANGED <<snapVersion, snapState>>
      BY <1>1, <2>1, <3>1 DEF SnapshotOK
    <3>2. CASE snapVersion' = version[c] /\ snapState' = applied[c]
      <4>1. Len(<<>>) = 0
        BY EmptyFacts
      <4>2. version[c] <= Len(stream) /\ Len(applied[c]) = version[c]
            /\ \A i \in 1..version[c] : applied[c][i] = stream[i]
        BY SMT, <1>2, <2>2, <4>1 DEF Holds
      <4>3. QED
        BY <2>1, <3>2, <4>2 DEF SnapshotOK
    <3>3. QED
      BY <2>1, <3>1, <3>2
  <2>6. QED
    BY <2>4, <2>5 DEF ReplayInv
<1>8. QED
  BY <1>3, <1>4, <1>5, <1>6, <1>7

\* find_by_id ends with the whole history, or with nothing.
LEMMA FindTailReplays ==
  ASSUME SourcingType, ReplayInv, Orderly, NEW c \in Client, FindTail(c)
  PROVE  /\ UNCHANGED <<stream, snapVersion, snapState>> /\ Apart(c) /\ pending'[c] = <<>>
         /\ \/ pc'[c] = "None" /\ version'[c] = 0 /\ applied'[c] = <<>>
            \/ pc'[c] = "Have" /\ version'[c] = Len(stream) /\ applied'[c] = stream
<1>1. /\ pc[c] = "FindTail" /\ UNCHANGED <<stream, snapVersion, snapState>>
      /\ \/ Turns(c, "None", 0, <<>>, <<>>)
         \/ Turns(c, "Have", IF LoadAfter(version[c]) = <<>> THEN version[c] ELSE Len(stream),
                  applied[c] \o LoadAfter(version[c]), pending[c])
  BY FindTailStep DEF snapshot
<1>2. pending[c] = <<>> /\ Holds(c)
  BY <1>1 DEF ReplayInv, ClientOK
<1>3. \/ Turns(c, "None", 0, <<>>, <<>>)
      \/ Turns(c, "Have", Len(stream), stream, <<>>)
  BY <1>1, <1>2, PrefixAndTail
<1>4. /\ stream \in Seq(Event) /\ Len(stream) \in Nat /\ 0 \in Nat /\ <<>> \in Seq(Event)
      /\ "None" \in Pcs /\ "Have" \in Pcs
  BY SMT DEF SourcingType, Pcs
<1>5. CASE Turns(c, "None", 0, <<>>, <<>>)
  BY <1>1, <1>4, <1>5, TurnEffect
<1>6. CASE Turns(c, "Have", Len(stream), stream, <<>>)
  BY <1>1, <1>4, <1>6, TurnEffect
<1>7. QED
  BY <1>3, <1>5, <1>6

\* An aggregate that is the whole history, with nothing pending.
LEMMA WholeHolds ==
  ASSUME SourcingType', NEW c \in Client, version'[c] = Len(stream'), applied'[c] = stream',
         pending'[c] = <<>>
  PROVE  Holds(c)'
<1>1. Len(<<>>) = 0 /\ Len(stream') \in Nat
  BY DEF SourcingType
<1>2. QED
  BY SMT, <1>1 DEF Holds

LEMMA FindReplay ==
  ASSUME SourcingType, SourcingType', ReplayInv, Orderly, NEW c \in Client, FindTail(c)
  PROVE  ReplayInv'
<1>1. /\ UNCHANGED <<stream, snapVersion, snapState>> /\ Apart(c) /\ pending'[c] = <<>>
      /\ \/ version'[c] = 0 /\ applied'[c] = <<>>
         \/ version'[c] = Len(stream) /\ applied'[c] = stream
  BY FindTailReplays
<1>2. Holds(c)'
  BY <1>1, FreshHolds, WholeHolds
<1>3. ClientOK(c)'
  BY <1>1, <1>2 DEF ClientOK
<1>4. SnapshotOK /\ \A d \in Client : ClientOK(d)
  BY DEF ReplayInv
<1>5. QED
  BY <1>1, <1>3, <1>4, StillStep

LEMMA RaiseReplay ==
  ASSUME SourcingType, ReplayInv, Orderly, NEW c \in Client, Raise(c)
  PROVE  ReplayInv'
<1> DEFINE e == <<c, raised[c] + 1>>
<1>1. /\ pc[c] = "Have" /\ UNCHANGED <<stream, snapVersion, snapState>>
      /\ Turns(c, "Have", version[c], Append(applied[c], e), Append(pending[c], e))
  BY RaiseStep DEF snapshot
<1>2. /\ version[c] \in Nat /\ applied[c] \in Seq(Event) /\ pending[c] \in Seq(Event)
      /\ raised[c] \in Nat /\ "Have" \in Pcs
  BY Values DEF Pcs
<1>3. e \in Event
  BY SMT, <1>2 DEF Event
<1> HIDE DEF e
<1>4. /\ Append(applied[c], e) \in Seq(Event) /\ Append(pending[c], e) \in Seq(Event)
      /\ Len(applied[c]) \in Nat /\ Len(pending[c]) \in Nat
      /\ Len(Append(applied[c], e)) = Len(applied[c]) + 1
      /\ Len(Append(pending[c], e)) = Len(pending[c]) + 1
      /\ \A i \in 1..Len(applied[c]) : Append(applied[c], e)[i] = applied[c][i]
      /\ \A i \in 1..Len(pending[c]) : Append(pending[c], e)[i] = pending[c][i]
      /\ Append(applied[c], e)[Len(applied[c]) + 1] = e
      /\ Append(pending[c], e)[Len(pending[c]) + 1] = e
  BY SMT, <1>2, <1>3, AppendFacts
<1>5. /\ pc'[c] = "Have" /\ version'[c] = version[c] /\ applied'[c] = Append(applied[c], e)
      /\ pending'[c] = Append(pending[c], e) /\ Apart(c)
  <2>1. Append(applied[c], e) \in Seq(Event) /\ Append(pending[c], e) \in Seq(Event)
    BY <1>4
  <2>2. Turns(c, "Have", version[c], Append(applied[c], e), Append(pending[c], e))
    BY <1>1
  <2>3. QED
    BY <1>2, <2>1, <2>2, TurnEffect
<1>6. SnapshotOK /\ \A d \in Client : ClientOK(d)
  BY DEF ReplayInv
<1>7. Holds(c)
  BY <1>1, <1>6 DEF ClientOK
<1>8. Holds(c)'
  <2> DEFINE a == applied'[c]
             p == pending'[c]
             n == Len(pending[c])
  <2>1. /\ n \in Nat /\ Len(p) = n + 1 /\ Len(applied[c]) = version[c] + n
        /\ Len(a) = version[c] + n + 1
        /\ \A i \in 1..(version[c] + n) : a[i] = applied[c][i]
        /\ \A i \in 1..n : p[i] = pending[c][i]
        /\ a[version[c] + n + 1] = e /\ p[n + 1] = e
    BY <1>2, <1>4, <1>5, <1>7 DEF Holds
  <2>2. /\ version[c] <= Len(stream) /\ \A i \in 1..version[c] : applied[c][i] = stream[i]
        /\ \A i \in 1..n : applied[c][version[c] + i] = pending[c][i]
    BY <1>7 DEF Holds
  <2> HIDE DEF a, p, n
  <2>3. Len(a) = version[c] + Len(p)
    BY SMT, <1>2, <2>1
  <2>4. \A i \in 1..version[c] : a[i] = stream[i]
    BY SMT, <1>2, <2>1, <2>2
  <2>5. ASSUME NEW i \in 1..(n + 1)
        PROVE  a[version[c] + i] = p[i]
    <3>1. CASE i \in 1..n
      <4>1. version[c] + i \in 1..(version[c] + n)
        BY <1>2, <2>1, <3>1, Shifted
      <4>2. QED
        BY <2>1, <2>2, <3>1, <4>1
    <3>2. CASE i = n + 1
      <4>1. version[c] \in Nat /\ n \in Nat
        BY <1>2, <2>1
      <4>2. version[c] + (n + 1) = version[c] + n + 1
        BY SMT, <4>1
      <4>3. QED
        BY <2>1, <3>2, <4>2
    <3>3. QED
      BY SMT, <2>1, <3>1, <3>2
  <2>6. QED
    BY <1>1, <1>5, <2>1, <2>2, <2>3, <2>4, <2>5 DEF Holds, a, p, n
<1>9. ClientOK(c)'
  BY <1>5, <1>8 DEF ClientOK
<1>10. QED
  BY <1>1, <1>5, <1>6, <1>9, StillStep

\* History grew at its end.
LEMMA GrownReplay ==
  ASSUME SourcingType, ReplayInv, Orderly, NEW c \in Client, Apart(c), ClientOK(c)',
         UNCHANGED <<snapVersion, snapState>>, stream' = stream \o pending[c]
  PROVE  ReplayInv'
<1>1. SnapshotOK /\ \A d \in Client : ClientOK(d)
  BY DEF ReplayInv
<1>2. /\ Len(stream) \in Nat /\ Len(stream') \in Nat /\ Len(stream) <= Len(stream')
      /\ \A i \in 1..Len(stream) : stream'[i] = stream[i]
  <2>1. stream \in Seq(Event) /\ pending[c] \in Seq(Event)
    BY Values DEF SourcingType
  <2>2. /\ Len(stream) \in Nat /\ Len(pending[c]) \in Nat
        /\ Len(stream') = Len(stream) + Len(pending[c])
        /\ \A i \in 1..(Len(stream) + Len(pending[c])) : stream'[i] =
                     IF i <= Len(stream) THEN stream[i] ELSE pending[c][i - Len(stream)]
    BY <2>1, ConcatFacts, LenFacts
  <2>3. QED
    BY SMT, <2>2
<1>3. SnapshotOK'
  <2>1. snapVersion \in Nat
    BY DEF SourcingType
  <2>2. snapVersion <= Len(stream') /\ \A i \in 1..snapVersion : snapState[i] = stream'[i]
    BY SMT, <1>1, <1>2, <2>1 DEF SnapshotOK
  <2>3. QED
    BY <1>1, <2>2 DEF SnapshotOK
<1>4. ASSUME NEW d \in Client \ {c}
      PROVE  ClientOK(d)'
  <2>1. /\ pc'[d] = pc[d] /\ version'[d] = version[d] /\ applied'[d] = applied[d]
        /\ pending'[d] = pending[d] /\ version[d] \in Nat
    BY Values DEF Apart
  <2>2. Holds(d) => version[d] <= Len(stream') /\ \A i \in 1..version[d] : applied[d][i] = stream'[i]
    BY SMT, <1>2, <2>1 DEF Holds
  <2>3. Holds(d) => Holds(d)'
    BY <2>1, <2>2 DEF Holds
  <2>4. QED
    BY <1>1, <2>1, <2>3 DEF ClientOK
<1>5. QED
  BY <1>3, <1>4 DEF ReplayInv

LEMMA SaveReplay ==
  ASSUME SourcingType, SourcingType', ReplayInv, Orderly, NEW c \in Client, Save(c)
  PROVE  ReplayInv'
<1>1. SnapshotOK /\ \A d \in Client : ClientOK(d)
  BY DEF ReplayInv
<1>2. /\ stream \in Seq(Event) /\ version[c] \in Nat /\ applied[c] \in Seq(Event)
      /\ pending[c] \in Seq(Event) /\ <<>> \in Seq(Event)
  BY SMT, Values DEF SourcingType
<1>3. /\ pc[c] = "Have" /\ UNCHANGED <<snapVersion, snapState>>
      /\ \/ /\ version[c] = Len(stream) /\ stream' = stream \o pending[c]
            /\ \E l \in {"Have", "Snapshot"} :
                 Turns(c, l, version[c] + Len(pending[c]), applied[c], <<>>)
         \/ UNCHANGED stream /\ Turns(c, "Failed", version[c], applied[c], <<>>)
  BY SaveStep DEF snapshot
<1>4. CASE UNCHANGED stream /\ Turns(c, "Failed", version[c], applied[c], <<>>)
  <2>1. "Failed" \in Pcs
    BY DEF Pcs
  <2>2. pc'[c] = "Failed" /\ Apart(c)
    BY <1>2, <1>4, <2>1, TurnEffect
  <2>3. ClientOK(c)'
    BY <2>2 DEF ClientOK
  <2>4. QED
    BY <1>1, <1>3, <1>4, <2>2, <2>3, StillStep
<1>5. ASSUME version[c] = Len(stream), stream' = stream \o pending[c],
             NEW l \in {"Have", "Snapshot"},
             Turns(c, l, version[c] + Len(pending[c]), applied[c], <<>>)
      PROVE  ReplayInv'
  <2> DEFINE v == version[c] + Len(pending[c])
  <2>1. /\ stream' \in Seq(Event) /\ v \in Nat /\ Len(stream') = v /\ l \in Pcs
        /\ \A i \in 1..v : stream'[i] =
             IF i <= version[c] THEN stream[i] ELSE pending[c][i - version[c]]
    <3>1. stream' \in Seq(Event) /\ Joined(stream, pending[c], stream')
      BY <1>2, <1>5, JoinedFacts
    <3>2. Len(pending[c]) \in Nat
      BY <1>2, LenFacts
    <3>3. v \in Nat
      BY SMT, <1>2, <3>2
    <3>4. l \in Pcs
      BY <1>5 DEF Pcs
    <3>5. QED
      BY <1>5, <3>1, <3>3, <3>4 DEF Joined
  <2>2. Turns(c, l, v, applied[c], <<>>)
    BY <1>5
  <2>3. /\ Holds(c) /\ Len(pending[c]) \in Nat /\ Len(applied[c]) = v
    BY SMT, <1>1, <1>2, <1>3 DEF ClientOK, Holds
  <2>4. ASSUME NEW i \in 1..v
        PROVE  applied[c][i] = stream'[i]
    <3>1. CASE i <= version[c]
      <4>1. i \in 1..version[c]
        BY SMT, <1>2, <2>1, <3>1
      <4>2. QED
        BY SMT, <2>1, <2>3, <3>1, <4>1 DEF Holds
    <3>2. CASE ~(i <= version[c])
      <4>1. i - version[c] \in 1..Len(pending[c]) /\ version[c] + (i - version[c]) = i
        BY SMT, <1>2, <2>1, <2>3, <3>2
      <4>2. applied[c][version[c] + (i - version[c])] = pending[c][i - version[c]]
        BY <2>3, <4>1 DEF Holds
      <4>3. QED
        BY <2>1, <3>2, <4>1, <4>2
    <3>3. QED
      BY <3>1, <3>2
  <2> HIDE DEF v
  <2>5. applied[c] = stream'
    BY <1>2, <2>1, <2>3, <2>4, SameSeq
  <2>6. version'[c] = v /\ applied'[c] = applied[c] /\ pending'[c] = <<>> /\ Apart(c)
    <3>1. v \in Nat /\ l \in Pcs
      BY <2>1
    <3>2. QED
      BY <1>2, <2>2, <3>1, TurnEffect
  <2>7. ClientOK(c)'
    <3>1. Holds(c)'
      BY <2>1, <2>5, <2>6, WholeHolds
    <3>2. QED
      BY <2>6, <3>1 DEF ClientOK
  <2>8. QED
    BY <1>3, <1>5, <2>6, <2>7, GrownReplay
<1>6. QED
  BY <1>3, <1>4, <1>5

LEMMA NextReplay ==
  ASSUME SourcingType, ReplayInv, [Next]_vars
  PROVE  ReplayInv'
<1> SUFFICES ASSUME Orderly'
             PROVE  ReplayInv'
  BY DEF ReplayInv
<1>1. Orderly /\ SourcingType'
  BY OrderlyBefore, NextType
<1>2. ~DeleteStream
  BY SMT, <1>1 DEF DeleteStream, Orderly
<1>3. CASE UNCHANGED vars
  BY <1>3 DEF ReplayInv, Orderly, SnapshotOK, ClientOK, Holds, vars, snapshot, aggregate
<1>4. QED
  BY <1>1, <1>2, <1>3, LocalReplay, FindReplay, RaiseReplay, SaveReplay DEF Next

LEMMA InitSourcing == Init => SourcingType /\ OnceInv /\ ReplayInv
<1> SUFFICES ASSUME Init PROVE SourcingType /\ OnceInv /\ ReplayInv
  OBVIOUS
<1>1. SourcingType
  BY SMT DEF Init, SourcingType, Pcs
<1>2. OnceInv
  BY ElemsEmpty DEF Init, OnceInv, Unsaved
<1>3. ReplayInv
  <2>1. Len(<<>>) = 0
    OBVIOUS
  <2>2. QED
    BY SMT, <2>1 DEF Init, ReplayInv, SnapshotOK, ClientOK, Holds
<1>4. QED
  BY <1>1, <1>2, <1>3

\* No event is in history twice, whatever saves fail and are repeated and
\* whether or not the stream is deleted and begun again.
THEOREM HistoryHoldsOnce == Spec => []HistoryOnce
<1>1. SourcingType /\ OnceInv /\ [Next]_vars => (SourcingType /\ OnceInv)'
  BY NextType, OnceStep
<1>2. OnceInv => HistoryOnce
  BY DEF OnceInv, Distinct, HistoryOnce
<1>3. QED
  BY <1>1, <1>2, InitSourcing, PTL DEF Spec

\* Until a delete or the reuse of an aggregate after a failed save, find_by_id
\* returns what replaying the whole stream gives, at the stream's version,
\* however often snapshots are taken and whatever is appended between its loads.
THEOREM FindReplaysAll == Spec => FindIsReplay
<1>1. SourcingType /\ ReplayInv /\ [Next]_vars => (SourcingType /\ ReplayInv)'
  BY NextType, NextReplay
<1>2. SourcingType /\ ReplayInv /\ [Next]_vars =>
        [\A c \in Client : Orderly /\ pc[c] = "FindTail" /\ pc'[c] = "Have" =>
           applied'[c] = stream /\ version'[c] = Len(stream)]_vars
  <2> SUFFICES ASSUME SourcingType, ReplayInv, Next, NEW c \in Client, Orderly,
                      pc[c] = "FindTail", pc'[c] = "Have"
               PROVE  applied'[c] = stream /\ version'[c] = Len(stream)
    OBVIOUS
  <2>1. ASSUME NEW d \in Client, FindTail(d)
        PROVE  applied'[c] = stream /\ version'[c] = Len(stream)
    <3>1. d = c
      BY <2>1, FindTailReplays DEF Apart
    <3>2. QED
      BY <2>1, <3>1, FindTailReplays
  <2>2. ASSUME NEW d \in Client,
               New(d) \/ FindSnapshot(d) \/ Raise(d) \/ Save(d) \/ SaveSnapshot(d)
               \/ Retry(d) \/ Discard(d)
        PROVE  FALSE
    <3>1. pc \in [Client -> Pcs]
      BY DEF SourcingType
    <3>2. UNCHANGED pc \/ \E l : pc' = [pc EXCEPT ![d] = l]
      BY <2>2 DEF New, FindSnapshot, Raise, Save, SaveSnapshot, Retry, Discard, Forget, Goto
    <3>3. d = c
      BY <3>1, <3>2
    <3>4. Discard(c)
      BY <2>2, <3>3 DEF New, FindSnapshot, Raise, Save, SaveSnapshot, Retry
    <3>5. QED
      BY <3>1, <3>4 DEF Discard, Forget, Goto
  <2>3. ~DeleteStream
    BY DEF DeleteStream
  <2>4. QED
    BY <2>1, <2>2, <2>3 DEF Next
<1>3. QED
  BY <1>1, <1>2, InitSourcing, PTL DEF Spec, FindIsReplay

-----------------------------------------------------------------------------
(* Natural numbers *)

LEMMA Least ==
  ASSUME NEW T, T \subseteq Nat, T # {}
  PROVE  \E n \in T : \A k \in T : n <= k
<1> DEFINE R == OpToRel(<, Nat)
<1>1. IsWellFoundedOn(R, Nat)
  BY NatLessThanWellFounded
<1>2. PICK n \in T : \A k \in T : ~(<<k, n>> \in R)
  <2> HIDE DEF R
  <2> QED BY <1>1, WFMin
<1>3. \A k \in T : <<k, n>> \in Nat \X Nat /\ <<k, n>>[1] = k /\ <<k, n>>[2] = n
  BY <1>2
<1>4. \A k \in T : ~(k < n)
  BY <1>2, <1>3 DEF OpToRel
<1> QED BY SMT, <1>4

LEMMA Induction ==
  ASSUME NEW T, 0 \in T, \A n \in Nat : n \in T => n + 1 \in T
  PROVE  \A n \in Nat : n \in T
<1> SUFFICES ASSUME Nat \ T # {} PROVE FALSE
  OBVIOUS
<1>1. PICK n \in Nat \ T : \A k \in Nat \ T : n <= k
  BY Least
<1>2. n # 0
  BY <1>1
<1>3. n - 1 \in Nat /\ (n - 1) + 1 = n /\ ~(n <= n - 1)
  BY SMT, <1>1, <1>2
<1> QED BY <1>1, <1>3

LEMMA Greatest ==
  ASSUME NEW n \in Nat, NEW T, T \subseteq 0..n, T # {}
  PROVE  \E m \in T : \A k \in T : m >= k
<1> DEFINE U == {n - k : k \in T}
<1>1. \A k \in T : n - k \in Nat
  BY SMT
<1>2. U \subseteq Nat /\ U # {}
  BY <1>1
<1>3. PICK u \in U : \A v \in U : u <= v
  <2> HIDE DEF U
  <2> QED BY <1>2, Least
<1>4. PICK m \in T : u = n - m
  BY <1>3
<1>5. \A k \in T : n - m <= n - k
  BY <1>3, <1>4
<1>6. \A k \in T : m >= k
  BY SMT, <1>5
<1> QED BY <1>6

-----------------------------------------------------------------------------
(* The wire format *)

Flaws == {"none", "data", "form"}
Payloads == [made : Nat, steps : {<<>>}, flaw : Flaws]
Events ==
  [event_id : Nat, schema_version : Nat, occurred_at : Nat, correlation_id : Nat,
   causation_id : Nat, payload : Payloads]

WireType ==
  /\ forgotten \subseteq 0..(LastRelease - 1)
  /\ release \in [Service -> 0..LastRelease]
  /\ events \in Seq(Events) /\ cause \in Seq(Nat) /\ Len(cause) = Len(events)
  /\ wire \subseteq Events /\ DOMAIN decoded = Service

\* A payload on the wire is of a release, or claims a version that no u32 holds.
Made(e) ==
  \/ e.schema_version \in 0..LastRelease /\ e.payload.made = e.schema_version
  \/ codec = "versioned" /\ e.schema_version = Width

\* What is on the wire, or decoded, is one of the events.
Same(e) ==
  /\ e.event_id \in DOMAIN events
  /\ e.correlation_id = events[e.event_id].correlation_id

CopiesInv ==
  /\ \A e \in wire : Made(e) /\ Same(e)
  /\ \A s \in Service : \A d \in decoded[s] : Same(d.event)

\* Every event names an earlier one as its cause, and takes over its flow.
Inherited(i) ==
  IF events[cause[i]].correlation_id # 0 THEN events[cause[i]].correlation_id ELSE cause[i]

LinkInv ==
  \A i \in DOMAIN events :
    /\ cause[i] \in 0..(i - 1) /\ events[i].causation_id = cause[i]
    /\ cause[i] # 0 => events[i].correlation_id = Inherited(i)

WireInv == WireType /\ CopiesInv /\ LinkInv /\ W!DecodedCurrent

\* A release that registers upcasters knows the version above the last of them.
LEMMA KnownVersion ==
  ASSUME W!WireAssumption, WireType, NEW s \in Service, W!Registered(s) # {}
  PROVE  /\ W!MaxKnownVersion(W!Registered(s)) <= release[s]
         /\ \A from \in W!Registered(s) : from < W!MaxKnownVersion(W!Registered(s))
<1> DEFINE n == release[s]
           R == W!Registered(s)
           K == {from + 1 : from \in R}
<1>1. n \in Nat /\ R \subseteq 0..(n - 1) /\ R # {}
  BY SMT DEF WireType, W!WireAssumption, W!Registered
<1> HIDE DEF n, R
<1>2. \A v \in R : v \in Nat /\ v + 1 <= n /\ v + 1 \in 0..n /\ \A m \in Nat : m >= v + 1 => v < m
  BY SMT, <1>1
<1>3. K \subseteq 0..n /\ K # {}
  BY <1>1, <1>2
<1>4. PICK m \in K : \A y \in K : m >= y
  <2> HIDE DEF K
  <2> QED BY <1>1, <1>3, Greatest
<1>5. W!Max(K) \in K /\ \A y \in K : W!Max(K) >= y
  <2> HIDE DEF K
  <2> QED BY <1>4 DEF W!Max
<1>6. W!MaxKnownVersion(W!Registered(s)) = W!Max(K)
  BY DEF W!MaxKnownVersion, R
<1>7. W!Max(K) \in Nat /\ W!Max(K) <= n
  <2>1. \A z \in 0..n : z \in Nat /\ z <= n
    BY SMT, <1>1
  <2> HIDE DEF K
  <2> QED BY <1>3, <1>5, <2>1
<1>8. \A from \in R : from < W!Max(K)
  BY <1>2, <1>5, <1>7
<1> QED BY <1>6, <1>7, <1>8 DEF n, R

\* The loop of decode stops, at the payload's version or after it.
LEMMA Stops ==
  ASSUME W!WireAssumption, WireType, NEW s \in Service, NEW level \in 0..LastRelease
  PROVE  /\ W!StopsAt(W!Registered(s), level) \in Nat
         /\ W!StopsAt(W!Registered(s), level) >= level
<1> DEFINE K == {v \in level..(LastRelease + 1) : v \notin W!Registered(s)}
<1>1. LastRelease \in Nat /\ release[s] \in 0..LastRelease
  BY DEF WireType, W!WireAssumption
<1>2. LastRelease + 1 \in K
  BY SMT, <1>1 DEF W!Registered
<1>3. K \subseteq Nat /\ \A x \in K : x >= level
  BY SMT, <1>1
<1> HIDE DEF K
<1>4. \E x \in K : \A y \in K : x <= y
  BY <1>2, <1>3, Least
<1>5. W!Min(K) \in K
  BY <1>4 DEF W!Min
<1> QED BY <1>3, <1>5 DEF W!StopsAt, K

\* A decoded event at release n.
Current(got, n) ==
  /\ got.payload.steps = [i \in 1..(got.schema_version - got.payload.made) |->
                            got.payload.made + i - 1]
  /\ ~lenient => got.schema_version = n
  /\ codec = "versioned" /\ (0..(n - 1)) \ forgotten # {} =>
       got.schema_version <= n /\ \A from \in (0..(n - 1)) \ forgotten : from < got.schema_version

\* decode keeps an event's id and its flow, and applies the upcasts from the
\* version it was made at, each once and in order.
LEMMA DecodesVersioned ==
  ASSUME W!WireAssumption, WireType, NEW s \in Service, NEW e \in Events, Made(e),
         NEW got \in W!Versioned(s, e)
  PROVE  /\ got.event_id = e.event_id /\ got.correlation_id = e.correlation_id
         /\ Current(got, release[s])
<1> DEFINE top == W!StopsAt(W!Registered(s), e.schema_version)
           steps == [i \in 1..(top - e.schema_version) |-> e.schema_version + i - 1]
<1>1. /\ ~(e.schema_version >= Width) /\ ~W!Refused(W!Registered(s), top) /\ W!Fits(s, top)
      /\ got = W!Upcast(e, top)
  BY DEF W!Versioned
<1>2. e.schema_version \in 0..LastRelease /\ e.payload.made = e.schema_version
  <2>1. Width >= Width
    BY SMT DEF W!WireAssumption
  <2> QED BY <1>1, <2>1 DEF Made
<1>3. e.payload \in Payloads
  BY DEF Events
<1> HIDE DEF top
<1>4. /\ got.event_id = e.event_id /\ got.correlation_id = e.correlation_id
      /\ got.schema_version = top /\ got.payload = [e.payload EXCEPT !.steps = steps]
  BY <1>1 DEF W!Upcast, Events
<1>5. got.payload.steps = steps /\ got.payload.made = e.payload.made
  <2> HIDE DEF steps
  <2> QED BY <1>3, <1>4 DEF Payloads
<1>6. W!Registered(s) # {} => top <= release[s] /\ \A from \in W!Registered(s) : from < top
  BY <1>1, KnownVersion DEF W!Refused
<1>7. ~lenient => top = release[s]
  BY <1>1 DEF W!Fits
<1>8. got.payload.steps = [i \in 1..(got.schema_version - got.payload.made) |->
                             got.payload.made + i - 1]
  BY <1>2, <1>4, <1>5
<1> HIDE DEF steps
<1> QED BY <1>4, <1>6, <1>7, <1>8 DEF W!Registered, Current

LEMMA NoSteps ==
  ASSUME NEW v \in Nat
  PROVE  [i \in 1..(v - v) |-> v + i - 1] = <<>>
BY SMT

LEMMA Decodes ==
  ASSUME W!WireAssumption, WireType, NEW s \in Service, NEW e \in Events, Made(e),
         NEW got \in W!Decode(s, e)
  PROVE  /\ got.event_id = e.event_id /\ got.correlation_id = e.correlation_id
         /\ Current(got, release[s])
<1>1. CASE codec # "versioned"
  <2>1. got = e /\ W!Fits(s, e.schema_version)
    BY <1>1 DEF W!Decode, W!Protobuf
  <2>2. e.payload.made = e.schema_version /\ e.schema_version \in Nat
    <3>1. e.payload.made = e.schema_version
      BY <1>1 DEF Made
    <3> QED BY <3>1 DEF Events
  <2>3. e.payload.steps = <<>>
    <3>1. e.payload \in Payloads
      BY DEF Events
    <3> QED BY <3>1 DEF Payloads
  <2>4. e.payload.steps = [i \in 1..(e.schema_version - e.payload.made) |->
                             e.payload.made + i - 1]
    BY <2>2, <2>3, NoSteps
  <2>5. ~lenient => e.schema_version = release[s]
    BY <2>1 DEF W!Fits
  <2> QED BY <1>1, <2>1, <2>4, <2>5 DEF Current
<1>2. CASE codec = "versioned"
  BY <1>2, DecodesVersioned DEF W!Decode
<1> QED BY <1>1, <1>2

\* The events that are created.
Creates(e, of) ==
  /\ W!Create(e, of) /\ e.event_id = Len(events) + 1 /\ e.causation_id = of /\ Made(e)
  /\ \/ of = 0
     \/ /\ of \in DOMAIN events
        /\ e.correlation_id =
             IF events[of].correlation_id # 0 THEN events[of].correlation_id ELSE of

IsNew(e, level, correlation) ==
  /\ e \in Events /\ e.event_id = Len(events) + 1 /\ e.causation_id = 0
  /\ e.schema_version = level /\ e.payload.made = level
  /\ e.correlation_id = correlation

LEMMA NewTyped ==
  ASSUME WireType, NEW level \in Nat, NEW occurred_at \in Nat, NEW correlation \in Nat,
         NEW flaw \in Flaws
  PROVE  IsNew(W!NewEvent(level, occurred_at, correlation, flaw), level, correlation)
<1>1. Len(events) \in Nat /\ Len(events) + 1 \in Nat /\ 0 \in Nat
  BY SMT DEF WireType
<1>2. [made |-> level, steps |-> <<>>, flaw |-> flaw] \in Payloads
  BY DEF Payloads
<1> QED BY <1>1, <1>2 DEF W!NewEvent, Events, IsNew

LEMMA EmitCreates ==
  ASSUME W!WireAssumption, WireType, NEW s \in Service, NEW c \in {0, Flow},
         NEW flaw \in {"none", "data"}, W!Emit(s, 1, c, flaw)
  PROVE  \E e \in Events, of \in Nat : Creates(e, of)
<1>1. /\ release[s] \in 0..LastRelease /\ release[s] \in Nat /\ c \in Nat /\ 0 \in Nat /\ 1 \in Nat
  BY SMT DEF WireType, W!WireAssumption
<1>0. flaw \in Flaws
  BY DEF Flaws
<1>2. PICK e : e = W!NewEvent(release[s], 1, c, flaw)
  OBVIOUS
<1>3. /\ e \in Events /\ e.event_id = Len(events) + 1 /\ e.causation_id = 0
      /\ e.schema_version = release[s] /\ e.payload.made = release[s]
  <2>1. IsNew(e, release[s], c)
    BY <1>0, <1>1, <1>2, NewTyped
  <2> QED BY <2>1 DEF IsNew
<1>4. W!Create(e, 0)
  BY <1>2 DEF W!Emit
<1>5. Creates(e, 0)
  BY <1>1, <1>3, <1>4 DEF Creates, Made
<1> QED BY <1>1, <1>3, <1>5

LEMMA ForeignCreates ==
  ASSUME W!WireAssumption, WireType, W!EmitForeign
  PROVE  \E e \in Events, of \in Nat : Creates(e, of)
<1>1. Width \in Nat /\ LastRelease \in Nat /\ 0 \in Nat /\ 0 \in 0..LastRelease
  BY SMT DEF W!WireAssumption
<1>2. "none" \in Flaws /\ "form" \in Flaws
  BY DEF Flaws
<1>3. CASE W!Create(W!NewEvent(0, 0, 0, "form"), 0)
  <2>1. PICK e : e = W!NewEvent(0, 0, 0, "form")
    OBVIOUS
  <2>2. IsNew(e, 0, 0)
    BY <1>1, <1>2, <2>1, NewTyped
  <2>3. Creates(e, 0)
    BY <1>1, <1>3, <2>1, <2>2 DEF Creates, Made, IsNew
  <2> QED BY <1>1, <2>2, <2>3 DEF IsNew
<1>4. CASE /\ codec = "versioned"
           /\ W!Create([W!NewEvent(0, 0, 0, "none") EXCEPT !.schema_version = Width], 0)
  <2>1. PICK n : n = W!NewEvent(0, 0, 0, "none")
    OBVIOUS
  <2>2. IsNew(n, 0, 0)
    BY <1>1, <1>2, <2>1, NewTyped
  <2>3. PICK e : e = [n EXCEPT !.schema_version = Width]
    OBVIOUS
  <2>4. /\ e \in Events /\ e.event_id = Len(events) + 1 /\ e.causation_id = 0
        /\ e.schema_version = Width
    BY <1>1, <2>2, <2>3 DEF Events, IsNew
  <2>5. W!Create(e, 0)
    BY <1>4, <2>1, <2>3
  <2>6. Creates(e, 0)
    BY <1>4, <2>4, <2>5 DEF Creates, Made
  <2> QED BY <1>1, <2>4, <2>6
<1> QED BY <1>3, <1>4 DEF W!EmitForeign

LEMMA ReactCreates ==
  ASSUME W!WireAssumption, WireType, CopiesInv, NEW s \in Service,
         NEW d \in decoded[s], W!React(s, d)
  PROVE  \E e \in Events, of \in Nat : Creates(e, of)
<1>1. /\ release[s] \in 0..LastRelease /\ release[s] \in Nat /\ 0 \in Nat /\ 1 \in Nat
  BY SMT DEF WireType, W!WireAssumption
<1>0. "none" \in Flaws
  BY DEF Flaws
<1>2. PICK n : n = W!NewEvent(release[s], 1, 0, "none")
  OBVIOUS
<1>3. /\ n \in Events /\ n.event_id = Len(events) + 1
      /\ n.schema_version = release[s] /\ n.payload.made = release[s]
  <2>1. IsNew(n, release[s], 0)
    BY <1>0, <1>1, <1>2, NewTyped
  <2> QED BY <2>1 DEF IsNew
<1>4. PICK of, flow : /\ of = d.event.event_id
                      /\ flow = IF d.event.correlation_id # 0 THEN d.event.correlation_id ELSE of
  OBVIOUS
<1>5. /\ of \in DOMAIN events /\ of \in Nat /\ flow \in Nat
      /\ flow = IF events[of].correlation_id # 0 THEN events[of].correlation_id ELSE of
  <2>1. Same(d.event)
    BY DEF CopiesInv
  <2>2. of \in DOMAIN events /\ d.event.correlation_id = events[of].correlation_id
    BY <1>4, <2>1 DEF Same
  <2>3. of \in Nat /\ events[of] \in Events
    BY SMT, <2>2 DEF WireType
  <2>4. events[of].correlation_id \in Nat
    BY <2>3 DEF Events
  <2> QED BY <1>4, <2>2, <2>3, <2>4
<1>6. PICK e : e = [n EXCEPT !.causation_id = of, !.correlation_id = flow]
  OBVIOUS
<1>7. /\ e \in Events /\ e.event_id = Len(events) + 1 /\ e.causation_id = of
      /\ e.schema_version = release[s] /\ e.payload.made = release[s] /\ e.correlation_id = flow
  BY <1>3, <1>5, <1>6 DEF Events
<1>8. W!Create(e, of)
  BY <1>2, <1>4, <1>6 DEF W!React, W!CausedBy
<1>9. Creates(e, of)
  BY <1>1, <1>5, <1>7, <1>8 DEF Creates, Made
<1> QED BY <1>5, <1>7, <1>9

\* The steps of the services.
LEMMA WireSteps ==
  ASSUME W!WireAssumption, WireType, CopiesInv, W!Next
  PROVE  \/ \E e \in Events, of \in Nat : Creates(e, of)
         \/ \E s \in Service : (\E e \in wire : W!Receive(s, e)) \/ W!Deploy(s)
<1>1. CASE W!EmitForeign
  BY <1>1, ForeignCreates
<1>2. ASSUME NEW s \in Service, NEW c \in {0, Flow}, NEW flaw \in {"none", "data"},
             W!Emit(s, 1, c, flaw)
      PROVE  \E e \in Events, of \in Nat : Creates(e, of)
  BY <1>2, EmitCreates
<1>3. ASSUME NEW s \in Service, NEW d \in decoded[s], W!React(s, d)
      PROVE  \E e \in Events, of \in Nat : Creates(e, of)
  BY <1>3, ReactCreates
<1> QED BY <1>1, <1>2, <1>3 DEF W!Next, W!ReceiveAny

LEMMA Encoded ==
  ASSUME NEW e \in Events
  PROVE  /\ W!Encode(e) \in Events /\ W!Encode(e).event_id = e.event_id
         /\ W!Encode(e).correlation_id = e.correlation_id
         /\ W!Encode(e).schema_version = e.schema_version /\ W!Encode(e).payload = e.payload
<1>1. (e.occurred_at \div 2) * 2 \in Nat
  <2>1. e.occurred_at \in Nat
    BY DEF Events
  <2> QED BY SMT, <2>1
<1> DEFINE t == (e.occurred_at \div 2) * 2
           x == [e EXCEPT !.occurred_at = t]
<1>2. W!Encode(e) = IF codec = "protobuf" THEN x ELSE e
  BY DEF W!Encode
<1> HIDE DEF t
<1>3. /\ x \in Events /\ x.event_id = e.event_id /\ x.correlation_id = e.correlation_id
      /\ x.schema_version = e.schema_version /\ x.payload = e.payload
  BY <1>1 DEF Events, t
<1> HIDE DEF x
<1> QED BY <1>2, <1>3

\* The events after one was created.
LEMMA Created ==
  ASSUME WireType, NEW e \in Events, NEW of \in Nat, Creates(e, of)
  PROVE  /\ DOMAIN events' = DOMAIN events \cup {e.event_id} /\ events'[e.event_id] = e
         /\ cause'[e.event_id] = of /\ e.event_id \notin DOMAIN events
         /\ DOMAIN events = 1..(e.event_id - 1) /\ e.event_id \in Nat \ {0}
         /\ \A i \in DOMAIN events : events'[i] = events[i] /\ cause'[i] = cause[i]
         /\ events' \in Seq(Events) /\ cause' \in Seq(Nat) /\ Len(cause') = Len(events')
<1>1. /\ events' = Append(events, e) /\ cause' = Append(cause, of) /\ e.event_id = Len(events) + 1
  BY DEF Creates, W!Create
<1>2. events \in Seq(Events) /\ cause \in Seq(Nat) /\ Len(cause) = Len(events)
  BY DEF WireType
<1> QED BY SMT, <1>1, <1>2

LEMMA WireTypeNext ==
  ASSUME W!WireAssumption, WireType, CopiesInv, W!Next
  PROVE  WireType'
<1>1. ASSUME NEW e \in Events, NEW of \in Nat, Creates(e, of) PROVE WireType'
  <2>1. wire' = wire \cup {W!Encode(e)} /\ UNCHANGED <<codec, forgotten, release, decoded>>
    BY <1>1 DEF Creates, W!Create, W!config
  <2>2. W!Encode(e) \in Events
    BY Encoded
  <2>3. events' \in Seq(Events) /\ cause' \in Seq(Nat) /\ Len(cause') = Len(events')
    BY <1>1, Created
  <2> QED BY <2>1, <2>2, <2>3 DEF WireType
<1>2. ASSUME NEW s \in Service, NEW e \in wire, W!Receive(s, e) PROVE WireType'
  BY <1>2 DEF WireType, W!Receive, W!config
<1>3. ASSUME NEW s \in Service, W!Deploy(s) PROVE WireType'
  <2>1. release' = [release EXCEPT ![s] = release[s] + 1] /\ release[s] < LastRelease
        /\ UNCHANGED <<codec, forgotten, events, cause, wire, decoded>>
    BY <1>3 DEF W!Deploy, W!config
  <2>2. release[s] + 1 \in 0..LastRelease
    BY SMT, <2>1 DEF WireType, W!WireAssumption
  <2> QED BY <2>1, <2>2 DEF WireType
<1> QED BY <1>1, <1>2, <1>3, WireSteps

LEMMA CopiesNext ==
  ASSUME W!WireAssumption, WireType, CopiesInv, W!Next
  PROVE  CopiesInv'
<1>1. ASSUME NEW e \in Events, NEW of \in Nat, Creates(e, of) PROVE CopiesInv'
  <2>1. wire' = wire \cup {W!Encode(e)} /\ UNCHANGED <<codec, decoded>> /\ Made(e)
    BY <1>1 DEF Creates, W!Create, W!config
  <2>2. /\ DOMAIN events' = DOMAIN events \cup {e.event_id} /\ events'[e.event_id] = e
        /\ \A i \in DOMAIN events : events'[i] = events[i]
    BY <1>1, Created
  <2>3. \A x : (Same(x) => Same(x)') /\ (Made(x) => Made(x)')
    BY <2>1, <2>2 DEF Same, Made
  <2>5. \A x \in wire' : (Made(x) /\ Same(x))'
    <3>1. PICK y : y = W!Encode(e)
      OBVIOUS
    <3>2. (Made(y) /\ Same(y))'
      <4>1. y.event_id = e.event_id /\ y.correlation_id = e.correlation_id
            /\ y.schema_version = e.schema_version /\ y.payload = e.payload
        BY <3>1, Encoded
      <4> QED BY <2>1, <2>2, <4>1 DEF Same, Made
    <3> QED BY <2>1, <2>3, <3>1, <3>2 DEF CopiesInv
  <2>6. \A s \in Service : \A d \in decoded'[s] : Same(d.event)'
    BY <2>1, <2>3 DEF CopiesInv
  <2> QED BY <2>5, <2>6 DEF CopiesInv
<1>2. ASSUME NEW s \in Service, NEW e \in wire, W!Receive(s, e) PROVE CopiesInv'
  <2>1. PICK got \in W!Decode(s, e) :
          decoded' = [decoded EXCEPT ![s] = decoded[s] \cup {[event |-> got, at |-> release[s]]}]
    BY <1>2 DEF W!Receive
  <2>2. UNCHANGED <<codec, events, wire>>
    BY <1>2 DEF W!Receive, W!config
  <2>3. e \in Events /\ Made(e) /\ Same(e)
    BY DEF WireType, CopiesInv
  <2>4. Same(got)
    <3>1. got.event_id = e.event_id /\ got.correlation_id = e.correlation_id
      BY <2>3, Decodes
    <3> QED BY <2>3, <3>1 DEF Same
  <2>5. PICK x : x = [event |-> got, at |-> release[s]]
    OBVIOUS
  <2>6. Same(x.event)
    BY <2>4, <2>5
  <2>7. \A t \in Service : \A d \in decoded'[t] : d \in decoded[t] \/ d = x
    BY <2>1, <2>5 DEF WireType
  <2>8. \A y : (Same(y) => Same(y)') /\ (Made(y) => Made(y)')
    BY <2>2 DEF Same, Made
  <2>9. \A t \in Service : \A d \in decoded'[t] : Same(d.event)'
    BY <2>6, <2>7, <2>8 DEF CopiesInv
  <2>10. \A y \in wire' : (Made(y) /\ Same(y))'
    BY <2>2, <2>8 DEF CopiesInv
  <2> QED BY <2>9, <2>10 DEF CopiesInv
<1>3. ASSUME NEW s \in Service, W!Deploy(s) PROVE CopiesInv'
  BY <1>3 DEF CopiesInv, Made, Same, W!Deploy, W!config
<1> QED BY <1>1, <1>2, <1>3, WireSteps

LEMMA LinkNext ==
  ASSUME W!WireAssumption, WireType, CopiesInv, LinkInv, W!Next
  PROVE  LinkInv'
<1>1. ASSUME NEW e \in Events, NEW of \in Nat, Creates(e, of) PROVE LinkInv'
  <2> DEFINE n == e.event_id
  <2>1. /\ DOMAIN events' = DOMAIN events \cup {n} /\ events'[n] = e
        /\ cause'[n] = of /\ n \notin DOMAIN events
        /\ DOMAIN events = 1..(n - 1) /\ n \in Nat \ {0}
        /\ \A i \in DOMAIN events : events'[i] = events[i] /\ cause'[i] = cause[i]
    BY <1>1, Created
  <2>2. /\ e.causation_id = of
        /\ \/ of = 0
           \/ /\ of \in DOMAIN events
              /\ e.correlation_id =
                   IF events[of].correlation_id # 0 THEN events[of].correlation_id ELSE of
    BY <1>1 DEF Creates
  <2> HIDE DEF n
  <2>3. of \in 0..(n - 1)
    BY SMT, <2>1, <2>2
  <2>4. of # 0 => e.correlation_id = Inherited(n)'
    BY <2>1, <2>2 DEF Inherited
  <2>5. ASSUME NEW i \in DOMAIN events
        PROVE  /\ cause'[i] \in 0..(i - 1) /\ events'[i].causation_id = cause'[i]
               /\ cause'[i] # 0 => events'[i].correlation_id = Inherited(i)'
    <3>1. /\ cause[i] \in 0..(i - 1) /\ events[i].causation_id = cause[i]
          /\ cause[i] # 0 => events[i].correlation_id = Inherited(i)
      BY DEF LinkInv
    <3>2. events'[i] = events[i] /\ cause'[i] = cause[i]
      BY <2>1
    <3>3. cause[i] # 0 => cause[i] \in DOMAIN events
      BY SMT, <2>1, <3>1
    <3>4. cause[i] # 0 => Inherited(i)' = Inherited(i)
      BY <2>1, <3>2, <3>3 DEF Inherited
    <3> QED BY <3>1, <3>2, <3>4
  <2> QED BY <2>1, <2>2, <2>3, <2>4, <2>5 DEF LinkInv
<1>2. ASSUME UNCHANGED <<events, cause>> PROVE LinkInv'
  BY <1>2 DEF LinkInv, Inherited
<1> QED BY <1>1, <1>2, WireSteps DEF W!Receive, W!Deploy

LEMMA DecodedNext ==
  ASSUME W!WireAssumption, WireType, CopiesInv, W!DecodedCurrent, W!Next
  PROVE  W!DecodedCurrent'
<1>1. CASE UNCHANGED <<W!config, decoded>>
  BY <1>1 DEF W!DecodedCurrent, W!config
<1>2. ASSUME NEW s \in Service, NEW e \in wire, W!Receive(s, e) PROVE W!DecodedCurrent'
  <2>1. PICK got \in W!Decode(s, e) :
          decoded' = [decoded EXCEPT ![s] = decoded[s] \cup {[event |-> got, at |-> release[s]]}]
    BY <1>2 DEF W!Receive
  <2>2. UNCHANGED <<codec, forgotten, lenient>>
    BY <1>2 DEF W!Receive, W!config
  <2>3. e \in Events /\ Made(e)
    BY DEF WireType, CopiesInv
  <2>4. PICK x : x = [event |-> got, at |-> release[s]]
    OBVIOUS
  <2>5. Current(x.event, x.at)
    <3>1. Current(got, release[s])
      BY <2>3, Decodes
    <3> QED BY <2>4, <3>1
  <2>6. \A t \in Service : \A d \in decoded'[t] : d \in decoded[t] \/ d = x
    BY <2>1, <2>4 DEF WireType
  <2>7. \A t \in Service : \A d \in decoded[t] : Current(d.event, d.at)
    BY DEF W!DecodedCurrent, Current
  <2>8. \A t \in Service : \A d \in decoded'[t] : Current(d.event, d.at)
    BY <2>5, <2>6, <2>7
  <2>9. \A y, n : Current(y, n) => Current(y, n)'
    BY <2>2 DEF Current
  <2>10. \A t \in Service : \A d \in decoded'[t] : Current(d.event, d.at)'
    BY <2>8, <2>9
  <2> QED BY <2>10 DEF W!DecodedCurrent, Current
<1> QED BY <1>1, <1>2, WireSteps DEF Creates, W!Create, W!Deploy

\* Where the flow of each event began, found by going back from cause to cause.
IsRoot(f, n) == \A i \in 1..n : f[i] = IF cause[i] = 0 THEN i ELSE f[cause[i]]

LEMMA RootExists ==
  ASSUME WireType, LinkInv, NEW n \in Nat, n <= Len(events)
  PROVE  \E f \in [1..n -> 1..n] : IsRoot(f, n)
<1> DEFINE T == {k \in Nat : k <= n => \E f \in [1..k -> 1..k] : IsRoot(f, k)}
<1>1. 0 \in T
  <2> DEFINE f == [j \in 1..0 |-> j]
  <2>1. 1..0 = {}
    BY SMT
  <2>2. f \in [1..0 -> 1..0]
    OBVIOUS
  <2>3. IsRoot(f, 0)
    BY <2>1 DEF IsRoot
  <2> HIDE DEF f
  <2> QED BY <2>2, <2>3
<1>2. ASSUME NEW k \in Nat, k \in T PROVE k + 1 \in T
  <2> SUFFICES ASSUME k + 1 <= n PROVE \E g \in [1..(k + 1) -> 1..(k + 1)] : IsRoot(g, k + 1)
    BY SMT
  <2>1. k <= n /\ k + 1 \in 1..(k + 1) /\ 1..k \subseteq 1..(k + 1)
        /\ \A j \in 1..(k + 1) : j # k + 1 => j \in 1..k
    BY SMT
  <2>2. PICK f \in [1..k -> 1..k] : IsRoot(f, k)
    BY <1>2, <2>1
  <2>3. \A i \in 1..(k + 1) : cause[i] \in 0..(i - 1)
    <3>1. \A i \in 1..(k + 1) : i \in DOMAIN events
      BY SMT DEF WireType
    <3> QED BY <3>1 DEF LinkInv
  <2>4. \A i \in 1..(k + 1) : cause[i] # 0 => cause[i] \in 1..k /\ cause[i] # k + 1
    <3> SUFFICES ASSUME NEW i \in 1..(k + 1), cause[i] # 0
                 PROVE  cause[i] \in 1..k /\ cause[i] # k + 1
      OBVIOUS
    <3>1. PICK c : c = cause[i]
      OBVIOUS
    <3>2. c \in 0..(i - 1) /\ c # 0
      BY <2>3, <3>1
    <3>3. c \in 1..k /\ c # k + 1
      BY SMT, <3>2
    <3> QED BY <3>1, <3>3
  <2> DEFINE first == IF cause[k + 1] = 0 THEN k + 1 ELSE f[cause[k + 1]]
             g == [j \in 1..(k + 1) |-> IF j = k + 1 THEN first ELSE f[j]]
  <2>5. first \in 1..(k + 1)
    BY <2>1, <2>4
  <2>6. \A j \in 1..(k + 1) : j # k + 1 => f[j] \in 1..(k + 1) /\ g[j] = f[j]
    BY <2>1
  <2>7. g \in [1..(k + 1) -> 1..(k + 1)] /\ g[k + 1] = first
    <3> HIDE DEF first
    <3> QED BY <2>1, <2>5, <2>6
  <2>8. ASSUME NEW i \in 1..(k + 1) PROVE g[i] = IF cause[i] = 0 THEN i ELSE g[cause[i]]
    <3>1. cause[i] # 0 => g[cause[i]] = f[cause[i]]
      BY <2>1, <2>4, <2>6
    <3>2. g[k + 1] = IF cause[k + 1] = 0 THEN k + 1 ELSE f[cause[k + 1]]
      BY <2>7
    <3> HIDE DEF g
    <3>3. CASE i = k + 1
      BY <3>1, <3>2, <3>3
    <3>4. CASE i # k + 1
      BY <2>1, <2>2, <2>6, <3>1, <3>4 DEF IsRoot
    <3> QED BY <3>3, <3>4
  <2> HIDE DEF g, first
  <2> QED BY <2>7, <2>8 DEF IsRoot
<1> HIDE DEF T
<1>3. n \in T /\ n <= n
  <2>1. \A k \in Nat : k \in T
    BY <1>1, <1>2, Induction
  <2> QED BY SMT, <2>1
<1> QED BY <1>3 DEF T

\* What an event at place i says of the flow whose first event is f[i].
Traced(f, i) ==
  /\ f[i] \in 1..i
  /\ cause[i] = 0 => f[i] = i
  /\ cause[i] # 0 =>
       events[i].correlation_id =
         IF events[f[i]].correlation_id # 0 THEN events[f[i]].correlation_id ELSE f[i]

LEMMA AllTraced ==
  ASSUME WireType, LinkInv, NEW f, IsRoot(f, Len(events))
  PROVE  \A i \in DOMAIN events : Traced(f, i)
<1> DEFINE n == Len(events)
           T == {k \in Nat : \A i \in 1..k : i <= n => Traced(f, i)}
<1>0. n \in Nat /\ DOMAIN events = 1..n
  BY SMT DEF WireType
<1> HIDE DEF n
<1>1. 0 \in T
  BY SMT
<1>2. ASSUME NEW k \in Nat, k \in T PROVE k + 1 \in T
  <2>1. ASSUME k + 1 <= n PROVE Traced(f, k + 1)
    <3> DEFINE i == k + 1
    <3>1. i \in 1..n /\ i \in DOMAIN events /\ i \in Nat /\ i # 0 /\ i \in 1..i
      BY SMT, <1>0, <2>1
    <3>2. cause[i] \in 0..(i - 1) /\ (cause[i] # 0 => events[i].correlation_id = Inherited(i))
      BY <3>1 DEF LinkInv
    <3>3. f[i] = IF cause[i] = 0 THEN i ELSE f[cause[i]]
      BY <3>1 DEF IsRoot, n
    <3>4. CASE cause[i] = 0
      BY <3>1, <3>3, <3>4 DEF Traced
    <3>5. CASE cause[i] # 0
      <4>1. PICK c : c = cause[i]
        OBVIOUS
      <4>2. c \in 1..k /\ c <= n /\ c # 0 /\ 1..c \subseteq 1..i
        <5>1. c \in 0..(i - 1) /\ c # 0
          BY <3>2, <3>5, <4>1
        <5> QED BY SMT, <1>0, <2>1, <5>1
      <4>3. Traced(f, c)
        BY <1>2, <4>2
      <4>4. f[i] = f[c]
        BY <3>3, <3>5, <4>1
      <4>5. events[i].correlation_id =
              IF events[c].correlation_id # 0 THEN events[c].correlation_id ELSE c
        BY <3>2, <3>5, <4>1 DEF Inherited
      <4>6. f[c] # 0 /\ f[c] \in 1..i
        BY SMT, <4>2, <4>3 DEF Traced
      <4>7. CASE cause[c] = 0
        BY <3>5, <4>3, <4>4, <4>5, <4>6, <4>7 DEF Traced
      <4>8. CASE cause[c] # 0
        <5>1. events[c].correlation_id =
               IF events[f[c]].correlation_id # 0 THEN events[f[c]].correlation_id ELSE f[c]
          BY <4>3, <4>8 DEF Traced
        <5>2. events[c].correlation_id # 0
          BY <5>1, <4>6
        <5> QED BY <3>5, <4>4, <4>5, <4>6, <5>1, <5>2 DEF Traced
      <4> QED BY <4>7, <4>8
    <3> QED BY <3>4, <3>5
  <2>2. \A i \in 1..(k + 1) : i \in 1..k \/ i = k + 1
    BY SMT
  <2>3. k + 1 \in Nat
    BY SMT
  <2> QED BY <1>2, <2>1, <2>2, <2>3
<1>3. \A k \in Nat : k \in T
  <2> HIDE DEF T
  <2> QED BY <1>1, <1>2, Induction
<1>4. \A i \in 1..n : i <= n
  BY SMT, <1>0
<1> QED BY <1>0, <1>3, <1>4

LEMMA WireTraces ==
  ASSUME WireType, LinkInv
  PROVE  W!FlowTraced
<1> DEFINE n == Len(events)
           Is(f) == f = [i \in DOMAIN cause |-> IF cause[i] = 0 THEN i ELSE f[cause[i]]]
           Root == CHOOSE f : Is(f)
<1>1. n \in Nat /\ n <= Len(events) /\ DOMAIN cause = 1..n /\ DOMAIN events = 1..n
  BY SMT DEF WireType
<1>2. PICK f \in [1..n -> 1..n] : IsRoot(f, n)
  <2> HIDE DEF n
  <2> QED BY <1>1, RootExists
<1> HIDE DEF n
<1>3. Is(f)
  <2>1. f = [i \in 1..n |-> f[i]]
    BY <1>2
  <2>2. \A i \in 1..n : f[i] = IF cause[i] = 0 THEN i ELSE f[cause[i]]
    BY <1>2 DEF IsRoot
  <2> DEFINE g == [i \in 1..n |-> IF cause[i] = 0 THEN i ELSE f[cause[i]]]
  <2>3. g = f
    BY <1>2, <2>2
  <2> QED BY <1>1, <2>3
<1>4. Is(Root)
  <2> HIDE DEF Is
  <2> QED BY <1>3
<1>5. IsRoot(Root, n)
  <2>1. PICK r : r = Root
    OBVIOUS
  <2>2. r = [i \in 1..n |-> IF cause[i] = 0 THEN i ELSE r[cause[i]]]
    <3>1. Is(r)
      <4> HIDE DEF Is, Root
      <4> QED BY <1>4, <2>1
    <3> HIDE DEF Root
    <3> QED BY <1>1, <3>1
  <2>3. IsRoot(r, n)
    BY <2>2 DEF IsRoot
  <2> HIDE DEF Root
  <2> QED BY <2>1, <2>3
<1>6. \A i \in DOMAIN events : Traced(Root, i)
  <2> HIDE DEF Root
  <2> QED BY <1>5, AllTraced DEF n
<1>7. \A i \in DOMAIN events :
        /\ events[i].causation_id = cause[i]
        /\ cause[i] # 0 =>
             events[i].correlation_id =
               IF events[Root[i]].correlation_id # 0 THEN events[Root[i]].correlation_id ELSE Root[i]
  <2> HIDE DEF Root
  <2> QED BY <1>6 DEF Traced, LinkInv
<1> QED BY <1>7 DEF W!FlowTraced

LEMMA WireInitially ==
  ASSUME W!WireAssumption, W!Init
  PROVE  WireInv
<1>1. events = <<>> /\ cause = <<>> /\ wire = {} /\ decoded = [s \in Service |-> {}]
      /\ release = [s \in Service |-> 0] /\ forgotten \subseteq 0..(LastRelease - 1)
  BY DEF W!Init
<1>2. <<>> \in Seq(Events) /\ <<>> \in Seq(Nat) /\ DOMAIN <<>> = {}
  BY SMT
<1>3. 0 \in 0..LastRelease
  BY SMT DEF W!WireAssumption
<1>4. release \in [Service -> 0..LastRelease] /\ DOMAIN decoded = Service
  BY <1>1, <1>3
<1>5. WireType
  BY <1>1, <1>2, <1>4 DEF WireType
<1>6. DOMAIN events = {}
  BY <1>1, <1>2
<1>7. LinkInv
  BY <1>6 DEF LinkInv
<1>8. CopiesInv
  BY <1>1 DEF CopiesInv
<1>9. W!DecodedCurrent
  BY <1>1 DEF W!DecodedCurrent
<1> QED BY <1>5, <1>7, <1>8, <1>9 DEF WireInv

LEMMA WireStep ==
  ASSUME W!WireAssumption, WireInv, [W!Next]_(W!vars)
  PROVE  WireInv'
<1>1. CASE W!Next
  BY <1>1, WireTypeNext, CopiesNext, LinkNext, DecodedNext DEF WireInv
<1>2. CASE UNCHANGED W!vars
  BY <1>2 DEF W!vars, W!config, WireInv, WireType, CopiesInv, Made, Same, LinkInv, Inherited,
     W!DecodedCurrent
<1> QED BY <1>1, <1>2

\* Whichever releases the services run and whichever upcasters are missing, what
\* decode returns went through the upcasts from the version it was made at, each
\* once and in order, up to the last registered one; it is of the release's own
\* version if the payload type is strict (VersionedJsonCodec::decode).
THEOREM WireDecodedCurrent ==
  W!WireAssumption => (W!Spec => []W!DecodedCurrent)
<1> SUFFICES ASSUME W!WireAssumption PROVE W!Spec => []W!DecodedCurrent
  OBVIOUS
<1>1. W!Init => WireInv
  BY WireInitially
<1>2. WireInv /\ [W!Next]_(W!vars) => WireInv'
  BY WireStep
<1>3. WireInv => W!DecodedCurrent
  BY DEF WireInv
<1> QED BY <1>1, <1>2, <1>3, PTL DEF W!Spec

\* However many events a flow has and however they were carried, each has the
\* correlation id of the event the flow began with, or that event's id when it
\* had none (IntegrationEvent::caused_by).
THEOREM WireFlowTraced ==
  W!WireAssumption => (W!Spec => []W!FlowTraced)
<1> SUFFICES ASSUME W!WireAssumption PROVE W!Spec => []W!FlowTraced
  OBVIOUS
<1>1. W!Init => WireInv
  BY WireInitially
<1>2. WireInv /\ [W!Next]_(W!vars) => WireInv'
  BY WireStep
<1>3. WireInv => W!FlowTraced
  BY WireTraces DEF WireInv
<1> QED BY <1>1, <1>2, <1>3, PTL DEF W!Spec
=============================================================================
