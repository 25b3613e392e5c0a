---------------------------- MODULE ServiceProofs ----------------------------
(***************************************************************************)
(* Proofs about OrderService, for any orders, requests, limits and bounds, *)
(* and about Money, for amounts of any width.                              *)
(*                                                                         *)
(* What a request loaded is no newer than what is stored, and the same as  *)
(* long as the versions agree (CopyInv), so a save extends the order it    *)
(* read, and each version of an order is one entry of its history          *)
(* (HistoryInv).  A request writes at most once, and how far it has come   *)
(* says whether it did (WriteInv) and whether its event was handled        *)
(* (ToldInv).  The total of an order is a loop; that the loop over u64     *)
(* agrees with the sum up to MaxCents is by induction on the items.        *)
(*                                                                         *)
(* The shares of an allocation add up because the extra units given to     *)
(* the first parts are exactly what the division leaves.                   *)
(*                                                                         *)
(* Zenon is the default prover; the leaves that need arithmetic name SMT.  *)
(***************************************************************************)
EXTENDS ServiceLibrary, WellFoundedInduction, TLAPS

USE Zenon

LEMMA Least ==
  ASSUME NEW T, T \subseteq Nat, T # {}
  PROVE  \E n \in T : \A k \in T : n <= k
<1> DEFINE R == OpToRel(<, Nat)
<1>1. IsWellFoundedOn(R, Nat)
  BY NatLessThanWellFounded
<1>2. PICK n \in T : \A k \in T : ~(<<k, n>> \in R)
  <2> HIDE DEF R
  <2> QED BY <1>1, WFMin
<1>3. \A k \in T : <<k, n>> \in Nat \X Nat /\ <<k, n>>[1] = k /\ <<k, n>>[2] = n
  BY <1>2
<1>4. \A k \in T : ~(k < n)
  BY <1>2, <1>3 DEF OpToRel
<1> QED BY SMT, <1>4

LEMMA Induction ==
  ASSUME NEW T, 0 \in T, \A n \in Nat : n \in T => n + 1 \in T
  PROVE  \A n \in Nat : n \in T
<1> SUFFICES ASSUME Nat \ T # {} PROVE FALSE
  OBVIOUS
<1>1. PICK n \in Nat \ T : \A k \in Nat \ T : n <= k
  BY Least
<1>2. n # 0
  BY <1>1
<1>3. n - 1 \in Nat /\ (n - 1) + 1 = n /\ ~(n <= n - 1)
  BY SMT, <1>1, <1>2
<1> QED BY <1>1, <1>3

\* A value that is stepped n times from z.
IsRun(f, z, G, n) == f[0] = z /\ \A j \in 1..n : f[j] = G[<<j, f[j - 1]>>]

LEMMA RunExists ==
  ASSUME NEW V, NEW z \in V, NEW n \in Nat, NEW G \in [(1..n) \X V -> V]
  PROVE  \E f \in [0..n -> V] : IsRun(f, z, G, n)
<1> DEFINE T == {k \in Nat : k <= n => \E f \in [0..k -> V] : IsRun(f, z, G, k)}
<1>1. 0 \in T
  <2> DEFINE f == [j \in 0..0 |-> z]
  <2>1. f \in [0..0 -> V] /\ f[0] = z /\ 1..0 = {}
    BY SMT
  <2> HIDE DEF f
  <2>2. IsRun(f, z, G, 0)
    BY <2>1 DEF IsRun
  <2> QED BY <2>1, <2>2
<1>2. ASSUME NEW k \in Nat, k \in T PROVE k + 1 \in T
  <2> SUFFICES ASSUME k + 1 <= n PROVE \E g \in [0..(k + 1) -> V] : IsRun(g, z, G, k + 1)
    BY SMT
  <2>1. k <= n /\ k \in 0..k /\ k + 1 \in 1..n /\ k + 1 \in 0..(k + 1) /\ (k + 1) - 1 = k
        /\ 0 \in 0..(k + 1) /\ 0 # k + 1 /\ k # k + 1 /\ k \in 0..(k + 1)
    BY SMT
  <2>2. PICK f \in [0..k -> V] : IsRun(f, z, G, k)
    BY <1>2, <2>1
  <2>3. G[<<k + 1, f[k]>>] \in V
    <3>1. f[k] \in V
      BY <2>1
    <3>2. <<k + 1, f[k]>> \in (1..n) \X V
      BY <2>1, <3>1
    <3> QED BY <3>2
  <2> DEFINE g == [j \in 0..(k + 1) |-> IF j = k + 1 THEN G[<<k + 1, f[k]>>] ELSE f[j]]
  <2>4. g \in [0..(k + 1) -> V]
    <3>1. \A j \in 0..(k + 1) : j # k + 1 => j \in 0..k
      BY SMT
    <3> QED BY <2>3, <3>1
  <2>5. g[0] = z /\ g[k] = f[k] /\ g[k + 1] = G[<<k + 1, g[k]>>]
    BY <2>1, <2>2 DEF IsRun
  <2>6. ASSUME NEW j \in 1..(k + 1) PROVE g[j] = G[<<j, g[j - 1]>>]
    <3>1. CASE j = k + 1
      BY <2>1, <2>5, <3>1
    <3>2. CASE j # k + 1
      <4>1. j \in 1..k /\ j \in 0..(k + 1) /\ j - 1 \in 0..(k + 1) /\ j - 1 # k + 1
        BY SMT, <3>2
      <4>2. g[j] = f[j] /\ g[j - 1] = f[j - 1]
        BY <3>2, <4>1
      <4>3. f[j] = G[<<j, f[j - 1]>>]
        BY <2>2, <4>1 DEF IsRun
      <4> HIDE DEF g
      <4> QED BY <4>2, <4>3
    <3> QED BY <3>1, <3>2
  <2> HIDE DEF g
  <2> QED BY <2>4, <2>5, <2>6 DEF IsRun
<1> HIDE DEF T
<1>3. n \in T /\ n <= n
  <2>1. \A k \in Nat : k \in T
    BY <1>1, <1>2, Induction
  <2> QED BY SMT, <2>1
<1> QED BY <1>3 DEF T

-----------------------------------------------------------------------------
(* The HTTP service *)

Goods == [price : Nat, quantity : Nat]
Wanted == [price : Nat, quantity : Nat, valid : BOOLEAN, finite : BOOLEAN]
Orders == [version : Nat, items : Seq(Goods), status : {"Draft", "Confirmed"}]
Unwritten == {"idle", "queued", "called", "loaded"}
Requests ==
  [phase : Unwritten \cup {"saved", "done"}, command : Commands \cup {"none", "GetOrderTotal"},
   order : OrderId \cup {"none"}, item : Wanted,
   copy : Orders, answer : Nat]

OrderType ==
  /\ store \in [OrderId -> Orders] /\ req \in [Request -> Requests] /\ checked \in BOOLEAN
  /\ history \in [OrderId -> Seq([by : Request, event : Commands, total : Nat])]
  /\ \A r \in Request :
       /\ req[r].phase # "idle" => req[r].order \in OrderId
       /\ req[r].phase \in {"loaded", "saved"} => req[r].command \in Commands
       /\ req[r].phase # "done" => req[r].answer = 0

\* A copy that has the version of its order is its order.
CopyInv ==
  /\ \A o \in OrderId : store[o].version = 0 => store[o] = NoOrder
  /\ \A r \in Request : req[r].phase = "loaded" =>
       /\ req[r].command = "CreateOrder" => req[r].copy = NoOrder
       /\ req[r].copy.version <= store[req[r].order].version
       /\ req[r].copy.version = store[req[r].order].version => req[r].copy = store[req[r].order]

\* What a confirmation may have announced.
Announced(total, items) ==
  \/ total = Sum(items)
  \/ ~checked /\ ~Fits(Sum(items)) /\ total < Sum(items)

\* The history has one entry for each version; a confirmation ends it.
HistoryInv ==
  \A o \in OrderId :
    /\ Len(history[o]) = store[o].version
    /\ \A v \in DOMAIN history[o] : history[o][v].event = "ConfirmOrder" =>
         /\ v = Len(history[o]) /\ store[o].status = "Confirmed"
         /\ Announced(history[o][v].total, store[o].items)

\* Who wrote what.
Wrote(r, o, v) == v \in DOMAIN history[o] /\ history[o][v].by = r
Nothing(r) == \A o \in OrderId : \A v \in DOMAIN history[o] : history[o][v].by # r
Only(r, o, v) ==
  Wrote(r, o, v) /\ \A p \in OrderId : \A w \in DOMAIN history[p] : Wrote(r, p, w) => p = o /\ w = v

\* A request that wrote nothing yet, one that wrote, and one that was answered.
WriteInv ==
  \A r \in Request :
    /\ req[r].phase \in Unwritten => Nothing(r)
    /\ req[r].phase = "saved" => Only(r, req[r].order, req[r].copy.version)
    /\ req[r].answer \in Refusal => Nothing(r)
    /\ req[r].answer \in Success /\ req[r].command \in Commands =>
         \E o \in OrderId : \E v \in DOMAIN history[o] :
           Only(r, o, v) /\ [order |-> o, version |-> v] \in published

\* A request that was answered, unless with 408 or 500, wrote nothing, or what
\* it wrote was told to the bus.
Told(r) ==
  \E o \in OrderId : \E v \in DOMAIN history[o] :
    Only(r, o, v) /\ [order |-> o, version |-> v] \in published
OpenAnswers == {408, 500}
ToldInv ==
  \A r \in Request :
    req[r].phase = "done" /\ req[r].answer \notin OpenAnswers => Nothing(r) \/ Told(r)

OrderInv == OrderType /\ CopyInv /\ HistoryInv /\ WriteInv /\ ToldInv

LEMMA Remainder ==
  ASSUME NEW n \in Nat, NEW m \in Nat
  PROVE  n % (m + 1) \in 0..m /\ (n <= m => n % (m + 1) = n) /\ n % (m + 1) <= n
<1>1. n % (m + 1) \in 0..m
  BY SMT
<1>2. n <= m => n % (m + 1) = n
  BY SMT
<1> QED BY SMT, <1>1, <1>2

LEMMA AgreeStep ==
  ASSUME NEW m \in Nat, NEW a \in Nat, NEW b \in 0..m, NEW x \in Nat, NEW y \in 0..m,
         NEW z \in 0..m, a <= m => b = a, x <= m => y = x, b + y <= m => z = b + y
  PROVE  a + x \in Nat /\ (a + x <= m => z = a + x)
BY SMT

LEMMA Product ==
  ASSUME NEW m \in Nat, NEW n \in Nat
  PROVE  m * n \in Nat
BY SMT

\* The loops of Order::total, over the real numbers and over u64: they agree up
\* to MaxCents, and past it the second is no larger than MaxCents.
LEMMA TotalExact ==
  ASSUME MaxCents \in Nat, NEW items \in Seq(Goods)
  PROVE  /\ Sum(items) \in Nat /\ Total(items) \in Nat /\ Total(items) <= MaxCents
         /\ Fits(Sum(items)) => Total(items) = Sum(items)
         /\ ~Fits(Sum(items)) => Total(items) < Sum(items)
<1> DEFINE n == Len(items)
<1>1. n \in Nat /\ \A j \in 1..n : items[j] \in Goods
  BY SMT
<1> HIDE DEF n
<1>2. \A j \in 1..n : Subtotal(items[j]) \in Nat
  <2> SUFFICES ASSUME NEW j \in 1..n PROVE Subtotal(items[j]) \in Nat
    OBVIOUS
  <2>1. items[j].price \in Nat /\ items[j].quantity \in Nat
    BY <1>1 DEF Goods
  <2> QED BY <2>1, Product DEF Subtotal
<1> DEFINE a == [j \in 1..n |-> Subtotal(items[j])]
           G == [p \in (1..n) \X Nat |-> p[2] + a[p[1]]]
           V == [p \in (1..n) \X (0..MaxCents) |-> Wrapped(p[2] + Wrapped(a[p[1]]))]
<1>3. a \in [1..n -> Nat]
  BY <1>2
<1>4. PICK f \in [0..n -> Nat] : f[0] = 0 /\ \A j \in 1..n : f[j] = f[j - 1] + a[j]
  <2> HIDE DEF a
  <2>1. G \in [(1..n) \X Nat -> Nat]
    BY SMT, <1>3
  <2>2. PICK f \in [0..n -> Nat] : IsRun(f, 0, G, n)
    <3> HIDE DEF G
    <3> QED BY <1>1, <2>1, RunExists
  <2>3. ASSUME NEW j \in 1..n PROVE f[j] = f[j - 1] + a[j]
    <3>1. f[j] = G[<<j, f[j - 1]>>]
      BY <2>2 DEF IsRun
    <3>2. f[j - 1] \in Nat
      <4>1. j - 1 \in 0..n
        BY SMT, <1>1
      <4> QED BY <4>1
    <3>3. <<j, f[j - 1]>> \in (1..n) \X Nat /\ <<j, f[j - 1]>>[1] = j /\ <<j, f[j - 1]>>[2] = f[j - 1]
      BY <3>2
    <3> QED BY <3>1, <3>3
  <2> QED BY <2>2, <2>3 DEF IsRun
<1>5. PICK w \in [0..n -> 0..MaxCents] :
        w[0] = 0 /\ \A j \in 1..n : w[j] = Wrapped(w[j - 1] + Wrapped(a[j]))
  <2> HIDE DEF a
  <2>1. V \in [(1..n) \X (0..MaxCents) -> 0..MaxCents]
    <3> SUFFICES ASSUME NEW p \in (1..n) \X (0..MaxCents)
                 PROVE  Wrapped(p[2] + Wrapped(a[p[1]])) \in 0..MaxCents
      OBVIOUS
    <3>1. p[2] \in Nat /\ a[p[1]] \in Nat
      BY SMT, <1>3
    <3>2. Wrapped(a[p[1]]) \in 0..MaxCents
      BY <3>1, Remainder DEF Wrapped
    <3>3. p[2] + Wrapped(a[p[1]]) \in Nat
      BY SMT, <3>1, <3>2
    <3> QED BY <3>3, Remainder DEF Wrapped
  <2>2. PICK w \in [0..n -> 0..MaxCents] : IsRun(w, 0, V, n)
    <3>1. 0 \in 0..MaxCents
      BY SMT
    <3> HIDE DEF V
    <3> QED BY <1>1, <2>1, <3>1, RunExists
  <2>3. ASSUME NEW j \in 1..n PROVE w[j] = Wrapped(w[j - 1] + Wrapped(a[j]))
    <3>1. w[j] = V[<<j, w[j - 1]>>]
      BY <2>2 DEF IsRun
    <3>2. w[j - 1] \in 0..MaxCents
      <4>1. j - 1 \in 0..n
        BY SMT, <1>1
      <4> QED BY <4>1
    <3>3. <<j, w[j - 1]>> \in (1..n) \X (0..MaxCents) /\ <<j, w[j - 1]>>[1] = j /\ <<j, w[j - 1]>>[2] = w[j - 1]
      BY <3>2
    <3> QED BY <3>1, <3>3
  <2> QED BY <2>2, <2>3 DEF IsRun
<1> DEFINE IsSum(s) == s = [k \in 0..n |-> IF k = 0 THEN 0 ELSE s[k - 1] + Subtotal(items[k])]
           IsTotal(t) == t = [k \in 0..n |-> IF k = 0 THEN 0
                                            ELSE Wrapped(t[k - 1] + Wrapped(Subtotal(items[k])))]
           s == CHOOSE s : IsSum(s)
           t == CHOOSE t : IsTotal(t)
<1>6. \A k \in 0..n : k # 0 => k \in 1..n
  BY SMT, <1>1
<1>7. IsSum(s)
  <2>1. IsSum(f)
    BY <1>4, <1>6
  <2> HIDE DEF IsSum
  <2> QED BY <2>1
<1>8. IsTotal(t)
  <2>1. IsTotal(w)
    BY <1>5, <1>6
  <2> HIDE DEF IsTotal
  <2> QED BY <2>1
<1>9. Sum(items) = s[n] /\ Total(items) = t[n]
  BY DEF Sum, Total, n
<1> HIDE DEF s, t, a, G, V
<1>10. 0 \in 0..n /\ \A k \in 1..n : k \in 0..n /\ k # 0
  BY SMT, <1>1
<1>11. /\ s[0] = 0 /\ t[0] = 0
       /\ \A k \in 1..n : /\ s[k] = s[k - 1] + Subtotal(items[k])
                           /\ t[k] = Wrapped(t[k - 1] + Wrapped(Subtotal(items[k])))
  BY <1>7, <1>8, <1>10
<1> HIDE DEF IsSum, IsTotal
<1> DEFINE Agree(k) == /\ s[k] \in Nat /\ t[k] \in 0..MaxCents
                       /\ s[k] <= MaxCents => t[k] = s[k]
           T == {k \in Nat : k <= n => Agree(k)}
<1>12. 0 \in T
  BY SMT, <1>11
<1>13. ASSUME NEW k \in Nat, k \in T PROVE k + 1 \in T
  <2>0. k + 1 \in Nat
    BY SMT
  <2> SUFFICES ASSUME k + 1 <= n PROVE Agree(k + 1)
    BY <2>0
  <2> DEFINE x == Subtotal(items[k + 1])
             y == Wrapped(x)
  <2>1. k + 1 \in 1..n /\ k <= n /\ (k + 1) - 1 = k
    BY SMT, <1>1
  <2>2. x \in Nat /\ s[k + 1] = s[k] + x /\ t[k + 1] = Wrapped(t[k] + y) /\ Agree(k)
    BY <1>2, <1>11, <1>13, <2>1
  <2>3. y \in 0..MaxCents /\ (x <= MaxCents => y = x)
    <3> HIDE DEF x
    <3> QED BY <2>2, Remainder DEF Wrapped
  <2> HIDE DEF x, y
  <2>4. t[k] + y \in Nat
    BY SMT, <2>2, <2>3
  <2>5. t[k + 1] \in 0..MaxCents /\ (t[k] + y <= MaxCents => t[k + 1] = t[k] + y)
    <3> DEFINE q == t[k] + y
    <3>1. q \in Nat /\ t[k + 1] = q % (MaxCents + 1)
      BY <2>2, <2>4 DEF Wrapped
    <3>2. t[k + 1] \in 0..MaxCents /\ (q <= MaxCents => t[k + 1] = q)
      <4> HIDE DEF q
      <4>1. q % (MaxCents + 1) \in 0..MaxCents /\ (q <= MaxCents => q % (MaxCents + 1) = q)
        BY <3>1, Remainder
      <4> QED BY <3>1, <4>1
    <3> QED BY <3>2
  <2>6. /\ s[k] \in Nat /\ t[k] \in 0..MaxCents /\ (s[k] <= MaxCents => t[k] = s[k])
        /\ MaxCents \in Nat
    BY <2>2
  <2>7. s[k] + x \in Nat /\ (s[k] + x <= MaxCents => t[k + 1] = s[k] + x)
    <3>1. PICK sum \in Nat, low \in 0..MaxCents, z \in 0..MaxCents :
            sum = s[k] /\ low = t[k] /\ z = t[k + 1]
      BY <2>5, <2>6
    <3>2. /\ sum <= MaxCents => low = sum
          /\ x <= MaxCents => y = x
          /\ low + y <= MaxCents => z = low + y
      BY <2>3, <2>5, <2>6, <3>1
    <3>3. x \in Nat /\ y \in 0..MaxCents
      BY <2>2, <2>3
    <3>4. sum + x \in Nat /\ (sum + x <= MaxCents => z = sum + x)
      BY <2>6, <3>2, <3>3, AgreeStep
    <3> QED BY <3>1, <3>4
  <2> QED BY <2>2, <2>5, <2>7
<1> HIDE DEF T, Agree
<1>14. n \in T
  BY <1>1, <1>12, <1>13, Induction
<1>15. Agree(n)
  <2>1. n <= n
    BY SMT, <1>1
  <2> QED BY <1>14, <2>1 DEF T
<1> QED BY SMT, <1>9, <1>15 DEF Fits, Agree

\* What a step does to one request: it waits, it loads, it is answered or it
\* writes a version.
StoreKept == UNCHANGED <<store, history, checked>>
Others(r) == \A q \in Request : q # r => req'[q] = req[q]

Waits(r) ==
  /\ req[r].phase \in {"idle", "queued"} /\ req' \in [Request -> Requests] /\ Others(r)
  /\ req'[r].phase \in {"queued", "called"} /\ req'[r].order \in OrderId /\ req'[r].answer = 0
  /\ StoreKept /\ UNCHANGED published
Loads(r) ==
  /\ req[r].phase = "called" /\ req' \in [Request -> Requests] /\ Others(r)
  /\ req'[r].phase = "loaded" /\ req'[r].order = req[r].order /\ req'[r].answer = 0
  /\ req'[r].command = req[r].command /\ req[r].command \in Commands
  /\ req'[r].copy = IF req[r].command = "CreateOrder" THEN NoOrder ELSE store[req[r].order]
  /\ StoreKept /\ UNCHANGED published
Answers(r) ==
  /\ req[r].phase \in {"called", "loaded", "saved"} /\ req' \in [Request -> Requests] /\ Others(r)
  /\ req'[r].phase = "done" /\ req'[r].order = req[r].order /\ req'[r].command = req[r].command
  /\ req'[r].answer \in Refusal => req[r].phase \in Unwritten
  /\ req'[r].answer \in Success /\ req[r].command \in Commands =>
       /\ req[r].phase = "saved"
       /\ [order |-> req[r].order, version |-> req[r].copy.version] \in published'
  /\ req'[r].answer \notin OpenAnswers =>
       \/ req[r].phase \in Unwritten
       \/ /\ req[r].phase = "saved"
          /\ [order |-> req[r].order, version |-> req[r].copy.version] \in published'
  /\ StoreKept /\ published \subseteq published'
Writes(r, next, total) ==
  /\ req[r].phase = "loaded" /\ req' \in [Request -> Requests] /\ Others(r)
  /\ req'[r].phase = "saved" /\ req'[r].order = req[r].order /\ req'[r].answer = 0
  /\ req'[r].command = req[r].command /\ req'[r].copy = next
  /\ next \in Orders /\ total \in Nat
  /\ next.version = req[r].copy.version + 1 /\ req[r].copy.version = store[req[r].order].version
  /\ req[r].command # "CreateOrder" => req[r].copy.status = "Draft"
  /\ req[r].command = "ConfirmOrder" =>
       next.status = "Confirmed" /\ next.items = req[r].copy.items /\ Announced(total, next.items)
  /\ store' = [store EXCEPT ![req[r].order] = next]
  /\ history' = [history EXCEPT ![req[r].order] =
                   Append(@, [by |-> r, event |-> req[r].command, total |-> total])]
  /\ UNCHANGED <<published, checked>>

Refusals == {"NotFound", "DomainValidation", "BusinessRule", "Validation"}
Errors == Refusals \cup {"none", "panic", "Infra"}

LEMMA StatusOf ==
  ASSUME NEW command,
         NEW error \in Errors
  PROVE  /\ Status(error, command) \in Nat
         /\ Status(error, command) \in Refusal => error \in Refusals
         /\ Status(error, command) \in Success => error = "none"
         /\ Status(error, command) \notin OpenAnswers => error # "Infra"
<1>1. CASE error = "none"
  BY SMT, <1>1 DEF Status, Refusal, Success, Refusals, OpenAnswers
<1>2. CASE error = "NotFound"
  BY SMT, <1>2 DEF Status, Refusal, Success, Refusals, OpenAnswers
<1>3. CASE error = "BusinessRule"
  BY SMT, <1>3 DEF Status, Refusal, Success, Refusals, OpenAnswers
<1>4. CASE error = "Validation"
  BY SMT, <1>4 DEF Status, Refusal, Success, Refusals, OpenAnswers
<1>5. CASE error = "panic"
  BY SMT, <1>5 DEF Status, Refusal, Success, Refusals, OpenAnswers
<1>6. CASE error = "Infra"
  BY SMT, <1>6 DEF Status, Refusal, Success, Refusals, OpenAnswers
<1>7. CASE error = "DomainValidation"
  BY SMT, <1>7 DEF Status, Refusal, Success, Refusals, OpenAnswers
<1> QED BY <1>1, <1>2, <1>3, <1>4, <1>5, <1>6, <1>7 DEF Errors, Refusals

LEMMA NoneTyped ==
  NoOrder \in Orders /\ NoItem \in Wanted
BY SMT DEF NoOrder, NoItem, Orders, Goods, Wanted

LEMMA AnsweredTyped ==
  ASSUME OrderType, NEW r \in Request, NEW answer \in Nat,
         req' = [req EXCEPT ![r] = Answered(r, answer)]
  PROVE  /\ req' \in [Request -> Requests] /\ Others(r)
         /\ req'[r].phase = "done" /\ req'[r].order = req[r].order
         /\ req'[r].command = req[r].command /\ req'[r].answer = answer
<1>1. req \in [Request -> Requests] /\ req[r] \in Requests
  BY DEF OrderType
<1>2. /\ Answered(r, answer) \in Requests
      /\ Answered(r, answer).phase = "done" /\ Answered(r, answer).order = req[r].order
      /\ Answered(r, answer).command = req[r].command /\ Answered(r, answer).answer = answer
  BY <1>1, NoneTyped DEF Answered, Requests
<1> QED BY <1>1, <1>2 DEF Others

LEMMA FinishAnswers ==
  ASSUME OrderType, NEW r \in Request,
         NEW error \in Errors,
         req[r].phase \in {"called", "loaded", "saved"}, Finish(r, error),
         error \in Refusals => req[r].phase \in Unwritten,
         error # "Infra" =>
           \/ req[r].phase \in Unwritten
           \/ /\ req[r].phase = "saved"
              /\ [order |-> req[r].order, version |-> req[r].copy.version] \in published',
         error = "none" /\ req[r].command \in Commands =>
           /\ req[r].phase = "saved"
           /\ [order |-> req[r].order, version |-> req[r].copy.version] \in published',
         StoreKept, published \subseteq published'
  PROVE  Answers(r)
<1> DEFINE answer == Status(error, req[r].command)
<1>1. /\ answer \in Nat /\ (answer \in Success => error = "none")
      /\ (answer \in Refusal => error \in Refusals) /\ (answer \notin OpenAnswers => error # "Infra")
  BY StatusOf
<1>2. req' = [req EXCEPT ![r] = Answered(r, answer)]
  BY DEF Finish
<1> HIDE DEF answer
<1>3. /\ req' \in [Request -> Requests] /\ Others(r)
      /\ req'[r].phase = "done" /\ req'[r].order = req[r].order
      /\ req'[r].command = req[r].command /\ req'[r].answer = answer
  BY <1>1, <1>2, AnsweredTyped
<1> QED BY <1>1, <1>3 DEF Answers

LEMMA SendWaits ==
  ASSUME OrderAssumption, OrderType, NEW r \in Request, NEW o \in OrderId,
         NEW command \in Commands \cup {"GetOrderTotal"},
         NEW item \in Wanted, Send(r, command, o, item)
  PROVE  Waits(r)
<1> DEFINE x == [Idle EXCEPT !.phase = "queued", !.command = command, !.order = o, !.item = item]
<1>1. x \in Requests /\ x.phase = "queued" /\ x.order = o /\ x.answer = 0
  BY NoneTyped DEF Idle, Requests, Unwritten
<1>2. req[r].phase = "idle" /\ req' = [req EXCEPT ![r] = x] /\ StoreKept /\ UNCHANGED published
  BY DEF Send, StoreKept
<1>3. req \in [Request -> Requests]
  BY DEF OrderType
<1> HIDE DEF x
<1> QED BY <1>1, <1>2, <1>3 DEF Waits, Others

LEMMA SendAnyWaits ==
  ASSUME OrderAssumption, OrderType, NEW r \in Request, SendAny(r)
  PROVE  Waits(r)
<1>1. PICK o \in OrderId :
        \/ Fresh(o) /\ Send(r, "CreateOrder", o, NoItem)
        \/ \E i \in Items : Send(r, "AddItem", o, i)
        \/ \E c \in {"ConfirmOrder", "GetOrderTotal"} : Send(r, c, o, NoItem)
  BY DEF SendAny
<1>2. Items \subseteq Wanted
  BY DEF OrderAssumption, Wanted
<1>3. {"CreateOrder", "AddItem", "ConfirmOrder", "GetOrderTotal"} \subseteq Commands \cup {"GetOrderTotal"}
  BY DEF Commands
<1>4. NoItem \in Wanted
  BY NoneTyped
<1> QED BY <1>1, <1>2, <1>3, <1>4, SendWaits

LEMMA AdmitWaits ==
  ASSUME OrderType, NEW r \in Request, Admit(r)
  PROVE  Waits(r)
<1>1. req \in [Request -> Requests] /\ req[r] \in Requests
      /\ (req[r].phase # "idle" => req[r].order \in OrderId)
      /\ (req[r].phase # "done" => req[r].answer = 0)
  BY DEF OrderType
<1> DEFINE x == [req[r] EXCEPT !.phase = "called"]
<1>2. req[r].phase = "queued" /\ req' = [req EXCEPT ![r] = x] /\ StoreKept /\ UNCHANGED published
  BY DEF Admit, StoreKept
<1>3. x \in Requests /\ x.phase = "called" /\ x.order = req[r].order /\ x.answer = req[r].answer
  BY <1>1 DEF Requests, Unwritten
<1> HIDE DEF x
<1>4. req[r].order \in OrderId /\ req[r].answer = 0 /\ req[r].phase \in {"idle", "queued"}
  BY <1>1, <1>2
<1> QED BY <1>1, <1>2, <1>3, <1>4 DEF Waits, Others

LEMMA TimeoutAnswers ==
  ASSUME OrderType, NEW r \in Request, Timeout(r)
  PROVE  Answers(r)
<1> DEFINE answer == 408
<1>1. /\ req' = [req EXCEPT ![r] = Answered(r, answer)] /\ StoreKept /\ UNCHANGED published
      /\ req[r].phase \in {"called", "loaded", "saved"}
  BY DEF Timeout, InFlight, StoreKept
<1>2. answer \in Nat /\ answer \notin Refusal /\ answer \notin Success /\ answer \in OpenAnswers
  BY SMT DEF Refusal, Success, OpenAnswers
<1> HIDE DEF answer
<1>3. /\ req' \in [Request -> Requests] /\ Others(r)
      /\ req'[r].phase = "done" /\ req'[r].order = req[r].order
      /\ req'[r].command = req[r].command /\ req'[r].answer = answer
  BY <1>1, <1>2, AnsweredTyped
<1> QED BY <1>1, <1>2, <1>3 DEF Answers

LEMMA LoadShape ==
  ASSUME OrderType, NEW r \in Request, Load(r)
  PROVE  Loads(r) \/ Answers(r)
<1> DEFINE o == req[r].order
           error == CASE ~Valid(r) -> "Validation"
                      [] req[r].command # "CreateOrder" /\ store[o].version = 0 -> "NotFound"
                      [] OTHER -> "none"
           copy == IF req[r].command = "CreateOrder" THEN NoOrder ELSE store[o]
           x == [req[r] EXCEPT !.phase = "loaded", !.copy = copy]
<1>1. /\ req \in [Request -> Requests] /\ req[r] \in Requests /\ store \in [OrderId -> Orders]
      /\ req[r].phase # "idle" => o \in OrderId
      /\ req[r].phase # "done" => req[r].answer = 0
  BY DEF OrderType
<1>2. req[r].phase = "called" /\ req[r].command \in Commands /\ StoreKept /\ UNCHANGED published
  BY DEF Load, StoreKept
<1>3. o \in OrderId /\ req[r].answer = 0 /\ req[r].phase \in Unwritten
  BY <1>1, <1>2 DEF Unwritten
<1>4. error \in Errors /\ error \in {"none", "NotFound", "Validation"}
  BY DEF Errors, Refusals
<1>5. CASE error = "none"
  <2>1. req' = [req EXCEPT ![r].phase = "loaded", ![r].copy = copy]
    BY <1>5 DEF Load
  <2>2. copy \in Orders
    BY <1>1, <1>3, NoneTyped
  <2> HIDE DEF copy
  <2>3. req' = [req EXCEPT ![r] = x]
    BY <1>1, <2>1
  <2>4. /\ x \in Requests /\ x.phase = "loaded" /\ x.order = req[r].order
        /\ x.answer = req[r].answer /\ x.command = req[r].command /\ x.copy = copy
    BY <1>1, <2>2 DEF Requests, Unwritten
  <2> HIDE DEF x
  <2> QED BY <1>1, <1>2, <1>3, <2>3, <2>4 DEF Loads, Others, copy
<1>6. CASE error # "none"
  <2>1. Finish(r, error)
    BY <1>6 DEF Load
  <2> HIDE DEF error
  <2> QED BY <1>2, <1>3, <1>4, <1>6, <2>1, FinishAnswers
<1> QED BY <1>5, <1>6

LEMMA TotalAnswers ==
  ASSUME OrderType, NEW r \in Request, OrderTotal(r)
  PROVE  Answers(r)
<1> DEFINE error == IF Panics(store[req[r].order].items) THEN "panic" ELSE "none"
<1>1. /\ req[r].phase = "called" /\ req[r].command = "GetOrderTotal" /\ Finish(r, error)
      /\ StoreKept /\ UNCHANGED published
  BY DEF OrderTotal, StoreKept
<1>2. /\ error \in Errors /\ error \notin Refusals /\ req[r].command \notin Commands
      /\ req[r].phase \in Unwritten
  BY <1>1 DEF Commands, Errors, Refusals, Unwritten
<1> HIDE DEF error
<1> QED BY <1>1, <1>2, FinishAnswers

LEMMA PublishAnswers ==
  ASSUME OrderType, NEW r \in Request, NEW ok \in BOOLEAN, Publish(r, ok)
  PROVE  Answers(r)
<1> DEFINE error == IF ok THEN "none" ELSE "Infra"
<1>1. /\ req[r].phase = "saved" /\ Finish(r, error) /\ StoreKept
      /\ published \subseteq published'
      /\ ok => [order |-> req[r].order, version |-> req[r].copy.version] \in published'
  BY DEF Publish, StoreKept
<1>2. error \in Errors /\ error \notin Refusals /\ (error # "Infra" => ok) /\ (error = "none" => ok)
  BY DEF Errors, Refusals
<1> HIDE DEF error
<1> QED BY <1>1, <1>2, FinishAnswers

\* The methods of Order, on the copy of a request.
Applied(r, result) ==
  /\ result.error \in {"none", "DomainValidation", "BusinessRule", "panic"}
  /\ result.error = "none" =>
       /\ result.copy \in Orders /\ result.copy.version = req[r].copy.version /\ result.total \in Nat
       /\ req[r].command # "CreateOrder" => req[r].copy.status = "Draft"
       /\ req[r].command = "ConfirmOrder" =>
            /\ result.copy.status = "Confirmed" /\ result.copy.items = req[r].copy.items
            /\ Announced(result.total, result.copy.items)

LEMMA AddItemApplied ==
  ASSUME OrderType, NEW r \in Request, req[r].command = "AddItem"
  PROVE  Applied(r, AddItem(req[r].copy, req[r].item))
<1> DEFINE copy == req[r].copy
           item == req[r].item
           more == Append(copy.items, [price |-> item.price, quantity |-> item.quantity])
           x == [copy EXCEPT !.items = more]
<1>1. copy \in Orders /\ item \in Wanted
  <2>1. req[r] \in Requests
    BY DEF OrderType
  <2> QED BY <2>1 DEF Requests
<1> HIDE DEF copy, item
<1>2. copy.items \in Seq(Goods) /\ [price |-> item.price, quantity |-> item.quantity] \in Goods
  BY <1>1 DEF Orders, Goods, Wanted
<1>3. more \in Seq(Goods)
  BY SMT, <1>2
<1> HIDE DEF more
<1>4. x \in Orders /\ x.version = copy.version
  BY <1>1, <1>3 DEF Orders
<1>7. CASE item.quantity = 0 \/ ~item.finite
  <2>1. AddItem(copy, item).error = "DomainValidation"
    BY <1>7 DEF AddItem, Rejected
  <2> QED BY <2>1 DEF Applied, copy, item
<1>5. CASE ~(item.quantity = 0 \/ ~item.finite) /\ copy.status # "Draft"
  <2>1. AddItem(copy, item).error = "BusinessRule"
    BY <1>5 DEF AddItem, Rejected
  <2> QED BY <2>1 DEF Applied, copy, item
<1>6. CASE ~(item.quantity = 0 \/ ~item.finite) /\ copy.status = "Draft"
  <2>1. AddItem(copy, item) = Done(x, 0)
    BY <1>6 DEF AddItem, more
  <2>2. 0 \in Nat /\ "AddItem" # "ConfirmOrder"
    OBVIOUS
  <2> HIDE DEF x
  <2>3. /\ AddItem(copy, item).error = "none" /\ AddItem(copy, item).copy = x
        /\ AddItem(copy, item).total = 0
    BY SMT, <2>1 DEF Done, Rejected
  <2> QED BY <1>4, <1>6, <2>2, <2>3 DEF Applied, copy, item
<1> QED BY <1>5, <1>6, <1>7

LEMMA ConfirmApplied ==
  ASSUME MaxCents \in Nat, OrderType, NEW r \in Request
  PROVE  Applied(r, Confirm(req[r].copy))
<1> DEFINE copy == req[r].copy
           x == [copy EXCEPT !.status = "Confirmed"]
           total == Total(copy.items)
<1>1. copy \in Orders
  <2>1. req[r] \in Requests
    BY DEF OrderType
  <2> QED BY <2>1 DEF Requests
<1> HIDE DEF copy
<1>2. x \in Orders /\ x.version = copy.version /\ x.items = copy.items /\ x.status = "Confirmed"
      /\ copy.items \in Seq(Goods)
  BY <1>1 DEF Orders
<1>3. total \in Nat /\ (~Panics(copy.items) => Announced(total, copy.items))
  BY <1>2, TotalExact DEF Panics, Announced
<1> HIDE DEF x, total
<1>4. CASE copy.status # "Draft" \/ copy.items = <<>>
  <2>1. Confirm(copy) = Rejected("BusinessRule", copy)
    BY <1>4 DEF Confirm
  <2>2. Confirm(copy).error = "BusinessRule"
    BY SMT, <2>1 DEF Done, Rejected
  <2> QED BY <2>2 DEF Applied, copy
<1>5. CASE copy.status = "Draft" /\ copy.items # <<>>
  <2>1. Confirm(copy) = IF Panics(copy.items) THEN Rejected("panic", copy) ELSE Done(x, total)
    BY <1>5 DEF Confirm, x, total
  <2>2. CASE Panics(copy.items)
    <3>1. Confirm(copy).error = "panic"
      BY SMT, <2>1, <2>2 DEF Done, Rejected
    <3> QED BY <3>1 DEF Applied, copy
  <2>3. CASE ~Panics(copy.items)
    <3>1. Confirm(copy).error = "none" /\ Confirm(copy).copy = x /\ Confirm(copy).total = total
      BY SMT, <2>1, <2>3 DEF Done, Rejected
    <3> QED BY <1>2, <1>3, <1>5, <2>3, <3>1 DEF Applied, copy
  <2> QED BY <2>2, <2>3
<1> QED BY <1>4, <1>5

LEMMA ApplyApplied ==
  ASSUME MaxCents \in Nat, OrderType, NEW r \in Request, req[r].command \in Commands
  PROVE  Applied(r, Apply(r))
<1>1. CASE req[r].command = "CreateOrder"
  <2> DEFINE copy == req[r].copy
  <2>1. copy \in Orders
    <3>1. req[r] \in Requests
      BY DEF OrderType
    <3> QED BY <3>1 DEF Requests
  <2>2. Apply(r) = Done(copy, 0)
    BY <1>1 DEF Apply, Create
  <2> HIDE DEF copy
  <2>3. Apply(r).error = "none" /\ Apply(r).copy = copy /\ Apply(r).total = 0
    BY SMT, <2>2 DEF Done, Rejected
  <2>4. 0 \in Nat /\ "CreateOrder" # "ConfirmOrder"
    OBVIOUS
  <2> QED BY <1>1, <2>1, <2>3, <2>4 DEF Applied, copy
<1>2. CASE req[r].command = "AddItem"
  <2>1. Apply(r) = AddItem(req[r].copy, req[r].item)
    BY <1>2 DEF Apply
  <2> QED BY <1>2, <2>1, AddItemApplied
<1>3. CASE req[r].command = "ConfirmOrder"
  <2>1. Apply(r) = Confirm(req[r].copy)
    BY <1>3 DEF Apply
  <2> QED BY <2>1, ConfirmApplied
<1> QED BY <1>1, <1>2, <1>3 DEF Commands

LEMMA SaveShape ==
  ASSUME OrderAssumption, OrderType, NEW r \in Request, Save(r)
  PROVE  Answers(r) \/ \E next \in Orders, total \in Nat : Writes(r, next, total)
<1> DEFINE o == req[r].order
           result == Apply(r)
           next == [result.copy EXCEPT !.version = @ + 1]
           x == [req[r] EXCEPT !.phase = "saved", !.copy = next]
<1>1. /\ req \in [Request -> Requests] /\ req[r] \in Requests
      /\ req[r].phase = "loaded" /\ req[r].command \in Commands /\ o \in OrderId
      /\ req[r].answer = 0 /\ MaxCents \in Nat /\ req[r].phase \in Unwritten
  BY DEF OrderType, Save, OrderAssumption, Unwritten
<1>2. UNCHANGED <<published, checked>> /\ (published \subseteq published')
  BY DEF Save
<1>3. Applied(r, result)
  BY <1>1, ApplyApplied
<1>4. CASE result.error # "none" /\ Finish(r, result.error) /\ UNCHANGED <<store, history>>
  <2>1. StoreKept
    BY <1>2, <1>4 DEF StoreKept
  <2>2. result.error \in Errors /\ result.error # "none"
    BY <1>3, <1>4 DEF Applied, Errors, Refusals
  <2> HIDE DEF result
  <2> QED BY <1>1, <1>2, <1>4, <2>1, <2>2, FinishAnswers
<1>5. CASE Finish(r, "Infra") /\ UNCHANGED <<store, history>>
  <2>1. StoreKept /\ "Infra" \notin Refusals /\ "Infra" \in Errors /\ "Infra" # "none"
    BY <1>2, <1>5 DEF StoreKept, Refusals, Errors
  <2> QED BY <1>1, <1>2, <1>5, <2>1, FinishAnswers
<1>6. CASE /\ result.error = "none" /\ ~Conflicts(o, result.copy)
           /\ store' = [store EXCEPT ![o] = next]
           /\ history' = [history EXCEPT ![o] =
                Append(@, [by |-> r, event |-> req[r].command, total |-> result.total])]
           /\ req' = [req EXCEPT ![r].phase = "saved", ![r].copy = next]
  <2>1. /\ result.copy \in Orders /\ result.copy.version = req[r].copy.version /\ result.total \in Nat
        /\ req[r].command # "CreateOrder" => req[r].copy.status = "Draft"
        /\ req[r].command = "ConfirmOrder" =>
             /\ result.copy.status = "Confirmed" /\ result.copy.items = req[r].copy.items
             /\ Announced(result.total, result.copy.items)
    BY <1>3, <1>6 DEF Applied
  <2> HIDE DEF result
  <2>2. /\ next \in Orders /\ next.version = req[r].copy.version + 1
        /\ next.status = result.copy.status /\ next.items = result.copy.items
    <3>1. result.copy.version + 1 \in Nat
      BY SMT, <2>1 DEF Orders
    <3> QED BY <2>1, <3>1 DEF Orders
  <2> HIDE DEF next
  <2>3. req' = [req EXCEPT ![r] = x]
    BY <1>1, <1>6
  <2>4. /\ x \in Requests /\ x.phase = "saved" /\ x.order = o /\ x.answer = req[r].answer
        /\ x.command = req[r].command /\ x.copy = next
    BY <1>1, <2>2 DEF Requests, Unwritten
  <2> HIDE DEF x
  <2>5. req' \in [Request -> Requests] /\ Others(r) /\ req'[r] = x
    BY <1>1, <2>3, <2>4 DEF Others
  <2>6. req[r].copy.version = store[o].version
    BY <1>6, <2>1 DEF Conflicts
  <2>7. /\ req'[r].phase = "saved" /\ req'[r].order = o /\ req'[r].answer = 0
        /\ req'[r].command = req[r].command /\ req'[r].copy = next
    BY <1>1, <2>4, <2>5
  <2>8. Writes(r, next, result.total)
    <3>1. req[r].command = "ConfirmOrder" =>
            /\ next.status = "Confirmed" /\ next.items = req[r].copy.items
            /\ Announced(result.total, next.items)
      BY <2>1, <2>2
    <3> QED BY <1>1, <1>2, <1>6, <2>1, <2>2, <2>5, <2>6, <2>7, <3>1 DEF Writes
  <2> QED BY <2>1, <2>2, <2>8
<1> QED BY <1>4, <1>5, <1>6 DEF Save

\* The steps of the service.
LEMMA OrderSteps ==
  ASSUME OrderAssumption, OrderType, Next
  PROVE  \E r \in Request :
           \/ Waits(r) \/ Loads(r) \/ Answers(r)
           \/ \E next \in Orders, total \in Nat : Writes(r, next, total)
<1>1. PICK r \in Request : SendAny(r) \/ Admit(r) \/ Step(r) \/ Timeout(r)
  BY DEF Next
<1>2. CASE Step(r)
  BY <1>2, LoadShape, SaveShape, TotalAnswers, PublishAnswers DEF Step
<1> QED BY <1>1, <1>2, SendAnyWaits, AdmitWaits, TimeoutAnswers

\* The history after a version was written.
WrittenTo(r, next, total, o) ==
  /\ o \in OrderId /\ store'[o] = next /\ next.version = store[o].version + 1
  /\ \A p \in OrderId : p # o => store'[p] = store[p] /\ history'[p] = history[p]
  /\ Len(history'[o]) = next.version
  /\ DOMAIN history'[o] = DOMAIN history[o] \cup {next.version}
  /\ next.version \notin DOMAIN history[o]
  /\ history'[o][next.version].by = r /\ history'[o][next.version].event = req[r].command
  /\ history'[o][next.version].total = total
  /\ \A v \in DOMAIN history[o] : history'[o][v] = history[o][v]

LEMMA Written ==
  ASSUME OrderType, HistoryInv, NEW r \in Request, NEW next \in Orders, NEW total \in Nat,
         Writes(r, next, total)
  PROVE  WrittenTo(r, next, total, req[r].order)
<1> DEFINE e == [by |-> r, event |-> req[r].command, total |-> total]
           o == req[r].order
           h == history[o]
           E == [by : Request, event : Commands, total : Nat]
<1>1. /\ o \in OrderId /\ req[r].command \in Commands
      /\ store \in [OrderId -> Orders]
      /\ history \in [OrderId -> Seq([by : Request, event : Commands, total : Nat])]
  BY DEF OrderType, Writes
<1>2. /\ store' = [store EXCEPT ![o] = next] /\ history' = [history EXCEPT ![o] = Append(h, e)]
      /\ next.version = store[o].version + 1
  BY DEF Writes
<1>3. e \in E
  BY <1>1
<1>4. /\ h \in Seq(E)
      /\ Len(h) = store[o].version
  BY <1>1 DEF HistoryInv
<1>5. /\ store'[o] = next /\ history'[o] = Append(h, e)
      /\ \A p \in OrderId : p # o => store'[p] = store[p] /\ history'[p] = history[p]
  BY <1>1, <1>2
<1> HIDE DEF e, h, o, E
<1>6. /\ Len(Append(h, e)) = Len(h) + 1 /\ DOMAIN Append(h, e) = 1..(Len(h) + 1)
      /\ DOMAIN h = 1..Len(h) /\ Append(h, e)[Len(h) + 1] = e /\ Len(h) \in Nat
      /\ \A v \in 1..Len(h) : Append(h, e)[v] = h[v]
  BY SMT, <1>3, <1>4
<1>7. DOMAIN Append(h, e) = DOMAIN h \cup {Len(h) + 1} /\ Len(h) + 1 \notin DOMAIN h
  BY SMT, <1>6
<1>8. /\ Len(h) + 1 = next.version /\ history'[o] = Append(h, e) /\ history[o] = h
      /\ e.by = r /\ e.event = req[r].command /\ e.total = total
  BY <1>2, <1>4, <1>5 DEF e, h
<1>9. /\ Len(history'[o]) = next.version
      /\ DOMAIN history'[o] = DOMAIN history[o] \cup {next.version}
      /\ next.version \notin DOMAIN history[o]
  BY <1>6, <1>7, <1>8
<1>10. /\ history'[o][next.version] = e
       /\ \A v \in DOMAIN history[o] : history'[o][v] = history[o][v]
  BY <1>6, <1>8
<1>11. WrittenTo(r, next, total, o)
  BY <1>1, <1>2, <1>5, <1>8, <1>9, <1>10 DEF WrittenTo
<1> QED BY <1>11 DEF o

LEMMA OrderTypeNext ==
  ASSUME OrderAssumption, OrderType, HistoryInv, Next
  PROVE  OrderType'
<1>1. PICK r \in Request : \/ Waits(r) \/ Loads(r) \/ Answers(r)
                             \/ \E next \in Orders, total \in Nat : Writes(r, next, total)
  BY OrderSteps
<1>2. CASE Waits(r) \/ Loads(r) \/ Answers(r)
  <2>1. /\ UNCHANGED <<store, history, checked>> /\ req' \in [Request -> Requests] /\ Others(r)
    BY <1>2 DEF Waits, Loads, Answers, StoreKept
  <2>2. /\ req'[r].phase # "idle" => req'[r].order \in OrderId
        /\ req'[r].phase \in {"loaded", "saved"} => req'[r].command \in Commands
        /\ req'[r].phase # "done" => req'[r].answer = 0
    <3>1. req[r].phase # "idle" => req[r].order \in OrderId
      BY DEF OrderType
    <3> QED BY <1>2, <3>1 DEF Waits, Loads, Answers
  <2> QED BY <2>1, <2>2 DEF OrderType, Others
<1>3. ASSUME NEW next \in Orders, NEW total \in Nat, Writes(r, next, total) PROVE OrderType'
  <2> DEFINE o == req[r].order
  <2>1. /\ store \in [OrderId -> Orders] /\ checked \in BOOLEAN /\ o \in OrderId
        /\ history \in [OrderId -> Seq([by : Request, event : Commands, total : Nat])]
        /\ req[r].command \in Commands
    BY <1>3 DEF OrderType, Writes
  <2>2. /\ UNCHANGED checked /\ req' \in [Request -> Requests] /\ Others(r)
        /\ store' = [store EXCEPT ![o] = next]
        /\ history' = [history EXCEPT ![o] =
                         Append(@, [by |-> r, event |-> req[r].command, total |-> total])]
        /\ req'[r].phase = "saved" /\ req'[r].order = o /\ req'[r].answer = 0
        /\ req'[r].command = req[r].command
    BY <1>3 DEF Writes
  <2> HIDE DEF o
  <2>3. store' \in [OrderId -> Orders]
    BY <2>1, <2>2
  <2>4. history' \in [OrderId -> Seq([by : Request, event : Commands, total : Nat])]
    <3> DEFINE e == [by |-> r, event |-> req[r].command, total |-> total]
               E == [by : Request, event : Commands, total : Nat]
    <3>1. e \in E /\ history[o] \in Seq(E)
      BY <2>1
    <3> HIDE DEF e, E
    <3>2. Append(history[o], e) \in Seq(E)
      BY SMT, <3>1
    <3> QED BY <2>1, <2>2, <3>2 DEF e, E
  <2> QED BY <2>1, <2>2, <2>3, <2>4 DEF OrderType, Others
<1> QED BY <1>1, <1>2, <1>3

LEMMA CopyNext ==
  ASSUME OrderAssumption, OrderType, HistoryInv, CopyInv, Next
  PROVE  CopyInv'
<1>1. PICK r \in Request : \/ Waits(r) \/ Loads(r) \/ Answers(r)
                             \/ \E next \in Orders, total \in Nat : Writes(r, next, total)
  BY OrderSteps
<1>2. CASE Waits(r) \/ Answers(r)
  <2>1. UNCHANGED <<store, history, checked>> /\ Others(r) /\ req'[r].phase # "loaded"
    BY <1>2 DEF Waits, Answers, StoreKept
  <2> QED BY <2>1 DEF CopyInv, Others
<1>3. CASE Loads(r)
  <2>1. /\ UNCHANGED store /\ Others(r) /\ req[r].order \in OrderId
        /\ req'[r].order = req[r].order /\ req'[r].command = req[r].command
        /\ req'[r].copy = IF req[r].command = "CreateOrder" THEN NoOrder ELSE store[req[r].order]
    BY <1>3 DEF Loads, StoreKept, OrderType
  <2>2. store[req[r].order].version \in Nat /\ NoOrder.version = 0
    BY <2>1 DEF OrderType, Orders, NoOrder
  <2>3. store[req[r].order].version = 0 => store[req[r].order] = NoOrder
    BY <2>1 DEF CopyInv
  <2> DEFINE c == req'[r].copy
             s == store[req[r].order]
  <2>4. c.version <= s.version /\ (c.version = s.version => c = s)
    <3>1. c = NoOrder \/ c = s
      BY <2>1
    <3>2. s.version \in Nat /\ NoOrder.version = 0 /\ (s.version = 0 => s = NoOrder)
      BY <2>2, <2>3
    <3> HIDE DEF c, s
    <3>3. 0 <= s.version /\ s.version <= s.version
      BY SMT, <3>2
    <3> QED BY <3>1, <3>2, <3>3
  <2>5. \A o \in OrderId : store'[o].version = 0 => store'[o] = NoOrder
    BY <2>1 DEF CopyInv
  <2>6. ASSUME NEW q \in Request, req'[q].phase = "loaded"
        PROVE  /\ req'[q].command = "CreateOrder" => req'[q].copy = NoOrder
               /\ req'[q].copy.version <= store'[req'[q].order].version
               /\ req'[q].copy.version = store'[req'[q].order].version =>
                    req'[q].copy = store'[req'[q].order]
    <3>1. CASE q = r
      BY ONLY Zenon, <2>1, <2>4, <3>1
    <3>2. CASE q # r
      <4>1. req'[q] = req[q] /\ UNCHANGED store
        BY <2>1, <3>2 DEF Others
      <4> QED BY <2>6, <4>1 DEF CopyInv
    <3> QED BY <3>1, <3>2
  <2> QED BY <2>5, <2>6 DEF CopyInv
<1>4. ASSUME NEW next \in Orders, NEW total \in Nat, Writes(r, next, total) PROVE CopyInv'
  <2> DEFINE o == req[r].order
  <2>1. /\ o \in OrderId /\ store'[o] = next /\ next.version = store[o].version + 1
        /\ \A p \in OrderId : p # o => store'[p] = store[p]
    <3>1. WrittenTo(r, next, total, o)
      BY <1>4, Written
    <3> HIDE DEF o
    <3> QED BY <3>1 DEF WrittenTo
  <2>2. /\ Others(r) /\ req'[r].phase = "saved"
    BY <1>4 DEF Writes
  <2>3. \A p \in OrderId : store[p].version \in Nat
    BY DEF OrderType, Orders
  <2> HIDE DEF o
  <2>4. \A p \in OrderId : store'[p].version = 0 => store'[p] = NoOrder
    <3>1. next.version # 0
      BY SMT, <2>1, <2>3
    <3> QED BY <2>1, <3>1 DEF CopyInv
  <2>5. ASSUME NEW q \in Request, req'[q].phase = "loaded"
        PROVE  /\ req'[q].command = "CreateOrder" => req'[q].copy = NoOrder
               /\ req'[q].copy.version <= store'[req'[q].order].version
               /\ req'[q].copy.version = store'[req'[q].order].version =>
                    req'[q].copy = store'[req'[q].order]
    <3>1. q # r /\ req'[q] = req[q]
      BY <2>2, <2>5 DEF Others
    <3> DEFINE c == req[q].copy
               p == req[q].order
    <3>2. /\ req[q].command = "CreateOrder" => c = NoOrder
          /\ c.version <= store[p].version
          /\ c.version = store[p].version => c = store[p]
          /\ p \in OrderId /\ c.version \in Nat
      <4>1. req[q].phase = "loaded" /\ req[q] \in Requests
        BY <2>5, <3>1 DEF OrderType
      <4>2. c \in Orders /\ p \in OrderId
        BY <4>1 DEF OrderType, Requests
      <4>3. c.version \in Nat
        BY <4>2 DEF Orders
      <4> QED BY <4>1, <4>2, <4>3 DEF CopyInv
    <3> HIDE DEF c, p
    <3>3. CASE p # o
      BY <2>1, <3>1, <3>2, <3>3 DEF c, p
    <3>4. CASE p = o
      <4>1. c.version <= next.version /\ c.version # next.version
        BY SMT, <2>1, <2>3, <3>2, <3>4
      <4> QED BY <2>1, <3>1, <3>2, <3>4, <4>1 DEF c, p
    <3> QED BY <3>3, <3>4
  <2> QED BY <2>4, <2>5 DEF CopyInv
<1> QED BY <1>1, <1>2, <1>3, <1>4

LEMMA HistoryNext ==
  ASSUME OrderAssumption, OrderType, CopyInv, HistoryInv, Next
  PROVE  HistoryInv'
<1>1. PICK r \in Request : \/ Waits(r) \/ Loads(r) \/ Answers(r)
                             \/ \E next \in Orders, total \in Nat : Writes(r, next, total)
  BY OrderSteps
<1>2. CASE Waits(r) \/ Loads(r) \/ Answers(r)
  <2>1. UNCHANGED <<store, history, checked>>
    BY <1>2 DEF Waits, Loads, Answers, StoreKept
  <2> QED BY <2>1 DEF HistoryInv, Announced
<1>3. ASSUME NEW next \in Orders, NEW total \in Nat, Writes(r, next, total) PROVE HistoryInv'
  <2>0. PICK o : o = req[r].order
    OBVIOUS
  <2>1. WrittenTo(r, next, total, o)
    BY <1>3, <2>0, Written
  <2>2. o \in OrderId /\ UNCHANGED checked /\ req[r].phase = "loaded"
        /\ req[r].copy.version = store[o].version
        /\ (req[r].command # "CreateOrder" => req[r].copy.status = "Draft")
        /\ (req[r].command = "ConfirmOrder" =>
              next.status = "Confirmed" /\ next.items = req[r].copy.items /\ Announced(total, next.items))
    BY <1>3, <2>0, <2>1 DEF Writes, WrittenTo
  <2>3. store[o].status = "Draft"
    <3>1. req[r].copy = store[o] /\ (req[r].command = "CreateOrder" => req[r].copy = NoOrder)
      BY <2>0, <2>2 DEF CopyInv
    <3>2. NoOrder.status = "Draft"
      BY DEF NoOrder
    <3> QED BY <2>2, <3>1, <3>2
  <2>4. ASSUME NEW p \in OrderId, p # o
        PROVE  /\ Len(history'[p]) = store'[p].version
               /\ \A v \in DOMAIN history'[p] : history'[p][v].event = "ConfirmOrder" =>
                    /\ v = Len(history'[p]) /\ store'[p].status = "Confirmed"
                    /\ Announced(history[p][v].total, store[p].items)'
    <3>1. history'[p] = history[p] /\ store'[p] = store[p]
      BY <2>1, <2>4 DEF WrittenTo
    <3> QED BY <2>2, <3>1 DEF HistoryInv, Announced
  <2>5. \A v \in DOMAIN history[o] : history[o][v].event # "ConfirmOrder"
    <3>1. "Draft" # "Confirmed"
      OBVIOUS
    <3> QED BY <2>2, <2>3, <3>1 DEF HistoryInv
  <2>6. ASSUME NEW v \in DOMAIN history'[o], history'[o][v].event = "ConfirmOrder"
        PROVE  /\ v = Len(history'[o]) /\ store'[o].status = "Confirmed"
               /\ Announced(history[o][v].total, store[o].items)'
    <3>1. v = next.version
      BY <2>1, <2>5, <2>6 DEF WrittenTo
    <3>2. history'[o][v].event = req[r].command /\ history'[o][v].total = total
      BY <2>1, <3>1 DEF WrittenTo
    <3>3. store'[o] = next /\ Len(history'[o]) = v
      BY <2>1, <3>1 DEF WrittenTo
    <3>4. next.status = "Confirmed" /\ Announced(total, next.items)
      BY <2>2, <2>6, <3>2
    <3>5. Announced(history[o][v].total, store[o].items)'
      BY <2>2, <3>2, <3>3, <3>4 DEF Announced
    <3> QED BY <3>3, <3>4, <3>5
  <2>7. Len(history'[o]) = store'[o].version
    BY <2>1 DEF WrittenTo
  <2> QED BY <2>4, <2>6, <2>7 DEF HistoryInv
<1> QED BY <1>1, <1>2, <1>3

\* A version written by r takes nothing from what the others wrote.
LEMMA OthersWritten ==
  ASSUME NEW r, NEW next, NEW total, NEW o, WrittenTo(r, next, total, o), NEW q, q # r
  PROVE  /\ Nothing(q) => Nothing(q)'
         /\ \A p \in OrderId : \A w : Only(q, p, w) => Only(q, p, w)'
<1>1. history'[o][next.version].by = r
  BY DEF WrittenTo
<1>2. ASSUME NEW p \in OrderId, NEW w
      PROVE  Wrote(q, p, w)' <=> Wrote(q, p, w)
  <2>1. CASE p # o
    BY <2>1 DEF WrittenTo, Wrote
  <2>2. CASE p = o
    BY <1>1, <2>2 DEF WrittenTo, Wrote
  <2> QED BY <2>1, <2>2
<1>3. Nothing(q) => Nothing(q)'
  BY <1>2 DEF Nothing, Wrote
<1>4. ASSUME NEW p \in OrderId, NEW w, Only(q, p, w) PROVE Only(q, p, w)'
  <2>1. Wrote(q, p, w)'
    BY <1>2, <1>4 DEF Only
  <2>2. ASSUME NEW s \in OrderId, NEW u \in DOMAIN history'[s], Wrote(q, s, u)' PROVE s = p /\ u = w
    <3>1. Wrote(q, s, u)
      BY <1>2, <2>2
    <3> QED BY <1>4, <3>1 DEF Only, Wrote
  <2> QED BY <2>1, <2>2 DEF Only
<1> QED BY <1>3, <1>4

LEMMA WriteNext ==
  ASSUME OrderAssumption, OrderType, HistoryInv, WriteInv, Next
  PROVE  WriteInv'
<1> DEFINE P(q) ==
      /\ req[q].phase \in Unwritten => Nothing(q)
      /\ req[q].phase = "saved" => Only(q, req[q].order, req[q].copy.version)
      /\ req[q].answer \in Refusal => Nothing(q)
      /\ req[q].answer \in Success /\ req[q].command \in Commands =>
           \E o \in OrderId : \E v \in DOMAIN history[o] :
             Only(q, o, v) /\ [order |-> o, version |-> v] \in published
<1>0. 0 \notin Refusal /\ 0 \notin Success /\ "saved" \notin Unwritten /\ "done" \notin Unwritten
  BY SMT DEF Refusal, Success, Unwritten
<1>1. PICK r \in Request : \/ Waits(r) \/ Loads(r) \/ Answers(r)
                             \/ \E next \in Orders, total \in Nat : Writes(r, next, total)
  BY OrderSteps
<1>2. \A q \in Request : P(q)
  BY DEF WriteInv
<1>3. ASSUME UNCHANGED history
      PROVE  /\ \A q : Nothing(q)' <=> Nothing(q)
             /\ \A q, o, v : Only(q, o, v)' <=> Only(q, o, v)
  BY <1>3 DEF Nothing, Only, Wrote
<1>4. ASSUME UNCHANGED history, published \subseteq published', NEW q \in Request, req'[q] = req[q]
      PROVE  P(q)'
  BY <1>2, <1>3, <1>4
<1>5. CASE Waits(r) \/ Loads(r)
  <2>1. /\ UNCHANGED history /\ published \subseteq published' /\ Others(r)
        /\ req[r].phase \in {"idle", "queued", "called"}
        /\ req'[r].phase \in {"queued", "called", "loaded"} /\ req'[r].answer = 0
    BY <1>5 DEF Waits, Loads, StoreKept
  <2>2. req[r].phase \in Unwritten /\ req'[r].phase # "saved"
    BY <2>1 DEF Unwritten
  <2>3. Nothing(r)'
    BY <1>2, <1>3, <2>1, <2>2
  <2>4. P(r)'
    BY <1>0, <2>1, <2>2, <2>3
  <2> QED BY <1>4, <2>1, <2>4 DEF WriteInv, Others
<1>6. CASE Answers(r)
  <2>1. /\ UNCHANGED history /\ published \subseteq published' /\ Others(r)
        /\ req'[r].phase = "done" /\ req'[r].command = req[r].command
        /\ req'[r].answer \in Refusal => req[r].phase \in Unwritten
        /\ req'[r].answer \in Success /\ req[r].command \in Commands =>
             /\ req[r].phase = "saved"
             /\ [order |-> req[r].order, version |-> req[r].copy.version] \in published'
    BY <1>6 DEF Answers, StoreKept
  <2>2. req'[r].answer \in Refusal => Nothing(r)'
    BY <1>2, <1>3, <2>1
  <2>3. ASSUME req'[r].answer \in Success, req'[r].command \in Commands
        PROVE  \E o \in OrderId : \E v \in DOMAIN history'[o] :
                 Only(r, o, v)' /\ [order |-> o, version |-> v] \in published'
    <3>0. PICK o, v : o = req[r].order /\ v = req[r].copy.version
      OBVIOUS
    <3>1. req[r].phase = "saved" /\ [order |-> o, version |-> v] \in published'
      BY <2>1, <2>3, <3>0
    <3>2. Only(r, o, v) /\ o \in OrderId
      <4>1. "saved" # "idle"
        OBVIOUS
      <4> QED BY <1>2, <3>0, <3>1, <4>1 DEF OrderType
    <3>3. Only(r, o, v)' /\ v \in DOMAIN history'[o]
      BY <1>3, <2>1, <3>2 DEF Only, Wrote
    <3> QED BY <3>1, <3>2, <3>3
  <2>4. P(r)'
    <3>1. "done" # "saved"
      OBVIOUS
    <3> QED BY <1>0, <2>1, <2>2, <2>3, <3>1
  <2> QED BY <1>4, <2>1, <2>4 DEF WriteInv, Others
<1>7. ASSUME NEW next \in Orders, NEW total \in Nat, Writes(r, next, total) PROVE WriteInv'
  <2> DEFINE v == next.version
  <2>0. PICK o : o = req[r].order
    OBVIOUS
  <2>1. WrittenTo(r, next, total, o)
    BY <1>7, <2>0, Written
  <2>2. /\ Others(r) /\ req[r].phase = "loaded" /\ req'[r].phase = "saved" /\ req'[r].order = o
        /\ req'[r].copy = next /\ req'[r].answer = 0 /\ UNCHANGED published
    BY <1>7, <2>0 DEF Writes
  <2>3. Nothing(r)
    <3>1. "loaded" \in Unwritten
      BY DEF Unwritten
    <3> QED BY <1>2, <2>2, <3>1
  <2>4. Only(r, o, v)'
    <3>1. Wrote(r, o, v)'
      BY <2>1 DEF WrittenTo, Wrote
    <3>2. ASSUME NEW p \in OrderId, NEW w \in DOMAIN history'[p], Wrote(r, p, w)' PROVE p = o /\ w = v
      <4>1. w \in DOMAIN history'[p] /\ history'[p][w].by = r
        BY <3>2 DEF Wrote
      <4>2. ASSUME p # o PROVE FALSE
        <5>1. history'[p] = history[p]
          BY <2>1, <4>2 DEF WrittenTo
        <5> QED BY <2>3, <4>1, <5>1 DEF Nothing
      <4>3. p = o
        BY <4>2
      <4>4. ASSUME w \in DOMAIN history[o] PROVE FALSE
        <5>1. history'[o][w] = history[o][w]
          BY <2>1, <4>4 DEF WrittenTo
        <5> QED BY <2>3, <4>1, <4>3, <4>4, <5>1 DEF Nothing
      <4>5. w \in DOMAIN history[o] \cup {v}
        BY <2>1, <4>1, <4>3 DEF WrittenTo
      <4> QED BY <4>3, <4>4, <4>5
    <3> QED BY <3>1, <3>2 DEF Only
  <2>5. P(r)'
    BY <1>0, <2>2, <2>4
  <2>6. ASSUME NEW q \in Request, q # r PROVE P(q)'
    <3>1. req'[q] = req[q]
      BY <2>2, <2>6 DEF Others
    <3>2. /\ Nothing(q) => Nothing(q)'
          /\ \A p \in OrderId : \A w : Only(q, p, w) => Only(q, p, w)'
      BY <2>1, <2>6, OthersWritten
    <3>3. req'[q].phase = "saved" => Only(q, req[q].order, req[q].copy.version)'
      <4>1. PICK p, w : p = req[q].order /\ w = req[q].copy.version
        OBVIOUS
      <4>2. req[q].phase = "saved" => p \in OrderId
        BY <4>1 DEF OrderType
      <4>3. req[q].phase = "saved" => Only(q, p, w)'
        BY <1>2, <3>2, <4>1, <4>2
      <4>4. Only(q, p, w)' => Only(q, req[q].order, req[q].copy.version)'
        BY <3>1, <4>1
      <4> QED BY <3>1, <4>3, <4>4
    <3>4. ASSUME req[q].answer \in Success, req[q].command \in Commands
          PROVE  \E p \in OrderId : \E w \in DOMAIN history'[p] :
                   Only(q, p, w)' /\ [order |-> p, version |-> w] \in published'
      <4>0. PICK p \in OrderId : \E w \in DOMAIN history[p] :
              Only(q, p, w) /\ [order |-> p, version |-> w] \in published
        BY <1>2, <3>4
      <4>1. PICK w \in DOMAIN history[p] :
              Only(q, p, w) /\ [order |-> p, version |-> w] \in published
        BY <4>0
      <4>2. Only(q, p, w)' /\ w \in DOMAIN history'[p]
        <5>1. Only(q, p, w)'
          BY <3>2, <4>1
        <5> QED BY <5>1 DEF Only, Wrote
      <4> QED BY <2>2, <4>1, <4>2
    <3>5. (req[q].phase \in Unwritten \/ req[q].answer \in Refusal) => Nothing(q)'
      BY <1>2, <3>2
    <3> QED BY <3>1, <3>3, <3>4, <3>5
  <2> HIDE DEF P
  <2>7. \A q \in Request : P(q)'
    BY <2>5, <2>6
  <2> QED BY <2>7 DEF WriteInv, P
<1> QED BY <1>1, <1>5, <1>6, <1>7

LEMMA ToldNext ==
  ASSUME OrderAssumption, OrderType, HistoryInv, WriteInv, ToldInv, Next
  PROVE  ToldInv'
<1>1. PICK r \in Request : \/ Waits(r) \/ Loads(r) \/ Answers(r)
                             \/ \E next \in Orders, total \in Nat : Writes(r, next, total)
  BY OrderSteps
<1>2. CASE Waits(r) \/ Loads(r) \/ Answers(r)
  <2>1. /\ UNCHANGED history /\ published \subseteq published' /\ Others(r)
        /\ req'[r].phase = "done" => Answers(r)
    BY <1>2 DEF Waits, Loads, Answers, StoreKept
  <2>2. /\ \A q : Nothing(q) => Nothing(q)'
        /\ \A q, o, v : Only(q, o, v) => Only(q, o, v)'
    BY <2>1 DEF Nothing, Only, Wrote
  <2>3. \A q : Told(q) => Told(q)'
    BY <2>1, <2>2 DEF Told
  <2>4. ASSUME req'[r].phase = "done", req'[r].answer \notin OpenAnswers
        PROVE  Nothing(r)' \/ Told(r)'
    <3>1. \/ req[r].phase \in Unwritten
          \/ /\ req[r].phase = "saved"
             /\ [order |-> req[r].order, version |-> req[r].copy.version] \in published'
      BY <2>1, <2>4 DEF Answers
    <3>2. CASE req[r].phase \in Unwritten
      BY <2>2, <3>2 DEF WriteInv
    <3>3. CASE /\ req[r].phase = "saved"
               /\ [order |-> req[r].order, version |-> req[r].copy.version] \in published'
      <4>0. PICK o, v : o = req[r].order /\ v = req[r].copy.version
        OBVIOUS
      <4>1. "saved" # "idle"
        OBVIOUS
      <4>2. Only(r, o, v) /\ o \in OrderId
        BY <3>3, <4>0, <4>1 DEF WriteInv, OrderType
      <4>3. Only(r, o, v)' /\ v \in DOMAIN history'[o]
        BY <2>1, <2>2, <4>2 DEF Only, Wrote
      <4> QED BY <3>3, <4>0, <4>2, <4>3 DEF Told
    <3> QED BY <3>1, <3>2, <3>3
  <2>5. ASSUME NEW q \in Request, q # r, req'[q].phase = "done", req'[q].answer \notin OpenAnswers
        PROVE  Nothing(q)' \/ Told(q)'
    <3>1. req'[q] = req[q]
      BY <2>1, <2>5 DEF Others
    <3> QED BY <2>2, <2>3, <2>5, <3>1 DEF ToldInv
  <2> QED BY <2>4, <2>5 DEF ToldInv
<1>3. ASSUME NEW next \in Orders, NEW total \in Nat, Writes(r, next, total) PROVE ToldInv'
  <2>0. PICK o : o = req[r].order
    OBVIOUS
  <2>1. WrittenTo(r, next, total, o)
    BY <1>3, <2>0, Written
  <2>2. Others(r) /\ req'[r].phase = "saved" /\ UNCHANGED published /\ "saved" # "done"
    BY <1>3 DEF Writes
  <2>3. ASSUME NEW q \in Request, req'[q].phase = "done", req'[q].answer \notin OpenAnswers
        PROVE  Nothing(q)' \/ Told(q)'
    <3>1. q # r /\ req'[q] = req[q]
      BY <2>2, <2>3 DEF Others
    <3>2. /\ Nothing(q) => Nothing(q)'
          /\ \A p \in OrderId : \A w : Only(q, p, w) => Only(q, p, w)'
      BY <2>1, <3>1, OthersWritten
    <3>3. ASSUME NEW p \in OrderId, NEW w, Only(q, p, w) PROVE w \in DOMAIN history'[p]
      BY <3>2, <3>3 DEF Only, Wrote
    <3>4. Told(q) => Told(q)'
      BY <2>2, <3>2, <3>3 DEF Told
    <3> QED BY <2>3, <3>1, <3>2, <3>4 DEF ToldInv
  <2> QED BY <2>3 DEF ToldInv
<1> QED BY <1>1, <1>2, <1>3

LEMMA OrderInitially ==
  ASSUME OrderAssumption, Init
  PROVE  OrderInv
<1>1. /\ store = [o \in OrderId |-> NoOrder] /\ req = [r \in Request |-> Idle]
      /\ history = [o \in OrderId |-> <<>>] /\ checked \in BOOLEAN
  BY DEF Init
<1>2. /\ Idle \in Requests /\ Idle.phase = "idle" /\ Idle.answer = 0
  <2>1. 0 \in Nat
    OBVIOUS
  <2> QED BY <2>1, NoneTyped DEF Idle, Requests, Unwritten
<1>3. \A o \in OrderId : store[o] = NoOrder /\ history[o] = <<>>
  BY <1>1
<1>4. \A r \in Request : req[r].phase = "idle" /\ req[r].answer = 0
  BY <1>1, <1>2
<1>5. "idle" \notin {"loaded", "saved", "done"} /\ 0 \notin Refusal /\ 0 \notin Success
  BY SMT DEF Refusal, Success
<1>6. OrderType
  <2>1. store \in [OrderId -> Orders] /\ req \in [Request -> Requests]
    BY <1>1, <1>2, NoneTyped
  <2>2. <<>> \in Seq([by : Request, event : Commands, total : Nat])
    BY SMT
  <2>3. history \in [OrderId -> Seq([by : Request, event : Commands, total : Nat])]
    BY <1>1, <2>2
  <2> QED BY <1>1, <1>4, <1>5, <2>1, <2>3 DEF OrderType
<1>7. CopyInv
  BY <1>3, <1>4, <1>5 DEF CopyInv
<1>8. Len(<<>>) = 0 /\ DOMAIN <<>> = {} /\ NoOrder.version = 0
  BY SMT DEF NoOrder
<1>9. HistoryInv
  BY <1>3, <1>8 DEF HistoryInv
<1>10. WriteInv
  <2>1. \A r \in Request : Nothing(r)
    BY <1>3, <1>8 DEF Nothing
  <2> QED BY <1>4, <1>5, <2>1 DEF WriteInv
<1>11. ToldInv
  BY <1>4, <1>5 DEF ToldInv
<1> QED BY <1>6, <1>7, <1>9, <1>10, <1>11 DEF OrderInv

LEMMA OrderStep ==
  ASSUME OrderAssumption, OrderInv, [Next]_(vars)
  PROVE  OrderInv'
<1>1. CASE Next
  BY <1>1, OrderTypeNext, CopyNext, HistoryNext, WriteNext, ToldNext DEF OrderInv
<1>2. CASE UNCHANGED vars
  <2>1. UNCHANGED <<store, req, published, history, checked>>
    BY <1>2 DEF vars
  <2>2. OrderType' /\ CopyInv'
    BY <2>1 DEF OrderInv, OrderType, CopyInv
  <2>3. HistoryInv'
    BY <2>1 DEF OrderInv, HistoryInv, Announced
  <2>4. \A q : Nothing(q)' <=> Nothing(q)
    BY <2>1 DEF Nothing
  <2>5. \A q, o, v : Only(q, o, v)' <=> Only(q, o, v)
    BY <2>1 DEF Only, Wrote
  <2>6. WriteInv'
    BY <2>1, <2>4, <2>5 DEF OrderInv, WriteInv
  <2>7. \A q : Told(q) => Told(q)'
    BY <2>1, <2>5 DEF Told
  <2>8. ToldInv'
    BY <2>1, <2>4, <2>7 DEF OrderInv, ToldInv
  <2> QED BY <2>2, <2>3, <2>6, <2>8 DEF OrderInv
<1> QED BY <1>1, <1>2

LEMMA WroteByOf ==
  ASSUME NEW r
  PROVE  /\ Nothing(r) => WroteBy(r) = {}
         /\ \A o \in OrderId : \A v : Only(r, o, v) =>
              WroteBy(r) = {[order |-> o, version |-> v]}
<1>1. \A w : w \in WroteBy(r) <=>
        \E o \in OrderId : \E v \in DOMAIN history[o] :
          history[o][v].by = r /\ w = [order |-> o, version |-> v]
  BY SMT DEF WroteBy, Versions
<1>2. Nothing(r) => WroteBy(r) = {}
  BY <1>1 DEF Nothing
<1>3. ASSUME NEW o \in OrderId, NEW v, Only(r, o, v)
      PROVE  WroteBy(r) = {[order |-> o, version |-> v]}
  <2>1. v \in DOMAIN history[o] /\ history[o][v].by = r
    BY <1>3 DEF Only, Wrote
  <2>2. \A p \in OrderId : \A w \in DOMAIN history[p] : history[p][w].by = r => p = o /\ w = v
    BY <1>3 DEF Only, Wrote
  <2>3. \A w : w \in WroteBy(r) <=> w = [order |-> o, version |-> v]
    BY <1>1, <2>1, <2>2
  <2> QED BY <2>3
<1> QED BY <1>2, <1>3

LEMMA AnswersTrue ==
  ASSUME OrderInv
  PROVE  TruthfulAnswer
<1> SUFFICES ASSUME NEW r \in Request
             PROVE  /\ req[r].answer \in Refusal => WroteBy(r) = {}
                    /\ req[r].answer \in Success /\ req[r].command \in Commands =>
                         \E w \in published : WroteBy(r) = {w}
                    /\ \/ WroteBy(r) \subseteq published \/ req[r].phase = "saved"
                       \/ req[r].answer \in {408, 500}
  BY DEF TruthfulAnswer
<1>1. req[r].answer \in Refusal => WroteBy(r) = {}
  BY WroteByOf DEF OrderInv, WriteInv
<1>2. ASSUME req[r].answer \in Success, req[r].command \in Commands
      PROVE  \E w \in published : WroteBy(r) = {w}
  <2>1. PICK o \in OrderId : \E v \in DOMAIN history[o] :
          Only(r, o, v) /\ [order |-> o, version |-> v] \in published
    BY <1>2 DEF OrderInv, WriteInv
  <2>2. PICK v \in DOMAIN history[o] : Only(r, o, v) /\ [order |-> o, version |-> v] \in published
    BY <2>1
  <2> QED BY <2>2, WroteByOf
<1>3. \/ WroteBy(r) \subseteq published \/ req[r].phase = "saved"
      \/ req[r].answer \in {408, 500}
  <2>1. ASSUME Nothing(r) PROVE WroteBy(r) \subseteq published
    <3>1. WroteBy(r) = {}
      BY <2>1, WroteByOf
    <3> QED BY <3>1
  <2>2. ASSUME Told(r) PROVE WroteBy(r) \subseteq published
    <3>1. PICK o \in OrderId : \E v \in DOMAIN history[o] :
            Only(r, o, v) /\ [order |-> o, version |-> v] \in published
      BY <2>2 DEF Told
    <3>2. PICK v \in DOMAIN history[o] : Only(r, o, v) /\ [order |-> o, version |-> v] \in published
      BY <3>1
    <3>3. PICK w : w = [order |-> o, version |-> v]
      OBVIOUS
    <3>4. WroteBy(r) = {w} /\ w \in published
      BY <3>2, <3>3, WroteByOf
    <3> QED BY <3>4
  <2>3. req[r].phase \in Unwritten \/ req[r].phase = "saved" \/ req[r].phase = "done"
    <3>1. req[r] \in Requests
      BY DEF OrderInv, OrderType
    <3> QED BY <3>1 DEF Requests
  <2>4. req[r].phase \in Unwritten => Nothing(r)
    BY DEF OrderInv, WriteInv
  <2>5. req[r].phase = "done" => req[r].answer \in OpenAnswers \/ Nothing(r) \/ Told(r)
    BY DEF OrderInv, ToldInv
  <2>6. req[r].answer \in OpenAnswers => req[r].answer \in {408, 500}
    BY DEF OpenAnswers
  <2> QED BY <2>1, <2>2, <2>3, <2>4, <2>5, <2>6
<1> QED BY ONLY SMT, <1>1, <1>2, <1>3

LEMMA ConfirmationsLast ==
  ASSUME OrderInv
  PROVE  ConfirmedTotal
<1> SUFFICES ASSUME NEW o \in OrderId, NEW v \in DOMAIN history[o], history[o][v].event = "ConfirmOrder"
             PROVE  /\ v = store[o].version /\ v = Len(history[o])
                    /\ Announced(history[o][v].total, store[o].items)
  BY DEF ConfirmedTotal, Versions, Announced
<1> QED BY DEF OrderInv, HistoryInv

\* The answer a client gets is true, whatever requests, timeouts and failures
\* ran beside it: a 400, 404, 409 or 422 changed nothing, a command answered with
\* success wrote one version, whose event was handled, and only a 408 or a 500
\* leaves a version behind whose event nobody handled.
THEOREM OrderTruthfulAnswer ==
  OrderAssumption => (Spec => []TruthfulAnswer)
<1> SUFFICES ASSUME OrderAssumption PROVE Spec => []TruthfulAnswer
  OBVIOUS
<1>1. Init => OrderInv
  BY OrderInitially
<1>2. OrderInv /\ [Next]_(vars) => OrderInv'
  BY OrderStep
<1>3. OrderInv => TruthfulAnswer
  BY AnswersTrue
<1> QED BY <1>1, <1>2, <1>3, PTL DEF Spec

\* ConfirmOrder is the last word on its order, and the total it announced is the
\* sum of the items the order holds; u64 arithmetic shows only past MaxCents,
\* and only without overflow checks.
THEOREM OrderConfirmedTotal ==
  OrderAssumption => (Spec => []ConfirmedTotal)
<1> SUFFICES ASSUME OrderAssumption PROVE Spec => []ConfirmedTotal
  OBVIOUS
<1>1. Init => OrderInv
  BY OrderInitially
<1>2. OrderInv /\ [Next]_(vars) => OrderInv'
  BY OrderStep
<1>3. OrderInv => ConfirmedTotal
  BY ConfirmationsLast
<1> QED BY <1>1, <1>2, <1>3, PTL DEF Spec

-----------------------------------------------------------------------------
(* Money *)

Coin(n, c) == [amount |-> n, currency |-> c]

LEMMA CheckedIs ==
  ASSUME NEW n, NEW c
  PROVE  /\ n \in Amount => /\ Checked(n, c) = Ok(Coin(n, c)) /\ IsOk(Checked(n, c))
                              /\ Checked(n, c).value = Coin(n, c)
         /\ n \notin Amount => /\ Checked(n, c) = Err("Overflow")
                                 /\ ~IsOk(Checked(n, c))
<1> DEFINE m == Coin(n, c)
<1>1. IsOk(Ok(m)) /\ Ok(m).value = m /\ ~IsOk(Err("Overflow"))
  <2> HIDE DEF m
  <2> QED BY DEF IsOk, Ok, Err
<1>2. Checked(n, c) = IF n \in Amount THEN Ok(m) ELSE Err("Overflow")
  BY DEF Checked, Coin
<1> HIDE DEF m
<1> QED BY <1>1, <1>2 DEF m

LEMMA CoinParts ==
  ASSUME NEW n, NEW c
  PROVE  Coin(n, c).amount = n /\ Coin(n, c).currency = c
BY DEF Coin

LEMMA InRange ==
  ASSUME NEW n \in Amount, NEW c
  PROVE  /\ IsOk(Checked(n, c)) /\ Checked(n, c) = Ok(Coin(n, c))
         /\ Checked(n, c).value.amount = n /\ Checked(n, c).value.currency = c
<1>1. IsOk(Checked(n, c)) /\ Checked(n, c) = Ok(Coin(n, c)) /\ Checked(n, c).value = Coin(n, c)
  BY CheckedIs
<1> QED BY SMT, <1>1 DEF Coin

LEMMA MoneyIsCoin ==
  ASSUME NEW m \in Moneys
  PROVE  /\ m.amount \in Amount /\ m.currency \in Currencies /\ m = Coin(m.amount, m.currency)
BY DEF Moneys, Coin

LEMMA AmountIs ==
  ASSUME MoneyAssumption, NEW n
  PROVE  n \in Amount <=> n \in Int /\ -HalfRange <= n /\ n < HalfRange
BY SMT DEF Amount, MoneyAssumption

\* A transfer that succeeds on both sides keeps the total and the currency.
LEMMA TransferKeeps ==
  ASSUME MoneyAssumption, NEW a \in Moneys, NEW b \in Moneys, NEW x \in Moneys,
         IsOk(CheckedSub(a, x)), IsOk(CheckedAdd(b, x))
  PROVE  /\ CheckedSub(a, x).value.amount + CheckedAdd(b, x).value.amount = a.amount + b.amount
         /\ CheckedSub(a, x).value.currency = CheckedAdd(b, x).value.currency
<1> DEFINE l == a.amount - x.amount
           r == b.amount + x.amount
<1>1. ~IsOk(Err("CurrencyMismatch"))
  BY DEF IsOk, Err
<1>2. a.currency = x.currency /\ b.currency = x.currency
  BY <1>1 DEF CheckedSub, CheckedAdd, EnsureSameCurrency
<1>3. CheckedSub(a, x) = Checked(l, a.currency) /\ CheckedAdd(b, x) = Checked(r, b.currency)
  BY <1>2 DEF CheckedSub, CheckedAdd, EnsureSameCurrency
<1>4. a.amount \in Int /\ b.amount \in Int /\ x.amount \in Int
  BY MoneyIsCoin, AmountIs
<1>5. l + r = a.amount + b.amount
  BY SMT, <1>4
<1> HIDE DEF l, r
<1>6. CheckedSub(a, x).value = Coin(l, a.currency) /\ CheckedAdd(b, x).value = Coin(r, b.currency)
  BY <1>3, CheckedIs
<1>7. /\ CheckedSub(a, x).value.amount = l /\ CheckedAdd(b, x).value.amount = r
      /\ CheckedSub(a, x).value.currency = a.currency
      /\ CheckedAdd(b, x).value.currency = b.currency
  BY SMT, <1>6 DEF Coin
<1> QED BY <1>2, <1>5, <1>7

\* neg and abs: refused for the most negative amount alone.
LEMMA NegAbs ==
  ASSUME MoneyAssumption, NEW m \in Moneys
  PROVE  /\ IsOk(Neg(m)) <=> m.amount # -HalfRange
         /\ IsOk(Neg(m)) => CheckedAdd(m, Neg(m).value) = Checked(0, m.currency)
         /\ IsOk(Abs(m)) <=> IsOk(Neg(m))
         /\ IsOk(Abs(m)) => Abs(m).value.amount >= 0 /\ Abs(m) \in {Ok(m), Neg(m)}
<1> DEFINE n == m.amount
           c == m.currency
           k == -n
           s == IF n < 0 THEN -n ELSE n
<1>1. n \in Amount /\ m = Coin(n, c)
  BY MoneyIsCoin
<1>2. /\ k \in Amount <=> n # -HalfRange
      /\ s \in Amount <=> k \in Amount
      /\ n + k = 0 /\ (s = n \/ s = k) /\ s >= 0
  BY SMT, <1>1 DEF Amount, MoneyAssumption
<1>3. Neg(m) = Checked(k, c) /\ Abs(m) = Checked(s, c)
  BY DEF Neg, Abs
<1>4. IsOk(Neg(m)) <=> n # -HalfRange
  <2> HIDE DEF k, n
  <2> QED BY <1>2, <1>3, CheckedIs
<1>5. ASSUME IsOk(Neg(m)) PROVE CheckedAdd(m, Neg(m).value) = Checked(0, m.currency)
  <2> DEFINE v == Neg(m).value
  <2>1. v = Coin(k, c)
    <3> HIDE DEF k, c
    <3> QED BY <1>3, <1>5, CheckedIs
  <2>2. v.amount = k /\ v.currency = c
    <3> HIDE DEF k, c, v
    <3> QED BY <2>1, CoinParts
  <2> HIDE DEF v, k
  <2>3. CheckedAdd(m, v) = Checked(n + k, c)
    BY <2>2 DEF CheckedAdd, EnsureSameCurrency
  <2> QED BY <1>2, <2>3 DEF v
<1>6. IsOk(Abs(m)) <=> IsOk(Neg(m))
  <2> HIDE DEF k, c, s, n
  <2> QED BY <1>2, <1>3, CheckedIs
<1>7. ASSUME IsOk(Abs(m)) PROVE Abs(m).value.amount >= 0 /\ Abs(m) \in {Ok(m), Neg(m)}
  <2> HIDE DEF k, c, s, n
  <2>1. Abs(m).value = Coin(s, c) /\ Abs(m) = Ok(Coin(s, c))
    BY <1>3, <1>7, CheckedIs
  <2>2. Abs(m).value.amount >= 0
    BY <1>2, <2>1, CoinParts
  <2>3. Abs(m) \in {Ok(m), Neg(m)}
    BY <1>1, <1>2, <1>3, <2>1
  <2> QED BY <2>2, <2>3
<1> QED BY <1>4, <1>5, <1>6, <1>7 DEF n

\* Adding up, by any function that goes along.
Goes(f, s, n, c) ==
  f = [i \in 0..n |-> IF i = 0 THEN Checked(0, c)
                      ELSE IF IsOk(f[i - 1]) THEN CheckedAdd(f[i - 1].value, s[i])
                      ELSE f[i - 1]]

GoesAlong(f, s, n, c) == n \in Nat /\ Len(s) = n /\ Goes(f, s, n, c)

LEMMA AddUpIs ==
  ASSUME NEW s, NEW c, NEW n, NEW f, GoesAlong(f, s, n, c)
  PROVE  AddUp(s, c) = f[n]
<1>0. n \in Nat /\ Len(s) = n /\ Goes(f, s, n, c)
  BY DEF GoesAlong
<1> DEFINE g == CHOOSE g : Goes(g, s, n, c)
<1>1. Goes(g, s, n, c)
  BY <1>0
<1>2. AddUp(s, c) = g[n]
  BY <1>0 DEF AddUp, Goes
<1> HIDE DEF g
<1> DEFINE T == {i \in Nat : i <= n => g[i] = f[i]}
<1>3. 0 \in T
  <2>1. 0 \in 0..n
    BY SMT, <1>0
  <2>2. g[0] = Checked(0, c) /\ f[0] = Checked(0, c)
    BY <1>0, <1>1, <2>1 DEF Goes
  <2> QED BY <2>2
<1>4. ASSUME NEW i \in Nat, i \in T PROVE i + 1 \in T
  <2>1. i + 1 \in Nat /\ i + 1 # 0 /\ (i + 1) - 1 = i /\ (i + 1 <= n => i <= n /\ i + 1 \in 0..n)
    BY SMT, <1>0
  <2> SUFFICES ASSUME i + 1 <= n PROVE g[i + 1] = f[i + 1]
    BY <2>1
  <2> DEFINE Plus(x) == IF IsOk(x) THEN CheckedAdd(x.value, s[i + 1]) ELSE x
  <2>2. g[i + 1] = Plus(g[i]) /\ f[i + 1] = Plus(f[i])
    BY <1>0, <1>1, <2>1 DEF Goes
  <2>3. g[i] = f[i]
    BY <1>4, <2>1
  <2> HIDE DEF Plus
  <2> QED BY <2>2, <2>3
<1>5. n \in T /\ n <= n
  <2> HIDE DEF T
  <2>1. n \in T
    BY <1>0, <1>3, <1>4, Induction
  <2> QED BY SMT, <1>0, <2>1
<1> QED BY <1>2, <1>5

\* Adding up amounts whose partial sums stay in range.
PartialSums(p, s, n, c) ==
  /\ n \in Nat /\ Len(s) = n
  /\ p \in [0..n -> Amount] /\ p[0] = 0
  /\ \A i \in 1..n : s[i].currency = c /\ p[i] = p[i - 1] + s[i].amount

Reaches(p, s, n, c) == AddUp(s, c) = Ok(Coin(p[n], c))

LEMMA AddUpStays ==
  ASSUME NEW p, NEW s, NEW n, NEW c, PartialSums(p, s, n, c)
  PROVE  Reaches(p, s, n, c)
<1> DEFINE f == [i \in 0..n |-> Checked(p[i], c)]
<1>1. n \in Nat /\ p \in [0..n -> Amount] /\ p[0] = 0
  BY DEF PartialSums
<1>2. \A i \in 1..n : s[i].currency = c /\ p[i] = p[i - 1] + s[i].amount
  BY DEF PartialSums
<1>3. \A i \in 0..n : i # 0 => i \in 1..n /\ i - 1 \in 0..n
  BY SMT, <1>1
<1>4. ASSUME NEW i \in 0..n, i # 0
      PROVE  /\ IsOk(f[i - 1])
             /\ CheckedAdd(f[i - 1].value, s[i]) = Checked(p[i], c)
  <2>1. i \in 1..n /\ i - 1 \in 0..n
    BY <1>3, <1>4
  <2> DEFINE k == p[i - 1]
             x == f[i - 1]
  <2>2. x = Checked(k, c) /\ k \in Amount
    BY <1>1, <2>1
  <2> HIDE DEF f, x, k
  <2>3. IsOk(x) /\ x.value.amount = k /\ x.value.currency = c
    BY <2>2, InRange
  <2>4. s[i].currency = c /\ p[i] = k + s[i].amount
    BY <1>2, <2>1 DEF k
  <2>5. CheckedAdd(x.value, s[i]) = Checked(k + s[i].amount, c)
    BY <2>3, <2>4 DEF CheckedAdd, EnsureSameCurrency
  <2> QED BY <2>3, <2>4, <2>5 DEF x
<1>5. Goes(f, s, n, c)
  <2>1. ASSUME NEW i \in 0..n
        PROVE  Checked(p[i], c) = IF i = 0 THEN Checked(0, c)
                                    ELSE IF IsOk(f[i - 1]) THEN CheckedAdd(f[i - 1].value, s[i])
                                    ELSE f[i - 1]
    <3> HIDE DEF f
    <3> QED BY <1>1, <1>4
  <2> QED BY <2>1 DEF Goes
<1>6. n \in 0..n /\ p[n] \in Amount
  BY SMT, <1>1
<1>7. AddUp(s, c) = f[n]
  <2> HIDE DEF f
  <2>1. GoesAlong(f, s, n, c)
    BY <1>5 DEF GoesAlong, PartialSums
  <2> QED BY <2>1, AddUpIs
<1>8. f[n] = Checked(p[n], c)
  BY <1>6
<1> HIDE DEF f
<1>9. Checked(p[n], c) = Ok(Coin(p[n], c))
  BY <1>6, InRange
<1> QED BY <1>7, <1>8, <1>9 DEF Reaches

LEMMA Division ==
  ASSUME NEW t \in Int, NEW p \in Nat \ {0}
  PROVE  /\ t \div p \in Int /\ t % p \in Int /\ 0 <= t % p /\ t % p < p
         /\ t = p * (t \div p) + (t % p)
<1>1. t \div p \in Int /\ t % p \in Int
  BY SMT
<1>2. 0 <= t % p /\ t % p < p
  BY SMT
<1>3. t = p * (t \div p) + (t % p)
  BY SMT
<1> QED BY <1>1, <1>2, <1>3

LEMMA Larger ==
  ASSUME NEW a \in Nat, NEW q \in Int
  PROVE  /\ a * q \in Int
         /\ q >= 0 => a * q >= 0
         /\ q <= -1 => a * q <= -a
BY SMT

LEMMA Splits ==
  ASSUME NEW p \in Nat, NEW i \in 0..p, NEW q \in Int
  PROVE  p - i \in Nat /\ i \in Nat /\ p * q = i * q + (p - i) * q
BY SMT

\* The sum of the first i shares lies between zero and the amount.
LEMMA ShareSums ==
  ASSUME NEW p \in Nat, NEW q \in Int, NEW r \in Nat, r < p, NEW i \in 0..p, NEW t, t = p * q + r,
         NEW m, m = IF i < r THEN i ELSE r
  PROVE  /\ i * q + m \in Int
         /\ (0 <= i * q + m /\ i * q + m <= t) \/ (t <= i * q + m /\ i * q + m <= 0)
<1> DEFINE a == i * q
           b == (p - i) * q
<1>1. p - i \in Nat /\ i \in Nat /\ t = a + b + r
  <2>1. p * q = a + b /\ p * q \in Int /\ a \in Int /\ b \in Int
    BY Splits, Larger
  <2> HIDE DEF a, b
  <2> QED BY SMT, <2>1
<1>2. /\ a \in Int /\ b \in Int /\ (q >= 0 => a >= 0 /\ b >= 0)
      /\ (q <= -1 => a <= -i /\ b <= -(p - i))
  BY <1>1, Larger
<1> HIDE DEF a, b
<1>3. q >= 0 \/ q <= -1
  BY SMT
<1>4. (0 <= a + m /\ a + m <= t) \/ (t <= a + m /\ a + m <= 0)
  BY SMT, <1>1, <1>2, <1>3
<1> QED BY SMT, <1>2, <1>4 DEF a

\* Allocation: as many shares as were asked for, at most MaxParts.
Shares(m, parts) ==
  [i \in 1..parts |-> Coin(Share(m.amount, parts, i), m.currency)]

LEMMA AllocateIs ==
  ASSUME MoneyAssumption, NEW m, NEW parts \in Nat
  PROVE  /\ IsOk(Allocate(m, parts)) <=> parts \in 1..MaxParts
         /\ parts \in 1..MaxParts => Allocate(m, parts) = Ok(Shares(m, parts))
<1> DEFINE units == [i \in 1..parts |-> Share(m.amount, parts, i)]
           result == AllocateMinorUnits(m.amount, parts, MaxParts)
           coins(v) == [i \in 1..parts |-> [amount |-> v[i], currency |-> m.currency]]
<1>1. /\ parts = 0 => result = Err("InvalidAllocation")
      /\ parts # 0 /\ parts > MaxParts => result = Err("TooManyParts")
      /\ parts # 0 /\ ~(parts > MaxParts) => result = Ok(units)
  BY DEF AllocateMinorUnits
<1>2. /\ ~IsOk(Err("InvalidAllocation")) /\ ~IsOk(Err("TooManyParts"))
      /\ \A v : IsOk(Ok(v)) /\ Ok(v).value = v
  BY DEF IsOk, Ok, Err
<1>3. parts \in 1..MaxParts <=> parts # 0 /\ ~(parts > MaxParts)
  BY SMT DEF MoneyAssumption
<1>4. Allocate(m, parts) = IF IsOk(result) THEN Ok(coins(result.value)) ELSE result
  BY DEF Allocate
<1> HIDE DEF result
<1>5. CASE parts \in 1..MaxParts
  <2>1. result = Ok(units)
    BY <1>1, <1>3, <1>5
  <2> HIDE DEF units
  <2>2. IsOk(result) /\ result.value = units
    BY <1>2, <2>1
  <2>3. coins(units) = Shares(m, parts)
    BY DEF units, Shares, Coin
  <2> HIDE DEF coins
  <2>4. Allocate(m, parts) = Ok(Shares(m, parts))
    BY <1>4, <2>2, <2>3
  <2> QED BY <1>2, <1>5, <2>4
<1>6. CASE parts \notin 1..MaxParts
  <2>1. ~IsOk(result)
    BY <1>1, <1>2, <1>3, <1>6
  <2> HIDE DEF coins
  <2> QED BY <1>4, <1>6, <2>1
<1> QED BY <1>5, <1>6

LEMMA NextRemainder ==
  ASSUME NEW i \in Nat, NEW q \in Int
  PROVE  /\ i * q \in Int /\ (i + 1) * q = i * q + q /\ 0 * q = 0
         /\ q * i = i * q
BY SMT

LEMMA MoneyInt ==
  ASSUME MoneyAssumption
  PROVE  /\ HalfRange \in Nat /\ MaxParts \in Nat
         /\ \A n \in Amount : n \in Int
BY SMT DEF MoneyAssumption, Amount

\* The shares add up to the amount, and every partial sum stays in range.
LEMMA SharesAddUp ==
  ASSUME MoneyAssumption, NEW m \in Moneys, NEW parts \in 1..MaxParts
  PROVE  AddUp(Shares(m, parts), m.currency) = Ok(m)
<1> DEFINE t == m.amount
           c == m.currency
           q == t \div parts
           r == t % parts
           s == Shares(m, parts)
           p == [i \in 0..parts |-> i * q + IF i < r THEN i ELSE r]
<1>1. t \in Amount /\ t \in Int /\ m = Coin(t, c)
  BY MoneyIsCoin, MoneyInt
<1>2. parts \in Nat /\ parts # 0
  BY SMT, MoneyInt
<1>3. q \in Int /\ r \in Int /\ 0 <= r /\ r < parts /\ t = parts * q + r
  <2> HIDE DEF t
  <2> QED BY <1>1, <1>2, Division
<1>4. \A i \in 1..parts : s[i].currency = c /\ s[i].amount = q + IF i - 1 < r THEN 1 ELSE 0
  <2> SUFFICES ASSUME NEW i \in 1..parts
               PROVE  s[i].currency = c /\ s[i].amount = q + IF i - 1 < r THEN 1 ELSE 0
    OBVIOUS
  <2>1. s[i] = Coin(Share(t, parts, i), c)
    BY DEF Shares
  <2>2. Share(t, parts, i) = q + IF i - 1 < r THEN 1 ELSE 0
    BY DEF Share
  <2> DEFINE x == Share(t, parts, i)
             y == q + IF i - 1 < r THEN 1 ELSE 0
  <2> HIDE DEF s, x, y, c
  <2>3. s[i] = Coin(x, c) /\ x = y
    BY <2>1, <2>2 DEF x, y
  <2>4. s[i].currency = c /\ s[i].amount = y
    BY SMT, <2>3 DEF Coin
  <2> QED BY <2>4 DEF y
<1>5. Len(s) = parts
  BY SMT, <1>2 DEF Shares
<1> HIDE DEF t, q, r, s, c
<1>6. ASSUME NEW i \in 0..parts PROVE i * q + (IF i < r THEN i ELSE r) \in Amount
  <2> DEFINE k == IF i < r THEN i ELSE r
             w == i * q + k
  <2>1. r \in Nat
    BY SMT, <1>3
  <2>2. w \in Int /\ ((0 <= w /\ w <= t) \/ (t <= w /\ w <= 0))
    <3> HIDE DEF k
    <3>1. k = IF i < r THEN i ELSE r
      BY DEF k
    <3> QED BY <1>2, <1>3, <2>1, <3>1, ShareSums
  <2> HIDE DEF w
  <2>3. w \in Amount
    BY SMT, <1>1, <2>2 DEF Amount, MoneyAssumption
  <2> QED BY <2>3 DEF w
<1>7. p \in [0..parts -> Amount]
  BY <1>6
<1>8. p[0] = 0 /\ p[parts] = t
  <2>1. 0 * q = 0 /\ parts * q \in Int
    BY <1>2, <1>3, NextRemainder
  <2>2. p[0] = 0
    BY SMT, <1>2, <1>3, <2>1
  <2>3. p[parts] = t
    BY SMT, <1>2, <1>3, <2>1
  <2> QED BY <2>2, <2>3
<1>9. ASSUME NEW i \in 1..parts PROVE p[i] = p[i - 1] + s[i].amount
  <2> DEFINE j == i - 1
  <2>1. j \in Nat /\ j + 1 = i /\ j \in 0..parts /\ i \in 0..parts
    BY SMT, <1>2
  <2> DEFINE a == j * q
  <2>2. a \in Int /\ i * q = a + q
    <3> HIDE DEF j
    <3>1. j * q \in Int /\ (j + 1) * q = j * q + q
      BY <1>3, <2>1, NextRemainder
    <3> QED BY <2>1, <3>1
  <2>3. s[i].amount = q + IF j < r THEN 1 ELSE 0
    BY <1>4
  <2>4. p[i] = i * q + (IF i < r THEN i ELSE r) /\ p[j] = a + (IF j < r THEN j ELSE r)
    <3> HIDE DEF j
    <3> QED BY <2>1
  <2> DEFINE b == i * q
  <2>5. b = a + q /\ p[i] = b + (IF i < r THEN i ELSE r) /\ q \in Int /\ r \in Int
    BY <1>3, <2>2, <2>4
  <2>6. p[j] = a + (IF j < r THEN j ELSE r) /\ a \in Int
    BY <2>2, <2>4
  <2> HIDE DEF p, a, b, j
  <2>7. p[i] = p[j] + s[i].amount
    BY SMT, <2>1, <2>3, <2>5, <2>6
  <2> QED BY <2>7 DEF j
<1> HIDE DEF p
<1>10. PartialSums(p, s, parts, c)
  <2>1. \A i \in 1..parts : s[i].currency = c
    BY <1>4
  <2>2. \A i \in 1..parts : p[i] = p[i - 1] + s[i].amount
    BY <1>9
  <2> QED BY <1>2, <1>5, <1>7, <1>8, <2>1, <2>2 DEF PartialSums
<1>11. Reaches(p, s, parts, c)
  BY <1>10, AddUpStays
<1> QED BY <1>1, <1>8, <1>11 DEF Reaches, s, c

\* The larger shares come first and differ from the others by one unit.
LEMMA SharesEven ==
  ASSUME MoneyAssumption, NEW m \in Moneys, NEW parts \in 1..MaxParts,
         NEW i \in 1..parts, NEW j \in 1..parts, i < j
  PROVE  Shares(m, parts)[i].amount - Shares(m, parts)[j].amount \in {0, 1}
<1> DEFINE q == m.amount \div parts
           r == m.amount % parts
<1>1. m.amount \in Int /\ parts \in Nat /\ parts # 0
  <2>1. m.amount \in Int
    BY MoneyIsCoin, MoneyInt
  <2> QED BY SMT, <2>1, MoneyInt
<1>2. q \in Int /\ r \in Int
  BY <1>1, Division
<1>3. \A k \in 1..parts : Shares(m, parts)[k].amount = q + IF k - 1 < r THEN 1 ELSE 0
  <2> SUFFICES ASSUME NEW k \in 1..parts
               PROVE  Shares(m, parts)[k].amount = q + IF k - 1 < r THEN 1 ELSE 0
    OBVIOUS
  <2> DEFINE x == Share(m.amount, parts, k)
             y == m.currency
  <2>1. Shares(m, parts)[k] = Coin(x, y)
    BY DEF Shares
  <2>2. x = q + IF k - 1 < r THEN 1 ELSE 0
    BY DEF Share
  <2>3. Shares(m, parts)[k].amount = x
    <3> HIDE DEF x, y
    <3> QED BY SMT, <2>1 DEF Coin
  <2> HIDE DEF x
  <2> QED BY <2>2, <2>3
<1> HIDE DEF q, r
<1>4. /\ Shares(m, parts)[i].amount = q + IF i - 1 < r THEN 1 ELSE 0
      /\ Shares(m, parts)[j].amount = q + IF j - 1 < r THEN 1 ELSE 0
  BY <1>3
<1> QED BY SMT, <1>2, <1>4

\* A product out of range stays out of range when it grows.
LEMMA StaysOut ==
  ASSUME MoneyAssumption, NEW a \in Int, NEW i \in Nat, i * a \notin Amount
  PROVE  (i + 1) * a \notin Amount
<1> DEFINE x == i * a
<1>1. x \in Int /\ (i + 1) * a = x + a /\ (a >= 0 => x >= 0) /\ (a <= -1 => x <= -i)
  BY NextRemainder, Larger
<1>2. HalfRange \in Nat /\ ~(-HalfRange <= x /\ x < HalfRange)
  <2>1. x \notin Amount /\ HalfRange \in Nat
    BY MoneyInt
  <2> HIDE DEF x
  <2> QED BY SMT, <1>1, <2>1 DEF Amount
<1> HIDE DEF x
<1>3. x + a \notin Amount
  BY SMT, <1>1, <1>2 DEF Amount
<1> QED BY <1>1, <1>3

\* checked_mul is repeated checked_add, overflow included.
LEMMA MulIsAddUp ==
  ASSUME MoneyAssumption, NEW m \in Moneys, NEW n \in Nat
  PROVE  CheckedMul(m, n) = AddUp([i \in 1..n |-> m], m.currency)
<1> DEFINE a == m.amount
           c == m.currency
           s == [i \in 1..n |-> m]
           f == [i \in 0..n |-> Checked(i * a, c)]
<1>1. a \in Int
  BY MoneyIsCoin, MoneyInt
<1>2. Len(s) = n
  BY SMT
<1>3. ASSUME NEW i \in 1..n
      PROVE  Checked(i * a, c) = IF IsOk(f[i - 1]) THEN CheckedAdd(f[i - 1].value, s[i])
                                   ELSE f[i - 1]
  <2> DEFINE j == i - 1
             x == j * a
             y == f[j]
  <2>1. j \in Nat /\ j + 1 = i /\ j \in 0..n
    BY SMT
  <2>2. y = Checked(x, c)
    BY <2>1
  <2>3. i * a = x + a
    <3> HIDE DEF j, a
    <3>1. (j + 1) * a = j * a + a
      BY <1>1, <2>1, NextRemainder
    <3> QED BY <2>1, <3>1
  <2>4. s[i] = m
    OBVIOUS
  <2>5. CASE x \in Amount
    <3>1. IsOk(y) /\ y.value.amount = x /\ y.value.currency = c
      <4> HIDE DEF x, y, c
      <4> QED BY <2>2, <2>5, InRange
    <3> HIDE DEF x, y
    <3>2. CheckedAdd(y.value, m) = Checked(x + a, c)
      BY <3>1 DEF CheckedAdd, EnsureSameCurrency
    <3> HIDE DEF a, c, s
    <3>3. Checked(i * a, c) = IF IsOk(y) THEN CheckedAdd(y.value, s[i]) ELSE y
      BY <2>3, <2>4, <3>1, <3>2
    <3> QED BY <3>3 DEF y
  <2>6. CASE x \notin Amount
    <3>1. i * a \notin Amount
      <4> HIDE DEF j, a
      <4>1. (j + 1) * a \notin Amount
        BY <1>1, <2>1, <2>6, StaysOut
      <4> QED BY <2>1, <4>1
    <3> HIDE DEF x, y, a, c, s
    <3>2. y = Err("Overflow") /\ ~IsOk(y) /\ Checked(i * a, c) = Err("Overflow")
      BY <2>2, <2>6, <3>1, CheckedIs
    <3>3. Checked(i * a, c) = IF IsOk(y) THEN CheckedAdd(y.value, s[i]) ELSE y
      BY <3>2
    <3> QED BY <3>3 DEF y
  <2> QED BY <2>5, <2>6
<1>4. 0 * a = 0 /\ n * a = a * n
  <2> HIDE DEF a
  <2> QED BY <1>1, NextRemainder
<1>5. GoesAlong(f, s, n, c)
  <2>1. ASSUME NEW i \in 0..n
        PROVE  Checked(i * a, c) = IF i = 0 THEN Checked(0, c)
                                     ELSE IF IsOk(f[i - 1]) THEN CheckedAdd(f[i - 1].value, s[i])
                                     ELSE f[i - 1]
    <3>1. i # 0 => i \in 1..n
      BY SMT
    <3> HIDE DEF f, a, c, s
    <3> QED BY <1>3, <1>4, <3>1
  <2>2. Goes(f, s, n, c)
    <3> HIDE DEF a, c, s
    <3> QED BY <2>1 DEF Goes
  <2> HIDE DEF f, s, a, c
  <2> QED BY <1>2, <2>2 DEF GoesAlong
<1>6. f[n] = Checked(a * n, c)
  <2>1. n \in 0..n
    BY SMT
  <2> HIDE DEF a, c
  <2>2. f[n] = Checked(n * a, c)
    BY <2>1
  <2> HIDE DEF f
  <2> QED BY <1>4, <2>2
<1> HIDE DEF f
<1>7. AddUp(s, c) = f[n]
  <2> HIDE DEF s, c
  <2> QED BY <1>5, AddUpIs
<1> QED BY <1>6, <1>7 DEF CheckedMul

LEMMA MoneyConserved == MoneyAssumption => Conserved
<1> SUFFICES ASSUME MoneyAssumption PROVE Conserved
  OBVIOUS
<1>1. ASSUME NEW m \in Moneys, NEW parts \in 0..(MaxParts + 1)
      PROVE  LET shares == Allocate(m, parts) IN
             /\ IsOk(shares) <=> parts \in 1..MaxParts
             /\ IsOk(shares) =>
                  /\ Len(shares.value) = parts
                  /\ AddUp(shares.value, m.currency) = Ok(m)
                  /\ \A i, j \in 1..parts : i < j =>
                       shares.value[i].amount - shares.value[j].amount \in {0, 1}
             /\ CheckedMul(m, parts) = AddUp([i \in 1..parts |-> m], m.currency)
  <2> DEFINE shares == Allocate(m, parts)
  <2>1. parts \in Nat
    BY SMT, MoneyInt
  <2>2. IsOk(shares) <=> parts \in 1..MaxParts
    BY <2>1, AllocateIs
  <2>3. ASSUME IsOk(shares)
        PROVE  /\ Len(shares.value) = parts
               /\ AddUp(shares.value, m.currency) = Ok(m)
               /\ \A i, j \in 1..parts : i < j =>
                    shares.value[i].amount - shares.value[j].amount \in {0, 1}
    <3> DEFINE s == Shares(m, parts)
    <3>1. parts \in 1..MaxParts
      BY <2>2, <2>3
    <3>2. shares = Ok(s)
      BY <2>1, <3>1, AllocateIs
    <3>3. Len(s) = parts
      BY SMT, <2>1 DEF Shares
    <3>4. AddUp(s, m.currency) = Ok(m)
      BY <3>1, SharesAddUp
    <3>5. \A i, j \in 1..parts : i < j => s[i].amount - s[j].amount \in {0, 1}
      BY <3>1, SharesEven
    <3> HIDE DEF s, shares
    <3>6. shares.value = s
      BY <3>2 DEF Ok
    <3>7. Len(shares.value) = parts /\ AddUp(shares.value, m.currency) = Ok(m)
      BY <3>3, <3>4, <3>6
    <3>8. \A i, j \in 1..parts : i < j =>
            shares.value[i].amount - shares.value[j].amount \in {0, 1}
      BY <3>5, <3>6
    <3> QED BY <3>7, <3>8
  <2>4. CheckedMul(m, parts) = AddUp([i \in 1..parts |-> m], m.currency)
    BY <2>1, MulIsAddUp
  <2> HIDE DEF shares
  <2> QED BY <2>2, <2>3, <2>4 DEF shares
<1> QED BY <1>1, TransferKeeps, NegAbs DEF Conserved

\* Money is moved, multiplied and split without loss: for amounts of any width,
\* 128 bits included, any number of parts and any currencies.
THEOREM ServiceMoneyExact ==
  MoneyAssumption => Conserved /\ MoneyExact
BY MoneyConserved DEF MoneyExact
=============================================================================
