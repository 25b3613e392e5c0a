------------------------------- MODULE Money --------------------------------
(***************************************************************************)
(* Money of pharos-core: checked arithmetic on minor units and lossless    *)
(* allocation.  i128 is the range -HalfRange .. HalfRange - 1.             *)
(*                                                                         *)
(* The operators named Mut... are plausible defects of the definition that *)
(* follows them; they are not part of the specification.                   *)
(***************************************************************************)
EXTENDS Integers, Sequences

CONSTANTS
  HalfRange,  \* 2^127 in the code
  MaxParts,   \* Money::MAX_ALLOCATION_PARTS
  Currencies

ASSUME MoneyAssumption ==
  HalfRange \in Nat \ {0} /\ MaxParts \in 1..(HalfRange - 1)

Amount == -HalfRange .. (HalfRange - 1)
Moneys == [amount : Amount, currency : Currencies]

Ok(v) == [error |-> "none", value |-> v]
Err(e) == [error |-> e, value |-> 0]
IsOk(r) == r.error = "none"

-----------------------------------------------------------------------------
(* Arithmetic *)

\* i128::checked_add and its kin.
Checked(n, currency) ==
  IF n \in Amount THEN Ok([amount |-> n, currency |-> currency]) ELSE Err("Overflow")

EnsureSameCurrency(a, b) == a.currency = b.currency

CheckedAdd(a, b) ==
  IF EnsureSameCurrency(a, b) THEN Checked(a.amount + b.amount, a.currency)
  ELSE Err("CurrencyMismatch")
CheckedSub(a, b) ==
  IF EnsureSameCurrency(a, b) THEN Checked(a.amount - b.amount, a.currency)
  ELSE Err("CurrencyMismatch")
CheckedMul(a, factor) == Checked(a.amount * factor, a.currency)
Neg(a) == Checked(-a.amount, a.currency)
Abs(a) == Checked(IF a.amount < 0 THEN -a.amount ELSE a.amount, a.currency)

-----------------------------------------------------------------------------
(* Allocation *)

\* The i-th share: div_euclid, and one more for the first rem_euclid shares.
MutShare(total, parts, i) ==
  LET n == IF total < 0 THEN -total ELSE total
      sign == IF total < 0 THEN -1 ELSE 1
  IN sign * (n \div parts) + IF i - 1 < sign * (n % parts) THEN 1 ELSE 0
Share(total, parts, i) == total \div parts + IF i - 1 < total % parts THEN 1 ELSE 0

AllocateMinorUnits(total, parts, max) ==
  IF parts = 0 THEN Err("InvalidAllocation")
  ELSE IF parts > max THEN Err("TooManyParts")
  ELSE Ok([i \in 1..parts |-> Share(total, parts, i)])

Allocate(m, parts) ==
  LET shares == AllocateMinorUnits(m.amount, parts, MaxParts) IN
  IF IsOk(shares)
    THEN Ok([i \in 1..parts |-> [amount |-> shares.value[i], currency |-> m.currency]])
    ELSE shares

-----------------------------------------------------------------------------
(* Properties *)

\* What adding up moneys with checked_add comes to; the first error ends it.
AddUp(moneys, currency) ==
  LET sum[i \in 0..Len(moneys)] ==
        IF i = 0 THEN Checked(0, currency)
        ELSE IF IsOk(sum[i - 1]) THEN CheckedAdd(sum[i - 1].value, moneys[i])
        ELSE sum[i - 1]
  IN sum[Len(moneys)]

\* Money moves and splits without loss, up to the ends of the range.  Moving x
\* from a to b keeps the total of both when both halves succeed, and never
\* between currencies; the shares of an allocation add up again, with
\* checked_add and without overflow on the way, to the amount that was split
\* (negative amounts included), differ by one unit at most, the larger ones
\* first, and as many as were asked for.  checked_mul is repeated checked_add,
\* overflow included; neg undoes itself and is refused for the most negative
\* amount alone, as is abs.
Conserved ==
  /\ \A a, b, x \in Moneys :
       LET left == CheckedSub(a, x) right == CheckedAdd(b, x) IN
       IsOk(left) /\ IsOk(right) =>
         /\ left.value.amount + right.value.amount = a.amount + b.amount
         /\ left.value.currency = right.value.currency
  /\ \A m \in Moneys, parts \in 0..(MaxParts + 1) :
       LET shares == Allocate(m, parts) IN
          /\ IsOk(shares) <=> parts \in 1..MaxParts
          /\ IsOk(shares) =>
               /\ Len(shares.value) = parts
               /\ AddUp(shares.value, m.currency) = Ok(m)
               /\ \A i, j \in 1..parts : i < j =>
                    shares.value[i].amount - shares.value[j].amount \in {0, 1}
          /\ CheckedMul(m, parts) = AddUp([i \in 1..parts |-> m], m.currency)
  /\ \A m \in Moneys :
       LET size == Abs(m) IN
       /\ IsOk(Neg(m)) <=> m.amount # -HalfRange
       /\ IsOk(Neg(m)) => CheckedAdd(m, Neg(m).value) = Checked(0, m.currency)
       /\ IsOk(size) <=> IsOk(Neg(m))
       /\ IsOk(size) => size.value.amount >= 0 /\ size \in {Ok(m), Neg(m)}
=============================================================================
