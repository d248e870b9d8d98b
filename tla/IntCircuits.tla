----------------------------- MODULE IntCircuits -----------------------------
(***************************************************************************)
(* The boolean gates of the translation (encode/circuit.rs).  A Bool of    *)
(* the program is a constant or a literal of the growing formula; here it  *)
(* is the function the literal computes, as the set of the assignments of  *)
(* the primary variables that make it true.  The clauses that define an    *)
(* auxiliary, and the caches that hand one auxiliary out twice, determine  *)
(* the same function and are left out; a gate counts as folded to a        *)
(* constant when its function is one.                                      *)
(*                                                                         *)
(* And integer arithmetic as circuits (encode/int.rs).  An integer is a    *)
(* sequence of bits, the least significant first and the sign last; every  *)
(* operation returns a value at the same width and, where one exists, the  *)
(* flag of its own overflow: [v, of].                                      *)
(***************************************************************************)
EXTENDS IntValues, SequencesExt

CONSTANT Assignments

False == {}
True  == Assignments

Const(b)       == IF b THEN True ELSE False
Not(x)         == Assignments \ x
AndMany(items) == {a \in Assignments : \A x \in items : a \in x}
OrMany(items)  == UNION items
And(x, y)      == x \cap y
Or(x, y)       == x \cup y
Implies(x, y)  == Or(Not(x), y)
Iff(x, y)      == And(Implies(x, y), Implies(y, x))
Xor(x, y)      == Not(Iff(x, y))
Ite(c, t, e)   == Or(And(c, t), And(Not(c), e))

(***************************************************************************)
(* The comparator of the lexicographic leader: every position at which     *)
(* all earlier ones agree is ordered.                                      *)
(***************************************************************************)
LexLeq(original, permuted) ==
  LET step(s, i) ==
        [leq |-> And(s.leq, Implies(s.eq, Implies(original[i], permuted[i]))),
         eq  |-> And(s.eq, Iff(original[i], permuted[i]))]
  IN  FoldLeft(step, [leq |-> True, eq |-> True],
               [i \in 1..Len(original) |-> i]).leq

----------------------------------------------------------------------------
(* Integers. *)

Width(x) == Len(x)
Msb(x)   == x[Len(x)]
Positions(x) == [i \in 1..Len(x) |-> i]

IntConst(n, w) == [i \in 1..w |-> Const(Bit(n % 2^w, i - 1))]

FullAdd(a, b, cin) ==
  [sum   |-> Xor(Xor(a, b), cin),
   carry |-> Or(And(a, b), And(cin, Xor(a, b)))]

(* A ripple of full adders: the sum, the last carry, and the carry into    *)
(* the sign position.                                                      *)
Ripple(a, b, cin) ==
  LET step(s, i) ==
        LET r == FullAdd(a[i], b[i], s.carry)
        IN  [bits  |-> Append(s.bits, r.sum), carry |-> r.carry,
             into  |-> IF i = Width(a) THEN s.carry ELSE s.into]
  IN  FoldLeft(step, [bits |-> <<>>, carry |-> cin, into |-> False], Positions(a))

Invert(a) == [i \in 1..Width(a) |-> Not(a[i])]

(* The counter of a cardinality grows by a bit when the carry may escape. *)
AddBit(acc, bit) ==
  LET r == Ripple(acc, [i \in 1..Len(acc) |-> False], bit)
  IN  IF r.carry = False THEN r.bits ELSE Append(r.bits, r.carry)

UnsignedToSigned(acc, w) ==
  [v  |-> [i \in 1..w |-> IF i <= Len(acc) THEN acc[i] ELSE False],
   of |-> OrMany({acc[i] : i \in w..Len(acc)})]

AddSigned(a, b) ==
  LET r == Ripple(a, b, False) IN [v |-> r.bits, of |-> Xor(r.into, r.carry)]

SubSigned(a, b) ==
  LET r == Ripple(a, Invert(b), True) IN [v |-> r.bits, of |-> Xor(r.into, r.carry)]

Negate(a) == AddSigned(Invert(a), IntConst(1, Width(a)))

Equal(a, b) == AndMany({Iff(a[i], b[i]) : i \in 1..Width(a)})

UnsignedLt(a, b) ==
  LET step(borrow, i) ==
        OrMany({And(Not(a[i]), b[i]), And(Not(a[i]), borrow), And(b[i], borrow)})
  IN  FoldLeft(step, False, Positions(a))

SignedLt(a, b) ==
  LET flip(x) == [x EXCEPT ![Len(x)] = Not(@)] IN UnsignedLt(flip(a), flip(b))

Compare(op, a, b) ==
  CASE op = "eq" -> Equal(a, b)
    [] op = "lt" -> SignedLt(a, b)
    [] op = "gt" -> SignedLt(b, a)
    [] op = "le" -> Not(SignedLt(b, a))
    [] op = "ge" -> Not(SignedLt(a, b))

Mux(c, a, b) == [i \in 1..Width(a) |-> Ite(c, a[i], b[i])]
IsZero(a)    == Not(OrMany(Range(a)))
Gated(c, a)  == [i \in 1..Width(a) |-> And(c, a[i])]

ShiftLeft(bits, n, w) ==
  [i \in 1..w |-> IF i > n /\ i - n <= Len(bits) THEN bits[i - n] ELSE False]
ShiftRight(bits, n, fill) ==
  [i \in 1..Len(bits) |-> IF i + n <= Len(bits) THEN bits[i + n] ELSE fill]
SignExtend(a, w) == [i \in 1..w |-> IF i <= Width(a) THEN a[i] ELSE Msb(a)]

MultiplyNarrow(a, b) ==         \* the product only as wide as its operands
  LET w == Width(a)
      step(p, i) == Ripple(p, Gated(b[i], ShiftLeft(a, i - 1, w)), False).bits
  IN  [v |-> FoldLeft(step, IntConst(0, w), Positions(b)), of |-> False]

(* The full product in twice the width; it overflows if the upper half is  *)
(* not the sign repeated.                                                  *)
Multiply(a, b) ==
  LET w       == Width(a)
      ax      == SignExtend(a, 2 * w)
      bx      == SignExtend(b, 2 * w)
      step(p, i) == Ripple(p, Gated(bx[i], ShiftLeft(ax, i - 1, 2 * w)), False).bits
      product == FoldLeft(step, IntConst(0, 2 * w), Positions(bx))
  IN  [v  |-> SubSeq(product, 1, w),
       of |-> OrMany({Xor(product[i], product[w]) : i \in (w + 1)..(2 * w)})]

(* Restoring division of bit patterns, from the highest bit down. *)
UnsignedDivRem(x, y) ==
  LET w == Width(x)
      divisor == Append(y, False)
      step(s, j) ==
        LET i    == w + 1 - j
            rem  == <<x[i]>> \o SubSeq(s.rem, 1, w)
            fits == Not(UnsignedLt(rem, divisor))
            less == Ripple(rem, Invert(divisor), True).bits
        IN  [rem |-> [k \in 1..(w + 1) |-> Ite(fits, less[k], rem[k])],
             q   |-> <<fits>> \o s.q]
      out == FoldLeft(step, [rem |-> IntConst(0, w + 1), q |-> <<>>], Positions(x))
  IN  [q |-> out.q, rem |-> SubSeq(out.rem, 1, w)]

DivRem(a, b) ==
  LET w     == Width(a)
      mag(x) == Mux(Msb(x), Negate(x).v, x)
      u     == UnsignedDivRem(mag(a), mag(b))
      quo   == Mux(Xor(Msb(a), Msb(b)), Negate(u.q).v, u.q)
      rest  == Mux(Msb(a), Negate(u.rem).v, u.rem)
      byZero == Mux(Msb(a), IntConst(1, w),
                    Mux(IsZero(a), IntConst(0, w), IntConst(-1, w)))
      minByMinusOne == And(Equal(a, IntConst(IntMin(w), w)), Equal(b, IntConst(-1, w)))
  IN  [div |-> [v |-> Mux(IsZero(b), byZero, quo), of |-> Or(IsZero(b), minByMinusOne)],
       rem |-> [v |-> Mux(IsZero(b), a, rest), of |-> IsZero(b)]]

ShlMaskedFlag(a, b) ==          \* only the bits that shift are asked
  LET w == Width(a)
      step(s, i) ==
        LET k       == 2^(i - 1)
            lo      == IF w - 1 > k THEN w - 1 - k ELSE 0
            changes == OrMany({Xor(s.v[j + 1], s.v[j + 2]) : j \in lo..(w - 2)})
        IN  [v  |-> Mux(b[i], ShiftLeft(s.v, k, w), s.v), of |-> Or(s.of, And(b[i], changes))]
  IN  FoldLeft(step, [v |-> a, of |-> False], [i \in 1..ShiftMaskWidth(w) |-> i])

ShlLateFlag(a, b) ==            \* the bits after the shift are asked
  LET w == Width(a)
      step(s, i) ==
        LET k       == 2^(i - 1)
            lo      == IF w - 1 > k THEN w - k ELSE 0
            changes == OrMany({Xor(s.v[j + 1], s.v[j + 2]) : j \in lo..(w - 2)})
        IN  [v  |-> IF i <= ShiftMaskWidth(w) THEN Mux(b[i], ShiftLeft(s.v, k, w), s.v)
                    ELSE s.v,
             of |-> Or(s.of, And(b[i], changes))]
  IN  FoldLeft(step, [v |-> a, of |-> False], Positions(a))

(***************************************************************************)
(* Left shift.  Only the low bits of the amount shift, but every bit of    *)
(* it is asked whether shifting by it would push out a bit that differs    *)
(* from its neighbour.                                                     *)
(***************************************************************************)
Shl(a, b) ==
  LET w == Width(a)
      step(s, i) ==
        LET k       == 2^(i - 1)
            lo      == IF w - 1 > k THEN w - 1 - k ELSE 0
            changes == OrMany({Xor(s.v[j + 1], s.v[j + 2]) : j \in lo..(w - 2)})
        IN  [v  |-> IF i <= ShiftMaskWidth(w) THEN Mux(b[i], ShiftLeft(s.v, k, w), s.v)
                    ELSE s.v,
             of |-> Or(s.of, And(b[i], changes))]
  IN  FoldLeft(step, [v |-> a, of |-> False], Positions(a))

ShiftRightBarrel(a, b, fill) ==
  LET step(s, i) == Mux(b[i], ShiftRight(s, 2^(i - 1), fill), s)
  IN  FoldLeft(step, a, [i \in 1..ShiftMaskWidth(Width(a)) |-> i])
Sha(a, b) == ShiftRightBarrel(a, b, Msb(a))
Shr(a, b) == ShiftRightBarrel(a, b, False)

IntBinop(op, a, b) ==
  CASE op = "add" -> AddSigned(a, b)
    [] op = "sub" -> SubSigned(a, b)
    [] op = "mul" -> Multiply(a, b)
    [] op = "div" -> DivRem(a, b).div
    [] op = "rem" -> DivRem(a, b).rem
    [] op = "shl" -> Shl(a, b)
    [] op = "sha" -> [v |-> Sha(a, b), of |-> False]
    [] op = "shr" -> [v |-> Shr(a, b), of |-> False]

(* The number a sequence of bits stands for under one assignment. *)
NumberAt(bits, asg) ==
  LET part(s, i) == s + (IF asg \in bits[i] THEN 2^(i - 1) ELSE 0)
  IN  WrapSigned(FoldLeft(part, 0, Positions(bits)), Width(bits))
=============================================================================
