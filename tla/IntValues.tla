------------------------------ MODULE IntValues ------------------------------
(***************************************************************************)
(* The concrete arithmetic of a chosen width (overflow_guard.rs, "the      *)
(* single source of truth for the non-circuit integer semantics"): what    *)
(* the evaluator and the translation-time folder compute with.             *)
(***************************************************************************)
EXTENDS Integers, Sequences, FiniteSets

IntMin(w) == IF w = 0 THEN 0 ELSE -(2^(w - 1))
IntMax(w) == IF w = 0 THEN 0 ELSE 2^(w - 1) - 1

ConstOverflows(v, w) == v < IntMin(w) \/ v > IntMax(w)

WrapSigned(v, w) ==
  IF w = 0 THEN 0
  ELSE LET masked == v % 2^w
       IN  IF masked >= 2^(w - 1) THEN masked - 2^w ELSE masked

(* The least number of bits that count w positions. *)
ShiftMaskWidth(w) == CHOOSE k \in 0..w : 2^k >= w /\ (k = 0 \/ 2^(k - 1) < w)

Bit(v, i) == (v \div 2^i) % 2 = 1          \* v a bit pattern, i from 0

(* Division of the source language truncates toward zero. *)
Magnitude(a) == IF a < 0 THEN -a ELSE a
Truncated(a, b) ==
  LET q == Magnitude(a) \div Magnitude(b) IN IF (a < 0) # (b < 0) THEN -q ELSE q
Sign(a) == IF a < 0 THEN -1 ELSE IF a = 0 THEN 0 ELSE 1

ShlValue(a, b, w) ==
  LET Stage[i \in 0..w] ==      \* the running bits and flag before stage i
        IF i = 0 THEN [s |-> a % 2^w, of |-> FALSE]
        ELSE LET p       == Stage[i - 1]
                 k       == 2^(i - 1)
                 lo      == IF w - 1 > k THEN w - 1 - k ELSE 0
                 changes == \E j \in lo..(w - 2) : Bit(p.s, j) # Bit(p.s, j + 1)
                 taken   == Bit(b % 2^w, i - 1)
             IN  [s  |-> IF taken /\ i - 1 < ShiftMaskWidth(w)
                         THEN (p.s * 2^k) % 2^w ELSE p.s,
                  of |-> p.of \/ (taken /\ changes)]
  IN  <<WrapSigned(Stage[w].s, w), Stage[w].of>>

ShiftRightValue(a, b, w, arith) ==
  LET amount == b % 2^ShiftMaskWidth(w)
  IN  IF amount >= w THEN IF arith /\ a < 0 THEN -1 ELSE 0
      ELSE IF arith THEN a \div 2^amount
      ELSE WrapSigned((a % 2^w) \div 2^amount, w)

(* A division by zero has the value the reference gives it, and a flag. *)
DivValue(a, b, w) ==
  IF b = 0 THEN <<-Sign(a), TRUE>>
  ELSE <<WrapSigned(Truncated(a, b), w), a = IntMin(w) /\ b = -1>>
RemValue(a, b, w) ==
  IF b = 0 THEN <<a, TRUE>>
  ELSE <<WrapSigned(a - b * Truncated(a, b), w), FALSE>>

(* One operation on two numbers in range: its value and its own flag. *)
IntBinopValue(op, a, b, w) ==
  LET exact(v) == <<WrapSigned(v, w), ConstOverflows(v, w)>>
  IN  CASE op = "add" -> exact(a + b)
        [] op = "sub" -> exact(a - b)
        [] op = "mul" -> exact(a * b)
        [] op = "div" -> DivValue(a, b, w)
        [] op = "rem" -> RemValue(a, b, w)
        [] op = "shl" -> ShlValue(a, b, w)
        [] op = "sha" -> <<ShiftRightValue(a, b, w, TRUE), FALSE>>
        [] op = "shr" -> <<ShiftRightValue(a, b, w, FALSE), FALSE>>

CompareValues(op, a, b) ==
  CASE op = "eq" -> a = b
    [] op = "lt" -> a < b
    [] op = "gt" -> a > b
    [] op = "le" -> a <= b
    [] op = "ge" -> a >= b
=============================================================================
