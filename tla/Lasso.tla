------------------------------- MODULE Lasso -------------------------------
(***************************************************************************)
(* Lasso traces: the finite representation of an infinite trace that every *)
(* satisfiable temporal command of mettle yields.  A lasso has k states,   *)
(* numbered from 0, and a loop target below k; it stands for the infinite  *)
(* sequence 0, 1, ..., k-1, loop, ..., k-1, loop, ...                      *)
(*                                                                         *)
(* A state is the content of the variable relations at one instant, an     *)
(* element of the caller's set of contents.  The operators take any record *)
(* that has at least the fields k, states and loop.                        *)
(***************************************************************************)
EXTENDS Integers, FiniteSetsExt

LassosOver(content, k) ==
  [k : {k}, states : [0..k-1 -> content], loop : 0..k-1]

\* The position of instant i of the infinite trace inside the lasso.
Position(s, i) ==
  IF i < s.k THEN i ELSE s.loop + ((i - s.loop) % (s.k - s.loop))

At(s, i) == s.states[Position(s, i)]

\* The smallest divisor of the cycle length that reproduces the cycle.
MinPeriod(s) ==
  LET cycle == s.k - s.loop
      Reproduces(q) == /\ cycle % q = 0
                       /\ \A i \in s.loop..s.k-1 :
                            At(s, i) = At(s, s.loop + ((i - s.loop) % q))
  IN  Min({q \in 1..cycle : Reproduces(q)})

\* The loop target, moved back while the state before it already repeats.
MinPrefix(s) ==
  LET period == MinPeriod(s)
  IN  Min({p \in 0..s.loop :
             \A i \in p..s.loop-1 : At(s, i) = At(s, i + period)})

\* The identity of the infinite trace: minimal prefix, minimal period, and the
\* content of that many instants.
TraceKey(s) ==
  LET prefix == MinPrefix(s)
      period == MinPeriod(s)
  IN  <<prefix, period, [i \in 0..prefix+period-1 |-> At(s, i)]>>

NormalizeStateAsCycle(s, index) == (IF index < 0 THEN 0 ELSE index) % s.k

\* The evaluator's state index: negative indices clamp to the first state, and
\* indices past the loop target wrap through the loop.
NormalizeState(s, index) ==
  LET clamped == IF index < 0 THEN 0 ELSE index
  IN  IF clamped > s.loop
      THEN s.loop + ((clamped - s.loop) % (s.k - s.loop))
      ELSE clamped

\* A finite timeline that stands for the infinite trace where past operators nest d
\* deep: the trace, then d more copies of its loop.  The state at each logical time,
\* and the time that the last one loops back to.
Timeline(k, l, d) ==
  [t \in 0..k + d * (k - l) - 1 |-> IF t < k THEN t ELSE l + ((t - k) % (k - l))]

LoopAt(k, l, d) == IF d = 0 THEN l ELSE k + (d - 1) * (k - l)

\* The logical time of an instant: on its own pass through the loop, up to the last
\* copy.
LogicalTime(k, l, d, index) ==
  LET span   == k - l
      within == (index - k) % span
      pass   == (index - k) \div span + 1
      copy   == IF pass < d THEN pass ELSE d
  IN  IF index < k THEN index
      ELSE IF d = 0 THEN l + within
      ELSE k + (copy - 1) * span + within
=============================================================================
