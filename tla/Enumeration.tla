---------------------------- MODULE Enumeration ----------------------------
(***************************************************************************)
(* What an exact enumeration promises its caller: every answer of a space  *)
(* once, in some order, then the word that the space is complete; or, at   *)
(* any moment, the word that it stopped short of that.                     *)
(*                                                                         *)
(* It is the contract of mettle's counting net: a count is exact when the  *)
(* enumeration says complete, and a lower bound when it says truncated.    *)
(***************************************************************************)
EXTENDS Naturals

CONSTANT Answers

VARIABLES
  space,    \* the answers there are
  given,    \* the answers given so far
  count,    \* how many times an answer was given
  said      \* what the caller was last told of the end

enumeration == <<space, given, count, said>>

EnumerationInit == /\ space \in SUBSET Answers
                   /\ given = {}
                   /\ count = 0
                   /\ said = "more"

Give(a) == /\ said = "more"
           /\ a \in space \ given
           /\ given' = given \cup {a}
           /\ count' = count + 1
           /\ UNCHANGED <<space, said>>

Complete == /\ said = "more"
            /\ given = space
            /\ said' = "complete"
            /\ UNCHANGED <<space, given, count>>

Truncate == /\ said = "more"
            /\ said' = "truncated"
            /\ UNCHANGED <<space, given, count>>

EnumerationNext == (\E a \in Answers : Give(a)) \/ Complete \/ Truncate

EnumerationSpec == EnumerationInit /\ [][EnumerationNext]_enumeration
=============================================================================
