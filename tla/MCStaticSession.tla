-------------------------- MODULE MCStaticSession --------------------------
(***************************************************************************)
(* Small translations for StaticSession: every goal over at most two       *)
(* floating tuples, folded or not, under every predicate that keeps the    *)
(* empty assignment, as a lex-leader predicate does.  One instance cannot  *)
(* be rendered.                                                            *)
(***************************************************************************)
EXTENDS StaticSession

CONSTANTS p, q, a1, a2

MCFloating == {p, q}
MCAuxiliary == {a1, a2}
MCBudgets == {None} \cup 0..2
MCUnrenderable == {{q}}

GoalsOver(floating) ==
  {g \in [floating : {floating}, sat : SUBSET SUBSET floating, folded : BOOLEAN,
          kept : SUBSET SUBSET floating] :
     /\ g.folded => g.sat \in {{}, SUBSET floating}
     /\ {} \in g.kept}

MCGoals == UNION {GoalsOver(floating) : floating \in {{}, {p}, {p, q}}}
=============================================================================
