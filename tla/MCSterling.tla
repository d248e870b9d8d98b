----------------------------- MODULE MCSterling -----------------------------
(***************************************************************************)
(* Three data in a row for Sterling: a trace of two states that alternates *)
(* for ever, one that stays in its second, and one of a single state.      *)
(***************************************************************************)
EXTENDS Sterling

CONSTANTS tab1, tab2

MCPages == {tab1, tab2}

Lasso(k, loop) == [k |-> k, loop |-> loop]

MCTrace == [d \in 0..2 |-> CASE d = 0 -> Lasso(2, 0)
                             [] d = 1 -> Lasso(2, 1)
                             [] d = 2 -> Lasso(1, 0)]

\* Past the end of every trace, and before the first state.
MCTyped == {-1, 1, 4}

\* One user who waits; two users who wait; one who does not, over two sockets.
Waiting   == [pages |-> {tab1}, patient |-> TRUE, typed |-> Typed, data |-> 2,
              sockets |-> 1, asks |-> 2, frames |-> 2]
Together  == [pages |-> MCPages, patient |-> TRUE, typed |-> {}, data |-> 1,
              sockets |-> 1, asks |-> 1, frames |-> 2]
Impatient == [pages |-> {tab1}, patient |-> FALSE, typed |-> {}, data |-> 1,
              sockets |-> 2, asks |-> 1, frames |-> 2]

MCAudiences == {Waiting, Together, Impatient}

\* One user who does not wait.
Hasty == {[Impatient EXCEPT !.sockets = 1, !.asks = 2, !.frames = 3]}
=============================================================================
