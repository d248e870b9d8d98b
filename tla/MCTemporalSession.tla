------------------------- MODULE MCTemporalSession -------------------------
(***************************************************************************)
(* Small commands for TemporalSession.  Each is the solution set of a      *)
(* command over two configurations, two contents and lengths one to three. *)
(* Those called directly are small enough for every order of calls; those  *)
(* clicked through are three, one that stutters, one that alternates and   *)
(* one that branches.                                                      *)
(***************************************************************************)
EXTENDS TemporalSession, Sequences

CONSTANTS c1, c2, x, y, w1, w2

MCConfig  == {c1, c2}
MCContent == {x, y}
MCWitness == {w1, w2}

Trace(c, loop, contents, w) ==
  [k |-> Len(contents), loop |-> loop, config |-> c, wit |-> w,
   states |-> [i \in 0..Len(contents)-1 |-> contents[i+1]]]

\* A constant trace at every length, a trace with two loop targets that are one
\* infinite trace, and one that has two witnesses.
Stutters ==
  {Trace(c1, 0, <<x>>, w1),
   Trace(c1, 0, <<x, x>>, w1),
   Trace(c1, 1, <<x, x>>, w1),
   Trace(c1, 1, <<x, y>>, w1),
   Trace(c1, 1, <<x, y>>, w2),
   Trace(c1, 1, <<x, y, y>>, w1),
   Trace(c2, 0, <<x>>, w1)}

\* The first configuration has no trace of length one; the alternating trace is
\* found at length two and again, with another prefix, at length three.
Alternates ==
  {Trace(c1, 0, <<x, y>>, w1),
   Trace(c1, 1, <<x, y, x>>, w1),
   Trace(c1, 0, <<y, x>>, w1),
   Trace(c1, 2, <<y, x, x>>, w1),
   Trace(c2, 0, <<x>>, w1),
   Trace(c2, 0, <<x, y>>, w1),
   Trace(c2, 1, <<y, y>>, w1)}

\* Forks at each state of one length.
Branches ==
  {Trace(c1, 0, <<x, x, x>>, w1),
   Trace(c1, 0, <<x, x, y>>, w1),
   Trace(c1, 2, <<x, y, y>>, w1),
   Trace(c1, 1, <<y, x, x>>, w1),
   Trace(c2, 1, <<y, x>>, w1)}

CommandOf(g, ks, static, var, c, b) ==
  [goal |-> g, unencodable |-> ks,
   floats |-> [static |-> static, var |-> var], cap |-> c, budget |-> b]

\* No limit, an effort budget with or without a length that outgrows the encoder,
\* a cap that refuses length three, static relations with nothing floating, and
\* variable relations with nothing floating.
Unlimited == {CommandOf(g, {}, 1, 1, None, None) :
              g \in SUBSET Stutters \cup SUBSET Alternates \cup SUBSET Branches}
Limited   == {CommandOf(g, ks, 1, 1, None, b) :
              g \in SUBSET Alternates, ks \in {{}, {1}, {2}}, b \in {None, 2}}
Capped    == {CommandOf(g, {}, 1, 1, 3, None) : g \in SUBSET Alternates}
OneConfig == {CommandOf({s \in g : s.config = c1}, {}, 0, 1, None, None) :
              g \in SUBSET Alternates}
Rigid     == {CommandOf(g, {}, 1, 0, None, None) :
              g \in SUBSET {Trace(c, 0, <<x>>, w) : c \in MCConfig, w \in MCWitness}}

Direct == Unlimited \cup Limited \cup Capped \cup OneConfig \cup Rigid

Clicked ==
  {{Trace(c1, 0, <<x>>, w1), Trace(c1, 1, <<x, y>>, w1), Trace(c1, 1, <<x, x>>, w1),
    Trace(c2, 0, <<y>>, w1)},
   {Trace(c1, 0, <<x, y>>, w1), Trace(c1, 1, <<x, x>>, w1), Trace(c2, 0, <<y, x>>, w1)},
   {Trace(c1, 0, <<x, x, x>>, w1), Trace(c1, 1, <<x, y, y>>, w1),
    Trace(c1, 0, <<y, x, x>>, w1), Trace(c2, 0, <<y>>, w1)},
   {}}

\* No limit, an effort budget, and a length that outgrows the encoder.
Sessions == {CommandOf(g, ks, 1, 1, None, b) : g \in Clicked, ks \in {{}, {2}}, b \in {None, 2}}

MCCommands == Direct \cup Sessions
MCExports == {{}, {Trace(c1, 1, <<x, y>>, w1)}}
MCStateIndices == {-1, 1, 4}

Given == [goal |-> goal, unencodable |-> unencodable, floats |-> floats,
          cap |-> cap, budget |-> budget]
MCInit == /\ SessionInit
          /\ IF phase = "direct" THEN Given \in Direct /\ RendersAll
                                 ELSE Given \in Sessions

MCSpec == MCInit /\ [][SessionNext]_sessionVars /\ WF_sessionVars(Answering)
=============================================================================
