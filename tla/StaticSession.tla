--------------------------- MODULE StaticSession ---------------------------
(***************************************************************************)
(* The session of a static command behind `mettle serve` (serve.rs,        *)
(* serve/session.rs): the first instance of the enumerator on screen, and  *)
(* one more per click on Next.  A call of the session runs under the       *)
(* server's lock, so it is one step.  The enumerator's other caller, the   *)
(* counting net of the gauges (als-conform, solve_gauge/count.rs), stands  *)
(* here as a phase of its own.                                             *)
(***************************************************************************)
EXTENDS InstanceEnum

CONSTANT Unrenderable   \* instances that the XML export fails on

ASSUME UnrenderableAssumption == Unrenderable \subseteq Assignments

VARIABLES
  phase,      \* solving the first instance, serving, or stopped; or counting
  shown,      \* the datum on screen: its id and its instance
  minted,     \* how many datum ids have been minted
  over,       \* the session's exhausted flag: Next has retired
  outcome,    \* what the last click was told
  seen        \* history: the instances that have been on screen

session == <<phase, shown, minted, over, outcome, seen>>
sessionVars == <<vars, session>>

SessionInit ==
  /\ Init
  /\ phase \in {"counting", IF reply.kind = "Refused" THEN "stopped" ELSE "solving"}
  /\ shown = [id |-> 0, instance |-> {}]
  /\ minted = 0
  /\ over = FALSE
  /\ outcome = "none"
  /\ seen = {}

Renders(a) == a \notin Unrenderable

Puts(id, a) == /\ shown' = [id |-> id, instance |-> a]
               /\ seen' = seen \cup {a}

-----------------------------------------------------------------------------

LaunchSolvedApart ==
  /\ phase = "solving"
  /\ reply.kind = "Start"
  /\ \E a \in Space(goal) : Renders(a) /\ Puts(0, a)
  /\ phase' = "serving"
  /\ UNCHANGED <<vars, minted, over, outcome>>

\* The enumerator's own first instance goes on screen; without one, or if it
\* cannot be rendered, the program stops.
Launch ==
  /\ phase = "solving"
  /\ Next
  /\ \/ /\ reply'.kind = "Instance"
        /\ Renders(reply'.instance)
        /\ phase' = "serving"
        /\ Puts(0, reply'.instance)
     \/ /\ reply'.kind = "Instance" => ~Renders(reply'.instance)
        /\ phase' = "stopped"
        /\ UNCHANGED <<shown, seen>>
  /\ UNCHANGED <<minted, over, outcome>>

\* The verbs of a temporal session, and those nobody knows.
ClickUnknown ==
  /\ phase = "serving"
  /\ outcome' = "unknown-click"
  /\ UNCHANGED <<vars, phase, shown, minted, over, seen>>

ClickWhenOver ==
  /\ phase = "serving"
  /\ over
  /\ outcome' = "no-more-instances"
  /\ UNCHANGED <<vars, phase, shown, minted, over, seen>>

\* An enumerator that ran out of budget has not shown the last instance.
SaysWhy == IF exhausted' THEN "enumeration-budget" ELSE "no-more-instances"

ClickEnds ==
  /\ phase = "serving"
  /\ ~over
  /\ Next
  /\ reply'.kind = "End"
  /\ over' = TRUE
  /\ outcome' = SaysWhy
  /\ UNCHANGED <<phase, shown, minted, seen>>

NextId == minted + 1

ClickNextRetires ==
  /\ phase = "serving"
  /\ ~over
  /\ Next
  /\ reply'.kind = "Instance"
  /\ minted' = NextId
  /\ IF Renders(reply'.instance)
     THEN /\ Puts(minted', reply'.instance)
          /\ outcome' = "shown"
          /\ UNCHANGED over
     ELSE /\ outcome' = "export-failed"
          /\ over' = TRUE
          /\ UNCHANGED <<shown, seen>>
  /\ UNCHANGED phase

\* The id is burnt and the instance skipped when it cannot be rendered.
ClickNext ==
  /\ phase = "serving"
  /\ ~over
  /\ Next
  /\ reply'.kind = "Instance"
  /\ minted' = NextId
  /\ IF Renders(reply'.instance)
     THEN /\ Puts(minted', reply'.instance)
          /\ outcome' = "shown"
     ELSE /\ outcome' = "export-failed"
          /\ UNCHANGED <<shown, seen>>
  /\ UNCHANGED <<phase, over>>

Click == ClickUnknown \/ ClickWhenOver \/ ClickEnds \/ ClickNext

\* The counting net asks for every instance, and the iterator may be asked past its
\* end.
Counts ==
  /\ phase = "counting"
  /\ Next
  /\ UNCHANGED session

SessionNext == Launch \/ Click \/ Counts

SessionSpec == SessionInit /\ [][SessionNext]_sessionVars

-----------------------------------------------------------------------------

\* Each instance is on screen once: there are as many ids as instances shown or that
\* could not be rendered, for an advance never brings back one that was on screen
\* (the first is the enumerator's own, and not the answer of a solve apart); and
\* when the click that retires Next says that there is no further one, every instance
\* of the command has been shown or could not be.
EachOnScreenOnce ==
  /\ phase = "serving" => Cardinality(seen \cup (yielded \cap Unrenderable)) = minted + 1
  /\ over /\ ~exhausted => Space(goal) \subseteq seen \cup Unrenderable

\* Why: the parts of an inductive invariant, on top of the enumerator's.  What was on
\* screen is what was yielded and could be rendered, and an id is minted for every
\* instance but the first.
ScreenInv ==
  /\ phase \in {"counting", "stopped", "solving", "serving"} /\ minted \in Nat
  /\ phase = "solving" => yielded = {} /\ seen = {} /\ minted = 0
  /\ phase = "serving" => seen = yielded \ Unrenderable /\ count = minted + 1
  /\ over => phase = "serving" /\ done
=============================================================================
