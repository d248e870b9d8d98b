-------------------------- MODULE TemporalSession --------------------------
(***************************************************************************)
(* The session of a temporal command behind `mettle serve` (serve.rs,      *)
(* serve/session.rs): a trace on screen, an evaluator that stands at one   *)
(* state of it, and the enumerator that answers the exploration buttons.   *)
(*                                                                         *)
(* A click holds the server's lock until it is answered.  It makes one     *)
(* call of the enumerator, whose steps are the actions of TraceEnum, and   *)
(* takes its answer in a step of its own; no other request is served in    *)
(* between.  The enumerator's other caller, the gauge that counts traces   *)
(* (als-conform, count.rs), has no session (phase "direct") and may make   *)
(* any call at any time, as the enumerator's own tests do.                 *)
(***************************************************************************)
EXTENDS TraceEnum

CONSTANTS
  Exports,        \* the sets of traces that the XML export may fail on
  StateIndices,   \* arguments of the evaluator's :state command
  MaxMinted       \* bound: datum ids minted before the clicks stop

ASSUME ExportsAssumption == Exports \subseteq SUBSET Solution
ASSUME StateIndicesAssumption == StateIndices \subseteq Int
ASSUME MaxMintedAssumption == MaxMinted \in Nat

VARIABLES
  unrenderable,   \* the traces that the XML export fails on
  phase,          \* launching, serving or stopped; or direct
  click,          \* the verb whose answer the session waits for, or None
  screen,         \* the datum on screen: its id and its trace
  evaluatorAt,    \* the time index the evaluator stands at, clamped at 0
  minted,         \* how many datum ids have been minted
  pathsExhausted, \* New Trace has retired
  spent,          \* the session's budget_spent: every button has retired
  outcome,        \* what the last click was told
  seen            \* history: the traces that have been on screen

session == <<unrenderable, phase, click, screen, evaluatorAt, minted, pathsExhausted, spent,
             outcome, seen>>
sessionVars == <<vars, session>>

Verbs == {"next-trace", "next-config", "new-init", "new-fork"}

ASSUME VerbsAssumption == None \notin Verbs

SessionInit ==
  /\ Init
  /\ unrenderable \in Exports
  /\ phase \in {"direct", "launching"}
  /\ click = None
  /\ screen = [id |-> 0, trace |-> None]
  /\ evaluatorAt = 0
  /\ minted = 0
  /\ pathsExhausted = FALSE
  /\ spent = FALSE
  /\ outcome = "none"
  /\ seen = {}

-----------------------------------------------------------------------------
(* Starting up: the trace on screen is the enumerator's first.             *)

Renders(trace) == trace \notin unrenderable

\* A new datum: the evaluator stands at its first state.
Puts(id, trace) == /\ screen' = [id |-> id, trace |-> trace]
                   /\ evaluatorAt' = 0
                   /\ seen' = seen \cup {trace}

LaunchAsks ==
  /\ phase = "launching"
  /\ answer.kind = "Pending"
  /\ NextPath
  /\ UNCHANGED session

LaunchShows ==
  /\ phase = "launching"
  /\ pc = "idle"
  /\ answer.kind = "Trace"
  /\ Renders(answer.trace)
  /\ phase' = "serving"
  /\ Puts(0, answer.trace)
  /\ UNCHANGED <<vars, unrenderable, click, minted, pathsExhausted, spent, outcome>>

LaunchStops ==
  /\ phase = "launching"
  /\ pc = "idle"
  /\ answer.kind # "Pending"
  /\ answer.kind = "Trace" => ~Renders(answer.trace)
  /\ phase' = "stopped"
  /\ UNCHANGED <<vars, unrenderable, click, screen, evaluatorAt, minted,
                 pathsExhausted, spent, outcome, seen>>

-----------------------------------------------------------------------------
(* The clicks.                                                             *)

Serving == phase = "serving" /\ click = None

Refuse(code) ==
  /\ outcome' = code
  /\ UNCHANGED <<vars, unrenderable, phase, click, screen, evaluatorAt, minted,
                 pathsExhausted, spent, seen>>

Asks(verb) ==
  /\ minted < MaxMinted
  /\ click' = verb
  /\ UNCHANGED <<unrenderable, phase, screen, evaluatorAt, minted,
                 pathsExhausted, spent, outcome, seen>>

ClickWhenSpent == Serving /\ spent /\ Refuse("enumeration-budget")

ClickRetired == Serving /\ ~spent /\ pathsExhausted /\ Refuse("no-more-instances")

ClickNextTrace ==
  /\ Serving
  /\ ~spent
  /\ ~pathsExhausted
  /\ NextPath
  /\ Asks("next-trace")

ClickNextConfig ==
  /\ Serving
  /\ ~spent
  /\ NextConfigFirst \/ NextConfigSame \/ NextConfigMoves
  /\ Asks("next-config")

ClickNewInit ==
  /\ Serving
  /\ ~spent
  /\ Fork(0)
  /\ Asks("new-init")

\* The state a fork holds: the one the client names, or the evaluator's.
EvaluatorState == NormalizeState(screen.trace, evaluatorAt)

NamesNoState(requested) == requested # None /\ requested >= current.k

ClickOutOfRange(requested) ==
  /\ Serving
  /\ ~spent
  /\ NamesNoState(requested)
  /\ Refuse("state-out-of-range")

ForkStateHeld(requested) == IF requested = None THEN EvaluatorState ELSE requested

ForkState(requested) == 1 + IF requested = None THEN EvaluatorState ELSE requested

ClickNewFork(requested) ==
  /\ Serving
  /\ ~spent
  /\ ~NamesNoState(requested)
  /\ Fork(ForkState(requested))
  /\ Asks("new-fork")

-----------------------------------------------------------------------------
(* Taking the enumerator's answer.                                         *)

Answered == phase = "serving" /\ click # None /\ pc = "idle" /\ UNCHANGED <<vars, unrenderable, phase>>

NextId == minted + 1

\* The id is burnt and the trace skipped when it cannot be rendered.
TakeTrace ==
  /\ Answered
  /\ answer.kind = "Trace"
  /\ minted' = NextId
  /\ IF Renders(answer.trace)
     THEN /\ Puts(minted', answer.trace)
          /\ outcome' = "shown"
     ELSE /\ outcome' = "export-failed"
          /\ UNCHANGED <<screen, evaluatorAt, seen>>
  /\ click' = None
  /\ UNCHANGED <<pathsExhausted, spent>>

\* Of the refusals only these two are remembered.
Retires == /\ pathsExhausted' = (pathsExhausted \/ (/\ click = "next-trace"
                                                    /\ answer.kind = "Exhausted"))
           /\ spent' = (spent \/ answer.kind = "BudgetExhausted")

\* How the refusal of each answer is coded.
RefusalCode(kind) == CASE kind = "Exhausted" -> "no-more-instances"
                       [] kind = "SameConfig" -> "same-config"
                       [] kind = "BudgetExhausted" -> "enumeration-budget"
                       [] kind = "PrimaryVarCap" -> "primary-var-cap"
                       [] kind = "Error" -> "unanswerable"

TakeRefusal ==
  /\ Answered
  /\ answer.kind # "Trace"
  /\ Retires
  /\ outcome' = RefusalCode(answer.kind)
  /\ click' = None
  /\ UNCHANGED <<screen, evaluatorAt, minted, seen>>

-----------------------------------------------------------------------------
(* The evaluator's :state command: no index is an error.                   *)

Moves(index) == IF index < 0 THEN 0 ELSE index

EvalState(index) ==
  /\ Serving
  /\ evaluatorAt' = Moves(index)
  /\ UNCHANGED <<vars, unrenderable, phase, click, screen, minted,
                 pathsExhausted, spent, outcome, seen>>

-----------------------------------------------------------------------------

Enumerating == Internal /\ UNCHANGED session

DirectCall == phase = "direct" /\ Calls /\ UNCHANGED session

Requests ==
  \/ DirectCall
  \/ LaunchAsks
  \/ ClickWhenSpent
  \/ ClickRetired
  \/ ClickNextTrace
  \/ ClickNextConfig
  \/ ClickNewInit
  \/ \E requested \in 0..MaxLen \cup {None} :
       ClickOutOfRange(requested) \/ ClickNewFork(requested)
  \/ \E index \in StateIndices : EvalState(index)

Answering ==
  \/ LaunchShows
  \/ LaunchStops
  \/ Enumerating
  \/ TakeTrace
  \/ TakeRefusal

SessionNext == Requests \/ Answering

\* A request that was accepted runs to its answer; nobody has to make one.
SessionSpec == SessionInit /\ [][SessionNext]_sessionVars /\ WF_sessionVars(Answering)

-----------------------------------------------------------------------------
(* What the session promises whoever clicks.                               *)

Shows == phase = "serving" /\ screen' # screen

\* No trace is skipped, so that the enumerator's trace is the one on screen.
RendersAll == unrenderable = {}

\* What a button brings on screen is what it says. New Config leaves the
\* configuration on screen for one never on screen, the others stay within it; and
\* a fork answers the state the clicker was looking at: it is the trace that was on
\* screen up to that state, and differs at the next one.
ButtonsKeepTheirWord ==
  [][Shows /\ RendersAll =>
       /\ click \in {"new-fork", "new-init"} =>
            Fits(screen'.trace, [base |-> screen.trace, hold |-> call.hold])
       /\ click = "new-fork" => screen'.trace.states[0] = screen.trace.states[0]
       /\ click # "next-config" => screen'.trace.config = screen.trace.config
       /\ click = "next-config" =>
            screen'.trace.config \notin {t.config : t \in seen}]_sessionVars

\* The evaluator stands at a state of the trace on screen, the one the infinite
\* trace is in at the index asked for.
EvaluatorOnScreen ==
  phase = "serving" =>
    /\ EvaluatorState \in 0..screen.trace.k-1
    /\ At(screen.trace, evaluatorAt) = screen.trace.states[EvaluatorState]

\* Every call of the enumerator and every click is answered, however many
\* repeats the search has to skip.
EveryCallAnswered == (pc # "idle" \/ click # None) ~> (pc = "idle" /\ click = None)

-----------------------------------------------------------------------------
(* Why the buttons keep their word: the parts of an inductive invariant of *)
(* the session, on top of the enumerator's two.                            *)

Forks == {"new-init", "new-fork"}

\* A trace is the enumerator's last answer only while it is the current one.
AnswerIsCurrent == answer.kind = "Trace" => current = answer.trace

SessionPhases ==
  /\ phase \in {"direct", "launching", "serving", "stopped"}
  /\ click \in Verbs \cup {None}
  /\ click # None => phase = "serving"
  /\ phase \in {"launching", "stopped"} => seen = {}
  /\ phase = "serving" => current # None /\ screen.trace \in Solution

\* No call runs but the one that was clicked for.
ClickIsCall ==
  phase = "serving" =>
    IF click = None THEN pc = "idle"
    ELSE /\ click = "next-config" <=> call.op = "config"
         /\ click \in Forks <=> call.op = "fork"
         /\ click = "new-fork" => call.hold > 0

\* What went on screen was answered.
SeenWasAnswered == phase = "serving" => \A t \in seen : t.config \in displayed

EvaluatorClamped == evaluatorAt \in Nat

\* The live stage of a fork that was clicked for asks its question.
ForkIsAsked ==
  /\ stage # None /\ stage.fork # None => \A t \in stage.open : Fits(t, stage.fork)
  /\ phase = "serving" /\ click \in Forks /\ pc # "idle" =>
       /\ pc # "path"
       /\ stage.fork = [base |-> current, hold |-> call.hold]

\* An answer that waits to be taken is what its button says of the trace on screen.
KeepsItsWord(verb, trace) ==
  /\ verb \in Forks => Fits(trace, [base |-> screen.trace, hold |-> call.hold])
  /\ IF verb = "next-config" THEN trace.config \notin {t.config : t \in seen}
     ELSE trace.config = screen.trace.config

\* The enumerator's trace is the one on screen until it has found another.
ScreenIsCurrent ==
  phase = "serving" /\ RendersAll =>
    IF click # None /\ pc = "idle" /\ answer.kind = "Trace"
    THEN KeepsItsWord(click, answer.trace)
    ELSE current = screen.trace

SessionInv == /\ AnswerIsCurrent
              /\ SessionPhases
              /\ ClickIsCall
              /\ SeenWasAnswered
              /\ EvaluatorClamped
              /\ ForkIsAsked
              /\ ScreenIsCurrent

=============================================================================
