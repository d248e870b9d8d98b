----------------------------- MODULE TraceEnum -----------------------------
(***************************************************************************)
(* The trace enumerator of mettle (als-core, temporal_enum.rs): the solver *)
(* side of the exploration buttons over one temporal command.  It keeps    *)
(* the length sweep alive between calls, so that its caller can ask for    *)
(* the next trace, for a trace of another configuration, or for a fork of  *)
(* the trace on display.                                                   *)
(*                                                                         *)
(* The command is a set goal of solutions, the assignments that satisfy it *)
(* at each trace length: a configuration (the static relations), the       *)
(* content of the variable relations at each state, the loop target, and a *)
(* witness (the goal's skolem relations, which the solver distinguishes    *)
(* and the trace's identity ignores).  goal is any set of solutions, since *)
(* symmetry breaking need not keep every representation of a trace.        *)
(*                                                                         *)
(* One call is a sequence of steps: each draw from the solver is a step of *)
(* its own, as it is one round of the code's loop.                         *)
(***************************************************************************)
EXTENDS Lasso, FiniteSets

CONSTANTS
  Config,        \* static assignments
  Content,       \* contents of the variable relations at one state
  Witness,       \* skolem assignments
  Commands,      \* the commands explored, each with its limits
  MinLen,        \* the command's steps range
  MaxLen,
  None

Solution ==
  UNION {[k : {k}, states : [0..k-1 -> Content], loop : 0..k-1,
          config : Config, wit : Witness] : k \in MinLen..MaxLen}

\* A fork asks for a trace that agrees with base before state hold and differs
\* from it there.
ForkQuestion == [base : Solution, hold : 0..MaxLen]

Fits(s, fork) ==
  /\ s.k = fork.base.k
  /\ \A i \in 0..fork.hold-1 : s.states[i] = fork.base.states[i]
  /\ s.states[fork.hold] # fork.base.states[fork.hold]

\* One trace length's live solver: open holds the solutions its clauses still
\* admit, fork the fork whose clauses it carries.
Stage == [k : MinLen..MaxLen, open : SUBSET Solution,
          fork : ForkQuestion \cup {None}, spent : BOOLEAN]

\* What a command brings: its solutions, the lengths at which encoding raises an
\* error, the floating tuples of its static relations and of its variable ones (per
\* state), primary_var_cap and enum_effort_budget, either of which may be None.
Command == [goal : SUBSET Solution, unencodable : SUBSET (MinLen..MaxLen),
            floats : [static : Nat, var : Nat],
            cap : Nat \cup {None}, budget : Nat \cup {None}]

ASSUME LengthAssumption == /\ MinLen \in Nat \ {0}
                           /\ MaxLen \in Nat
                           /\ MinLen <= MaxLen
ASSUME CommandsAssumption ==
  /\ Commands \subseteq Command
  /\ \A c \in Commands : \A s, t \in c.goal :
       /\ c.floats.static = 0 => s.config = t.config
       /\ c.floats.var = 0 =>
            \A i \in 0..s.k-1, j \in 0..t.k-1 : s.states[i] = t.states[j]
ASSUME NoneAssumption == /\ None \notin Config
                         /\ None \notin Solution
                         /\ None \notin Stage
                         /\ None \notin ForkQuestion
                         /\ None \notin Nat

VARIABLES
  goal,         \* the solutions of the command
  unencodable,  \* the lengths of it that outgrow the encoder
  floats,       \* how many of its tuples float
  cap,          \* primary_var_cap
  stage,        \* the live solver of one length, or None
  current,      \* the trace on display, or None
  config,       \* the configuration every path advance holds, or None
  blocked,      \* configurations already left
  emitted,      \* keys emitted at strictly shorter lengths of this sweep
  emittedHere,  \* keys emitted at the present length
  budget,       \* remaining effort, or None
  budgetSpent,
  restricted,   \* the live stage carries a fork's constraints
  pc,           \* where the call in progress stands
  call,         \* the call in progress, or the last one
  answer,       \* its answer
  shown,        \* history: solutions answered since the sweep or fork began
  displayed     \* history: configurations ever answered

search == <<stage, config, blocked, emitted, emittedHere, restricted>>
effort == <<budget, budgetSpent>>
history == <<shown, displayed>>
command == <<goal, unencodable, floats, cap>>
vars == <<command, search, current, effort, pc, call, answer, history>>

Op == {"path", "config", "fork"}
Call == [op : Op, hold : 0..MaxLen]
Answer == [kind : {"Pending", "Exhausted", "SameConfig", "BudgetExhausted",
                   "PrimaryVarCap", "Error"}, trace : {None}]
          \cup [kind : {"Trace"}, trace : Solution]

TypeOK ==
  /\ goal \subseteq Solution
  /\ unencodable \subseteq MinLen..MaxLen
  /\ floats \in [static : Nat, var : Nat]
  /\ cap \in Nat \cup {None}
  /\ stage \in Stage \cup {None}
  /\ current \in goal \cup {None}
  /\ config \in Config \cup {None}
  /\ blocked \subseteq Config
  /\ emitted \subseteq {TraceKey(s) : s \in goal}
  /\ emittedHere \subseteq {TraceKey(s) : s \in goal}
  /\ budget \in Nat \cup {None}
  /\ budgetSpent \in BOOLEAN
  /\ restricted \in BOOLEAN
  /\ pc \in {"idle", "path", "draw", "none"}
  /\ call \in Call
  /\ answer \in Answer
  /\ shown \subseteq goal
  /\ displayed \subseteq Config

Init ==
  /\ \E c \in Commands : /\ goal = c.goal
                         /\ unencodable = c.unencodable
                         /\ floats = c.floats
                         /\ cap = c.cap
                         /\ budget = c.budget
  /\ stage = None
  /\ current = None
  /\ config = None
  /\ blocked = {}
  /\ emitted = {}
  /\ emittedHere = {}
  /\ budgetSpent = FALSE
  /\ restricted = FALSE
  /\ pc = "idle"
  /\ call = [op |-> "path", hold |-> 0]
  /\ answer = [kind |-> "Pending", trace |-> None]
  /\ shown = {}
  /\ displayed = {}

-----------------------------------------------------------------------------
(* Opening a length, and answering. *)

Reply(kind) == /\ answer' = [kind |-> kind, trace |-> None]
               /\ pc' = "idle"

Primaries(k) == floats.static + k * floats.var

OverCap(k) == cap # None /\ Primaries(k) > cap

CanOpen(k) == ~OverCap(k) /\ k \notin unencodable

LockedDropped(s) == TRUE
Locked(s) == config # None => s.config = config

Unblocked(s) == s.config \notin blocked

Answers(s, fork) == fork # None => Fits(s, fork)

\* A fresh solver for length k under the configuration lock and every block.
Opened(k, fork) ==
  [k |-> k,
   open |-> {s \in goal : s.k = k /\ Locked(s) /\ Unblocked(s) /\ Answers(s, fork)},
   fork |-> fork,
   spent |-> FALSE]

\* The cap drops the stage; an encoding error leaves the old one behind.
OpenFails(k) ==
  \/ /\ OverCap(k)
     /\ stage' = None
     /\ Reply("PrimaryVarCap")
  \/ /\ ~OverCap(k)
     /\ k \in unencodable
     /\ stage' = stage
     /\ Reply("Error")

-----------------------------------------------------------------------------
(* The calls. *)

Begin(op, hold) == /\ pc = "idle"
                   /\ call' = [op |-> op, hold |-> hold]
                   /\ UNCHANGED <<command, current, effort>>

Await == answer' = [kind |-> "Pending", trace |-> None]

\* Once the budget is spent, every call is refused.
RefuseSpent(op, hold) ==
  /\ Begin(op, hold)
  /\ budgetSpent
  /\ Reply("BudgetExhausted")
  /\ UNCHANGED <<search, history>>

NextPath ==
  /\ Begin("path", 0)
  /\ ~budgetSpent
  /\ pc' = "path"
  /\ Await
  /\ UNCHANGED <<search, history>>

\* With nothing on display, a new configuration is the first trace.
NextConfigFirst ==
  /\ Begin("config", 0)
  /\ ~budgetSpent
  /\ config = None
  /\ pc' = "path"
  /\ Await
  /\ UNCHANGED <<search, history>>

NextConfigSame ==
  /\ Begin("config", 0)
  /\ ~budgetSpent
  /\ config # None
  /\ floats.static = 0
  /\ Reply("SameConfig")
  /\ UNCHANGED <<search, history>>

StartsOverKeepingKeys == UNCHANGED emitted /\ emittedHere' = {} /\ shown' = {}

\* A new sweep, or a fork's own question: nothing counts as shown already.
StartsOver == emitted' = {} /\ emittedHere' = {} /\ shown' = {}

NextConfigMoves ==
  /\ Begin("config", 0)
  /\ ~budgetSpent
  /\ config # None
  /\ floats.static > 0
  /\ blocked' = blocked \cup {config}
  /\ config' = None
  /\ stage' = None
  /\ restricted' = FALSE
  /\ StartsOver
  /\ pc' = "path"
  /\ Await
  /\ UNCHANGED displayed

ForkFirst(hold) ==
  /\ Begin("fork", hold)
  /\ ~budgetSpent
  /\ current = None
  /\ pc' = "path"
  /\ Await
  /\ UNCHANGED <<search, history>>

\* A fork reopens the length of the trace on display.  That length was opened
\* before, and what the cap and the encoder refuse depends on the length alone, so
\* the code's refusal branch is dead here: every fork below finds CanOpen.

\* There is no state hold to force different.
ForkPastEnd(hold) ==
  /\ Begin("fork", hold)
  /\ ~budgetSpent
  /\ current # None
  /\ hold >= current.k
  /\ Reply("Exhausted")
  /\ UNCHANGED <<search, history>>

\* Nothing floats at state hold, so nothing can differ there.
ForkRigid(hold) ==
  /\ Begin("fork", hold)
  /\ ~budgetSpent
  /\ current # None
  /\ hold < current.k
  /\ floats.var = 0
  /\ stage' = None
  /\ Reply("Exhausted")
  /\ UNCHANGED <<config, blocked, emitted, emittedHere, restricted, history>>

ForkOpens(hold) ==
  /\ Begin("fork", hold)
  /\ ~budgetSpent
  /\ current # None
  /\ hold < current.k
  /\ floats.var > 0
  /\ stage' = Opened(current.k, [base |-> current, hold |-> hold])
  /\ StartsOver
  /\ restricted' = TRUE
  /\ pc' = "draw"
  /\ Await
  /\ UNCHANGED <<config, blocked, displayed>>

Fork(hold) ==
  \/ ForkFirst(hold)
  \/ ForkPastEnd(hold)
  \/ ForkRigid(hold)
  \/ ForkOpens(hold)

Calls ==
  \/ \E op \in Op : RefuseSpent(op, 0)
  \/ NextPath
  \/ NextConfigFirst
  \/ NextConfigSame
  \/ NextConfigMoves
  \/ \E hold \in 0..MaxLen : Fork(hold)

-----------------------------------------------------------------------------
(* The path loop: open the sweep's first length, or resume the live stage. *)

PathOpens ==
  /\ pc = "path"
  /\ stage = None
  /\ CanOpen(MinLen)
  /\ stage' = Opened(MinLen, None)
  /\ pc' = "draw"
  /\ UNCHANGED <<command, current, config, blocked, emitted, emittedHere,
                 effort, restricted, call, answer, history>>

PathFails ==
  /\ pc = "path"
  /\ stage = None
  /\ OpenFails(MinLen)
  /\ UNCHANGED <<command, current, config, blocked, emitted, emittedHere,
                 effort, restricted, call, history>>

PathResumes ==
  /\ pc = "path"
  /\ stage # None
  /\ pc' = "draw"
  /\ UNCHANGED <<command, current, search, effort, call, answer, history>>

-----------------------------------------------------------------------------
(* Drawing from the live solver.  A solve costs some effort, and may find  *)
(* that it has not enough left.                                            *)

Charged == /\ budget # 0
           /\ budget' \in (IF budget = None THEN {None} ELSE 0..budget)
           /\ UNCHANGED budgetSpent

Drawing == /\ pc = "draw"
           /\ ~stage.spent
           /\ UNCHANGED <<command, call, blocked, restricted, emitted>>

StageSpent ==
  /\ pc = "draw"
  /\ stage.spent
  /\ pc' = "none"
  /\ UNCHANGED <<command, current, search, effort, call, answer, history>>

SolverGivesUpQuietly ==
  /\ Drawing
  /\ budget # None
  /\ stage' = [stage EXCEPT !.spent = TRUE]
  /\ pc' = "none"
  /\ UNCHANGED <<current, config, emittedHere, effort, answer, history>>

SolverGivesUp ==
  /\ Drawing
  /\ budget # None
  /\ budgetSpent' = TRUE
  /\ stage' = [stage EXCEPT !.spent = TRUE]
  /\ pc' = "none"
  /\ UNCHANGED <<current, config, emittedHere, budget, answer, history>>

SolverUnsat ==
  /\ Drawing
  /\ Charged
  /\ stage.open = {}
  /\ stage' = [stage EXCEPT !.spent = TRUE]
  /\ pc' = "none"
  /\ UNCHANGED <<current, config, emittedHere, answer, history>>

SolverRepeatsUnblocked(s) ==
  /\ Drawing
  /\ Charged
  /\ s \in stage.open
  /\ TraceKey(s) \in emitted
  /\ UNCHANGED <<stage, current, config, emittedHere, pc, answer, history>>

\* The infinite trace was emitted at a shorter length: block it and draw again.
SolverRepeats(s) ==
  /\ Drawing
  /\ Charged
  /\ s \in stage.open
  /\ TraceKey(s) \in emitted
  /\ stage' = [stage EXCEPT !.open = @ \ {s}]
  /\ UNCHANGED <<current, config, emittedHere, pc, answer, history>>

\* The first trace of a sweep fixes its configuration, in this stage too.
SolverYields(s) ==
  /\ Drawing
  /\ Charged
  /\ s \in stage.open
  /\ TraceKey(s) \notin emitted
  /\ emittedHere' = emittedHere \cup {TraceKey(s)}
  /\ config' = IF config = None THEN s.config ELSE config
  /\ stage' = [stage EXCEPT !.open = {t \in @ \ {s} : t.config = config'}]
  /\ current' = s
  /\ pc' = "idle"
  /\ answer' = [kind |-> "Trace", trace |-> s]
  /\ shown' = shown \cup {s}
  /\ displayed' = displayed \cup {s.config}

-----------------------------------------------------------------------------
(* No further solution in the live stage. *)

Forking == call.op = "fork" /\ current # None

ForkEnds ==
  /\ pc = "none"
  /\ Forking
  /\ Reply(IF budgetSpent THEN "BudgetExhausted" ELSE "Exhausted")
  /\ UNCHANGED <<command, current, search, effort, call, history>>

PathStops ==
  /\ pc = "none"
  /\ ~Forking
  /\ budgetSpent
  /\ Reply("BudgetExhausted")
  /\ UNCHANGED <<command, current, search, effort, call, history>>

\* A fork asked about one length, so its line of traces ends here.
ForkLineEnds ==
  /\ pc = "none"
  /\ ~Forking
  /\ ~budgetSpent
  /\ restricted
  /\ stage' = None
  /\ Reply("Exhausted")
  /\ UNCHANGED <<command, current, config, blocked, emitted, emittedHere,
                 effort, restricted, call, history>>

NextLenSkips == stage.k + 2
NextLen == stage.k + 1

PastEnd == NextLen > MaxLen

MergedKeysLost == emitted
MergedKeys == emitted \cup emittedHere

\* The keys of a finished length join those the next lengths skip.
LengthEnds ==
  /\ pc = "none"
  /\ ~Forking
  /\ ~budgetSpent
  /\ ~restricted
  /\ emitted' = MergedKeys
  /\ emittedHere' = {}
  /\ \/ /\ PastEnd
        /\ stage' = None
        /\ Reply("Exhausted")
     \/ /\ ~PastEnd
        /\ OpenFails(NextLen)
     \/ /\ ~PastEnd
        /\ CanOpen(NextLen)
        /\ stage' = Opened(NextLen, None)
        /\ pc' = "draw"
        /\ UNCHANGED answer
  /\ UNCHANGED <<command, current, config, blocked, effort, restricted, call,
                 history>>

Internal ==
  \/ PathOpens
  \/ PathFails
  \/ PathResumes
  \/ StageSpent
  \/ SolverGivesUp
  \/ SolverUnsat
  \/ \E s \in goal : SolverRepeats(s)
  \/ \E s \in goal : SolverYields(s)
  \/ ForkEnds
  \/ PathStops
  \/ ForkLineEnds
  \/ LengthEnds

Next == Calls \/ Internal

\* Any calls, in any order.
Enumerates == Init /\ [][Next]_vars

\* A call runs to its answer; nobody has to make one.
Spec == Enumerates /\ WF_vars(Internal)

-----------------------------------------------------------------------------
(* What the enumerator promises its caller.                                *)

Emits == pc = "draw" /\ answer'.kind = "Trace"

Ends(op) == pc = "idle" /\ call.op = op /\ answer.kind = "Exhausted"

\* The state restricted does not describe: the line of a fork has ended, and
\* the live stage, if any, is unrestricted while the flag still stands.
Adrift == restricted /\ (stage = None \/ stage.fork = None)

\* s is accounted for: it was answered, or its infinite trace was answered at a
\* shorter length.
Accounted(s) ==
  \/ s \in shown
  \/ \E t \in shown : t.k < s.k /\ TraceKey(t) = TraceKey(s)

\* Something floats in the variable relations.  Where nothing does, a fork drops
\* the live stage and keeps its keys: the sweep that follows may report Exhausted
\* with solutions left, and the two properties that ask for this fail.
Forkable == floats.var > 0

\* The two-level duplicate unit: within one length no raw solution is answered
\* twice, and across lengths no infinite trace is, however the calls interleave
\* (path after fork, path after a refusal, path after exhaustion).
NoRepeat ==
  [][Emits /\ ~Adrift /\ Forkable => ~Accounted(answer'.trace)]_vars

\* Every solution of the configuration held is accounted for.
SweptOut == \A s \in goal : s.config = config => Accounted(s)

\* Exhaustion of the path sweep is a proof: every solution of the command in the
\* configuration held is accounted for, whatever budget, cap or error the calls
\* on the way ran into.
SweepComplete ==
  Ends("path") /\ ~restricted /\ config # None /\ Forkable => SweptOut

\* Only NextConfig leaves the configuration on display, for one that was never
\* there before: no path and no fork does, not even after a NextConfig that found
\* nothing and dropped the lock.
KeepsConfig ==
  [][Emits /\ current # None =>
       IF call.op = "config" THEN answer'.trace.config \notin displayed
       ELSE answer'.trace.config = current.config]_vars

\* When NextConfig is exhausted outside the line of a fork, every configuration
\* with a solution has been on display.
ConfigsComplete ==
  Ends("config") /\ ~restricted => \A s \in goal : s.config \in displayed

\* When a fork, or the path that continues it, is exhausted, every solution that
\* answers the fork in the configuration held has been answered.
ForkComplete ==
  [][/\ pc = "none"
     /\ stage.fork # None
     /\ config # None
     /\ answer'.kind = "Exhausted"
     => \A s \in goal : s.config = config /\ Fits(s, stage.fork) => s \in shown]_vars

-----------------------------------------------------------------------------
(* Why the configuration on display only moves by NextConfig: the parts of *)
(* an inductive invariant.  The hard case is a NextConfig that found       *)
(* nothing, which leaves a trace on display whose configuration is blocked *)
(* and no lock to hold the next search to it.                              *)

\* Every solution up to length k lies in a configuration already left.
Barren(k) == \A s \in goal : s.k <= k => s.config \in blocked

\* The search from MinLen on can find nothing: it runs past the last length, or
\* into one it cannot open, with nothing but blocked configurations before.
Stuck == \E k \in MinLen..MaxLen+1 :
           /\ Barren(k - 1)
           /\ k <= MaxLen => ~CanOpen(k)

Searching == pc \in {"path", "draw"}

LockHeld == config # None => /\ config \notin blocked
                             /\ current # None
                             /\ current.config = config

NothingForgotten == /\ displayed \subseteq blocked \cup {config}
                    /\ config = None => emitted = {} /\ emittedHere = {}

StageAdmits ==
  stage # None => \A s \in stage.open : /\ s \in goal
                                        /\ s.k = stage.k
                                        /\ Locked(s)
                                        /\ Unblocked(s)

StageWhole ==
  stage # None /\ stage.fork = None /\ config = None =>
    /\ \A s \in goal : s.k = stage.k /\ Unblocked(s) => s \in stage.open
    /\ Barren(stage.k - 1)
    /\ stage.spent /\ ~budgetSpent => Barren(stage.k)

AllOpenable(k) == \A j \in MinLen..k : CanOpen(j)

Openable == /\ stage # None => AllOpenable(stage.k)
            /\ current # None => AllOpenable(current.k)

InCall == /\ pc # "idle" => answer.kind = "Pending"
          /\ pc # "idle" /\ call.op = "config" => config = None
          /\ Searching => ~budgetSpent
          /\ pc = "none" => stage.spent
          /\ stage # None /\ ~restricted => stage.fork = None

NothingLeft ==
  config = None /\ current # None /\ ~budgetSpent =>
    \/ Stuck
    \/ pc # "idle" /\ call.op = "config" /\ ~restricted

ConfigInv == /\ LockHeld
             /\ NothingForgotten
             /\ StageAdmits
             /\ StageWhole
             /\ Openable
             /\ InCall
             /\ NothingLeft

-----------------------------------------------------------------------------
(* Why a sweep answers every solution, and none twice: the parts of a      *)
(* second inductive invariant, on top of the first.  The hard case is the  *)
(* call after the end: a sweep that ran out, hit the cap or failed to      *)
(* encode is resumed, or reopens the shortest length with every key kept.  *)

\* A configuration left was on display, as the one of the trace on display is.
LeftWasSeen == /\ blocked \subseteq displayed
               /\ current # None => current.config \in displayed

\* A stage is given up for want of effort, or for want of solutions.
SpentIsDry == stage # None /\ stage.spent /\ ~budgetSpent => stage.open = {}

\* The present length's keys are those of the solutions answered at it.
HereIsShown ==
  ~restricted /\ Forkable =>
    \A key \in emittedHere : \E t \in shown :
      stage # None /\ t.k = stage.k /\ TraceKey(t) = key

\* No answer is forgotten: its key bars the next lengths, its clause this one.
ShownIsKept ==
  ~Adrift /\ Forkable => \A t \in shown :
    \/ TraceKey(t) \in emitted
    \/ /\ stage # None
       /\ t.k = stage.k
       /\ t \notin stage.open
       /\ TraceKey(t) \in emittedHere

\* A key bars only what is accounted for, though after a sweep's end it bars
\* lengths shorter than its own.
KeysAreHonest ==
  ~restricted /\ Forkable =>
    \A s \in goal : s.config = config /\ TraceKey(s) \in emitted => Accounted(s)

\* The sweep has left nothing behind, and holds the rest of its length.
SweptBelow ==
  ~restricted /\ Forkable /\ stage # None => \A s \in goal :
    s.config = config /\ s.k <= stage.k => Accounted(s) \/ (s.k = stage.k /\ s \in stage.open)

\* A fork's stage holds what is left of its question.
ForkWhole ==
  stage # None /\ stage.fork # None =>
    /\ current # None
    /\ emitted = {}
    /\ config # None => \A s \in goal :
         s.config = config /\ Fits(s, stage.fork) => s \in shown \/ s \in stage.open

SweepInv == /\ LeftWasSeen
            /\ SpentIsDry
            /\ HereIsShown
            /\ ShownIsKept
            /\ KeysAreHonest
            /\ SweptBelow
            /\ ForkWhole
            /\ SweepComplete
            /\ ConfigsComplete

=============================================================================
