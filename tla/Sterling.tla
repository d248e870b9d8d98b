------------------------------ MODULE Sterling ------------------------------
(***************************************************************************)
(* The provider of `mettle serve` and the pages that talk to it            *)
(* (als-sterling: server.rs, protocol.rs, assets/app.js and protocol.js).  *)
(*                                                                         *)
(* Each page keeps one socket open and the server answers each socket in a *)
(* thread of its own, one frame at a time, under one lock on the shared    *)
(* session.  Here the session is what the pages can tell of it: the id of  *)
(* the datum on screen, the state its evaluator stands at, and the verbs   *)
(* that have retired.  A click either advances to a new datum or is        *)
(* refused, and a refusal may retire its verb or, when the budget is       *)
(* spent, all of them.                                                     *)
(*                                                                         *)
(* A socket that drops leaves its thread behind with the frames it had     *)
(* read or buffered: they may still be served, to no one.  Meta and ping   *)
(* change nothing and are left out; a silence long enough for the watchdog *)
(* is a socket that drops.                                                 *)
(***************************************************************************)
EXTENDS Lasso, FiniteSets, Sequences

CONSTANTS
  Pages,
  Trace,       \* the lasso of each datum, as a length k and a loop: by datum id
  Typed,       \* the states a user may type after :state
  Audiences,   \* who may be watching
  MaxSockets,  \* bound: sockets that a page opens at most
  MaxAsks,     \* bound: evaluations that a page submits at most
  None

Ids == DOMAIN Trace
Length(d) == Trace[d].k
Verbs == {"new-trace", "new-fork"}
Sockets == 1..MaxSockets
States == UNION {0..Length(d)-1 : d \in Ids}

ASSUME TraceAssumption == /\ Cardinality(Ids) \in Nat
                          /\ Ids = 0..Cardinality(Ids)-1
                          /\ \A d \in Ids : /\ Length(d) \in Nat \ {0}
                                            /\ Trace[d].loop \in 0..Length(d)-1
                          /\ Typed \subseteq Int

\* The pages open; whether their users wait until nothing they asked for is under
\* way; what they type after :state; and the bounds: data the session gets to,
\* sockets a page opens (the last one never drops), evaluations it submits, frames
\* under way that make it wait.
Audience == [pages : SUBSET Pages, patient : BOOLEAN, typed : SUBSET Typed,
             data : Ids, sockets : Sockets, asks : 0..MaxAsks, frames : Nat \ {0}]

ASSUME AudiencesAssumption == /\ MaxSockets \in Nat
                              /\ MaxAsks \in Nat
                              /\ Audiences \subseteq Audience
ASSUME NoneAssumption == None \notin Int

VARIABLES
  audience,       \* who is watching
  current,        \* the session: the datum on screen
  evaluatorAt,    \*   the state its evaluator stands at
  retired,        \*   the verbs it no longer offers
  inbox,          \* the frames each socket has for the server
  outbox,         \* the frames each socket has for the page
  socket,         \* the page's latest socket, 0 before the first
  connected,      \* whether it is open
  datum,          \* view.datum of each page, an id
  missing,        \* the verbs that datum came without
  step,           \* view.step: the state displayed
  believed,       \* view.evaluatorState
  busy,           \* view.busy
  asks            \* the evaluations submitted on each page, in order

server == <<audience, current, evaluatorAt, retired>>
wire == <<inbox, outbox, socket, connected>>
screen == <<datum, missing, step, believed>>
page == <<screen, busy, asks>>
vars == <<server, wire, page>>

\* A request on the wire is [type, ...]: "data"; "click" with its verb, the state it
\* names and the datum it was made on (from); "eval" with its ask, datum and move. A
\* reply is a datum with the verbs missing from it, an error, or an evaluation's
\* answer, on a datum (None for the refusal of a stale question, which reads as a
\* result) and at a state. An ask is
\* what was typed, where its promise stands (syncing, asked, settled, failed), what
\* the page showed when it was submitted, and the datum and the state its answer is
\* about.

Init ==
  /\ audience \in Audiences
  /\ current = 0
  /\ evaluatorAt = 0
  /\ retired = {}
  /\ inbox = [p \in Pages |-> [n \in Sockets |-> <<>>]]
  /\ outbox = [p \in Pages |-> <<>>]
  /\ socket = [p \in Pages |-> 0]
  /\ connected = [p \in Pages |-> FALSE]
  /\ datum = [p \in Pages |-> None]
  /\ missing = [p \in Pages |-> {}]
  /\ step = [p \in Pages |-> 0]
  /\ believed = [p \in Pages |-> 0]
  /\ busy = [p \in Pages |-> FALSE]
  /\ asks = [p \in Pages |-> <<>>]

-----------------------------------------------------------------------------
(* The socket of a page (protocol.js).                                     *)

DataRequest == [type |-> "data"]
Sends(p, request) ==
  inbox' = [inbox EXCEPT ![p][socket[p]] = Append(@, request)]

OpenSilently(p) ==
  /\ p \in audience.pages
  /\ ~connected[p]
  /\ socket[p] < audience.sockets
  /\ socket' = [socket EXCEPT ![p] = @ + 1]
  /\ connected' = [connected EXCEPT ![p] = TRUE]
  /\ inbox' = IF datum[p] = None
              THEN [inbox EXCEPT ![p][socket[p] + 1] = <<DataRequest>>]
              ELSE inbox
  /\ UNCHANGED <<server, outbox, page>>

\* Every connection starts by asking for the current datum.
Open(p) ==
  /\ p \in audience.pages
  /\ ~connected[p]
  /\ socket[p] < audience.sockets
  /\ socket' = [socket EXCEPT ![p] = @ + 1]
  /\ connected' = [connected EXCEPT ![p] = TRUE]
  /\ inbox' = [inbox EXCEPT ![p][socket[p] + 1] = <<DataRequest>>]
  /\ UNCHANGED <<server, outbox, page>>

Pending(ask) == ask.stage \in {"syncing", "asked"}

DropLeavesPending(p) ==
  /\ connected[p]
  /\ socket[p] < audience.sockets
  /\ connected' = [connected EXCEPT ![p] = FALSE]
  /\ outbox' = [outbox EXCEPT ![p] = <<>>]
  /\ UNCHANGED <<server, inbox, socket, screen, busy, asks>>

\* The socket closes, by itself or by the silence watchdog: what it still carried
\* for the page is lost and every pending evaluation is rejected.
Drop(p) ==
  /\ connected[p]
  /\ socket[p] < audience.sockets
  /\ connected' = [connected EXCEPT ![p] = FALSE]
  /\ outbox' = [outbox EXCEPT ![p] = <<>>]
  /\ asks' = [asks EXCEPT ![p] =
       [a \in DOMAIN @ |-> IF Pending(@[a]) THEN [@[a] EXCEPT !.stage = "failed"]
                                            ELSE @[a]]]
  /\ UNCHANGED <<server, inbox, socket, screen, busy>>

-----------------------------------------------------------------------------
(* The user of a page (app.js).                                            *)

\* Nothing that the page asked for is under way.
Settled(p) == /\ connected[p]
              /\ inbox[p][socket[p]] = <<>>
              /\ outbox[p] = <<>>

UnderWay(p) == Len(inbox[p][socket[p]]) + Len(outbox[p])

MayAct(p) == /\ datum[p] # None
             /\ UnderWay(p) < audience.frames
             /\ audience.patient => Settled(p)

\* Stepping through the trace is a matter of the page alone.
Step(p, i) ==
  /\ MayAct(p)
  /\ i \in 0..Length(datum[p])-1
  /\ i # step[p]
  /\ step' = [step EXCEPT ![p] = i]
  /\ UNCHANGED <<server, wire, datum, missing, believed, busy, asks>>

\* A fork after the last state has nowhere to go.
IsBlocked(p, verb) == verb = "new-fork" /\ step[p] + 1 >= Length(datum[p])

\* Only new-fork sends the state displayed.
Click(p, verb) ==
  /\ MayAct(p)
  /\ connected[p]
  /\ ~busy[p]
  /\ verb \notin missing[p]
  /\ ~IsBlocked(p, verb)
  /\ busy' = [busy EXCEPT ![p] = TRUE]
  /\ Sends(p, [type |-> "click", verb |-> verb, from |-> datum[p],
               state |-> IF verb = "new-fork" THEN step[p] ELSE None])
  /\ UNCHANGED <<server, outbox, socket, connected, screen, asks>>

Evaluation(p, a, move) ==
  [type |-> "eval", ask |-> a, datum |-> datum[p], move |-> move]

NeverSyncs(p) == FALSE

\* The evaluator is not known to stand at the state displayed.
NeedsSync(p) == believed[p] # step[p]

NewAsk(p, move, stage) ==
  [move |-> move, stage |-> stage, shownOn |-> datum[p], shownAt |-> step[p],
   on |-> None, at |-> 0]

\* An expression is sent once the evaluator has been moved to the state displayed;
\* a typed :state is sent at once, and nothing is sent on a socket that is down.
Submit(p, move) ==
  /\ MayAct(p)
  /\ Len(asks[p]) < audience.asks
  /\ LET a == Len(asks[p]) + 1
         syncs == move = None /\ NeedsSync(p)
     IN  IF connected[p]
         THEN /\ asks' = [asks EXCEPT ![p] =
                   Append(@, NewAsk(p, move, IF syncs THEN "syncing" ELSE "asked"))]
              /\ Sends(p, Evaluation(p, a, IF syncs THEN step[p] ELSE move))
         ELSE /\ asks' = [asks EXCEPT ![p] = Append(@, NewAsk(p, move, "failed"))]
              /\ UNCHANGED inbox
  /\ UNCHANGED <<server, outbox, socket, connected, screen, busy>>

User(p) ==
  \/ \E i \in States : Step(p, i)
  \/ \E verb \in Verbs : Click(p, verb)
  \/ \E move \in audience.typed \cup {None} : Submit(p, move)

-----------------------------------------------------------------------------
(* What a page does with a frame.                                          *)

Takes(p) == /\ connected[p]
            /\ outbox[p] # <<>>
            /\ outbox' = [outbox EXCEPT ![p] = Tail(@)]
            /\ UNCHANGED <<server, socket, connected>>

\* A new datum starts at its first state; the same one again moves nothing.
ShowDatum(p, reply) ==
  /\ datum' = [datum EXCEPT ![p] = reply.datum]
  /\ missing' = [missing EXCEPT ![p] = reply.missing]
  /\ IF datum[p] = reply.datum
     THEN UNCHANGED <<step, believed>>
     ELSE /\ step' = [step EXCEPT ![p] = 0]
          /\ believed' = [believed EXCEPT ![p] = 0]

ReceiveDatum(p) ==
  /\ Takes(p)
  /\ Head(outbox[p]).type = "data"
  /\ ShowDatum(p, Head(outbox[p]))
  /\ busy' = [busy EXCEPT ![p] = FALSE]
  /\ UNCHANGED <<inbox, asks>>

RefreshesNever(p) == UNCHANGED inbox

\* A refusal may have retired the button: ask for the datum again.
Refreshes(p) == IF busy[p] THEN Sends(p, DataRequest) ELSE UNCHANGED inbox

ReceiveError(p) ==
  /\ Takes(p)
  /\ Head(outbox[p]).type = "error"
  /\ busy' = [busy EXCEPT ![p] = FALSE]
  /\ Refreshes(p)
  /\ UNCHANGED <<screen, asks>>

\* The evaluator was moved: the page believes it at the state displayed by now, and
\* sends the expression about the datum displayed by now.
ReceiveSync(p) ==
  LET reply == Head(outbox[p]) IN
  /\ Takes(p)
  /\ reply.type = "eval"
  /\ asks[p][reply.ask].stage = "syncing"
  /\ believed' = [believed EXCEPT ![p] = step[p]]
  /\ asks' = [asks EXCEPT ![p][reply.ask].stage = "asked"]
  /\ Sends(p, Evaluation(p, reply.ask, None))
  /\ UNCHANGED <<datum, missing, step, busy>>

\* After a typed :state the stepper follows, to where the trace on screen puts it.
ReceiveResult(p) ==
  LET reply == Head(outbox[p])
      move  == asks[p][reply.ask].move
      lands == NormalizeState(Trace[datum[p]], move)
  IN
  /\ Takes(p)
  /\ reply.type = "eval"
  /\ asks[p][reply.ask].stage = "asked"
  /\ asks' = [asks EXCEPT ![p][reply.ask].stage = "settled",
                          ![p][reply.ask].on = reply.on,
                          ![p][reply.ask].at = reply.at]
  /\ IF move = None
     THEN UNCHANGED <<believed, step>>
     ELSE /\ believed' = [believed EXCEPT ![p] = lands]
          /\ step' = [step EXCEPT ![p] = lands]
  /\ UNCHANGED <<inbox, datum, missing, busy>>

Receive(p) ==
  \/ ReceiveDatum(p)
  \/ ReceiveError(p)
  \/ ReceiveSync(p)
  \/ ReceiveResult(p)

-----------------------------------------------------------------------------
(* The server: one frame of one socket, under the lock (server.rs).        *)

\* A reply reaches the page if its socket is still the open one.
Replies(p, n, reply) ==
  /\ outbox' = IF n = socket[p] /\ connected[p]
               THEN [outbox EXCEPT ![p] = Append(@, reply)]
               ELSE outbox
  /\ inbox' = [inbox EXCEPT ![p][n] = Tail(@)]
  /\ UNCHANGED <<socket, connected, page>>

Asked(p, n, type) == inbox[p][n] # <<>> /\ Head(inbox[p][n]).type = type

\* New Fork is not offered where the evaluator stands at the last state.
Missing == retired' \cup IF evaluatorAt' + 1 < Trace[current'].k THEN {} ELSE {"new-fork"}

Datum == [type |-> "data", datum |-> current', missing |-> Missing]
Error == [type |-> "error"]

ServeData(p, n) ==
  /\ Asked(p, n, "data")
  /\ UNCHANGED server
  /\ Replies(p, n, Datum)

\* A fork outside the trace, or after its last state.  The datum that the click
\* names is not looked at.
CannotFork(request) == /\ request.verb = "new-fork"
                       /\ request.state + 1 >= Length(current)

\* What a refusal may leave retired: New Trace when its line of traces has ended,
\* every verb when the budget is spent.
RetiredAfter(request) ==
  IF request.verb \in retired \/ CannotFork(request)
  THEN {retired}
  ELSE {retired, Verbs} \cup (IF request.verb = "new-trace" THEN {retired \cup {"new-trace"}} ELSE {})

ServeAdvance(p, n) ==
  LET request == Head(inbox[p][n]) IN
  /\ Asked(p, n, "click")
  /\ request.verb \notin retired
  /\ ~CannotFork(request)
  /\ current < audience.data
  /\ current' = current + 1
  /\ evaluatorAt' = 0
  /\ UNCHANGED <<audience, retired>>
  /\ Replies(p, n, Datum)

ServeRefusal(p, n) ==
  LET request == Head(inbox[p][n]) IN
  /\ Asked(p, n, "click")
  /\ retired' \in RetiredAfter(request)
  /\ UNCHANGED <<audience, current, evaluatorAt>>
  /\ Replies(p, n, Error)

StaleNever(request) == FALSE
Stale(request) == request.datum # current

ServeStale(p, n) ==
  LET request == Head(inbox[p][n]) IN
  /\ Asked(p, n, "eval")
  /\ Stale(request)
  /\ UNCHANGED server
  /\ Replies(p, n, [type |-> "eval", ask |-> request.ask, on |-> None, at |-> 0])

\* A :state moves the evaluator; an expression is evaluated where it stands.
ServeEval(p, n) ==
  LET request == Head(inbox[p][n]) IN
  /\ Asked(p, n, "eval")
  /\ ~Stale(request)
  /\ evaluatorAt' = IF request.move = None THEN evaluatorAt
                    ELSE NormalizeState(Trace[current], request.move)
  /\ UNCHANGED <<audience, current, retired>>
  /\ Replies(p, n, [type |-> "eval", ask |-> request.ask, on |-> current,
                    at |-> evaluatorAt'])

Serve(p, n) ==
  \/ ServeData(p, n)
  \/ ServeAdvance(p, n)
  \/ ServeRefusal(p, n)
  \/ ServeStale(p, n)
  \/ ServeEval(p, n)

\* The thread of a socket that dropped gives up.
HangUp(p, n) ==
  /\ inbox[p][n] # <<>>
  /\ n < socket[p] \/ ~connected[p]
  /\ inbox' = [inbox EXCEPT ![p][n] = <<>>]
  /\ UNCHANGED <<server, outbox, socket, connected, page>>

-----------------------------------------------------------------------------

Next ==
  \E p \in Pages :
    \/ Open(p)
    \/ Drop(p)
    \/ User(p)
    \/ Receive(p)
    \/ \E n \in Sockets : Serve(p, n) \/ HangUp(p, n)

\* Threads run, the event loop delivers, and the reconnect timer fires.
Fairness ==
  \A p \in Pages :
    /\ WF_vars(Open(p))
    /\ WF_vars(Receive(p))
    /\ \A n \in Sockets : WF_vars(Serve(p, n))

Spec == Init /\ [][Next]_vars /\ Fairness

-----------------------------------------------------------------------------
(* Properties.                                                             *)

HasAnswer(ask) == ask.stage = "settled" /\ ask.on # None

\* One page only, on a connection that holds, and a user who waits for the answers.
OneWaits == /\ audience.patient
            /\ audience.sockets = 1
            /\ \E p \in Pages : audience.pages = {p}

\* "An answer about a different instance is a wrong answer" (serve.rs), whether or
\* not the user waits.
NoWrongAnswer ==
  \A p \in Pages : \A a \in DOMAIN asks[p] :
    HasAnswer(asks[p][a]) => asks[p][a].on = asks[p][a].shownOn

\* An answer about another instance is a wrong answer (serve.rs, app.js): what a
\* user who waits submitted about one datum is answered about that one or refused,
\* whatever the other pages do.
AnswersTheDatumAsked == audience.patient => NoWrongAnswer

\* For the user who waits, the page and the session keep in step (app.js): an
\* expression is answered at the state that the page displayed when it was submitted
\* (rule 3), and once nothing is under way the toolbar shows the session's datum and
\* offers no verb that has retired (showError).
AnsweredWhereShown(p) ==
  \A a \in DOMAIN asks[p] :
    HasAnswer(asks[p][a]) /\ asks[p][a].move = None => asks[p][a].at = asks[p][a].shownAt
ToolbarTrue(p) == ~busy[p] /\ datum[p] = current /\ retired \subseteq missing[p]
PageInStep ==
  OneWaits => \A p \in Pages : /\ AnsweredWhereShown(p)
                               /\ datum[p] # None /\ Settled(p) => ToolbarTrue(p)

\* Whatever becomes of a click or of an evaluation, nobody waits for ever: "the
\* buttons must come back" (act), so that the page that sent the click can click
\* again; and an evaluation is answered, or rejected when its socket drops, so that
\* in the end, as a page submits finitely many, none is pending any more.
EveryWaitEnds ==
  \A p \in Pages : /\ busy[p] ~> ~busy[p]
                   /\ <>[](\A a \in DOMAIN asks[p] : ~Pending(asks[p][a]))
-----------------------------------------------------------------------------
(* Why the pages keep in step: what the safety properties rest on.         *)

Request == [type : {"data"}]
           \cup [type : {"click"}, verb : Verbs, from : Ids, state : Nat \cup {None}]
           \cup [type : {"eval"}, ask : Nat, datum : Ids, move : Int \cup {None}]
Reply == [type : {"data"}, datum : Ids, missing : SUBSET Verbs]
         \cup [type : {"error"}]
         \cup [type : {"eval"}, ask : Nat, on : Ids \cup {None}, at : Nat]
Ask == [move : Int \cup {None}, stage : {"syncing", "asked", "settled", "failed"},
        shownOn : Ids, shownAt : Nat, on : Ids \cup {None}, at : Nat]

TypeOK ==
  /\ audience \in Audiences
  /\ current \in Ids
  /\ evaluatorAt \in 0..Length(current)-1
  /\ retired \in SUBSET Verbs
  /\ inbox \in [Pages -> [Sockets -> Seq(Request)]]
  /\ outbox \in [Pages -> Seq(Reply)]
  /\ socket \in [Pages -> 0..MaxSockets]
  /\ connected \in [Pages -> BOOLEAN]
  /\ datum \in [Pages -> Ids \cup {None}]
  /\ missing \in [Pages -> SUBSET Verbs]
  /\ step \in [Pages -> Nat]
  /\ believed \in [Pages -> Nat]
  /\ busy \in [Pages -> BOOLEAN]
  /\ asks \in [Pages -> Seq(Ask)]

\* Only the open socket is heard, and what its page has for the next one is nothing.
Wired(p) ==
  /\ socket[p] <= audience.sockets
  /\ connected[p] => socket[p] # 0
  /\ ~connected[p] => outbox[p] = <<>>
  /\ \A n \in Sockets : n > socket[p] => inbox[p][n] = <<>>
  /\ p \notin audience.pages => socket[p] = 0
  /\ socket[p] = 0 => datum[p] = None

\* A page displays a state of its trace; it asks about a datum that it has, and every
\* question and answer is about something it asked.
Displays(p) ==
  /\ IF datum[p] = None THEN asks[p] = <<>> ELSE step[p] < Length(datum[p])
  /\ \A n \in Sockets : \A i \in DOMAIN inbox[p][n] :
       inbox[p][n][i].type = "eval" => inbox[p][n][i].ask \in DOMAIN asks[p]
  /\ \A i \in DOMAIN outbox[p] :
       outbox[p][i].type = "eval" => outbox[p][i].ask \in DOMAIN asks[p]

\* The frame under way, in either direction.
Sent(p) == IF connected[p] THEN inbox[p][socket[p]] ELSE <<>>
First(frames, type) == frames # <<>> /\ Head(frames).type = type

\* The page of a user who waits has one frame under way at most.  A pending question
\* is about the datum on the page, and it or its answer is that frame.
Holds(p, a) == /\ Pending(asks[p][a])
               /\ asks[p][a].shownOn = datum[p]
OneAtATime(p) ==
  /\ Sent(p) = <<>> \/ outbox[p] = <<>>
  /\ Len(Sent(p)) <= 1 /\ Len(outbox[p]) <= 1
  /\ First(Sent(p), "eval") => /\ Holds(p, Head(Sent(p)).ask)
                               /\ Head(Sent(p)).datum = datum[p]
  /\ First(outbox[p], "eval") => /\ Holds(p, Head(outbox[p]).ask)
                                 /\ Head(outbox[p]).on \in {None, datum[p]}
  /\ \A a \in DOMAIN asks[p] :
       Pending(asks[p][a]) => \/ First(Sent(p), "eval") /\ Head(Sent(p)).ask = a
                              \/ First(outbox[p], "eval") /\ Head(outbox[p]).ask = a

LineInv ==
  /\ \A p \in Pages : Wired(p) /\ Displays(p)
  /\ audience.patient => NoWrongAnswer /\ \A p \in Pages : OneAtATime(p)

Knows(p) == believed[p] = evaluatorAt

\* For one user who waits: what the page knows of the session, by what is under way.
WhileNothing(p) ==
  /\ datum[p] = None => current = 0 /\ evaluatorAt = 0
  /\ ~connected[p] => socket[p] = 0 /\ datum[p] = None /\ ~busy[p]
  /\ Settled(p) => ToolbarTrue(p) /\ Knows(p)
WhileFetching(p) ==
  /\ First(Sent(p), "data") => /\ ~busy[p]
                               /\ datum[p] # None => datum[p] = current /\ Knows(p)
  /\ First(outbox[p], "data") => LET reply == Head(outbox[p]) IN
       /\ reply.datum = current /\ retired \subseteq reply.missing
       /\ IF datum[p] = current THEN Knows(p) ELSE evaluatorAt = 0
WhileClicking(p) ==
  First(Sent(p), "click") \/ First(outbox[p], "error") =>
    busy[p] /\ datum[p] = current /\ Knows(p)
WhileAsking(p) ==
  First(Sent(p), "eval") =>
    LET request == Head(Sent(p))
        ask     == asks[p][request.ask]
    IN  /\ ToolbarTrue(p)
        /\ IF ask.stage = "syncing"
           THEN ask.move = None /\ request.move = step[p] /\ ask.shownAt = step[p]
           ELSE /\ request.move = ask.move
                /\ ask.move = None => Knows(p) /\ ask.shownAt = evaluatorAt
WhileAnswering(p) ==
  First(outbox[p], "eval") =>
    LET reply == Head(outbox[p])
        ask   == asks[p][reply.ask]
    IN  /\ ToolbarTrue(p)
        /\ IF ask.stage = "syncing"
           THEN ask.move = None /\ evaluatorAt = step[p] /\ ask.shownAt = step[p]
           ELSE IF ask.move = None
           THEN Knows(p) /\ reply.at = ask.shownAt
           ELSE evaluatorAt = NormalizeState(Trace[current], ask.move)

InStep(p) ==
  /\ AnsweredWhereShown(p)
  /\ WhileNothing(p)
  /\ WhileFetching(p)
  /\ WhileClicking(p)
  /\ WhileAsking(p)
  /\ WhileAnswering(p)

StepInv == OneWaits => \A p \in audience.pages : InStep(p)
=============================================================================
