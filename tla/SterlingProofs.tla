-------------------------- MODULE SterlingProofs --------------------------
(***************************************************************************)
(* Theorems about Sterling, for every number of pages and sockets, every   *)
(* trace and every audience.                                               *)
(***************************************************************************)
EXTENDS Sterling, SequenceTheorems, TLAPS

-----------------------------------------------------------------------------
(* Types.                                                                  *)

LEMMA AudienceFields ==
  ASSUME audience \in Audiences
  PROVE  /\ audience.pages \subseteq Pages
         /\ audience.typed \subseteq Int
         /\ audience.data \in Ids
         /\ audience.sockets \in Sockets
         /\ audience.sockets \in 1..MaxSockets
         /\ audience.asks \in Nat
         /\ audience.frames \in Nat \ {0}
         /\ audience.patient \in BOOLEAN
<1>1. audience \in Audience
  BY AudiencesAssumption
<1>2. /\ audience.pages \in SUBSET Pages /\ audience.typed \in SUBSET Typed
      /\ audience.data \in Ids /\ audience.sockets \in Sockets
      /\ audience.asks \in 0..MaxAsks /\ audience.frames \in Nat \ {0}
      /\ audience.patient \in BOOLEAN
  BY <1>1, Zenon DEF Audience
<1>3. audience.typed \subseteq Int
  BY <1>2, TraceAssumption
<1> QED BY <1>2, <1>3, AudiencesAssumption DEF Sockets

LEMMA IdFacts ==
  /\ Ids \subseteq Nat
  /\ \A d \in Ids : /\ d # None
                    /\ Length(d) \in Nat \ {0}
                    /\ Trace[d].k = Length(d)
                    /\ Trace[d].loop \in 0..Length(d)-1
  /\ \A d \in Ids, e \in Ids : d < e => d + 1 \in Ids
  /\ \A d \in Ids : 0 \in Ids
  BY TraceAssumption, NoneAssumption, SMT DEF Length

\* A remainder of less than the divisor is the number itself.
LEMMA SmallRemainder ==
  ASSUME NEW n \in Nat \ {0}, NEW w \in 0..n-1
  PROVE  w % n = w
<1> DEFINE p == w \div n
           r == w % n
<1>1. p \in Int /\ r \in 0..n-1 /\ w = n * p + r
  BY SMT
<1> HIDE DEF p
<1>2. p >= 1 => n * p >= n
  BY <1>1, SMT
<1>3. p <= -1 => n * p <= -n
  BY <1>1, SMT
<1> QED BY <1>1, <1>2, <1>3, SMT

\* The evaluator stands at a state of the trace, at the one asked for if there is one.
LEMMA LandsInTrace ==
  ASSUME NEW d \in Ids, NEW i \in Int
  PROVE  /\ NormalizeState(Trace[d], i) \in 0..Length(d)-1
         /\ i \in 0..Length(d)-1 => NormalizeState(Trace[d], i) = i
<1> DEFINE s == Trace[d]
           j == IF i < 0 THEN 0 ELSE i
           n == s.k - s.loop
<1>1. /\ s.k \in Nat \ {0} /\ s.loop \in 0..s.k-1 /\ s.k = Length(d)
      /\ j \in Nat /\ s.loop \in Nat
  BY IdFacts
<1>2. n \in Nat \ {0} /\ n = s.k - s.loop
  BY <1>1
<1>3. NormalizeState(s, i) = IF j > s.loop THEN s.loop + ((j - s.loop) % n) ELSE j
  BY DEF NormalizeState
<1>4. (i \in 0..s.k-1 => j = i) /\ (i \in Nat => j = i)
  BY <1>1
<1> HIDE DEF n, j, s
<1>5. j >= s.loop => (j - s.loop) % n \in 0..n-1
  BY <1>1, <1>2
<1>6. ASSUME j >= s.loop, j < s.k
      PROVE  (j - s.loop) % n = j - s.loop
  <2>1. j - s.loop \in 0..n-1
    BY <1>1, <1>2, <1>6
  <2> QED BY <1>2, <2>1, SmallRemainder
<1>7. NormalizeState(s, i) \in 0..s.k-1
  BY <1>1, <1>2, <1>3, <1>5
<1>8. i \in 0..s.k-1 => NormalizeState(s, i) = i
  BY <1>1, <1>3, <1>4, <1>6
<1> QED BY <1>1, <1>7, <1>8 DEF s

\* The fields of a frame, by its type.
LEMMA RequestFields ==
  ASSUME NEW r \in Request
  PROVE  /\ r.type \in {"data", "click", "eval"}
         /\ r.type = "eval" => /\ r.ask \in Nat
                               /\ r.datum \in Ids
                               /\ r.move \in Int \cup {None}
  BY DEF Request

LEMMA ReplyFields ==
  ASSUME NEW r \in Reply
  PROVE  /\ r.type \in {"data", "error", "eval"}
         /\ r.type = "data" => r.datum \in Ids /\ r.missing \in SUBSET Verbs
         /\ r.type = "eval" => /\ r.ask \in Nat
                               /\ r.on \in Ids \cup {None}
                               /\ r.at \in Nat
  BY DEF Reply

\* A queue of at most one frame.
LEMMA OneFrame ==
  ASSUME NEW S, NEW s \in Seq(S), s # <<>>
  PROVE  /\ Head(s) \in S
         /\ Tail(s) \in Seq(S)
         /\ Len(s) \in Nat \ {0}
         /\ Len(s) <= 1 => Tail(s) = <<>>
         /\ DOMAIN Tail(s) = 1..Len(s)-1
         /\ \A i \in DOMAIN Tail(s) : i + 1 \in DOMAIN s /\ Tail(s)[i] = s[i + 1]
         /\ 1 \in DOMAIN s /\ Head(s) = s[1]
  BY HeadTailProperties, SMT

LEMMA NewFrame ==
  ASSUME NEW S, NEW s \in Seq(S), NEW r \in S
  PROVE  /\ Append(s, r) \in Seq(S)
         /\ Append(s, r) # <<>>
         /\ Len(Append(s, r)) = Len(s) + 1
         /\ s = <<>> => Head(Append(s, r)) = r
         /\ DOMAIN Append(s, r) = DOMAIN s \cup {Len(s) + 1}
         /\ \A i \in DOMAIN s : Append(s, r)[i] = s[i]
         /\ Append(s, r)[Len(s) + 1] = r
  BY AppendProperties, SMT

-----------------------------------------------------------------------------
(* A step is of one page.                                                  *)

Page(q) == <<inbox[q], outbox[q], socket[q], connected[q], datum[q], missing[q],
             step[q], believed[q], busy[q], asks[q]>>

PageSteps(p) ==
  \/ Open(p)
  \/ Drop(p)
  \/ User(p)
  \/ Receive(p)
  \/ \E n \in Sockets : Serve(p, n) \/ HangUp(p, n)

RightAnswers(p) ==
  \A a \in DOMAIN asks[p] : HasAnswer(asks[p][a]) => asks[p][a].on = asks[p][a].shownOn

PageInv(p) ==
  /\ Wired(p)
  /\ Displays(p)
  /\ audience.patient => RightAnswers(p) /\ OneAtATime(p)

LEMMA Sending ==
  ASSUME TypeOK, NEW p \in Pages, Wired(p), connected[p],
         NEW r \in Request, Sends(p, r)
  PROVE  /\ socket[p] \in Sockets
         /\ inbox' \in [Pages -> [Sockets -> Seq(Request)]]
         /\ inbox'[p][socket[p]] = Append(inbox[p][socket[p]], r)
         /\ \A n \in Sockets : n # socket[p] => inbox'[p][n] = inbox[p][n]
         /\ \A q \in Pages : q # p => inbox'[q] = inbox[q]
<1>1. socket[p] \in Sockets
  BY AudiencesAssumption DEF TypeOK, Wired, Sockets
<1>2. Append(inbox[p][socket[p]], r) \in Seq(Request)
  BY <1>1, NewFrame DEF TypeOK
<1> QED BY <1>1, <1>2 DEF TypeOK, Sends

LEMMA Taking ==
  ASSUME TypeOK, NEW p \in Pages, Takes(p)
  PROVE  /\ outbox' \in [Pages -> Seq(Reply)]
         /\ outbox'[p] = Tail(outbox[p])
         /\ \A q \in Pages : q # p => outbox'[q] = outbox[q]
         /\ Head(outbox[p]) \in Reply
         /\ 1 \in DOMAIN outbox[p] /\ Head(outbox[p]) = outbox[p][1]
<1>1. outbox[p] \in Seq(Reply) /\ outbox[p] # <<>>
  BY DEF TypeOK, Takes
<1> QED BY <1>1, OneFrame DEF TypeOK, Takes

LEMMA Replying ==
  ASSUME TypeOK, NEW p \in Pages, NEW n \in Sockets, inbox[p][n] # <<>>,
         NEW reply \in Reply, Replies(p, n, reply)
  PROVE  /\ inbox' \in [Pages -> [Sockets -> Seq(Request)]]
         /\ outbox' \in [Pages -> Seq(Reply)]
         /\ inbox'[p][n] = Tail(inbox[p][n])
         /\ \A m \in Sockets : m # n => inbox'[p][m] = inbox[p][m]
         /\ outbox'[p] = IF n = socket[p] /\ connected[p]
                         THEN Append(outbox[p], reply) ELSE outbox[p]
         /\ \A q \in Pages : q # p => inbox'[q] = inbox[q] /\ outbox'[q] = outbox[q]
<1>1. Tail(inbox[p][n]) \in Seq(Request)
  BY OneFrame DEF TypeOK
<1>2. Append(outbox[p], reply) \in Seq(Reply)
  BY NewFrame DEF TypeOK
<1> QED BY <1>1, <1>2 DEF TypeOK, Replies

\* What the pages do leaves the other pages and the audience alone.
LEMMA OnlyItsPage ==
  ASSUME TypeOK, NEW p \in Pages, PageSteps(p), NEW q \in Pages, q # p
  PROVE  audience' = audience /\ UNCHANGED Page(q)
<1> USE DEF TypeOK, Page, server, wire, screen, page
<1>1. CASE Open(p) \/ Drop(p)
  BY <1>1 DEF Open, Drop
<1>2. CASE User(p)
  BY <1>2 DEF User, Step, Click, Submit, Sends
<1>3. CASE Receive(p)
  BY <1>3 DEF Receive, ReceiveDatum, ReceiveError, ReceiveSync, ReceiveResult, Takes,
              ShowDatum, Refreshes, Sends
<1>4. CASE \E n \in Sockets : Serve(p, n) \/ HangUp(p, n)
  BY <1>4 DEF Serve, HangUp, ServeData, ServeAdvance, ServeRefusal, ServeStale, ServeEval,
              Replies
<1> QED BY <1>1, <1>2, <1>3, <1>4 DEF PageSteps

LEMMA PageStays ==
  ASSUME NEW q \in Pages, audience' = audience, UNCHANGED Page(q), PageInv(q)
  PROVE  PageInv(q)'
<1> USE DEF Page
<1>1. Wired(q)' /\ Displays(q)'
  BY DEF PageInv, Wired, Displays
<1>2. audience.patient => RightAnswers(q)'
  BY DEF PageInv, RightAnswers, HasAnswer
<1>3. Sent(q)' = Sent(q)
  BY DEF Sent
<1>4. audience.patient => OneAtATime(q)'
  BY <1>3 DEF PageInv, OneAtATime, First, Holds, Pending
<1> QED BY <1>1, <1>2, <1>4 DEF PageInv

-----------------------------------------------------------------------------
(* The types are kept.                                                     *)

LEMMA TypesInit == Init => TypeOK /\ \A p \in Pages : PageInv(p)
<1> SUFFICES ASSUME Init PROVE TypeOK /\ \A p \in Pages : PageInv(p)
  OBVIOUS
<1>1. audience \in Audiences /\ 0 \in Ids
  BY AudienceFields, IdFacts DEF Init
<1>2. 0 \in 0..Length(0)-1
  BY <1>1, IdFacts
<1>3. TypeOK
  BY <1>1, <1>2, AudiencesAssumption DEF Init, TypeOK
<1>4. ASSUME NEW p \in Pages PROVE Wired(p) /\ Displays(p)
  BY <1>1, AudienceFields DEF Init, Wired, Displays, Sockets
<1>5. ASSUME NEW p \in Pages PROVE RightAnswers(p)
  BY DEF Init, RightAnswers
<1>6. ASSUME NEW p \in Pages PROVE OneAtATime(p)
  BY DEF Init, OneAtATime, Sent, First
<1> QED BY <1>3, <1>4, <1>5, <1>6 DEF PageInv

LEMMA TypesSocket ==
  ASSUME TypeOK, NEW p \in Pages, PageInv(p), Open(p) \/ Drop(p)
  PROVE  TypeOK'
<1> USE DEF server, wire, screen, page
<1>1. CASE Open(p)
  <2>1. socket[p] + 1 \in Sockets
    BY <1>1, AudienceFields, AudiencesAssumption DEF TypeOK, Open, Sockets
  <2>2. <<DataRequest>> \in Seq(Request)
    BY DEF DataRequest, Request
  <2>3. inbox' \in [Pages -> [Sockets -> Seq(Request)]]
    BY <1>1, <2>1, <2>2 DEF TypeOK, Open
  <2> QED BY <1>1, <2>1, <2>3 DEF TypeOK, Open, Sockets
<1>2. CASE Drop(p)
  <2> DEFINE rejected == [a \in DOMAIN asks[p] |->
                            IF Pending(asks[p][a]) THEN [asks[p][a] EXCEPT !.stage = "failed"]
                                                   ELSE asks[p][a]]
  <2>2. asks[p] \in Seq(Ask)
    BY DEF TypeOK
  <2>1. ASSUME NEW a \in DOMAIN asks[p] PROVE rejected[a] \in Ask
    <3>1. asks[p][a] \in Ask
      BY <2>2
    <3>2. [asks[p][a] EXCEPT !.stage = "failed"] \in Ask
      BY <3>1 DEF Ask
    <3> QED BY <3>1, <3>2
  <2>3. DOMAIN asks[p] = 1..Len(asks[p]) /\ Len(asks[p]) \in Nat
    BY <2>2
  <2>4. rejected \in Seq(Ask)
    <3>1. rejected \in [1..Len(asks[p]) -> Ask]
      BY <2>1, <2>3, Zenon
    <3> QED BY <2>3, <3>1, SeqDef
  <2> HIDE DEF rejected
  <2>5. asks' = [asks EXCEPT ![p] = rejected]
    BY <1>2 DEF Drop, rejected
  <2>6. asks' \in [Pages -> Seq(Ask)]
    BY <2>4, <2>5 DEF TypeOK
  <2>7. outbox' \in [Pages -> Seq(Reply)] /\ connected' \in [Pages -> BOOLEAN]
    BY <1>2 DEF Drop, TypeOK
  <2> QED BY <1>2, <2>6, <2>7 DEF TypeOK, Drop
<1> QED BY <1>1, <1>2

\* What a page asks.
LEMMA AsksType ==
  ASSUME TypeOK, NEW p \in Pages, datum[p] # None, NEW move \in Int \cup {None},
         NEW stage \in {"syncing", "asked", "failed"}
  PROVE  NewAsk(p, move, stage) \in Ask
  BY DEF TypeOK, NewAsk, Ask

LEMMA EvaluationType ==
  ASSUME TypeOK, NEW p \in Pages, datum[p] # None, NEW a \in Nat,
         NEW move \in Int \cup {None}
  PROVE  Evaluation(p, a, move) \in Request
  BY DEF TypeOK, Evaluation, Request

LEMMA TypesUser ==
  ASSUME TypeOK, NEW p \in Pages, PageInv(p), User(p)
  PROVE  TypeOK'
<1> USE DEF server, wire, screen, page
<1>w. Wired(p)
  BY DEF PageInv
<1>1. ASSUME NEW i \in States, Step(p, i) PROVE TypeOK'
  BY <1>1, IdFacts DEF Step, MayAct, TypeOK
<1>2. ASSUME NEW verb \in Verbs, Click(p, verb) PROVE TypeOK'
  <2> DEFINE r == [type |-> "click", verb |-> verb, from |-> datum[p],
                   state |-> IF verb = "new-fork" THEN step[p] ELSE None]
  <2>1. r \in Request
    BY <1>2 DEF Click, MayAct, TypeOK, Request
  <2>2. Sends(p, r)
    BY <1>2 DEF Click
  <2>3. inbox' \in [Pages -> [Sockets -> Seq(Request)]]
    BY <1>2, <1>w, <2>1, <2>2, Sending DEF Click
  <2> QED BY <1>2, <2>3 DEF Click, TypeOK
<1>3. ASSUME NEW move \in audience.typed \cup {None}, Submit(p, move) PROVE TypeOK'
  <2>1. move \in Int \cup {None} /\ datum[p] # None /\ step[p] \in Int
    BY <1>3, AudienceFields DEF Submit, MayAct, TypeOK
  <2> DEFINE a == Len(asks[p]) + 1
             syncs == move = None /\ NeedsSync(p)
             stage == IF syncs THEN "syncing" ELSE "asked"
             sent == IF syncs THEN step[p] ELSE move
  <2>2. asks[p] \in Seq(Ask) /\ a \in Nat
    BY DEF TypeOK
  <2>3. CASE connected[p]
    <3>1. NewAsk(p, move, stage) \in Ask
      BY <2>1, AsksType
    <3>2. Evaluation(p, a, sent) \in Request
      BY <2>1, <2>2, EvaluationType
    <3> HIDE DEF a, syncs, stage, sent
    <3>3. /\ asks' = [asks EXCEPT ![p] = Append(@, NewAsk(p, move, stage))]
          /\ Sends(p, Evaluation(p, a, sent))
      BY <1>3, <2>3 DEF Submit, a, syncs, stage, sent
    <3>4. Append(asks[p], NewAsk(p, move, stage)) \in Seq(Ask)
      BY <2>2, <3>1, NewFrame
    <3>5. inbox' \in [Pages -> [Sockets -> Seq(Request)]]
      BY <1>w, <2>3, <3>2, <3>3, Sending
    <3> QED BY <1>3, <3>3, <3>4, <3>5 DEF Submit, TypeOK
  <2>4. CASE ~connected[p]
    <3>1. NewAsk(p, move, "failed") \in Ask
      BY <2>1, AsksType
    <3>2. asks' = [asks EXCEPT ![p] = Append(@, NewAsk(p, move, "failed"))] /\ inbox' = inbox
      BY <1>3, <2>4 DEF Submit
    <3>3. Append(asks[p], NewAsk(p, move, "failed")) \in Seq(Ask)
      BY <2>2, <3>1, NewFrame
    <3> QED BY <1>3, <3>2, <3>3 DEF Submit, TypeOK
  <2> QED BY <2>3, <2>4 DEF TypeOK
<1> QED BY <1>1, <1>2, <1>3 DEF User

\* The question that an evaluation's answer answers.
LEMMA AnswersAnAsk ==
  ASSUME TypeOK, NEW p \in Pages, PageInv(p), Takes(p), Head(outbox[p]).type = "eval"
  PROVE  /\ Head(outbox[p]).ask \in DOMAIN asks[p]
         /\ asks[p][Head(outbox[p]).ask] \in Ask
         /\ datum[p] \in Ids
<1>1. Head(outbox[p]).ask \in DOMAIN asks[p]
  BY Taking DEF PageInv, Displays
<1>2. asks[p] \in Seq(Ask) /\ asks[p] # <<>>
  BY <1>1 DEF TypeOK
<1> QED BY <1>1, <1>2 DEF TypeOK, PageInv, Displays

\* An answer settles its question, and no other.
LEMMA Settles ==
  ASSUME TypeOK, NEW p \in Pages, PageInv(p), ReceiveResult(p)
  PROVE  LET reply == Head(outbox[p])
         IN  asks' = [asks EXCEPT ![p] = [asks[p] EXCEPT ![reply.ask] =
                       [asks[p][reply.ask] EXCEPT !.stage = "settled", !.on = reply.on,
                                                  !.at = reply.at]]]
<1> DEFINE reply == Head(outbox[p])
           b == reply.ask
           once == [asks EXCEPT ![p][b].stage = "settled"]
           twice == [once EXCEPT ![p][b].on = reply.on]
<1>1. b \in DOMAIN asks[p] /\ asks[p][b] \in Ask
  BY AnswersAnAsk DEF ReceiveResult
<1>2. asks' = [twice EXCEPT ![p][b].at = reply.at]
  BY DEF ReceiveResult
<1>3. asks \in [Pages -> Seq(Ask)]
  BY DEF TypeOK
<1>4. once = [asks EXCEPT ![p] = [asks[p] EXCEPT ![b] = [asks[p][b] EXCEPT !.stage = "settled"]]]
  BY <1>1, <1>3
<1> QED BY <1>1, <1>2, <1>3, <1>4

LEMMA TypesReceive ==
  ASSUME TypeOK, NEW p \in Pages, PageInv(p), Receive(p)
  PROVE  TypeOK'
<1> USE DEF server, wire, screen, page
<1>w. Wired(p)
  BY DEF PageInv
<1> DEFINE reply == Head(outbox[p])
<1>t. Takes(p)
  BY DEF Receive, ReceiveDatum, ReceiveError, ReceiveSync, ReceiveResult
<1>r. reply \in Reply /\ outbox' \in [Pages -> Seq(Reply)]
  BY <1>t, Taking
<1>d. DataRequest \in Request
  BY DEF DataRequest, Request
<1>c. connected[p]
  BY <1>t DEF Takes
<1>1. CASE ReceiveDatum(p)
  <2>1. reply.datum \in Ids /\ reply.missing \in SUBSET Verbs
    BY <1>1, <1>r, ReplyFields DEF ReceiveDatum
  <2>2. /\ datum' = [datum EXCEPT ![p] = reply.datum]
        /\ missing' = [missing EXCEPT ![p] = reply.missing]
        /\ step' = step \/ step' = [step EXCEPT ![p] = 0]
        /\ believed' = believed \/ believed' = [believed EXCEPT ![p] = 0]
    BY <1>1 DEF ReceiveDatum, ShowDatum
  <2>3. step' \in [Pages -> Nat] /\ believed' \in [Pages -> Nat]
    <3>1. step \in [Pages -> Nat] /\ believed \in [Pages -> Nat]
      BY DEF TypeOK
    <3> QED BY <2>2, <3>1
  <2>4. datum' \in [Pages -> Ids \cup {None}] /\ missing' \in [Pages -> SUBSET Verbs]
    BY <2>1, <2>2 DEF TypeOK
  <2>5. busy' \in [Pages -> BOOLEAN]
    BY <1>1 DEF ReceiveDatum, TypeOK
  <2> QED BY <1>1, <1>t, <1>r, <2>3, <2>4, <2>5 DEF ReceiveDatum, Takes, TypeOK
<1>2. CASE ReceiveError(p)
  <2>1. inbox' \in [Pages -> [Sockets -> Seq(Request)]]
    BY <1>2, <1>w, <1>c, <1>d, Sending DEF ReceiveError, Refreshes, TypeOK
  <2> QED BY <1>2, <1>t, <1>r, <2>1 DEF ReceiveError, Takes, TypeOK
<1>3. CASE ReceiveSync(p) \/ ReceiveResult(p)
  <2>1. /\ reply.type = "eval"
        /\ reply.ask \in DOMAIN asks[p]
        /\ asks[p][reply.ask] \in Ask
        /\ datum[p] \in Ids
        /\ reply.on \in Ids \cup {None} /\ reply.at \in Nat /\ reply.ask \in Nat
    BY <1>3, <1>t, <1>r, AnswersAnAsk, ReplyFields DEF ReceiveSync, ReceiveResult
  <2>2. asks[p] \in Seq(Ask)
    BY DEF TypeOK
  <2>3. CASE ReceiveSync(p)
    <3>1. Evaluation(p, reply.ask, None) \in Request
      BY <2>1, IdFacts, EvaluationType
    <3>2. inbox' \in [Pages -> [Sockets -> Seq(Request)]]
      BY <2>3, <1>w, <1>c, <3>1, Sending DEF ReceiveSync
    <3>3. [asks[p][reply.ask] EXCEPT !.stage = "asked"] \in Ask
      BY <2>1 DEF Ask
    <3>4. [asks[p] EXCEPT ![reply.ask].stage = "asked"] \in Seq(Ask)
      BY <2>1, <2>2, <3>3, ExceptSeq
    <3>5. asks' \in [Pages -> Seq(Ask)]
      BY <2>3, <3>4 DEF ReceiveSync, TypeOK
    <3> QED BY <2>3, <1>t, <1>r, <3>2, <3>5 DEF ReceiveSync, Takes, TypeOK
  <2>4. CASE ReceiveResult(p)
    <3> DEFINE now == [asks[p][reply.ask] EXCEPT !.stage = "settled", !.on = reply.on,
                                                 !.at = reply.at]
               lands == NormalizeState(Trace[datum[p]], asks[p][reply.ask].move)
    <3>1. now \in Ask
      BY <2>1 DEF Ask
    <3>2. [asks[p] EXCEPT ![reply.ask] = now] \in Seq(Ask)
      BY <2>1, <2>2, <3>1, ExceptSeq
    <3>3. asks' = [asks EXCEPT ![p] = [asks[p] EXCEPT ![reply.ask] = now]]
      BY <2>1, <2>4, Settles
    <3>4. asks[p][reply.ask].move # None => lands \in Nat
      <4>1. asks[p][reply.ask].move \in Int \cup {None}
        BY <2>1 DEF Ask
      <4>2. Length(datum[p]) \in Nat \ {0}
        BY <2>1, IdFacts
      <4>3. asks[p][reply.ask].move \in Int => lands \in 0..Length(datum[p])-1
        BY <2>1, LandsInTrace
      <4> QED BY <4>1, <4>2, <4>3
    <3> HIDE DEF now, lands
    <3>5. IF asks[p][reply.ask].move = None
          THEN UNCHANGED <<believed, step>>
          ELSE /\ believed' = [believed EXCEPT ![p] = lands]
               /\ step' = [step EXCEPT ![p] = lands]
      BY <2>4 DEF ReceiveResult, lands
    <3>6. step' \in [Pages -> Nat] /\ believed' \in [Pages -> Nat]
      BY <3>4, <3>5 DEF TypeOK
    <3>7. asks' \in [Pages -> Seq(Ask)]
      BY <3>2, <3>3 DEF TypeOK
    <3> QED BY <2>4, <1>t, <1>r, <3>6, <3>7 DEF ReceiveResult, Takes, TypeOK
  <2> QED BY <1>3, <2>3, <2>4
<1> QED BY <1>1, <1>2, <1>3 DEF Receive

\* What the server answers to the first frame of a socket, and what it answers with.
LEMMA ServesReply ==
  ASSUME TypeOK, NEW p \in Pages, NEW n \in Sockets, Serve(p, n)
  PROVE  /\ inbox[p][n] # <<>> /\ Head(inbox[p][n]) \in Request
         /\ audience' = audience
         /\ current' \in Ids
         /\ evaluatorAt' \in 0..Length(current')-1
         /\ retired' \in SUBSET Verbs
         /\ \E reply \in Reply :
              /\ Replies(p, n, reply)
              /\ \/ (ServeData(p, n) \/ ServeAdvance(p, n)) /\ reply = Datum
                 \/ ServeRefusal(p, n) /\ reply = Error
                 \/ ServeStale(p, n) /\ reply.on = None
                 \/ ServeEval(p, n) /\ reply.on = current /\ reply.at = evaluatorAt'
              /\ reply.type = "eval" <=> Head(inbox[p][n]).type = "eval"
              /\ reply.type = "eval" => /\ reply.ask = Head(inbox[p][n]).ask
                                        /\ reply.on \in {None, Head(inbox[p][n]).datum}
<1> DEFINE request == Head(inbox[p][n])
<1> USE DEF server
<1>1. inbox[p][n] # <<>> /\ inbox[p][n] \in Seq(Request)
  BY DEF Serve, ServeData, ServeAdvance, ServeRefusal, ServeStale, ServeEval, Asked, TypeOK
<1>2. request \in Request
  BY <1>1, OneFrame
<1>3. /\ request.type \in {"data", "click", "eval"}
      /\ request.type = "eval" => /\ request.ask \in Nat
                                  /\ request.datum \in Ids
                                  /\ request.move \in Int \cup {None}
  BY <1>2, RequestFields
<1>t. /\ current \in Ids /\ evaluatorAt \in 0..Length(current)-1 /\ retired \in SUBSET Verbs
      /\ audience \in Audiences /\ Length(current) \in Nat \ {0}
  BY IdFacts DEF TypeOK
<1>m. ASSUME retired' \in SUBSET Verbs PROVE Missing \in SUBSET Verbs
  BY <1>m DEF Missing, Verbs
<1> HIDE DEF request
<1>4. CASE ServeData(p, n)
  <2>1. UNCHANGED server /\ Replies(p, n, Datum)
    BY <1>4 DEF ServeData
  <2>2. Datum \in Reply /\ Datum.type = "data"
    BY <1>t, <1>m, <2>1 DEF Datum, Reply
  <2>3. request.type = "data"
    BY <1>4 DEF ServeData, Asked, request
  <2> QED BY <1>1, <1>4, <1>2, <1>t, <2>1, <2>2, <2>3 DEF request
<1>5. CASE ServeAdvance(p, n)
  <2>1. /\ current < audience.data /\ current' = current + 1 /\ evaluatorAt' = 0
        /\ audience' = audience /\ retired' = retired /\ Replies(p, n, Datum)
    BY <1>5 DEF ServeAdvance
  <2>2. current' \in Ids /\ 0 \in 0..Length(current')-1
    <3>1. audience.data \in Ids
      BY <1>t, AudienceFields
    <3>2. current' \in Ids
      BY <1>t, <2>1, <3>1, IdFacts
    <3> QED BY <3>2, IdFacts
  <2>3. Datum \in Reply /\ Datum.type = "data"
    BY <1>t, <1>m, <2>1, <2>2 DEF Datum, Reply
  <2>4. request.type = "click"
    BY <1>5 DEF ServeAdvance, Asked, request
  <2> QED BY <1>1, <1>5, <1>2, <1>t, <2>1, <2>2, <2>3, <2>4 DEF request
<1>6. CASE ServeRefusal(p, n)
  <2>1. /\ audience' = audience /\ current' = current /\ evaluatorAt' = evaluatorAt
        /\ Replies(p, n, Error) /\ retired' \in RetiredAfter(request)
        /\ request.type = "click"
    BY <1>6 DEF ServeRefusal, Asked, request
  <2>2. retired' \in SUBSET Verbs
    BY <1>t, <2>1 DEF RetiredAfter, Verbs
  <2>3. Error \in Reply /\ Error.type # "eval"
    BY DEF Error, Reply
  <2> QED BY <1>1, <1>2, <1>6, <1>t, <2>1, <2>2, <2>3 DEF request
<1>7. CASE ServeStale(p, n)
  <2> DEFINE reply == [type |-> "eval", ask |-> request.ask, on |-> None, at |-> 0]
  <2>1. UNCHANGED server /\ Replies(p, n, reply) /\ request.type = "eval"
    BY <1>7 DEF ServeStale, Asked, request
  <2>2. reply \in Reply
    BY <1>3, <2>1 DEF Reply
  <2>3. reply.type = "eval" /\ reply.ask = request.ask /\ reply.on = None
    OBVIOUS
  <2> HIDE DEF reply
  <2> QED BY <1>1, <1>2, <1>7, <1>t, <2>1, <2>2, <2>3 DEF request
<1>8. CASE ServeEval(p, n)
  <2> DEFINE reply == [type |-> "eval", ask |-> request.ask, on |-> current,
                       at |-> evaluatorAt']
  <2>1. /\ audience' = audience /\ current' = current /\ retired' = retired
        /\ request.type = "eval" /\ request.datum = current
        /\ Replies(p, n, reply)
        /\ evaluatorAt' = IF request.move = None THEN evaluatorAt
                          ELSE NormalizeState(Trace[current], request.move)
    BY <1>8 DEF ServeEval, Asked, Stale, request
  <2>2. evaluatorAt' \in 0..Length(current)-1
    BY <1>3, <1>t, <2>1, LandsInTrace
  <2>3. reply \in Reply
    BY <1>3, <1>t, <2>1, <2>2 DEF Reply
  <2>4. /\ reply.type = "eval" /\ reply.ask = request.ask /\ reply.on = request.datum
        /\ reply.on = current /\ reply.at = evaluatorAt'
    BY <2>1
  <2> HIDE DEF reply
  <2> QED BY <1>1, <1>2, <1>8, <1>t, <2>1, <2>2, <2>3, <2>4 DEF request
<1> QED BY <1>4, <1>5, <1>6, <1>7, <1>8 DEF Serve

LEMMA TypesServer ==
  ASSUME TypeOK, NEW p \in Pages, PageInv(p), NEW n \in Sockets, Serve(p, n) \/ HangUp(p, n)
  PROVE  TypeOK'
<1> USE DEF server, wire, screen, page
<1>1. CASE Serve(p, n)
  <2>1. PICK reply \in Reply : Replies(p, n, reply)
    BY <1>1, ServesReply
  <2>2. /\ inbox' \in [Pages -> [Sockets -> Seq(Request)]]
        /\ outbox' \in [Pages -> Seq(Reply)]
    BY <1>1, <2>1, Replying, ServesReply
  <2>3. /\ audience' = audience /\ current' \in Ids
        /\ evaluatorAt' \in 0..Length(current')-1 /\ retired' \in SUBSET Verbs
    BY <1>1, ServesReply
  <2> QED BY <2>1, <2>2, <2>3 DEF Replies, TypeOK
<1>2. CASE HangUp(p, n)
  <2>1. inbox' \in [Pages -> [Sockets -> Seq(Request)]]
    BY <1>2 DEF HangUp, TypeOK
  <2> QED BY <1>2, <2>1 DEF HangUp, TypeOK
<1> QED BY <1>1, <1>2

LEMMA TypesNext ==
  ASSUME TypeOK, \A p \in Pages : PageInv(p), [Next]_vars
  PROVE  TypeOK'
<1>1. ASSUME NEW p \in Pages, PageSteps(p) PROVE TypeOK'
  BY <1>1, TypesSocket, TypesUser, TypesReceive, TypesServer DEF PageSteps
<1>2. CASE UNCHANGED vars
  BY <1>2 DEF vars, server, wire, screen, page, TypeOK
<1> QED BY <1>1, <1>2 DEF Next, PageSteps

-----------------------------------------------------------------------------
(* Every page keeps its line, whoever watches.                             *)

LEMMA WiredNext ==
  ASSUME TypeOK, NEW p \in Pages, PageInv(p), PageSteps(p)
  PROVE  Wired(p)'
<1> USE DEF server, wire, screen, page
<1>t. /\ socket[p] \in 0..MaxSockets /\ audience \in Audiences /\ MaxSockets \in Nat
      /\ connected[p] \in BOOLEAN /\ audience.sockets \in 1..MaxSockets
  BY AudienceFields, AudiencesAssumption DEF TypeOK
<1>w. Wired(p)
  BY DEF PageInv
<1>n. connected[p] => socket[p] \in Sockets
  BY <1>t, <1>w DEF Wired, Sockets
<1>1. CASE Open(p)
  <2>1. /\ socket'[p] = socket[p] + 1 /\ socket'[p] <= audience.sockets
        /\ audience' = audience /\ p \in audience.pages /\ connected'[p] = TRUE
    BY <1>1, <1>t DEF Open, TypeOK
  <2>2. \A n \in Sockets : n > socket'[p] => inbox'[p][n] = inbox[p][n]
    BY <1>1, <1>t, <2>1 DEF Open, TypeOK, Sockets
  <2> QED BY <1>t, <1>w, <2>1, <2>2 DEF Wired, Sockets
<1>2. CASE Drop(p)
  BY <1>2, <1>w DEF Drop, Wired, TypeOK
<1>s. ASSUME audience' = audience, socket' = socket, connected' = connected,
             connected[p] \/ outbox'[p] = outbox[p],
             connected[p] \/ datum'[p] = datum[p],
             \A n \in Sockets : n > socket[p] => inbox'[p][n] = inbox[p][n]
      PROVE  Wired(p)'
  BY <1>s, <1>w DEF Wired
<1>3. CASE User(p)
  <2>1. CASE \E i \in States : Step(p, i)
    BY <2>1, <1>s DEF Step
  <2>2. ASSUME NEW verb \in Verbs, Click(p, verb) PROVE Wired(p)'
    <3>1. \A n \in Sockets : n > socket[p] => inbox'[p][n] = inbox[p][n]
      BY <1>t, <2>2 DEF Click, Sends, TypeOK
    <3> QED BY <2>2, <3>1, <1>s DEF Click
  <2>3. ASSUME NEW move \in audience.typed \cup {None}, Submit(p, move) PROVE Wired(p)'
    <3>1. \A n \in Sockets : n > socket[p] => inbox'[p][n] = inbox[p][n]
      BY <1>t, <2>3 DEF Submit, Sends, TypeOK
    <3> QED BY <2>3, <3>1, <1>s DEF Submit
  <2> QED BY <1>3, <2>1, <2>2, <2>3 DEF User
<1>4. CASE Receive(p)
  <2>1. \A n \in Sockets : n > socket[p] => inbox'[p][n] = inbox[p][n]
    <3>1. ASSUME NEW r, Sends(p, r)
          PROVE  \A n \in Sockets : n > socket[p] => inbox'[p][n] = inbox[p][n]
      BY <3>1, <1>t DEF Sends, TypeOK
    <3>2. CASE ReceiveDatum(p) \/ ReceiveResult(p)
      BY <3>2 DEF ReceiveDatum, ReceiveResult
    <3>3. CASE ReceiveError(p)
      BY <3>1, <3>3 DEF ReceiveError, Refreshes
    <3>4. CASE ReceiveSync(p)
      BY <3>1, <3>4 DEF ReceiveSync
    <3> QED BY <1>4, <3>2, <3>3, <3>4 DEF Receive
  <2>2. Takes(p)
    BY <1>4 DEF Receive, ReceiveDatum, ReceiveError, ReceiveSync, ReceiveResult
  <2> QED BY <2>1, <2>2, <1>s DEF Takes
<1>5. ASSUME NEW n \in Sockets, Serve(p, n) PROVE Wired(p)'
  <2>1. PICK reply \in Reply : Replies(p, n, reply)
    BY <1>5, ServesReply
  <2>2. inbox[p][n] # <<>> /\ audience' = audience
    BY <1>5, ServesReply
  <2>3. n <= socket[p]
    BY <1>w, <1>t, <2>2 DEF Wired, Sockets
  <2>4. \A m \in Sockets : m > socket[p] => inbox'[p][m] = inbox[p][m]
    BY <1>t, <2>1, <2>2, <2>3, Replying DEF Sockets
  <2>5. connected[p] \/ outbox'[p] = outbox[p]
    BY <2>1, <2>2, Replying
  <2> QED BY <2>1, <2>2, <2>4, <2>5, <1>s DEF Replies
<1>6. ASSUME NEW n \in Sockets, HangUp(p, n) PROVE Wired(p)'
  BY <1>6, <1>w DEF HangUp, Wired, TypeOK
<1> QED BY <1>1, <1>2, <1>3, <1>4, <1>5, <1>6 DEF PageSteps

\* What a page was asked about it still has, and the frames under way are as before but
\* for the one that a step takes and the one that it adds.
LEMMA DisplaysNext ==
  ASSUME TypeOK, NEW p \in Pages, PageInv(p), PageSteps(p)
  PROVE  Displays(p)'
<1> USE DEF server, wire, screen, page
<1>d. Displays(p) /\ Wired(p)
  BY DEF PageInv
<1> DEFINE Screen == IF datum[p] = None THEN asks[p] = <<>> ELSE step[p] < Length(datum[p])
           Named(frames, n) == \A i \in DOMAIN frames :
                                 frames[i].type = "eval" => frames[i].ask \in 1..n
<1>a. /\ asks[p] \in Seq(Ask) /\ Len(asks[p]) \in Nat /\ DOMAIN asks[p] = 1..Len(asks[p])
      /\ \A n \in Sockets : inbox[p][n] \in Seq(Request)
      /\ outbox[p] \in Seq(Reply)
  BY DEF TypeOK
<1>b. Screen /\ Named(outbox[p], Len(asks[p])) /\ \A n \in Sockets : Named(inbox[p][n], Len(asks[p]))
  BY <1>a, <1>d DEF Displays
<1>c. ASSUME Screen', Named(outbox'[p], Len(asks'[p])), asks'[p] \in Seq(Ask),
             \A n \in Sockets : Named(inbox'[p][n], Len(asks'[p]))
      PROVE  Displays(p)'
  BY <1>c DEF Displays
<1>k. ASSUME NEW frames, NEW n \in Nat, NEW m \in Nat, n <= m, Named(frames, n)
      PROVE  Named(frames, m)
  BY <1>k
<1>e. ASSUME NEW S, NEW frames \in Seq(S), NEW n \in Nat, Named(frames, n), NEW r \in S,
             r.type = "eval" => r.ask \in 1..n
      PROVE  Named(Append(frames, r), n)
  BY <1>e, NewFrame
<1>f. ASSUME NEW S, NEW frames \in Seq(S), NEW n \in Nat, frames # <<>>, Named(frames, n)
      PROVE  Named(Tail(frames), n) /\ (Head(frames).type = "eval" => Head(frames).ask \in 1..n)
  BY <1>f, OneFrame
<1>g. \A n \in Nat : Named(<<>>, n)
  OBVIOUS
<1> HIDE DEF Named
<1>t. connected[p] => socket[p] \in Sockets
  BY <1>d, AudiencesAssumption DEF TypeOK, Wired, Sockets
<1>s. ASSUME NEW r \in Request, Sends(p, r), connected[p],
             Len(asks'[p]) \in Nat, Len(asks[p]) <= Len(asks'[p]),
             r.type = "eval" => r.ask \in 1..Len(asks'[p])
      PROVE  \A n \in Sockets : Named(inbox'[p][n], Len(asks'[p]))
  <2>1. \A n \in Sockets : Named(inbox[p][n], Len(asks'[p]))
    BY <1>a, <1>b, <1>k, <1>s
  <2>2. Named(Append(inbox[p][socket[p]], r), Len(asks'[p]))
    BY <1>a, <1>e, <1>s, <1>t, <2>1
  <2> QED BY <1>d, <1>s, <2>1, <2>2, Sending
<1>1. CASE Open(p)
  <2>1. socket[p] + 1 \in Sockets
    BY <1>1, AudienceFields, AudiencesAssumption DEF TypeOK, Open, Sockets
  <2>2. Named(<<DataRequest>>, Len(asks[p]))
    BY DEF Named, DataRequest
  <2>3. \A n \in Sockets : Named(inbox'[p][n], Len(asks[p]))
    BY <1>1, <1>b, <2>1, <2>2 DEF Open, TypeOK
  <2> QED BY <1>1, <1>a, <1>b, <1>c, <2>3 DEF Open
<1>2. CASE Drop(p)
  <2>1. asks'[p] \in Seq(Ask) /\ TypeOK'
    BY <1>2, TypesSocket DEF TypeOK
  <2>2. Len(asks'[p]) = Len(asks[p]) /\ (asks[p] = <<>> => asks'[p] = <<>>)
    <3>1. DOMAIN asks'[p] = DOMAIN asks[p]
      BY <1>2 DEF Drop, TypeOK
    <3>2. Len(asks'[p]) \in Nat /\ DOMAIN asks'[p] = 1..Len(asks'[p])
      BY <2>1
    <3>3. Len(asks'[p]) = Len(asks[p])
      BY <1>a, <3>1, <3>2
    <3> QED BY <1>a, <2>1, <3>3
  <2>3. outbox'[p] = <<>>
    BY <1>2 DEF Drop, TypeOK
  <2>4. Screen'
    BY <1>2, <1>b, <2>2 DEF Drop
  <2> QED BY <1>2, <1>a, <1>b, <1>c, <1>g, <2>1, <2>2, <2>3, <2>4 DEF Drop
<1>3. ASSUME NEW i \in States, Step(p, i) PROVE Displays(p)'
  <2>1. Screen'
    <3>1. datum[p] \in Ids /\ datum'[p] = datum[p] /\ i \in 0..Length(datum[p])-1 /\ step'[p] = i
      BY <1>3 DEF Step, MayAct, TypeOK
    <3>2. Length(datum[p]) \in Nat \ {0} /\ datum[p] # None
      BY <3>1, IdFacts
    <3> QED BY <3>1, <3>2
  <2> QED BY <1>3, <1>a, <1>b, <1>c, <2>1 DEF Step
<1>4. ASSUME NEW verb \in Verbs, Click(p, verb) PROVE Displays(p)'
  <2> DEFINE r == [type |-> "click", verb |-> verb, from |-> datum[p],
                   state |-> IF verb = "new-fork" THEN step[p] ELSE None]
  <2>1. r \in Request /\ r.type # "eval"
    BY <1>4 DEF Click, MayAct, TypeOK, Request
  <2>2. Sends(p, r) /\ connected[p]
    BY <1>4 DEF Click
  <2> HIDE DEF r
  <2>3. \A n \in Sockets : Named(inbox'[p][n], Len(asks'[p]))
    <3>1. Len(asks'[p]) = Len(asks[p])
      BY <1>4 DEF Click
    <3> QED BY <1>a, <1>s, <2>1, <2>2, <3>1
  <2> QED BY <1>4, <1>a, <1>b, <1>c, <2>3 DEF Click
<1>5. ASSUME NEW move \in audience.typed \cup {None}, Submit(p, move) PROVE Displays(p)'
  <2>1. move \in Int \cup {None} /\ datum[p] # None /\ step[p] \in Int
    BY <1>5, AudienceFields DEF Submit, MayAct, TypeOK
  <2> DEFINE a == Len(asks[p]) + 1
             syncs == move = None /\ NeedsSync(p)
             sent == IF syncs THEN step[p] ELSE move
  <2>2. PICK stage \in {"syncing", "asked", "failed"} :
          asks' = [asks EXCEPT ![p] = Append(@, NewAsk(p, move, stage))]
    BY <1>5 DEF Submit
  <2>3. NewAsk(p, move, stage) \in Ask
    BY <2>1, AsksType
  <2>4. asks'[p] = Append(asks[p], NewAsk(p, move, stage))
    BY <2>2 DEF TypeOK
  <2>5. Len(asks'[p]) = a /\ asks'[p] \in Seq(Ask) /\ a \in Nat
    BY <1>a, <2>3, <2>4, NewFrame
  <2>6. Named(outbox[p], a) /\ \A n \in Sockets : Named(inbox[p][n], a)
    BY <1>a, <1>b, <1>k
  <2>7. CASE connected[p]
    <3>1. Evaluation(p, a, sent) \in Request /\ Evaluation(p, a, sent).ask = a
      BY <2>1, <2>5, EvaluationType DEF Evaluation
    <3>2. Sends(p, Evaluation(p, a, sent))
      BY <1>5, <2>7 DEF Submit
    <3> HIDE DEF a, sent, syncs
    <3>3. \A n \in Sockets : Named(inbox'[p][n], a)
      <4>1. Len(asks[p]) <= Len(asks'[p]) /\ a \in 1..Len(asks'[p]) /\ Len(asks'[p]) \in Nat
        BY <1>a, <2>5 DEF a
      <4> QED BY <1>s, <2>5, <2>7, <3>1, <3>2, <4>1
    <3> QED BY <1>5, <1>b, <1>c, <2>1, <2>5, <2>6, <3>3 DEF Submit
  <2>8. CASE ~connected[p]
    BY <1>5, <1>b, <1>c, <2>1, <2>5, <2>6, <2>8 DEF Submit
  <2> QED BY <2>7, <2>8 DEF TypeOK
<1>6. CASE Receive(p)
  <2> DEFINE reply == Head(outbox[p])
  <2>t. Takes(p) /\ connected[p]
    BY <1>6 DEF Receive, ReceiveDatum, ReceiveError, ReceiveSync, ReceiveResult, Takes
  <2>o. Named(outbox'[p], Len(asks[p])) /\ (reply.type = "eval" => reply.ask \in 1..Len(asks[p]))
    BY <1>a, <1>b, <1>f, <2>t, Taking DEF Takes
  <2>r. reply \in Reply
    BY <2>t, Taking
  <2>y. TypeOK'
    BY <1>6, TypesReceive
  <2>1. CASE ReceiveDatum(p)
    <3>1. /\ datum'[p] = reply.datum /\ reply.datum \in Ids
          /\ step'[p] = IF datum[p] = reply.datum THEN step[p] ELSE 0
      BY <2>1, <2>r, ReplyFields DEF ReceiveDatum, ShowDatum, TypeOK
    <3>2. Screen'
      <4>1. reply.datum # None /\ Length(reply.datum) \in Nat \ {0}
        BY <3>1, IdFacts
      <4> QED BY <1>b, <3>1, <4>1
    <3> QED BY <2>1, <1>a, <1>b, <1>c, <2>o, <3>2 DEF ReceiveDatum
  <2>2. CASE ReceiveError(p)
    <3>1. \A n \in Sockets : Named(inbox'[p][n], Len(asks'[p]))
      <4>0. asks' = asks
        BY <2>2 DEF ReceiveError
      <4>1. CASE Sends(p, DataRequest)
        <5>1. DataRequest \in Request /\ DataRequest.type # "eval"
          BY DEF DataRequest, Request
        <5> QED BY <1>a, <1>s, <2>t, <4>0, <4>1, <5>1
      <4>2. CASE UNCHANGED inbox
        BY <1>b, <4>0, <4>2
      <4> QED BY <2>2, <4>1, <4>2 DEF ReceiveError, Refreshes
    <3> QED BY <2>2, <1>a, <1>b, <1>c, <2>o, <3>1 DEF ReceiveError
  <2>3. CASE ReceiveSync(p)
    <3>1. reply.type = "eval" /\ datum[p] \in Ids /\ reply.ask \in Nat
      BY <2>3, <2>t, <2>r, AnswersAnAsk, ReplyFields DEF ReceiveSync
    <3>2. /\ Evaluation(p, reply.ask, None) \in Request
          /\ Evaluation(p, reply.ask, None).ask = reply.ask
      BY <3>1, IdFacts, EvaluationType DEF Evaluation
    <3>3. Sends(p, Evaluation(p, reply.ask, None))
      BY <2>3 DEF ReceiveSync
    <3>5. DOMAIN asks'[p] = DOMAIN asks[p] /\ asks'[p] \in Seq(Ask)
      BY <2>3, <2>y DEF ReceiveSync, TypeOK
    <3>6. Len(asks'[p]) = Len(asks[p])
      BY <1>a, <3>5
    <3>4. \A n \in Sockets : Named(inbox'[p][n], Len(asks'[p]))
      <4>1. reply.ask \in 1..Len(asks'[p])
        BY <2>o, <3>1, <3>6
      <4> QED BY <1>a, <1>s, <2>t, <3>2, <3>3, <3>6, <4>1
    <3>7. datum'[p] # None /\ step'[p] < Length(datum'[p])
      BY <2>3, <1>b, <3>1, IdFacts DEF ReceiveSync
    <3> QED BY <1>c, <2>o, <3>4, <3>5, <3>6, <3>7
  <2>4. CASE ReceiveResult(p)
    <3> DEFINE move == asks[p][reply.ask].move
               lands == NormalizeState(Trace[datum[p]], move)
    <3>1. reply.type = "eval" /\ datum[p] \in Ids /\ asks[p][reply.ask] \in Ask
      BY <2>4, <2>t, AnswersAnAsk DEF ReceiveResult
    <3>2. move # None => lands < Length(datum[p])
      <4>1. move \in Int \cup {None}
        BY <3>1 DEF Ask
      <4>2. Length(datum[p]) \in Nat \ {0}
        BY <3>1, IdFacts
      <4>3. move \in Int => lands \in 0..Length(datum[p])-1
        BY <3>1, LandsInTrace
      <4> QED BY <4>1, <4>2, <4>3
    <3> HIDE DEF lands, move
    <3>3. step'[p] = IF move = None THEN step[p] ELSE lands
      BY <2>4 DEF ReceiveResult, move, lands, TypeOK
    <3>4. datum'[p] # None /\ step'[p] < Length(datum'[p])
      BY <2>4, <1>b, <3>1, <3>2, <3>3, IdFacts DEF ReceiveResult
    <3>5. DOMAIN asks'[p] = DOMAIN asks[p] /\ asks'[p] \in Seq(Ask)
      BY <2>4, <2>y DEF ReceiveResult, TypeOK
    <3>6. Len(asks'[p]) = Len(asks[p])
      BY <1>a, <3>5
    <3> QED BY <2>4, <1>b, <1>c, <2>o, <3>4, <3>5, <3>6 DEF ReceiveResult
  <2> QED BY <1>6, <2>1, <2>2, <2>3, <2>4 DEF Receive
<1>7. ASSUME NEW n \in Sockets, Serve(p, n) PROVE Displays(p)'
  <2>1. PICK reply \in Reply :
          /\ Replies(p, n, reply)
          /\ reply.type = "eval" => /\ Head(inbox[p][n]).type = "eval"
                                    /\ reply.ask = Head(inbox[p][n]).ask
    BY <1>7, ServesReply
  <2>2. inbox[p][n] # <<>>
    BY <1>7, ServesReply
  <2>3. /\ Named(Tail(inbox[p][n]), Len(asks[p]))
        /\ reply.type = "eval" => reply.ask \in 1..Len(asks[p])
    BY <1>a, <1>b, <1>f, <2>1, <2>2
  <2>4. Named(outbox'[p], Len(asks[p]))
    <3>1. Named(Append(outbox[p], reply), Len(asks[p]))
      BY <1>a, <1>b, <1>e, <2>3
    <3> QED BY <1>b, <2>1, <2>2, <3>1, Replying
  <2>5. \A m \in Sockets : Named(inbox'[p][m], Len(asks[p]))
    BY <1>b, <2>1, <2>2, <2>3, Replying
  <2> QED BY <1>a, <1>b, <1>c, <2>1, <2>4, <2>5 DEF Replies
<1>8. ASSUME NEW n \in Sockets, HangUp(p, n) PROVE Displays(p)'
  <2>1. \A m \in Sockets : Named(inbox'[p][m], Len(asks[p]))
    BY <1>8, <1>b, <1>g, <1>a DEF HangUp, TypeOK
  <2> QED BY <1>8, <1>a, <1>b, <1>c, <2>1 DEF HangUp
<1> QED BY <1>1, <1>2, <1>3, <1>4, <1>5, <1>6, <1>7, <1>8 DEF PageSteps, User

-----------------------------------------------------------------------------
(* For a user who waits, one frame is under way at most.                   *)

\* The three ways the line can be: without a question, with a question that is on its
\* way to the server, and with its answer on its way back.
NoneAsked(p) == \A a \in DOMAIN asks[p] : ~Pending(asks[p][a])
OnlyAsked(p, b) == /\ b \in DOMAIN asks[p]
                   /\ Holds(p, b)
                   /\ \A a \in DOMAIN asks[p] : a # b => ~Pending(asks[p][a])

Idle(p) ==
  /\ Sent(p) = <<>> \/ outbox[p] = <<>>
  /\ Len(Sent(p)) <= 1 /\ Len(outbox[p]) <= 1
  /\ ~First(Sent(p), "eval") /\ ~First(outbox[p], "eval")
  /\ NoneAsked(p)

Asking(p) ==
  /\ outbox[p] = <<>> /\ First(Sent(p), "eval") /\ Len(Sent(p)) <= 1
  /\ OnlyAsked(p, Head(Sent(p)).ask)
  /\ Head(Sent(p)).datum = datum[p]

Answering(p) ==
  /\ Sent(p) = <<>> /\ First(outbox[p], "eval") /\ Len(outbox[p]) <= 1
  /\ OnlyAsked(p, Head(outbox[p]).ask)
  /\ Head(outbox[p]).on \in {None, datum[p]}

LEMMA LineIs ==
  ASSUME TypeOK, NEW p \in Pages, Wired(p), Displays(p)
  PROVE  OneAtATime(p) <=> Idle(p) \/ Asking(p) \/ Answering(p)
<1>1. connected[p] => socket[p] \in Sockets
  BY AudiencesAssumption DEF TypeOK, Wired, Sockets
<1>2. Sent(p) \in Seq(Request) /\ outbox[p] \in Seq(Reply) /\ asks[p] \in Seq(Ask)
  BY <1>1 DEF TypeOK, Sent
<1>3. First(Sent(p), "eval") => Head(Sent(p)).ask \in DOMAIN asks[p]
  BY <1>1, <1>2, OneFrame DEF Displays, First, Sent
<1>4. First(outbox[p], "eval") => Head(outbox[p]).ask \in DOMAIN asks[p]
  BY <1>2, OneFrame DEF Displays, First
<1>5. Len(<<>>) <= 1
  OBVIOUS
<1>6. ASSUME OneAtATime(p) PROVE Idle(p) \/ Asking(p) \/ Answering(p)
  <2>1. CASE First(Sent(p), "eval")
    BY <1>3, <1>6, <2>1 DEF OneAtATime, Asking, OnlyAsked, First
  <2>2. CASE First(outbox[p], "eval")
    BY <1>4, <1>6, <2>2 DEF OneAtATime, Answering, OnlyAsked, First
  <2>3. CASE ~First(Sent(p), "eval") /\ ~First(outbox[p], "eval")
    BY <1>6, <2>3 DEF OneAtATime, Idle, NoneAsked
  <2> QED BY <2>1, <2>2, <2>3
<1>7. Idle(p) => OneAtATime(p)
  BY DEF OneAtATime, Idle, NoneAsked
<1>8. Asking(p) => OneAtATime(p)
  BY <1>5 DEF OneAtATime, Asking, OnlyAsked, First
<1>9. Answering(p) => OneAtATime(p)
  BY <1>5 DEF OneAtATime, Answering, OnlyAsked, First
<1> QED BY <1>6, <1>7, <1>8, <1>9

LineShapes ==
  TypeOK => \A p \in Pages : Wired(p) /\ Displays(p) =>
              (OneAtATime(p) <=> Idle(p) \/ Asking(p) \/ Answering(p))

LEMMA LineIsShaped == LineShapes
  BY LineIs DEF LineShapes

\* What is not for the open socket leaves the line as it is.
LEMMA LineStays ==
  ASSUME NEW p \in Pages, Sent(p)' = Sent(p), outbox'[p] = outbox[p], datum'[p] = datum[p],
         asks'[p] = asks[p]
  PROVE  /\ Idle(p) => Idle(p)'
         /\ Asking(p) => Asking(p)'
         /\ Answering(p) => Answering(p)'
  BY DEF Idle, Asking, Answering, First, NoneAsked, OnlyAsked, Holds, Pending

LineSteps(p) == (Idle(p) \/ Asking(p) \/ Answering(p))'

LEMMA LineSocket ==
  ASSUME TypeOK, NEW p \in Pages, Wired(p), Idle(p) \/ Asking(p) \/ Answering(p),
         Open(p) \/ Drop(p)
  PROVE  Idle(p)'
<1> USE DEF server, wire, screen, page
<1>1. CASE Open(p)
  <2>1. socket[p] + 1 \in Sockets
    BY <1>1, AudienceFields, AudiencesAssumption DEF TypeOK, Open, Sockets
  <2>2. Sent(p) = <<>> /\ outbox[p] = <<>> /\ outbox' = outbox
    BY <1>1 DEF Open, Sent, Wired
  <2>3. NoneAsked(p)
    BY <2>2 DEF Idle, Asking, Answering, First
  <2>4. Sent(p)' = <<DataRequest>>
    BY <1>1, <2>1 DEF Open, Sent, TypeOK
  <2>5. NoneAsked(p)'
    BY <1>1, <2>3 DEF Open, NoneAsked, Pending
  <2>6. /\ <<DataRequest>> # <<>> /\ Head(<<DataRequest>>) = DataRequest
        /\ DataRequest.type # "eval" /\ Len(<<DataRequest>>) = 1 /\ Len(<<>>) = 0
    BY DEF DataRequest
  <2> QED BY <2>2, <2>4, <2>5, <2>6 DEF Idle, First
<1>2. CASE Drop(p)
  <2>1. Sent(p)' = <<>> /\ outbox'[p] = <<>>
    BY <1>2 DEF Drop, Sent, TypeOK
  <2>2. ASSUME NEW a \in DOMAIN asks'[p] PROVE ~Pending(asks'[p][a])
    <3>1. asks[p] \in Seq(Ask) /\ a \in DOMAIN asks[p]
      BY <1>2 DEF Drop, TypeOK
    <3>2. asks[p][a] \in Ask
      BY <3>1
    <3>3. asks'[p][a] = IF Pending(asks[p][a]) THEN [asks[p][a] EXCEPT !.stage = "failed"]
                                              ELSE asks[p][a]
      BY <1>2, <3>1 DEF Drop, TypeOK
    <3> QED BY <3>2, <3>3 DEF Pending, Ask
  <2> QED BY <2>1, <2>2 DEF Idle, First, NoneAsked
<1> QED BY <1>1, <1>2

LEMMA LineUser ==
  ASSUME TypeOK, NEW p \in Pages, Wired(p), Idle(p) \/ Asking(p) \/ Answering(p),
         audience.patient, User(p)
  PROVE  LineSteps(p)
<1> USE DEF server, wire, screen, page, LineSteps
<1>1. /\ connected[p] /\ Sent(p) = <<>> /\ outbox[p] = <<>> /\ datum[p] # None
      /\ socket[p] \in Sockets
  <2>1. MayAct(p)
    BY DEF User, Step, Click, Submit
  <2>2. /\ connected[p] /\ Sent(p) = <<>> /\ outbox[p] = <<>> /\ datum[p] # None
    BY <2>1 DEF MayAct, Settled, Sent
  <2> QED BY <2>2, AudiencesAssumption DEF Wired, TypeOK, Sockets
<1>2. NoneAsked(p)
  BY <1>1 DEF Idle, Asking, Answering, First
<1>e. Len(<<>>) = 0
  OBVIOUS
<1>s. ASSUME NEW r \in Request, Sends(p, r), UNCHANGED <<socket, connected>>
      PROVE  Sent(p)' # <<>> /\ Head(Sent(p)') = r /\ Len(Sent(p)') = 1
  <2>1. Sent(p)' = Append(Sent(p), r)
    BY <1>1, <1>s, Sending DEF Sent
  <2>2. <<>> \in Seq(Request)
    OBVIOUS
  <2> QED BY <1>1, <1>e, <2>1, <2>2, NewFrame
<1>3. ASSUME NEW i \in States, Step(p, i) PROVE LineSteps(p)
  BY <1>3, LineStays DEF Step, Sent
<1>4. ASSUME NEW verb \in Verbs, Click(p, verb) PROVE LineSteps(p)
  <2> DEFINE r == [type |-> "click", verb |-> verb, from |-> datum[p],
                   state |-> IF verb = "new-fork" THEN step[p] ELSE None]
  <2>1. r \in Request /\ r.type # "eval"
    BY <1>4 DEF Click, MayAct, TypeOK, Request
  <2>2. Sends(p, r) /\ UNCHANGED <<socket, connected, outbox, asks>>
    BY <1>4 DEF Click
  <2> HIDE DEF r
  <2>3. Sent(p)' # <<>> /\ Head(Sent(p)') = r /\ Len(Sent(p)') = 1
    BY <1>s, <2>1, <2>2
  <2>4. NoneAsked(p)'
    BY <1>2, <2>2 DEF NoneAsked, Pending
  <2> QED BY <1>1, <1>e, <2>1, <2>2, <2>3, <2>4 DEF Idle, First
<1>5. ASSUME NEW move \in audience.typed \cup {None}, Submit(p, move) PROVE LineSteps(p)
  <2> DEFINE a == Len(asks[p]) + 1
             syncs == move = None /\ NeedsSync(p)
             stage == IF syncs THEN "syncing" ELSE "asked"
             sent == IF syncs THEN step[p] ELSE move
             ask == NewAsk(p, move, stage)
             request == Evaluation(p, a, sent)
  <2>1. move \in Int \cup {None} /\ step[p] \in Int /\ asks[p] \in Seq(Ask) /\ a \in Nat
    BY <1>5, AudienceFields DEF TypeOK
  <2>2. ask \in Ask
    BY <1>1, <2>1, AsksType
  <2>3. request \in Request
    BY <1>1, <2>1, EvaluationType
  <2>4. request.type = "eval" /\ request.ask = a /\ request.datum = datum[p]
    BY DEF Evaluation
  <2>5. Pending(ask) /\ ask.shownOn = datum[p]
    BY DEF Pending, NewAsk
  <2> HIDE DEF stage, syncs, sent, a
  <2>6. asks' = [asks EXCEPT ![p] = Append(@, ask)] /\ Sends(p, request)
    BY <1>1, <1>5 DEF Submit, stage, syncs, sent, a
  <2>7. UNCHANGED <<socket, connected, outbox, datum>>
    BY <1>5 DEF Submit
  <2> HIDE DEF ask, request
  <2>8. Sent(p)' # <<>> /\ Head(Sent(p)') = request /\ Len(Sent(p)') = 1
    BY <1>s, <2>3, <2>6, <2>7
  <2>9. asks'[p] = Append(asks[p], ask)
    BY <2>6 DEF TypeOK
  <2>10. /\ a \in DOMAIN asks'[p] /\ asks'[p][a] = ask
         /\ \A b \in DOMAIN asks'[p] : b # a => b \in DOMAIN asks[p] /\ asks'[p][b] = asks[p][b]
    BY <2>1, <2>2, <2>9, NewFrame DEF a
  <2>11. Pending(asks'[p][a]) /\ asks'[p][a].shownOn = datum'[p]
    BY <2>5, <2>7, <2>10
  <2>12. \A b \in DOMAIN asks'[p] : b # a => ~Pending(asks'[p][b])
    BY <1>2, <2>10 DEF NoneAsked
  <2>13. OnlyAsked(p, Head(Sent(p)).ask)'
    BY <2>4, <2>8, <2>10, <2>11, <2>12 DEF OnlyAsked, Holds, Pending
  <2> QED BY <1>1, <1>e, <2>4, <2>7, <2>8, <2>13 DEF Asking, First
<1> QED BY <1>3, <1>4, <1>5 DEF User

LEMMA LineReceive ==
  ASSUME TypeOK, NEW p \in Pages, PageInv(p), Idle(p) \/ Asking(p) \/ Answering(p), Receive(p)
  PROVE  LineSteps(p)
<1> USE DEF server, wire, screen, page, LineSteps
<1> DEFINE reply == Head(outbox[p])
<1>w. Wired(p)
  BY DEF PageInv
<1>t. Takes(p) /\ connected[p] /\ outbox[p] # <<>> /\ UNCHANGED <<socket, connected>>
  BY DEF Receive, ReceiveDatum, ReceiveError, ReceiveSync, ReceiveResult, Takes
<1>s. socket[p] \in Sockets
  BY <1>t, <1>w, AudiencesAssumption DEF TypeOK, Wired, Sockets
<1>o. /\ Sent(p) = <<>> /\ outbox'[p] = <<>>
      /\ reply.type = "eval" => /\ OnlyAsked(p, reply.ask)
                                /\ reply.on \in {None, datum[p]}
      /\ reply.type # "eval" => NoneAsked(p)
  <2>1. Len(outbox[p]) <= 1 /\ outbox[p] \in Seq(Reply)
    BY <1>t DEF Idle, Asking, Answering, TypeOK
  <2>2. outbox'[p] = <<>>
    BY <1>t, <2>1, OneFrame, Taking
  <2> QED BY <1>t, <2>2 DEF Idle, Asking, Answering, First
<1>e. Len(<<>>) = 0
  OBVIOUS
<1>q. inbox' = inbox => Sent(p)' = <<>>
  BY <1>t, <1>o DEF Sent
<1>r. ASSUME NEW r \in Request, Sends(p, r)
      PROVE  Sent(p)' # <<>> /\ Head(Sent(p)') = r /\ Len(Sent(p)') = 1
  <2>1. Sent(p)' = Append(Sent(p), r)
    BY <1>r, <1>t, <1>w, Sending DEF Sent
  <2>2. <<>> \in Seq(Request)
    OBVIOUS
  <2> QED BY <1>o, <1>e, <2>1, <2>2, NewFrame
<1>1. CASE ReceiveDatum(p)
  <2>1. NoneAsked(p)' /\ Sent(p)' = <<>>
    BY <1>1, <1>o, <1>q DEF ReceiveDatum, NoneAsked, Pending
  <2> QED BY <1>o, <1>e, <2>1 DEF Idle, First
<1>2. CASE ReceiveError(p)
  <2>1. NoneAsked(p)'
    BY <1>2, <1>o DEF ReceiveError, NoneAsked, Pending
  <2>2. CASE Sends(p, DataRequest)
    <3>1. DataRequest \in Request /\ DataRequest.type # "eval"
      BY DEF DataRequest, Request
    <3>2. Sent(p)' # <<>> /\ Head(Sent(p)') = DataRequest /\ Len(Sent(p)') = 1
      BY <1>r, <2>2, <3>1
    <3> QED BY <1>o, <1>e, <2>1, <3>1, <3>2 DEF Idle, First
  <2>3. CASE inbox' = inbox
    BY <1>o, <1>e, <1>q, <2>1, <2>3 DEF Idle, First
  <2> QED BY <1>2, <2>2, <2>3 DEF ReceiveError, Refreshes
<1>3. CASE ReceiveSync(p)
  <2>1. /\ reply.type = "eval" /\ datum[p] \in Ids /\ datum[p] # None /\ reply.ask \in Nat
        /\ asks[p] \in Seq(Ask) /\ reply.ask \in DOMAIN asks[p]
    BY <1>3, <1>t, Taking, AnswersAnAsk, ReplyFields, IdFacts DEF ReceiveSync, TypeOK
  <2> DEFINE request == Evaluation(p, reply.ask, None)
  <2>2. request \in Request
    BY <2>1, EvaluationType
  <2>3. request.type = "eval" /\ request.ask = reply.ask /\ request.datum = datum[p]
    BY DEF Evaluation
  <2>4. Sends(p, request) /\ datum' = datum
    BY <1>3 DEF ReceiveSync
  <2> HIDE DEF request
  <2>5. Sent(p)' # <<>> /\ Head(Sent(p)') = request /\ Len(Sent(p)') = 1
    BY <1>r, <2>2, <2>4
  <2>6. /\ DOMAIN asks'[p] = DOMAIN asks[p]
        /\ asks'[p][reply.ask].stage = "asked"
        /\ asks'[p][reply.ask].shownOn = asks[p][reply.ask].shownOn
        /\ \A a \in DOMAIN asks[p] : a # reply.ask => asks'[p][a] = asks[p][a]
    <3>1. asks' = [asks EXCEPT ![p][reply.ask].stage = "asked"]
      BY <1>3 DEF ReceiveSync
    <3>2. asks[p][reply.ask] \in Ask
      BY <2>1
    <3> QED BY <2>1, <3>1, <3>2 DEF TypeOK, Ask
  <2>7. OnlyAsked(p, Head(Sent(p)).ask)'
    BY <1>o, <2>1, <2>3, <2>4, <2>5, <2>6 DEF OnlyAsked, Holds, Pending
  <2> QED BY <1>o, <1>e, <2>3, <2>4, <2>5, <2>7 DEF Asking, First
<1>4. CASE ReceiveResult(p)
  <2> DEFINE now == [asks[p][reply.ask] EXCEPT !.stage = "settled", !.on = reply.on,
                                               !.at = reply.at]
  <2>1. reply.type = "eval" /\ asks[p] \in Seq(Ask) /\ reply.ask \in DOMAIN asks[p]
        /\ asks[p][reply.ask] \in Ask
    BY <1>4, <1>t, AnswersAnAsk DEF ReceiveResult, TypeOK
  <2>2. ~Pending(now)
    BY <2>1 DEF Pending, Ask
  <2>3. asks' = [asks EXCEPT ![p] = [asks[p] EXCEPT ![reply.ask] = now]]
    BY <1>4, Settles
  <2> HIDE DEF now
  <2>4. DOMAIN asks'[p] = DOMAIN asks[p]
        /\ \A a \in DOMAIN asks[p] : asks'[p][a] = IF a = reply.ask THEN now ELSE asks[p][a]
    BY <2>1, <2>3 DEF TypeOK
  <2>5. NoneAsked(p)'
    BY <1>o, <2>1, <2>2, <2>4 DEF NoneAsked, OnlyAsked, Pending
  <2>6. Sent(p)' = <<>>
    BY <1>4, <1>q DEF ReceiveResult
  <2> QED BY <1>o, <1>e, <2>5, <2>6 DEF Idle, First
<1> QED BY <1>1, <1>2, <1>3, <1>4 DEF Receive

LEMMA LineServer ==
  ASSUME TypeOK, NEW p \in Pages, PageInv(p), Idle(p) \/ Asking(p) \/ Answering(p),
         NEW n \in Sockets, Serve(p, n) \/ HangUp(p, n)
  PROVE  LineSteps(p)
<1> USE DEF server, wire, screen, page, LineSteps
<1>w. Wired(p) /\ socket[p] \in 0..MaxSockets /\ MaxSockets \in Nat
  BY AudiencesAssumption DEF PageInv, TypeOK
<1>s. connected[p] => socket[p] \in Sockets
  BY <1>w DEF Wired, Sockets
<1>e. Len(<<>>) = 0
  OBVIOUS
<1>1. CASE Serve(p, n)
  <2> DEFINE request == Head(inbox[p][n])
  <2>1. PICK reply \in Reply :
          /\ Replies(p, n, reply)
          /\ reply.type = "eval" <=> request.type = "eval"
          /\ reply.type = "eval" => reply.ask = request.ask /\ reply.on \in {None, request.datum}
    BY <1>1, ServesReply
  <2>2. inbox[p][n] # <<>>
    BY <1>1, ServesReply
  <2>3. UNCHANGED <<socket, connected, datum, asks>>
    BY <2>1 DEF Replies
  <2>4. CASE n = socket[p] /\ connected[p]
    <3>1. Sent(p) = inbox[p][n] /\ Sent(p) # <<>> /\ Sent(p) \in Seq(Request)
      BY <1>s, <2>2, <2>4 DEF Sent, TypeOK
    <3>2. outbox[p] = <<>> /\ Len(Sent(p)) <= 1
      BY <3>1 DEF Idle, Asking, Answering
    <3>0. /\ inbox'[p][n] = Tail(inbox[p][n])
          /\ outbox'[p] = IF n = socket[p] /\ connected[p]
                          THEN Append(outbox[p], reply) ELSE outbox[p]
      BY <2>1, <2>2, Replying
    <3>3. Sent(p)' = <<>>
      <4>1. Tail(Sent(p)) = <<>>
        BY <3>1, <3>2, OneFrame
      <4> QED BY <2>3, <2>4, <3>0, <3>1, <4>1 DEF Sent
    <3>4. outbox'[p] = Append(<<>>, reply)
      BY <2>4, <3>0, <3>2
    <3>5. outbox'[p] # <<>> /\ Head(outbox'[p]) = reply /\ Len(outbox'[p]) = 1
      <4>1. <<>> \in Seq(Reply)
        OBVIOUS
      <4> QED BY <1>e, <3>4, <4>1, NewFrame
    <3>6. CASE reply.type = "eval"
      <4>1. OnlyAsked(p, reply.ask) /\ request.datum = datum[p]
        BY <2>1, <3>1, <3>6 DEF Idle, Asking, Answering, First
      <4>2. OnlyAsked(p, Head(outbox[p]).ask)'
        BY <2>3, <3>5, <4>1 DEF OnlyAsked, Holds, Pending
      <4> QED BY <1>e, <2>1, <2>3, <3>3, <3>5, <3>6, <4>1, <4>2 DEF Answering, First
    <3>7. CASE reply.type # "eval"
      <4>1. NoneAsked(p)
        BY <2>1, <3>1, <3>7 DEF Idle, Asking, Answering, First
      <4>2. NoneAsked(p)'
        BY <2>3, <4>1 DEF NoneAsked, Pending
      <4> QED BY <1>e, <3>3, <3>5, <3>7, <4>2 DEF Idle, First
    <3> QED BY <3>6, <3>7
  <2>5. CASE ~(n = socket[p] /\ connected[p])
    <3>1. Sent(p)' = Sent(p) /\ outbox'[p] = outbox[p]
      BY <1>s, <2>1, <2>2, <2>3, <2>5, Replying DEF Sent
    <3> QED BY <2>3, <3>1, LineStays
  <2> QED BY <2>4, <2>5
<1>2. CASE HangUp(p, n)
  <2>1. connected[p] => n # socket[p]
    BY <1>2, <1>w DEF HangUp, Sockets
  <2>2. Sent(p)' = Sent(p)
    BY <1>2, <1>s, <2>1 DEF HangUp, Sent, TypeOK
  <2> QED BY <1>2, <2>2, LineStays DEF HangUp
<1> QED BY <1>1, <1>2

\* Only a result settles a question, and it is about the datum that was shown.
LEMMA AnswersStayRight ==
  ASSUME TypeOK, NEW p \in Pages, PageInv(p), RightAnswers(p),
         Idle(p) \/ Asking(p) \/ Answering(p), PageSteps(p)
  PROVE  RightAnswers(p)'
<1> USE DEF server, wire, screen, page
<1>t. asks[p] \in Seq(Ask)
  BY DEF TypeOK
<1>k. asks' = asks => RightAnswers(p)'
  BY DEF RightAnswers, HasAnswer
<1>1. CASE Drop(p)
  <2>1. ASSUME NEW a \in DOMAIN asks'[p], HasAnswer(asks'[p][a])
        PROVE  a \in DOMAIN asks[p] /\ asks'[p][a] = asks[p][a]
    <3>1. a \in DOMAIN asks[p] /\ asks[p][a] \in Ask
      BY <1>1, <1>t DEF Drop, TypeOK
    <3>2. asks'[p][a] = IF Pending(asks[p][a]) THEN [asks[p][a] EXCEPT !.stage = "failed"]
                                              ELSE asks[p][a]
      BY <1>1, <3>1 DEF Drop, TypeOK
    <3> QED BY <2>1, <3>1, <3>2 DEF HasAnswer, Ask
  <2> QED BY <2>1 DEF RightAnswers, HasAnswer
<1>2. ASSUME NEW move \in audience.typed \cup {None}, Submit(p, move) PROVE RightAnswers(p)'
  <2>1. PICK stage \in {"syncing", "asked", "failed"} :
          asks' = [asks EXCEPT ![p] = Append(@, NewAsk(p, move, stage))]
    BY <1>2 DEF Submit
  <2>2. NewAsk(p, move, stage) \in Ask
    BY <1>2, AsksType, AudienceFields DEF Submit, MayAct, TypeOK
  <2>3. asks'[p] = Append(asks[p], NewAsk(p, move, stage))
    BY <2>1 DEF TypeOK
  <2>4. NewAsk(p, move, stage).stage # "settled"
    BY DEF NewAsk
  <2>5. ASSUME NEW a \in DOMAIN asks'[p], HasAnswer(asks'[p][a])
        PROVE  a \in DOMAIN asks[p] /\ asks'[p][a] = asks[p][a]
    BY <1>t, <2>2, <2>3, <2>4, <2>5, NewFrame DEF HasAnswer
  <2> QED BY <2>5 DEF RightAnswers, HasAnswer
<1>3. CASE ReceiveSync(p)
  <2> DEFINE b == Head(outbox[p]).ask
  <2>1. b \in DOMAIN asks[p] /\ asks[p][b] \in Ask
    BY <1>3, AnswersAnAsk DEF ReceiveSync
  <2>2. asks' = [asks EXCEPT ![p][b].stage = "asked"]
    BY <1>3 DEF ReceiveSync
  <2> HIDE DEF b
  <2>3. /\ DOMAIN asks'[p] = DOMAIN asks[p]
        /\ asks'[p][b].stage = "asked"
        /\ \A a \in DOMAIN asks[p] : a # b => asks'[p][a] = asks[p][a]
    BY <2>1, <2>2, <1>t DEF TypeOK, Ask
  <2> QED BY <2>1, <2>3 DEF RightAnswers, HasAnswer
<1>4. CASE ReceiveResult(p)
  <2> DEFINE reply == Head(outbox[p])
             b == reply.ask
             now == [asks[p][b] EXCEPT !.stage = "settled", !.on = reply.on, !.at = reply.at]
  <2>1. b \in DOMAIN asks[p] /\ asks[p][b] \in Ask
    BY <1>4, AnswersAnAsk DEF ReceiveResult
  <2>2. reply.on \in {None, datum[p]} /\ asks[p][b].shownOn = datum[p]
    BY <1>4 DEF ReceiveResult, Takes, Idle, Asking, Answering, First, OnlyAsked, Holds
  <2>3. asks' = [asks EXCEPT ![p] = [asks[p] EXCEPT ![b] = now]]
    BY <1>4, Settles
  <2>4. now.on = reply.on /\ now.shownOn = asks[p][b].shownOn
    BY <2>1 DEF Ask
  <2> HIDE DEF now, b, reply
  <2>5. /\ DOMAIN asks'[p] = DOMAIN asks[p]
        /\ \A a \in DOMAIN asks[p] : asks'[p][a] = IF a = b THEN now ELSE asks[p][a]
    BY <2>1, <2>3, <1>t DEF TypeOK
  <2> QED BY <2>1, <2>2, <2>4, <2>5 DEF RightAnswers, HasAnswer
<1>5. CASE Open(p) \/ (\E i \in States : Step(p, i)) \/ (\E verb \in Verbs : Click(p, verb))
  BY <1>5, <1>k DEF Open, Step, Click
<1>6. CASE ReceiveDatum(p) \/ ReceiveError(p)
  BY <1>6, <1>k DEF ReceiveDatum, ReceiveError
<1>7. ASSUME NEW n \in Sockets, Serve(p, n) \/ HangUp(p, n) PROVE RightAnswers(p)'
  BY <1>7, <1>k, ServesReply DEF HangUp, Replies
<1> QED BY <1>1, <1>2, <1>3, <1>4, <1>5, <1>6, <1>7 DEF PageSteps, User, Receive

-----------------------------------------------------------------------------

LEMMA LineNext ==
  ASSUME TypeOK, \A q \in Pages : PageInv(q), [Next]_vars
  PROVE  \A q \in Pages : PageInv(q)'
<1> SUFFICES ASSUME NEW q \in Pages PROVE PageInv(q)'
  OBVIOUS
<1>t. TypeOK'
  BY TypesNext
<1>1. ASSUME NEW p \in Pages, PageSteps(p), q # p PROVE PageInv(q)'
  BY <1>1, OnlyItsPage, PageStays
<1>2. ASSUME PageSteps(q) PROVE PageInv(q)'
  <2>1. Wired(q)' /\ Displays(q)'
    BY <1>2, WiredNext, DisplaysNext
  <2>2. audience' = audience
    BY <1>2, ServesReply DEF PageSteps, Open, Drop, User, Step, Click, Submit, Receive, Takes,
       ReceiveDatum, ReceiveError, ReceiveSync, ReceiveResult, HangUp, server
  <2>3. ASSUME audience.patient PROVE RightAnswers(q)' /\ OneAtATime(q)'
    <3>1. Idle(q) \/ Asking(q) \/ Answering(q)
      BY <2>3, LineIs DEF PageInv
    <3>2. RightAnswers(q)'
      BY <1>2, <2>3, <3>1, AnswersStayRight DEF PageInv
    <3>3. LineSteps(q)
      BY <1>2, <2>3, <3>1, LineSocket, LineUser, LineReceive, LineServer
         DEF PageSteps, LineSteps, PageInv
    <3>4. LineShapes'
      BY LineIsShaped, PTL
    <3> QED BY <1>t, <2>1, <3>2, <3>3, <3>4 DEF LineSteps, LineShapes
  <2> QED BY <2>1, <2>2, <2>3 DEF PageInv
<1>3. CASE UNCHANGED vars
  <2>1. audience' = audience /\ UNCHANGED Page(q)
    BY <1>3 DEF vars, server, wire, screen, page, Page
  <2> QED BY <2>1, PageStays
<1> QED BY <1>1, <1>2, <1>3 DEF Next, PageSteps

LEMMA LineInvIs == LineInv <=> \A p \in Pages : PageInv(p)
  BY DEF LineInv, PageInv, NoWrongAnswer, RightAnswers

\* The pages and the server keep to their line, and a question that is pending is about
\* the datum on its page, whoever watches.
THEOREM LineCorrect == Spec => [](TypeOK /\ LineInv)
<1>1. Init => TypeOK /\ LineInv
  BY TypesInit, LineInvIs
<1>2. TypeOK /\ LineInv /\ [Next]_vars => (TypeOK /\ LineInv)'
  <2>1. SUFFICES ASSUME TypeOK, LineInv, [Next]_vars PROVE TypeOK' /\ LineInv'
    OBVIOUS
  <2>2. \A p \in Pages : PageInv(p)
    BY <2>1, LineInvIs
  <2>3. TypeOK' /\ \A p \in Pages : PageInv(p)'
    BY <2>1, <2>2, TypesNext, LineNext
  <2>4. (LineInv <=> \A p \in Pages : PageInv(p))'
    BY LineInvIs, PTL
  <2> QED BY <2>3, <2>4
<1> QED BY <1>1, <1>2, PTL DEF Spec

\* serve.rs: what a user who waits submitted about one datum is answered about that one
\* or refused, however many pages there are and whatever becomes of their sockets.
THEOREM AnswersAreAboutTheDatum == Spec => []AnswersTheDatumAsked
<1>1. TypeOK /\ LineInv => AnswersTheDatumAsked
  BY DEF LineInv, AnswersTheDatumAsked
<1> QED BY <1>1, LineCorrect, PTL

-----------------------------------------------------------------------------
(* One user who waits, on a connection that holds.                         *)

\* The shape of the line as one formula, with the page it is about.
Alone(p) == OneWaits /\ audience.pages = {p}
InLine(p) == Idle(p) \/ Asking(p) \/ Answering(p)

\* Nobody else is there, and nothing is left of an earlier socket.
LEMMA OnlyPageSteps ==
  ASSUME TypeOK, NEW p \in Pages, Alone(p), NEW q \in Pages, Wired(q), q # p
  PROVE  ~PageSteps(q)
<1>1. socket[q] = 0 /\ ~connected[q] /\ q \notin audience.pages
  BY DEF Wired, Alone
<1>2. \A n \in Sockets : inbox[q][n] = <<>>
  BY <1>1 DEF Wired, Sockets
<1>3. ~MayAct(q)
  BY <1>1 DEF MayAct, Settled, Alone, OneWaits
<1>4. ~User(q)
  BY <1>3 DEF User, Step, Click, Submit
<1>5. ~Open(q) /\ ~Drop(q) /\ ~Receive(q)
  BY <1>1 DEF Open, Drop, Receive, ReceiveDatum, ReceiveError, ReceiveSync, ReceiveResult, Takes
<1>6. ASSUME NEW n \in Sockets PROVE ~Serve(q, n) /\ ~HangUp(q, n)
  BY <1>2, ServesReply DEF HangUp
<1> QED BY <1>4, <1>5, <1>6 DEF PageSteps

\* The open socket is the first one, and there is no other.
LEMMA OnlySocket ==
  ASSUME TypeOK, NEW p \in Pages, Alone(p), Wired(p)
  PROVE  /\ ~Drop(p)
         /\ connected[p] => socket[p] = 1 /\ socket[p] \in Sockets
         /\ \A n \in Sockets : inbox[p][n] # <<>> => n = socket[p]
<1>1. /\ socket[p] \in 0..MaxSockets /\ MaxSockets \in Nat /\ audience.sockets = 1
  BY AudiencesAssumption DEF TypeOK, Alone, OneWaits
<1>2. socket[p] \in {0, 1}
  BY <1>1 DEF Wired
<1> QED BY <1>1, <1>2 DEF Wired, Drop, Sockets

\* When nothing is under way there is only the page to look at.
LEMMA InStepQuiet ==
  ASSUME NEW p \in Pages, Sent(p) = <<>>, outbox[p] = <<>>, connected[p],
         AnsweredWhereShown(p), ToolbarTrue(p), Knows(p), current \in Ids
  PROVE  InStep(p)
<1>1. datum[p] # None
  BY IdFacts DEF ToolbarTrue
<1> QED BY <1>1 DEF InStep, WhileNothing, WhileFetching, WhileClicking, WhileAsking,
               WhileAnswering, First

QuietSteps ==
  \A p \in Pages :
    /\ Sent(p) = <<>> /\ outbox[p] = <<>> /\ connected[p] /\ current \in Ids
    /\ AnsweredWhereShown(p) /\ ToolbarTrue(p) /\ Knows(p)
    => InStep(p)

LEMMA InStepsQuiet == QuietSteps
  BY InStepQuiet DEF QuietSteps

LEMMA InStepInit == Init => \A p \in Pages : InStep(p)
<1> SUFFICES ASSUME Init, NEW p \in Pages PROVE InStep(p)
  OBVIOUS
<1>1. Sent(p) = <<>> /\ outbox[p] = <<>> /\ ~Settled(p)
  BY DEF Init, Sent, Settled
<1>2. AnsweredWhereShown(p)
  BY DEF Init, AnsweredWhereShown
<1>3. WhileNothing(p)
  BY <1>1 DEF Init, WhileNothing
<1> QED BY <1>1, <1>2, <1>3 DEF InStep, WhileFetching, WhileClicking, WhileAsking,
               WhileAnswering, First

\* A page that acts has nothing under way.
LEMMA WhenItActs ==
  ASSUME NEW p \in Pages, Alone(p), WhileNothing(p), MayAct(p)
  PROVE  /\ connected[p] /\ Sent(p) = <<>> /\ outbox[p] = <<>>
         /\ ToolbarTrue(p) /\ Knows(p)
  BY DEF Alone, OneWaits, MayAct, WhileNothing, Settled, Sent

LEMMA InStepUser ==
  ASSUME TypeOK, TypeOK', NEW p \in Pages, Alone(p), PageInv(p), InStep(p), User(p)
  PROVE  InStep(p)'
<1> USE DEF server, wire, screen, page
<1>w. Wired(p)
  BY DEF PageInv
<1>1. /\ MayAct(p) /\ connected[p] /\ Sent(p) = <<>> /\ outbox[p] = <<>>
      /\ ToolbarTrue(p) /\ Knows(p) /\ datum[p] # None
  BY WhenItActs DEF User, Step, Click, Submit, InStep, MayAct
<1>2. current \in Ids /\ UNCHANGED <<server, outbox, socket, connected>>
  BY DEF TypeOK, User, Step, Click, Submit
<1>e. <<>> \in Seq(Request) /\ Len(<<>>) = 0
  OBVIOUS
<1>s. ASSUME NEW r \in Request, Sends(p, r)
      PROVE  Sent(p)' # <<>> /\ Head(Sent(p)') = r
  <2>1. Sent(p)' = Append(Sent(p), r)
    BY <1>1, <1>2, <1>s, <1>w, Sending DEF Sent
  <2> QED BY <1>1, <1>e, <2>1, NewFrame
<1>3. ASSUME NEW i \in States, Step(p, i) PROVE InStep(p)'
  <2>1. Sent(p)' = <<>> /\ outbox'[p] = <<>> /\ connected'[p] /\ current' \in Ids
    BY <1>1, <1>2, <1>3 DEF Step, Sent
  <2>2. ToolbarTrue(p)' /\ Knows(p)' /\ AnsweredWhereShown(p)'
    BY <1>1, <1>2, <1>3 DEF Step, ToolbarTrue, Knows, AnsweredWhereShown, HasAnswer, InStep
  <2>3. QuietSteps'
    BY InStepsQuiet, PTL
  <2> QED BY <2>1, <2>2, <2>3 DEF QuietSteps
<1>4. ASSUME NEW verb \in Verbs, Click(p, verb) PROVE InStep(p)'
  <2> DEFINE r == [type |-> "click", verb |-> verb, from |-> datum[p],
                   state |-> IF verb = "new-fork" THEN step[p] ELSE None]
  <2>1. r \in Request /\ r.type = "click"
    BY <1>4, <1>1 DEF TypeOK, Request
  <2>2. /\ Sends(p, r) /\ UNCHANGED <<asks, datum, missing, step, believed>>
        /\ busy'[p] = TRUE
    BY <1>4 DEF Click, TypeOK
  <2> HIDE DEF r
  <2>3. Sent(p)' # <<>> /\ Head(Sent(p)') = r
    BY <1>s, <2>1, <2>2
  <2>4. ~Settled(p)' /\ connected'[p]
    BY <1>1, <1>2, <2>3 DEF Settled, Sent
  <2>5. AnsweredWhereShown(p)'
    BY <2>2 DEF AnsweredWhereShown, HasAnswer, InStep
  <2>6. WhileNothing(p)'
    BY <1>1, <1>2, <2>2, <2>4 DEF WhileNothing
  <2>7. WhileClicking(p)'
    BY <1>1, <1>2, <2>2 DEF WhileClicking, ToolbarTrue, Knows
  <2>8. WhileFetching(p)' /\ WhileAsking(p)' /\ WhileAnswering(p)'
    BY <1>1, <1>2, <2>1, <2>3 DEF WhileFetching, WhileAsking, WhileAnswering, First
  <2> QED BY <2>5, <2>6, <2>7, <2>8 DEF InStep
<1>5. ASSUME NEW move \in audience.typed \cup {None}, Submit(p, move) PROVE InStep(p)'
  <2> DEFINE a == Len(asks[p]) + 1
             syncs == move = None /\ NeedsSync(p)
             stage == IF syncs THEN "syncing" ELSE "asked"
             sent == IF syncs THEN step[p] ELSE move
             ask == NewAsk(p, move, stage)
             request == Evaluation(p, a, sent)
  <2>1. move \in Int \cup {None} /\ step[p] \in Int /\ asks[p] \in Seq(Ask) /\ a \in Nat
    BY <1>5, AudienceFields DEF TypeOK
  <2>2. ask \in Ask /\ request \in Request
    BY <1>1, <2>1, AsksType, EvaluationType
  <2>3. request.type = "eval" /\ request.ask = a /\ request.move = sent
    BY DEF Evaluation
  <2>4. ask.stage = stage /\ ask.move = move /\ ask.shownAt = step[p] /\ stage # "settled"
    BY DEF NewAsk
  <2>5. IF stage = "syncing" THEN move = None /\ sent = step[p]
        ELSE sent = move /\ (move = None => believed[p] = step[p])
    BY DEF NeedsSync
  <2>6. asks' = [asks EXCEPT ![p] = Append(@, ask)] /\ Sends(p, request)
    BY <1>1, <1>5 DEF Submit
  <2> HIDE DEF a, syncs, stage, sent, ask, request
  <2>7. UNCHANGED <<datum, missing, step, believed, busy>>
    BY <1>5 DEF Submit
  <2>8. Sent(p)' # <<>> /\ Head(Sent(p)') = request
    BY <1>s, <2>2, <2>6
  <2>9. asks'[p] = Append(asks[p], ask)
    BY <2>6 DEF TypeOK
  <2>10. /\ asks'[p][a] = ask
         /\ \A b \in DOMAIN asks'[p] : b # a => b \in DOMAIN asks[p] /\ asks'[p][b] = asks[p][b]
    BY <2>1, <2>2, <2>9, NewFrame DEF a
  <2>11. AnsweredWhereShown(p)'
    BY <2>4, <2>10 DEF AnsweredWhereShown, HasAnswer, InStep
  <2>12. ~Settled(p)' /\ connected'[p]
    BY <1>1, <1>2, <2>8 DEF Settled, Sent
  <2>13. WhileNothing(p)'
    BY <1>1, <1>2, <2>7, <2>12 DEF WhileNothing
  <2>14. ToolbarTrue(p)' /\ Knows(p)'
    BY <1>1, <1>2, <2>7 DEF ToolbarTrue, Knows
  <2>15. WhileAsking(p)'
    BY <1>2, <1>1, <2>3, <2>4, <2>5, <2>7, <2>8, <2>10, <2>14 DEF WhileAsking, Knows
  <2>16. WhileFetching(p)' /\ WhileClicking(p)' /\ WhileAnswering(p)'
    BY <1>1, <1>2, <2>3, <2>8 DEF WhileFetching, WhileClicking, WhileAnswering, First
  <2> QED BY <2>11, <2>13, <2>15, <2>16 DEF InStep
<1> QED BY <1>3, <1>4, <1>5 DEF User

LEMMA InStepOpen ==
  ASSUME TypeOK, NEW p \in Pages, Wired(p), Alone(p), InStep(p), Open(p)
  PROVE  InStep(p)'
<1> USE DEF server, page, screen
<1>1. /\ socket[p] + 1 \in Sockets /\ ~connected[p] /\ outbox[p] = <<>>
      /\ datum[p] = None /\ ~busy[p]
  BY AudienceFields, AudiencesAssumption
     DEF TypeOK, Wired, Open, Sockets, InStep, WhileNothing
<1>2. /\ UNCHANGED <<server, outbox, page>>
      /\ connected'[p] /\ Sent(p)' = <<DataRequest>>
  BY <1>1 DEF Open, Sent, TypeOK
<1>3. /\ <<DataRequest>> # <<>> /\ Head(<<DataRequest>>) = DataRequest
      /\ DataRequest.type = "data"
  BY DEF DataRequest
<1>4. AnsweredWhereShown(p)'
  BY <1>2 DEF InStep, AnsweredWhereShown, HasAnswer
<1>5. WhileNothing(p)'
  BY <1>2, <1>3 DEF InStep, WhileNothing, Settled, Sent
<1>6. WhileFetching(p)'
  BY <1>1, <1>2 DEF WhileFetching, First
<1>7. WhileClicking(p)' /\ WhileAsking(p)' /\ WhileAnswering(p)'
  BY <1>1, <1>2, <1>3 DEF WhileClicking, WhileAsking, WhileAnswering, First
<1> QED BY <1>4, <1>5, <1>6, <1>7 DEF InStep

LEMMA InStepReceive ==
  ASSUME TypeOK, TypeOK', NEW p \in Pages, Alone(p), PageInv(p), InLine(p), InStep(p), Receive(p)
  PROVE  InStep(p)'
<1> USE DEF server, wire, screen, page
<1> DEFINE reply == Head(outbox[p])
<1>w. Wired(p)
  BY DEF PageInv
<1>t. /\ Takes(p) /\ connected[p] /\ outbox[p] # <<>>
      /\ UNCHANGED <<server, socket, connected>> /\ connected'[p] /\ current' \in Ids
  BY DEF Receive, ReceiveDatum, ReceiveError, ReceiveSync, ReceiveResult, Takes, TypeOK
<1>o. Sent(p) = <<>> /\ outbox'[p] = <<>>
  <2>1. Len(outbox[p]) <= 1 /\ outbox[p] \in Seq(Reply) /\ Sent(p) = <<>>
    BY <1>t DEF InLine, Idle, Asking, Answering, TypeOK
  <2> QED BY <1>t, <2>1, OneFrame, Taking
<1>q. inbox' = inbox => Sent(p)' = <<>>
  BY <1>t, <1>o DEF Sent
<1>r. ASSUME NEW r \in Request, Sends(p, r)
      PROVE  Sent(p)' # <<>> /\ Head(Sent(p)') = r
  <2>1. Sent(p)' = Append(Sent(p), r)
    BY <1>r, <1>t, <1>w, Sending DEF Sent
  <2>2. <<>> \in Seq(Request)
    OBVIOUS
  <2> QED BY <1>o, <2>1, <2>2, NewFrame
<1>f. First(outbox[p], reply.type)
  BY <1>t DEF First
<1>s. QuietSteps'
  BY InStepsQuiet, PTL
<1>1. CASE ReceiveDatum(p)
  <2>1. /\ reply.type = "data" /\ reply.datum = current /\ retired \subseteq reply.missing
        /\ IF datum[p] = current THEN Knows(p) ELSE evaluatorAt = 0
    BY <1>1, <1>f DEF ReceiveDatum, InStep, WhileFetching
  <2>2. /\ datum'[p] = current /\ missing'[p] = reply.missing /\ busy'[p] = FALSE
        /\ believed'[p] = IF datum[p] = current THEN believed[p] ELSE 0
        /\ UNCHANGED <<inbox, asks>>
    BY <1>1, <2>1 DEF ReceiveDatum, ShowDatum, TypeOK
  <2>3. ToolbarTrue(p)' /\ Knows(p)'
    BY <1>t, <2>1, <2>2 DEF ToolbarTrue, Knows
  <2>4. AnsweredWhereShown(p)'
    BY <2>2 DEF InStep, AnsweredWhereShown, HasAnswer
  <2> QED BY <1>t, <1>o, <1>q, <1>s, <2>2, <2>3, <2>4 DEF QuietSteps
<1>2. CASE ReceiveError(p)
  <2>1. reply.type = "error" /\ busy[p] /\ datum[p] = current /\ Knows(p)
    BY <1>2, <1>f DEF ReceiveError, InStep, WhileClicking
  <2>2. /\ Sends(p, DataRequest) /\ busy'[p] = FALSE
        /\ UNCHANGED <<datum, missing, step, believed, asks>>
    BY <1>2, <2>1 DEF ReceiveError, Refreshes, TypeOK
  <2>3. DataRequest \in Request /\ DataRequest.type = "data"
    BY DEF DataRequest, Request
  <2>4. Sent(p)' # <<>> /\ Head(Sent(p)') = DataRequest
    BY <1>r, <2>2, <2>3
  <2>5. AnsweredWhereShown(p)'
    BY <2>2 DEF InStep, AnsweredWhereShown, HasAnswer
  <2>6. WhileNothing(p)'
    BY <1>t, <2>2, <2>4 DEF InStep, WhileNothing, Settled, Sent
  <2>7. WhileFetching(p)'
    BY <1>t, <1>o, <2>1, <2>2 DEF WhileFetching, First, Knows
  <2>8. WhileClicking(p)' /\ WhileAsking(p)' /\ WhileAnswering(p)'
    BY <1>o, <2>3, <2>4 DEF WhileClicking, WhileAsking, WhileAnswering, First
  <2> QED BY <2>5, <2>6, <2>7, <2>8 DEF InStep
<1>3. CASE ReceiveSync(p) \/ ReceiveResult(p)
  <2> DEFINE b == reply.ask
             ask == asks[p][b]
  <2>1. /\ reply.type = "eval" /\ b \in DOMAIN asks[p] /\ ask \in Ask
        /\ datum[p] \in Ids /\ b \in Nat /\ asks \in [Pages -> Seq(Ask)] /\ asks[p] \in Seq(Ask)
    BY <1>3, <1>t, Taking, AnswersAnAsk, ReplyFields DEF ReceiveSync, ReceiveResult, TypeOK
  <2>2. /\ ToolbarTrue(p)
        /\ IF ask.stage = "syncing"
           THEN ask.move = None /\ evaluatorAt = step[p] /\ ask.shownAt = step[p]
           ELSE IF ask.move = None
           THEN Knows(p) /\ reply.at = ask.shownAt
           ELSE evaluatorAt = NormalizeState(Trace[current], ask.move)
    BY <1>f, <2>1 DEF InStep, WhileAnswering
  <2>3. CASE ReceiveSync(p)
    <3> DEFINE request == Evaluation(p, b, None)
    <3>1. request \in Request /\ request.type = "eval" /\ request.ask = b /\ request.move = None
      BY <2>1, IdFacts, EvaluationType DEF Evaluation
    <3>2. /\ ask.stage = "syncing" /\ Sends(p, request)
          /\ asks' = [asks EXCEPT ![p][b].stage = "asked"]
          /\ believed'[p] = step[p]
          /\ UNCHANGED <<datum, missing, step, busy>>
      BY <2>3 DEF ReceiveSync, TypeOK
    <3> HIDE DEF request
    <3>3. Sent(p)' # <<>> /\ Head(Sent(p)') = request
      BY <1>r, <3>1, <3>2
    <3>4. /\ DOMAIN asks'[p] = DOMAIN asks[p]
          /\ asks'[p][b].stage = "asked"
          /\ asks'[p][b].move = ask.move /\ asks'[p][b].shownAt = ask.shownAt
          /\ \A a \in DOMAIN asks[p] : a # b => asks'[p][a] = asks[p][a]
      BY <2>1, <3>2 DEF Ask
    <3>5. AnsweredWhereShown(p)'
      BY <3>4 DEF InStep, AnsweredWhereShown, HasAnswer
    <3>6. ToolbarTrue(p)' /\ Knows(p)'
      BY <1>t, <2>2, <3>2 DEF ToolbarTrue, Knows
    <3>7. WhileNothing(p)'
      BY <1>t, <3>2, <3>3 DEF InStep, WhileNothing, Settled, Sent
    <3>8. WhileAsking(p)'
      BY <1>t, <2>2, <3>1, <3>2, <3>3, <3>4, <3>6 DEF WhileAsking
    <3>9. WhileFetching(p)' /\ WhileClicking(p)' /\ WhileAnswering(p)'
      BY <1>o, <3>1, <3>3 DEF WhileFetching, WhileClicking, WhileAnswering, First
    <3> QED BY <3>5, <3>7, <3>8, <3>9 DEF InStep
  <2>4. CASE ReceiveResult(p)
    <3> DEFINE now == [ask EXCEPT !.stage = "settled", !.on = reply.on, !.at = reply.at]
               lands == NormalizeState(Trace[datum[p]], ask.move)
    <3>1. /\ ask.stage = "asked" /\ UNCHANGED <<inbox, datum, missing, busy>>
          /\ believed'[p] = IF ask.move = None THEN believed[p] ELSE lands
      BY <2>4 DEF ReceiveResult, TypeOK
    <3>2. asks' = [asks EXCEPT ![p] = [asks[p] EXCEPT ![b] = now]]
      BY <2>4, Settles
    <3>3. now.move = ask.move /\ now.shownAt = ask.shownAt /\ now.at = reply.at
      BY <2>1 DEF Ask
    <3>4. lands = NormalizeState(Trace[current], ask.move)
      BY <2>2 DEF ToolbarTrue
    <3> HIDE DEF now, lands, ask
    <3>5. /\ DOMAIN asks'[p] = DOMAIN asks[p]
          /\ \A a \in DOMAIN asks[p] : asks'[p][a] = IF a = b THEN now ELSE asks[p][a]
      BY <2>1, <3>2
    <3>6. AnsweredWhereShown(p)'
      BY <2>2, <3>1, <3>3, <3>5 DEF InStep, AnsweredWhereShown, HasAnswer
    <3>7. ToolbarTrue(p)' /\ Knows(p)'
      BY <1>t, <2>2, <3>1, <3>4 DEF ToolbarTrue, Knows
    <3> QED BY <1>t, <1>o, <1>q, <1>s, <3>1, <3>6, <3>7 DEF QuietSteps
  <2> QED BY <1>3, <2>3, <2>4
<1> QED BY <1>1, <1>2, <1>3 DEF Receive

LEMMA InStepServer ==
  ASSUME TypeOK, TypeOK', NEW p \in Pages, Alone(p), PageInv(p), InLine(p), InStep(p),
         NEW n \in Sockets, Serve(p, n) \/ HangUp(p, n)
  PROVE  InStep(p)'
<1> USE DEF server, wire, screen, page
<1> DEFINE request == Head(inbox[p][n])
<1>w. Wired(p)
  BY DEF PageInv
<1>1. inbox[p][n] # <<>>
  BY ServesReply DEF HangUp
<1>2. n = socket[p] /\ connected[p] /\ n \in Sockets /\ socket[p] = 1
  <2>1. n = socket[p] /\ socket[p] # 0
    BY <1>1, <1>w, OnlySocket DEF Sockets
  <2>2. connected[p]
    BY <2>1 DEF InStep, WhileNothing
  <2> QED BY <1>w, <2>1, <2>2, OnlySocket
<1>3. ~HangUp(p, n)
  BY <1>2 DEF HangUp
<1>4. PICK reply \in Reply :
        /\ Replies(p, n, reply)
        /\ \/ (ServeData(p, n) \/ ServeAdvance(p, n)) /\ reply = Datum
           \/ ServeRefusal(p, n) /\ reply = Error
           \/ ServeStale(p, n) /\ reply.on = None
           \/ ServeEval(p, n) /\ reply.on = current /\ reply.at = evaluatorAt'
        /\ reply.type = "eval" <=> request.type = "eval"
        /\ reply.type = "eval" => reply.ask = request.ask
  BY <1>3, ServesReply
<1>5. Sent(p) = inbox[p][n] /\ Sent(p) # <<>> /\ Sent(p) \in Seq(Request)
      /\ First(Sent(p), request.type) /\ Head(Sent(p)) = request /\ request \in Request
  BY <1>1, <1>2, <1>3, ServesReply DEF Sent, TypeOK, First
<1>6. outbox[p] = <<>> /\ Len(Sent(p)) <= 1
  BY <1>5 DEF InLine, Idle, Asking, Answering
<1>u. UNCHANGED <<socket, connected, page>>
  BY <1>4 DEF Replies
<1>7. Sent(p)' = <<>> /\ outbox'[p] # <<>> /\ Head(outbox'[p]) = reply
  <2>1. inbox'[p][n] = Tail(inbox[p][n]) /\ outbox'[p] = Append(outbox[p], reply)
    BY <1>1, <1>2, <1>4, Replying
  <2>2. Tail(inbox[p][n]) = <<>>
    BY <1>5, <1>6, OneFrame
  <2>3. <<>> \in Seq(Reply)
    OBVIOUS
  <2> QED BY <1>2, <1>u, <1>6, <2>1, <2>2, <2>3, NewFrame DEF Sent
<1>8. AnsweredWhereShown(p)'
  BY <1>u DEF InStep, AnsweredWhereShown, HasAnswer
<1>9. ~Settled(p)' /\ connected'[p] /\ (First(outbox'[p], reply.type))
  BY <1>2, <1>u, <1>7 DEF Settled, First
<1>t. current \in Ids /\ current' \in Ids /\ datum[p] \in Ids \cup {None}
  BY DEF TypeOK
<1>x. WhileAsking(p)'
  BY <1>7 DEF WhileAsking, First
<1>10. CASE ServeData(p, n)
  <2>1. reply = Datum /\ request.type = "data" /\ UNCHANGED server
    BY <1>4, <1>10, <1>5, RequestFields
       DEF ServeData, ServeAdvance, ServeRefusal, ServeStale, ServeEval, Asked
  <2>2. /\ reply.type = "data" /\ reply.datum = current /\ retired \subseteq reply.missing
    BY <2>1 DEF Datum, Missing
  <2>3. ~busy[p] /\ (datum[p] # None => datum[p] = current /\ Knows(p))
        /\ (datum[p] = None => evaluatorAt = 0 /\ current = 0)
    BY <1>5, <2>1 DEF InStep, WhileFetching, WhileNothing
  <2>4. WhileFetching(p)'
    BY <1>t, <1>u, <1>7, <2>1, <2>2, <2>3, IdFacts DEF WhileFetching, First, Knows
  <2>5. WhileNothing(p)'
    BY <1>9, <1>u, <2>1, <2>3 DEF WhileNothing
  <2>6. WhileClicking(p)' /\ WhileAnswering(p)'
    BY <1>7, <2>2 DEF WhileClicking, WhileAnswering, First
  <2> QED BY <1>8, <1>x, <2>4, <2>5, <2>6 DEF InStep
<1>11. CASE ServeAdvance(p, n)
  <2>1. /\ reply = Datum /\ request.type = "click" /\ current' = current + 1
        /\ evaluatorAt' = 0 /\ retired' = retired
    BY <1>4, <1>11, <1>5, <1>t, IdFacts
       DEF ServeData, ServeAdvance, ServeRefusal, ServeStale, ServeEval, Asked
  <2>2. reply.type = "data" /\ reply.datum = current' /\ retired' \subseteq reply.missing
    BY <2>1 DEF Datum, Missing
  <2>3. datum[p] = current /\ datum[p] # None
    BY <1>5, <1>t, <2>1, IdFacts DEF InStep, WhileClicking
  <2>4. datum'[p] # current'
    BY <1>t, <1>u, <2>1, <2>3, IdFacts
  <2>5. WhileFetching(p)'
    BY <1>7, <2>1, <2>2, <2>4 DEF WhileFetching, First
  <2>6. WhileNothing(p)'
    BY <1>9, <1>u, <2>3 DEF WhileNothing
  <2>7. WhileClicking(p)' /\ WhileAnswering(p)'
    BY <1>7, <2>2 DEF WhileClicking, WhileAnswering, First
  <2> QED BY <1>8, <1>x, <2>5, <2>6, <2>7 DEF InStep
<1>12. CASE ServeRefusal(p, n)
  <2>1. request.type = "click" /\ UNCHANGED <<current, evaluatorAt>>
    BY <1>12 DEF ServeRefusal, Asked
  <2>2. reply = Error
    BY <1>4, <1>t, <2>1, IdFacts DEF ServeData, ServeAdvance, ServeStale, ServeEval, Asked
  <2>3. busy[p] /\ datum[p] = current /\ Knows(p) /\ datum[p] # None
    BY <1>5, <1>t, <2>1, IdFacts DEF InStep, WhileClicking
  <2>4. reply.type = "error"
    BY <2>2 DEF Error
  <2>5. WhileClicking(p)'
    BY <1>u, <2>1, <2>3 DEF WhileClicking, Knows
  <2>6. WhileNothing(p)'
    BY <1>9, <1>u, <2>1, <2>3 DEF WhileNothing
  <2>7. WhileFetching(p)' /\ WhileAnswering(p)'
    BY <1>7, <2>4 DEF WhileFetching, WhileAnswering, First
  <2> QED BY <1>8, <1>x, <2>5, <2>6, <2>7 DEF InStep
<1>13. CASE ServeStale(p, n) \/ ServeEval(p, n)
  <2> DEFINE ask == asks[p][request.ask]
  <2>1. request.type = "eval" /\ request.move \in Int \cup {None}
    BY <1>13, <1>5, RequestFields DEF ServeStale, ServeEval, Asked
  <2>2. /\ ToolbarTrue(p)
        /\ IF ask.stage = "syncing"
           THEN ask.move = None /\ request.move = step[p] /\ ask.shownAt = step[p]
           ELSE /\ request.move = ask.move
                /\ ask.move = None => Knows(p) /\ ask.shownAt = evaluatorAt
    BY <1>5, <2>1 DEF InStep, WhileAsking
  <2>3. datum[p] = current /\ datum[p] # None /\ request.datum = current
    BY <1>5, <1>t, <2>1, <2>2, IdFacts DEF ToolbarTrue, InLine, Idle, Asking, Answering, First
  <2>4. ServeEval(p, n)
    BY <1>13, <2>3 DEF ServeStale, Stale
  <2>5. /\ UNCHANGED <<current, retired>>
        /\ evaluatorAt' = IF request.move = None THEN evaluatorAt
                          ELSE NormalizeState(Trace[current], request.move)
    BY <2>4 DEF ServeEval
  <2>6. reply.type = "eval" /\ reply.ask = request.ask /\ reply.at = evaluatorAt'
    BY <1>4, <2>1, <2>3 DEF ServeData, ServeAdvance, ServeRefusal, ServeStale, Stale, Asked
  <2>7. step[p] \in 0..Length(current)-1 /\ step[p] # None
    <3>1. step[p] \in Nat /\ step[p] < Length(datum[p])
      BY <2>3 DEF TypeOK, PageInv, Displays
    <3>2. Length(current) \in Nat
      BY <1>t, IdFacts
    <3> QED BY <2>3, <3>1, <3>2, NoneAssumption
  <2>8. NormalizeState(Trace[current], step[p]) = step[p]
    BY <1>t, <2>7, LandsInTrace
  <2>9. ToolbarTrue(p)'
    BY <1>u, <2>2, <2>5 DEF ToolbarTrue
  <2>10. WhileAnswering(p)'
    <3> HIDE DEF ask, request
    <3>2. CASE ask.stage = "syncing"
      <4>1. ask.move = None /\ evaluatorAt' = step'[p] /\ ask.shownAt = step'[p]
        BY <1>u, <2>2, <2>5, <2>7, <2>8, <3>2
      <4> QED BY <1>7, <1>u, <2>6, <2>9, <3>2, <4>1 DEF WhileAnswering, ask
    <3>3. CASE ask.stage # "syncing" /\ ask.move = None
      <4>1. evaluatorAt' = evaluatorAt /\ reply.at = ask.shownAt /\ Knows(p)
        BY <2>2, <2>5, <2>6, <3>3
      <4>2. Knows(p)'
        BY <1>u, <4>1 DEF Knows
      <4> QED BY <1>7, <1>u, <2>6, <2>9, <3>3, <4>1, <4>2 DEF WhileAnswering, ask
    <3>4. CASE ask.stage # "syncing" /\ ask.move # None
      <4>1. evaluatorAt' = NormalizeState(Trace[current'], ask.move)
        BY <2>2, <2>5, <3>4
      <4> QED BY <1>7, <1>u, <2>6, <2>9, <3>4, <4>1 DEF WhileAnswering, ask
    <3> QED BY <3>2, <3>3, <3>4
  <2>11. WhileNothing(p)'
    BY <1>9, <1>u, <2>3 DEF WhileNothing
  <2>12. WhileFetching(p)' /\ WhileClicking(p)'
    BY <1>7, <2>6 DEF WhileFetching, WhileClicking, First
  <2> QED BY <1>8, <1>x, <2>10, <2>11, <2>12 DEF InStep
<1> QED BY <1>3, <1>10, <1>11, <1>12, <1>13 DEF Serve

LEMMA StepInvNext ==
  ASSUME TypeOK, TypeOK', \A q \in Pages : PageInv(q), StepInv, [Next]_vars
  PROVE  StepInv'
<1>a. audience' = audience
  <2>1. ASSUME NEW q \in Pages, PageSteps(q) PROVE audience' = audience
    BY <2>1, ServesReply DEF PageSteps, Open, Drop, User, Step, Click, Submit, Receive, Takes,
       ReceiveDatum, ReceiveError, ReceiveSync, ReceiveResult, HangUp, server
  <2> QED BY <2>1 DEF Next, PageSteps, vars, server
<1> SUFFICES ASSUME OneWaits, NEW p \in audience.pages PROVE InStep(p)'
  BY <1>a DEF StepInv, OneWaits
<1>1. Alone(p) /\ p \in Pages /\ InStep(p) /\ PageInv(p)
  BY DEF Alone, OneWaits, StepInv
<1>2. InLine(p)
  BY <1>1, LineIs DEF InLine, PageInv, Alone, OneWaits
<1>3. ASSUME NEW q \in Pages, PageSteps(q) PROVE InStep(p)'
  <2>1. q = p
    BY <1>1, <1>3, OnlyPageSteps DEF PageInv
  <2>2. ~Drop(p)
    BY <1>1, OnlySocket DEF PageInv
  <2> QED BY <1>1, <1>2, <1>3, <2>1, <2>2, InStepOpen, InStepUser, InStepReceive, InStepServer
          DEF PageSteps, PageInv
<1>4. CASE UNCHANGED vars
  BY <1>1, <1>4
     DEF vars, server, wire, screen, page, InStep, AnsweredWhereShown, HasAnswer, WhileNothing,
         WhileFetching, WhileClicking, WhileAsking, WhileAnswering, Settled, ToolbarTrue, Knows,
         Sent, First
<1> QED BY <1>3, <1>4 DEF Next, PageSteps

THEOREM PageCorrect == Spec => [](TypeOK /\ LineInv /\ StepInv)
<1>1. Init => StepInv
  BY InStepInit, AudienceFields DEF StepInv, OneWaits, Init
<1>2. TypeOK /\ LineInv /\ StepInv /\ TypeOK' /\ [Next]_vars => StepInv'
  BY LineInvIs, StepInvNext
<1> QED BY <1>1, <1>2, LineCorrect, PTL DEF Spec

\* app.js, rule 3 and showError: for one user who waits on a connection that holds, an
\* expression is answered at the state that was displayed when it was submitted, and
\* once nothing is under way the toolbar is the session's, for every number of clicks,
\* evaluations and retired verbs.
THEOREM PageKeepsInStep == Spec => []PageInStep
<1>1. ASSUME TypeOK, LineInv, StepInv PROVE PageInStep
  <2> SUFFICES ASSUME OneWaits, NEW q \in Pages
               PROVE  AnsweredWhereShown(q) /\ (datum[q] # None /\ Settled(q) => ToolbarTrue(q))
    BY DEF PageInStep
  <2>1. CASE q \in audience.pages
    BY <1>1, <2>1 DEF StepInv, InStep, WhileNothing
  <2>2. CASE q \notin audience.pages
    <3>1. ~connected[q] /\ asks[q] = <<>>
      BY <1>1, <2>2 DEF LineInv, Wired, Displays
    <3> QED BY <3>1 DEF Settled, AnsweredWhereShown
  <2> QED BY <2>1, <2>2
<1> QED BY <1>1, PageCorrect, PTL
=============================================================================
