---------------------------- MODULE ParallelFold ----------------------------
(***************************************************************************)
(* The parallel fan-out of the conformance gauges                          *)
(* (als-conform: solve_gauge/parallel.rs).                                 *)
(*                                                                         *)
(* Scoped worker threads claim slots of a dispatch order from one shared   *)
(* counter, compute the item there and send its result down a channel to   *)
(* the calling thread, which files it under its slot; when every worker    *)
(* has left, the slots are put back in the order of the items.  With       *)
(* fail-fast the first result that triggers raises a stop flag, which the  *)
(* workers look at before they claim.                                      *)
(*                                                                         *)
(* What is computed for an item is a function of the item.  Progress lines *)
(* ride the same channel and change nothing: they are left out.            *)
(***************************************************************************)
EXTENDS Integers, Sequences, FiniteSets

CONSTANTS
  Workers,   \* the threads: "jobs", at least one
  Count,     \* the number of items
  Order,     \* the dispatch order: the item at each slot
  Result,    \* the result of each item
  Triggers,  \* the results that trigger
  None

Items == 0..Count-1
Slots == 0..Count-1
Results == {Result[i] : i \in Items}

ASSUME CountAssumption == Count \in Nat
ASSUME WorkersAssumption == Workers # {}
ASSUME OrderAssumption == /\ Order \in [Slots -> Items]
                          /\ \A s, t \in Slots : Order[s] = Order[t] => s = t
                          /\ \A i \in Items : \E s \in Slots : Order[s] = i
ASSUME ResultAssumption == /\ DOMAIN Result = Items
                           /\ None \notin Results \cup Int

VARIABLES
  failFast,  \* the mode of this call
  pc,        \* where each worker is
  claimed,   \* the slot each worker last claimed
  next,      \* the shared counter
  stop,      \* the stop flag
  channel,   \* the slots whose results are on their way
  results,   \* the results filed so far, by slot
  trig,      \* the slot that triggered
  returned,  \* what the caller gets, by item
  reported,  \* history: the items reported, in completion order
  late       \* history: the slots each worker claimed behind a raised flag

vars == <<failFast, pc, claimed, next, stop, channel, results, trig, returned,
          reported, late>>

TypeOK ==
  /\ failFast \in BOOLEAN
  /\ pc \in [Workers -> {"check", "claim", "work", "left"}]
  /\ claimed \in [Workers -> Slots \cup {None}]
  /\ next \in Nat
  /\ stop \in BOOLEAN
  /\ channel \in Seq(Slots)
  /\ results \in [Slots -> Results \cup {None}]
  /\ trig \in Slots \cup {None}
  /\ returned \in [Items -> Results \cup {None}] \cup {None}
  /\ reported \in Seq(Items)
  /\ late \in [Workers -> SUBSET Slots]

Init ==
  /\ failFast \in BOOLEAN
  /\ pc = [w \in Workers |-> "check"]
  /\ claimed = [w \in Workers |-> None]
  /\ next = 0
  /\ stop = FALSE
  /\ channel = <<>>
  /\ results = [s \in Slots |-> None]
  /\ trig = None
  /\ returned = None
  /\ reported = <<>>
  /\ late = [w \in Workers |-> {}]

-----------------------------------------------------------------------------
(* A worker.                                                               *)

Moves(w, from, to) == pc[w] = from /\ pc' = [pc EXCEPT ![w] = to]

CheckWaits(w) ==
  /\ ~(failFast /\ stop)
  /\ Moves(w, "check", "claim")
  /\ UNCHANGED <<failFast, claimed, next, stop, channel, results, trig, returned, reported,
                 late>>

CheckNever(w) ==
  /\ Moves(w, "check", "claim")
  /\ UNCHANGED <<failFast, claimed, next, stop, channel, results, trig, returned, reported,
                 late>>

\* Only the claim of a further slot is gated by the flag.
Check(w) ==
  /\ Moves(w, "check", IF failFast /\ stop THEN "left" ELSE "claim")
  /\ UNCHANGED <<failFast, claimed, next, stop, channel, results, trig, returned, reported,
                 late>>

ClaimWithoutCounting(w) ==
  /\ IF next < Count
     THEN /\ Moves(w, "claim", "work")
          /\ claimed' = [claimed EXCEPT ![w] = next]
          /\ late' = IF stop THEN [late EXCEPT ![w] = @ \cup {next}] ELSE late
          /\ next' = IF \E v \in Workers : pc[v] = "work" THEN next ELSE next + 1
     ELSE /\ Moves(w, "claim", "left")
          /\ next' = next + 1
          /\ UNCHANGED <<claimed, late>>
  /\ UNCHANGED <<failFast, stop, channel, results, trig, returned, reported>>

\* One atomic step: the counter moves whether or not a slot is left.
Claim(w) ==
  /\ next' = next + 1
  /\ IF next < Count
     THEN /\ Moves(w, "claim", "work")
          /\ claimed' = [claimed EXCEPT ![w] = next]
          /\ late' = IF stop THEN [late EXCEPT ![w] = @ \cup {next}] ELSE late
     ELSE /\ Moves(w, "claim", "left")
          /\ UNCHANGED <<claimed, late>>
  /\ UNCHANGED <<failFast, stop, channel, results, trig, returned, reported>>

\* A claimed slot always runs to completion.
Work(w) ==
  /\ Moves(w, "work", "check")
  /\ channel' = Append(channel, claimed[w])
  /\ UNCHANGED <<failFast, claimed, next, stop, results, trig, returned, reported,
                 late>>

-----------------------------------------------------------------------------
(* The calling thread.                                                     *)

\* The first result that triggers is kept, and raises the flag.
Trips(s) == /\ failFast
            /\ trig = None
            /\ Result[Order[s]] \in Triggers

Receive ==
  /\ channel # <<>>
  /\ LET s == Head(channel) IN
     /\ results' = [results EXCEPT ![s] = Result[Order[s]]]
     /\ reported' = Append(reported, Order[s])
     /\ trig' = IF Trips(s) THEN s ELSE trig
     /\ stop' = (stop \/ Trips(s))
  /\ channel' = Tail(channel)
  /\ UNCHANGED <<failFast, pc, claimed, next, returned, late>>

SlotsAsItems == [i \in Items |-> IF i \in Slots THEN results[i] ELSE None]

\* The result of the slot that carried each item.
ByPosition == [i \in Items |-> results[CHOOSE s \in Slots : Order[s] = i]]

\* The channel closes once every worker has left and all it held is received.
Return ==
  /\ returned = None
  /\ \A w \in Workers : pc[w] = "left"
  /\ channel = <<>>
  /\ returned' = ByPosition
  /\ UNCHANGED <<failFast, pc, claimed, next, stop, channel, results, trig, reported,
                 late>>

Next ==
  \/ \E w \in Workers : Check(w) \/ Claim(w) \/ Work(w)
  \/ Receive
  \/ Return

\* The threads run, and the caller drains the channel.
Fairness ==
  /\ \A w \in Workers : WF_vars(Check(w)) /\ WF_vars(Claim(w)) /\ WF_vars(Work(w))
  /\ WF_vars(Receive)
  /\ WF_vars(Return)

Spec == Init /\ [][Next]_vars /\ Fairness

-----------------------------------------------------------------------------
(* Properties.                                                             *)

\* The slots dispatched so far.
Dispatched == {s \in Slots : s < next}

\* What the caller folds depends on the items, never on the threads: without a
\* trigger it is every result under its own item, and with one it is the results of
\* the slots dispatched, a prefix of the dispatch order with the trigger in it. No
\* item is reported twice, whichever workers race for the counter; and behind a
\* raised flag a worker claims at most the one slot it was already past the check
\* for.
FoldedByPosition ==
  returned # None =>
    /\ \A s \in Slots :
         returned[Order[s]] = IF s \in Dispatched THEN Result[Order[s]] ELSE None
    /\ trig = None => Dispatched = Slots
    /\ trig # None => trig \in Dispatched
ReportedOnce ==
  \A m, n \in DOMAIN reported : reported[m] = reported[n] => m = n
StopsDispatch == \A w \in Workers : \A s, t \in late[w] : s = t
FoldsByPosition == FoldedByPosition /\ ReportedOnce /\ StopsDispatch

\* The call returns.
Terminates == <>(returned # None)
=============================================================================
