------------------------- MODULE ParallelFoldProofs -------------------------
(***************************************************************************)
(* Proofs about ParallelFold, for any number of workers and items, any     *)
(* dispatch order and any results.                                         *)
(*                                                                         *)
(* The inductive invariant accounts for every dispatched slot: it is in    *)
(* the hands of one worker, or in the channel once, or filed, and never in *)
(* two of these places.                                                    *)
(***************************************************************************)
EXTENDS ParallelFold, TLAPS

InHand(w) == pc[w] = "work"
Waiting(s) == \E k \in 1..Len(channel) : channel[k] = s

\* A slot in hand is dispatched, in no other hand, not waiting and not filed.
HandsInv ==
  \A w \in Workers : InHand(w) =>
    /\ claimed[w] \in Slots
    /\ claimed[w] < next
    /\ results[claimed[w]] = None
    /\ ~Waiting(claimed[w])
    /\ \A v \in Workers : InHand(v) /\ claimed[v] = claimed[w] => v = w

\* A waiting slot is dispatched, waits once and is not filed.
ChannelInv ==
  /\ \A k \in 1..Len(channel) : channel[k] < next /\ results[channel[k]] = None
  /\ \A k, l \in 1..Len(channel) : channel[k] = channel[l] => k = l

\* A filed slot is dispatched and holds the result of its item.
FiledInv ==
  \A s \in Slots : results[s] # None => s < next /\ results[s] = Result[Order[s]]

\* No dispatched slot is lost.
AccountedInv ==
  \A s \in Slots : s < next =>
    \/ results[s] # None
    \/ Waiting(s)
    \/ \E w \in Workers : InHand(w) /\ claimed[w] = s

\* Only the items of filed slots are reported, each of them once.
ReportedInv ==
  /\ \A m \in DOMAIN reported : \A s \in Slots : Order[s] = reported[m] => results[s] # None
  /\ \A m, n \in DOMAIN reported : reported[m] = reported[n] => m = n

\* The flag is up exactly when a filed slot has triggered.
StopInv ==
  /\ stop <=> trig # None
  /\ stop => failFast
  /\ trig # None => results[trig] # None
  /\ \A w \in Workers : pc[w] = "left" => stop \/ next >= Count

LateInv ==
  \A w \in Workers : /\ late[w] # {} => stop /\ pc[w] # "claim"
                     /\ \A s, t \in late[w] : s = t

ReturnedInv ==
  returned # None =>
    /\ returned = ByPosition
    /\ channel = <<>>
    /\ \A w \in Workers : pc[w] = "left"

FoldInv == /\ HandsInv /\ ChannelInv /\ FiledInv /\ AccountedInv
           /\ ReportedInv /\ StopInv /\ LateInv /\ ReturnedInv

-----------------------------------------------------------------------------

LEMMA InitOK == Init => TypeOK /\ FoldInv
<1> SUFFICES ASSUME Init PROVE TypeOK /\ FoldInv
  OBVIOUS
<1> USE DEF Init
<1>1. channel \in Seq(Slots) /\ reported \in Seq(Items)
  OBVIOUS
<1>2. results \in [Slots -> Results \cup {None}]
  OBVIOUS
<1>3. late \in [Workers -> SUBSET Slots]
  OBVIOUS
<1>4. TypeOK
  BY <1>1, <1>2, <1>3 DEF TypeOK
<1>5. HandsInv /\ LateInv
  BY DEF HandsInv, LateInv, InHand
<1>6. ChannelInv /\ FiledInv
  BY DEF ChannelInv, FiledInv
<1>7. AccountedInv
  BY CountAssumption DEF AccountedInv, Slots
<1>8. ReportedInv
  BY DEF ReportedInv
<1>9. StopInv /\ ReturnedInv
  BY DEF StopInv, ReturnedInv
<1>10. QED
  BY <1>4, <1>5, <1>6, <1>7, <1>8, <1>9 DEF FoldInv

LEMMA CheckOK ==
  ASSUME TypeOK, FoldInv, NEW w \in Workers, Check(w)
  PROVE  TypeOK' /\ FoldInv'
<1>1. UNCHANGED <<failFast, claimed, next, stop, channel, results, trig, returned, reported, late>>
  BY DEF Check
<1>2. /\ pc[w] = "check"
      /\ pc' = [pc EXCEPT ![w] = IF failFast /\ stop THEN "left" ELSE "claim"]
  BY DEF Check, Moves
<1>3. pc' \in [Workers -> {"check", "claim", "work", "left"}]
  BY <1>2 DEF TypeOK
<1>4. TypeOK'
  BY <1>1, <1>3 DEF TypeOK
<1>5. \A v \in Workers : InHand(v)' <=> InHand(v)
  BY <1>2 DEF TypeOK, InHand
<1>6. \A s : Waiting(s)' <=> Waiting(s)
  BY <1>1 DEF Waiting
<1>7. HandsInv'
  BY <1>1, <1>5, <1>6 DEF FoldInv, HandsInv
<1>8. ChannelInv' /\ FiledInv' /\ ReportedInv'
  BY <1>1 DEF FoldInv, ChannelInv, FiledInv, ReportedInv
<1>9. AccountedInv'
  BY <1>1, <1>5, <1>6 DEF FoldInv, AccountedInv
<1>10. StopInv'
  BY <1>1, <1>2 DEF FoldInv, StopInv, TypeOK
<1>11. LateInv'
  BY <1>1, <1>2 DEF FoldInv, LateInv, StopInv, TypeOK
<1>12. returned = None
  BY <1>2 DEF FoldInv, ReturnedInv
<1>13. ReturnedInv'
  BY <1>1, <1>12 DEF ReturnedInv
<1>14. QED
  BY <1>4, <1>7, <1>8, <1>9, <1>10, <1>11, <1>13 DEF FoldInv

LEMMA ClaimOK ==
  ASSUME TypeOK, FoldInv, NEW w \in Workers, Claim(w)
  PROVE  TypeOK' /\ FoldInv'
<1>1. next' = next + 1 /\ next \in Nat /\ next' \in Nat
  BY DEF Claim, TypeOK
<1>2. UNCHANGED <<failFast, stop, channel, results, trig, returned, reported>>
  BY DEF Claim
<1>3. \A s : Waiting(s)' <=> Waiting(s)
  BY <1>2 DEF Waiting
<1>4. pc[w] = "claim"
  BY DEF Claim, Moves
<1>5. late[w] = {}
  BY <1>4 DEF FoldInv, LateInv
<1>6. returned = None
  BY <1>4 DEF FoldInv, ReturnedInv
<1>7. ReturnedInv'
  BY <1>2, <1>6 DEF ReturnedInv
<1>8. ReportedInv'
  BY <1>2 DEF FoldInv, ReportedInv
<1>9. FiledInv'
  <2>1. \A s \in Slots : s < next => s < next'
    BY <1>1, CountAssumption DEF Slots
  <2>2. QED
    BY <1>2, <2>1 DEF FoldInv, FiledInv
<1>10. ChannelInv'
  <2>1. \A k \in 1..Len(channel) : channel[k] \in Slots
    BY DEF TypeOK
  <2>2. \A k \in 1..Len(channel) : channel[k] < next'
    BY <1>1, <2>1, CountAssumption DEF FoldInv, ChannelInv, Slots
  <2>3. QED
    BY <1>2, <2>2 DEF FoldInv, ChannelInv
<1>11. CASE next < Count
  <2>1. /\ pc' = [pc EXCEPT ![w] = "work"]
        /\ claimed' = [claimed EXCEPT ![w] = next]
        /\ late' = IF stop THEN [late EXCEPT ![w] = @ \cup {next}] ELSE late
    BY <1>11 DEF Claim, Moves
  <2>2. next \in Slots
    BY <1>1, <1>11, CountAssumption DEF Slots
  <2>3. TypeOK'
    <3>1. pc' \in [Workers -> {"check", "claim", "work", "left"}]
      BY <2>1 DEF TypeOK
    <3>2. claimed' \in [Workers -> Slots \cup {None}]
      BY <2>1, <2>2 DEF TypeOK
    <3>3. late' \in [Workers -> SUBSET Slots]
      BY <2>1, <2>2 DEF TypeOK
    <3>4. QED
      BY <1>1, <1>2, <3>1, <3>2, <3>3 DEF TypeOK
  <2>4. InHand(w)' /\ claimed'[w] = next
    BY <2>1 DEF TypeOK, InHand
  <2>5. \A v \in Workers : v # w => (InHand(v)' <=> InHand(v)) /\ claimed'[v] = claimed[v]
    BY <2>1 DEF TypeOK, InHand
  <2>6. HandsInv'
    <3>1. results[next] = None
      BY <1>1, <2>2 DEF FoldInv, FiledInv
    <3>2. ~Waiting(next)
      BY <1>1 DEF FoldInv, ChannelInv, Waiting
    <3>3. \A v \in Workers : v # w /\ InHand(v) => claimed[v] \in Slots /\ claimed[v] < next /\ claimed[v] < next'
      BY <1>1, CountAssumption DEF FoldInv, HandsInv, Slots
    <3>4. \A v \in Workers : v # w /\ InHand(v) => claimed[v] # next
      BY <1>1, <3>3
    <3>5. next < next'
      BY <1>1
    <3>6. QED
      BY <1>2, <1>3, <2>2, <2>4, <2>5, <3>1, <3>2, <3>3, <3>4, <3>5 DEF FoldInv, HandsInv
  <2>7. AccountedInv'
    <3>1. \A s \in Slots : s < next' => s < next \/ s = next
      BY <1>1, CountAssumption DEF Slots
    <3>2. pc[w] # "work"
      BY <1>4
    <3>3. \A s \in Slots, v \in Workers : InHand(v) /\ claimed[v] = s => InHand(v)' /\ claimed'[v] = s
      BY <2>5, <3>2 DEF InHand
    <3>4. QED
      BY <1>2, <1>3, <2>4, <3>1, <3>3 DEF FoldInv, AccountedInv
  <2>8. StopInv'
    BY <1>1, <1>2, <2>1, CountAssumption DEF FoldInv, StopInv, TypeOK
  <2>9. LateInv'
    BY <1>2, <1>5, <2>1 DEF FoldInv, LateInv, TypeOK
  <2>10. QED
    BY <1>7, <1>8, <1>9, <1>10, <2>3, <2>6, <2>7, <2>8, <2>9 DEF FoldInv
<1>12. CASE ~(next < Count)
  <2>1. pc' = [pc EXCEPT ![w] = "left"] /\ claimed' = claimed /\ late' = late
    BY <1>12 DEF Claim, Moves
  <2>2. pc' \in [Workers -> {"check", "claim", "work", "left"}]
    BY <2>1 DEF TypeOK
  <2>3. TypeOK'
    BY <1>1, <1>2, <2>1, <2>2 DEF TypeOK
  <2>4. \A v \in Workers : InHand(v)' <=> InHand(v)
    BY <1>4, <2>1 DEF TypeOK, InHand
  <2>5. HandsInv'
    <3>1. \A v \in Workers : InHand(v) => claimed[v] \in Slots /\ claimed[v] < next'
      BY <1>1, CountAssumption DEF FoldInv, HandsInv, Slots
    <3>2. QED
      BY <1>2, <1>3, <2>1, <2>4, <3>1 DEF FoldInv, HandsInv
  <2>6. AccountedInv'
    <3>1. \A s \in Slots : s < next
      BY <1>1, <1>12, CountAssumption DEF Slots
    <3>2. QED
      BY <1>2, <1>3, <2>1, <2>4, <3>1 DEF FoldInv, AccountedInv
  <2>7. StopInv'
    BY <1>1, <1>2, <1>12, <2>1, CountAssumption DEF FoldInv, StopInv, TypeOK
  <2>8. LateInv'
    BY <1>2, <2>1 DEF FoldInv, LateInv, TypeOK
  <2>9. QED
    BY <1>7, <1>8, <1>9, <1>10, <2>3, <2>5, <2>6, <2>7, <2>8 DEF FoldInv
<1>13. QED
  BY <1>11, <1>12

LEMMA WorkOK ==
  ASSUME TypeOK, FoldInv, NEW w \in Workers, Work(w)
  PROVE  TypeOK' /\ FoldInv'
<1>1. /\ pc[w] = "work"
      /\ pc' = [pc EXCEPT ![w] = "check"]
      /\ channel' = Append(channel, claimed[w])
  BY DEF Work, Moves
<1>2. UNCHANGED <<failFast, claimed, next, stop, results, trig, returned, reported, late>>
  BY DEF Work
<1>3. /\ claimed[w] \in Slots
      /\ claimed[w] < next
      /\ results[claimed[w]] = None
      /\ ~Waiting(claimed[w])
      /\ \A v \in Workers : InHand(v) /\ claimed[v] = claimed[w] => v = w
  BY <1>1 DEF FoldInv, HandsInv, InHand
<1>4. channel \in Seq(Slots)
  BY DEF TypeOK
<1>5. /\ Len(channel') = Len(channel) + 1
      /\ Len(channel) \in Nat
      /\ \A k \in 1..Len(channel) : channel'[k] = channel[k]
      /\ channel'[Len(channel) + 1] = claimed[w]
  BY <1>1, <1>3, <1>4
<1>6. TypeOK'
  <2>1. channel' \in Seq(Slots)
    BY <1>1, <1>3, <1>4
  <2>2. pc' \in [Workers -> {"check", "claim", "work", "left"}]
    BY <1>1 DEF TypeOK
  <2>3. QED
    BY <1>2, <2>1, <2>2 DEF TypeOK
<1>7. \A s : Waiting(s)' <=> Waiting(s) \/ s = claimed[w]
  BY <1>5 DEF Waiting
<1>8. \A v \in Workers : InHand(v)' <=> InHand(v) /\ v # w
  BY <1>1 DEF TypeOK, InHand
<1>9. HandsInv'
  BY <1>2, <1>3, <1>7, <1>8 DEF FoldInv, HandsInv
<1>10. ChannelInv'
  <2>1. \A k \in 1..Len(channel) : channel[k] # claimed[w]
    BY <1>3 DEF Waiting
  <2>2. \A k \in 1..Len(channel') : k \in 1..Len(channel) \/ k = Len(channel) + 1
    BY <1>5
  <2>3. \A k \in 1..Len(channel') : channel'[k] < next' /\ results'[channel'[k]] = None
    BY <1>2, <1>3, <1>5, <2>2 DEF FoldInv, ChannelInv
  <2>4. \A k, l \in 1..Len(channel') : channel'[k] = channel'[l] => k = l
    BY <1>5, <2>1, <2>2 DEF FoldInv, ChannelInv
  <2>5. QED
    BY <2>3, <2>4 DEF ChannelInv
<1>11. FiledInv' /\ ReportedInv'
  BY <1>2 DEF FoldInv, FiledInv, ReportedInv
<1>12. AccountedInv'
  BY <1>2, <1>7, <1>8 DEF FoldInv, AccountedInv
<1>13. StopInv' /\ LateInv'
  BY <1>1, <1>2 DEF FoldInv, StopInv, LateInv, TypeOK
<1>14. returned = None
  BY <1>1 DEF FoldInv, ReturnedInv
<1>15. ReturnedInv'
  BY <1>2, <1>14 DEF ReturnedInv
<1>16. QED
  BY <1>6, <1>9, <1>10, <1>11, <1>12, <1>13, <1>15 DEF FoldInv

LEMMA ReceiveOK ==
  ASSUME TypeOK, FoldInv, Receive
  PROVE  TypeOK' /\ FoldInv'
<1> DEFINE s == Head(channel)
<1>1. channel \in Seq(Slots) /\ channel # <<>> /\ channel' = Tail(channel)
  BY DEF Receive, TypeOK
<1>2. /\ results' = [results EXCEPT ![s] = Result[Order[s]]]
      /\ reported' = Append(reported, Order[s])
      /\ trig' = IF Trips(s) THEN s ELSE trig
      /\ stop' = (stop \/ Trips(s))
  BY DEF Receive
<1>3. UNCHANGED <<failFast, pc, claimed, next, returned, late>>
  BY DEF Receive
<1>4. /\ Len(channel) \in Nat
      /\ Len(channel) > 0
      /\ s = channel[1]
      /\ s \in Slots
      /\ Len(channel') = Len(channel) - 1
      /\ \A k \in 1..Len(channel') : channel'[k] = channel[k+1]
  BY <1>1
<1>5. s < next /\ results[s] = None /\ Waiting(s)
  BY <1>4 DEF FoldInv, ChannelInv, Waiting
<1>6. /\ Order[s] \in Items
      /\ Result[Order[s]] \in Results
      /\ Result[Order[s]] # None
  BY <1>4, OrderAssumption, ResultAssumption DEF Results
<1> HIDE DEF s
<1>7. /\ results'[s] = Result[Order[s]]
      /\ \A t \in Slots : t # s => results'[t] = results[t]
  BY <1>2, <1>4 DEF TypeOK
<1>8. \A t : Waiting(t)' => Waiting(t)
  <2>1. \A k \in 1..Len(channel') : k + 1 \in 1..Len(channel)
    BY <1>4
  <2>2. QED
    BY <1>4, <2>1 DEF Waiting
<1>9. \A k \in 1..Len(channel') : /\ k + 1 \in 1..Len(channel)
                                  /\ k + 1 # 1
                                  /\ channel'[k] \in Slots
  BY <1>1, <1>4
<1>10. \A k \in 1..Len(channel') : channel'[k] # s
  <2>1. 1 \in 1..Len(channel)
    BY <1>4
  <2>2. QED
    BY <1>4, <1>9, <2>1 DEF FoldInv, ChannelInv
<1>11. TypeOK'
  <2>1. channel' \in Seq(Slots)
    BY <1>1
  <2>2. results' \in [Slots -> Results \cup {None}]
    BY <1>2, <1>4, <1>6 DEF TypeOK
  <2>3. reported' \in Seq(Items)
    BY <1>2, <1>6 DEF TypeOK
  <2>4. trig' \in Slots \cup {None}
    BY <1>2, <1>4 DEF TypeOK
  <2>5. stop' \in BOOLEAN
    BY <1>2 DEF TypeOK, Trips
  <2>6. QED
    BY <1>3, <2>1, <2>2, <2>3, <2>4, <2>5 DEF TypeOK
<1>12. HandsInv'
  <2>1. \A w \in Workers : InHand(w)' <=> InHand(w)
    BY <1>3 DEF InHand
  <2>2. \A w \in Workers : InHand(w) => claimed[w] # s
    BY <1>5 DEF FoldInv, HandsInv
  <2>3. QED
    BY <1>3, <1>7, <1>8, <2>1, <2>2 DEF FoldInv, HandsInv
<1>13. ChannelInv'
  <2>1. \A k \in 1..Len(channel') : channel'[k] < next' /\ results'[channel'[k]] = None
    BY <1>3, <1>4, <1>7, <1>9, <1>10 DEF FoldInv, ChannelInv
  <2>2. \A k, l \in 1..Len(channel') : channel'[k] = channel'[l] => k = l
    BY <1>4, <1>9 DEF FoldInv, ChannelInv
  <2>3. QED
    BY <2>1, <2>2 DEF ChannelInv
<1>14. FiledInv'
  BY <1>3, <1>5, <1>7 DEF FoldInv, FiledInv
<1>15. AccountedInv'
  <2>1. \A t \in Slots : Waiting(t) => t = s \/ Waiting(t)'
    <3>1. SUFFICES ASSUME NEW k \in 1..Len(channel), k # 1
                   PROVE  \E l \in 1..Len(channel') : channel'[l] = channel[k]
      BY <1>4 DEF Waiting
    <3>2. k - 1 \in 1..Len(channel') /\ channel'[k - 1] = channel[k]
      BY <1>4, <3>1
    <3>3. QED
      BY <3>2
  <2>2. \A w \in Workers : InHand(w)' <=> InHand(w)
    BY <1>3 DEF InHand
  <2>3. results'[s] # None
    BY <1>6, <1>7
  <2>4. QED
    BY <1>3, <1>7, <2>1, <2>2, <2>3 DEF FoldInv, AccountedInv
<1>16. ReportedInv'
  <2>1. reported \in Seq(Items)
    BY DEF TypeOK
  <2>2. /\ Len(reported) \in Nat
        /\ DOMAIN reported = 1..Len(reported)
        /\ DOMAIN reported' = 1..(Len(reported) + 1)
        /\ \A m \in DOMAIN reported : reported'[m] = reported[m]
        /\ reported'[Len(reported) + 1] = Order[s]
    BY <1>2, <1>6, <2>1
  <2>3. \A m \in DOMAIN reported' : m \in DOMAIN reported \/ m = Len(reported) + 1
    BY <2>2
  <2>4. \A m \in DOMAIN reported : reported[m] # Order[s]
    BY <1>4, <1>5 DEF FoldInv, ReportedInv
  <2>5. \A t \in Slots : Order[t] = Order[s] => t = s
    BY <1>4, OrderAssumption
  <2>6. \A m \in DOMAIN reported' : \A t \in Slots : Order[t] = reported'[m] => results'[t] # None
    BY <1>6, <1>7, <2>2, <2>3, <2>5 DEF FoldInv, ReportedInv
  <2>7. \A m, n \in DOMAIN reported' : reported'[m] = reported'[n] => m = n
    BY <2>2, <2>3, <2>4 DEF FoldInv, ReportedInv
  <2>8. QED
    BY <2>6, <2>7 DEF ReportedInv
<1>17. StopInv'
  <2>1. s # None
    BY <1>4, ResultAssumption, CountAssumption DEF Slots
  <2>2. trig # None => trig \in Slots /\ trig # s /\ results[trig] # None
    BY <1>5 DEF FoldInv, StopInv, TypeOK
  <2>3. CASE Trips(s)
    <3>1. trig' = s /\ stop' /\ failFast
      BY <1>2, <2>3 DEF Trips
    <3>2. results'[trig'] # None
      BY <1>6, <1>7, <3>1
    <3>3. QED
      BY <1>3, <2>1, <3>1, <3>2 DEF StopInv
  <2>4. CASE ~Trips(s)
    <3>1. trig' = trig /\ stop' = stop
      BY <1>2, <2>4 DEF TypeOK
    <3>2. trig # None => results'[trig] # None
      BY <1>7, <2>2
    <3>3. QED
      BY <1>3, <3>1, <3>2 DEF FoldInv, StopInv
  <2>5. QED
    BY <2>3, <2>4
<1>18. LateInv'
  BY <1>2, <1>3 DEF FoldInv, LateInv, TypeOK
<1>19. returned = None
  BY <1>1 DEF FoldInv, ReturnedInv
<1>20. ReturnedInv'
  BY <1>3, <1>19 DEF ReturnedInv
<1>21. QED
  BY <1>11, <1>12, <1>13, <1>14, <1>15, <1>16, <1>17, <1>18, <1>20 DEF FoldInv

LEMMA Positions ==
  \A s \in Slots : (CHOOSE t \in Slots : Order[t] = Order[s]) = s
BY OrderAssumption

LEMMA ReturnOK ==
  ASSUME TypeOK, FoldInv, Return
  PROVE  TypeOK' /\ FoldInv'
<1>1. /\ \A w \in Workers : pc[w] = "left"
      /\ channel = <<>>
      /\ returned' = ByPosition
  BY DEF Return
<1>2. UNCHANGED <<failFast, pc, claimed, next, stop, channel, results, trig, reported, late>>
  BY DEF Return
<1>3. ByPosition \in [Items -> Results \cup {None}]
  <2>1. \A i \in Items : (CHOOSE s \in Slots : Order[s] = i) \in Slots
    BY OrderAssumption
  <2>2. QED
    BY <2>1 DEF TypeOK, ByPosition
<1>4. TypeOK'
  BY <1>1, <1>2, <1>3 DEF TypeOK
<1>5. \A w \in Workers : InHand(w)' <=> InHand(w)
  BY <1>2 DEF InHand
<1>6. \A s : Waiting(s)' <=> Waiting(s)
  BY <1>2 DEF Waiting
<1>7. HandsInv' /\ AccountedInv'
  BY <1>2, <1>5, <1>6 DEF FoldInv, HandsInv, AccountedInv
<1>8. ChannelInv' /\ FiledInv' /\ ReportedInv' /\ StopInv' /\ LateInv'
  BY <1>2 DEF FoldInv, ChannelInv, FiledInv, ReportedInv, StopInv, LateInv
<1>9. ByPosition' = ByPosition
  BY <1>2 DEF ByPosition
<1>10. ReturnedInv'
  BY <1>1, <1>2, <1>9 DEF ReturnedInv
<1>11. QED
  BY <1>4, <1>7, <1>8, <1>10 DEF FoldInv

LEMMA StutterOK ==
  ASSUME TypeOK, FoldInv, UNCHANGED vars
  PROVE  TypeOK' /\ FoldInv'
<1>1. TypeOK'
  BY DEF TypeOK, vars
<1>2. HandsInv' /\ AccountedInv'
  BY DEF FoldInv, HandsInv, AccountedInv, InHand, Waiting, vars
<1>3. ChannelInv' /\ FiledInv' /\ ReportedInv' /\ StopInv' /\ LateInv'
  BY DEF FoldInv, ChannelInv, FiledInv, ReportedInv, StopInv, LateInv, vars
<1>4. ReturnedInv'
  BY DEF FoldInv, ReturnedInv, ByPosition, vars
<1>5. QED
  BY <1>1, <1>2, <1>3, <1>4 DEF FoldInv

\* Every dispatched slot stays accounted for, whatever the threads do.
THEOREM FoldCorrect == Spec => [](TypeOK /\ FoldInv)
<1>1. Init => TypeOK /\ FoldInv
  BY InitOK
<1>2. (TypeOK /\ FoldInv) /\ [Next]_vars => (TypeOK /\ FoldInv)'
  BY CheckOK, ClaimOK, WorkOK, ReceiveOK, ReturnOK, StutterOK DEF Next
<1>3. QED
  BY <1>1, <1>2, PTL DEF Spec

-----------------------------------------------------------------------------

LEMMA ReturnedIsFolded == TypeOK /\ FoldInv => FoldedByPosition
<1> SUFFICES ASSUME TypeOK, FoldInv, returned # None PROVE FoldedByPosition
  BY DEF FoldedByPosition
<1>1. /\ returned = ByPosition
      /\ channel = <<>>
      /\ \A w \in Workers : pc[w] = "left"
  BY DEF FoldInv, ReturnedInv
<1>2. \A s \in Slots : returned[Order[s]] = results[s]
  <2>1. \A s \in Slots : Order[s] \in Items
    BY OrderAssumption
  <2>2. QED
    BY <1>1, <2>1, Positions DEF ByPosition
<1>3. \A s \in Slots : results[s] # None <=> s \in Dispatched
  <2>1. \A s : ~Waiting(s)
    BY <1>1 DEF Waiting
  <2>2. \A w \in Workers : ~InHand(w)
    BY <1>1 DEF InHand
  <2>3. QED
    BY <2>1, <2>2 DEF FoldInv, AccountedInv, FiledInv, Dispatched
<1>4. \A s \in Slots : s \in Dispatched => results[s] = Result[Order[s]]
  BY <1>3 DEF FoldInv, FiledInv
<1>5. trig = None => Dispatched = Slots
  <2>1. SUFFICES ASSUME trig = None PROVE next >= Count
    BY CountAssumption DEF Dispatched, Slots, TypeOK
  <2>2. QED
    BY <1>1, <2>1, WorkersAssumption DEF FoldInv, StopInv
<1>6. trig # None => trig \in Dispatched
  BY <1>3 DEF FoldInv, StopInv, TypeOK
<1>7. QED
  BY <1>2, <1>3, <1>4, <1>5, <1>6 DEF FoldedByPosition

\* The caller's fold is the same at every job count and every schedule, no item is
\* reported twice, and behind a raised flag each worker claims at most one slot.
THEOREM Deterministic == Spec => []FoldsByPosition
<1>1. TypeOK /\ FoldInv => ReportedOnce
  BY DEF FoldInv, ReportedInv, ReportedOnce
<1>2. TypeOK /\ FoldInv => StopsDispatch
  BY DEF FoldInv, LateInv, StopsDispatch
<1>3. TypeOK /\ FoldInv => FoldsByPosition
  BY <1>1, <1>2, ReturnedIsFolded DEF FoldsByPosition
<1>4. QED
  BY <1>3, FoldCorrect, PTL
=============================================================================
