--------------------------- MODULE MMRCacheProofs ---------------------------
(***************************************************************************)
(* Theorems about MMRCache, for any number of lookups.  The invariant has  *)
(* three parts: the shape of the variables, the ownership of the call in   *)
(* flight, and what a lookup can fall back on; a fourth, the age of ranks, *)
(* holds as long as the process is not restarted.                          *)
(***************************************************************************)
EXTENDS MMRCache, TLAPS, SequenceTheorems

EntryShape == [gen : Nat, outcome : Outcomes, boundary : Nat, fresh : BOOLEAN]
CallShape == [outcome : Outcomes, boundary : Nat, done : BOOLEAN]
Phases == {"idle", "read", "lock", "wait"} \cup Leading

\* The functions are functions on Lookups, the sequences sequences, and a lookup that
\* leads or waits has a call.
Shape ==
  /\ gen \in Nat /\ boundaries \in Nat /\ restarts \in Nat /\ inflight \in 0..Len(calls)
  /\ entry \in Seq(EntryShape) /\ calls \in Seq(CallShape)
  /\ pc \in [Lookups -> Phases] /\ mygen \in [Lookups -> Nat]
  /\ cached \in [Lookups -> Seq(EntryShape)] /\ mycall \in [Lookups -> Nat]
  /\ began \in [Lookups -> Nat] /\ filled \in [Lookups -> BOOLEAN]
  /\ \A l \in Lookups : pc[l] \in Leading \cup {"wait"} => mycall[l] \in 1..Len(calls)

\* The leader owns the entry of the map.
Ownership ==
  /\ \A l \in Lookups : pc[l] \in Leading => inflight # 0 /\ mycall[l] = inflight
  /\ InflightIsLed
  /\ SingleFlight

\* A lookup to which the store has promised ranks finds them, or holds them already.
Fallback ==
  /\ \A l \in Lookups :
       filled[l] /\ pc[l] # "idle" =>
         IF pc[l] = "read" THEN HasRanks(entry) ELSE HasRanks(cached[l])
  /\ FallsBack

\* In the first run of the process generations count boundaries, and no ranks are older than the generation they are
\* stored under.
Age ==
  restarts = 0 =>
    /\ gen = boundaries
    /\ \A l \in Lookups : pc[l] # "idle" => mygen[l] = began[l] /\ mygen[l] <= gen
    /\ \A l \in Lookups : pc[l] \in Leading => calls[mycall[l]].boundary >= mygen[l]
    /\ entry # <<>> => entry[1].boundary >= entry[1].gen
    /\ HitsAreOfThisMatch

-----------------------------------------------------------------------------
(* Shape                                                                   *)

LEMMA InitShape == Init => Shape
BY EmptySeq DEF Init, Idle, Shape, Phases, Leading

LEMMA StepShape == Shape /\ [Next]_vars => Shape'
<1> SUFFICES ASSUME Shape, [Next]_vars PROVE Shape'
  OBVIOUS
<1> USE DEF Shape, Phases, Leading, history
<1>1. CASE Invalidate
  BY <1>1 DEF Invalidate, locals
<1>2. CASE Expire
  <2>1. entry[1] \in EntryShape
    BY <1>2, ElementOfSeq, LenProperties, EmptySeq DEF Expire
  <2>2. [entry[1] EXCEPT !.fresh = FALSE] \in EntryShape
    BY <2>1 DEF EntryShape
  <2> QED BY <1>2, <2>2 DEF Expire, locals
<1>3. CASE Restart
  BY <1>3, EmptySeq DEF Restart
<1>4. ASSUME NEW l \in Lookups, Begin(l) PROVE Shape'
  BY <1>4 DEF Begin, HasRanks
<1>5. ASSUME NEW l \in Lookups, NEW a, Return(l, a), UNCHANGED <<gen, entry, calls, history>>,
             inflight' \in {0, inflight}
      PROVE  Shape'
  BY <1>5, EmptySeq, LenProperties DEF Return
<1>6. ASSUME NEW l \in Lookups, Hit(l) \/ Unregister(l) \/ Wake(l) \/ GiveUp(l) PROVE Shape'
  BY <1>5, <1>6 DEF Hit, Unregister, Wake, GiveUp, Conclude
<1>7. ASSUME NEW l \in Lookups, Miss(l) PROVE Shape'
  BY <1>7 DEF Miss
<1>8. ASSUME NEW l \in Lookups, ReadFails(l) PROVE Shape'
  BY <1>8 DEF ReadFails
<1>9. ASSUME NEW l \in Lookups, Lead(l) PROVE Shape'
  <2>1. NewCall \in CallShape
    BY DEF NewCall, CallShape, Outcomes
  <2>2. calls' \in Seq(CallShape) /\ Len(calls') = Len(calls) + 1 /\ Len(calls) \in Nat
    BY <1>9, <2>1, AppendProperties, LenProperties DEF Lead, BeginCall
  <2> QED BY <1>9, <2>2 DEF Lead, BeginCall
<1>10. ASSUME NEW l \in Lookups, Join(l) PROVE Shape'
  BY <1>10, LenProperties DEF Join
<1>11. ASSUME NEW l \in Lookups, NEW call \in CallShape, mycall[l] \in 1..Len(calls),
              calls' = [calls EXCEPT ![mycall[l]] = call]
       PROVE  calls' \in Seq(CallShape) /\ Len(calls') = Len(calls)
  BY <1>11, ExceptSeq
<1>12. ASSUME NEW l \in Lookups, mycall[l] \in 1..Len(calls)
       PROVE  calls[mycall[l]] \in CallShape
  BY <1>12, ElementOfSeq
<1>13. ASSUME NEW l \in Lookups, NEW outcome \in Outcomes, CallReturns(l, outcome) PROVE Shape'
  <2>1. mycall[l] \in 1..Len(calls)
    BY <1>13 DEF CallReturns
  <2>2. [calls[mycall[l]] EXCEPT !.outcome = outcome] \in CallShape
    BY <1>12, <2>1 DEF CallShape
  <2>3. calls' \in Seq(CallShape) /\ Len(calls') = Len(calls)
    BY <1>11, <1>13, <2>1, <2>2 DEF CallReturns
  <2> QED BY <1>13, <2>3 DEF CallReturns
<1>14. ASSUME NEW l \in Lookups, Store(l) PROVE Shape'
  <2> DEFINE row == [gen |-> mygen[l], outcome |-> calls[mycall[l]].outcome,
                     boundary |-> calls[mycall[l]].boundary, fresh |-> TRUE]
  <2>1. mycall[l] \in 1..Len(calls)
    BY <1>14 DEF Store, StoreUnder
  <2>2. row \in EntryShape
    BY <1>12, <2>1 DEF CallShape, EntryShape
  <2>3. entry' = <<row>>
    BY <1>14 DEF Store, StoreUnder
  <2> HIDE DEF row
  <2>4. entry' \in Seq(EntryShape)
    BY <2>2, <2>3
  <2>5. filled' \in [Lookups -> BOOLEAN]
    BY <1>14 DEF Store, StoreUnder
  <2> QED BY <1>14, <2>4, <2>5 DEF Store, StoreUnder
<1>15. ASSUME NEW l \in Lookups, StoreFails(l) PROVE Shape'
  BY <1>15 DEF StoreFails
<1>16. ASSUME NEW l \in Lookups, Close(l) PROVE Shape'
  <2>1. mycall[l] \in 1..Len(calls)
    BY <1>16 DEF Close
  <2>2. [calls[mycall[l]] EXCEPT !.done = TRUE] \in CallShape
    BY <1>12, <2>1 DEF CallShape
  <2>3. calls' \in Seq(CallShape) /\ Len(calls') = Len(calls)
    BY <1>11, <1>16, <2>1, <2>2 DEF Close
  <2> QED BY <1>16, <2>3 DEF Close
<1>17. CASE UNCHANGED vars
  BY <1>17 DEF vars, locals
<1> HIDE DEF Shape
<1> QED
  BY <1>1, <1>2, <1>3, <1>4, <1>6, <1>7, <1>8, <1>9, <1>10, <1>13, <1>14, <1>15, <1>16, <1>17
  DEF Next, LookupStep

-----------------------------------------------------------------------------
(* Ownership of the call in flight                                         *)

LEMMA InitOwnership == Init => Ownership
BY DEF Init, Idle, Ownership, InflightIsLed, SingleFlight, Leading

LEMMA StepOwnership == Shape /\ Ownership /\ [Next]_vars => Ownership'
<1> SUFFICES ASSUME Shape, Ownership, [Next]_vars PROVE Ownership'
  OBVIOUS
<1> USE DEF Ownership, InflightIsLed, SingleFlight, Leading
<1>s. /\ pc \in [Lookups -> Phases] /\ mycall \in [Lookups -> Nat]
      /\ Len(calls) \in Nat
  BY LenProperties DEF Shape
\* A step of a lookup that leads neither before nor after.
<1>1. ASSUME NEW l \in Lookups, NEW phase \in {"idle", "read", "lock", "wait"}, NEW n \in Nat,
             pc[l] \notin Leading, inflight' = inflight,
             pc' = [pc EXCEPT ![l] = phase], mycall' \in {mycall, [mycall EXCEPT ![l] = n]}
      PROVE  Ownership'
  BY <1>1, <1>s
\* A step from one phase of a leader to another.
<1>2. ASSUME NEW l \in Lookups, NEW phase \in Leading, pc[l] \in Leading,
             pc' = [pc EXCEPT ![l] = phase], UNCHANGED <<inflight, mycall>>
      PROVE  Ownership'
  BY <1>2, <1>s
<1>3. ASSUME NEW l \in Lookups, Begin(l) \/ Miss(l) \/ ReadFails(l) PROVE Ownership'
  BY <1>1, <1>3 DEF Begin, Miss, ReadFails
<1>4. ASSUME NEW l \in Lookups, Hit(l) \/ Wake(l) \/ GiveUp(l) PROVE Ownership'
  BY <1>1, <1>4 DEF Hit, Wake, GiveUp, Conclude, Return
<1>5. ASSUME NEW l \in Lookups, Join(l) PROVE Ownership'
  BY <1>1, <1>5, <1>s DEF Join, Shape
<1>6. ASSUME NEW l \in Lookups, NEW outcome \in Outcomes, CallReturns(l, outcome) PROVE Ownership'
  BY <1>2, <1>6 DEF CallReturns
<1>7. ASSUME NEW l \in Lookups, Store(l) \/ StoreFails(l) \/ Close(l) PROVE Ownership'
  BY <1>2, <1>7 DEF Store, StoreUnder, StoreFails, Close
<1>8. ASSUME NEW l \in Lookups, Lead(l) PROVE Ownership'
  <2>1. \A k \in Lookups : pc[k] \notin Leading
    BY <1>8 DEF Lead
  <2> QED BY <1>8, <1>s, <2>1 DEF Lead, BeginCall
<1>9. ASSUME NEW l \in Lookups, Unregister(l) PROVE Ownership'
  <2>1. \A k \in Lookups : k # l => pc[k] \notin Leading
    BY <1>9 DEF Unregister
  <2> QED BY <1>9, <1>s, <2>1 DEF Unregister, Conclude, Return
<1>10. CASE Invalidate \/ Expire \/ UNCHANGED vars
  BY <1>10 DEF Invalidate, Expire, vars, locals
<1>11. CASE Restart
  BY <1>11 DEF Restart
<1> HIDE DEF Ownership
<1> QED
  BY <1>3, <1>4, <1>5, <1>6, <1>7, <1>8, <1>9, <1>10, <1>11 DEF Next, LookupStep

-----------------------------------------------------------------------------
(* What a lookup can fall back on                                          *)

LEMMA InitFallback == Init => Fallback
BY DEF Init, Idle, Fallback, FallsBack, Answer

LEMMA StepFallback == Shape /\ Fallback /\ [Next]_vars => Fallback'
<1> SUFFICES ASSUME Shape, Fallback, [Next]_vars PROVE Fallback'
  OBVIOUS
<1> USE DEF Fallback, FallsBack, Phases, Leading
<1>s. /\ pc \in [Lookups -> Phases] /\ filled \in [Lookups -> BOOLEAN]
      /\ cached \in [Lookups -> Seq(EntryShape)]
  BY DEF Shape
\* A step that moves lookups on between the read and the return.
<1>1. ASSUME NEW l \in Lookups, NEW phase \in Phases \ {"read"}, pc[l] \notin {"idle", "read"},
             pc' = [pc EXCEPT ![l] = phase], UNCHANGED <<entry, cached, filled, out>>
      PROVE  Fallback'
  BY <1>1, <1>s DEF HasRanks
<1>2. ASSUME NEW l \in Lookups, NEW a, Return(l, a), UNCHANGED entry,
             a.kind = "error" => ~a.filled
      PROVE  Fallback'
  BY <1>2, <1>s DEF Return, HasRanks
<1>3. ASSUME NEW l \in Lookups, Hit(l) PROVE Fallback'
  BY <1>2, <1>3 DEF Hit, Answer
<1>4. ASSUME NEW l \in Lookups, NEW outcome, NEW boundary, Conclude(l, outcome, boundary),
             UNCHANGED entry, pc[l] \notin {"idle", "read"}
      PROVE  Fallback'
  <2>1. CASE outcome # "error"
    BY <1>2, <1>4, <2>1 DEF Conclude, Answer
  <2>2. CASE outcome = "error" /\ HasRanks(cached[l])
    BY <1>2, <1>4, <2>2 DEF Conclude, Answer
  <2>3. CASE outcome = "error" /\ ~HasRanks(cached[l])
    BY <1>2, <1>4, <2>3 DEF Conclude, Answer
  <2> QED BY <2>1, <2>2, <2>3
<1>5. ASSUME NEW l \in Lookups, Unregister(l) \/ Wake(l) \/ GiveUp(l) PROVE Fallback'
  BY <1>4, <1>5 DEF Unregister, Wake, GiveUp
<1>6. ASSUME NEW l \in Lookups, Begin(l) PROVE Fallback'
  BY <1>6, <1>s DEF Begin, HasRanks
<1>7. ASSUME NEW l \in Lookups, Miss(l) \/ ReadFails(l) PROVE Fallback'
  BY <1>7, <1>s DEF Miss, ReadFails, HasRanks
<1>8. ASSUME NEW l \in Lookups, Lead(l) \/ Join(l) \/ StoreFails(l) \/ Close(l) PROVE Fallback'
  BY <1>1, <1>8 DEF Lead, BeginCall, Join, StoreFails, Close
<1>9. ASSUME NEW l \in Lookups, NEW outcome \in Outcomes, CallReturns(l, outcome) PROVE Fallback'
  BY <1>1, <1>9 DEF CallReturns
<1>10. ASSUME NEW l \in Lookups, Store(l) PROVE Fallback'
  <2> DEFINE row == [gen |-> mygen[l], outcome |-> calls[mycall[l]].outcome,
                     boundary |-> calls[mycall[l]].boundary, fresh |-> TRUE]
  <2>1. entry' = <<row>> /\ row.outcome = calls[mycall[l]].outcome
    BY <1>10 DEF Store, StoreUnder
  <2>2. HasRanks(entry)' <=> calls[mycall[l]].outcome = "ranks"
    <3> HIDE DEF row
    <3> QED BY <2>1 DEF HasRanks
  <2>3. \A k \in Lookups : filled'[k] => filled[k] /\ HasRanks(entry)'
    BY <1>10, <2>2, <1>s DEF Store, StoreUnder
  <2>4. \A k \in Lookups : /\ pc'[k] = "read" => pc[k] = "read"
                           /\ pc'[k] \notin {"idle", "read"} => pc[k] \notin {"idle", "read"}
    BY <1>10, <1>s DEF Store, StoreUnder
  <2>5. UNCHANGED <<cached, out>>
    BY <1>10 DEF Store, StoreUnder
  <2>6. \A k \in Lookups : HasRanks(cached[k])' <=> HasRanks(cached[k])
    BY <2>5 DEF HasRanks
  <2> QED BY <2>3, <2>4, <2>5, <2>6
<1>11. CASE Expire
  <2> DEFINE row == [entry[1] EXCEPT !.fresh = FALSE]
  <2>1. entry' = <<row>> /\ entry # <<>>
    BY <1>11 DEF Expire
  <2>2. entry[1] \in EntryShape
    BY <2>1, ElementOfSeq, LenProperties, EmptySeq DEF Shape
  <2>3. row.outcome = entry[1].outcome
    BY <2>2 DEF EntryShape
  <2>4. HasRanks(entry)' <=> HasRanks(entry)
    <3> HIDE DEF row
    <3> QED BY <2>1, <2>3 DEF HasRanks
  <2>5. UNCHANGED <<pc, filled, cached, out>>
    BY <1>11 DEF Expire, locals
  <2>6. \A k \in Lookups : HasRanks(cached[k])' <=> HasRanks(cached[k])
    BY <2>5 DEF HasRanks
  <2> QED BY <2>4, <2>5, <2>6
<1>12. CASE Restart
  BY <1>12 DEF Restart
<1>13. CASE Invalidate \/ UNCHANGED vars
  BY <1>13 DEF Invalidate, vars, locals, HasRanks
<1> HIDE DEF Fallback
<1> QED
  BY <1>3, <1>5, <1>6, <1>7, <1>8, <1>9, <1>10, <1>11, <1>12, <1>13 DEF Next, LookupStep

-----------------------------------------------------------------------------
(* The age of ranks, until the process is restarted                        *)

LEMMA InitAge == Init => Age
BY DEF Init, Idle, Age, HitsAreOfThisMatch, Answer, Leading

LEMMA StepAge == Shape /\ Age /\ [Next]_vars => Age'
<1> SUFFICES ASSUME Shape, Age, [Next]_vars, restarts' = 0 PROVE Age'
  BY DEF Age
<1>r. restarts = 0 /\ ~Restart
  <2>1. restarts \in Nat
    BY DEF Shape
  <2>2. ~Restart
    BY <2>1 DEF Restart
  <2>3. restarts' = restarts
    BY <2>2 DEF Next, LookupStep, Invalidate, Expire, Begin, Hit, Miss, ReadFails, Lead, BeginCall,
      Join, CallReturns, Store, StoreUnder, StoreFails, Close, Unregister, Wake,
      GiveUp, vars, history
  <2> QED BY <2>2, <2>3
<1> USE <1>r DEF Age, HitsAreOfThisMatch, Leading
<1>s. /\ gen \in Nat /\ boundaries \in Nat /\ restarts \in Nat
      /\ pc \in [Lookups -> Phases] /\ mygen \in [Lookups -> Nat]
      /\ began \in [Lookups -> Nat] /\ mycall \in [Lookups -> Nat]
      /\ calls \in Seq(CallShape) /\ Len(calls) \in Nat
      /\ \A l \in Lookups : pc[l] \in Leading => mycall[l] \in 1..Len(calls)
  BY LenProperties DEF Shape
<1>c. \A n \in 1..Len(calls) : calls[n] \in CallShape
  BY <1>s, ElementOfSeq
\* A step that moves one lookup on and leaves the ranks and their ages alone.
<1>1. ASSUME NEW l \in Lookups, NEW phase \in Phases \ {"idle"}, pc[l] # "idle",
             phase \in Leading => pc[l] \in Leading, pc' = [pc EXCEPT ![l] = phase],
             UNCHANGED <<gen, boundaries, restarts, mygen, began, entry, out>>,
             \A k \in Lookups : pc[k] \in Leading =>
               mycall'[k] = mycall[k] /\ calls'[mycall[k]].boundary = calls[mycall[k]].boundary
      PROVE  Age'
  BY <1>1, <1>s
<1>2. ASSUME NEW l \in Lookups, NEW a, Return(l, a),
             UNCHANGED <<gen, entry, calls, history>>, a.kind = "hit" => a.boundary >= a.began
      PROVE  Age'
  BY <1>2, <1>s DEF Return, history
<1>3. ASSUME NEW l \in Lookups, Hit(l) PROVE Age'
  <2>1. entry[1].boundary >= began[l]
    BY <1>3 DEF Hit, IsHit
  <2> QED BY <1>2, <1>3, <2>1 DEF Hit, Answer
<1>4. ASSUME NEW l \in Lookups, NEW outcome, NEW boundary, Conclude(l, outcome, boundary),
             UNCHANGED <<gen, entry, calls, history>>
      PROVE  Age'
  BY <1>2, <1>4 DEF Conclude, Answer
<1>5. ASSUME NEW l \in Lookups, Unregister(l) \/ Wake(l) \/ GiveUp(l) PROVE Age'
  BY <1>4, <1>5 DEF Unregister, Wake, GiveUp
<1>6. ASSUME NEW l \in Lookups, Begin(l) PROVE Age'
  BY <1>6, <1>s DEF Begin, history
<1>7. ASSUME NEW l \in Lookups, Miss(l) \/ ReadFails(l) \/ Join(l) \/ StoreFails(l) PROVE Age'
  BY <1>1, <1>7, <1>s DEF Miss, ReadFails, Join, StoreFails, Phases, history
<1>8. ASSUME NEW l \in Lookups, Lead(l) PROVE Age'
  <2>1. /\ calls'[Len(calls) + 1].boundary = boundaries
        /\ \A n \in 1..Len(calls) : calls'[n] = calls[n]
    BY <1>8, <1>s, AppendProperties DEF Lead, BeginCall, NewCall
  <2> QED BY <1>8, <1>s, <2>1 DEF Lead, BeginCall, history
<1>9. ASSUME NEW l \in Lookups, NEW call, mycall[l] \in 1..Len(calls),
             call.boundary = calls[mycall[l]].boundary,
             calls' = [calls EXCEPT ![mycall[l]] = call]
      PROVE  \A n \in 1..Len(calls) : calls'[n].boundary = calls[n].boundary
  BY <1>9, <1>s, LenProperties
<1>10. ASSUME NEW l \in Lookups, NEW outcome \in Outcomes, CallReturns(l, outcome) PROVE Age'
  <2>1. [calls[mycall[l]] EXCEPT !.outcome = outcome].boundary = calls[mycall[l]].boundary
    BY <1>10, <1>c, <1>s DEF CallReturns, CallShape
  <2>2. \A n \in 1..Len(calls) : calls'[n].boundary = calls[n].boundary
    BY <1>9, <1>10, <1>s, <2>1 DEF CallReturns
  <2> QED BY <1>1, <1>10, <1>s, <2>2 DEF CallReturns, Phases, history
<1>11. ASSUME NEW l \in Lookups, Close(l) PROVE Age'
  <2>1. [calls[mycall[l]] EXCEPT !.done = TRUE].boundary = calls[mycall[l]].boundary
    BY <1>11, <1>c, <1>s DEF Close, CallShape
  <2>2. \A n \in 1..Len(calls) : calls'[n].boundary = calls[n].boundary
    BY <1>9, <1>11, <1>s, <2>1 DEF Close
  <2> QED BY <1>1, <1>11, <1>s, <2>2 DEF Close, Phases, history
<1>12. ASSUME NEW l \in Lookups, Store(l) PROVE Age'
  <2>1. entry'[1].gen = mygen[l] /\ entry'[1].boundary = calls[mycall[l]].boundary
    BY <1>12 DEF Store, StoreUnder
  <2>2. entry'[1].boundary >= entry'[1].gen
    BY <1>12, <2>1 DEF Store, StoreUnder
  <2> QED BY <1>12, <1>s, <2>2 DEF Store, StoreUnder, history
<1>13. CASE Expire
  <2> DEFINE row == [entry[1] EXCEPT !.fresh = FALSE]
  <2>1. entry' = <<row>> /\ entry # <<>>
    BY <1>13 DEF Expire
  <2>2. entry[1] \in EntryShape
    BY <2>1, ElementOfSeq, LenProperties, EmptySeq DEF Shape
  <2>3. row.boundary = entry[1].boundary /\ row.gen = entry[1].gen
    BY <2>2 DEF EntryShape
  <2>4. entry'[1].boundary >= entry'[1].gen
    <3> HIDE DEF row
    <3> QED BY <2>1, <2>3
  <2> QED BY <1>13, <2>4 DEF Expire, locals
<1>14. CASE Invalidate
  BY <1>14, <1>s DEF Invalidate, locals
<1>15. CASE UNCHANGED vars
  BY <1>15 DEF vars, locals, history
<1> HIDE DEF Age
<1> QED
  BY <1>3, <1>5, <1>6, <1>7, <1>8, <1>10, <1>11, <1>12, <1>13, <1>14, <1>15
  DEF Next, LookupStep

-----------------------------------------------------------------------------
(* The theorems                                                            *)

LEMMA ShapeHolds == Spec => []Shape
BY InitShape, StepShape, PTL DEF Spec

\* However many goroutines look the player up, at most one of them is at an upstream call.
THEOREM OneCallAtATime == Spec => []SingleFlight
<1>1. Ownership => SingleFlight
  BY DEF Ownership
<1> QED BY ShapeHolds, InitOwnership, StepOwnership, <1>1, PTL DEF Spec

\* No lookup can join a call that is over: the call in the map has a leader at work.
THEOREM CallsAreLed == Spec => []InflightIsLed
<1>1. Ownership => InflightIsLed
  BY DEF Ownership
<1> QED BY ShapeHolds, InitOwnership, StepOwnership, <1>1, PTL DEF Spec

\* No failure, of the upstream service or of a leader, takes ranks from a lookup that the
\* store had for it.
THEOREM KeepsServing == Spec => []FallsBack
<1>1. Fallback => FallsBack
  BY DEF Fallback
<1> QED BY ShapeHolds, InitFallback, StepFallback, <1>1, PTL DEF Spec

\* In one run of the process a hit is of the match the lookup began in: the generation an
\* entry is stored under is never above the boundary its ranks were fetched at.
THEOREM FreshHits == Spec => []HitsAreOfThisMatch
<1>1. Age => HitsAreOfThisMatch
  BY DEF Age, HitsAreOfThisMatch
<1> QED BY ShapeHolds, InitAge, StepAge, <1>1, PTL DEF Spec
=============================================================================
