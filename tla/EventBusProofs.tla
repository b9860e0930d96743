--------------------------- MODULE EventBusProofs ---------------------------
(***************************************************************************)
(* Proofs about EventBus for every set of publishers, subscriptions and    *)
(* events, every capacity, and every number of publish calls.              *)
(***************************************************************************)
EXTENDS EventBus, SequenceTheorems, TLAPS


(* EventBus!TypeOK is inductive: every action keeps every variable of the  *)
(* bus in its type and the buffer within dispatchBuffer.                   *)
THEOREM TypeCorrect == Spec => []TypeOK
<1>1. Init => TypeOK
  <2> SUFFICES ASSUME Init PROVE TypeOK
    OBVIOUS
  <2>1. \A S : <<>> \in Seq(S)
    OBVIOUS
  <2>2. Len(ch) <= Capacity
    BY BusAssumption DEF Init, BusAssumption
  <2>3. /\ subs \in [Types \cup {AnyType} -> Seq(Subscribers)]
        /\ pub \in [Publishers -> Seq(Events)]
        /\ seen \in [Subscribers -> Seq(Nat)]
        /\ subAt \in [Subscribers -> Nat]
        /\ cancelAt \in [Subscribers -> Nat]
    BY <2>1 DEF Init
  <2>4. /\ ch \in Seq(Events) /\ log \in Seq(Events)
        /\ cur \in Seq(Events) /\ todo \in Seq(Subscribers)
    BY <2>1 DEF Init
  <2> QED
    BY <2>2, <2>3, <2>4 DEF Init, TypeOK
<1>2. TypeOK /\ [Next]_vars => TypeOK'
  <2> SUFFICES ASSUME TypeOK, [Next]_vars PROVE TypeOK'
    OBVIOUS
  <2> USE DEF TypeOK
  <2> DEFINE Lists == Types \cup {AnyType}
  <2>1. CASE Start
    BY <2>1 DEF Start, channel, registry, publishing
  <2>2. CASE BeginStop
    BY <2>2 DEF BeginStop, channel, registry, publishing, dispatching
  <2>3. CASE CloseChannel
    BY <2>3 DEF CloseChannel, AfterClose, registry, publishing, dispatching
  <2>4. CASE EndStop
    BY <2>4 DEF EndStop, channel, registry, publishing, dispatching
  <2>5. ASSUME NEW p \in Publishers, NEW e \in Events, BeginPublish(p, e)
        PROVE  TypeOK'
    <3>1. <<e>> \in Seq(Events)
      OBVIOUS
    <3>2. pub' \in [Publishers -> Seq(Events)]
      BY <2>5, <3>1 DEF BeginPublish, PassCheck
    <3>3. sawRunning' \in SUBSET Publishers
      BY <2>5 DEF BeginPublish, PassCheck
    <3>4. calls' \in Nat
      BY <2>5 DEF BeginPublish, PassCheck
    <3>5. UNCHANGED <<channel, stopped, registry, panicked, dropped, dispatching, stop, log>>
      BY <2>5 DEF BeginPublish, PassCheck
    <3> QED
      BY <3>2, <3>3, <3>4, <3>5 DEF channel, registry, dispatching
  <2>6. ASSUME NEW p \in Publishers, Send(p)
        PROVE  TypeOK'
    <3>1. pub[p] \in Seq(Events) /\ pub[p] # <<>>
      BY <2>6 DEF Send, Enqueue
    <3>2. pub[p][1] \in Events
      BY <3>1
    <3>3. /\ ch' \in Seq(Events) /\ Len(ch') = Len(ch) + 1
          /\ log' \in Seq(Events)
      BY <2>6, <3>2 DEF Send, Enqueue
    <3>4. Len(ch') <= Capacity
      BY BusAssumption, <2>6, <3>3 DEF Send, BusAssumption
    <3>5. pub' \in [Publishers -> Seq(Events)]
      BY <2>6 DEF Send, Enqueue
    <3> QED
      BY <2>6, <3>3, <3>4, <3>5 DEF Send, Enqueue, registry, dispatching
  <2>7. ASSUME NEW p \in Publishers, Drop(p)
        PROVE  TypeOK'
    BY <2>7 DEF Drop, channel, registry, dispatching
  <2>8. ASSUME NEW p \in Publishers, SendPanics(p)
        PROVE  TypeOK'
    <3>1. pub' \in [Publishers -> Seq(Events)]
      BY <2>8 DEF SendPanics
    <3>2. panicked' \in SUBSET Publishers
      BY <2>8 DEF SendPanics
    <3> QED
      BY <2>8, <3>1, <3>2 DEF SendPanics, channel, registry, dispatching
  <2>9. ASSUME NEW s \in Subscribers, Subscribe(s)
        PROVE  TypeOK'
    <3>1. SubType[s] \in Lists
      BY BusAssumption DEF BusAssumption
    <3>2. subs' \in [Lists -> Seq(Subscribers)]
      BY <2>9, <3>1 DEF Subscribe
    <3> QED
      BY <2>9, <3>2 DEF Subscribe, channel, publishing, dispatching
  <2>10. ASSUME NEW s \in Subscribers, Cancel(s)
         PROVE  TypeOK'
    BY <2>10 DEF Cancel, channel, publishing, dispatching
  <2>11. CASE Receive
    <3>1. Head(ch) \in Events /\ Tail(ch) \in Seq(Events) /\ Len(Tail(ch)) <= Capacity
      BY BusAssumption, <2>11 DEF Receive, BusAssumption
    <3>2. ch' \in Seq(Events) /\ cur' \in Seq(Events) /\ cur' # <<>>
      BY <2>11, <3>1 DEF Receive
    <3>3. Len(ch') <= Capacity
      BY <2>11, <3>1 DEF Receive
    <3> QED
      BY <2>11, <3>2, <3>3 DEF Receive, registry, publishing
  <2>12. CASE Exit
    BY <2>12 DEF Exit, LeaveLoop, channel, registry, publishing
  <2>13. CASE Snapshot
    <3>1. cur[1] \in Events
      BY <2>13 DEF Snapshot
    <3>2. cur[1].type \in Types
      BY BusAssumption, <3>1 DEF BusAssumption
    <3>3. todo' \in Seq(Subscribers)
      BY <2>13, <3>2 DEF Snapshot, SnapshotOf
    <3> QED
      BY <2>13, <3>3 DEF Snapshot, channel, registry, publishing
  <2>14. CASE SkipCancelled
    BY <2>14 DEF SkipCancelled, channel, registry, publishing
  <2>15. CASE TestFlag
    BY <2>15 DEF TestFlag, Invoke, channel, registry, publishing
  <2>16. CASE Handler
    <3>1. seen' \in [Subscribers -> Seq(Nat)]
      <4>1. Head(todo) \in Subscribers
        BY <2>16 DEF Handler
      <4>2. Append(seen[Head(todo)], pos) \in Seq(Nat)
        BY <4>1
      <4> QED
        BY <2>16, <4>1, <4>2 DEF Handler
    <3>2. todo' \in Seq(Subscribers)
      BY <2>16 DEF Handler
    <3> QED
      BY <2>16, <3>1, <3>2 DEF Handler, channel, registry, publishing
  <2>17. CASE FinishEvent
    BY <2>17 DEF FinishEvent, channel, registry, publishing
  <2>18. CASE UNCHANGED vars
    BY <2>18 DEF vars, channel, registry, publishing, dispatching
  <2> QED
    BY <2>1, <2>2, <2>3, <2>4, <2>5, <2>6, <2>7, <2>8, <2>9, <2>10, <2>11, <2>12,
       <2>13, <2>14, <2>15, <2>16, <2>17, <2>18 DEF Next, Dispatch, Publish
<1> QED
  BY <1>1, <1>2, PTL DEF Spec
-----------------------------------------------------------------------------
(* Which actions touch which variables.                                    *)

LEMMA Frames ==
  ASSUME [Next]_vars
  PROVE  /\ UNCHANGED <<ch, log, pos>> \/ Receive \/ \E p \in Publishers : Send(p)
         /\ UNCHANGED <<pos, cur>> \/ Receive \/ FinishEvent
         /\ UNCHANGED <<subs, subAt>> \/ \E s \in Subscribers : Subscribe(s)
         /\ UNCHANGED <<cancelled, cancelAt>> \/ \E s \in Subscribers : Cancel(s)
         /\ UNCHANGED seen \/ Handler
         /\ UNCHANGED <<pub, sawRunning, panicked>> \/ \E p \in Publishers : Publish(p)
         /\ UNCHANGED <<disp, cur, todo, pos, seen>> \/ Start \/ Dispatch
         /\ UNCHANGED <<stop, closed, stopped>> \/ BeginStop \/ CloseChannel \/ EndStop
<1> USE DEF vars, channel, registry, publishing, dispatching
<1>1. CASE Start \/ BeginStop \/ CloseChannel \/ EndStop
  BY <1>1 DEF Start, BeginStop, CloseChannel, EndStop
<1>2. CASE \E p \in Publishers : Publish(p)
  <2>1. ASSUME NEW p \in Publishers, NEW e \in Events, BeginPublish(p, e)
        PROVE  UNCHANGED <<channel, stopped, registry, dispatching, stop, log>>
    BY <2>1 DEF BeginPublish, PassCheck
  <2>2. ASSUME NEW p \in Publishers, Send(p)
        PROVE  UNCHANGED <<closed, stopped, registry, dispatching, stop>>
    BY <2>2 DEF Send, Enqueue
  <2>3. ASSUME NEW p \in Publishers, Drop(p) \/ SendPanics(p)
        PROVE  UNCHANGED <<channel, stopped, registry, dispatching, stop, log>>
    BY <2>3 DEF Drop, SendPanics
  <2> QED
    BY <1>2, <2>1, <2>2, <2>3 DEF Publish
<1>3. CASE \E s \in Subscribers : Subscribe(s) \/ Cancel(s)
  BY <1>3 DEF Subscribe, Cancel
<1>4. CASE Dispatch
  BY <1>4 DEF Dispatch, Receive, Exit, LeaveLoop, Snapshot, SkipCancelled, TestFlag,
              Invoke, Handler, FinishEvent
<1>5. CASE UNCHANGED vars
  BY <1>5
<1> QED
  BY <1>1, <1>2, <1>3, <1>4, <1>5 DEF Next

-----------------------------------------------------------------------------
(* One lemma for each part of the inductive invariant.                     *)

LEMMA BufferStep ==
  ASSUME TypeOK, BufferIsPending, [Next]_vars
  PROVE  BufferIsPending'
<1>0. /\ ch \in Seq(Events) /\ log \in Seq(Events) /\ pos \in Nat
      /\ Len(ch) \in Nat /\ Len(log) \in Nat
  BY LenProperties DEF TypeOK
<1>a. pos + Len(ch) = Len(log)
  BY DEF BufferIsPending
<1>b. \A i \in 1..Len(ch) : ch[i] = log[pos + i]
  BY DEF BufferIsPending
<1>1. CASE Receive
  <2>1. /\ pos' = pos + 1 /\ log' = log
        /\ ch' \in Seq(Events) /\ Len(ch') = Len(ch) - 1
        /\ \A i \in 1..Len(ch') : ch'[i] = ch[i + 1]
    BY <1>0, <1>1, HeadTailProperties DEF Receive
  <2>2. ASSUME NEW i \in 1..Len(ch')
        PROVE  ch'[i] = log'[pos' + i]
    <3>1. i + 1 \in 1..Len(ch) /\ pos + (i + 1) = pos' + i
      BY <1>0, <2>1
    <3>2. ch[i + 1] = log[pos + (i + 1)]
      BY <1>b, <3>1
    <3> QED
      BY <2>1, <3>1, <3>2
  <2>3. pos' + Len(ch') = Len(log')
    <3>1. pos' = pos + 1 /\ Len(ch') = Len(ch) - 1 /\ Len(log') = Len(log)
      BY <2>1
    <3> QED
      BY <1>0, <1>a, <3>1
  <2> QED
    BY <2>2, <2>3 DEF BufferIsPending
<1>2. ASSUME NEW p \in Publishers, Send(p)
      PROVE  BufferIsPending'
  <2> DEFINE e == pub[p][1]
  <2>1. e \in Events
    BY <1>2 DEF Send, Enqueue, TypeOK
  <2>2. ch' = Append(ch, e) /\ log' = Append(log, e) /\ pos' = pos
    BY <1>2 DEF Send, Enqueue, dispatching
  <2> HIDE DEF e
  <2>3. /\ Len(ch') = Len(ch) + 1 /\ Len(log') = Len(log) + 1
        /\ \A i \in 1..Len(ch) : ch'[i] = ch[i]
        /\ \A i \in 1..Len(log) : log'[i] = log[i]
        /\ ch'[Len(ch) + 1] = e /\ log'[Len(log) + 1] = e
    BY <1>0, <2>1, <2>2
  <2>4. ASSUME NEW i \in 1..Len(ch')
        PROVE  ch'[i] = log'[pos' + i]
    <3>1. CASE i \in 1..Len(ch)
      <4>1. pos + i \in 1..Len(log) /\ ch[i] = log[pos + i]
        BY <1>0, <1>a, <1>b, <3>1
      <4> QED
        BY <2>2, <2>3, <3>1, <4>1
    <3>2. CASE i = Len(ch) + 1
      <4>1. pos' + i = Len(log) + 1
        BY <1>0, <1>a, <2>2, <3>2
      <4> QED
        BY <2>3, <3>2, <4>1
    <3> QED
      BY <1>0, <2>3, <3>1, <3>2
  <2>5. pos' + Len(ch') = Len(log')
    BY <1>0, <1>a, <2>2, <2>3
  <2> QED
    BY <2>4, <2>5 DEF BufferIsPending
<1>3. CASE UNCHANGED <<ch, log, pos>>
  BY <1>3 DEF BufferIsPending
<1> QED
  BY <1>1, <1>2, <1>3, Frames

LEMMA CurrentStep ==
  ASSUME TypeOK, BufferIsPending, CurrentInv, [Next]_vars
  PROVE  CurrentInv'
<1> USE DEF CurrentInv
<1>0. /\ ch \in Seq(Events) /\ log \in Seq(Events) /\ pos \in Nat
      /\ pub \in [Publishers -> Seq(Events)]
  BY DEF TypeOK
<1>1. CASE Receive
  <2>1. ch # <<>> /\ disp' = "snapshot" /\ cur' = <<ch[1]>> /\ pos' = pos + 1 /\ log' = log
    BY <1>1 DEF Receive
  <2>2. Len(ch) \in Nat \ {0} /\ Len(log) \in Nat /\ pos \in Nat
    BY <1>0, <2>1, EmptySeq, LenProperties
  <2>a. pos + Len(ch) = Len(log)
    BY DEF BufferIsPending
  <2>3. pos + 1 \in 1..Len(log) /\ 1 \in 1..Len(ch)
    BY <2>2, <2>a
  <2>4. ch[1] = log[pos + 1]
    BY <2>3 DEF BufferIsPending
  <2> QED
    BY <2>1, <2>3, <2>4
<1>2. ASSUME NEW p \in Publishers, Send(p)
      PROVE  CurrentInv'
  <2>1. pub[p][1] \in Events
    BY <1>0, <1>2 DEF Send, Enqueue
  <2>2. log' = Append(log, pub[p][1]) /\ UNCHANGED <<disp, cur, pos>>
    BY <1>2 DEF Send, Enqueue, dispatching
  <2>3. \A i \in 1..Len(log) : i \in 1..Len(log') /\ log'[i] = log[i]
    BY <1>0, <2>1, <2>2, AppendProperties, LenProperties
  <2> QED
    BY <2>2, <2>3
<1>3. CASE Dispatch /\ ~Receive
  BY <1>3 DEF Dispatch, Exit, LeaveLoop, Snapshot, SkipCancelled, TestFlag, Invoke,
              Handler, FinishEvent
<1>4. CASE Start
  BY <1>4 DEF Start
<1>5. CASE UNCHANGED <<disp, cur, pos, log>>
  BY <1>5
<1> QED
  BY <1>1, <1>2, <1>3, <1>4, <1>5, Frames

LEMMA RegistryStep ==
  ASSUME TypeOK, RegistryInv, [Next]_vars
  PROVE  RegistryInv'
<1> USE DEF TypeOK, RegistryInv
<1>1. ASSUME NEW s \in Subscribers, Subscribe(s)
      PROVE  RegistryInv'
  <2> DEFINE t == SubType[s]
  <2>1. /\ t \in Types \cup {AnyType}
        /\ subs' = [subs EXCEPT ![t] = Append(@, s)]
        /\ subAt' = [subAt EXCEPT ![s] = pos] /\ pos' = pos
    BY BusAssumption, <1>1 DEF Subscribe, dispatching, BusAssumption
  <2> HIDE DEF t
  <2>2. ASSUME NEW i \in 1..Len(subs[t])
        PROVE  subs[t][i] # s
    <3>1. subs[t][i] \in RangeOf(subs[t])
      BY DEF RangeOf
    <3>2. subs[t][i] \in Registered
      BY <2>1, <3>1 DEF Registered
    <3> QED
      BY <1>1, <3>2 DEF Subscribe
  <2> DEFINE q == Append(subs[t], s)
  <2>3. /\ q \in Seq(Subscribers) /\ Len(q) = Len(subs[t]) + 1
        /\ \A i \in 1..Len(subs[t]) : q[i] = subs[t][i]
        /\ q[Len(subs[t]) + 1] = s
    BY <2>1
  <2>4. subs'[t] = q /\ \A u \in Types \cup {AnyType} : u # t => subs'[u] = subs[u]
    BY <2>1
  <2> HIDE DEF q
  <2>5. Distinct(q)
    <3>1. Distinct(subs[t]) /\ Len(subs[t]) \in Nat
      BY <2>1, LenProperties
    <3> DEFINE m == Len(subs[t])
    <3>2. /\ m \in Nat /\ Len(q) = m + 1
          /\ \A i \in 1..m : q[i] = subs[t][i]
          /\ q[m + 1] = s
      BY <2>3, <3>1
    <3>3. \A i, k \in 1..m : subs[t][i] = subs[t][k] => i = k
      BY <3>1 DEF Distinct
    <3>4. \A i \in 1..m : subs[t][i] # s
      BY <2>2
    <3> HIDE DEF m
    <3>5. \A i \in 1..Len(q) : i \in 1..m \/ i = m + 1
      BY <3>2
    <3> QED
      BY <3>2, <3>3, <3>4, <3>5 DEF Distinct
  <2>6. \A i \in 1..Len(q) : SubType[q[i]] = t
    <3>1. \A i \in 1..Len(q) : i \in 1..Len(subs[t]) \/ i = Len(subs[t]) + 1
      BY <2>1, <2>3
    <3>2. \A i \in 1..Len(subs[t]) : SubType[subs[t][i]] = t
      BY <2>1
    <3>3. SubType[s] = t
      BY DEF t
    <3> QED
      BY <2>3, <3>1, <3>2, <3>3
  <2>7. ASSUME NEW u \in Types \cup {AnyType}
        PROVE  Distinct(subs'[u]) /\ \A i \in 1..Len(subs'[u]) : SubType[subs'[u][i]] = u
    BY <2>4, <2>5, <2>6
  <2>8. \A r \in Subscribers : subAt'[r] <= pos'
    BY <2>1
  <2> QED
    BY <2>7, <2>8
<1>2. CASE UNCHANGED <<subs, subAt>> /\ pos' >= pos
  <2>1. pos' \in Nat
    BY <1>2, Frames DEF Receive, FinishEvent
  <2>2. \A r \in Subscribers : subAt'[r] <= pos'
    BY <1>2, <2>1
  <2> QED
    BY <1>2, <2>2
<1>3. UNCHANGED <<subs, subAt>> => pos' >= pos
  <2>1. UNCHANGED pos \/ pos' = pos + 1
    BY Frames DEF Receive, FinishEvent
  <2> QED
    BY <2>1
<1> QED
  BY <1>1, <1>2, <1>3, Frames

(* What the actions of the dispatcher do to the list still to be called.   *)
LEMMA TodoStep ==
  ASSUME TypeOK, RegistryInv, CurrentInv, disp = "snapshot", Snapshot
  PROVE  /\ Distinct(todo')
         /\ todo' \in Seq(Subscribers)
         /\ \A s \in Registered : SubType[s] \in {cur[1].type, AnyType} => s \in RangeOf(todo')
<1> DEFINE a == subs[cur[1].type]
           b == subs[AnyType]
<1>1. cur[1] \in Events
  BY DEF TypeOK
<1>2. /\ cur[1].type \in Types /\ AnyType \notin Types
      /\ SubType \in [Subscribers -> Types \cup {AnyType}]
  BY <1>1, BusAssumption DEF BusAssumption
<1>3. a \in Seq(Subscribers) /\ b \in Seq(Subscribers)
  BY <1>2 DEF TypeOK
<1>4. todo' = a \o b
  BY DEF Snapshot, SnapshotOf
<1>5. /\ Distinct(a) /\ \A i \in 1..Len(a) : SubType[a[i]] = cur[1].type
      /\ Distinct(b) /\ \A i \in 1..Len(b) : SubType[b[i]] = AnyType
  BY <1>2 DEF RegistryInv
<1>6. ASSUME NEW s \in Registered, SubType[s] \in {cur[1].type, AnyType}
      PROVE  s \in RangeOf(a) \/ s \in RangeOf(b)
  <2>1. PICK t \in Types \cup {AnyType} : s \in RangeOf(subs[t])
    BY DEF Registered
  <2>2. PICK i \in 1..Len(subs[t]) : subs[t][i] = s
    BY <2>1 DEF RangeOf
  <2>3. SubType[s] = t
    BY <2>2 DEF RegistryInv
  <2> QED
    BY <1>6, <2>1, <2>3
<1> HIDE DEF a, b
<1>7. /\ Len(a) \in Nat /\ Len(b) \in Nat
      /\ todo' \in Seq(Subscribers) /\ Len(todo') = Len(a) + Len(b)
      /\ \A i \in 1..Len(a) + Len(b) : todo'[i] = IF i <= Len(a) THEN a[i] ELSE b[i - Len(a)]
  BY <1>3, <1>4, ConcatProperties, LenProperties
<1>8. /\ \A i \in 1..Len(a) : i \in 1..Len(todo') /\ todo'[i] = a[i]
      /\ \A i \in 1..Len(b) : Len(a) + i \in 1..Len(todo') /\ todo'[Len(a) + i] = b[i]
  <2>1. ASSUME NEW i \in 1..Len(a)
        PROVE  i \in 1..Len(todo') /\ todo'[i] = a[i]
    BY <1>7
  <2>2. ASSUME NEW i \in 1..Len(b)
        PROVE  Len(a) + i \in 1..Len(todo') /\ todo'[Len(a) + i] = b[i]
    <3>1. /\ Len(a) + i \in 1..Len(a) + Len(b) /\ ~(Len(a) + i <= Len(a))
          /\ (Len(a) + i) - Len(a) = i
      BY <1>7
    <3> QED
      BY <1>7, <3>1
  <2> QED
    BY <2>1, <2>2
<1>9. \A i \in 1..Len(todo') : \/ i \in 1..Len(a) /\ todo'[i] = a[i]
                               \/ i - Len(a) \in 1..Len(b) /\ todo'[i] = b[i - Len(a)]
  <2> SUFFICES ASSUME NEW i \in 1..Len(todo')
               PROVE  \/ i \in 1..Len(a) /\ todo'[i] = a[i]
                      \/ i - Len(a) \in 1..Len(b) /\ todo'[i] = b[i - Len(a)]
    OBVIOUS
  <2>1. i \in 1..Len(a) + Len(b)
    BY <1>7
  <2>2. CASE i <= Len(a)
    BY <1>7, <2>1, <2>2
  <2>3. CASE ~(i <= Len(a))
    <3>1. i - Len(a) \in 1..Len(b)
      BY <1>7, <2>1, <2>3
    <3> QED
      BY <1>7, <2>1, <2>3, <3>1
  <2> QED
    BY <2>2, <2>3
<1>10. Distinct(todo')
  <2> SUFFICES ASSUME NEW i \in 1..Len(todo'), NEW j \in 1..Len(todo'), todo'[i] = todo'[j]
               PROVE  i = j
    BY DEF Distinct
  <2>1. CASE i \in 1..Len(a) /\ todo'[i] = a[i] /\ j \in 1..Len(a) /\ todo'[j] = a[j]
    BY <1>5, <2>1 DEF Distinct
  <2>2. CASE /\ i - Len(a) \in 1..Len(b) /\ todo'[i] = b[i - Len(a)]
             /\ j - Len(a) \in 1..Len(b) /\ todo'[j] = b[j - Len(a)]
    <3>1. i - Len(a) = j - Len(a)
      BY <1>5, <2>2 DEF Distinct
    <3> QED
      BY <1>7, <3>1
  <2>3. CASE /\ i \in 1..Len(a) /\ todo'[i] = a[i]
             /\ j - Len(a) \in 1..Len(b) /\ todo'[j] = b[j - Len(a)]
    BY <1>2, <1>5, <2>3
  <2>4. CASE /\ i - Len(a) \in 1..Len(b) /\ todo'[i] = b[i - Len(a)]
             /\ j \in 1..Len(a) /\ todo'[j] = a[j]
    BY <1>2, <1>5, <2>4
  <2> QED
    BY <1>9, <2>1, <2>2, <2>3, <2>4
<1>11. \A s : s \in RangeOf(a) \/ s \in RangeOf(b) => s \in RangeOf(todo')
  BY <1>8 DEF RangeOf
<1> QED
  BY <1>6, <1>7, <1>10, <1>11

LEMMA HandlerStep ==
  ASSUME TypeOK, Handler
  PROVE  /\ Head(todo) \in Subscribers /\ 1 \in 1..Len(todo) /\ todo[1] = Head(todo)
         /\ \A s \in Subscribers \ {Head(todo)} : seen'[s] = seen[s]
         /\ LET h == Head(todo) IN
              IF Passes(h, cur[1])
              THEN /\ Len(seen[h]) \in Nat /\ Len(seen'[h]) = Len(seen[h]) + 1
                   /\ \A i \in 1..Len(seen[h]) : seen'[h][i] = seen[h][i]
                   /\ seen'[h][Len(seen[h]) + 1] = pos
              ELSE seen'[h] = seen[h]
<1> DEFINE h == Head(todo)
<1>1. todo # <<>> /\ todo \in Seq(Subscribers) /\ seen \in [Subscribers -> Seq(Nat)] /\ pos \in Nat
  BY DEF TypeOK, Handler
<1>2. h \in Subscribers /\ 1 \in 1..Len(todo) /\ todo[1] = h
  BY <1>1, EmptySeq, HeadTailProperties
<1>3. seen' = IF Passes(h, cur[1]) THEN [seen EXCEPT ![h] = Append(@, pos)] ELSE seen
  BY DEF Handler
<1>4. seen[h] \in Seq(Nat)
  BY <1>1, <1>2
<1>5. /\ Len(seen[h]) \in Nat /\ Len(Append(seen[h], pos)) = Len(seen[h]) + 1
      /\ \A i \in 1..Len(seen[h]) : Append(seen[h], pos)[i] = seen[h][i]
      /\ Append(seen[h], pos)[Len(seen[h]) + 1] = pos
  BY <1>1, <1>4, AppendProperties, LenProperties
<1> HIDE DEF h
<1>6. CASE Passes(h, cur[1])
  <2>1. seen'[h] = Append(seen[h], pos) /\ \A s \in Subscribers \ {h} : seen'[s] = seen[s]
    BY <1>1, <1>2, <1>3, <1>6
  <2> QED
    BY <1>2, <1>5, <1>6, <2>1 DEF h
<1>7. CASE ~Passes(h, cur[1])
  BY <1>2, <1>3, <1>7 DEF h
<1> QED
  BY <1>6, <1>7

LEMMA TailStep ==
  ASSUME TypeOK, todo # <<>>, todo' = Tail(todo)
  PROVE  /\ todo' \in Seq(Subscribers)
         /\ \A i \in 1..Len(todo') : i + 1 \in 2..Len(todo) /\ todo'[i] = todo[i + 1]
         /\ Distinct(todo) => Distinct(todo')
         /\ RangeOf(todo) = {Head(todo)} \cup RangeOf(todo')
<1>1. todo \in Seq(Subscribers) /\ Len(todo) \in Nat \ {0} /\ Head(todo) = todo[1]
  BY EmptySeq DEF TypeOK
<1>2. /\ todo' \in Seq(Subscribers) /\ Len(todo') = Len(todo) - 1
      /\ \A i \in 1..Len(todo') : todo'[i] = todo[i + 1]
  BY <1>1, HeadTailProperties
<1>3. \A i \in 1..Len(todo') : i + 1 \in 2..Len(todo) /\ i + 1 \in 1..Len(todo) /\ i \in Nat
  BY <1>1, <1>2
<1>4. \A i \in 1..Len(todo) : i = 1 \/ (i - 1 \in 1..Len(todo') /\ (i - 1) + 1 = i)
  BY <1>1, <1>2
<1>5. Distinct(todo) => Distinct(todo')
  <2> SUFFICES ASSUME Distinct(todo), NEW i \in 1..Len(todo'), NEW j \in 1..Len(todo'),
                      todo'[i] = todo'[j]
               PROVE  i = j
    BY DEF Distinct
  <2>1. i + 1 = j + 1
    BY <1>2, <1>3 DEF Distinct
  <2> QED
    BY <1>3, <2>1
<1>6. RangeOf(todo) \subseteq {Head(todo)} \cup RangeOf(todo')
  <2> SUFFICES ASSUME NEW i \in 1..Len(todo)
               PROVE  todo[i] \in {Head(todo)} \cup RangeOf(todo')
    BY DEF RangeOf
  <2>1. CASE i = 1
    BY <1>1, <2>1
  <2>2. CASE i - 1 \in 1..Len(todo') /\ (i - 1) + 1 = i
    <3>1. todo'[i - 1] = todo[i]
      BY <1>2, <2>2
    <3> QED
      BY <2>2, <3>1 DEF RangeOf
  <2> QED
    BY <1>4, <2>1, <2>2
<1>7. {Head(todo)} \cup RangeOf(todo') \subseteq RangeOf(todo)
  BY <1>1, <1>2, <1>3 DEF RangeOf
<1> QED
  BY <1>2, <1>3, <1>5, <1>6, <1>7

LEMMA OrderStep ==
  ASSUME TypeOK, RegistryInv, CurrentInv, InPublicationOrder, FreshInv, [Next]_vars
  PROVE  InPublicationOrder' /\ FreshInv'
<1>0. /\ pos \in Nat /\ \A s \in Subscribers : Len(seen[s]) \in Nat
      /\ todo \in Seq(Subscribers)
  BY LenProperties DEF TypeOK
<1>1. CASE Receive
  <2>1. pos' = pos + 1 /\ seen' = seen /\ disp' = "snapshot"
    BY <1>1 DEF Receive
  <2>2. \A s \in Subscribers : \A i \in 1..Len(seen[s]) : seen[s][i] \in 1..pos
    BY DEF InPublicationOrder
  <2>3. \A n \in 1..pos : n \in 1..(pos + 1) /\ n < pos + 1
    BY <1>0
  <2>4. \A s \in Subscribers : Fresh(s)'
    BY <2>1, <2>2, <2>3 DEF Fresh
  <2> QED
    BY <2>1, <2>2, <2>3, <2>4 DEF InPublicationOrder, FreshInv
<1>2. CASE Snapshot
  <2>1. UNCHANGED <<pos, seen>> /\ disp = "snapshot" /\ disp' = "call"
    BY <1>2 DEF Snapshot
  <2>2. Distinct(todo') /\ todo' \in Seq(Subscribers)
    BY <1>2, <2>1, TodoStep
  <2>3. \A i \in 1..Len(todo') : todo'[i] \in Subscribers
    BY <2>2, ElementOfSeq
  <2>4. \A s \in Subscribers : Fresh(s)'
    BY <2>1 DEF FreshInv, Fresh
  <2>5. \A i \in 1..Len(todo') : Fresh(todo[i])'
    BY <2>3, <2>4 DEF Fresh
  <2> QED
    BY <2>1, <2>2, <2>5 DEF InPublicationOrder, FreshInv
<1>3. CASE Handler
  <2> DEFINE h == Head(todo)
  <2>1. /\ UNCHANGED pos /\ disp = "handler" /\ disp' = "call"
        /\ todo # <<>> /\ todo' = Tail(todo)
    BY <1>3 DEF Handler, TypeOK
  <2>2. /\ h \in Subscribers /\ 1 \in 1..Len(todo) /\ todo[1] = h
        /\ \A s \in Subscribers \ {h} : seen'[s] = seen[s]
        /\ \/ seen'[h] = seen[h]
           \/ /\ Len(seen'[h]) = Len(seen[h]) + 1
              /\ \A i \in 1..Len(seen[h]) : seen'[h][i] = seen[h][i]
              /\ seen'[h][Len(seen[h]) + 1] = pos
    BY <1>3, HandlerStep
  <2>3. /\ Distinct(todo') /\ todo' \in Seq(Subscribers)
        /\ \A i \in 1..Len(todo') : i + 1 \in 2..Len(todo) /\ todo'[i] = todo[i + 1]
        /\ Distinct(todo)
    BY <2>1, TailStep DEF FreshInv
  <2>4. Fresh(h)
    BY <2>1, <2>2 DEF FreshInv
  <2> HIDE DEF h
  <2>5. ASSUME NEW s \in Subscribers, NEW i \in 1..Len(seen'[s])
        PROVE  seen'[s][i] \in 1..pos /\ (i > 1 => seen'[s][i - 1] < seen'[s][i])
    <3>1. CASE seen'[s] = seen[s]
      BY <2>5, <3>1 DEF InPublicationOrder
    <3>2. CASE /\ s = h /\ Len(seen'[h]) = Len(seen[h]) + 1
               /\ \A k \in 1..Len(seen[h]) : seen'[h][k] = seen[h][k]
               /\ seen'[h][Len(seen[h]) + 1] = pos
      <4> DEFINE m == Len(seen[h])
      <4>1. /\ m \in Nat /\ \A k \in 1..m : seen[h][k] \in 1..pos /\ seen[h][k] < pos
            /\ \A k \in 1..m : k > 1 => seen[h][k - 1] < seen[h][k]
        BY <1>0, <2>2, <2>4 DEF InPublicationOrder, Fresh
      <4>2. /\ Len(seen'[s]) = m + 1 /\ seen'[s][m + 1] = pos
            /\ \A k \in 1..m : seen'[s][k] = seen[h][k]
        BY <3>2
      <4>3. pos \in 1..pos
        BY <1>0, <2>1 DEF CurrentInv
      <4> HIDE DEF m
      <4>4. CASE i \in 1..m
        <5>1. i > 1 => i - 1 \in 1..m
          BY <4>1, <4>4
        <5> QED
          BY <4>1, <4>2, <4>4, <5>1
      <4>5. CASE i = m + 1
        <5>1. i > 1 => i - 1 \in 1..m /\ i - 1 = m
          BY <4>1, <4>5
        <5> QED
          BY <4>1, <4>2, <4>3, <4>5, <5>1
      <4>6. i \in 1..m \/ i = m + 1
        BY <4>1, <4>2
      <4> QED
        BY <4>4, <4>5, <4>6
    <3> QED
      BY <2>2, <3>1, <3>2
  <2>6. ASSUME NEW i \in 1..Len(todo')
        PROVE  Fresh(todo[i])'
    <3>1. i + 1 \in 1..Len(todo) /\ i + 1 # 1 /\ todo'[i] = todo[i + 1]
      BY <2>3
    <3>2. todo[i + 1] # h
      BY <2>2, <2>3, <3>1 DEF Distinct
    <3>3. todo[i + 1] \in Subscribers
      BY <1>0, <3>1, ElementOfSeq
    <3>4. seen'[todo[i + 1]] = seen[todo[i + 1]]
      BY <2>2, <3>2, <3>3
    <3>5. Fresh(todo[i + 1])
      BY <2>1, <3>1 DEF FreshInv
    <3> QED
      BY <2>1, <3>1, <3>4, <3>5 DEF Fresh
  <2>7. InPublicationOrder'
    BY <2>1, <2>5 DEF InPublicationOrder
  <2> QED
    BY <2>1, <2>3, <2>6, <2>7 DEF FreshInv
<1>4. CASE SkipCancelled
  <2>1. /\ UNCHANGED <<pos, seen, disp>> /\ disp = "call"
        /\ todo # <<>> /\ todo' = Tail(todo)
    BY <1>4 DEF SkipCancelled
  <2>2. /\ Distinct(todo')
        /\ \A i \in 1..Len(todo') : i + 1 \in 2..Len(todo) /\ todo'[i] = todo[i + 1]
    BY <2>1, TailStep DEF FreshInv
  <2>3. ASSUME NEW i \in 1..Len(todo')
        PROVE  Fresh(todo[i])'
    <3>1. i + 1 \in 1..Len(todo) /\ todo'[i] = todo[i + 1]
      BY <2>2
    <3> QED
      BY <2>1, <3>1 DEF FreshInv, Fresh
  <2> QED
    BY <2>1, <2>2, <2>3 DEF InPublicationOrder, FreshInv
<1>5. CASE TestFlag
  BY <1>5 DEF TestFlag, Invoke, InPublicationOrder, FreshInv, Fresh
<1>6. CASE Start \/ Exit \/ FinishEvent
  BY <1>6 DEF Start, Exit, LeaveLoop, FinishEvent, InPublicationOrder, FreshInv, Fresh
<1>7. CASE UNCHANGED <<disp, cur, todo, pos, seen>>
  BY <1>7 DEF InPublicationOrder, FreshInv, Fresh
<1> QED
  BY <1>1, <1>2, <1>3, <1>4, <1>5, <1>6, <1>7, Frames DEF Dispatch

LEMMA CoverStep ==
  ASSUME TypeOK, BufferIsPending, RegistryInv, CurrentInv, NoMissedEvent, CoverInv, [Next]_vars
  PROVE  NoMissedEvent' /\ CoverInv'
<1> DEFINE done == IF cur = <<>> THEN pos ELSE pos - 1
<1>0. /\ pos \in Nat /\ done \in Int /\ done <= pos /\ Len(log) \in Nat
      /\ \A s \in Subscribers : Len(seen[s]) \in Nat
      /\ \A s \in Subscribers : subAt[s] \in Nat
      /\ todo \in Seq(Subscribers) /\ pos <= Len(log)
  <2>1. /\ pos \in Nat /\ ch \in Seq(Events) /\ log \in Seq(Events)
        /\ seen \in [Subscribers -> Seq(Nat)] /\ todo \in Seq(Subscribers)
        /\ subAt \in [Subscribers -> Nat]
    BY DEF TypeOK
  <2>2. Len(log) \in Nat /\ Len(ch) \in Nat /\ \A s \in Subscribers : Len(seen[s]) \in Nat
    BY <2>1, LenProperties
  <2>3. pos + Len(ch) = Len(log)
    BY DEF BufferIsPending
  <2>4. pos <= Len(log)
    BY <2>1, <2>2, <2>3
  <2> QED
    BY <2>1, <2>2, <2>4
<1>a. \A s \in Registered : s \in Subscribers
  BY DEF Registered, RangeOf, TypeOK
<1>1. ASSUME NEW p \in Publishers, Send(p)
      PROVE  NoMissedEvent' /\ CoverInv'
  <2>1. /\ log' = Append(log, pub[p][1]) /\ log \in Seq(Events) /\ pub[p][1] \in Events
        /\ UNCHANGED <<disp, cur, todo, pos, seen, subs, cancelled, subAt>>
    BY <1>1 DEF Send, Enqueue, dispatching, registry, TypeOK
  <2>2. \A i \in 1..Len(log) : log'[i] = log[i]
    BY <2>1, AppendProperties
  <2>3. Registered' = Registered
    BY <2>1 DEF Registered, RangeOf
  <2>4. ASSUME NEW s \in Registered \ cancelled, NEW i \in (subAt[s] + 1)..done,
               Wants(s, log'[i])
        PROVE  i \in RangeOf(seen[s])
    <3>1. i \in 1..Len(log)
      BY <1>0, <1>a
    <3>2. log'[i] = log[i]
      BY <2>2, <3>1
    <3> QED
      BY <2>4, <3>2 DEF NoMissedEvent
  <2>5. NoMissedEvent'
    <3>1. UNCHANGED <<cur, pos, seen, subs, cancelled, subAt>>
      BY <2>1
    <3> QED
      BY <2>3, <2>4, <3>1 DEF NoMissedEvent, RangeOf
  <2> QED
    BY <2>1, <2>3, <2>5 DEF CoverInv, Wants, Passes, RangeOf
<1>2. ASSUME NEW r \in Subscribers, Subscribe(r)
      PROVE  NoMissedEvent' /\ CoverInv'
  <2>1. /\ UNCHANGED <<disp, cur, todo, pos, seen, cancelled, log>>
        /\ subs' = [subs EXCEPT ![SubType[r]] = Append(@, r)]
        /\ subAt' = [subAt EXCEPT ![r] = pos]
        /\ SubType[r] \in Types \cup {AnyType}
        /\ r \notin Registered
    BY <1>2, BusAssumption DEF Subscribe, dispatching, BusAssumption
  <2>2. ASSUME NEW s \in Registered'
        PROVE  s \in Registered \/ s = r
    <3>1. PICK t \in Types \cup {AnyType} : s \in RangeOf(subs'[t])
      BY DEF Registered
    <3>2. PICK i \in 1..Len(subs'[t]) : s = subs'[t][i]
      BY <3>1 DEF RangeOf
    <3>3. subs[t] \in Seq(Subscribers) /\ Len(subs[t]) \in Nat
      BY LenProperties DEF TypeOK
    <3>4. CASE t # SubType[r]
      <4>1. subs'[t] = subs[t]
        BY <2>1, <3>4 DEF TypeOK
      <4> QED
        BY <3>1, <4>1 DEF Registered
    <3>5. CASE t = SubType[r]
      <4>1. subs'[t] = Append(subs[t], r)
        BY <2>1, <3>5 DEF TypeOK
      <4>2. /\ Len(subs'[t]) = Len(subs[t]) + 1
            /\ \A k \in 1..Len(subs[t]) : subs'[t][k] = subs[t][k]
            /\ subs'[t][Len(subs[t]) + 1] = r
        BY <3>3, <4>1, AppendProperties
      <4>3. i \in 1..Len(subs[t]) \/ i = Len(subs[t]) + 1
        BY <3>3, <4>2
      <4>4. CASE i \in 1..Len(subs[t])
        <5>1. s \in RangeOf(subs[t])
          BY <3>2, <4>2, <4>4 DEF RangeOf
        <5> QED
          BY <5>1 DEF Registered
      <4> QED
        BY <3>2, <4>2, <4>3, <4>4
    <3> QED
      BY <3>4, <3>5
  <2>3. /\ subAt'[r] = pos
        /\ \A s \in Registered : s # r /\ subAt'[s] = subAt[s]
    BY <1>a, <2>1 DEF TypeOK
  <2>4. ASSUME NEW s \in Registered' \ cancelled, NEW i \in (subAt'[s] + 1)..done,
               Wants(s, log[i])
        PROVE  i \in RangeOf(seen[s])
    <3>1. CASE s = r
      BY <1>0, <2>3, <2>4, <3>1
    <3>2. CASE s \in Registered
      BY <2>3, <2>4, <3>2 DEF NoMissedEvent
    <3> QED
      BY <2>2, <3>1, <3>2
  <2>5. NoMissedEvent'
    BY <2>1, <2>4 DEF NoMissedEvent, Wants, Passes, RangeOf
  <2>6. ASSUME disp \in {"call", "handler"}, NEW s \in Registered' \ cancelled,
               subAt'[s] < pos, Wants(s, cur[1])
        PROVE  s \in RangeOf(todo) \/ pos \in RangeOf(seen[s])
    <3>1. s # r
      BY <1>0, <2>3, <2>6
    <3> QED
      BY <2>2, <2>3, <2>6, <3>1 DEF CoverInv
  <2> QED
    BY <2>1, <2>5, <2>6 DEF CoverInv, Wants, Passes, RangeOf
<1>3. ASSUME NEW r \in Subscribers, Cancel(r)
      PROVE  NoMissedEvent' /\ CoverInv'
  <2>1. /\ UNCHANGED <<disp, cur, todo, pos, seen, log, subs, subAt>>
        /\ cancelled' = cancelled \cup {r}
    BY <1>3 DEF Cancel, dispatching
  <2>2. Registered' \ cancelled' \subseteq Registered \ cancelled
    BY <2>1 DEF Registered, RangeOf
  <2>3. NoMissedEvent'
    BY <2>1, <2>2 DEF NoMissedEvent, Wants, Passes, RangeOf
  <2>4. CoverInv'
    BY <2>1, <2>2 DEF CoverInv, Wants, Passes, RangeOf
  <2> QED
    BY <2>3, <2>4
<1>4. CASE Receive
  <2>1. /\ UNCHANGED <<seen, log, subs, subAt, cancelled>> /\ pos' = pos + 1
        /\ disp' = "snapshot" /\ cur' # <<>> /\ cur = <<>>
    BY <1>4 DEF Receive, registry, CurrentInv
  <2>2. pos' - 1 = done
    BY <1>0, <2>1
  <2>3. Registered' = Registered
    BY <2>1 DEF Registered, RangeOf
  <2>4. NoMissedEvent'
    BY <2>1, <2>2, <2>3 DEF NoMissedEvent, Wants, Passes, RangeOf
  <2> QED
    BY <2>1, <2>4 DEF CoverInv
<1>5. CASE Snapshot
  <2>1. /\ UNCHANGED <<seen, log, subs, subAt, cancelled, pos, cur>>
        /\ disp = "snapshot"
    BY <1>5 DEF Snapshot, registry
  <2>2. \A s \in Registered : SubType[s] \in {cur[1].type, AnyType} => s \in RangeOf(todo')
    BY <1>5, <2>1, TodoStep
  <2>3. Registered' = Registered
    BY <2>1 DEF Registered, RangeOf
  <2>4. NoMissedEvent'
    BY <2>1, <2>3 DEF NoMissedEvent, Wants, Passes, RangeOf
  <2>5. CoverInv'
    BY <2>1, <2>2, <2>3 DEF CoverInv, Wants, Passes, RangeOf
  <2> QED
    BY <2>4, <2>5
<1>6. CASE SkipCancelled
  <2>1. /\ UNCHANGED <<seen, log, subs, subAt, cancelled, pos, cur>>
        /\ disp = "call" /\ disp' = "call" /\ Head(todo) \in cancelled
        /\ todo # <<>> /\ todo' = Tail(todo)
    BY <1>6 DEF SkipCancelled, registry
  <2>2. RangeOf(todo) = {Head(todo)} \cup RangeOf(todo')
    BY <2>1, TailStep
  <2>3. Registered' = Registered
    BY <2>1 DEF Registered, RangeOf
  <2>4. NoMissedEvent'
    BY <2>1, <2>3 DEF NoMissedEvent, Wants, Passes, RangeOf
  <2>5. ASSUME NEW s \in Registered \ cancelled, subAt[s] < pos, Wants(s, cur[1])
        PROVE  s \in RangeOf(todo') \/ pos \in RangeOf(seen[s])
    BY <2>1, <2>2, <2>5 DEF CoverInv
  <2>6. CoverInv'
    BY <2>1, <2>3, <2>5 DEF CoverInv, Wants, Passes, RangeOf
  <2> QED
    BY <2>4, <2>6
<1>7. CASE Handler
  <2> DEFINE h == Head(todo)
  <2>1. /\ UNCHANGED <<log, subs, subAt, cancelled, pos, cur>>
        /\ disp = "handler" /\ disp' = "call"
        /\ todo # <<>> /\ todo' = Tail(todo)
    BY <1>7 DEF Handler, registry, TypeOK
  <2>2. RangeOf(todo) = {h} \cup RangeOf(todo')
    BY <2>1, TailStep
  <2>3. /\ h \in Subscribers /\ \A s \in Subscribers \ {h} : seen'[s] = seen[s]
        /\ IF Passes(h, cur[1])
           THEN /\ Len(seen[h]) \in Nat /\ Len(seen'[h]) = Len(seen[h]) + 1
                /\ \A i \in 1..Len(seen[h]) : seen'[h][i] = seen[h][i]
                /\ seen'[h][Len(seen[h]) + 1] = pos
           ELSE seen'[h] = seen[h]
    BY <1>7, HandlerStep
  <2> HIDE DEF h
  <2>4. Registered' = Registered
    BY <2>1 DEF Registered, RangeOf
  <2>5. ASSUME NEW s \in Subscribers, NEW n \in RangeOf(seen[s])
        PROVE  n \in RangeOf(seen'[s])
    <3>1. CASE seen'[s] = seen[s]
      BY <3>1
    <3>2. CASE s = h /\ Passes(h, cur[1])
      <4>1. PICK i \in 1..Len(seen[h]) : n = seen[h][i]
        BY <3>2 DEF RangeOf
      <4>2. i \in 1..Len(seen'[h]) /\ seen'[h][i] = n
        BY <2>3, <3>2, <4>1
      <4> QED
        BY <3>2, <4>2 DEF RangeOf
    <3> QED
      BY <2>3, <3>1, <3>2
  <2>6. Passes(h, cur[1]) => pos \in RangeOf(seen'[h])
    <3>1. Passes(h, cur[1]) => Len(seen[h]) + 1 \in 1..Len(seen'[h])
      BY <2>3
    <3> QED
      BY <2>3, <3>1 DEF RangeOf
  <2>7. NoMissedEvent'
    <3>1. ASSUME NEW s \in Registered \ cancelled, NEW i \in (subAt[s] + 1)..done,
                 Wants(s, log[i])
          PROVE  i \in RangeOf(seen'[s])
      <4>1. i \in RangeOf(seen[s])
        BY <3>1 DEF NoMissedEvent
      <4> QED
        BY <1>a, <2>5, <4>1
    <3> QED
      BY <2>1, <2>4, <3>1 DEF NoMissedEvent, Wants, Passes, RangeOf
  <2>8. ASSUME NEW s \in Registered \ cancelled, subAt[s] < pos, Wants(s, cur[1])
        PROVE  s \in RangeOf(todo') \/ pos \in RangeOf(seen'[s])
    <3>1. s \in RangeOf(todo) \/ pos \in RangeOf(seen[s])
      BY <2>1, <2>8 DEF CoverInv
    <3>2. CASE s = h
      BY <2>6, <2>8, <3>2 DEF Wants
    <3>3. CASE s # h
      BY <1>a, <2>2, <2>5, <3>1, <3>3
    <3> QED
      BY <3>2, <3>3
  <2>9. CoverInv'
    BY <2>1, <2>4, <2>8 DEF CoverInv, Wants, Passes, RangeOf
  <2> QED
    BY <2>7, <2>9
<1>8. CASE FinishEvent
  <2>1. /\ UNCHANGED <<seen, log, subs, subAt, cancelled, pos>>
        /\ disp = "call" /\ todo = <<>> /\ disp' = "recv" /\ cur' = <<>>
    BY <1>8 DEF FinishEvent, registry
  <2>2. pos \in 1..Len(log) /\ cur = <<log[pos]>>
    BY <2>1 DEF CurrentInv
  <2>3. Registered' = Registered
    BY <2>1 DEF Registered, RangeOf
  <2>4. ASSUME NEW s \in Registered \ cancelled, NEW i \in (subAt[s] + 1)..pos,
               Wants(s, log[i])
        PROVE  i \in RangeOf(seen[s])
    <3>1. CASE i = pos
      <4>1. subAt[s] < pos /\ Wants(s, cur[1])
        BY <1>0, <1>a, <2>2, <2>4, <3>1
      <4>2. RangeOf(todo) = {}
        BY <2>1 DEF RangeOf
      <4> QED
        BY <2>1, <3>1, <4>1, <4>2 DEF CoverInv
    <3>2. CASE i # pos
      <4>1. i \in (subAt[s] + 1)..done
        BY <1>0, <1>a, <2>2, <3>2
      <4> QED
        BY <2>4, <4>1 DEF NoMissedEvent
    <3> QED
      BY <3>1, <3>2
  <2>5. NoMissedEvent'
    BY <2>1, <2>3, <2>4 DEF NoMissedEvent, Wants, Passes, RangeOf
  <2> QED
    BY <2>1, <2>5 DEF CoverInv
<1>9. CASE Start \/ Exit \/ TestFlag
  <2>1. /\ UNCHANGED <<seen, log, subs, subAt, cancelled, pos, cur, todo>>
        /\ disp' \in {"call", "handler"} => disp \in {"call", "handler"}
    BY <1>9 DEF Start, Exit, LeaveLoop, TestFlag, Invoke, registry
  <2>2. Registered' = Registered
    BY <2>1 DEF Registered, RangeOf
  <2>3. NoMissedEvent'
    BY <2>1, <2>2 DEF NoMissedEvent, Wants, Passes, RangeOf
  <2>4. CoverInv'
    BY <2>1, <2>2 DEF CoverInv, Wants, Passes, RangeOf
  <2> QED
    BY <2>3, <2>4
<1>10. CASE UNCHANGED <<disp, cur, todo, pos, seen, log, subs, subAt, cancelled>>
  <2>1. Registered' = Registered
    BY <1>10 DEF Registered, RangeOf
  <2>2. NoMissedEvent'
    BY <1>10, <2>1 DEF NoMissedEvent, Wants, Passes, RangeOf
  <2>3. CoverInv'
    BY <1>10, <2>1 DEF CoverInv, Wants, Passes, RangeOf
  <2> QED
    BY <2>2, <2>3
<1> QED
  <2>1. \/ UNCHANGED <<disp, cur, todo, pos, seen, log, subs, subAt, cancelled>>
        \/ Start \/ Dispatch
        \/ \E p \in Publishers : Send(p)
        \/ \E s \in Subscribers : Subscribe(s) \/ Cancel(s)
    BY DEF Next, vars, channel, registry, publishing, dispatching, BeginStop, CloseChannel,
           EndStop, Publish, BeginPublish, PassCheck, Drop, SendPanics
  <2> QED
    BY <1>1, <1>2, <1>3, <1>4, <1>5, <1>6, <1>7, <1>8, <1>9, <1>10, <2>1 DEF Dispatch

LEMMA CancelStep ==
  ASSUME TypeOK, InPublicationOrder, CancelIsPrompt, InFlightInv, [Next]_vars
  PROVE  CancelIsPrompt' /\ InFlightInv'
<1>0. /\ pos \in Nat /\ cancelled \subseteq Subscribers
      /\ cancelAt \in [Subscribers -> Nat]
      /\ \A s \in Subscribers : \A i \in 1..Len(seen[s]) : seen[s][i] \in 1..pos
  BY DEF TypeOK, InPublicationOrder
<1>1. ASSUME NEW r \in Subscribers, Cancel(r)
      PROVE  CancelIsPrompt' /\ InFlightInv'
  <2>1. /\ UNCHANGED <<disp, todo, pos, seen>>
        /\ cancelled' = cancelled \cup {r}
        /\ cancelAt' = [cancelAt EXCEPT ![r] = pos]
    BY <1>1 DEF Cancel, dispatching
  <2>2. \A i \in 1..Len(seen[r]) : seen[r][i] <= pos
    BY <1>0
  <2>3. cancelAt'[r] = pos /\ \A s \in Subscribers \ {r} : cancelAt'[s] = cancelAt[s]
    BY <1>0, <2>1
  <2>4. \A s \in cancelled' : \A i \in 1..Len(seen[s]) : seen[s][i] <= cancelAt'[s]
    BY <1>0, <2>1, <2>2, <2>3 DEF CancelIsPrompt
  <2>5. disp = "handler" /\ Head(todo) \in cancelled' => cancelAt'[Head(todo)] = pos
    BY <1>0, <2>1, <2>3 DEF InFlightInv
  <2> QED
    BY <2>1, <2>4, <2>5 DEF CancelIsPrompt, InFlightInv
<1>2. CASE Handler
  <2> DEFINE h == Head(todo)
  <2>1. /\ UNCHANGED <<cancelled, cancelAt, pos>> /\ disp = "handler" /\ disp' = "call"
    BY <1>2 DEF Handler, registry
  <2>2. /\ h \in Subscribers
        /\ \A s \in Subscribers \ {h} : seen'[s] = seen[s]
        /\ \/ seen'[h] = seen[h]
           \/ /\ Len(seen[h]) \in Nat /\ Len(seen'[h]) = Len(seen[h]) + 1
              /\ \A i \in 1..Len(seen[h]) : seen'[h][i] = seen[h][i]
              /\ seen'[h][Len(seen[h]) + 1] = pos
    BY <1>2, HandlerStep
  <2>3. h \in cancelled => cancelAt[h] = pos
    BY <2>1 DEF InFlightInv
  <2> HIDE DEF h
  <2>4. ASSUME NEW s \in cancelled, NEW i \in 1..Len(seen'[s])
        PROVE  seen'[s][i] <= cancelAt[s]
    <3>1. CASE seen'[s] = seen[s]
      BY <3>1 DEF CancelIsPrompt
    <3>2. CASE /\ s = h /\ Len(seen[h]) \in Nat /\ Len(seen'[h]) = Len(seen[h]) + 1
               /\ \A k \in 1..Len(seen[h]) : seen'[h][k] = seen[h][k]
               /\ seen'[h][Len(seen[h]) + 1] = pos
      <4>1. i \in 1..Len(seen[h]) \/ i = Len(seen[h]) + 1
        BY <3>2
      <4>2. CASE i \in 1..Len(seen[h])
        BY <3>2, <4>2 DEF CancelIsPrompt
      <4>3. CASE i = Len(seen[h]) + 1
        BY <1>0, <2>3, <3>2, <4>3
      <4> QED
        BY <4>1, <4>2, <4>3
    <3> QED
      BY <1>0, <2>2, <3>1, <3>2
  <2> QED
    BY <2>1, <2>4 DEF CancelIsPrompt, InFlightInv
<1>3. CASE TestFlag
  BY <1>3 DEF TestFlag, Invoke, registry, CancelIsPrompt, InFlightInv
<1>4. CASE (Start \/ Dispatch) /\ ~Handler /\ ~TestFlag
  <2>1. UNCHANGED <<cancelled, cancelAt, seen>> /\ disp' # "handler"
    BY <1>4 DEF Start, Dispatch, Receive, Exit, LeaveLoop, Snapshot, SkipCancelled,
                FinishEvent, registry
  <2> QED
    BY <2>1 DEF CancelIsPrompt, InFlightInv
<1>5. CASE UNCHANGED <<disp, cur, todo, pos, seen>> /\ UNCHANGED <<cancelled, cancelAt>>
  BY <1>5 DEF CancelIsPrompt, InFlightInv
<1> QED
  BY <1>1, <1>2, <1>3, <1>4, <1>5, Frames

LEMMA ExitStep ==
  ASSUME TypeOK, ExitInv, [Next]_vars
  PROVE  ExitInv'
<1> USE DEF ExitInv
<1>1. ASSUME NEW p \in Publishers, Send(p)
      PROVE  ExitInv'
  BY <1>1 DEF Send, Enqueue, dispatching
<1>2. CASE Start \/ BeginStop \/ CloseChannel \/ EndStop
  BY <1>2 DEF Start, BeginStop, CloseChannel, EndStop, AfterClose, channel, dispatching
<1>3. CASE Dispatch
  BY <1>3 DEF Dispatch, Receive, Exit, LeaveLoop, Snapshot, SkipCancelled, TestFlag,
              Invoke, Handler, FinishEvent, channel
<1>4. CASE UNCHANGED <<disp, closed, ch, stop>>
  BY <1>4
<1> QED
  <2>1. \/ UNCHANGED <<disp, closed, ch, stop>>
        \/ Start \/ BeginStop \/ CloseChannel \/ EndStop \/ Dispatch
        \/ \E p \in Publishers : Send(p)
    BY DEF Next, vars, channel, dispatching, Publish, BeginPublish, PassCheck, Drop,
           SendPanics, Subscribe, Cancel
  <2> QED
    BY <1>1, <1>2, <1>3, <1>4, <2>1

LEMMA PublishStep ==
  ASSUME TypeOK, PublishInv, OnlyOverlappingPublishPanics, [Next]_vars
  PROVE  PublishInv' /\ OnlyOverlappingPublishPanics'
<1> USE DEF PublishInv, OnlyOverlappingPublishPanics
<1>0. pub \in [Publishers -> Seq(Events)] /\ sawRunning \subseteq Publishers
  BY DEF TypeOK
<1>1. ASSUME NEW p \in Publishers, NEW e \in Events, BeginPublish(p, e)
      PROVE  PublishInv' /\ OnlyOverlappingPublishPanics'
  BY <1>0, <1>1 DEF BeginPublish, PassCheck
<1>2. ASSUME NEW p \in Publishers, Send(p) \/ Drop(p) \/ SendPanics(p)
      PROVE  PublishInv' /\ OnlyOverlappingPublishPanics'
  BY <1>0, <1>2 DEF Send, Enqueue, Drop, SendPanics
<1>3. CASE UNCHANGED <<pub, sawRunning, panicked>>
  BY <1>3
<1> QED
  BY <1>1, <1>2, <1>3, Frames DEF Publish

-----------------------------------------------------------------------------
(* The inductive invariant and the theorems.                               *)

IInv ==
  /\ BufferIsPending /\ CurrentInv /\ RegistryInv
  /\ InPublicationOrder /\ FreshInv
  /\ NoMissedEvent /\ CoverInv
  /\ CancelIsPrompt /\ InFlightInv
  /\ ExitInv
  /\ PublishInv /\ OnlyOverlappingPublishPanics

LEMMA InitIInv == Init => IInv
<1> SUFFICES ASSUME Init PROVE IInv
  OBVIOUS
<1> USE DEF Init
<1>1. BufferIsPending /\ CurrentInv /\ InPublicationOrder /\ FreshInv /\ CoverInv
  BY DEF BufferIsPending, CurrentInv, InPublicationOrder, FreshInv, CoverInv
<1>2. \A t \in Types \cup {AnyType} : subs[t] = <<>>
  OBVIOUS
<1>3. RegistryInv
  BY <1>2 DEF RegistryInv, Distinct
<1>4. Registered = {}
  BY <1>2 DEF Registered, RangeOf
<1>5. NoMissedEvent
  BY <1>4 DEF NoMissedEvent
<1>6. CancelIsPrompt /\ InFlightInv /\ ExitInv /\ PublishInv /\ OnlyOverlappingPublishPanics
  BY DEF CancelIsPrompt, InFlightInv, ExitInv, PublishInv, OnlyOverlappingPublishPanics
<1> QED
  BY <1>1, <1>3, <1>5, <1>6 DEF IInv

LEMMA Inductive == Spec => []IInv
<1>1. TypeOK /\ IInv /\ [Next]_vars => IInv'
  BY BufferStep, CurrentStep, RegistryStep, OrderStep, CoverStep, CancelStep, ExitStep,
     PublishStep DEF IInv
<1> QED
  BY <1>1, InitIInv, TypeCorrect, PTL DEF Spec

(* Every subscriber is handed events in publication order, each at most    *)
(* once, and never one the dispatcher has not taken (dispatch and call).   *)
THEOREM PublicationOrder == Spec => []InPublicationOrder
<1>1. IInv => InPublicationOrder
  BY DEF IInv
<1> QED
  BY <1>1, Inductive, PTL

(* The channel holds exactly the accepted events not yet taken, in order.  *)
THEOREM BufferCorrect == Spec => []BufferIsPending
<1>1. IInv => BufferIsPending
  BY DEF IInv
<1> QED
  BY <1>1, Inductive, PTL

(* No live subscription misses an accepted event it asked for, whatever    *)
(* other goroutines subscribe, cancel or publish meanwhile.                *)
THEOREM Completeness == Spec => []NoMissedEvent
<1>1. IInv => NoMissedEvent
  BY DEF IInv
<1> QED
  BY <1>1, Inductive, PTL

(* After Cancel a handler sees at most the event that was being handled.   *)
THEOREM PromptCancel == Spec => []CancelIsPrompt
<1>1. IInv => CancelIsPrompt
  BY DEF IInv
<1> QED
  BY <1>1, Inductive, PTL

(* Stop returns, on a started bus, only with every accepted event handled. *)
THEOREM DrainOnStop == Spec => []StopDrains
<1>1. TypeOK /\ IInv => StopDrains
  <2> SUFFICES ASSUME TypeOK, IInv, stop = "returned", disp # "unstarted"
               PROVE  disp = "exited" /\ ch = <<>> /\ pos = Len(log)
    BY DEF StopDrains
  <2>1. disp = "exited" /\ ch = <<>>
    BY DEF IInv, ExitInv
  <2>2. pos + Len(ch) = Len(log) /\ pos \in Nat
    BY DEF IInv, BufferIsPending, TypeOK
  <2>3. Len(ch) = 0
    BY <2>1
  <2>4. pos = Len(log)
    BY <2>2, <2>3
  <2> QED
    BY <2>1, <2>4
<1> QED
  BY <1>1, Inductive, TypeCorrect, PTL

(* publish panics only when its check of `stopped' came before Stop's.     *)
THEOREM PanicWindow == Spec => []OnlyOverlappingPublishPanics
<1>1. IInv => OnlyOverlappingPublishPanics
  BY DEF IInv
<1> QED
  BY <1>1, Inductive, PTL

(* Every step of the bus is a step of the ordered broadcast or leaves it   *)
(* unchanged: the Dispatch Model of docs/dev/event-bus.md.                 *)
THEOREM Refinement == Spec => BroadcastSpec
<1>1. Init => Broadcast!Init
  BY DEF Init, Broadcast!Init
<1>2. TypeOK /\ IInv /\ [Next]_vars => [Broadcast!Next]_(Broadcast!vars)
  <2> SUFFICES ASSUME TypeOK, IInv, [Next]_vars
               PROVE  [Broadcast!Next]_(Broadcast!vars)
    OBVIOUS
  <2> USE DEF Broadcast!Next, Broadcast!vars
  <2>1. ASSUME NEW p \in Publishers, Send(p)
        PROVE  Broadcast!Accept
    <3>1. pub[p][1] \in Events
      BY <2>1 DEF Send, Enqueue, TypeOK
    <3> QED
      BY <2>1, <3>1 DEF Send, Enqueue, dispatching, Broadcast!Accept
  <2>2. CASE Receive
    <3>1. ch \in Seq(Events) /\ ch # <<>> /\ pos + Len(ch) = Len(log) /\ pos \in Nat
      BY <2>2 DEF Receive, TypeOK, IInv, BufferIsPending
    <3>2. Len(ch) \in Nat \ {0}
      BY <3>1, EmptySeq
    <3>3. pos < Len(log)
      BY <3>1, <3>2
    <3> QED
      BY <2>2, <3>3 DEF Receive, Broadcast!Take
  <2>3. CASE Handler
    <3> DEFINE h == Head(todo)
    <3>1. h \in Subscribers /\ 1 \in 1..Len(todo) /\ todo[1] = h
      BY <2>3, HandlerStep
    <3>2. Fresh(h)
      BY <2>3, <3>1 DEF Handler, IInv, FreshInv
    <3>3. seen[h] \in Seq(Nat) /\ Len(seen[h]) \in Nat /\ pos \in Nat
      BY <3>1, LenProperties DEF TypeOK
    <3>4. Broadcast!LastSeen(h) < pos
      <4>1. CASE seen[h] = <<>>
        <5>1. pos \in 1..Len(log)
          BY <2>3 DEF Handler, IInv, CurrentInv
        <5> QED
          BY <3>3, <4>1, <5>1 DEF Broadcast!LastSeen
      <4>2. CASE seen[h] # <<>>
        <5>1. Len(seen[h]) \in 1..Len(seen[h])
          BY <3>3, <4>2, EmptySeq
        <5> QED
          BY <3>2, <4>2, <5>1 DEF Fresh, Broadcast!LastSeen
      <4> QED
        BY <4>1, <4>2
    <3>5. UNCHANGED seen \/ Broadcast!Deliver(h)
      BY <2>3, <3>4 DEF Handler, Broadcast!Deliver
    <3> QED
      BY <2>3, <3>1, <3>5 DEF Handler
  <2>4. \/ UNCHANGED <<log, pos, seen>>
        \/ Receive \/ Handler \/ \E p \in Publishers : Send(p)
    BY DEF Next, vars, channel, registry, publishing, dispatching, Start, BeginStop,
           CloseChannel, EndStop, Publish, BeginPublish, PassCheck, Drop, SendPanics,
           Subscribe, Cancel, Dispatch, Exit, LeaveLoop, Snapshot, SkipCancelled,
           TestFlag, Invoke, FinishEvent
  <2> QED
    BY <2>1, <2>2, <2>3, <2>4
<1> QED
  BY <1>1, <1>2, Inductive, TypeCorrect, PTL DEF Spec, BroadcastSpec, Broadcast!Spec
=============================================================================
