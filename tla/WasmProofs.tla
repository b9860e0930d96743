----------------------------- MODULE WasmProofs -----------------------------
(***************************************************************************)
(* The safety of a WASM plugin's life, for any number of HTTP handlers,    *)
(* event types and events, and any capacity of the queue.                  *)
(*                                                                         *)
(* Who is in the guest follows from who holds mu and where main is         *)
(* (GuestInv), because nobody else is awake while main is in the guest     *)
(* without mu.  What was handed follows from what was taken (QueueInv);    *)
(* the worker leaves only a closed and empty queue, and none fills it any  *)
(* more.                                                                   *)
(***************************************************************************)
EXTENDS WasmPlugin, SequenceTheorems, FiniteSetTheorems, TLAPS

Before == {"loaded", "init", "failed", "settings", "applying"}

\* The one that holds mu is where the lock protects it.
MuHeld ==
  /\ mu = "worker" <=> worker = "guest"
  /\ mu = "main" <=> life = "applying"
  /\ \A h \in Handlers : mu = h <=> http[h] \in {"reading", "guest", "writing"}

\* The handler that holds mu, while its client is at it.
Waiting == {h \in Handlers : http[h] \in {"reading", "writing"}}

\* Nobody but main knows the plugin before it subscribes.
AloneBefore ==
  life \in Before => worker = "none" /\ \A h \in Handlers : http[h] = "idle"

InGuest ==
  life # "closed" =>
    guest = (IF life \in {"init", "applying", "shutdown"} THEN {"main"} ELSE {})
              \cup ({mu} \ ({"free"} \cup Waiting))

GuestInv == MuHeld /\ AloneBefore /\ InGuest

\* Without a worker nothing comes in.
NothingBefore ==
  worker = "none" =>
    /\ life \notin {"subscribing", "ready"}
    /\ subs = {} /\ bus = <<>> /\ accepted = <<>> /\ eventCh = <<>> /\ handed = <<>>

\* What was taken was handed, but for the event the worker carries.
TakenIsHanded ==
  /\ Len(eventCh) <= Len(accepted)
  /\ Len(handed) + (IF worker = "lock" THEN 1 ELSE 0) = Taken
  /\ \A i \in 1..Len(handed) : handed[i] = i

DrainedWhenGone ==
  /\ worker = "exited" => closed /\ eventCh = <<>>
  /\ life \in {"shutdown", "closed"} => worker \in {"none", "exited"}

QueueInv == NothingBefore /\ TakenIsHanded /\ DrainedWhenGone

-----------------------------------------------------------------------------

LEMMA TypesKept == TypeOK /\ TakenIsHanded /\ [Next]_vars => TypeOK'
<1> SUFFICES ASSUME TypeOK, TakenIsHanded, [Next]_vars PROVE TypeOK'
  OBVIOUS
<1>1. CASE UNCHANGED vars
  BY <1>1 DEF vars, delivery, queue, TypeOK
<1>2. CASE Main
  <2> USE <1>2 DEF TypeOK, delivery, queue, Callers
  <2>1. CASE CallInit \/ InitFails \/ InitSucceeds
    BY <2>1 DEF CallInit, InitFails, InitSucceeds
  <2>2. CASE ApplyInitialSettings \/ StartWorker
    BY <2>2 DEF ApplyInitialSettings, StartWorker
  <2>3. CASE \E t \in Types : Subscribe(t)
    BY <2>3 DEF Subscribe
  <2>4. CASE BeginShutdown \/ CloseQueue
    BY <2>4 DEF BeginShutdown, CloseQueue, CloseChannel
  <2>5. CASE \E t \in Types : CancelSub(t)
    BY <2>5 DEF CancelSub
  <2>6. CASE AwaitWorker \/ CloseModule
    BY <2>6 DEF AwaitWorker, CallShutdown, CloseModule
  <2> QED BY <2>1, <2>2, <2>3, <2>4, <2>5, <2>6 DEF Main
<1>3. CASE \E t \in Types : Deliver(t)
  <2>1. arrived + 1 \in 1..MaxEvents /\ bus' = <<arrived + 1>> /\ arrived' = arrived + 1
    BY <1>3, PluginAssumption DEF Deliver, EnterClosure, TypeOK
  <2> QED BY <1>3, <2>1 DEF Deliver, EnterClosure, TypeOK, queue
<1>4. CASE Send
  <2>1. bus[1] \in Nat
    BY <1>4 DEF Send, Enqueue, TypeOK
  <2>2. /\ eventCh' \in Seq(Nat) /\ accepted' \in Seq(Nat)
        /\ Len(eventCh') = Len(eventCh) + 1
    BY <1>4, <2>1, AppendProperties DEF Send, Enqueue, TypeOK
  <2>3. Len(eventCh') <= Capacity
    BY <1>4, <2>2, LenProperties, PluginAssumption DEF Send, TypeOK
  <2> QED BY <1>4, <2>2, <2>3 DEF Send, Enqueue, TypeOK
<1>5. CASE SendFails
  BY <1>5 DEF SendFails, TypeOK, queue
<1>6. CASE Receive
  <2>1. eventCh' \in Seq(Nat) /\ Len(eventCh') = Len(eventCh) - 1
    BY <1>6, HeadTailProperties DEF Receive, TypeOK
  <2>2. Len(eventCh') <= Capacity
    BY <2>1, LenProperties, PluginAssumption DEF TypeOK
  <2> QED BY <1>6, <2>1, <2>2 DEF Receive, TypeOK, delivery
<1>7. CASE WorkerLocks
  <2>1. Taken \in Nat
    BY LenProperties DEF Taken, TakenIsHanded, TypeOK
  <2>2. handed' \in Seq(Nat)
    BY <1>7, <2>1, AppendProperties DEF WorkerLocks, WorkerEnters, TypeOK
  <2> QED BY <1>7, <2>2 DEF WorkerLocks, WorkerEnters, Entering, TypeOK, delivery, queue, Callers
<1>8. CASE Exit \/ WorkerReturns
  BY <1>8 DEF Exit, LeaveLoop, WorkerReturns, TypeOK, delivery, queue, Callers
<1>9. CASE \E h \in Handlers : Request(h) \/ GuestReturns(h) \/ HandlerReturns(h)
  BY <1>9 DEF Request, GuestReturns, HandlerReturns, TypeOK, delivery, queue
<1>10. CASE \E h \in Handlers : HandlerEnters(h) \/ ReadBody(h)
  <2>1. PICK h \in Handlers : HandlerEnters(h) \/ ReadBody(h)
    BY <1>10
  <2>2. guest' \in SUBSET Callers /\ mu' \in Callers \cup {"free"}
    BY <2>1 DEF HandlerEnters, ReadBody, Entering, TypeOK, Callers
  <2> QED BY <2>1, <2>2 DEF HandlerEnters, ReadBody, TypeOK, delivery, queue
<1> QED BY <1>1, <1>2, <1>3, <1>4, <1>5, <1>6, <1>7, <1>8, <1>9, <1>10
        DEF Next, Dispatcher, Worker, Handler

-----------------------------------------------------------------------------
(* Who is in the guest                                                     *)

LEMMA GuestKept == TypeOK /\ GuestInv /\ [Next]_vars => GuestInv'
<1> SUFFICES ASSUME TypeOK, GuestInv, [Next]_vars PROVE GuestInv'
  OBVIOUS
<1> USE PluginAssumption DEF GuestInv, MuHeld, AloneBefore, InGuest, Waiting, Before, delivery, queue
<1>0. /\ http \in [Handlers -> {"idle", "lock", "reading", "guest", "writing"}] /\ mu \in Callers \cup {"free"}
      /\ \A h \in Handlers : h \notin {"free", "main", "worker"}
  BY DEF TypeOK
<1>1. CASE UNCHANGED vars
  BY <1>1 DEF vars
<1>2. CASE Main
  <2>1. CASE CallInit
    BY <1>0, <2>1 DEF CallInit, Callers
  <2>2. CASE InitFails \/ InitSucceeds
    BY <1>0, <2>2 DEF InitFails, InitSucceeds, Callers
  <2>3. CASE ApplyInitialSettings
    BY <1>0, <2>3 DEF ApplyInitialSettings
  <2>4. CASE StartWorker
    BY <1>0, <2>4 DEF StartWorker
  <2>5. CASE \E t \in Types : Subscribe(t) \/ CancelSub(t)
    BY <1>0, <2>5 DEF Subscribe, CancelSub
  <2>6. CASE BeginShutdown \/ CloseQueue
    BY <1>0, <2>6 DEF BeginShutdown, CloseQueue, CloseChannel
  <2>7. CASE AwaitWorker
    BY <1>0, <2>7 DEF AwaitWorker, CallShutdown
  <2>8. CASE CloseModule
    BY <1>0, <2>8 DEF CloseModule
  <2> QED BY <1>2, <2>1, <2>2, <2>3, <2>4, <2>5, <2>6, <2>7, <2>8 DEF Main
<1>3. CASE Dispatcher
  BY <1>3 DEF Dispatcher, Deliver, EnterClosure, Send, Enqueue, SendFails
<1>4. CASE Receive \/ Exit
  BY <1>0, <1>4 DEF Receive, Exit, LeaveLoop
<1>5. CASE WorkerLocks
  BY <1>0, <1>5 DEF WorkerLocks, WorkerEnters, Entering
<1>6. CASE WorkerReturns
  BY <1>0, <1>6 DEF WorkerReturns
<1>7. CASE \E h \in Handlers : Request(h)
  BY <1>0, <1>7 DEF Request, Serving
<1>8. CASE \E h \in Handlers : HandlerEnters(h)
  BY <1>0, <1>8 DEF HandlerEnters
<1>9. CASE \E h \in Handlers : ReadBody(h)
  BY <1>0, <1>9 DEF ReadBody, Entering
<1>10. CASE \E h \in Handlers : GuestReturns(h)
  BY <1>0, <1>10 DEF GuestReturns
<1>11. CASE \E h \in Handlers : HandlerReturns(h)
  BY <1>0, <1>11 DEF HandlerReturns
<1> QED BY <1>1, <1>2, <1>3, <1>4, <1>5, <1>6, <1>7, <1>8, <1>9, <1>10, <1>11
        DEF Next, Worker, Handler

\* InGuest says it in one set: the guest has one caller at most.
LEMMA AtMostOne == TypeOK /\ GuestInv => OneGuestCall
<1> SUFFICES ASSUME TypeOK, GuestInv, life \notin {"shutdown", "closed"}
             PROVE  /\ Cardinality(guest) <= 1
                    /\ guest = {"main"} => life \in {"init", "applying"}
                    /\ guest \ {"main"} \subseteq {mu}
  BY DEF OneGuestCall
<1>a. Cardinality({}) <= 1 /\ \A x : Cardinality({x}) <= 1
  BY FS_EmptySet, FS_Singleton
<1> USE PluginAssumption DEF GuestInv, MuHeld, AloneBefore, InGuest, Before
<1>0. /\ mu \in Callers \cup {"free"}
      /\ \A h \in Handlers : h \notin {"free", "main", "worker"}
  BY DEF TypeOK
<1>1. CASE life = "init"
  <2>1. mu = "free" /\ guest = {"main"}
    BY <1>0, <1>1 DEF Callers
  <2> QED BY <1>1, <2>1, <1>a
<1>2. CASE life = "applying"
  <2>1. mu = "main" /\ guest = {"main"}
    BY <1>2
  <2> QED BY <1>2, <2>1, <1>a
<1>3. CASE life \notin {"init", "applying"}
  <2>1. guest = {mu} \ ({"free"} \cup Waiting) /\ mu # "main"
    BY <1>3
  <2>2. CASE mu \in {"free"} \cup Waiting
    BY <2>1, <2>2, <1>a
  <2>3. CASE mu \notin {"free"} \cup Waiting
    <3>1. guest = {mu}
      BY <2>1, <2>3
    <3> QED BY <2>1, <3>1, <1>a
  <2> QED BY <2>2, <2>3
<1> QED BY <1>1, <1>2, <1>3

-----------------------------------------------------------------------------
(* What the guest is handed                                                *)

LEMMA NothingBeforeKept ==
  TypeOK /\ GuestInv /\ NothingBefore /\ [Next]_vars => NothingBefore'
<1> SUFFICES ASSUME TypeOK, GuestInv, NothingBefore, [Next]_vars PROVE NothingBefore'
  OBVIOUS
<1> USE DEF NothingBefore, delivery, queue
<1>1. CASE UNCHANGED vars
  BY <1>1 DEF vars
<1>2. CASE Main
  BY <1>2 DEF Main, CallInit, InitFails, InitSucceeds, ApplyInitialSettings, StartWorker,
     Subscribe, BeginShutdown, CancelSub, CloseQueue, CloseChannel, AwaitWorker, CallShutdown,
     CloseModule, TypeOK
<1>3. CASE Dispatcher
  BY <1>3 DEF Dispatcher, Deliver, EnterClosure, Send, Enqueue, SendFails
<1>4. CASE Worker
  BY <1>4 DEF Worker, Receive, Exit, LeaveLoop, WorkerLocks, WorkerEnters, WorkerReturns
<1>5. CASE \E h \in Handlers : Handler(h)
  BY <1>5 DEF Handler, Request, HandlerEnters, ReadBody, GuestReturns, HandlerReturns
<1> QED BY <1>1, <1>2, <1>3, <1>4, <1>5 DEF Next

\* Steps that touch neither the queue nor what was handed.
LEMMA Untouched ==
  ASSUME TakenIsHanded, UNCHANGED <<eventCh, accepted, handed>>,
         worker' = "lock" <=> worker = "lock"
  PROVE  TakenIsHanded'
BY DEF TakenIsHanded, Taken

LEMMA TakenKept == TypeOK /\ GuestInv /\ TakenIsHanded /\ [Next]_vars => TakenIsHanded'
<1> SUFFICES ASSUME TypeOK, GuestInv, TakenIsHanded, [Next]_vars PROVE TakenIsHanded'
  OBVIOUS
<1>0. /\ eventCh \in Seq(Nat) /\ accepted \in Seq(Nat) /\ handed \in Seq(Nat)
      /\ Len(eventCh) \in Nat /\ Len(accepted) \in Nat /\ Len(handed) \in Nat
  BY LenProperties DEF TypeOK
<1>1. CASE UNCHANGED vars
  BY <1>1, Untouched DEF vars, queue
<1>2. CASE Main
  <2>1. UNCHANGED <<eventCh, accepted, handed>> /\ worker' \in {worker, "recv"}
    BY <1>2 DEF Main, CallInit, InitFails, InitSucceeds, ApplyInitialSettings, StartWorker,
       Subscribe, BeginShutdown, CancelSub, CloseQueue, AwaitWorker, CallShutdown, CloseModule,
       queue
  <2>2. worker' = "lock" <=> worker = "lock"
    BY <1>2 DEF Main, CallInit, InitFails, InitSucceeds, ApplyInitialSettings, StartWorker,
       Subscribe, BeginShutdown, CancelSub, CloseQueue, AwaitWorker, CallShutdown, CloseModule,
       GuestInv, AloneBefore, Before
  <2> QED BY <2>1, <2>2, Untouched
<1>3. CASE (\E t \in Types : Deliver(t)) \/ SendFails
  BY <1>3, Untouched DEF Deliver, EnterClosure, SendFails, queue
<1>4. CASE Send
  <2>1. bus[1] \in Nat
    BY <1>4 DEF Send, Enqueue, TypeOK
  <2>2. Len(eventCh') = Len(eventCh) + 1 /\ Len(accepted') = Len(accepted) + 1
    BY <1>0, <1>4, <2>1, AppendProperties DEF Send, Enqueue
  <2>3. Taken' = Taken /\ Len(eventCh') <= Len(accepted')
    BY <1>0, <2>2 DEF TakenIsHanded, Taken
  <2> QED BY <1>4, <2>3 DEF Send, Enqueue, TakenIsHanded
<1>5. CASE Receive
  <2>1. Len(eventCh') = Len(eventCh) - 1
    BY <1>0, <1>5, HeadTailProperties DEF Receive
  <2> QED BY <1>0, <1>5, <2>1 DEF Receive, TakenIsHanded, Taken
<1>6. CASE WorkerLocks
  <2>1. handed' = Append(handed, Taken) /\ Taken = Len(handed) + 1 /\ Taken \in Nat
    BY <1>0, <1>6 DEF WorkerLocks, WorkerEnters, TakenIsHanded
  <2>2. /\ Len(handed') = Len(handed) + 1 /\ handed'[Len(handed) + 1] = Taken
        /\ \A i \in 1..Len(handed) : handed'[i] = handed[i]
    BY <1>0, <2>1, AppendProperties
  <2>3. \A i \in 1..Len(handed') : handed'[i] = i
    BY <1>0, <2>1, <2>2 DEF TakenIsHanded
  <2> QED BY <1>0, <1>6, <2>1, <2>2, <2>3
          DEF WorkerLocks, WorkerEnters, TakenIsHanded, Taken, queue
<1>7. CASE Exit \/ WorkerReturns
  BY <1>7, Untouched DEF Exit, LeaveLoop, WorkerReturns, queue
<1>8. CASE \E h \in Handlers : Handler(h)
  BY <1>8, Untouched DEF Handler, Request, HandlerEnters, ReadBody, GuestReturns, HandlerReturns, queue
<1> QED BY <1>1, <1>2, <1>3, <1>4, <1>5, <1>6, <1>7, <1>8 DEF Next, Dispatcher, Worker

LEMMA DrainedKept ==
  TypeOK /\ GuestInv /\ NothingBefore /\ DrainedWhenGone /\ [Next]_vars => DrainedWhenGone'
<1> SUFFICES ASSUME TypeOK, GuestInv, NothingBefore, DrainedWhenGone, [Next]_vars
             PROVE  DrainedWhenGone'
  OBVIOUS
<1> USE DEF DrainedWhenGone, delivery, queue
<1>1. CASE UNCHANGED vars
  BY <1>1 DEF vars
<1>2. CASE Main
  <2>1. CASE StartWorker
    BY <2>1 DEF StartWorker
  <2>2. CASE CloseQueue
    BY <2>2 DEF CloseQueue, CloseChannel
  <2>3. CASE AwaitWorker \/ CloseModule
    BY <2>3 DEF AwaitWorker, CallShutdown, CloseModule
  <2> QED BY <1>2, <2>1, <2>2, <2>3 DEF Main, CallInit, InitFails, InitSucceeds,
       ApplyInitialSettings, Subscribe, BeginShutdown, CancelSub
<1>3. CASE Dispatcher
  BY <1>3 DEF Dispatcher, Deliver, EnterClosure, Send, Enqueue, SendFails
<1>4. CASE Worker
  BY <1>4 DEF Worker, Receive, Exit, LeaveLoop, WorkerLocks, WorkerEnters, WorkerReturns
<1>5. CASE \E h \in Handlers : Handler(h)
  BY <1>5 DEF Handler, Request, HandlerEnters, ReadBody, GuestReturns, HandlerReturns
<1> QED BY <1>1, <1>2, <1>3, <1>4, <1>5 DEF Next

-----------------------------------------------------------------------------
(* The theorems                                                            *)

PluginInv == TypeOK /\ GuestInv /\ QueueInv

LEMMA PluginInitially == Init => PluginInv
<1> SUFFICES ASSUME Init PROVE PluginInv
  OBVIOUS
<1>1. /\ <<>> \in Seq(Nat) /\ Len(<<>>) = 0 /\ 0 \in 0..MaxEvents /\ 0 <= Capacity
  BY PluginAssumption
<1>2. TypeOK
  BY <1>1 DEF Init, TypeOK, Callers
<1>3. GuestInv
  BY PluginAssumption DEF Init, GuestInv, MuHeld, AloneBefore, InGuest
<1>4. QueueInv
  BY <1>1 DEF Init, QueueInv, NothingBefore, TakenIsHanded, DrainedWhenGone, Taken
<1> QED BY <1>2, <1>3, <1>4 DEF PluginInv

LEMMA PluginKept == Spec => []PluginInv
<1>1. PluginInv /\ [Next]_vars => PluginInv'
  BY TypesKept, GuestKept, NothingBeforeKept, TakenKept, DrainedKept DEF PluginInv, QueueInv
<1> QED BY <1>1, PluginInitially, PTL DEF Spec

\* host.go:62, 150-420: a module instance is not goroutine-safe, and apart
\* from plugin_shutdown no two goroutines are in it.
THEOREM GuestCallsAlone == Spec => []OneGuestCall
<1>1. PluginInv => OneGuestCall
  BY AtMostOne DEF PluginInv
<1> QED BY <1>1, PluginKept, PTL

\* host.go:391-425: plugin_shutdown comes after the last event the queue
\* accepted, whatever a closure of the bus is still doing.
THEOREM DrainedBeforeShutdown == Spec => []ShutdownAfterDrain
<1>1. PluginInv => ShutdownAfterDrain
  <2> SUFFICES ASSUME PluginInv, life = "shutdown"
               PROVE  worker # "lock" /\ worker # "guest" /\ Len(handed) = Len(accepted)
    BY DEF ShutdownAfterDrain
  <2>1. worker \in {"none", "exited"} /\ eventCh = <<>>
    BY DEF PluginInv, QueueInv, DrainedWhenGone, NothingBefore
  <2>2. Len(eventCh) = 0 /\ Len(accepted) \in Nat /\ Len(handed) \in Nat
    BY <2>1, LenProperties DEF PluginInv, TypeOK
  <2> QED BY <2>1, <2>2 DEF PluginInv, QueueInv, TakenIsHanded, Taken
<1> QED BY <1>1, PluginKept, PTL

\* host.go:270-330: the second hop, from the bus through the queue to the
\* guest, is an ordered broadcast again: each accepted event at most once, and
\* in order.
THEOREM QueueRefines == Spec => BroadcastSpec
<1>1. Init => Broadcast!Init
  <2>1. Len(<<>>) = 0
    OBVIOUS
  <2> QED BY <2>1 DEF Init, Broadcast!Init, Taken
<1>2. PluginInv /\ [Next]_vars => [Broadcast!Next]_(Broadcast!vars)
  <2> SUFFICES ASSUME PluginInv, [Next]_vars
               PROVE  [Broadcast!Next]_(Broadcast!vars)
    OBVIOUS
  <2>0. /\ TypeOK /\ TakenIsHanded
        /\ Len(eventCh) \in Nat /\ Len(accepted) \in Nat /\ Len(handed) \in Nat
    BY LenProperties DEF PluginInv, QueueInv, TypeOK
  <2>1. CASE Send
    <3>1. bus[1] \in 1..MaxEvents /\ accepted' = Append(accepted, bus[1])
      BY <2>0, <2>1 DEF Send, Enqueue, TypeOK
    <3>2. Len(eventCh') = Len(eventCh) + 1 /\ Len(accepted') = Len(accepted) + 1
      BY <2>0, <2>1, <3>1, AppendProperties DEF Send, Enqueue, TypeOK
    <3>3. Taken' = Taken
      BY <2>0, <3>2 DEF Taken
    <3> QED BY <2>1, <3>1, <3>3 DEF Send, Enqueue, Broadcast!Next, Broadcast!Accept
  <2>2. CASE Receive
    <3>1. Len(eventCh') = Len(eventCh) - 1 /\ Len(eventCh) > 0
      BY <2>0, <2>2, HeadTailProperties, EmptySeq DEF Receive, TypeOK
    <3>2. Taken' = Taken + 1 /\ Taken < Len(accepted)
      BY <2>0, <2>2, <3>1 DEF Receive, Taken
    <3> QED BY <2>2, <3>2 DEF Receive, Broadcast!Next, Broadcast!Take
  <2>3. CASE WorkerLocks
    <3>1. /\ handed' = Append(handed, Taken) /\ Taken' = Taken /\ accepted' = accepted
          /\ Taken = Len(handed) + 1
      BY <2>0, <2>3 DEF WorkerLocks, WorkerEnters, TakenIsHanded, Taken, queue
    <3>2. Broadcast!LastSeen("worker") < Taken
      <4>1. CASE handed = <<>>
        BY <2>0, <3>1, <4>1 DEF Broadcast!LastSeen
      <4>2. CASE handed # <<>>
        <5>1. Len(handed) \in 1..Len(handed)
          BY <2>0, <4>2, EmptySeq DEF TypeOK
        <5>2. handed[Len(handed)] = Len(handed)
          BY <2>0, <5>1 DEF TakenIsHanded
        <5> QED BY <2>0, <3>1, <4>2, <5>2 DEF Broadcast!LastSeen
      <4> QED BY <4>1, <4>2
    <3>3. Broadcast!Deliver("worker")
      BY <3>1, <3>2 DEF Broadcast!Deliver
    <3> QED BY <3>3 DEF Broadcast!Next
  <2>4. CASE UNCHANGED <<accepted, eventCh, handed>>
    BY <2>4 DEF Broadcast!vars, Taken
  <2>5. \/ Send \/ Receive \/ WorkerLocks
        \/ UNCHANGED <<accepted, eventCh, handed>>
    BY DEF Next, vars, queue, delivery, Main, CallInit, InitFails, InitSucceeds,
       ApplyInitialSettings, StartWorker, Subscribe, BeginShutdown, CancelSub, CloseQueue,
       AwaitWorker, CallShutdown, CloseModule, Dispatcher, Deliver, EnterClosure, SendFails,
       Worker, Exit, LeaveLoop, WorkerReturns, Handler, Request, HandlerEnters, ReadBody,
       GuestReturns, HandlerReturns
  <2> QED BY <2>1, <2>2, <2>3, <2>4, <2>5
<1> QED BY <1>1, <1>2, PluginKept, PTL DEF Spec, BroadcastSpec, Broadcast!Spec
=============================================================================
