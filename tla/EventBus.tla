------------------------------ MODULE EventBus ------------------------------
(***************************************************************************)
(* The in-process event bus, src/internal/oofevents/impl.go.               *)
(*                                                                         *)
(* Any goroutine publishes: publish first loads `stopped' and then tries a *)
(* non-blocking send on the buffered channel `ch', two steps another       *)
(* goroutine may come between.  One dispatcher goroutine ranges over `ch', *)
(* snapshots the subscriber lists under the read lock, and calls each      *)
(* subscriber after testing its `cancelled' flag.  Stop sets `stopped',    *)
(* closes `ch' and waits for the dispatcher to drain it.                   *)
(*                                                                         *)
(* log, seen, subAt, cancelAt and sawRunning are history variables: they   *)
(* record what the code did and guard nothing.                             *)
(***************************************************************************)
EXTENDS Naturals, Sequences, FiniteSets

CONSTANTS
  Publishers,     \* goroutines that publish
  Subscribers,    \* subscriptions (one closure each)
  Types,          \* event types
  AnyType,        \* marks a SubscribeAll subscription
  SubType,        \* SubType[s]: the type s is registered for, or AnyType
  MinCert,        \* MinCert[s]: the filter of SubscribeMinCertainty; 2 = none
  Events,         \* the events published: records of a type and a certainty
  Capacity,       \* dispatchBuffer, 256 in the code
  MaxPublish      \* bound on publish calls in one behaviour

Certainties == 0..2      \* Authoritative, Inferred, Signal

ASSUME BusAssumption ==
  /\ AnyType \notin Types
  /\ Events \subseteq [type : Types, cert : Certainties]
  /\ SubType \in [Subscribers -> Types \cup {AnyType}]
  /\ MinCert \in [Subscribers -> Certainties]
  /\ Capacity \in Nat \ {0}
  /\ MaxPublish \in Nat

VARIABLES
  ch,          \* the buffered channel
  closed,      \* close(b.ch) has run
  stopped,     \* b.stopped
  subs,        \* subs[t]: subscriptions for type t, in registration order;
               \* subs[AnyType] is b.allSubs
  cancelled,   \* subscriptions whose flag is set
  pub,         \* pub[p]: <<>>, or <<e>> while p is between load and send
  panicked,    \* publishers whose send hit the closed channel
  calls,       \* publish calls so far (bound)
  dropped,     \* events publish discarded because ch was full
  disp,        \* program counter of dispatch
  cur,         \* <<e>> while the dispatcher handles e, else <<>>
  todo,        \* the dispatcher's snapshot, still to be called
  stop,        \* program counter of the goroutine that calls Stop
  log,         \* events accepted by ch, in order
  pos,         \* events taken from ch
  seen,        \* seen[s]: positions of log handed to s, in order
  subAt,       \* subAt[s]: pos when s registered
  cancelAt,    \* cancelAt[s]: pos when s was cancelled
  sawRunning   \* publishers whose current call began before Stop did

channel == <<ch, closed>>
registry == <<subs, cancelled, subAt, cancelAt>>
publishing == <<pub, panicked, calls, dropped, sawRunning>>
dispatching == <<disp, cur, todo, pos, seen>>
vars == <<channel, stopped, registry, publishing, dispatching, stop, log>>

RangeOf(q) == {q[i] : i \in 1..Len(q)}

Registered == UNION {RangeOf(subs[t]) : t \in Types \cup {AnyType}}

Init ==
  /\ ch = <<>> /\ closed = FALSE /\ stopped = FALSE
  /\ subs = [t \in Types \cup {AnyType} |-> <<>>] /\ cancelled = {}
  /\ pub = [p \in Publishers |-> <<>>]
  /\ panicked = {} /\ calls = 0 /\ dropped = 0
  /\ disp = "unstarted" /\ cur = <<>> /\ todo = <<>>
  /\ stop = "idle"
  /\ log = <<>> /\ pos = 0
  /\ seen = [s \in Subscribers |-> <<>>]
  /\ subAt = [s \in Subscribers |-> 0]
  /\ cancelAt = [s \in Subscribers |-> 0]
  /\ sawRunning = {}

-----------------------------------------------------------------------------
(* Start and Stop, called by the goroutine that owns the bus               *)

\* Start: once; the goroutine ranges over ch.  main.go starts the bus at most once
\* and before it may stop it.
Start ==
  /\ disp = "unstarted"
  /\ stop = "idle"
  /\ disp' = "recv"
  /\ UNCHANGED <<channel, stopped, registry, publishing, cur, todo, pos, seen, stop, log>>

\* Stop: the compare-and-swap ...
BeginStop ==
  /\ stop = "idle"
  /\ ~stopped
  /\ stopped' = TRUE
  /\ stop' = "closing"
  /\ UNCHANGED <<channel, registry, publishing, dispatching, log>>

\* ... then close(b.ch); b.done is nil when Start was never called.
AfterCloseAlwaysWait == "waiting"

AfterClose == IF disp = "unstarted" THEN "returned" ELSE "waiting"

CloseChannel ==
  /\ stop = "closing"
  /\ closed' = TRUE
  /\ stop' = AfterClose
  /\ UNCHANGED <<ch, stopped, registry, publishing, dispatching, log>>

\* ... then <-b.done.
EndStop ==
  /\ stop = "waiting"
  /\ disp = "exited"
  /\ stop' = "returned"
  /\ UNCHANGED <<channel, stopped, registry, publishing, dispatching, log>>

-----------------------------------------------------------------------------
(* publish                                                                 *)

\* publishWithCertainty has accepted the certainty; publish goes past its
\* load of `stopped' with event e in hand.
PassCheck(p, e) ==
  /\ pub[p] = <<>> /\ calls < MaxPublish
  /\ calls' = calls + 1
  /\ pub' = [pub EXCEPT ![p] = <<e>>]
  /\ sawRunning' = IF stopped THEN sawRunning \ {p} ELSE sawRunning \cup {p}
  /\ UNCHANGED <<channel, stopped, registry, panicked, dropped, dispatching, stop, log>>

BeginPublish(p, e) == ~stopped /\ PassCheck(p, e)

\* select { case b.ch <- e: ... }: there is room.
Enqueue(p) ==
  /\ pub[p] # <<>> /\ ~closed
  /\ ch' = Append(ch, pub[p][1])
  /\ log' = Append(log, pub[p][1])
  /\ pub' = [pub EXCEPT ![p] = <<>>]
  /\ UNCHANGED <<closed, stopped, registry, panicked, calls, dropped, sawRunning, dispatching, stop>>

Send(p) == Len(ch) < Capacity /\ Enqueue(p)

\* select { default: }: the buffer is full and the event is dropped.
Drop(p) ==
  /\ Len(ch) >= Capacity
  /\ pub[p] # <<>> /\ ~closed
  /\ dropped' = dropped + 1
  /\ pub' = [pub EXCEPT ![p] = <<>>]
  /\ UNCHANGED <<channel, stopped, registry, panicked, calls, sawRunning, dispatching, stop, log>>

\* A send on a closed channel panics, even in a select with a default.
SendPanics(p) ==
  /\ pub[p] # <<>> /\ closed
  /\ panicked' = panicked \cup {p}
  /\ pub' = [pub EXCEPT ![p] = <<>>]
  /\ UNCHANGED <<channel, stopped, registry, calls, dropped, sawRunning, dispatching, stop, log>>

-----------------------------------------------------------------------------
(* Subscribe, SubscribeAll, SubscribeMinCertainty, Cancel                  *)

Subscribe(s) ==
  /\ s \notin Registered
  /\ subs' = [subs EXCEPT ![SubType[s]] = Append(@, s)]
  /\ subAt' = [subAt EXCEPT ![s] = pos]
  /\ UNCHANGED <<channel, stopped, cancelled, cancelAt, publishing, dispatching, stop, log>>

\* Cancel only sets the flag; the subscription stays in the list.
Cancel(s) ==
  /\ s \in Registered
  /\ s \notin cancelled
  /\ cancelled' = cancelled \cup {s}
  /\ cancelAt' = [cancelAt EXCEPT ![s] = pos]
  /\ UNCHANGED <<channel, stopped, subs, subAt, publishing, dispatching, stop, log>>

-----------------------------------------------------------------------------
(* dispatch and call                                                       *)

\* for e := range b.ch
Receive ==
  /\ disp = "recv" /\ ch # <<>>
  /\ cur' = <<Head(ch)>>
  /\ ch' = Tail(ch)
  /\ pos' = pos + 1
  /\ disp' = "snapshot"
  /\ UNCHANGED <<closed, stopped, registry, publishing, todo, seen, stop, log>>

\* The range loop ends when ch is closed and empty; defer close(b.done).
LeaveLoop ==
  /\ disp = "recv" /\ closed
  /\ disp' = "exited"
  /\ UNCHANGED <<channel, stopped, registry, publishing, cur, todo, pos, seen, stop, log>>

Exit == ch = <<>> /\ LeaveLoop

\* Both lists are copied under one read lock: typed subscriptions first.
SnapshotTwice(e) == subs[e.type] \o subs[e.type] \o subs[AnyType]
SnapshotTyped(e) == IF subs[e.type] # <<>> THEN subs[e.type] ELSE subs[AnyType]

SnapshotOf(e) == subs[e.type] \o subs[AnyType]

Snapshot ==
  /\ disp = "snapshot"
  /\ todo' = SnapshotOf(cur[1])
  /\ disp' = "call"
  /\ UNCHANGED <<channel, stopped, registry, publishing, cur, pos, seen, stop, log>>

\* call returns at once when the flag is set, ...
SkipCancelled ==
  /\ disp = "call" /\ todo # <<>>
  /\ Head(todo) \in cancelled
  /\ todo' = Tail(todo)
  /\ UNCHANGED <<channel, stopped, registry, publishing, disp, cur, pos, seen, stop, log>>

\* ... and otherwise goes on to invoke the handler: a Cancel that comes
\* between this test and the handler's own code is not noticed.
Invoke ==
  /\ disp = "call" /\ todo # <<>>
  /\ disp' = "handler"
  /\ UNCHANGED <<channel, stopped, registry, publishing, cur, todo, pos, seen, stop, log>>

TestFlag == todo # <<>> /\ Head(todo) \notin cancelled /\ Invoke

\* s.fn(e).  The closure of SubscribeMinCertainty compares the ranks before
\* it calls the subscriber.  A panic is recovered in call, so a handler that
\* panics continues the loop exactly as one that returns.
Passes(s, e) == e.cert <= MinCert[s]

Handler ==
  /\ disp = "handler"
  /\ LET s == Head(todo) IN
       seen' = IF Passes(s, cur[1]) THEN [seen EXCEPT ![s] = Append(@, pos)]
                                    ELSE seen
  /\ todo' = Tail(todo)
  /\ disp' = "call"
  /\ UNCHANGED <<channel, stopped, registry, publishing, cur, pos, stop, log>>

\* The loop body ends (ResetMatch is a no-op).
FinishEvent ==
  /\ disp = "call" /\ todo = <<>>
  /\ cur' = <<>>
  /\ disp' = "recv"
  /\ UNCHANGED <<channel, stopped, registry, publishing, todo, pos, seen, stop, log>>

-----------------------------------------------------------------------------

Dispatch ==
  Receive \/ Exit \/ Snapshot \/ SkipCancelled \/ TestFlag \/ Handler \/ FinishEvent

Publish(p) ==
  \/ \E e \in Events : BeginPublish(p, e)
  \/ Send(p) \/ Drop(p) \/ SendPanics(p)

Next ==
  \/ Start \/ BeginStop \/ CloseChannel \/ EndStop
  \/ \E p \in Publishers : Publish(p)
  \/ \E s \in Subscribers : Subscribe(s) \/ Cancel(s)
  \/ Dispatch

Spec == Init /\ [][Next]_vars

\* The dispatcher goroutine and the goroutine inside Stop are scheduled by
\* the Go runtime, and handlers return ("Handlers must not block").
Fairness == WF_vars(Dispatch) /\ WF_vars(CloseChannel) /\ WF_vars(EndStop)

FairSpec == Spec /\ Fairness

-----------------------------------------------------------------------------
(* Properties                                                              *)

TypeOK ==
  /\ ch \in Seq(Events) /\ Len(ch) <= Capacity
  /\ log \in Seq(Events)
  /\ closed \in BOOLEAN /\ stopped \in BOOLEAN
  /\ subs \in [Types \cup {AnyType} -> Seq(Subscribers)]
  /\ cancelled \in SUBSET Subscribers
  /\ pub \in [Publishers -> Seq(Events)]
  /\ panicked \in SUBSET Publishers /\ sawRunning \in SUBSET Publishers
  /\ calls \in Nat /\ dropped \in Nat /\ pos \in Nat
  /\ disp \in {"unstarted", "recv", "snapshot", "call", "handler", "exited"}
  /\ cur \in Seq(Events)
  /\ disp \in {"snapshot", "call", "handler"} => cur # <<>>
  /\ todo \in Seq(Subscribers)
  /\ disp = "handler" => todo # <<>>
  /\ stop \in {"idle", "closing", "waiting", "returned"}
  /\ seen \in [Subscribers -> Seq(Nat)]
  /\ subAt \in [Subscribers -> Nat]
  /\ cancelAt \in [Subscribers -> Nat]

Wants(s, e) == SubType[s] \in {e.type, AnyType} /\ Passes(s, e)

\* "Events arrive at subscribers in publication order" (event-bus.md): the
\* positions each subscriber was handed increase strictly, so nothing is
\* handed out of order or twice, and none lies ahead of the dispatcher.
InPublicationOrder ==
  \A s \in Subscribers : \A i \in 1..Len(seen[s]) :
    /\ seen[s][i] \in 1..pos
    /\ i > 1 => seen[s][i - 1] < seen[s][i]

\* What the channel holds is exactly what was accepted and not yet taken,
\* in order: no accepted event is lost, replaced or invented.
BufferIsPending ==
  /\ pos + Len(ch) = Len(log)
  /\ \A i \in 1..Len(ch) : ch[i] = log[pos + i]

\* A subscriber registered before an accepted event was taken, and not
\* cancelled, has been handed it once the dispatcher is past it: neither a
\* concurrent Subscribe or Cancel nor a panicking handler makes it miss one.
NoMissedEvent ==
  \A s \in Registered \ cancelled :
    \A i \in (subAt[s] + 1)..(IF cur = <<>> THEN pos ELSE pos - 1) :
      Wants(s, log[i]) => i \in RangeOf(seen[s])

\* Cancel does not wait for the dispatcher.  A handler may still run after
\* Cancel has returned, but only for the event in hand at that moment.
CancelIsPrompt ==
  \A s \in cancelled : \A i \in 1..Len(seen[s]) : seen[s][i] <= cancelAt[s]

\* Stop returns, on a started bus, only after every accepted event has been
\* dispatched: main.go closes the database right after it.
StopDrains ==
  stop = "returned" /\ disp # "unstarted"
    => disp = "exited" /\ ch = <<>> /\ pos = Len(log)

\* A publish that begins after Stop has set `stopped' never reaches the
\* closed channel: only a call already past its check can panic there.
OnlyOverlappingPublishPanics == panicked \subseteq sawRunning

\* Stop terminates once it has begun, however full the buffer is.
StopReturns == (stop = "closing") ~> (stop = "returned")

\* The bus implements the ordered broadcast that the documentation states.
Broadcast == INSTANCE OrderedBroadcast
BroadcastSpec == Broadcast!Spec

-----------------------------------------------------------------------------
(* The parts of the inductive invariant the proofs use.                    *)

Distinct(q) == \A i, j \in 1..Len(q) : q[i] = q[j] => i = j

\* Every list holds its own subscriptions, each once.
RegistryInv ==
  /\ \A t \in Types \cup {AnyType} :
       /\ Distinct(subs[t])
       /\ \A i \in 1..Len(subs[t]) : SubType[subs[t][i]] = t
  /\ \A s \in Subscribers : subAt[s] <= pos

\* cur is the last entry taken, and only while it is being handled.
CurrentInv ==
  IF disp \in {"snapshot", "call", "handler"}
  THEN pos \in 1..Len(log) /\ cur = <<log[pos]>>
  ELSE cur = <<>>

Fresh(s) == \A i \in 1..Len(seen[s]) : seen[s][i] < pos

\* Nobody still to be called has been handed the current entry.
FreshInv ==
  /\ disp = "snapshot" => \A s \in Subscribers : Fresh(s)
  /\ disp \in {"call", "handler"} =>
       /\ Distinct(todo)
       /\ \A i \in 1..Len(todo) : Fresh(todo[i])

\* Everybody due the current entry has it or is still to be called.
CoverInv ==
  disp \in {"call", "handler"} =>
    \A s \in Registered \ cancelled :
      subAt[s] < pos /\ Wants(s, cur[1]) =>
        s \in RangeOf(todo) \/ pos \in RangeOf(seen[s])

\* A subscription cancelled after call tested its flag: only this entry.
InFlightInv ==
  disp = "handler" /\ Head(todo) \in cancelled => cancelAt[Head(todo)] = pos

\* The dispatcher has left only a closed and empty channel.
ExitInv ==
  /\ disp = "exited" => closed /\ ch = <<>>
  /\ stop = "returned" => disp \in {"unstarted", "exited"}

\* Whoever is between load and send began before Stop.
PublishInv == \A p \in Publishers : pub[p] # <<>> => p \in sawRunning
=============================================================================
