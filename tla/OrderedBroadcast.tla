-------------------------- MODULE OrderedBroadcast --------------------------
(***************************************************************************)
(* What the event bus promises (docs/dev/event-bus.md, "Dispatch Model"):  *)
(* one log of accepted events, consumed by one dispatcher that hands each  *)
(* entry to some of the subscribers, each at most once, before it moves to *)
(* the next entry.  Subscribers therefore see a sub-sequence of the log,   *)
(* in log order, and no subscriber is ever ahead of the dispatcher.        *)
(* Whether an entry is accepted at all is left open.                       *)
(***************************************************************************)
EXTENDS Naturals, Sequences

CONSTANTS Subscribers, Events

VARIABLES
  log,      \* the accepted events, in the order they were accepted
  pos,      \* how many entries the dispatcher has taken
  seen      \* seen[s]: the log positions handed to s, in order

vars == <<log, pos, seen>>

LastSeen(s) == IF seen[s] = <<>> THEN 0 ELSE seen[s][Len(seen[s])]

Init ==
  /\ log = <<>>
  /\ pos = 0
  /\ seen = [s \in Subscribers |-> <<>>]

Accept ==
  /\ \E e \in Events : log' = Append(log, e)
  /\ UNCHANGED <<pos, seen>>

Take ==
  /\ pos < Len(log)
  /\ pos' = pos + 1
  /\ UNCHANGED <<log, seen>>

Deliver(s) ==
  /\ LastSeen(s) < pos
  /\ seen' = [seen EXCEPT ![s] = Append(@, pos)]
  /\ UNCHANGED <<log, pos>>

Next == Accept \/ Take \/ \E s \in Subscribers : Deliver(s)

Spec == Init /\ [][Next]_vars
=============================================================================
