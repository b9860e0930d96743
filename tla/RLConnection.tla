---------------------------- MODULE RLConnection ----------------------------
(***************************************************************************)
(* How the client keeps its TCP connection to Rocket League,               *)
(* src/internal/rl/client.go:123-203.                                      *)
(*                                                                         *)
(* Run dials, reads until the connection breaks, waits 5 seconds or for a  *)
(* kick, and dials again.  Reconnect puts a token into the channel `kick'  *)
(* of capacity 1.  Every connection starts a goroutine that waits for a    *)
(* token, closes its connection, and puts the token back, without blocking,*)
(* for Run to find.  Nothing ends that goroutine when its connection       *)
(* breaks by itself: it waits on, and may take a later token first.  Go    *)
(* serves the receivers of a channel in order; here any of them may be     *)
(* next, since the goroutines reach the channel in no particular order.    *)
(*                                                                         *)
(* calls and requested are history.                                        *)
(***************************************************************************)
EXTENDS Naturals

CONSTANTS
  MaxDials,        \* bound on connections
  MaxReconnects    \* bound on calls of Reconnect

ConnectionAssumption == MaxDials \in Nat \ {0} /\ MaxReconnects \in Nat

Conns == 1..MaxDials

VARIABLES
  kick,        \* tokens in the channel
  run,         \* program counter of Run
  conn,        \* connections dialled so far; the last is the one Run reads
  open,        \* connections not closed yet, by either side
  receivers,   \* goroutines in <-c.kick
  closing,     \* goroutines that took a token and have not closed yet
  returning,   \* goroutines that closed and have not put the token back
  calls,       \* calls of Reconnect so far
  requested    \* Run has not resolved the port since the last Reconnect

goroutines == <<receivers, closing, returning>>
vars == <<kick, run, conn, open, goroutines, calls, requested>>

Init ==
  /\ kick = 0 /\ run = "dial" /\ conn = 0 /\ open = {}
  /\ receivers = {} /\ closing = {} /\ returning = {}
  /\ calls = 0 /\ requested = FALSE

-----------------------------------------------------------------------------

\* select { case c.kick <- struct{}{}: default: }
Put == kick' = 1

\* Called by the HTTP handlers that change the configuration.
Reconnect ==
  /\ calls < MaxReconnects
  /\ Put
  /\ calls' = calls + 1 /\ requested' = TRUE
  /\ UNCHANGED <<run, conn, open, goroutines>>

-----------------------------------------------------------------------------
(* Run and connect.  Run leaves its select and connect resolves the port   *)
(* in one step, "dial" being what follows.                                 *)

\* time.After(5 * time.Second)
TimerFires ==
  /\ run = "wait"
  /\ run' = "dial" /\ requested' = FALSE
  /\ UNCHANGED <<kick, conn, open, goroutines, calls>>

TakeKick ==
  /\ run = "wait" /\ kick = 1
  /\ kick' = 0
  /\ run' = "dial" /\ requested' = FALSE
  /\ UNCHANGED <<conn, open, goroutines, calls>>

DialFails ==
  /\ run = "dial"
  /\ run' = "wait"
  /\ UNCHANGED <<kick, conn, open, goroutines, calls, requested>>

DialSucceeds ==
  /\ run = "dial" /\ conn < MaxDials
  /\ run' = "read" /\ conn' = conn + 1
  /\ open' = open \cup {conn + 1}
  /\ receivers' = receivers \cup {conn + 1}
  /\ UNCHANGED <<kick, closing, returning, calls, requested>>

\* Rocket League closes the connection, or the network does.
PeerCloses ==
  /\ run = "read" /\ conn \in open
  /\ open' = open \ {conn}
  /\ UNCHANGED <<kick, run, conn, goroutines, calls, requested>>

\* Decode fails: on the closed connection, or on a packet that is not JSON.
\* The deferred calls drop the packets captured so far (Feed) and close.
ReadFails ==
  /\ run = "read"
  /\ run' = "wait" /\ open' = open \ {conn}
  /\ UNCHANGED <<kick, conn, goroutines, calls, requested>>

-----------------------------------------------------------------------------
(* The goroutine of connection c                                           *)

Receive(c) ==
  /\ c \in receivers /\ kick = 1
  /\ kick' = 0
  /\ receivers' = receivers \ {c} /\ closing' = closing \cup {c}
  /\ UNCHANGED <<run, conn, open, returning, calls, requested>>

CloseConn(c) ==
  /\ c \in closing
  /\ open' = open \ {c}
  /\ closing' = closing \ {c} /\ returning' = returning \cup {c}
  /\ UNCHANGED <<kick, run, conn, receivers, calls, requested>>

KeepToken(c) ==
  /\ c \in returning
  /\ returning' = returning \ {c}
  /\ UNCHANGED <<kick, run, conn, open, receivers, closing, calls, requested>>

PutBack(c) ==
  /\ c \in returning
  /\ returning' = returning \ {c}
  /\ Put
  /\ UNCHANGED <<run, conn, open, receivers, closing, calls, requested>>

-----------------------------------------------------------------------------

Run == TimerFires \/ TakeKick \/ DialFails \/ DialSucceeds

Goroutine(c) == Receive(c) \/ CloseConn(c) \/ PutBack(c)

Next ==
  \/ Reconnect \/ PeerCloses \/ Run \/ ReadFails
  \/ \E c \in Conns : Goroutine(c)

Spec == Init /\ [][Next]_vars

\* The scheduler runs every goroutine, the timer of Run fires and dialling
\* ends within its 5 s timeout.  A connection Rocket League keeps open breaks
\* only when it is closed here.
Fairness ==
  /\ WF_vars(Run) /\ WF_vars(conn \notin open /\ ReadFails)
  /\ \A c \in Conns : WF_vars(Receive(c)) /\ WF_vars(CloseConn(c)) /\ WF_vars(PutBack(c))

FairSpec == Spec /\ Fairness

-----------------------------------------------------------------------------
(* Properties                                                              *)

TypeOK ==
  /\ kick \in {0, 1} /\ run \in {"dial", "read", "wait"}
  /\ conn \in 0..MaxDials /\ open \in SUBSET Conns
  /\ receivers \in SUBSET Conns
  /\ closing \in SUBSET Conns /\ returning \in SUBSET Conns
  /\ calls \in 0..MaxReconnects /\ requested \in BOOLEAN

\* A reconnect that was asked for is not forgotten before Run has looked at
\* the configuration again, through whichever goroutines, of connections
\* alive or long dead, its token passes: it is in the channel or one of them
\* holds it.
TokenIsKept == requested => kick = 1 \/ closing # {} \/ returning # {}

\* One connection at a time: all but the one Run reads are closed, so that
\* packets never come from two.
OneConnection == open \subseteq {conn} /\ (open # {} => run = "read")

\* A reconnect that was asked for happens, also when Rocket League keeps the
\* old connection open and the token first goes to goroutines whose
\* connections are gone.
ReconnectHappens == requested ~> ~requested
=============================================================================
