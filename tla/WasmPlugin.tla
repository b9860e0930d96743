----------------------------- MODULE WasmPlugin -----------------------------
(***************************************************************************)
(* The life of one WASM plugin, src/internal/wasmhost/host.go.             *)
(*                                                                         *)
(* Four kinds of goroutine meet at it: the one that runs Init and Shutdown *)
(* (main), the bus dispatcher, which runs the subscription closures and    *)
(* enqueues without blocking, the worker, which takes events from the      *)
(* queue and calls the guest, and the HTTP handlers, which call the guest  *)
(* too (serveHTTP; ApplySettings from the settings page behaves alike, but *)
(* has its body before it locks).  `mu' is to keep two of them from being  *)
(* in the guest at once.  serveHTTP holds it also while it writes the      *)
(* answer, which WriteTimeout bounds, and while it reads the body of the   *)
(* request, for as long as the client takes: the server sets a timeout for *)
(* the header and none for the body (main.go:160-165).                     *)
(*                                                                         *)
(* accepted and handed are history.                                        *)
(***************************************************************************)
EXTENDS Naturals, Sequences, FiniteSets

CONSTANTS
  Handlers,     \* goroutines that serve HTTP requests of the plugin
  Types,        \* meta.Events: the event types it subscribes to
  Capacity,     \* of eventCh, 64 in the code
  MaxEvents     \* bound on events the dispatcher brings

ASSUME PluginAssumption ==
  /\ Capacity \in Nat \ {0}
  /\ MaxEvents \in Nat
  /\ Handlers \cap {"free", "main", "worker"} = {}

Callers == Handlers \cup {"main", "worker"}

VARIABLES
  enabled,     \* not in disabled_plugins: initialised, and its routes served
  life,        \* where main is in Init and Shutdown
  subs,        \* types subscribed
  cancelled,   \* subscriptions whose flag is set
  bus,         \* <<>>, or <<n>> while a closure holds event n
  arrived,     \* events the dispatcher brought so far
  eventCh,     \* the queue
  closed,      \* close(p.eventCh) has run
  worker,      \* program counter of the worker
  http,        \* http[h]: program counter of handler h
  mu,          \* the holder of p.mu, or "free"
  guest,       \* the callers inside the guest
  accepted,    \* events eventCh accepted, in order
  handed       \* positions in accepted the guest was given, in order

delivery == <<subs, cancelled, bus, arrived>>
queue == <<eventCh, closed, accepted>>
vars == <<enabled, life, delivery, queue, worker, http, mu, guest, handed>>

Init ==
  /\ enabled \in BOOLEAN
  /\ life = "loaded"
  /\ subs = {} /\ cancelled = {} /\ bus = <<>> /\ arrived = 0
  /\ eventCh = <<>> /\ closed = FALSE
  /\ worker = "none" /\ http = [h \in Handlers |-> "idle"]
  /\ mu = "free" /\ guest = {}
  /\ accepted = <<>> /\ handed = <<>>

-----------------------------------------------------------------------------
(* Init, run by main                                                       *)

\* plugin_init is called without mu: nobody else knows the plugin yet.
CallInit ==
  /\ life = "loaded" /\ enabled
  /\ life' = "init" /\ guest' = guest \cup {"main"}
  /\ UNCHANGED <<enabled, delivery, queue, worker, http, mu, handed>>

\* An error code or a trap makes Init fail, and with it the program (main
\* calls log.Fatalf).
InitFails ==
  /\ life = "init"
  /\ life' = "failed" /\ guest' = guest \ {"main"}
  /\ UNCHANGED <<enabled, delivery, queue, worker, http, mu, handed>>

InitSucceeds ==
  /\ life = "init"
  /\ life' = "settings" /\ guest' = guest \ {"main"}
  /\ UNCHANGED <<enabled, delivery, queue, worker, http, mu, handed>>

\* The initial ApplySettings, whose error is only logged.
ApplyInitialSettings ==
  /\ life = "settings" /\ mu = "free"
  /\ life' = "applying" /\ mu' = "main" /\ guest' = guest \cup {"main"}
  /\ UNCHANGED <<enabled, delivery, queue, worker, http, handed>>

StartWorker ==
  /\ life = "applying"
  /\ life' = "subscribing" /\ mu' = "free" /\ guest' = guest \ {"main"}
  /\ worker' = "recv"
  /\ UNCHANGED <<enabled, delivery, queue, http, handed>>

Subscribe(t) ==
  /\ life = "subscribing" /\ t \notin subs
  /\ subs' = subs \cup {t}
  /\ life' = IF subs' = Types THEN "ready" ELSE life
  /\ UNCHANGED <<enabled, cancelled, bus, arrived, queue, worker, http, mu, guest, handed>>

-----------------------------------------------------------------------------
(* The subscription closure, run by the bus dispatcher                     *)

\* call has tested the flag (EventBus!TestFlag) and is in the closure.
EnterClosure(t) ==
  /\ t \in subs
  /\ bus = <<>> /\ arrived < MaxEvents
  /\ arrived' = arrived + 1
  /\ bus' = <<arrived + 1>>
  /\ UNCHANGED <<enabled, life, subs, cancelled, queue, worker, http, mu, guest, handed>>

Deliver(t) == t \notin cancelled /\ EnterClosure(t)

\* select { case p.eventCh <- msg: ... }
Enqueue ==
  /\ bus # <<>> /\ ~closed
  /\ eventCh' = Append(eventCh, bus[1]) /\ accepted' = Append(accepted, bus[1])
  /\ bus' = <<>>
  /\ UNCHANGED <<enabled, life, subs, cancelled, arrived, closed, worker, http, mu, guest, handed>>

Send == Len(eventCh) < Capacity /\ Enqueue

\* select { default: }: the event is dropped.  A send on the closed queue
\* panics; the bus recovers it and the event is lost too.
SendFails ==
  /\ bus # <<>> /\ (closed \/ Len(eventCh) >= Capacity)
  /\ bus' = <<>>
  /\ UNCHANGED <<enabled, life, subs, cancelled, arrived, queue, worker, http, mu, guest, handed>>

-----------------------------------------------------------------------------
(* The worker                                                              *)

Taken == Len(accepted) - Len(eventCh)

Peek ==
  /\ worker = "recv" /\ eventCh # <<>>
  /\ worker' = "lock"
  /\ UNCHANGED <<enabled, life, delivery, queue, http, mu, guest, handed>>

Receive ==
  /\ worker = "recv" /\ eventCh # <<>>
  /\ worker' = "lock"
  /\ eventCh' = Tail(eventCh)
  /\ UNCHANGED <<enabled, life, delivery, closed, accepted, http, mu, guest, handed>>

LeaveLoop ==
  /\ worker = "recv" /\ closed
  /\ worker' = "exited"
  /\ UNCHANGED <<enabled, life, delivery, queue, http, mu, guest, handed>>

Exit == eventCh = <<>> /\ LeaveLoop

\* A call into a closed module fails at once.
Entering(c) == IF life = "closed" THEN guest ELSE guest \cup {c}

WorkerEnters ==
  /\ worker = "lock"
  /\ worker' = "guest" /\ mu' = "worker" /\ guest' = Entering("worker")
  /\ handed' = Append(handed, Taken)
  /\ UNCHANGED <<enabled, life, delivery, queue, http>>

WorkerLocks == mu = "free" /\ WorkerEnters

WorkerReturns ==
  /\ worker = "guest"
  /\ worker' = "recv" /\ mu' = "free" /\ guest' = guest \ {"worker"}
  /\ UNCHANGED <<enabled, life, delivery, queue, http, handed>>

-----------------------------------------------------------------------------
(* HTTP: served from the end of InitPlugins until after ShutdownPlugins    *)

Serving ==
  enabled /\ life \notin {"loaded", "init", "failed", "settings", "applying", "subscribing"}

Request(h) ==
  /\ Serving /\ http[h] = "idle"
  /\ http' = [http EXCEPT ![h] = "lock"]
  /\ UNCHANGED <<enabled, life, delivery, queue, worker, mu, guest, handed>>

HandlerEnters(h) ==
  /\ http[h] = "lock" /\ mu = "free"
  /\ http' = [http EXCEPT ![h] = "reading"]
  /\ mu' = h
  /\ UNCHANGED <<enabled, life, delivery, queue, worker, guest, handed>>

\* io.ReadAll(r.Body) returns, and plugin_handle_http is called.
ReadBody(h) ==
  /\ http[h] = "reading"
  /\ http' = [http EXCEPT ![h] = "guest"]
  /\ guest' = Entering(h)
  /\ UNCHANGED <<enabled, life, delivery, queue, worker, mu, handed>>

GuestReturns(h) ==
  /\ http[h] = "guest"
  /\ http' = [http EXCEPT ![h] = "writing"]
  /\ guest' = guest \ {h}
  /\ UNCHANGED <<enabled, life, delivery, queue, worker, mu, handed>>

\* The answer is written, and mu released.
HandlerReturns(h) ==
  /\ http[h] = "writing"
  /\ http' = [http EXCEPT ![h] = "idle"]
  /\ mu' = "free"
  /\ UNCHANGED <<enabled, life, delivery, queue, worker, guest, handed>>

Handler(h) ==
  Request(h) \/ HandlerEnters(h) \/ ReadBody(h) \/ GuestReturns(h) \/ HandlerReturns(h)

-----------------------------------------------------------------------------
(* Shutdown, run by main; also for a plugin that was never initialised     *)
(* because it is disabled                                                  *)

BeginShutdown ==
  /\ life = IF enabled THEN "ready" ELSE "loaded"
  /\ life' = "cancelling"
  /\ UNCHANGED <<enabled, delivery, queue, worker, http, mu, guest, handed>>

\* BasePlugin.Shutdown cancels one subscription after the other.
CancelSub(t) ==
  /\ life = "cancelling" /\ t \in subs \ cancelled
  /\ cancelled' = cancelled \cup {t}
  /\ UNCHANGED <<enabled, life, subs, bus, arrived, queue, worker, http, mu, guest, handed>>

NoClose == UNCHANGED closed

CloseChannel == closed' = (worker # "none")

CloseQueue ==
  /\ life = "cancelling" /\ cancelled = subs
  /\ life' = "waiting"
  /\ CloseChannel
  /\ UNCHANGED <<enabled, delivery, eventCh, accepted, worker, http, mu, guest, handed>>

\* wg.Wait, and then plugin_shutdown: the one call into the guest, besides
\* plugin_init, that does not take mu.
CallShutdown ==
  /\ life = "waiting"
  /\ life' = "shutdown" /\ guest' = guest \cup {"main"}
  /\ UNCHANGED <<enabled, delivery, queue, worker, http, mu, handed>>

AwaitWorker == worker \in {"none", "exited"} /\ CallShutdown

\* mod.Close, runtime.Close
CloseModule ==
  /\ life = "shutdown"
  /\ life' = "closed" /\ guest' = guest \ {"main"}
  /\ UNCHANGED <<enabled, delivery, queue, worker, http, mu, handed>>

-----------------------------------------------------------------------------

Main ==
  \/ CallInit \/ InitFails \/ InitSucceeds \/ ApplyInitialSettings \/ StartWorker
  \/ \E t \in Types : Subscribe(t)
  \/ BeginShutdown \/ (\E t \in Types : CancelSub(t)) \/ CloseQueue
  \/ AwaitWorker \/ CloseModule

Dispatcher == (\E t \in Types : Deliver(t)) \/ Send \/ SendFails

Worker == Receive \/ Exit \/ WorkerLocks \/ WorkerReturns

Next ==
  \/ Main \/ Dispatcher \/ Worker
  \/ \E h \in Handlers : Handler(h)

Spec == Init /\ [][Next]_vars

\* Guest calls return (outbound fetches time out after 30 s), the scheduler
\* runs every goroutine, and a sync.Mutex hands itself to a waiter that has
\* waited for 1 ms, so however many requests come the worker gets it.  An
\* answer is written within the server's WriteTimeout, or fails.  When a body
\* is read is up to the client: no fairness.
Shutdown ==
  (\E t \in Types : CancelSub(t)) \/ CloseQueue \/ AwaitWorker \/ CloseModule

Fairness ==
  /\ WF_vars(Shutdown) /\ WF_vars(Receive \/ Exit) /\ WF_vars(WorkerReturns)
  /\ SF_vars(WorkerLocks)
  /\ \A h \in Handlers : WF_vars(GuestReturns(h)) /\ WF_vars(HandlerReturns(h))

FairSpec == Spec /\ Fairness

-----------------------------------------------------------------------------
(* Properties                                                              *)

TypeOK ==
  /\ enabled \in BOOLEAN
  /\ life \in {"loaded", "init", "failed", "settings", "applying", "subscribing",
               "ready", "cancelling", "waiting", "shutdown", "closed"}
  /\ subs \in SUBSET Types /\ cancelled \in SUBSET subs
  /\ bus \in {<<>>} \cup {<<n>> : n \in 1..MaxEvents} /\ arrived \in 0..MaxEvents
  /\ eventCh \in Seq(Nat) /\ Len(eventCh) <= Capacity
  /\ accepted \in Seq(Nat) /\ handed \in Seq(Nat)
  /\ closed \in BOOLEAN
  /\ worker \in {"none", "recv", "lock", "guest", "exited"}
  /\ http \in [Handlers -> {"idle", "lock", "reading", "guest", "writing"}]
  /\ mu \in Callers \cup {"free"}
  /\ guest \in SUBSET Callers

\* Module instances are not goroutine-safe: apart from plugin_shutdown, at
\* most one goroutine is inside the guest, and it holds mu or runs Init.
OneGuestCall ==
  life \notin {"shutdown", "closed"} =>
    /\ Cardinality(guest) <= 1
    /\ guest = {"main"} => life \in {"init", "applying"}
    /\ guest \ {"main"} \subseteq {mu}

\* plugin_shutdown comes after the last event: every event the queue
\* accepted was handed to the guest before, in spite of a closure that is
\* still sending.
ShutdownAfterDrain ==
  "main" \in guest /\ life = "shutdown" =>
    worker # "lock" /\ worker # "guest" /\ Len(handed) = Len(accepted)

\* The client of each request sends its body.
ClientsGoOn == \A h \in Handlers : []<>(http[h] # "reading")

\* Shutdown returns however many requests come and whatever the queue holds,
\* provided no client stalls: one that stops sending its body, with mu held
\* for it, holds the worker and with it Shutdown for ever.
ShutdownReturns == ClientsGoOn => ((life = "cancelling") ~> (life = "closed"))

\* Seen from the guest, the queue is another ordered lossy broadcast with
\* one subscriber: order and at-most-once survive the second hop.
Broadcast == INSTANCE OrderedBroadcast WITH
  Subscribers <- {"worker"}, Events <- 1..MaxEvents,
  log <- accepted, pos <- Taken, seen <- [w \in {"worker"} |-> handed]
BroadcastSpec == Broadcast!Spec

-----------------------------------------------------------------------------
(* What a comment says, and the code does not do                           *)

\* host.go:62, "mu serializes all calls into the WASM module": no two
\* goroutines are ever in the guest.
GuestIsSerial == Cardinality(guest) <= 1
=============================================================================
