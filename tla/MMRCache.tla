------------------------------ MODULE MMRCache ------------------------------
(***************************************************************************)
(* The cache of MMR ranks, src/internal/mmr/cache.go, for one player: its  *)
(* entries, generations and calls in flight are kept by player.            *)
(*                                                                         *)
(* A lookup loads the generation, reads the store, and on a miss joins the *)
(* upstream call in flight or leads one of its own.  main.go calls         *)
(* Invalidate at match boundaries, from handlers of the bus that run       *)
(* beside the lookups; the generation lives in memory, the entry in the    *)
(* database.  Time is nondeterministic: an entry may pass the TTL, and a   *)
(* request its deadline, at any moment.                                    *)
(*                                                                         *)
(* boundaries, and the boundary a call carries, are history: the upstream  *)
(* service is taken to answer with the ranks of the moment of the call.    *)
(***************************************************************************)
EXTENDS Naturals, Sequences, FiniteSets

CONSTANTS
  Lookups,         \* goroutines that look the player up
  StoreErrors,     \* whether calls of the store may fail
  MaxBoundaries,   \* bound on match boundaries
  MaxCalls,        \* bound on upstream calls
  MaxExpiries,     \* bound on entries that pass the TTL
  MaxRestarts      \* bound on restarts of the process

ASSUME CacheAssumption ==
  /\ StoreErrors \in BOOLEAN
  /\ {MaxBoundaries, MaxCalls, MaxExpiries, MaxRestarts} \subseteq Nat

\* What an upstream call returns: ranks, no error and no ranks either (a profile without
\* ranked playlists), or an error, its leader's deadline included.
Outcomes == {"ranks", "empty", "error"}
Successes == Outcomes \ {"error"}

VARIABLES
  gen,         \* c.gen
  entry,       \* the row of tracker_cache: a sequence of at most one entry
  inflight,    \* c.inflight[key]: the number of a call, 0 if there is none
  calls,       \* the upstream calls, in the order they began
  pc, mygen, cached, mycall,   \* of each lookup: where it is, and its locals
  began,       \* of each lookup: boundaries when it loaded the generation
  filled,      \* of each lookup: the store holds ranks for it to fall back on
  boundaries,  \* match boundaries so far
  expiries, restarts,
  out          \* the last answer

locals == <<pc, mygen, cached, mycall, began, filled>>
history == <<boundaries, expiries, restarts>>
vars == <<gen, entry, inflight, calls, locals, history, out>>

Entries == [gen : 0..MaxBoundaries, outcome : Successes,
            boundary : 0..MaxBoundaries, fresh : BOOLEAN]

HasRanks(e) == e # <<>> /\ e[1].outcome = "ranks"

Answer(kind, boundary, since, fallback) ==
  [kind |-> kind, boundary |-> boundary, began |-> since, filled |-> fallback]

Idle ==
  /\ pc = [l \in Lookups |-> "idle"] /\ cached = [l \in Lookups |-> <<>>]
  /\ mygen = [l \in Lookups |-> 0] /\ mycall = [l \in Lookups |-> 0]
  /\ began = [l \in Lookups |-> 0] /\ filled = [l \in Lookups |-> FALSE]

Init ==
  /\ gen = 0 /\ entry = <<>> /\ inflight = 0 /\ calls = <<>>
  /\ Idle
  /\ boundaries = 0 /\ expiries = 0 /\ restarts = 0
  /\ out = Answer("none", 0, 0, FALSE)

-----------------------------------------------------------------------------
(* Around the lookups                                                      *)

Invalidate ==
  /\ boundaries < MaxBoundaries
  /\ gen' = gen + 1 /\ boundaries' = boundaries + 1
  /\ UNCHANGED <<entry, inflight, calls, locals, expiries, restarts, out>>

\* time.Since(fetchedAt) reaches the TTL.
Expire ==
  /\ expiries < MaxExpiries
  /\ entry # <<>> /\ entry[1].fresh
  /\ entry' = <<[entry[1] EXCEPT !.fresh = FALSE]>>
  /\ expiries' = expiries + 1
  /\ UNCHANGED <<gen, inflight, calls, locals, boundaries, restarts, out>>

\* The process ends, at any point, and is started again: the database stays.
Restart ==
  /\ restarts < MaxRestarts
  /\ gen' = 0 /\ inflight' = 0 /\ restarts' = restarts + 1
  /\ pc' = [l \in Lookups |-> "idle"] /\ cached' = [l \in Lookups |-> <<>>]
  /\ mygen' = [l \in Lookups |-> 0] /\ mycall' = [l \in Lookups |-> 0]
  /\ began' = [l \in Lookups |-> 0] /\ filled' = [l \in Lookups |-> FALSE]
  /\ UNCHANGED <<entry, calls, boundaries, expiries, out>>

-----------------------------------------------------------------------------
(* lookup                                                                  *)

\* The lookup returns to its caller.
Return(l, answer) ==
  /\ out' = answer
  /\ pc' = [pc EXCEPT ![l] = "idle"] /\ cached' = [cached EXCEPT ![l] = <<>>]
  /\ mygen' = [mygen EXCEPT ![l] = 0] /\ mycall' = [mycall EXCEPT ![l] = 0]
  /\ began' = [began EXCEPT ![l] = 0] /\ filled' = [filled EXCEPT ![l] = FALSE]

\* Every lookup on its way may still have to lead: MaxCalls bounds them with the calls.
Begin(l) ==
  /\ pc[l] = "idle"
  /\ Len(calls) + Cardinality({k \in Lookups : pc[k] \in {"read", "lock"}}) < MaxCalls
  /\ pc' = [pc EXCEPT ![l] = "read"]
  /\ mygen' = [mygen EXCEPT ![l] = gen]
  /\ began' = [began EXCEPT ![l] = boundaries]
  /\ filled' = [filled EXCEPT ![l] = HasRanks(entry)]
  /\ UNCHANGED <<gen, entry, inflight, calls, cached, mycall, history, out>>

IsHit(l) == entry # <<>> /\ entry[1].gen = mygen[l] /\ entry[1].fresh

Hit(l) ==
  /\ pc[l] = "read" /\ IsHit(l)
  /\ Return(l, Answer("hit", entry[1].boundary, began[l], filled[l]))
  /\ UNCHANGED <<gen, entry, inflight, calls, history>>

\* A plausible slip: an entry that is no hit is forgotten at once.
MissForgets(l) ==
  /\ pc[l] = "read" /\ ~IsHit(l)
  /\ pc' = [pc EXCEPT ![l] = "lock"]
  /\ UNCHANGED <<gen, entry, inflight, calls, mygen, cached, mycall, began, filled, history, out>>

Miss(l) ==
  /\ pc[l] = "read" /\ ~IsHit(l)
  /\ pc' = [pc EXCEPT ![l] = "lock"]
  /\ cached' = [cached EXCEPT ![l] = entry]
  /\ UNCHANGED <<gen, entry, inflight, calls, mygen, mycall, began, filled, history, out>>

\* GetTrackerCache fails: the lookup goes on as if nothing were cached.
ReadFails(l) ==
  /\ StoreErrors /\ pc[l] = "read"
  /\ pc' = [pc EXCEPT ![l] = "lock"]
  /\ filled' = [filled EXCEPT ![l] = FALSE]
  /\ UNCHANGED <<gen, entry, inflight, calls, mygen, cached, mycall, began, history, out>>

\* What the lookup makes of the outcome of lookupSingle.
Conclude(l, outcome, boundary) ==
  Return(l, CASE outcome # "error"     -> Answer("fetched", boundary, began[l], filled[l])
              [] HasRanks(cached[l])   -> Answer("stale", cached[l][1].boundary, began[l], filled[l])
              [] OTHER                 -> Answer("error", 0, began[l], filled[l]))

-----------------------------------------------------------------------------
(* lookupSingle                                                            *)

NewCall == [outcome |-> "error", boundary |-> boundaries, done |-> FALSE]

BeginCall(l) ==
  /\ calls' = Append(calls, NewCall)
  /\ inflight' = Len(calls) + 1
  /\ mycall' = [mycall EXCEPT ![l] = Len(calls) + 1]
  /\ pc' = [pc EXCEPT ![l] = "fetch"]
  /\ UNCHANGED <<gen, entry, mygen, cached, began, filled, history, out>>

\* A plausible slip: the map is not consulted.
LeadAlways(l) == pc[l] = "lock" /\ BeginCall(l)

Lead(l) == pc[l] = "lock" /\ inflight = 0 /\ BeginCall(l)

Join(l) ==
  /\ pc[l] = "lock" /\ inflight # 0
  /\ mycall' = [mycall EXCEPT ![l] = inflight]
  /\ pc' = [pc EXCEPT ![l] = "wait"]
  /\ UNCHANGED <<gen, entry, inflight, calls, mygen, cached, began, filled, history, out>>

\* c.inner.Lookup returns to the leader.
CallReturns(l, outcome) ==
  /\ pc[l] = "fetch"
  /\ calls' = [calls EXCEPT ![mycall[l]].outcome = outcome]
  /\ pc' = [pc EXCEPT ![l] = IF outcome = "error" THEN "close" ELSE "store"]
  /\ UNCHANGED <<gen, entry, inflight, mygen, cached, mycall, began, filled, history, out>>

StoreUnder(l, g) ==
  LET call == calls[mycall[l]] IN
  /\ pc[l] = "store"
  /\ entry' = <<[gen |-> g, outcome |-> call.outcome,
                boundary |-> call.boundary, fresh |-> TRUE]>>
  /\ filled' = [k \in Lookups |-> filled[k] /\ call.outcome = "ranks"]
  /\ pc' = [pc EXCEPT ![l] = "close"]
  /\ UNCHANGED <<gen, inflight, calls, mygen, cached, mycall, began, history, out>>

\* A plausible slip: the generation is loaded again when the answer arrives.
StoreUnderCurrent(l) == StoreUnder(l, gen)

\* UpsertTrackerCache replaces the row.
Store(l) == StoreUnder(l, mygen[l])

StoreFails(l) ==
  /\ StoreErrors /\ pc[l] = "store"
  /\ pc' = [pc EXCEPT ![l] = "close"]
  /\ UNCHANGED <<gen, entry, inflight, calls, mygen, cached, mycall, began, filled, history, out>>

\* A plausible slip: done is closed only when there are ranks to share.
CloseOnSuccess(l) ==
  /\ pc[l] = "close"
  /\ calls' = [calls EXCEPT ![mycall[l]].done = calls[mycall[l]].outcome # "error"]
  /\ pc' = [pc EXCEPT ![l] = "unregister"]
  /\ UNCHANGED <<gen, entry, inflight, mygen, cached, mycall, began, filled, history, out>>

\* close(call.done)
Close(l) ==
  /\ pc[l] = "close"
  /\ calls' = [calls EXCEPT ![mycall[l]].done = TRUE]
  /\ pc' = [pc EXCEPT ![l] = "unregister"]
  /\ UNCHANGED <<gen, entry, inflight, mygen, cached, mycall, began, filled, history, out>>

Unregister(l) ==
  /\ pc[l] = "unregister"
  /\ inflight' = 0
  /\ Conclude(l, calls[mycall[l]].outcome, calls[mycall[l]].boundary)
  /\ UNCHANGED <<gen, entry, calls, history>>

\* <-call.done
Wake(l) ==
  /\ pc[l] = "wait" /\ calls[mycall[l]].done
  /\ Conclude(l, calls[mycall[l]].outcome, calls[mycall[l]].boundary)
  /\ UNCHANGED <<gen, entry, inflight, calls, history>>

\* <-ctx.Done(): the 15 seconds of the handler are over, or its client went away.
GiveUp(l) ==
  /\ pc[l] = "wait"
  /\ Conclude(l, "error", 0)
  /\ UNCHANGED <<gen, entry, inflight, calls, history>>

-----------------------------------------------------------------------------
LookupStep(l) ==
  \/ Hit(l) \/ Miss(l) \/ ReadFails(l)
  \/ Lead(l) \/ Join(l)
  \/ \E outcome \in Outcomes : CallReturns(l, outcome)
  \/ Store(l) \/ StoreFails(l) \/ Close(l) \/ Unregister(l)
  \/ Wake(l)

Next ==
  \/ Invalidate \/ Expire \/ Restart
  \/ \E l \in Lookups : Begin(l) \/ LookupStep(l) \/ GiveUp(l)

Spec == Init /\ [][Next]_vars

\* Goroutines are scheduled, and an upstream call ends since its context expires.  That a
\* follower gives up is not assumed: it is answered by its leader.
FairSpec == Spec /\ \A l \in Lookups : WF_vars(LookupStep(l))

-----------------------------------------------------------------------------
(* Properties                                                              *)

Leading == {"fetch", "store", "close", "unregister"}

TypeOK ==
  /\ gen \in 0..MaxBoundaries /\ entry \in Seq(Entries) /\ Len(entry) <= 1
  /\ inflight \in 0..MaxCalls
  /\ calls \in Seq([outcome : Outcomes, boundary : 0..MaxBoundaries, done : BOOLEAN])
  /\ Len(calls) <= MaxCalls
  /\ pc \in [Lookups -> {"idle", "read", "lock", "wait"} \cup Leading]
  /\ mygen \in [Lookups -> 0..MaxBoundaries]
  /\ \A l \in Lookups : cached[l] \in Seq(Entries) /\ Len(cached[l]) <= 1
  /\ mycall \in [Lookups -> 0..Len(calls)]
  /\ began \in [Lookups -> 0..MaxBoundaries] /\ filled \in [Lookups -> BOOLEAN]
  /\ boundaries \in 0..MaxBoundaries
  /\ expiries \in 0..MaxExpiries /\ restarts \in 0..MaxRestarts

\* At most one upstream call for the player is running, however lookups, invalidations and
\* failures interleave: the "single-flight" of lookupSingle.
SingleFlight == \A k, l \in Lookups : pc[k] \in Leading /\ pc[l] \in Leading => k = l

\* The call in the map is always one a leader is still at work on, so that no lookup is
\* answered by a call that was over before it began.
InflightIsLed ==
  inflight # 0 => \E l \in Lookups : pc[l] \in Leading /\ mycall[l] = inflight

\* A hit never returns ranks of an upstream call made before the last match boundary that
\* the lookup has seen: an answer that was on its way when Invalidate was called is stored
\* under the generation of its lookup.  This holds as long as the process is not restarted.
HitsAreOfThisMatch == restarts = 0 /\ out.kind = "hit" => out.boundary >= out.began

\* A lookup does not fail while the store holds ranks it can fall back on, whatever
\* becomes of the upstream call it led or joined.
FallsBack == out.kind = "error" => ~out.filled

\* docs/dev/mmr-providers.md:113, "Entries fetched under an older generation are stale":
\* a hit is of this match, restarts or not.
OlderEntriesAreStale == out.kind = "hit" => out.boundary >= out.began

\* Every lookup returns to its caller, a follower even if its own deadline never passes.
LookupsReturn == \A l \in Lookups : pc[l] # "idle" ~> pc[l] = "idle"
=============================================================================
