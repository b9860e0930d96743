------------------------------- MODULE DejaVu -------------------------------
(***************************************************************************)
(* The Deja Vu plugin (src/plugins/dejavu/logic.go): what the selected     *)
(* player has been through with each of those in the current match.        *)
(*                                                                         *)
(* The recorder subscribes before any plugin (server.go:96), so the last   *)
(* match is in the history before the plugin hears of the next one; the    *)
(* plugin hears of it through its queue, late, and misses what finds the   *)
(* queue full.  One answer of the database is kept, under the match, the   *)
(* selected player and the others with a stable id.  Calls into the guest  *)
(* exclude one another (WasmPlugin.tla): a recall is one step, in which    *)
(* the query fails or not.                                                 *)
(*                                                                         *)
(* answer is the answer to the recall just made; stayed is history.        *)
(***************************************************************************)
EXTENDS Integers, Sequences, FiniteSets, Functions, FiniteSetsExt

CONSTANTS
  Guids, NoGuid,  \* matches
  Games,          \* the matches that are played, each with the rosters it has
  Players,        \* players' ids
  Unstable,       \* those that isUsableStableID rejects
  Past,           \* the history as earlier runs left it
  QueueSize

\* A third team number stands for all that validTeam rejects.
Teams == {0, 1, 2}
ValidTeam(t) == t \in {0, 1}

\* Players with their teams; a recorded match.
Rosters == UNION {[P -> Teams] : P \in SUBSET Players}
Matches == [teams : Rosters, winner : {-1, 0, 1}, incomplete : BOOLEAN]

DejaVuAssumption ==
  /\ IsFiniteSet(Guids) /\ IsFiniteSet(Players) /\ QueueSize \in Nat \ {0}
  /\ Unstable \subseteq Players /\ NoGuid \notin Guids
  /\ Games \subseteq [guid : Guids, roster : Rosters] /\ Past \in [Guids -> Matches]

In(guid, roster) == [guid |-> guid, roster |-> roster]

VARIABLES
  game,     \* the match that is played and its roster
  history,  \* the recorded matches, by guid
  queue,    \* the plugin's events
  state,    \* currentState
  cache,    \* cache
  answer,   \* the answer to a recall
  stayed    \* the game was in no other match since the cache was filled

dejavuVars == <<game, history, queue, state, cache, answer, stayed>>

NoMatch == In(NoGuid, <<>>)

NoCache == [ready |-> FALSE, key |-> <<>>, aggs |-> <<>>, error |-> FALSE]
NoAnswer == [status |-> "none", guid |-> NoGuid, selected |-> {}, aggs |-> <<>>,
             retry |-> FALSE, failed |-> FALSE]

Init ==
  /\ game = NoMatch /\ history = Past
  /\ queue = <<>> /\ state = NoMatch /\ cache = NoCache
  /\ answer = NoAnswer /\ stayed = FALSE

-----------------------------------------------------------------------------
(* The game, the recorder and the queue                                    *)

\* flushMatch: the roster is added to what an earlier visit left.
Recorded(winner, incomplete) ==
  IF game = NoMatch THEN history
  ELSE [history EXCEPT ![game.guid] =
          [teams |-> [p \in DOMAIN game.roster \cup DOMAIN @.teams |->
                        IF p \in DOMAIN game.roster THEN game.roster[p] ELSE @.teams[p]],
           winner |-> winner, incomplete |-> incomplete]]

\* The bus's closure drops what finds the queue full.
Post(event) == queue' = IF Len(queue) < QueueSize THEN Append(queue, event) ELSE queue

\* state.updated.  A match that was not ended is recorded as incomplete when
\* the next one is there.
StateUpdated(m) ==
  /\ m # game /\ game' = m
  /\ history' = IF m.guid = game.guid THEN history ELSE Recorded(-1, TRUE)
  /\ Post(game')
  /\ stayed' = (stayed /\ m.guid = game.guid)
  /\ answer' = NoAnswer
  /\ UNCHANGED <<state, cache>>

\* match.ended with a winner, match.destroyed without one.
MatchEnds ==
  /\ game # NoMatch /\ game' = NoMatch
  /\ \/ \E w \in {0, 1} : history' = Recorded(w, FALSE)
     \/ history' = Recorded(-1, TRUE)
  /\ Post(NoMatch)
  /\ answer' = NoAnswer
  /\ UNCHANGED <<state, cache, stayed>>

-----------------------------------------------------------------------------
(* The plugin                                                              *)

\* onEvent; a state without match or players counts as an end.
OnEvent ==
  /\ queue # <<>> /\ queue' = Tail(queue)
  /\ state' = IF DOMAIN Head(queue).roster = {} THEN NoMatch ELSE Head(queue)
  /\ cache' = IF state' = NoMatch THEN NoCache ELSE cache
  /\ answer' = NoAnswer
  /\ UNCHANGED <<game, history, stayed>>

\* buildRosterRows: whose history is asked for.  The key lists them in the
\* order of the packet; a list in another order, which is only a miss, is not
\* told apart.
Targets(selected) == DOMAIN state.roster \ (Unstable \cup {selected})

KeyWithoutRoster(selected) == <<state.guid, selected>>
HistoryKey(selected) == <<state.guid, selected, Targets(selected)>>

-----------------------------------------------------------------------------
(* The history of encounters                                               *)

\* The rows of encounterSQL.
Encounters(selected, guid, targets) ==
  {[target |-> t, match |-> g] : t \in targets, g \in
     {h \in Guids \ {guid} : selected \in DOMAIN history[h].teams}}

RowsOf(selected, guid, targets) ==
  {r \in Encounters(selected, guid, targets) :
     LET teams == history[r.match].teams IN
     /\ r.target \in DOMAIN teams
     /\ ValidTeam(teams[r.target]) /\ ValidTeam(teams[selected])}

Sides == {"with", "against"}
Results == {"win", "loss", "none"}
NoAgg == [s \in Sides |-> [r \in Results |-> 0]]

Side(row, selected) ==
  IF history[row.match].teams[row.target] = history[row.match].teams[selected]
  THEN "with" ELSE "against"

\* Only a complete match with a winner of 0 or 1 has a result.
Result(row, selected) ==
  LET m == history[row.match] IN
  IF m.incomplete \/ ~ValidTeam(m.winner) THEN "none"
  ELSE IF m.winner = m.teams[selected] THEN "win" ELSE "loss"

\* aggregateEncounterRows
Counted(row, selected, aggs) ==
  [aggs EXCEPT ![row.target][Side(row, selected)][Result(row, selected)] = @ + 1]

Aggregates(selected, guid, targets) ==
  FoldSet(LAMBDA row, aggs : Counted(row, selected, aggs), [t \in targets |-> NoAgg],
          RowsOf(selected, guid, targets))

-----------------------------------------------------------------------------
(* Recalls                                                                 *)

Answer(status, selected, aggs, retry, failed) ==
  [status |-> status, guid |-> state.guid, selected |-> {selected}, aggs |-> aggs,
   retry |-> retry, failed |-> failed]

\* handleRecall up to the test of the selected player.
Refused(selected) ==
  CASE state = NoMatch -> "no_active_match"
    [] selected \notin DOMAIN state.roster -> "selected_not_in_roster"
    [] selected \in Unstable -> "selected_no_stable_id"
    [] ~ValidTeam(state.roster[selected]) -> "selected_team_unclassified"
    [] OTHER -> "no"

Refuse(selected) ==
  /\ Refused(selected) # "no"
  /\ answer' = Answer(Refused(selected), selected, <<>>, FALSE, FALSE)
  /\ UNCHANGED <<game, history, queue, state, cache, stayed>>

Holds(c, selected) == c.ready /\ c.key = HistoryKey(selected)

InvalidateAny(selected, retry) ==
  IF retry /\ Holds(cache, selected) THEN NoCache ELSE cache

\* invalidateCachedHistoryError
Invalidate(selected, retry) ==
  IF retry /\ Holds(cache, selected) /\ cache.error THEN NoCache ELSE cache

Status(error) == IF error THEN "history_error" ELSE "ok"

\* Without targets there is no query.
Query(selected, fails) ==
  LET targets == Targets(selected)
      error == fails /\ targets # {}
  IN [ready |-> TRUE, key |-> HistoryKey(selected), error |-> error,
      aggs |-> IF error THEN <<>> ELSE Aggregates(selected, state.guid, targets)]

\* The rest of handleRecall: cachedHistory and the answer.
Recall(selected, retry, fails) ==
  LET kept == Invalidate(selected, retry)
      hit == Holds(kept, selected)
      found == IF hit THEN kept ELSE Query(selected, fails)
  IN /\ Refused(selected) = "no"
     /\ cache' = found
     /\ stayed' = IF hit THEN stayed ELSE game.guid = state.guid
     /\ answer' = Answer(Status(found.error), selected, found.aggs, retry, fails /\ ~hit)
     /\ UNCHANGED <<game, history, queue, state>>

Next ==
  \/ \E m \in Games : StateUpdated(m)
  \/ MatchEnds \/ OnEvent
  \/ \E p \in Players :
       Refuse(p) \/ \E retry, fails \in BOOLEAN : Recall(p, retry, fails)

-----------------------------------------------------------------------------
(* Properties                                                              *)

TypeOK ==
  /\ game \in Games \cup {NoMatch} /\ state \in Games \cup {NoMatch}
  /\ queue \in Seq(Games \cup {NoMatch}) /\ Len(queue) <= QueueSize
  /\ history \in [Guids -> Matches] /\ stayed \in BOOLEAN
  /\ cache # NoCache =>
       /\ cache.ready /\ cache.error \in BOOLEAN
       /\ cache.key \in Guids \X Players \X SUBSET Players

\* What the README of the plugin calls prior encounters, counted anew.
CountOf(selected, guid, target, side, result) ==
  Cardinality({g \in Guids \ {guid} :
    LET m == history[g]
        decided == ~m.incomplete /\ m.winner \in {0, 1}
    IN /\ {selected, target} \subseteq DOMAIN m.teams
       /\ m.teams[selected] \in {0, 1} /\ m.teams[target] \in {0, 1}
       /\ (side = "with") = (m.teams[selected] = m.teams[target])
       /\ (result = "none") = ~decided
       /\ decided => (result = "win") = (m.teams[selected] = m.winner)})

\* An answer counts every recorded match of the selected player and each other
\* once, as it was and with its result, the current match never: also one that
\* is kept from an earlier recall, while the game stays in the match; whatever
\* was queued, dropped or recorded again meanwhile.  (Whoever leaves for
\* another match without an end and comes back may be told what was read
\* before.)
AnswersAreFresh ==
  answer.status = "ok" /\ stayed =>
    \A selected \in answer.selected :
      /\ DOMAIN answer.aggs = Targets(selected)
      /\ \A t \in Targets(selected), side \in Sides, result \in Results :
           answer.aggs[t][side][result] = CountOf(selected, answer.guid, t, side, result)

\* A failed query spoils no more than its own answer: a recall that retries is
\* told of an error only if the query fails again, and a good answer that is
\* kept is given whatever a later query, retried or not, would have met.
ErrorsAreRetried ==
  [][\A selected \in answer'.selected :
       answer'.status = "history_error" =>
         /\ answer'.retry => answer'.failed
         /\ ~(Holds(cache, selected) /\ ~cache.error)]_dejavuVars
=============================================================================
