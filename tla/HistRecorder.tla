---------------------------- MODULE HistRecorder ----------------------------
(***************************************************************************)
(* The match recorder, src/internal/histstore/recorder.go: it receives the *)
(* bus's events one at a time, keeps the current match in memory and       *)
(* writes it to the store when the match ends, is replaced by another or   *)
(* is destroyed.                                                           *)
(*                                                                         *)
(* The events come from a game and a bus that may lose, delay and repeat   *)
(* them, so every event may arrive in every state.  `rec' is the Recorder; *)
(* rec.own is history.  Of the clock only its source and whether it shows  *)
(* more than 5 seconds matter, of a player only the match the snapshot     *)
(* came with and whether its touch counts are live ones.                   *)
(***************************************************************************)
EXTENDS HistStore

CONSTANTS
  Players,       \* resolved player ids
  MaxScore,      \* bound on a team's score
  Packets,       \* the state.updated events of the game
  Clocks,        \* the readings of its clock.updated events
  EndWinners     \* the winners of its match.ended events

TeamNums == {0, 1}
AnyGuid == Guids \cup {NoGuid}
TeamScores == UNION {[T -> 0..MaxScore] : T \in SUBSET TeamNums}

\* roster is <<>> for an event without players and <<S>> for one whose players
\* resolve to the ids in S.
PacketType ==
  [guid : AnyGuid, hasWinner : BOOLEAN, overtime : BOOLEAN, over5 : BOOLEAN,
   replay : BOOLEAN, roster : {<<>>} \cup {<<S>> : S \in SUBSET Players},
   teams : TeamScores, playlist : BOOLEAN]

ASSUME RecorderAssumption ==
  /\ IsFiniteSet(Players)
  /\ MaxScore \in Nat
  /\ Packets \subseteq PacketType
  /\ Clocks \subseteq [overtime : BOOLEAN, over5 : BOOLEAN]
  /\ EndWinners \subseteq Winners

VARIABLES rec, db
vars == <<rec, db>>

\* resetMatchState: all fields of a Recorder without a match.
Idle ==
  [matchID |-> 0, own |-> FALSE, matchGuid |-> NoGuid, overtime |-> FALSE,
   over5 |-> FALSE, clockFrom |-> {}, replayActive |-> FALSE,
   playlist |-> FALSE, lastPlayers |-> <<>>, lastTeams |-> <<>>]

Init == rec = Idle /\ db = EmptyStore

-----------------------------------------------------------------------------
(* flushMatch, switchMatch                                                 *)

Snapshots(r) == {r.lastPlayers[q].from : q \in DOMAIN r.lastPlayers}

\* EndMatch, UpdateTeamScores and the players' rows, each of which may fail
\* and be logged while the next is still tried.  A crash between them is a
\* flush in which the rest fails, followed by Restart.
FlushWith(r, d, outcome, from, failed) ==
  LET ended  == IF "EndMatch" \in failed
                THEN [d EXCEPT !.orphans = IF r.own THEN @ \cup {r.matchID} ELSE @]
                ELSE EndMatch(d, r.matchID, r.own, from, outcome)
      scored == IF "UpdateTeamScores" \in failed \/ DOMAIN r.lastTeams # TeamNums
                THEN ended
                ELSE UpdateTeamScores(ended, r.matchID, r.own, r.lastTeams)
  IN  {scored} \cup (IF DOMAIN r.lastPlayers = {} THEN {}
                     ELSE InsertUnder(scored, r.matchID, r.own, Snapshots(r)))

Flush(r, d, outcome, from) ==
  UNION {FlushWith(r, d, outcome, from, failed) :
           failed \in SUBSET (StoreErrors \cap {"EndMatch", "UpdateTeamScores"})}

Outcome(r, winner, incomplete, forfeit) ==
  [winner |-> winner, overtime |-> r.overtime, incomplete |-> incomplete, forfeit |-> forfeit]

Abandon(r, d) == Flush(r, d, Outcome(r, -1, TRUE, FALSE), NoGuid)

\* switchMatch: the database after it, and the recorder after it.
Switches(r, g) == g \notin {NoGuid, r.matchGuid}

SwitchDb(r, d, g) ==
  IF Switches(r, g) /\ r.matchID # 0 THEN Abandon(r, d) ELSE {d}

SwitchRec(r, g) == IF Switches(r, g) THEN [Idle EXCEPT !.matchGuid = g] ELSE r

IsActiveMatch(r, g) == g = NoGuid \/ r.matchGuid = NoGuid \/ g = r.matchGuid

-----------------------------------------------------------------------------
(* The roster held for the final flush                                     *)

Snapshot(p, q) == [from |-> p.guid, live |-> ~p.replay]

CurrentPlayers(p) == [q \in p.roster[1] |-> Snapshot(p, q)]

\* preserveLiveTouchCounts
TakeReplayTouches(r, p) == CurrentPlayers(p)

PreserveLiveTouches(r, p) ==
  [q \in p.roster[1] |->
     IF q \in DOMAIN r.lastPlayers
     THEN [Snapshot(p, q) EXCEPT !.live = r.lastPlayers[q].live]
     ELSE Snapshot(p, q)]

\* isActiveLiveClock
ActiveLiveClock(p) == ~p.hasWinner /\ (p.overtime \/ p.over5)

\* mergeCurrentPlayers
WithLeavers(r, p) ==
  [q \in p.roster[1] \cup DOMAIN r.lastPlayers |->
     IF q \in p.roster[1] THEN Snapshot(p, q) ELSE r.lastPlayers[q]]

NextPlayersNoMerge(r, p) ==
  IF p.roster = <<>> THEN r.lastPlayers ELSE CurrentPlayers(p)

NextPlayers(r, p) ==
  IF p.roster = <<>> THEN r.lastPlayers
  ELSE LET smaller == Cardinality(p.roster[1]) < Cardinality(DOMAIN r.lastPlayers)
       IN  CASE p.replay /\ smaller             -> r.lastPlayers
             [] p.replay /\ ~smaller            -> PreserveLiveTouches(r, p)
             [] ~p.replay /\ smaller /\ ActiveLiveClock(p)
                                                -> WithLeavers(r, p)
             [] OTHER                           -> CurrentPlayers(p)

-----------------------------------------------------------------------------
(* The handlers                                                            *)

\* onMatchStarted
OnMatchStarted(g) ==
  /\ db' \in SwitchDb(rec, db, g)
  /\ rec' = SwitchRec(rec, g)

\* onStateUpdated, in its order: switch, clock, upsert, roster, teams, playlist.
Seen(r, p) ==
  [r EXCEPT !.overtime = p.overtime, !.over5 = p.over5, !.clockFrom = {p.guid},
            !.replayActive = p.replay,
            !.lastPlayers = NextPlayers(r, p),
            !.lastTeams = IF DOMAIN p.teams = {} THEN @ ELSE p.teams]

Opened(r, d) ==
  IF r.matchID = 0 /\ r.matchGuid # NoGuid THEN UpsertMatch(d, r.matchGuid)
  ELSE {[db |-> d, id |-> r.matchID, own |-> r.own]}

ApplyState(p) ==
  \E d \in SwitchDb(rec, db, p.guid) :
    LET r == Seen(SwitchRec(rec, p.guid), p) IN
      \E u \in Opened(r, d) :
        LET first == u.id # 0 /\ p.playlist /\ ~r.playlist IN
          /\ rec' = [r EXCEPT !.matchID = u.id, !.own = u.own, !.playlist = @ \/ first]
          /\ db' = IF first THEN UpdateMatchPlaylist(u.db, u.id, u.own, p.guid) ELSE u.db

OnStateUpdated(p) == ~(rec.matchID = 0 /\ p.hasWinner) /\ ApplyState(p)

\* onGoalScored and onStatFeed store the event with the match clock.
RecordEvent(g) ==
  /\ db' \in InsertUnder(db, rec.matchID, rec.own, {g} \cup rec.clockFrom)
  /\ UNCHANGED rec

OnGoalScored(g) == rec.matchID # 0 /\ IsActiveMatch(rec, g) /\ RecordEvent(g)

OnStatFeedAnyMatch(g) == rec.matchID # 0 /\ RecordEvent(g)

OnStatFeed(g) == IsActiveMatch(rec, g) /\ OnStatFeedAnyMatch(g)

\* onBallHit, with ball_hit_events on.
OnBallHit(g) ==
  /\ rec.matchID # 0 /\ IsActiveMatch(rec, g) /\ ~rec.replayActive
  /\ db' \in InsertUnder(db, rec.matchID, rec.own, {g})
  /\ UNCHANGED rec

OnClockUpdated(g, c) ==
  /\ rec.matchID # 0 /\ IsActiveMatch(rec, g)
  /\ rec' = [rec EXCEPT !.overtime = c.overtime, !.over5 = c.over5, !.clockFrom = {g}]
  /\ UNCHANGED db

\* isLikelyForfeit and teamScoreLead
LikelyForfeitNoLead(r, winner) == ~r.overtime /\ winner # -1 /\ r.over5

LikelyForfeit(r, winner) ==
  /\ LikelyForfeitNoLead(r, winner)
  /\ winner \in DOMAIN r.lastTeams
  /\ DOMAIN r.lastTeams \ {winner} # {}
  /\ \A o \in DOMAIN r.lastTeams \ {winner} : r.lastTeams[winner] > r.lastTeams[o]

\* onMatchEnded
EndWithoutReset(g, winner) ==
  /\ rec.matchID # 0 /\ IsActiveMatch(rec, g)
  /\ db' \in Flush(rec, db, Outcome(rec, winner, FALSE, LikelyForfeit(rec, winner)), g)
  /\ rec' = rec

OnMatchEnded(g, winner) ==
  /\ rec.matchID # 0 /\ IsActiveMatch(rec, g)
  /\ db' \in Flush(rec, db, Outcome(rec, winner, FALSE, LikelyForfeit(rec, winner)), g)
  /\ rec' = Idle

ForgetMatch == UNCHANGED db /\ rec' = Idle

\* onMatchDestroyed
OnMatchDestroyed ==
  /\ db' \in IF rec.matchID # 0 THEN Abandon(rec, db) ELSE {db}
  /\ rec' = Idle

-----------------------------------------------------------------------------
(* What else happens to the process                                        *)

\* Another user of the connection inserts: the tracker cache, a plugin's
\* db_exec.
OtherInsert ==
  /\ db' \in Inserted(db)
  /\ UNCHANGED rec

\* The process ends, in a crash or an orderly quit (main.go does not flush
\* the recorder), and starts again: the rows are kept, the new connection
\* has inserted nothing.
Restart ==
  /\ rec' = Idle
  /\ db' = [db EXCEPT !.lastRowid = 0,
                      !.orphans = IF rec.own THEN @ \cup {rec.matchID} ELSE @]

\* What comes beside the states: the other events of the matches in guids.
Others(guids, clocks, winners) ==
  \/ \E g \in guids : OnMatchStarted(g)
  \/ \E g \in guids \cup {NoGuid} :
       \/ OnGoalScored(g) \/ OnStatFeed(g) \/ OnBallHit(g)
       \/ \E c \in clocks : OnClockUpdated(g, c)
       \/ \E winner \in winners : OnMatchEnded(g, winner)
  \/ OnMatchDestroyed
  \/ OtherInsert
  \/ Restart

Next ==
  \/ \E p \in Packets : OnStateUpdated(p)
  \/ Others(Guids, Clocks, EndWinners)

Spec == Init /\ [][Next]_vars

-----------------------------------------------------------------------------
(* Properties                                                              *)

SnapshotType == [from : AnyGuid, live : BOOLEAN]

RecType ==
  [matchID : 0..MaxRowid, own : BOOLEAN, matchGuid : AnyGuid,
   overtime : BOOLEAN, over5 : BOOLEAN, clockFrom : SUBSET AnyGuid,
   replayActive : BOOLEAN, playlist : BOOLEAN,
   lastPlayers : UNION {[S -> SnapshotType] : S \in SUBSET Players},
   lastTeams : TeamScores]

OutcomeType == [winner : Winners, overtime : BOOLEAN, incomplete : BOOLEAN, forfeit : BOOLEAN]

RowType == [guid : Guids, outcome : Seq(OutcomeType), scores : Seq(TeamScores)]

DbType ==
  [rows : Seq(RowType), lastRowid : 0..MaxRowid, holds : [Rowids -> SUBSET Guids],
   foreign : SUBSET Rowids, orphans : SUBSET Rowids]

\* An open match is one of the recorder's own, named by its GUID.
TypeOK ==
  /\ rec \in RecType /\ db \in DbType /\ Len(db.rows) <= MaxRowid
  /\ rec.matchID # 0 => rec.matchGuid \in Guids

\* Everything stored under a match's id by recorders that inserted its row
\* (goals, hits, stat feed, clock readings, outcome, players) was sent for
\* that match: late events, lost match starts and players of the previous
\* match never leak into it.
OwnDataOnly ==
  \A m \in Rowids \ db.foreign :
    db.holds[m] \subseteq {db.rows[k].guid : k \in DOMAIN db.rows \cap {m}}

\* Every match row without an end is the one being recorded, or its recorder
\* died or failed to write the end: switching, ending and destroying leave no
\* other row open.
OpenIsCurrent ==
  \A m \in DOMAIN db.rows :
    db.rows[m].outcome = <<>> =>
      m \in db.orphans \/ (rec.own /\ rec.matchID = m)

\* A recorded outcome is final: no late match.ended, terminal update, rejoin
\* or destroy rewrites it, unless an upsert handed out the row's id for
\* another match.
OutcomeIsFinal ==
  [][\A m \in DOMAIN db.rows :
       db.rows[m].outcome # <<>> /\ db'.rows[m] # db.rows[m]
         => m \in db'.foreign]_vars

\* The store is a journal: one row per match, opened by the recorder that
\* inserts it, filled when that recorder leaves it, and never changed again,
\* though events come late, statements fail and the process restarts.  An
\* upsert that returns the id of another match's row borrows it.
Rows == INSTANCE Journal WITH
  pages <- db.rows, current <- IF rec.own THEN rec.matchID ELSE 0,
  lost <- db.orphans, borrowed <- db.foreign

JournalSpec == Rows!Spec

\* A match stored as a forfeit was won in regular time by the team that the
\* scores stored beside it show ahead.
ForfeitIsALead ==
  \A m \in DOMAIN db.rows \ db.foreign :
    \A i \in DOMAIN db.rows[m].outcome, j \in DOMAIN db.rows[m].scores :
      LET o == db.rows[m].outcome[i]
          s == db.rows[m].scores[j]
      IN  o.forfeit => /\ ~o.overtime /\ ~o.incomplete
                       /\ o.winner \in TeamNums
                       /\ s[o.winner] > s[1 - o.winner]

\* "Replay packets: preserve live touch counts": no event replaces the live
\* touch counts held for a player by those of a replay.
LiveTouchesKept ==
  [][\A q \in DOMAIN rec.lastPlayers \cap DOMAIN rec'.lastPlayers :
       /\ rec.lastPlayers[q].live
       /\ rec'.matchGuid = rec.matchGuid
       => rec'.lastPlayers[q].live]_vars

\* While the match is in play or a replay is shown, the roster held for the
\* final flush never gets smaller, whoever leaves the lobby.
RosterKeptInPlay ==
  [][/\ rec'.matchGuid = rec.matchGuid
     /\ Cardinality(DOMAIN rec'.lastPlayers) < Cardinality(DOMAIN rec.lastPlayers)
     => \A p \in Packets :
          OnStateUpdated(p) => ~p.replay /\ ~ActiveLiveClock(p)]_vars

-----------------------------------------------------------------------------
(* What a test says, and the code does not do                              *)

\* store_test.go:67, "expected same id %d on duplicate upsert": the id the
\* recorder holds is that of the row of its match.
UpsertReturnsOwnRow ==
  rec.matchID # 0 => rec.matchID \in RowsOf(db, rec.matchGuid)
=============================================================================
