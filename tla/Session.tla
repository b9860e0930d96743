------------------------------ MODULE Session -------------------------------
(***************************************************************************)
(* The session plugin (src/plugins/session/logic.go): the running session  *)
(* since a moment, and the sessions that "new session" saves.              *)
(*                                                                         *)
(* The guest keeps only the moment since which the session runs; which     *)
(* matches a session has is found out anew from their times whenever it is *)
(* shown.  Times pass through RFC3339 on their way to and from the         *)
(* database and lose what is below the second: a saved session has whole   *)
(* seconds, and so has the start of a match as the host hands it over,     *)
(* while since keeps its fraction.  Here the clock counts ticks, PerSecond *)
(* of them to a second.                                                    *)
(*                                                                         *)
(* One player is tracked and plays for team 0.  The matches are those of   *)
(* the recorder (HistRecorder.tla), which gives a match its time at its    *)
(* first state and the players' statistics at its end.  chain is history.  *)
(***************************************************************************)
EXTENDS Integers, FiniteSets

CONSTANTS PerSecond, MaxTime, MaxMatches, MaxSaved

SessionAssumption ==
  {PerSecond, MaxTime, MaxMatches, MaxSaved} \subseteq Nat \ {0}

VARIABLES
  now,      \* the clock
  since,    \* since; NotSet is the zero time
  saved,    \* the table sessions
  nextId,   \* the id of its next row
  match,    \* the match in play: NotSet, Starting or when its row was made
  played,   \* the matches that have the player's statistics
  started,  \* match.started is in the plugin's queue
  chain     \* the sessions saved one after the other, with nothing lost or
            \* edited between them, and the moment the first one began

sessionVars == <<now, since, saved, nextId, match, played, started, chain>>

NotSet == -1
Starting == -2

Second(t) == t \div PerSecond

\* A session with the seconds it began and ended.
Row(id, start, end) == [id |-> id, start |-> start, end |-> end]

NewChain(t) == [from |-> t, ids |-> {}]

Init ==
  /\ now = 0 /\ since = NotSet /\ saved = {} /\ nextId = 0
  /\ match = NotSet /\ played = {} /\ started = FALSE
  /\ chain = NewChain(NotSet)

-----------------------------------------------------------------------------
(* The host: time, the recorder, the queue of the plugin                   *)

Tick ==
  /\ now < MaxTime
  /\ now' = now + 1
  /\ UNCHANGED <<since, saved, nextId, match, played, started, chain>>

\* match.started; the queue may be full.
MatchStarts ==
  /\ match = NotSet /\ Cardinality(played) < MaxMatches
  /\ match' = Starting
  /\ started' \in {started, TRUE}
  /\ UNCHANGED <<now, since, saved, nextId, played, chain>>

\* The first state.updated of the match makes its row.
RowIsMade ==
  /\ match = Starting
  /\ match' = now
  /\ UNCHANGED <<now, since, saved, nextId, played, started, chain>>

\* What EndMatch may leave in the row, which may also fail.
Outcomes == {[winner |-> w, incomplete |-> FALSE] : w \in {-1, 0, 1}}
              \cup {[winner |-> -1, incomplete |-> TRUE]}

MatchEnds ==
  /\ match >= 0
  /\ \E o \in Outcomes : played' = played \cup {[at |-> match, outcome |-> o]}
  /\ match' = NotSet
  /\ UNCHANGED <<now, since, saved, nextId, started, chain>>

\* Only the tables survive; a match in play is joined again, which finds its
\* row, or never gets statistics.
Restart ==
  /\ since # NotSet
  /\ since' = NotSet /\ started' = FALSE /\ match' \in {NotSet, match}
  /\ chain' = NewChain(NotSet)
  /\ UNCHANGED <<now, saved, nextId, played>>

-----------------------------------------------------------------------------
(* The plugin                                                              *)

OnEvent ==
  /\ started /\ started' = FALSE
  /\ IF since = NotSet THEN since' = now /\ chain' = NewChain(now)
                       ELSE UNCHANGED <<since, chain>>
  /\ UNCHANGED <<now, saved, nextId, match, played>>

\* POST /api/session/start, with or without a time.
HandleStart ==
  /\ \E t \in {now} \cup 0..MaxTime : since' = t /\ chain' = NewChain(t)
  /\ UNCHANGED <<now, saved, nextId, match, played, started>>

\* The row that handleNew writes; later is the second call of time.Now.
SavesRoundedUp(id, later) == Row(id, Second(since + PerSecond - 1), Second(later))
Saves(id, later) == Row(id, Second(since), Second(later))

\* POST /api/session/new.  What DBExec returns is not looked at, so a failed
\* insert loses the session.
HandleNew(named, stored) ==
  /\ \E later \in {t \in now..now + 1 : t <= MaxTime} :
       /\ now' = later
       /\ IF named /\ stored /\ since # NotSet
          THEN /\ nextId < MaxSaved
               /\ saved' = saved \cup {Saves(nextId, later)} /\ nextId' = nextId + 1
               /\ chain' = [chain EXCEPT !.ids = @ \cup {nextId}]
          ELSE UNCHANGED <<saved, nextId>> /\ chain' = NewChain(now)
  /\ since' = now
  /\ UNCHANGED <<match, played, started>>

\* DELETE and PUT of /api/session/history/<id>.
HandleHistoryItem(s) ==
  /\ \/ saved' = saved \ {s}
     \/ \E a, b \in 0..Second(MaxTime) :
          a <= b /\ saved' = (saved \ {s}) \cup {Row(s.id, a, b)}
  /\ chain' = IF s.id \in chain.ids THEN NewChain(since) ELSE chain
  /\ UNCHANGED <<now, since, nextId, match, played, started>>

Next ==
  \/ Tick \/ MatchStarts \/ RowIsMade \/ MatchEnds \/ Restart
  \/ OnEvent \/ HandleStart
  \/ \E named, stored \in BOOLEAN : HandleNew(named, stored)
  \/ \E s \in saved : HandleHistoryItem(s)

-----------------------------------------------------------------------------
(* What is shown, and the properties                                       *)

\* started_at as a guest gets it from DBQuery.
StartOf(m) == Second(m.at) * PerSecond

\* sessionMatchesBetween
Between(start, end) == {m \in played : StartOf(m) >= start /\ (end = NotSet \/ StartOf(m) < end)}

MatchesOf(s) == Between(s.start * PerSecond, s.end * PerSecond)
LiveMatches == Between(since, NotSet)

\* A win, a loss or neither: handleStats and populateSessionStatsFromMatches.
DecidedUnlessIncomplete(m) == IF m.outcome.incomplete THEN "none"
                              ELSE IF m.outcome.winner = 0 THEN "win" ELSE "loss"
SavedResult(m) == IF m.outcome.incomplete \/ m.outcome.winner < 0 THEN "none"
                  ELSE IF m.outcome.winner = 0 THEN "win" ELSE "loss"
LiveResult(m) == IF m.outcome.winner < 0 THEN "none"
                 ELSE IF m.outcome.winner = 0 THEN "win" ELSE "loss"

\* What the running session may be and what may be recorded.
TypeOK ==
  /\ now \in 0..MaxTime /\ since \in {NotSet} \cup 0..MaxTime /\ nextId \in 0..MaxSaved
  /\ saved \subseteq [id : 0..nextId - 1, start : 0..Second(MaxTime), end : 0..Second(MaxTime)]
  /\ \A s, t \in saved : s.id = t.id => s = t
  /\ match \in {NotSet, Starting} \cup 0..now /\ started \in BOOLEAN
  /\ played \subseteq [at : 0..now, outcome : Outcomes]
  /\ chain \in [from : {NotSet} \cup 0..MaxTime, ids : SUBSET (0..nextId - 1)]

InChain == {s \in saved : s.id \in chain.ids}

\* As long as sessions are saved one after the other, no match since the first
\* of them began is lost between two of them, and none is counted twice but
\* one begun in the very second in which the second one began: whatever the
\* fractions that are cut off and the second that may pass within handleNew.
SessionsKeepEveryMatch ==
  since # NotSet =>
    \A m \in played :
      /\ chain.from <= m.at =>
           Second(m.at) >= Second(since) \/ \E s \in InChain : m \in MatchesOf(s)
      /\ \A s, t \in InChain :
           s.id < t.id /\ m \in MatchesOf(s) \cap MatchesOf(t) => Second(m.at) = t.start

\* "New session" saves what was just shown: the matches of the running session
\* and of the one it would be saved as differ only in the second in which it
\* began and the present one, and both count a match as won, lost or neither
\* alike, however the recorder ended it (or could not).
LiveAgreesWithSaved ==
  since # NotSet =>
    LET kept == MatchesOf(Saves(nextId, now)) IN
      /\ \A m \in LiveMatches \ kept : Second(m.at) >= Second(now)
      /\ \A m \in kept \ LiveMatches : Second(m.at) = Second(since)
      /\ \A m \in kept \cap LiveMatches : SavedResult(m) = LiveResult(m)
=============================================================================
