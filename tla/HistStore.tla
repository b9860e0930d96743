----------------------------- MODULE HistStore -----------------------------
(***************************************************************************)
(* The statements of src/internal/histstore/store.go that write, as        *)
(* operators on a database value d:                                        *)
(*                                                                         *)
(*   d.rows       hist_matches; the id of a row is its index               *)
(*   d.lastRowid  sqlite3_last_insert_rowid of the one connection that     *)
(*                every table of the program shares (db.go:27)             *)
(*   d.holds[i]   history: the matches whose data was stored under id i    *)
(*   d.foreign    history: ids written by a recorder that got its id from  *)
(*                an upsert that inserted nothing                          *)
(*   d.orphans    history: rows whose recorder died, or whose EndMatch     *)
(*                failed                                                   *)
(*                                                                         *)
(* The rowids of the other tables are not tracked: an insert into one of   *)
(* them leaves any rowid behind.                                           *)
(***************************************************************************)
EXTENDS Integers, Sequences, FiniteSets

CONSTANTS
  Guids,         \* match GUIDs
  NoGuid,        \* the empty GUID
  MaxRowid,      \* bound on rowids, of every table
  StoreErrors    \* the store calls that may return an error

StoreCalls == {"UpsertMatch", "EndMatch", "UpdateTeamScores", "Insert"}

ASSUME StoreAssumption ==
  /\ NoGuid \notin Guids
  /\ MaxRowid \in Nat \ {0}
  /\ StoreErrors \subseteq StoreCalls

Rowids == 1..MaxRowid

Winners == -1..1      \* winner_team_num; -1 is no winner

\* A row as INSERT leaves it; outcome and scores are NULL until EndMatch and
\* UpdateTeamScores.
NewRow(g) == [guid |-> g, outcome |-> <<>>, scores |-> <<>>]

EmptyStore ==
  [rows |-> <<>>, lastRowid |-> 0, holds |-> [i \in Rowids |-> {}],
   foreign |-> {}, orphans |-> {}]

RowsOf(d, g) == {m \in DOMAIN d.rows : d.rows[m].guid = g}

-----------------------------------------------------------------------------

\* The history of a write under id, of data that belongs to the matches gs.
\* own: the id came from an upsert that inserted the row.
Written(d, id, own, gs) ==
  [d EXCEPT !.holds[id] = @ \cup (gs \cap Guids),
            !.foreign = IF own THEN @ ELSE @ \cup {id}]

\* An insert into a table other than hist_matches.
Inserted(d) == {[d EXCEPT !.lastRowid = n] : n \in Rowids}

\* UpsertMatch, as the set of its possible results.  The result's id is
\* LastInsertId, and an upsert that takes its DO UPDATE branch does not set
\* it.  Only the fallback for a failed first statement reads the row's id
\* back, and that only when LastInsertId is 0.  An id of 0 with own = FALSE
\* also stands for an error.
InsertMatch(d, g) ==
  [db |-> [d EXCEPT !.rows = Append(@, NewRow(g)), !.lastRowid = Len(d.rows) + 1],
   id |-> Len(d.rows) + 1, own |-> TRUE]

UpsertAlwaysInserts(d, g) ==
  IF Len(d.rows) < MaxRowid THEN {InsertMatch(d, g)} ELSE {}

UpsertMatch(d, g) ==
  LET result(id) == [db |-> d, id |-> id, own |-> FALSE]
      fallback == IF d.lastRowid # 0 THEN d.lastRowid
                  ELSE CHOOSE m \in RowsOf(d, g) : TRUE
  IN  IF RowsOf(d, g) = {}
      THEN UpsertAlwaysInserts(d, g)
             \cup (IF "UpsertMatch" \in StoreErrors THEN {result(0)} ELSE {})
      ELSE {result(d.lastRowid)}
             \cup (IF "UpsertMatch" \in StoreErrors THEN {result(fallback), result(0)} ELSE {})

\* UPDATE hist_matches ... WHERE id = ?: no row, no effect.
UpdateRow(d, id, own, gs, row) ==
  IF id \in DOMAIN d.rows
  THEN [Written(d, id, own, gs) EXCEPT !.rows[id] = row]
  ELSE d

EndMatch(d, id, own, from, outcome) ==
  IF id \in DOMAIN d.rows
  THEN UpdateRow(d, id, own, {from}, [d.rows[id] EXCEPT !.outcome = <<outcome>>])
  ELSE d

UpdateTeamScores(d, id, own, scores) ==
  IF id \in DOMAIN d.rows
  THEN UpdateRow(d, id, own, {}, [d.rows[id] EXCEPT !.scores = <<scores>>])
  ELSE d

UpdateMatchPlaylist(d, id, own, from) ==
  IF id \in DOMAIN d.rows
  THEN UpdateRow(d, id, own, {from}, d.rows[id])
  ELSE d

\* InsertGoalWithGameClock, InsertBallHit, InsertStatfeedEventWithGameClock
\* and UpsertPlayerMatchStats store whatever match_id they are given: the
\* foreign keys are declared and not enforced.
InsertUnder(d, id, own, gs) ==
  Inserted(Written(d, id, own, gs))
    \cup (IF "Insert" \in StoreErrors THEN {d} ELSE {})
=============================================================================
