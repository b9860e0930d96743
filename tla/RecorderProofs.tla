--------------------------- MODULE RecorderProofs ---------------------------
(***************************************************************************)
(* What holds of the recorder and its store, for any number of matches,    *)
(* players and rows, in any order of events, store errors and restarts.    *)
(*                                                                         *)
(* DbInv relates a recorder to a database: the row of a recorder that      *)
(* inserted it is as it was inserted until the match is flushed, once, and *)
(* flushing leaves a database that fits a recorder without a match.  Every *)
(* statement of the store keeps it, so every handler does, whatever        *)
(* statements of it fail.                                                  *)
(***************************************************************************)
EXTENDS HistRecorder, SequenceTheorems, FiniteSetTheorems, TLAPS

\* A recorder: an open match has its GUID, and what is held for it came with
\* that GUID or none.
RecInv(r) ==
  /\ r \in RecType
  /\ r.matchID # 0 => r.matchGuid \in Guids
  /\ r.own => r.matchID # 0
  /\ r.clockFrom \subseteq {NoGuid, r.matchGuid}
  /\ Snapshots(r) \subseteq {NoGuid, r.matchGuid}

OpenRows(r, d) ==
  \A m \in DOMAIN d.rows :
    d.rows[m].outcome = <<>> => m \in d.orphans \/ (r.own /\ r.matchID = m)

OwnData(d) ==
  \A m \in Rowids \ d.foreign :
    IF m \in DOMAIN d.rows THEN d.holds[m] \subseteq {d.rows[m].guid} ELSE d.holds[m] = {}

Leads(o, s) ==
  o.forfeit => /\ ~o.overtime /\ ~o.incomplete
               /\ o.winner \in TeamNums
               /\ s[o.winner] > s[1 - o.winner]

Forfeits(d) ==
  \A m \in DOMAIN d.rows \ d.foreign :
    \A i \in DOMAIN d.rows[m].outcome, j \in DOMAIN d.rows[m].scores :
      Leads(d.rows[m].outcome[i], d.rows[m].scores[j])

Sound(d) ==
  /\ d \in DbType /\ Len(d.rows) <= MaxRowid
  /\ OwnData(d) /\ Forfeits(d)

DbInv(r, d) ==
  /\ Sound(d) /\ OpenRows(r, d)
  /\ r.own => r.matchID \in DOMAIN d.rows /\ d.rows[r.matchID] = NewRow(r.matchGuid)

\* From d to e nothing is written but to the rows in left and under ids that an
\* upsert handed out for another match; no row is lost, or loses its match or
\* its outcome.
Evolves(d, e, left) ==
  /\ DOMAIN d.rows \subseteq DOMAIN e.rows /\ d.foreign \subseteq e.foreign
  /\ \A m \in DOMAIN d.rows :
       \/ e.rows[m] = d.rows[m]
       \/ /\ m \in left \cup e.foreign
          /\ e.rows[m].guid = d.rows[m].guid
          /\ d.rows[m].outcome # <<>> => e.rows[m].outcome # <<>>

LEMMA EvolvesOn ==
  ASSUME NEW d, NEW e, NEW f, NEW left, Evolves(d, e, left), Evolves(e, f, {})
  PROVE  Evolves(d, f, left)
BY DEF Evolves

\* The row of a recorder that inserted it, or 0.
Cur(r) == IF r.own THEN r.matchID ELSE 0

\* The row that r leaves in becoming s.
Leaves(r, s) == {Cur(r)} \ {0, Cur(s)}

\* From (r, d) to (s, e) no match is opened.
Stays(r, d, s, e) ==
  /\ Evolves(d, e, Leaves(r, s))
  /\ DOMAIN e.rows = DOMAIN d.rows
  /\ e.orphans = d.orphans \cup {m \in Leaves(r, s) : e.rows[m].outcome = <<>>}
  /\ Cur(s) \in {0, Cur(r)}

\* Row id of e is the one inserted for a match that had none in d.
Inserts(d, e, id) ==
  /\ DOMAIN e.rows = DOMAIN d.rows \cup {Len(d.rows) + 1} /\ id = Len(d.rows) + 1
  /\ \E g \in Guids : RowsOf(d, g) = {} /\ e.rows[id] = NewRow(g)

\* From (r, d) to (s, e) a match is opened, after another was left or not.
Opens(r, d, s, e) ==
  /\ Evolves(d, e, Leaves(r, s))
  /\ Inserts(d, e, Cur(s))
  /\ e.orphans = d.orphans \cup {m \in Leaves(r, s) : e.rows[m].outcome = <<>>}

\* The ids of rows are rowids.
LEMMA RowIds ==
  ASSUME NEW d \in DbType, Len(d.rows) <= MaxRowid
  PROVE  /\ Len(d.rows) \in Nat /\ DOMAIN d.rows = 1..Len(d.rows)
         /\ DOMAIN d.rows \subseteq Rowids
         /\ \A m \in DOMAIN d.rows : d.rows[m] \in RowType
<1>1. d.rows \in Seq(RowType)
  BY DEF DbType
<1>2. Len(d.rows) \in Nat /\ DOMAIN d.rows = 1..Len(d.rows)
  BY <1>1, LenProperties
<1>3. \A m \in DOMAIN d.rows : d.rows[m] \in RowType
  BY <1>1, <1>2, ElementOfSeq
<1> QED BY <1>2, <1>3, StoreAssumption DEF Rowids

-----------------------------------------------------------------------------
(* The statements                                                          *)

IsWritten(e, d, r, gs) ==
  /\ e \in DbType /\ e.rows = d.rows /\ e.orphans = d.orphans
  /\ e.foreign = IF r.own THEN d.foreign ELSE d.foreign \cup {r.matchID}
  /\ e.holds[r.matchID] = d.holds[r.matchID] \cup (gs \cap Guids)
  /\ \A m \in Rowids \ {r.matchID} : e.holds[m] = d.holds[m]

LEMMA WrittenFields ==
  ASSUME NEW d \in DbType, NEW r \in RecType, r.matchID # 0, NEW gs,
         NEW e, e = Written(d, r.matchID, r.own, gs)
  PROVE  IsWritten(e, d, r, gs)
<1>1. r.matchID \in Rowids /\ r.own \in BOOLEAN
  BY DEF RecType, Rowids
<1>2. e = [d EXCEPT !.holds[r.matchID] = @ \cup (gs \cap Guids),
                    !.foreign = IF r.own THEN @ ELSE @ \cup {r.matchID}]
  BY DEF Written
<1>3. /\ e.rows = d.rows /\ e.orphans = d.orphans /\ e.lastRowid = d.lastRowid
      /\ e.foreign = IF r.own THEN d.foreign ELSE d.foreign \cup {r.matchID}
      /\ e.holds = [d.holds EXCEPT ![r.matchID] = @ \cup (gs \cap Guids)]
      /\ e = [rows |-> e.rows, lastRowid |-> e.lastRowid, holds |-> e.holds,
              foreign |-> e.foreign, orphans |-> e.orphans]
  BY <1>1, <1>2 DEF DbType
<1>4. e.holds \in [Rowids -> SUBSET Guids] /\ e.foreign \in SUBSET Rowids
  BY <1>1, <1>3 DEF DbType
<1>5. e \in DbType
  BY <1>3, <1>4 DEF DbType
<1> QED BY <1>1, <1>3, <1>5 DEF DbType, IsWritten

LEMMA InsertedFields ==
  ASSUME NEW d \in DbType, NEW e \in Inserted(d)
  PROVE  /\ e \in DbType /\ e.rows = d.rows /\ e.orphans = d.orphans
         /\ e.foreign = d.foreign /\ e.holds = d.holds
BY StoreAssumption DEF Inserted, DbType, Rowids

\* What is written under the id of r, of its own match if it inserted the row.
Fits(r, gs) == r.own => gs \cap Guids \subseteq {r.matchGuid}

LEMMA SoundWrite ==
  ASSUME NEW r \in RecType, NEW d, Sound(d), r.matchID # 0, NEW gs, Fits(r, gs),
         r.own => r.matchID \in DOMAIN d.rows /\ d.rows[r.matchID].guid = r.matchGuid
  PROVE  LET e == Written(d, r.matchID, r.own, gs) IN Sound(e) /\ Evolves(d, e, {})
<1> DEFINE e == Written(d, r.matchID, r.own, gs)
<1>1. r.matchID \in Rowids /\ r.own \in BOOLEAN
  BY DEF RecType, Rowids
<1>2. /\ e \in DbType /\ e.rows = d.rows
      /\ e.foreign = IF r.own THEN d.foreign ELSE d.foreign \cup {r.matchID}
      /\ e.holds[r.matchID] = d.holds[r.matchID] \cup (gs \cap Guids)
      /\ \A m \in Rowids \ {r.matchID} : e.holds[m] = d.holds[m]
  <2>1. d \in DbType
    BY DEF Sound
  <2> HIDE DEF e
  <2>2. e = Written(d, r.matchID, r.own, gs)
    BY DEF e
  <2>3. IsWritten(e, d, r, gs)
    BY <2>1, <2>2, WrittenFields
  <2> QED BY <2>3 DEF IsWritten
<1> HIDE DEF e
<1>3. OwnData(e)
  BY <1>1, <1>2 DEF OwnData, Sound, Fits
<1>4. Forfeits(e)
  BY <1>1, <1>2 DEF Forfeits, Sound
<1> QED BY <1>2, <1>3, <1>4 DEF Sound, Evolves, e

LEMMA SoundInsert ==
  ASSUME NEW r \in RecType, NEW d, Sound(d), r.matchID # 0, NEW gs, Fits(r, gs),
         r.own => r.matchID \in DOMAIN d.rows /\ d.rows[r.matchID].guid = r.matchGuid,
         NEW e \in InsertUnder(d, r.matchID, r.own, gs)
  PROVE  Sound(e) /\ Evolves(d, e, {}) /\ e.rows = d.rows /\ e.orphans = d.orphans
<1> DEFINE w == Written(d, r.matchID, r.own, gs)
<1>1. Sound(w) /\ Evolves(d, w, {})
  BY SoundWrite
<1>2. r.matchID \in Rowids /\ r.own \in BOOLEAN
  BY DEF RecType, Rowids
<1>3. w.rows = d.rows /\ w.orphans = d.orphans
  <2>1. d \in DbType
    BY DEF Sound
  <2> HIDE DEF w
  <2>2. w = Written(d, r.matchID, r.own, gs)
    BY DEF w
  <2>3. IsWritten(w, d, r, gs)
    BY <2>1, <2>2, WrittenFields
  <2> QED BY <2>3 DEF IsWritten
<1>4. e \in Inserted(w) \/ e = d
  BY DEF InsertUnder
<1> HIDE DEF w
<1>5. CASE e \in Inserted(w)
  <2>1. e \in DbType /\ e.rows = w.rows /\ e.orphans = w.orphans /\ e.foreign = w.foreign
        /\ e.holds = w.holds
    BY <1>1, <1>5, InsertedFields DEF Sound
  <2> QED BY <1>1, <1>3, <2>1 DEF Sound, OwnData, Forfeits, Evolves
<1>6. CASE e = d
  BY <1>6 DEF Evolves
<1> QED BY <1>4, <1>5, <1>6

\* A row that is its recorder's own, or one of no recorder.
LEMMA RowUpdated ==
  ASSUME NEW d \in DbType, Len(d.rows) <= MaxRowid, NEW id \in DOMAIN d.rows,
         NEW row \in RowType
  PROVE  LET e == [d EXCEPT !.rows[id] = row] IN
         /\ e \in DbType /\ DOMAIN e.rows = DOMAIN d.rows /\ Len(e.rows) = Len(d.rows)
         /\ e.rows[id] = row /\ \A m \in DOMAIN d.rows \ {id} : e.rows[m] = d.rows[m]
         /\ e.holds = d.holds /\ e.foreign = d.foreign /\ e.orphans = d.orphans
<1>1. d.rows \in Seq(RowType) /\ DOMAIN d.rows = 1..Len(d.rows) /\ Len(d.rows) \in Nat
  BY RowIds DEF DbType
<1>2. [d.rows EXCEPT ![id] = row] \in Seq(RowType)
  BY <1>1, ExceptSeq
<1>3. /\ Len([d.rows EXCEPT ![id] = row]) = Len(d.rows)
      /\ DOMAIN [d.rows EXCEPT ![id] = row] = DOMAIN d.rows
  BY <1>1, ExceptSeq
<1> DEFINE e == [d EXCEPT !.rows[id] = row]
<1>4. /\ e.rows = [d.rows EXCEPT ![id] = row]
      /\ e.holds = d.holds /\ e.foreign = d.foreign /\ e.orphans = d.orphans
      /\ e.lastRowid = d.lastRowid
      /\ e = [d EXCEPT !.rows = [d.rows EXCEPT ![id] = row]]
  BY DEF DbType
<1>5. e \in DbType
  BY <1>2, <1>4 DEF DbType
<1> HIDE DEF e
<1> QED BY <1>1, <1>3, <1>4, <1>5 DEF e

\* The row after a statement that may change it: its match stays.
IsUpdated(e, d, r, row) ==
  /\ Sound(e) /\ e.orphans = d.orphans /\ d.foreign \subseteq e.foreign
  /\ ~r.own => r.matchID \in e.foreign
  /\ DOMAIN e.rows = DOMAIN d.rows
  /\ e.rows[r.matchID] = row
  /\ \A m \in DOMAIN d.rows \ {r.matchID} : e.rows[m] = d.rows[m]

LEMMA SoundUpdate ==
  ASSUME NEW r \in RecType, NEW d, Sound(d), r.matchID \in DOMAIN d.rows,
         NEW gs, Fits(r, gs),
         r.own => d.rows[r.matchID].guid = r.matchGuid,
         NEW row \in RowType, row.guid = d.rows[r.matchID].guid,
         r.own => \A i \in DOMAIN row.outcome, j \in DOMAIN row.scores :
                    Leads(row.outcome[i], row.scores[j])
  PROVE  IsUpdated(UpdateRow(d, r.matchID, r.own, gs, row), d, r, row)
<1> DEFINE w == Written(d, r.matchID, r.own, gs)
           e == [w EXCEPT !.rows[r.matchID] = row]
<1>0. d \in DbType /\ r.own \in BOOLEAN /\ r.matchID \in Rowids /\ r.matchID # 0
  BY RowIds DEF Sound, RecType, Rowids
<1>1. Sound(w) /\ Evolves(d, w, {})
  BY <1>0, SoundWrite
<1>2. w.rows = d.rows /\ w.orphans = d.orphans
      /\ w.foreign = IF r.own THEN d.foreign ELSE d.foreign \cup {r.matchID}
  <2> HIDE DEF w
  <2>2. w = Written(d, r.matchID, r.own, gs)
    BY DEF w
  <2>3. IsWritten(w, d, r, gs)
    BY <1>0, <2>2, WrittenFields
  <2> QED BY <2>3 DEF IsWritten
<1>3. UpdateRow(d, r.matchID, r.own, gs, row) = e
  BY DEF UpdateRow
<1> HIDE DEF w
<1>4. /\ e \in DbType /\ DOMAIN e.rows = DOMAIN w.rows /\ Len(e.rows) = Len(w.rows)
      /\ e.rows[r.matchID] = row
      /\ \A m \in DOMAIN w.rows \ {r.matchID} : e.rows[m] = w.rows[m]
      /\ e.holds = w.holds /\ e.foreign = w.foreign /\ e.orphans = w.orphans
  BY <1>1, <1>2, RowUpdated DEF Sound
<1> HIDE DEF e
<1>5. OwnData(e)
  BY <1>1, <1>2, <1>4 DEF Sound, OwnData
<1>6. Forfeits(e)
  BY <1>1, <1>2, <1>4 DEF Sound, Forfeits
<1>7. ~r.own => r.matchID \in e.foreign
  BY <1>2, <1>4
<1> QED BY <1>1, <1>2, <1>3, <1>4, <1>5, <1>6, <1>7 DEF Sound, Evolves, IsUpdated

-----------------------------------------------------------------------------
(* flushMatch: EndMatch, UpdateTeamScores and the players, each failing or *)
(* not, leave a database that fits a recorder without a match.             *)

\* What x has become of d in the course of a flush with outcome o.
Flushing(r, d, x, o) ==
  /\ Sound(x) /\ Stays(r, d, Idle, x)
  /\ \A m \in DOMAIN x.rows : x.rows[m].outcome = <<>> => m \in x.orphans
  /\ r.own => /\ r.matchID \in DOMAIN d.rows
              /\ x.rows[r.matchID].guid = r.matchGuid
              /\ \A i \in DOMAIN x.rows[r.matchID].outcome : x.rows[r.matchID].outcome[i] = o

LEMMA Ended ==
  ASSUME NEW r, RecInv(r), r.matchID # 0, NEW d, DbInv(r, d), NEW o \in OutcomeType,
         NEW from \in {NoGuid, r.matchGuid}, NEW x,
         \/ x = EndMatch(d, r.matchID, r.own, from, o)
         \/ x = [d EXCEPT !.orphans = IF r.own THEN @ \cup {r.matchID} ELSE @]
  PROVE  /\ Flushing(r, d, x, o)
         /\ r.own => x.rows[r.matchID].scores = <<>>
<1>0. /\ Sound(d) /\ d \in DbType /\ Len(d.rows) <= MaxRowid /\ r \in RecType
      /\ r.matchID \in Rowids /\ r.own \in BOOLEAN
      /\ \A m \in DOMAIN d.rows : d.rows[m] \in RowType
      /\ Leaves(r, Idle) = (IF r.own THEN {r.matchID} ELSE {}) /\ Cur(Idle) = 0
  BY RowIds DEF DbInv, Sound, RecInv, RecType, Rowids, Leaves, Cur, Idle
<1>1. CASE x = EndMatch(d, r.matchID, r.own, from, o) /\ r.matchID \in DOMAIN d.rows
  <2> DEFINE row == [d.rows[r.matchID] EXCEPT !.outcome = <<o>>]
  <2>1. x = UpdateRow(d, r.matchID, r.own, {from}, row)
    BY <1>1 DEF EndMatch
  <2>2. /\ row \in RowType /\ row.guid = d.rows[r.matchID].guid /\ row.outcome = <<o>>
        /\ row.scores = d.rows[r.matchID].scores
    <3>1. <<o>> \in Seq(OutcomeType) /\ d.rows[r.matchID] \in RowType
      BY <1>0, <1>1
    <3>2. row = [guid |-> d.rows[r.matchID].guid, outcome |-> <<o>>,
                 scores |-> d.rows[r.matchID].scores]
      BY <3>1 DEF RowType
    <3> HIDE DEF row
    <3> QED BY <3>1, <3>2 DEF RowType
  <2>3. r.own => row.guid = r.matchGuid /\ row.scores = <<>>
    BY <2>2 DEF DbInv, NewRow
  <2>4. Fits(r, {from})
    BY StoreAssumption DEF Fits
  <2>5. /\ r.own => \A i \in DOMAIN row.outcome, j \in DOMAIN row.scores :
                      Leads(row.outcome[i], row.scores[j])
        /\ \A i \in DOMAIN row.outcome : row.outcome[i] = o
        /\ row.outcome # <<>>
    BY <2>2, <2>3
  <2> HIDE DEF row
  <2>6. /\ Sound(x) /\ x.orphans = d.orphans /\ d.foreign \subseteq x.foreign
        /\ ~r.own => r.matchID \in x.foreign
        /\ DOMAIN x.rows = DOMAIN d.rows
        /\ x.rows[r.matchID] = row
        /\ \A m \in DOMAIN d.rows \ {r.matchID} : x.rows[m] = d.rows[m]
    <3>1. r.own => d.rows[r.matchID].guid = r.matchGuid
      BY <2>2, <2>3
    <3>2. IsUpdated(x, d, r, row)
      BY <1>0, <1>1, <2>1, <2>2, <2>4, <2>5, <3>1, SoundUpdate
    <3> QED BY <3>2 DEF IsUpdated
  <2>7. \A m \in DOMAIN x.rows : x.rows[m].outcome = <<>> => m \in x.orphans
    BY <2>5, <2>6 DEF DbInv, OpenRows
  <2>8. Stays(r, d, Idle, x)
    BY <1>0, <2>2, <2>5, <2>6 DEF Stays, Evolves
  <2> QED BY <1>1, <2>3, <2>5, <2>6, <2>7, <2>8 DEF Flushing
<1>2. CASE x = EndMatch(d, r.matchID, r.own, from, o) /\ r.matchID \notin DOMAIN d.rows
  <2>1. x = d /\ ~r.own
    BY <1>2 DEF EndMatch, DbInv
  <2>2. Stays(r, d, Idle, x)
    BY <1>0, <2>1 DEF Stays, Evolves
  <2> QED BY <1>0, <1>2, <2>1, <2>2 DEF Flushing, DbInv, OpenRows
<1>3. CASE x = [d EXCEPT !.orphans = IF r.own THEN @ \cup {r.matchID} ELSE @]
  <2>1. /\ x.rows = d.rows /\ x.foreign = d.foreign /\ x.holds = d.holds
        /\ x.lastRowid = d.lastRowid
        /\ x.orphans = IF r.own THEN d.orphans \cup {r.matchID} ELSE d.orphans
        /\ x = [rows |-> x.rows, lastRowid |-> x.lastRowid, holds |-> x.holds,
                foreign |-> x.foreign, orphans |-> x.orphans]
    BY <1>0, <1>3 DEF DbType
  <2>2. x.orphans \in SUBSET Rowids
    BY <1>0, <2>1 DEF DbType
  <2>3. x \in DbType
    BY <1>0, <2>1, <2>2 DEF DbType
  <2>4. Sound(x)
    BY <1>0, <2>1, <2>3 DEF Sound, OwnData, Forfeits
  <2>5. r.own => /\ r.matchID \in DOMAIN d.rows
                 /\ x.rows[r.matchID] = NewRow(r.matchGuid)
    BY <2>1 DEF DbInv
  <2>6. \A m \in DOMAIN x.rows : x.rows[m].outcome = <<>> => m \in x.orphans
    BY <2>1 DEF DbInv, OpenRows
  <2>7. Stays(r, d, Idle, x)
    BY <1>0, <2>1, <2>5 DEF Stays, Evolves, NewRow
  <2> QED BY <2>1, <2>4, <2>5, <2>6, <2>7 DEF Flushing, NewRow
<1> QED BY <1>1, <1>2, <1>3

LEMMA Scored ==
  ASSUME NEW r, RecInv(r), r.matchID # 0, NEW d, NEW x, NEW o, Flushing(r, d, x, o),
         r.own => x.rows[r.matchID].scores = <<>>,
         DOMAIN r.lastTeams = TeamNums => Leads(o, r.lastTeams),
         NEW y,
         \/ y = x
         \/ DOMAIN r.lastTeams = TeamNums /\ y = UpdateTeamScores(x, r.matchID, r.own, r.lastTeams)
  PROVE  Flushing(r, d, y, o)
<1>0. /\ Sound(x) /\ x \in DbType /\ Len(x.rows) <= MaxRowid /\ r \in RecType
      /\ r.matchID \in Rowids /\ r.own \in BOOLEAN
      /\ \A m \in DOMAIN x.rows : x.rows[m] \in RowType
      /\ Leaves(r, Idle) = (IF r.own THEN {r.matchID} ELSE {}) /\ Cur(Idle) = 0
  BY RowIds DEF Flushing, Sound, RecInv, RecType, Rowids, Leaves, Cur, Idle
<1>1. CASE y = x
  BY <1>1
<1>2. CASE r.matchID \notin DOMAIN x.rows
  BY <1>2 DEF UpdateTeamScores
<1>3. CASE /\ r.matchID \in DOMAIN x.rows /\ DOMAIN r.lastTeams = TeamNums
           /\ y = UpdateTeamScores(x, r.matchID, r.own, r.lastTeams)
  <2> DEFINE row == [x.rows[r.matchID] EXCEPT !.scores = <<r.lastTeams>>]
  <2>1. y = UpdateRow(x, r.matchID, r.own, {}, row)
    BY <1>3 DEF UpdateTeamScores
  <2>2. /\ row \in RowType /\ row.guid = x.rows[r.matchID].guid
        /\ row.outcome = x.rows[r.matchID].outcome
        /\ row.scores = <<r.lastTeams>>
    <3>1. <<r.lastTeams>> \in Seq(TeamScores) /\ x.rows[r.matchID] \in RowType
      <4>1. r.lastTeams \in TeamScores
        BY <1>0 DEF RecType
      <4> QED BY <1>0, <1>3, <4>1
    <3>2. row = [guid |-> x.rows[r.matchID].guid, outcome |-> x.rows[r.matchID].outcome,
                 scores |-> <<r.lastTeams>>]
      BY <3>1 DEF RowType
    <3> HIDE DEF row
    <3> QED BY <3>1, <3>2 DEF RowType
  <2>3. r.own => row.guid = r.matchGuid /\ \A i \in DOMAIN row.outcome : row.outcome[i] = o
    BY <2>2 DEF Flushing
  <2>4. r.own => \A i \in DOMAIN row.outcome, j \in DOMAIN row.scores :
                   Leads(row.outcome[i], row.scores[j])
    <3>1. \A j \in DOMAIN row.scores : row.scores[j] = r.lastTeams
      BY <2>2
    <3> HIDE DEF row
    <3> QED BY <1>3, <2>3, <3>1
  <2>5. Fits(r, {})
    BY DEF Fits
  <2> HIDE DEF row
  <2>5a. DOMAIN x.rows = DOMAIN d.rows
    BY DEF Flushing, Stays
  <2>6. /\ Sound(y) /\ y.orphans = x.orphans /\ x.foreign \subseteq y.foreign
        /\ ~r.own => r.matchID \in y.foreign
        /\ DOMAIN y.rows = DOMAIN x.rows
        /\ y.rows[r.matchID] = row
        /\ \A m \in DOMAIN x.rows \ {r.matchID} : y.rows[m] = x.rows[m]
    <3>1. r.own => x.rows[r.matchID].guid = r.matchGuid
      BY <2>2, <2>3
    <3>2. IsUpdated(y, x, r, row)
      BY <1>0, <1>3, <2>1, <2>2, <2>4, <2>5, <3>1, SoundUpdate
    <3> QED BY <3>2 DEF IsUpdated
  <2>7. \A m \in DOMAIN y.rows : y.rows[m].outcome = <<>> => m \in y.orphans
    BY <2>2, <2>6 DEF Flushing
  <2>8. Stays(r, d, Idle, y)
    <3>1. Stays(r, d, Idle, x)
      BY DEF Flushing
    <3>2. \A m \in DOMAIN x.rows :
            /\ y.rows[m].guid = x.rows[m].guid /\ y.rows[m].outcome = x.rows[m].outcome
            /\ m # r.matchID => y.rows[m] = x.rows[m]
      BY <2>2, <2>6
    <3>3. Evolves(d, y, Leaves(r, Idle))
      BY <1>0, <2>6, <3>1, <3>2 DEF Stays, Evolves
    <3>4. Leaves(r, Idle) \subseteq DOMAIN x.rows
      BY <1>0, <2>5a DEF Flushing
    <3> QED BY <1>0, <2>6, <3>1, <3>2, <3>3, <3>4 DEF Stays
  <2> QED BY <2>3, <2>6, <2>7, <2>8 DEF Flushing
<1> QED BY <1>1, <1>2, <1>3

LEMMA IdleInv == RecInv(Idle) /\ Idle \in RecType /\ ~Idle.own /\ Idle.matchGuid = NoGuid
<1>1. DOMAIN <<>> = {} /\ <<>> \in [{} -> SnapshotType] /\ <<>> \in [{} -> 0..MaxScore]
  OBVIOUS
<1>2. /\ <<>> \in UNION {[S -> SnapshotType] : S \in SUBSET Players}
      /\ <<>> \in TeamScores
  BY <1>1 DEF TeamScores
<1>3. 0 \in 0..MaxRowid
  BY StoreAssumption
<1>4. Idle \in RecType
  BY <1>2, <1>3 DEF Idle, RecType, AnyGuid
<1>5. Snapshots(Idle) = {}
  BY <1>1 DEF Snapshots, Idle
<1> QED BY <1>4, <1>5 DEF RecInv, Idle

LEMMA Flushed ==
  ASSUME NEW r, RecInv(r), r.matchID # 0, NEW d, DbInv(r, d), NEW o \in OutcomeType,
         DOMAIN r.lastTeams = TeamNums => Leads(o, r.lastTeams),
         NEW from \in {NoGuid, r.matchGuid}, NEW e \in Flush(r, d, o, from)
  PROVE  DbInv(Idle, e) /\ Stays(r, d, Idle, e)
<1>1. PICK failed : e \in FlushWith(r, d, o, from, failed)
  BY DEF Flush
<1> DEFINE x == IF "EndMatch" \in failed
                THEN [d EXCEPT !.orphans = IF r.own THEN @ \cup {r.matchID} ELSE @]
                ELSE EndMatch(d, r.matchID, r.own, from, o)
           y == IF "UpdateTeamScores" \in failed \/ DOMAIN r.lastTeams # TeamNums
                THEN x
                ELSE UpdateTeamScores(x, r.matchID, r.own, r.lastTeams)
<1>2. e = y \/ e \in InsertUnder(y, r.matchID, r.own, Snapshots(r))
  BY <1>1 DEF FlushWith
<1>3. Flushing(r, d, x, o) /\ (r.own => x.rows[r.matchID].scores = <<>>)
  BY Ended
<1>4. y = x \/ (DOMAIN r.lastTeams = TeamNums /\ y = UpdateTeamScores(x, r.matchID, r.own, r.lastTeams))
  OBVIOUS
<1> HIDE DEF x, y
<1>5. Flushing(r, d, y, o)
  BY <1>3, <1>4, Scored
<1>6. /\ Sound(y) /\ Stays(r, d, Idle, y)
      /\ \A m \in DOMAIN y.rows : y.rows[m].outcome = <<>> => m \in y.orphans
  BY <1>5 DEF Flushing
<1>7. Sound(e) /\ Stays(r, d, Idle, e) /\ e.rows = y.rows /\ e.orphans = y.orphans
  <2>1. CASE e = y
    BY <1>6, <2>1
  <2>2. CASE e \in InsertUnder(y, r.matchID, r.own, Snapshots(r))
    <3>1. r \in RecType /\ Fits(r, Snapshots(r))
      BY StoreAssumption DEF RecInv, Fits
    <3>2. r.own => r.matchID \in DOMAIN y.rows /\ y.rows[r.matchID].guid = r.matchGuid
      BY <1>5 DEF Flushing, Stays
    <3>3. Sound(e) /\ Evolves(y, e, {}) /\ e.rows = y.rows /\ e.orphans = y.orphans
      BY <1>6, <2>2, <3>1, <3>2, SoundInsert
    <3>4. Evolves(d, e, Leaves(r, Idle))
      BY <1>6, <3>3, EvolvesOn DEF Stays
    <3> QED BY <1>6, <3>3, <3>4 DEF Stays
  <2> QED BY <1>2, <2>1, <2>2
<1> QED BY <1>6, <1>7, IdleInv DEF DbInv, OpenRows

\* A match that is abandoned has neither winner nor forfeit.
LEMMA Abandoned ==
  ASSUME NEW r, RecInv(r), r.matchID # 0, NEW d, DbInv(r, d), NEW e \in Abandon(r, d)
  PROVE  DbInv(Idle, e) /\ Stays(r, d, Idle, e)
<1> DEFINE o == Outcome(r, -1, TRUE, FALSE)
<1>1. o \in OutcomeType /\ ~o.forfeit
  BY DEF Outcome, OutcomeType, RecInv, RecType, Winners
<1>2. e \in Flush(r, d, o, NoGuid)
  BY DEF Abandon
<1> HIDE DEF o
<1>3. DOMAIN r.lastTeams = TeamNums => Leads(o, r.lastTeams)
  BY <1>1 DEF Leads
<1> QED BY <1>1, <1>2, <1>3, Flushed

\* What only concerns the match that is open does not concern a recorder
\* without one.
LEMMA NotOwn ==
  ASSUME NEW d, DbInv(Idle, d), NEW r, ~r.own
  PROVE  DbInv(r, d)
BY IdleInv DEF DbInv, OpenRows

LEMMA Switched ==
  ASSUME RecInv(rec), DbInv(rec, db), NEW g \in AnyGuid, NEW e \in SwitchDb(rec, db, g)
  PROVE  /\ RecInv(SwitchRec(rec, g)) /\ DbInv(SwitchRec(rec, g), e)
         /\ Stays(rec, db, SwitchRec(rec, g), e)
         /\ g \in {NoGuid, SwitchRec(rec, g).matchGuid}
         /\ SwitchRec(rec, g).matchGuid = rec.matchGuid => SwitchRec(rec, g) = rec
<1>1. CASE Switches(rec, g)
  <2> DEFINE r == SwitchRec(rec, g)
  <2>1. r = [Idle EXCEPT !.matchGuid = g]
    BY <1>1 DEF SwitchRec
  <2>2. g # NoGuid /\ g # rec.matchGuid /\ g \in Guids
    BY <1>1 DEF Switches, AnyGuid
  <2>3. r \in RecType /\ ~r.own /\ r.matchGuid = g /\ r.matchID = 0
        /\ r.lastPlayers = <<>> /\ r.clockFrom = {}
    BY <2>1, IdleInv DEF RecType, Idle
  <2> HIDE DEF r
  <2>4. RecInv(r)
    <3>1. Snapshots(r) = {}
      BY <2>3 DEF Snapshots
    <3> QED BY <2>3, <3>1 DEF RecInv
  <2>5. CASE rec.matchID # 0
    <3>1. DbInv(Idle, e) /\ Stays(rec, db, Idle, e)
      BY <1>1, <2>5, Abandoned DEF SwitchDb
    <3>2. DbInv(r, e)
      BY <2>3, <3>1, NotOwn
    <3>3. Cur(r) = Cur(Idle)
      BY <2>3, IdleInv DEF Cur
    <3>4. Stays(rec, db, r, e)
      BY <3>1, <3>3 DEF Stays, Leaves
    <3> QED BY <2>2, <2>3, <2>4, <3>2, <3>4 DEF r
  <2>6. CASE rec.matchID = 0
    <3>1. e = db /\ ~rec.own
      BY <1>1, <2>6 DEF SwitchDb, RecInv
    <3>2. DbInv(r, e)
      BY <2>3, <3>1 DEF DbInv, OpenRows
    <3>3. Stays(rec, db, r, e)
      BY <2>3, <3>1 DEF Stays, Leaves, Cur, Evolves
    <3> QED BY <2>2, <2>3, <2>4, <3>2, <3>3 DEF r
  <2> QED BY <2>5, <2>6
<1>2. CASE ~Switches(rec, g)
  <2>1. SwitchRec(rec, g) = rec /\ e = db /\ g \in {NoGuid, rec.matchGuid}
    BY <1>2 DEF Switches, SwitchRec, SwitchDb
  <2>2. Stays(rec, db, rec, db)
    BY DEF Stays, Leaves, Evolves
  <2> QED BY <2>1, <2>2
<1> QED BY <1>1, <1>2

-----------------------------------------------------------------------------
(* The roster held for the final flush                                     *)

Rosters == UNION {[S -> SnapshotType] : S \in SUBSET Players}

\* What becomes of a roster: new is held after old, for a packet p.
HeldAfter(new, old, p) ==
  /\ new \in Rosters
  /\ \A q \in DOMAIN new :
       new[q].from = p.guid \/ (q \in DOMAIN old /\ new[q].from = old[q].from)
  /\ \A q \in DOMAIN new \cap DOMAIN old : old[q].live => new[q].live
  /\ Cardinality(DOMAIN new) < Cardinality(DOMAIN old) => ~p.replay /\ ~ActiveLiveClock(p)

LEMMA RosterKept ==
  ASSUME NEW r \in RecType, NEW p \in PacketType
  PROVE  HeldAfter(NextPlayers(r, p), r.lastPlayers, p)
<1> DEFINE old == r.lastPlayers
           new == NextPlayers(r, p)
<1>0. old \in Rosters /\ DOMAIN old \in SUBSET Players
  BY DEF RecType, Rosters
<1>1. IsFiniteSet(DOMAIN old) /\ Cardinality(DOMAIN old) \in Nat
  BY <1>0, RecorderAssumption, FS_Subset, FS_CardinalityType
<1>2. p.guid \in AnyGuid /\ p.replay \in BOOLEAN
  BY DEF PacketType
<1>3. CASE p.roster = <<>>
  <2>1. new = old
    BY <1>3 DEF NextPlayers
  <2> HIDE DEF new, old
  <2> QED BY <1>0, <1>1, <2>1 DEF HeldAfter, old, new
<1>4. CASE p.roster # <<>>
  <2> DEFINE S == p.roster[1]
             smaller == Cardinality(S) < Cardinality(DOMAIN old)
             cur == CurrentPlayers(p)
  <2>0. S \in SUBSET Players
    BY <1>4 DEF PacketType
  <2>1. IsFiniteSet(S) /\ Cardinality(S) \in Nat
    BY <2>0, RecorderAssumption, FS_Subset, FS_CardinalityType
  <2>2. /\ DOMAIN cur = S /\ cur \in [S -> SnapshotType]
        /\ \A q \in S : cur[q].from = p.guid /\ cur[q].live = ~p.replay
    BY <1>2 DEF CurrentPlayers, Snapshot, SnapshotType
  <2>3. CASE p.replay /\ smaller
    <3>1. new = old
      BY <1>4, <2>3 DEF NextPlayers
    <3> HIDE DEF new, old
    <3> QED BY <1>0, <1>1, <3>1 DEF HeldAfter, old, new
  <2>4. CASE p.replay /\ ~smaller
    <3>1. new = PreserveLiveTouches(r, p)
      BY <1>4, <2>4 DEF NextPlayers
    <3>2. \A q \in DOMAIN old : old[q] \in SnapshotType
      BY <1>0 DEF Rosters
    <3>3. /\ DOMAIN new = S
          /\ \A q \in S : new[q] \in SnapshotType /\ new[q].from = p.guid
          /\ \A q \in S \cap DOMAIN old : new[q].live = old[q].live
      BY <1>2, <3>1, <3>2 DEF PreserveLiveTouches, Snapshot, SnapshotType
    <3>4. new \in [S -> SnapshotType]
      BY <3>1, <3>3 DEF PreserveLiveTouches
    <3> HIDE DEF new
    <3>5. new \in Rosters
      BY <2>0, <3>4 DEF Rosters
    <3> QED BY <2>4, <3>3, <3>5 DEF HeldAfter, new
  <2>5. CASE ~p.replay /\ smaller /\ ActiveLiveClock(p)
    <3>1. new = WithLeavers(r, p)
      BY <1>4, <2>5 DEF NextPlayers
    <3>2. \A q \in DOMAIN old : old[q] \in SnapshotType
      BY <1>0 DEF Rosters
    <3>3. /\ DOMAIN new = S \cup DOMAIN old
          /\ \A q \in DOMAIN new : new[q] = IF q \in S THEN cur[q] ELSE old[q]
      BY <3>1 DEF WithLeavers, CurrentPlayers
    <3>4. new \in [S \cup DOMAIN old -> SnapshotType]
      <4>1. \A q \in DOMAIN new : new[q] \in SnapshotType
        BY <2>2, <3>2, <3>3
      <4>2. new = [q \in DOMAIN new |-> new[q]]
        BY <3>1 DEF WithLeavers
      <4> HIDE DEF new
      <4> QED BY <3>3, <4>1, <4>2
    <3> HIDE DEF new, cur, old
    <3>5. new \in Rosters
      BY <1>0, <2>0, <3>4 DEF Rosters
    <3>6. IsFiniteSet(DOMAIN new) /\ DOMAIN old \subseteq DOMAIN new
      BY <1>0, <2>0, <3>3, RecorderAssumption, FS_Subset
    <3>7. Cardinality(DOMAIN old) <= Cardinality(DOMAIN new) /\ Cardinality(DOMAIN new) \in Nat
      BY <3>6, FS_Subset, FS_CardinalityType
    <3>8. ~(Cardinality(DOMAIN new) < Cardinality(DOMAIN old))
      BY <1>1, <3>7
    <3>9. \A q \in DOMAIN new :
            new[q].from = p.guid \/ (q \in DOMAIN old /\ new[q].from = old[q].from)
      BY <2>2, <3>3
    <3>10. \A q \in DOMAIN new \cap DOMAIN old : old[q].live => new[q].live
      BY <2>2, <2>5, <3>3
    <3> QED BY <3>5, <3>8, <3>9, <3>10 DEF HeldAfter, new, old
  <2>6. CASE ~p.replay /\ ~(smaller /\ ActiveLiveClock(p))
    <3>1. new = cur
      BY <1>4, <2>6 DEF NextPlayers
    <3>2. new \in Rosters
      BY <2>0, <2>2, <3>1 DEF Rosters
    <3> HIDE DEF new, cur
    <3> QED BY <2>2, <2>6, <3>1, <3>2 DEF HeldAfter, new
  <2> QED BY <2>3, <2>4, <2>5, <2>6
<1> QED BY <1>3, <1>4

\* The recorder that a state update leaves before the upsert.
LEMMA SeenInv ==
  ASSUME NEW r, RecInv(r), NEW p \in PacketType, p.guid \in {NoGuid, r.matchGuid},
         NEW s, s = Seen(r, p)
  PROVE  /\ RecInv(s) /\ s.matchID = r.matchID /\ s.own = r.own /\ s.matchGuid = r.matchGuid
         /\ s.lastPlayers = NextPlayers(r, p)
<1>0. r \in RecType /\ HeldAfter(NextPlayers(r, p), r.lastPlayers, p)
  BY RosterKept DEF RecInv
<1>1. /\ s.overtime = p.overtime /\ s.over5 = p.over5 /\ s.clockFrom = {p.guid}
      /\ s.replayActive = p.replay /\ s.lastPlayers = NextPlayers(r, p)
      /\ s.lastTeams = IF DOMAIN p.teams = {} THEN r.lastTeams ELSE p.teams
      /\ s.matchID = r.matchID /\ s.own = r.own /\ s.matchGuid = r.matchGuid
      /\ s.playlist = r.playlist
      /\ s = [matchID |-> s.matchID, own |-> s.own, matchGuid |-> s.matchGuid,
              overtime |-> s.overtime, over5 |-> s.over5, clockFrom |-> s.clockFrom,
              replayActive |-> s.replayActive, playlist |-> s.playlist,
              lastPlayers |-> s.lastPlayers, lastTeams |-> s.lastTeams]
  BY <1>0 DEF Seen, RecType
<1>2. s.lastTeams \in TeamScores
  BY <1>0, <1>1 DEF RecType, PacketType
<1>3. s.lastPlayers \in UNION {[S -> SnapshotType] : S \in SUBSET Players}
  BY <1>0, <1>1 DEF HeldAfter, Rosters
<1>4. s \in RecType
  BY <1>0, <1>1, <1>2, <1>3 DEF RecType, PacketType
<1>5. Snapshots(s) \subseteq {NoGuid, s.matchGuid}
  BY <1>0, <1>1 DEF Snapshots, HeldAfter, RecInv
<1> QED BY <1>1, <1>4, <1>5 DEF RecInv

-----------------------------------------------------------------------------
(* UpsertMatch, and what a recorder does with its result                   *)

\* The match of s is r's, or one whose row was inserted in between.
Begins(r, d, s, e) ==
  \/ Cur(s) = Cur(r) /\ e = d
  \/ /\ Cur(r) = 0 /\ Inserts(d, e, Cur(s))
     /\ \A m \in DOMAIN d.rows : e.rows[m] = d.rows[m]
     /\ e.orphans = d.orphans /\ e.foreign = d.foreign

IsOpened(r, d, s, u) ==
  /\ RecInv(s) /\ DbInv(s, u.db) /\ s.matchID = u.id /\ s.own = u.own
  /\ Begins(r, d, s, u.db)
  /\ s.matchGuid = r.matchGuid /\ s.lastPlayers = r.lastPlayers

LEMMA InsertedRow ==
  ASSUME NEW d, Sound(d), Len(d.rows) < MaxRowid, NEW g \in Guids,
         NEW e, e = InsertMatch(d, g).db
  PROVE  /\ Sound(e) /\ e.orphans = d.orphans /\ e.foreign = d.foreign
         /\ DOMAIN e.rows = DOMAIN d.rows \cup {Len(d.rows) + 1}
         /\ e.rows[Len(d.rows) + 1] = NewRow(g)
         /\ \A m \in DOMAIN d.rows : e.rows[m] = d.rows[m]
<1>1. /\ d \in DbType /\ Len(d.rows) \in Nat /\ DOMAIN d.rows = 1..Len(d.rows)
      /\ d.rows \in Seq(RowType)
  BY RowIds DEF Sound, DbType
<1>2. NewRow(g) \in RowType
  BY DEF NewRow, RowType
<1>3. /\ Append(d.rows, NewRow(g)) \in Seq(RowType)
      /\ Len(Append(d.rows, NewRow(g))) = Len(d.rows) + 1
      /\ Append(d.rows, NewRow(g))[Len(d.rows) + 1] = NewRow(g)
      /\ \A m \in 1..Len(d.rows) : Append(d.rows, NewRow(g))[m] = d.rows[m]
  BY <1>1, <1>2, AppendProperties
<1>4. /\ e.rows = Append(d.rows, NewRow(g)) /\ e.lastRowid = Len(d.rows) + 1
      /\ e.holds = d.holds /\ e.foreign = d.foreign /\ e.orphans = d.orphans
      /\ e = [rows |-> e.rows, lastRowid |-> e.lastRowid, holds |-> e.holds,
              foreign |-> e.foreign, orphans |-> e.orphans]
  BY <1>1 DEF InsertMatch, DbType
<1>5. e.lastRowid \in 0..MaxRowid
  BY <1>1, <1>4, StoreAssumption
<1>6. e \in DbType /\ Len(e.rows) <= MaxRowid
  <2>1. e.rows \in Seq(RowType) /\ Len(e.rows) = Len(d.rows) + 1
    BY <1>3, <1>4
  <2>2. e.holds \in [Rowids -> SUBSET Guids] /\ e.foreign \in SUBSET Rowids
        /\ e.orphans \in SUBSET Rowids
    BY <1>1, <1>4 DEF DbType
  <2>3. e \in DbType
    BY <1>4, <1>5, <2>1, <2>2 DEF DbType
  <2>4. Len(e.rows) <= MaxRowid
    BY <1>1, <2>1, StoreAssumption
  <2> QED BY <2>3, <2>4
<1>7. DOMAIN e.rows = DOMAIN d.rows \cup {Len(d.rows) + 1}
  <2>1. e.rows \in Seq(RowType) /\ Len(e.rows) = Len(d.rows) + 1
    BY <1>3, <1>4
  <2>2. DOMAIN e.rows = 1..(Len(d.rows) + 1)
    BY <2>1, LenProperties
  <2> QED BY <1>1, <2>2
<1>8. OwnData(e)
  <2> SUFFICES ASSUME NEW m \in Rowids \ e.foreign
               PROVE  IF m \in DOMAIN e.rows THEN e.holds[m] \subseteq {e.rows[m].guid}
                      ELSE e.holds[m] = {}
    BY DEF OwnData
  <2>1. CASE m \in DOMAIN d.rows
    BY <1>1, <1>3, <1>4, <1>7, <2>1 DEF Sound, OwnData
  <2>2. CASE m \notin DOMAIN d.rows
    BY <1>4, <2>2 DEF Sound, OwnData
  <2> QED BY <2>1, <2>2
<1>9. Forfeits(e)
  <2>1. NewRow(g).outcome = <<>> /\ DOMAIN <<>> = {}
    BY DEF NewRow
  <2>2. ASSUME NEW m \in DOMAIN e.rows \ e.foreign
        PROVE  \A i \in DOMAIN e.rows[m].outcome, j \in DOMAIN e.rows[m].scores :
                 Leads(e.rows[m].outcome[i], e.rows[m].scores[j])
    <3>1. CASE m \in DOMAIN d.rows
      <4>1. e.rows[m] = d.rows[m] /\ m \in DOMAIN d.rows \ d.foreign
        BY <1>1, <1>3, <1>4, <2>2, <3>1
      <4> QED BY <4>1 DEF Sound, Forfeits
    <3>2. CASE m = Len(d.rows) + 1
      BY <1>3, <1>4, <2>1, <3>2
    <3> QED BY <1>7, <2>2, <3>1, <3>2
  <2> QED BY <2>2 DEF Forfeits
<1> QED BY <1>1, <1>3, <1>4, <1>6, <1>7, <1>8, <1>9 DEF Sound

HoldsMatch(r, s, id, own) ==
  /\ RecInv(s) /\ s.matchGuid = r.matchGuid /\ s.lastPlayers = r.lastPlayers
  /\ s.matchID = id /\ s.own = own

LEMMA RecordOpened ==
  ASSUME NEW r, RecInv(r), r.matchGuid \in Guids, NEW id \in 0..MaxRowid,
         NEW own \in BOOLEAN, own => id # 0, NEW b \in BOOLEAN,
         NEW s, s = [r EXCEPT !.matchID = id, !.own = own, !.playlist = b]
  PROVE  HoldsMatch(r, s, id, own)
<1>1. /\ s.matchID = id /\ s.own = own /\ s.playlist = b /\ s.matchGuid = r.matchGuid
      /\ s.lastPlayers = r.lastPlayers /\ s.clockFrom = r.clockFrom
      /\ s = [matchID |-> id, own |-> own, matchGuid |-> r.matchGuid,
              overtime |-> r.overtime, over5 |-> r.over5, clockFrom |-> r.clockFrom,
              replayActive |-> r.replayActive, playlist |-> b,
              lastPlayers |-> r.lastPlayers, lastTeams |-> r.lastTeams]
  BY DEF RecInv, RecType
<1>2. s \in RecType
  BY <1>1 DEF RecInv, RecType
<1> QED BY <1>1, <1>2 DEF RecInv, Snapshots, HoldsMatch

LEMMA MatchOpened ==
  ASSUME NEW r, RecInv(r), NEW d, DbInv(r, d), NEW u \in Opened(r, d), NEW b \in BOOLEAN,
         NEW s, s = [r EXCEPT !.matchID = u.id, !.own = u.own, !.playlist = b]
  PROVE  IsOpened(r, d, s, u)
<1>0. /\ r \in RecType /\ r.matchID \in 0..MaxRowid /\ r.own \in BOOLEAN
      /\ Sound(d) /\ d \in DbType /\ Len(d.rows) <= MaxRowid /\ d.lastRowid \in 0..MaxRowid
  BY DEF RecInv, RecType, DbInv, Sound, DbType
<1>1. CASE r.matchID = 0 /\ r.matchGuid # NoGuid
  <2>0. r.matchGuid \in Guids /\ ~r.own /\ u \in UpsertMatch(d, r.matchGuid)
    BY <1>0, <1>1 DEF RecInv, RecType, AnyGuid, Opened
  <2>1. \/ /\ u = InsertMatch(d, r.matchGuid) /\ Len(d.rows) < MaxRowid
           /\ RowsOf(d, r.matchGuid) = {}
        \/ u.db = d /\ u.own = FALSE /\ u.id \in 0..MaxRowid
    <3> DEFINE result(id) == [db |-> d, id |-> id, own |-> FALSE]
               other == CHOOSE m \in RowsOf(d, r.matchGuid) : TRUE
    <3>1. CASE RowsOf(d, r.matchGuid) = {}
      <4>1. u \in UpsertAlwaysInserts(d, r.matchGuid) \/ u = result(0)
        BY <2>0, <3>1 DEF UpsertMatch
      <4> QED BY <3>1, <4>1, StoreAssumption DEF UpsertAlwaysInserts
    <3>2. CASE RowsOf(d, r.matchGuid) # {}
      <4>1. u = result(d.lastRowid) \/ u = result(other) \/ u = result(0)
        BY <2>0, <3>2 DEF UpsertMatch
      <4>2. other \in RowsOf(d, r.matchGuid)
        BY <3>2
      <4>3. other \in 0..MaxRowid
        BY <1>0, <4>2, RowIds DEF RowsOf, Rowids
      <4> HIDE DEF other
      <4> QED BY <1>0, <4>1, <4>3, StoreAssumption
    <3> QED BY <3>1, <3>2
  <2>2. CASE /\ u = InsertMatch(d, r.matchGuid) /\ Len(d.rows) < MaxRowid
             /\ RowsOf(d, r.matchGuid) = {}
    <3>1. Len(d.rows) \in Nat
      BY <1>0, RowIds
    <3>2. u.id = Len(d.rows) + 1 /\ u.own = TRUE /\ u.db = InsertMatch(d, r.matchGuid).db
      BY <2>2 DEF InsertMatch
    <3>3. u.id \in 0..MaxRowid /\ u.id # 0
      BY <2>2, <3>1, <3>2, StoreAssumption
    <3>4. /\ RecInv(s) /\ s.matchGuid = r.matchGuid /\ s.lastPlayers = r.lastPlayers
          /\ s.matchID = u.id /\ s.own = u.own
      <4>1. u.own \in BOOLEAN /\ (u.own => u.id # 0)
        BY <3>2, <3>3
      <4>2. HoldsMatch(r, s, u.id, u.own)
        BY <2>0, <3>3, <4>1, RecordOpened
      <4> QED BY <4>2 DEF HoldsMatch
    <3> DEFINE e == u.db
    <3>5. /\ Sound(e) /\ e.orphans = d.orphans /\ e.foreign = d.foreign
          /\ DOMAIN e.rows = DOMAIN d.rows \cup {u.id}
          /\ e.rows[u.id] = NewRow(r.matchGuid)
          /\ \A m \in DOMAIN d.rows : e.rows[m] = d.rows[m]
      BY <1>0, <2>0, <2>2, <3>2, InsertedRow
    <3> HIDE DEF e
    <3>6. DbInv(s, e)
      BY <2>0, <3>2, <3>4, <3>5 DEF DbInv, OpenRows
    <3>7. Cur(r) = 0 /\ Cur(s) = u.id
      BY <2>0, <3>2, <3>4 DEF Cur
    <3>8. Begins(r, d, s, e)
      BY <2>0, <2>2, <3>2, <3>5, <3>7 DEF Begins, Inserts
    <3> QED BY <3>4, <3>6, <3>8 DEF IsOpened, e
  <2>3. CASE u.db = d /\ u.own = FALSE /\ u.id \in 0..MaxRowid
    <3>1. /\ RecInv(s) /\ s.matchGuid = r.matchGuid /\ s.lastPlayers = r.lastPlayers
          /\ s.matchID = u.id /\ s.own = u.own
      <4>1. u.own \in BOOLEAN /\ (u.own => u.id # 0)
        BY <2>3
      <4>2. HoldsMatch(r, s, u.id, u.own)
        BY <2>0, <2>3, <4>1, RecordOpened
      <4> QED BY <4>2 DEF HoldsMatch
    <3>2. Begins(r, d, s, d)
      BY <2>0, <2>3, <3>1 DEF Begins, Cur
    <3>3. DbInv(s, d)
      BY <2>0, <2>3, <3>1 DEF DbInv, OpenRows
    <3> QED BY <2>3, <3>1, <3>2, <3>3 DEF IsOpened
  <2> QED BY <2>1, <2>2, <2>3
<1>2. CASE ~(r.matchID = 0 /\ r.matchGuid # NoGuid)
  <2>1. u.db = d /\ u.id = r.matchID /\ u.own = r.own
    BY <1>2 DEF Opened
  <2>2. /\ s.matchID = r.matchID /\ s.own = r.own /\ s.playlist = b
        /\ s.matchGuid = r.matchGuid
        /\ s.lastPlayers = r.lastPlayers /\ s.clockFrom = r.clockFrom
        /\ s = [matchID |-> r.matchID, own |-> r.own, matchGuid |-> r.matchGuid,
                overtime |-> r.overtime, over5 |-> r.over5, clockFrom |-> r.clockFrom,
                replayActive |-> r.replayActive, playlist |-> b,
                lastPlayers |-> r.lastPlayers, lastTeams |-> r.lastTeams]
    BY <1>0, <2>1 DEF RecType
  <2>3. s \in RecType
    BY <1>0, <2>2 DEF RecType
  <2>4. RecInv(s)
    BY <2>2, <2>3 DEF RecInv, Snapshots
  <2>5. Begins(r, d, s, d)
    BY <2>2 DEF Begins, Cur
  <2>6. DbInv(s, d)
    BY <2>2 DEF DbInv, OpenRows
  <2> QED BY <2>1, <2>2, <2>4, <2>5, <2>6 DEF IsOpened
<1> QED BY <1>1, <1>2

-----------------------------------------------------------------------------
(* The handlers                                                            *)

\* What every step of the recorder establishes.
Advances(r, d, s, e) ==
  /\ RecInv(s) /\ DbInv(s, e)
  /\ Stays(r, d, s, e) \/ Opens(r, d, s, e)

\* Rows and orphans are as they were.
Same(d, e) ==
  /\ DOMAIN e.rows = DOMAIN d.rows /\ \A m \in DOMAIN d.rows : e.rows[m] = d.rows[m]
  /\ e.orphans = d.orphans /\ d.foreign \subseteq e.foreign

LEMMA SameStays ==
  ASSUME NEW r, NEW d, NEW s, NEW e, Same(d, e), Cur(s) = Cur(r)
  PROVE  Stays(r, d, s, e)
BY DEF Same, Stays, Leaves, Evolves

\* A match is left, another is opened, and a statement touches no row.
LEMMA OneTurn ==
  ASSUME NEW r, NEW d, NEW t, NEW e, NEW s, NEW f, NEW h, DbInv(r, d), DbInv(t, e),
         Stays(r, d, t, e), Begins(t, e, s, f), Same(f, h)
  PROVE  Stays(r, d, s, h) \/ Opens(r, d, s, h)
<1>1. /\ Leaves(r, t) \subseteq DOMAIN d.rows /\ DOMAIN e.rows = DOMAIN d.rows
      /\ Cur(t) \in {0, Cur(r)} /\ Cur(r) # 0 => Cur(r) \in DOMAIN d.rows
  BY DEF Leaves, Cur, DbInv, Stays
<1>2. \A m \in DOMAIN e.rows : m \in DOMAIN h.rows /\ h.rows[m] = e.rows[m]
  BY DEF Begins, Same, Inserts
<1>3. h.orphans = e.orphans /\ e.foreign \subseteq h.foreign
  BY DEF Begins, Same
<1>4. Evolves(d, h, Leaves(r, t))
  BY <1>1, <1>2, <1>3 DEF Stays, Evolves
<1>5. h.orphans = d.orphans \cup {m \in Leaves(r, t) : h.rows[m].outcome = <<>>}
  BY <1>1, <1>2, <1>3 DEF Stays
<1>6. CASE Cur(s) = Cur(t) /\ f = e
  <2>1. Leaves(r, s) = Leaves(r, t)
    BY <1>6 DEF Leaves
  <2> QED BY <1>1, <1>4, <1>5, <1>6, <2>1 DEF Stays, Same
<1>7. CASE Cur(t) = 0 /\ Inserts(e, f, Cur(s))
  <2>1. /\ Len(d.rows) \in Nat /\ DOMAIN d.rows = 1..Len(d.rows)
        /\ Len(e.rows) \in Nat /\ DOMAIN e.rows = 1..Len(e.rows)
    BY RowIds DEF DbInv, Sound
  <2>2. Len(e.rows) = Len(d.rows)
    BY <1>1, <2>1
  <2>3. Cur(s) = Len(d.rows) + 1 /\ Cur(s) \notin DOMAIN d.rows /\ Cur(s) # 0
    BY <1>7, <2>1, <2>2 DEF Inserts
  <2>4. Leaves(r, s) = Leaves(r, t)
    BY <1>1, <1>7, <2>3 DEF Leaves
  <2>5. PICK g \in Guids : RowsOf(e, g) = {} /\ f.rows[Cur(s)] = NewRow(g)
    BY <1>7 DEF Inserts
  <2>6. RowsOf(d, g) = {}
    BY <1>1, <2>5 DEF Stays, Evolves, RowsOf
  <2>7. DOMAIN f.rows = DOMAIN d.rows \cup {Len(d.rows) + 1}
    BY <1>1, <1>7, <2>2 DEF Inserts
  <2>8. Inserts(d, h, Cur(s))
    BY <2>3, <2>5, <2>6, <2>7 DEF Inserts, Same
  <2> QED BY <1>4, <1>5, <2>4, <2>8 DEF Opens
<1> QED BY <1>6, <1>7 DEF Begins

LEMMA PlaylistStored ==
  ASSUME NEW s, RecInv(s), s.matchID # 0, NEW d, DbInv(s, d),
         NEW from \in {NoGuid, s.matchGuid}, NEW e,
         e = UpdateMatchPlaylist(d, s.matchID, s.own, from)
  PROVE  DbInv(s, e) /\ Same(d, e)
<1>0. /\ s \in RecType /\ Sound(d) /\ d \in DbType /\ Len(d.rows) <= MaxRowid
      /\ \A m \in DOMAIN d.rows : d.rows[m] \in RowType
  BY RowIds DEF RecInv, DbInv, Sound
<1>1. CASE s.matchID \in DOMAIN d.rows
  <2> DEFINE row == d.rows[s.matchID]
  <2>1. e = UpdateRow(d, s.matchID, s.own, {from}, row)
    BY <1>1 DEF UpdateMatchPlaylist
  <2>2. row \in RowType /\ Fits(s, {from})
    BY <1>0, <1>1, StoreAssumption DEF Fits
  <2>3. s.own => row = NewRow(s.matchGuid)
    BY DEF DbInv
  <2>4. s.own => /\ row.guid = s.matchGuid /\ row.outcome = <<>>
                 /\ DOMAIN row.outcome = {}
    BY <2>3 DEF NewRow
  <2>5. s.own => \A i \in DOMAIN row.outcome, j \in DOMAIN row.scores :
                   Leads(row.outcome[i], row.scores[j])
    BY <2>4
  <2>6. IsUpdated(e, d, s, row)
    BY <1>0, <1>1, <2>1, <2>2, <2>4, <2>5, SoundUpdate
  <2>7. \A m \in DOMAIN d.rows : e.rows[m] = d.rows[m]
    BY <2>6 DEF IsUpdated
  <2> HIDE DEF row
  <2> QED BY <2>6, <2>7 DEF IsUpdated, DbInv, OpenRows, Same
<1>2. CASE s.matchID \notin DOMAIN d.rows
  BY <1>2 DEF UpdateMatchPlaylist, Same
<1> QED BY <1>1, <1>2

LEMMA StateApplied ==
  ASSUME RecInv(rec), DbInv(rec, db), NEW p \in PacketType, OnStateUpdated(p)
  PROVE  /\ Advances(rec, db, rec', db')
         /\ rec'.lastPlayers = NextPlayers(SwitchRec(rec, p.guid), p)
         /\ rec'.matchGuid = rec.matchGuid => SwitchRec(rec, p.guid) = rec
<1> DEFINE t == SwitchRec(rec, p.guid)
           r == Seen(t, p)
<1>0. p.guid \in AnyGuid /\ p.playlist \in BOOLEAN
  BY DEF PacketType
<1>1. PICK d \in SwitchDb(rec, db, p.guid) :
        \E u \in Opened(r, d) :
          LET first == u.id # 0 /\ p.playlist /\ ~r.playlist IN
            /\ rec' = [r EXCEPT !.matchID = u.id, !.own = u.own, !.playlist = @ \/ first]
            /\ db' = IF first THEN UpdateMatchPlaylist(u.db, u.id, u.own, p.guid) ELSE u.db
  BY DEF OnStateUpdated, ApplyState
<1>2. PICK u \in Opened(r, d) :
        LET first == u.id # 0 /\ p.playlist /\ ~r.playlist IN
          /\ rec' = [r EXCEPT !.matchID = u.id, !.own = u.own, !.playlist = @ \/ first]
          /\ db' = IF first THEN UpdateMatchPlaylist(u.db, u.id, u.own, p.guid) ELSE u.db
  BY <1>1
<1>3. /\ RecInv(t) /\ DbInv(t, d) /\ Stays(rec, db, t, d) /\ p.guid \in {NoGuid, t.matchGuid}
      /\ t.matchGuid = rec.matchGuid => t = rec
  BY <1>0, Switched
<1> HIDE DEF t
<1>4. /\ RecInv(r) /\ r.matchID = t.matchID /\ r.own = t.own /\ r.matchGuid = t.matchGuid
      /\ r.lastPlayers = NextPlayers(t, p)
  BY <1>3, SeenInv
<1>5. DbInv(r, d)
  BY <1>3, <1>4 DEF DbInv, OpenRows
<1>51. Stays(rec, db, r, d)
  BY <1>3, <1>4 DEF Stays, Leaves, Cur
<1> HIDE DEF r
<1> DEFINE first == u.id # 0 /\ p.playlist /\ ~r.playlist
           b == r.playlist \/ first
<1>6. r \in RecType
  BY <1>4 DEF RecInv
<1>7. b \in BOOLEAN
  BY <1>0, <1>6 DEF RecType
<1>8. rec' = [r EXCEPT !.matchID = u.id, !.own = u.own, !.playlist = b]
  BY <1>2, <1>6 DEF RecType
<1>9. db' = IF first THEN UpdateMatchPlaylist(u.db, u.id, u.own, p.guid) ELSE u.db
  BY <1>2
<1> HIDE DEF b
<1>10. IsOpened(r, d, rec', u)
  BY <1>4, <1>5, <1>7, <1>8, MatchOpened
<1>11. DbInv(rec', db') /\ Same(u.db, db')
  <2>1. RecInv(rec') /\ DbInv(rec', u.db) /\ p.guid \in {NoGuid, rec'.matchGuid}
    BY <1>3, <1>4, <1>10 DEF IsOpened
  <2>2. CASE first
    <3>1. db' = UpdateMatchPlaylist(u.db, rec'.matchID, rec'.own, p.guid) /\ rec'.matchID # 0
      BY <1>9, <1>10, <2>2 DEF IsOpened
    <3> QED BY <2>1, <3>1, PlaylistStored
  <2>3. CASE ~first
    BY <1>9, <2>1, <2>3 DEF Same
  <2> QED BY <2>2, <2>3
<1>12. Stays(rec, db, rec', db') \/ Opens(rec, db, rec', db')
  BY <1>5, <1>51, <1>10, <1>11, OneTurn DEF IsOpened
<1> QED BY <1>3, <1>4, <1>10, <1>11, <1>12 DEF IsOpened, Advances, t

LEMMA ActiveGuid ==
  ASSUME RecInv(rec), rec.matchID # 0, NEW g \in AnyGuid, IsActiveMatch(rec, g)
  PROVE  g \in {NoGuid, rec.matchGuid} /\ rec.matchGuid \in Guids
BY StoreAssumption DEF RecInv, IsActiveMatch

\* An event stored under the open match.
LEMMA EventStored ==
  ASSUME RecInv(rec), DbInv(rec, db), rec.matchID # 0, NEW gs,
         gs \subseteq {NoGuid, rec.matchGuid},
         NEW e \in InsertUnder(db, rec.matchID, rec.own, gs)
  PROVE  Advances(rec, db, rec, e)
<1>1. rec \in RecType /\ Sound(db) /\ Fits(rec, gs)
  BY StoreAssumption DEF RecInv, DbInv, Fits
<1>2. rec.own => rec.matchID \in DOMAIN db.rows /\ db.rows[rec.matchID].guid = rec.matchGuid
  BY DEF DbInv, NewRow
<1>3. Sound(e) /\ Evolves(db, e, {}) /\ e.rows = db.rows /\ e.orphans = db.orphans
  BY <1>1, <1>2, SoundInsert
<1>4. Stays(rec, db, rec, e)
  BY <1>3, SameStays DEF Evolves, Same
<1> QED BY <1>3, <1>4 DEF Advances, DbInv, OpenRows

HoldsClock(r, s, g) ==
  /\ s \in RecType /\ s.matchID = r.matchID /\ s.own = r.own /\ s.matchGuid = r.matchGuid
  /\ s.clockFrom = {g} /\ s.lastPlayers = r.lastPlayers

LEMMA ClockHeld ==
  ASSUME NEW r \in RecType, NEW g \in AnyGuid,
         NEW c \in [overtime : BOOLEAN, over5 : BOOLEAN], NEW s,
         s = [r EXCEPT !.overtime = c.overtime, !.over5 = c.over5, !.clockFrom = {g}]
  PROVE  HoldsClock(r, s, g)
<1>1. /\ s = [matchID |-> s.matchID, own |-> s.own, matchGuid |-> s.matchGuid,
              overtime |-> s.overtime, over5 |-> s.over5, clockFrom |-> s.clockFrom,
              replayActive |-> s.replayActive, playlist |-> s.playlist,
              lastPlayers |-> s.lastPlayers, lastTeams |-> s.lastTeams]
      /\ s.overtime = c.overtime /\ s.over5 = c.over5 /\ s.clockFrom = {g}
      /\ s.matchID = r.matchID /\ s.own = r.own /\ s.matchGuid = r.matchGuid
      /\ s.replayActive = r.replayActive /\ s.playlist = r.playlist
      /\ s.lastPlayers = r.lastPlayers /\ s.lastTeams = r.lastTeams
  BY DEF RecType
<1>2. s \in RecType
  BY <1>1 DEF RecType
<1> QED BY <1>1, <1>2 DEF HoldsClock

LEMMA ClockShown ==
  ASSUME RecInv(rec), DbInv(rec, db), NEW g \in AnyGuid,
         NEW c \in [overtime : BOOLEAN, over5 : BOOLEAN], OnClockUpdated(g, c)
  PROVE  Advances(rec, db, rec', db') /\ rec'.lastPlayers = rec.lastPlayers
<1>1. g \in {NoGuid, rec.matchGuid} /\ rec.matchGuid \in Guids /\ db' = db
  BY ActiveGuid DEF OnClockUpdated
<1> DEFINE s == [rec EXCEPT !.overtime = c.overtime, !.over5 = c.over5, !.clockFrom = {g}]
<1>2. s = rec'
  BY DEF OnClockUpdated
<1>3. HoldsClock(rec, s, g)
  BY ClockHeld DEF RecInv
<1> HIDE DEF s
<1>4. /\ s \in RecType /\ s.matchID = rec.matchID /\ s.own = rec.own
      /\ s.matchGuid = rec.matchGuid /\ s.clockFrom = {g} /\ s.lastPlayers = rec.lastPlayers
  BY <1>3 DEF HoldsClock
<1>5. RecInv(s)
  BY <1>1, <1>4 DEF RecInv, Snapshots
<1>6. DbInv(s, db) /\ Stays(rec, db, s, db)
  BY <1>4, SameStays DEF DbInv, OpenRows, Same, Cur
<1> QED BY <1>1, <1>2, <1>4, <1>5, <1>6 DEF Advances

LEMMA MatchOver ==
  ASSUME RecInv(rec), DbInv(rec, db), NEW g \in AnyGuid, NEW winner \in Winners,
         OnMatchEnded(g, winner)
  PROVE  Advances(rec, db, rec', db')
<1> DEFINE f == LikelyForfeit(rec, winner)
           o == Outcome(rec, winner, FALSE, f)
<1>1. /\ rec.matchID # 0 /\ g \in {NoGuid, rec.matchGuid} /\ rec' = Idle
      /\ db' \in Flush(rec, db, o, g)
  BY ActiveGuid DEF OnMatchEnded
<1>2. rec.overtime \in BOOLEAN
  BY DEF RecInv, RecType
<1>3. f \in BOOLEAN
  BY DEF LikelyForfeit
<1>4. o \in OutcomeType
  BY <1>2, <1>3 DEF Outcome, OutcomeType
<1>5. ASSUME DOMAIN rec.lastTeams = TeamNums
      PROVE  Leads(o, rec.lastTeams)
  <2>1. /\ o.forfeit = f /\ o.overtime = rec.overtime /\ o.incomplete = FALSE
        /\ o.winner = winner
    BY DEF Outcome
  <2>2. SUFFICES ASSUME f
                 PROVE  /\ ~rec.overtime /\ winner \in TeamNums
                        /\ rec.lastTeams[winner] > rec.lastTeams[1 - winner]
    BY <2>1 DEF Leads
  <2>3. ~rec.overtime /\ winner \in TeamNums
    BY <1>5, <2>2 DEF LikelyForfeit, LikelyForfeitNoLead
  <2>4. 1 - winner \in DOMAIN rec.lastTeams \ {winner}
    BY <1>5, <2>3 DEF TeamNums
  <2> QED BY <2>2, <2>3, <2>4 DEF LikelyForfeit
<1> HIDE DEF f, o
<1>6. DbInv(Idle, db') /\ Stays(rec, db, Idle, db')
  BY <1>1, <1>4, <1>5, Flushed
<1> QED BY <1>1, <1>6, IdleInv DEF Advances

LEMMA MatchGone ==
  ASSUME RecInv(rec), DbInv(rec, db), OnMatchDestroyed
  PROVE  Advances(rec, db, rec', db')
<1>1. CASE rec.matchID # 0
  <2>1. db' \in Abandon(rec, db) /\ rec' = Idle
    BY <1>1 DEF OnMatchDestroyed
  <2> QED BY <1>1, <2>1, Abandoned, IdleInv DEF Advances
<1>2. CASE rec.matchID = 0
  <2>1. db' = db /\ rec' = Idle /\ ~rec.own
    BY <1>2 DEF OnMatchDestroyed, RecInv
  <2>2. DbInv(Idle, db)
    BY <2>1, IdleInv DEF DbInv, OpenRows
  <2>3. Stays(rec, db, Idle, db)
    BY <2>1, IdleInv, SameStays DEF Same, Cur
  <2> QED BY <2>1, <2>2, <2>3, IdleInv DEF Advances
<1> QED BY <1>1, <1>2

LEMMA InsertedElsewhere ==
  ASSUME RecInv(rec), DbInv(rec, db), OtherInsert
  PROVE  Advances(rec, db, rec', db')
<1>1. rec' = rec /\ db' \in Inserted(db) /\ db \in DbType
  BY DEF OtherInsert, DbInv, Sound
<1>2. /\ db' \in DbType /\ db'.rows = db.rows /\ db'.orphans = db.orphans
      /\ db'.foreign = db.foreign /\ db'.holds = db.holds
  BY <1>1, InsertedFields
<1>3. Stays(rec, db, rec, db')
  BY <1>2, SameStays DEF Same
<1> QED BY <1>1, <1>2, <1>3
        DEF Advances, DbInv, Sound, OwnData, Forfeits, OpenRows

LEMMA Restarted ==
  ASSUME RecInv(rec), DbInv(rec, db), Restart
  PROVE  Advances(rec, db, rec', db')
<1>0. db \in DbType /\ rec.matchID \in 0..MaxRowid /\ rec.own \in BOOLEAN
      /\ (rec.own => rec.matchID # 0)
  BY DEF RecInv, RecType, DbInv, Sound
<1>1. /\ db' = [rows |-> db.rows, lastRowid |-> 0, holds |-> db.holds,
                foreign |-> db.foreign, orphans |-> db'.orphans]
      /\ db'.orphans = IF rec.own THEN db.orphans \cup {rec.matchID} ELSE db.orphans
      /\ rec' = Idle
  BY <1>0 DEF Restart, DbType
<1>2. db'.orphans \in SUBSET Rowids /\ 0 \in 0..MaxRowid
  BY <1>0, <1>1, StoreAssumption DEF DbType, Rowids
<1>3. /\ db'.rows = db.rows /\ db'.holds = db.holds /\ db'.foreign = db.foreign
  BY <1>1
<1>4. db' \in DbType
  BY <1>0, <1>1, <1>2 DEF DbType
<1>5. Sound(db') /\ Stays(rec, db, Idle, db')
  <2>1. Sound(db')
    BY <1>3, <1>4 DEF DbInv, Sound, OwnData, Forfeits
  <2>2. Leaves(rec, Idle) = (IF rec.own THEN {rec.matchID} ELSE {}) /\ Cur(Idle) = 0
    BY <1>0 DEF Leaves, Cur, Idle
  <2>3. rec.own => db'.rows[rec.matchID].outcome = <<>>
    BY <1>3 DEF DbInv, NewRow
  <2>4. Stays(rec, db, Idle, db')
    BY <1>1, <1>3, <2>2, <2>3 DEF Stays, Evolves
  <2> QED BY <2>1, <2>4
<1>6. OpenRows(Idle, db')
  BY <1>1, <1>3 DEF DbInv, OpenRows
<1> QED BY <1>1, <1>5, <1>6, IdleInv DEF Advances, DbInv

-----------------------------------------------------------------------------
(* The specification                                                       *)

Inv == RecInv(rec) /\ DbInv(rec, db)

\* A roster that is neither replaced by an update nor given up with its match
\* is the same one.
RosterStep ==
  \/ rec'.lastPlayers = rec.lastPlayers
  \/ rec'.lastPlayers = <<>>
  \/ rec'.matchGuid # rec.matchGuid
  \/ \E p \in PacketType : rec'.lastPlayers = NextPlayers(rec, p)

LEMMA InitInv == Init => Inv
<1> SUFFICES ASSUME Init PROVE Inv
  OBVIOUS
<1>1. /\ db.rows = <<>> /\ db.lastRowid = 0 /\ db.holds = [i \in Rowids |-> {}]
      /\ db.foreign = {} /\ db.orphans = {} /\ rec = Idle
      /\ db = [rows |-> db.rows, lastRowid |-> db.lastRowid, holds |-> db.holds,
               foreign |-> db.foreign, orphans |-> db.orphans]
  BY DEF Init, EmptyStore
<1>2. db.rows \in Seq(RowType) /\ Len(db.rows) = 0 /\ DOMAIN db.rows = {}
  BY <1>1
<1>3. db.lastRowid \in 0..MaxRowid /\ 0 <= MaxRowid
  BY <1>1, StoreAssumption
<1>4. db.holds \in [Rowids -> SUBSET Guids]
  BY <1>1
<1>5. db \in DbType
  BY <1>1, <1>2, <1>3, <1>4 DEF DbType
<1> QED BY <1>1, <1>2, <1>3, <1>5, IdleInv
        DEF Inv, DbInv, Sound, OwnData, Forfeits, OpenRows

LEMMA EveryStep ==
  ASSUME Inv, [Next]_vars
  PROVE  Advances(rec, db, rec', db') /\ RosterStep
<1> USE DEF Inv
<1>1. ASSUME NEW p \in Packets, OnStateUpdated(p)
      PROVE  Advances(rec, db, rec', db') /\ RosterStep
  <2>1. p \in PacketType
    BY RecorderAssumption
  <2> QED BY <1>1, <2>1, StateApplied DEF RosterStep
<1>2. ASSUME NEW g \in Guids, OnMatchStarted(g)
      PROVE  Advances(rec, db, rec', db') /\ RosterStep
  <2>1. db' \in SwitchDb(rec, db, g) /\ rec' = SwitchRec(rec, g) /\ g \in AnyGuid
    BY <1>2 DEF OnMatchStarted, AnyGuid
  <2>2. /\ Advances(rec, db, rec', db')
        /\ rec'.matchGuid = rec.matchGuid => rec' = rec
    BY <2>1, Switched DEF Advances
  <2> QED BY <2>2 DEF RosterStep
<1>3. ASSUME NEW g \in AnyGuid, OnGoalScored(g) \/ OnStatFeed(g)
      PROVE  Advances(rec, db, rec', db') /\ RosterStep
  <2> DEFINE gs == {g} \cup rec.clockFrom
  <2>1. /\ rec.matchID # 0 /\ IsActiveMatch(rec, g) /\ rec' = rec
        /\ db' \in InsertUnder(db, rec.matchID, rec.own, gs)
    BY <1>3 DEF OnGoalScored, OnStatFeed, OnStatFeedAnyMatch, RecordEvent
  <2>2. gs \subseteq {NoGuid, rec.matchGuid}
    BY <2>1, ActiveGuid DEF RecInv
  <2> HIDE DEF gs
  <2>3. Advances(rec, db, rec, db')
    BY <2>1, <2>2, EventStored
  <2> QED BY <2>1, <2>3 DEF RosterStep
<1>4. ASSUME NEW g \in AnyGuid, OnBallHit(g)
      PROVE  Advances(rec, db, rec', db') /\ RosterStep
  <2>1. /\ rec.matchID # 0 /\ IsActiveMatch(rec, g) /\ rec' = rec
        /\ db' \in InsertUnder(db, rec.matchID, rec.own, {g})
    BY <1>4 DEF OnBallHit
  <2>2. {g} \subseteq {NoGuid, rec.matchGuid}
    BY <2>1, ActiveGuid
  <2>3. Advances(rec, db, rec, db')
    BY <2>1, <2>2, EventStored
  <2> QED BY <2>1, <2>3 DEF RosterStep
<1>5. ASSUME NEW g \in AnyGuid, NEW c \in Clocks, OnClockUpdated(g, c)
      PROVE  Advances(rec, db, rec', db') /\ RosterStep
  <2>1. c \in [overtime : BOOLEAN, over5 : BOOLEAN]
    BY RecorderAssumption
  <2> QED BY <1>5, <2>1, ClockShown DEF RosterStep
<1>6. ASSUME NEW g \in AnyGuid, NEW winner \in EndWinners, OnMatchEnded(g, winner)
      PROVE  Advances(rec, db, rec', db') /\ RosterStep
  <2>1. winner \in Winners
    BY RecorderAssumption
  <2>2. rec'.lastPlayers = <<>>
    BY <1>6 DEF OnMatchEnded, Idle
  <2> QED BY <1>6, <2>1, <2>2, MatchOver DEF RosterStep
<1>7. CASE OnMatchDestroyed
  BY <1>7, MatchGone DEF RosterStep, OnMatchDestroyed, Idle
<1>8. CASE OtherInsert
  BY <1>8, InsertedElsewhere DEF RosterStep, OtherInsert
<1>9. CASE Restart
  BY <1>9, Restarted DEF RosterStep, Restart, Idle
<1>10. CASE UNCHANGED vars
  <2>1. Stays(rec, db, rec', db')
    BY <1>10, SameStays DEF vars, Same
  <2> QED BY <1>10, <2>1 DEF vars, Advances, RosterStep, DbInv, OpenRows
<1> QED BY <1>1, <1>2, <1>3, <1>4, <1>5, <1>6, <1>7, <1>8, <1>9, <1>10
        DEF Next, Others, AnyGuid

LEMMA AlwaysInv == Spec => []Inv
<1>1. Inv /\ [Next]_vars => Inv'
  BY EveryStep DEF Advances, Inv
<1> QED BY InitInv, <1>1, PTL DEF Spec

\* The recorder and its database are of their types, and a match that is open
\* has a GUID.
THEOREM RecorderTypes == Spec => []TypeOK
<1>1. Inv => TypeOK
  BY DEF Inv, RecInv, DbInv, Sound, TypeOK
<1> QED BY AlwaysInv, <1>1, PTL

\* Whatever events are late, lost or repeated and whatever statements fail,
\* nothing of another match is stored under an id whose row was inserted for
\* its recorder.
THEOREM OwnDataStored == Spec => []OwnDataOnly
<1>1. Inv => OwnDataOnly
  BY DEF Inv, DbInv, Sound, OwnData, OwnDataOnly
<1> QED BY AlwaysInv, <1>1, PTL

\* Only the match being recorded, and those whose recorder died or failed to
\* write the end, have no outcome.
THEOREM OnlyCurrentOpen == Spec => []OpenIsCurrent
<1>1. Inv => OpenIsCurrent
  BY DEF Inv, DbInv, OpenRows, OpenIsCurrent
<1> QED BY AlwaysInv, <1>1, PTL

\* A stored forfeit is a lead in regular time.
THEOREM ForfeitsLead == Spec => []ForfeitIsALead
<1>1. Inv => ForfeitIsALead
  BY DEF Inv, DbInv, Sound, Forfeits, Leads, ForfeitIsALead
<1> QED BY AlwaysInv, <1>1, PTL

\* No event, restart or store error rewrites a recorded outcome, but under an
\* id that an upsert handed out for another match.
THEOREM OutcomesStay == Spec => OutcomeIsFinal
<1>1. Inv /\ [Next]_vars =>
        [\A m \in DOMAIN db.rows :
           db.rows[m].outcome # <<>> /\ db'.rows[m] # db.rows[m]
             => m \in db'.foreign]_vars
  <2> SUFFICES ASSUME Inv, [Next]_vars
               PROVE  \A m \in DOMAIN db.rows :
                        db.rows[m].outcome # <<>> /\ db'.rows[m] # db.rows[m]
                          => m \in db'.foreign
    OBVIOUS
  <2>1. Evolves(db, db', Leaves(rec, rec'))
    BY EveryStep DEF Advances, Stays, Opens
  <2>2. \A m \in Leaves(rec, rec') : db.rows[m].outcome = <<>>
    BY DEF Leaves, Cur, Inv, DbInv, NewRow
  <2> QED BY <2>1, <2>2 DEF Evolves
<1> QED BY AlwaysInv, <1>1, PTL DEF Spec, OutcomeIsFinal

\* The store is a journal: the recorder opens a row for every match once, fills
\* it when it leaves the match, and never comes back to it.
THEOREM StoreIsAJournal == Spec => JournalSpec
<1>1. Init => Rows!Init
  BY IdleInv DEF Init, EmptyStore, Rows!Init
<1>2. ASSUME Inv, Inv', [Next]_vars PROVE Rows!Next
  <2>1. /\ db.rows \in Seq(RowType) /\ db'.rows \in Seq(RowType)
    BY <1>2 DEF Inv, DbInv, Sound, DbType
  <2>2. /\ Len(db.rows) \in Nat /\ DOMAIN db.rows = 1..Len(db.rows)
        /\ Len(db'.rows) \in Nat /\ DOMAIN db'.rows = 1..Len(db'.rows)
    BY <2>1, LenProperties
  <2>3. Stays(rec, db, rec', db') \/ Opens(rec, db, rec', db')
    BY <1>2, EveryStep DEF Advances
  <2>4. Rows!Left = Leaves(rec, rec')
    BY DEF Rows!Left, Leaves, Cur
  <2>5. /\ Evolves(db, db', Leaves(rec, rec'))
        /\ db'.orphans = db.orphans \cup {m \in Leaves(rec, rec') : db'.rows[m].outcome = <<>>}
    BY <2>3 DEF Stays, Opens
  <2>6. \A i \in DOMAIN db.rows : Rows!Keep(i)
    BY <2>4, <2>5 DEF Rows!Keep, Evolves
  <2>7. CASE Stays(rec, db, rec', db')
    <3>1. Len(db'.rows) = Len(db.rows)
      BY <2>2, <2>7 DEF Stays
    <3>2. Rows!Stay
      BY <2>7, <3>1 DEF Rows!Stay, Stays, Cur
    <3> QED BY <2>4, <2>5, <2>6, <3>2 DEF Rows!Next, Evolves
  <2>8. CASE Opens(rec, db, rec', db')
    <3>1. PICK g \in Guids : RowsOf(db, g) = {} /\ db'.rows[Cur(rec')] = NewRow(g)
      BY <2>8 DEF Opens, Inserts
    <3>2. /\ DOMAIN db'.rows = DOMAIN db.rows \cup {Len(db.rows) + 1}
          /\ Cur(rec') = Len(db.rows) + 1
      BY <2>8 DEF Opens, Inserts
    <3>3. Len(db'.rows) = Len(db.rows) + 1
      <4> DEFINE n == Len(db.rows)
                 k == Len(db'.rows)
      <4>1. n \in Nat /\ k \in Nat /\ 1..k = 1..n \cup {n + 1}
        BY <2>2, <3>2
      <4> HIDE DEF n, k
      <4>2. n + 1 \in 1..k /\ k + 1 \notin 1..n \cup {n + 1}
        BY <4>1
      <4>3. k = n + 1
        BY <4>1, <4>2
      <4> QED BY <4>3 DEF n, k
    <3>4. \A i \in DOMAIN db.rows : db.rows[i].guid # g
      BY <3>1 DEF RowsOf
    <3>5. Rows!Open(g)
      BY <3>1, <3>2, <3>3, <3>4 DEF Rows!Open, Rows!Blank, NewRow, Cur
    <3> QED BY <2>4, <2>5, <2>6, <3>5 DEF Rows!Next, Evolves
  <2> QED BY <2>3, <2>7, <2>8
<1>3. Inv /\ Inv' /\ [Next]_vars => [Rows!Next]_(Rows!vars)
  BY <1>2
<1> QED BY AlwaysInv, <1>1, <1>3, PTL DEF Spec, JournalSpec, Rows!Spec

\* No replay packet replaces the live touch counts held for a player.
THEOREM LiveTouches == Spec => LiveTouchesKept
<1>1. ASSUME Inv, [Next]_vars
      PROVE  \A q \in DOMAIN rec.lastPlayers \cap DOMAIN rec'.lastPlayers :
               /\ rec.lastPlayers[q].live
               /\ rec'.matchGuid = rec.matchGuid
               => rec'.lastPlayers[q].live
  <2>1. RosterStep
    BY <1>1, EveryStep
  <2>2. CASE rec'.lastPlayers = rec.lastPlayers
    BY <2>2
  <2>3. CASE rec'.lastPlayers = <<>>
    BY <2>3
  <2>4. CASE rec'.matchGuid # rec.matchGuid
    BY <2>4
  <2>5. ASSUME NEW p \in PacketType, rec'.lastPlayers = NextPlayers(rec, p)
        PROVE  \A q \in DOMAIN rec.lastPlayers \cap DOMAIN rec'.lastPlayers :
                 rec.lastPlayers[q].live => rec'.lastPlayers[q].live
    <3>1. HeldAfter(NextPlayers(rec, p), rec.lastPlayers, p)
      BY <1>1, RosterKept DEF Inv, RecInv
    <3> QED BY <2>5, <3>1 DEF HeldAfter
  <2> QED BY <2>1, <2>2, <2>3, <2>4, <2>5 DEF RosterStep
<1>2. Inv /\ [Next]_vars =>
        [\A q \in DOMAIN rec.lastPlayers \cap DOMAIN rec'.lastPlayers :
           /\ rec.lastPlayers[q].live
           /\ rec'.matchGuid = rec.matchGuid
           => rec'.lastPlayers[q].live]_vars
  BY <1>1
<1> QED BY AlwaysInv, <1>2, PTL DEF Spec, LiveTouchesKept

\* No packet of a match in play or of a replay makes the roster smaller.
THEOREM RosterStays == Spec => RosterKeptInPlay
<1>1. ASSUME Inv, rec'.matchGuid = rec.matchGuid,
             Cardinality(DOMAIN rec'.lastPlayers) < Cardinality(DOMAIN rec.lastPlayers),
             NEW p \in Packets, OnStateUpdated(p)
      PROVE  ~p.replay /\ ~ActiveLiveClock(p)
  <2>1. p \in PacketType
    BY RecorderAssumption
  <2>2. rec'.lastPlayers = NextPlayers(rec, p)
    BY <1>1, <2>1, StateApplied DEF Inv
  <2>3. HeldAfter(NextPlayers(rec, p), rec.lastPlayers, p)
    BY <1>1, <2>1, RosterKept DEF Inv, RecInv
  <2> QED BY <1>1, <2>2, <2>3 DEF HeldAfter
<1>2. Inv /\ [Next]_vars =>
        [/\ rec'.matchGuid = rec.matchGuid
         /\ Cardinality(DOMAIN rec'.lastPlayers) < Cardinality(DOMAIN rec.lastPlayers)
         => \A p \in Packets :
              OnStateUpdated(p) => ~p.replay /\ ~ActiveLiveClock(p)]_vars
  BY <1>1
<1> QED BY AlwaysInv, <1>2, PTL DEF Spec, RosterKeptInPlay
=============================================================================
