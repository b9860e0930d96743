---------------------------- MODULE Ballchasing -----------------------------
(***************************************************************************)
(* The Ballchasing plugin (src/plugins/ballchasing/logic.go): replays are  *)
(* uploaded by hand, remembered in bc_uploads, matched to the matches they *)
(* belong to, and deleted here once they are there.                        *)
(*                                                                         *)
(* A replay file has the name that Rocket League gives it, the replay's    *)
(* id, which no other replay gets; here it is the replay itself, and a     *)
(* user's new name for a file is as if its rows were lost (HandleSync).    *)
(* The clock counts ticks, PerSecond of them to a second: files and        *)
(* startupTime have their fractions, while the host hands the plugin the   *)
(* start of a match cut to the second.  The service may refuse an          *)
(* upload, accept it and answer too late or without an id; the database    *)
(* may refuse a row and the operating system the removal of a file.  The   *)
(* matches are those of the recorder, a new one with each tick; which of   *)
(* them the query of handleBCMatches yields depends on how the driver      *)
(* writes times as text, against which it compares: any may be missing.    *)
(*                                                                         *)
(* accepted and removed are history.                                       *)
(***************************************************************************)
EXTENDS Naturals, Sequences, FiniteSets, SequencesExt

CONSTANTS
  Replays,   \* replay files
  PerSecond, \* ticks of the clock
  MaxTime,   \* how long is played
  Window     \* how long after its start a match's replay may be written

BallchasingAssumption == {PerSecond, MaxTime, Window} \subseteq Nat \ {0}

VARIABLES
  time,      \* the clock
  matches,   \* when the matches began
  startup,   \* startupTime
  files,     \* the replay directory: when each replay in it was written
  of,        \* the match that a replay is of
  remote,    \* the replays on the service
  uploads,   \* bc_uploads
  deleteAfterUpload,
  accepted,  \* the replays the service ever had
  removed    \* the replays that the plugin deleted

bcVars == <<time, matches, startup, files, of, remote, uploads, deleteAfterUpload,
            accepted, removed>>

NoFiles == [r \in {} |-> 0]

Init ==
  /\ time = 1 /\ matches = {} /\ startup = 1
  /\ files = NoFiles /\ of = NoFiles
  /\ remote = {} /\ uploads = {} /\ deleteAfterUpload = FALSE
  /\ accepted = {} /\ removed = {}

-----------------------------------------------------------------------------
(* The game, the service, the user                                         *)

Tick ==
  /\ time < MaxTime /\ time' = time + 1
  /\ UNCHANGED <<matches, startup, files, of, remote, uploads, deleteAfterUpload,
                 accepted, removed>>

MatchBegins ==
  /\ time \notin matches /\ matches' = matches \cup {time}
  /\ UNCHANGED <<time, startup, files, of, remote, uploads, deleteAfterUpload,
                 accepted, removed>>

\* The replay of a match, from its last screen or later from the game's list.
SaveReplay(r, m) ==
  /\ r \notin DOMAIN of /\ m < time
  /\ files' = [x \in DOMAIN files \cup {r} |-> IF x = r THEN time ELSE files[x]]
  /\ of' = [x \in DOMAIN of \cup {r} |-> IF x = r THEN m ELSE of[x]]
  /\ UNCHANGED <<time, matches, startup, remote, uploads, deleteAfterUpload,
                 accepted, removed>>

\* The user uploads a replay or deletes one on the service's own page.
ChangeRemote ==
  /\ \/ \E r \in DOMAIN files : remote' = remote \cup {r}
     \/ \E r \in remote : remote' = remote \ {r}
  /\ accepted' = accepted \cup remote'
  /\ UNCHANGED <<time, matches, startup, files, of, uploads, deleteAfterUpload, removed>>

\* The application starts again.
InitPlugin ==
  /\ startup' = time
  /\ UNCHANGED <<time, matches, files, of, remote, uploads, deleteAfterUpload,
                 accepted, removed>>

ApplySettings ==
  /\ deleteAfterUpload' = ~deleteAfterUpload
  /\ UNCHANGED <<time, matches, startup, files, of, remote, uploads, accepted, removed>>

-----------------------------------------------------------------------------
(* The handlers                                                            *)

\* os.Remove of some of rs, as the operating system lets it.
Unlink(rs) ==
  \E gone \in SUBSET (rs \cap DOMAIN files) :
    /\ files' = [r \in DOMAIN files \ gone |-> files[r]]
    /\ removed' = removed \cup gone

\* DBExec's result is not looked at.
Upserted(rs) == uploads' \in {uploads \cup kept : kept \in SUBSET rs}

\* The outcomes of UploadFile: whether the service has the file then, and
\* whether the answer says so (200 or 201, with an id).
UploadOutcomes ==
  {[taken |-> t, told |-> a] : t, a \in BOOLEAN} \ {[taken |-> FALSE, told |-> TRUE]}

DoneOnAnswer(outcome) == TRUE
Done(outcome) == outcome.told

\* handleUpload of a file that is there, with a key.
HandleUpload(r, outcome) ==
  /\ r \in DOMAIN files
  /\ remote' = IF outcome.taken THEN remote \cup {r} ELSE remote
  /\ accepted' = accepted \cup remote'
  /\ IF Done(outcome)
     THEN /\ Upserted({r})
          /\ IF deleteAfterUpload THEN Unlink({r}) ELSE UNCHANGED <<files, removed>>
     ELSE UNCHANGED <<uploads, files, removed>>
  /\ UNCHANGED <<time, matches, startup, of, deleteAfterUpload>>

\* handleSync with the list of the service, of which at most 200 come.  The row
\* is named by the replay's id: that of a file with a name of its own names no
\* file, which is the same as no row.
HandleSync ==
  /\ \E listed \in SUBSET remote : Upserted(listed)
  /\ UNCHANGED <<time, matches, startup, files, of, remote, deleteAfterUpload,
                 accepted, removed>>

HandlePurge ==
  /\ Unlink(uploads)
  /\ UNCHANGED <<time, matches, startup, of, remote, uploads, deleteAfterUpload, accepted>>

Next ==
  \/ Tick \/ MatchBegins \/ ChangeRemote \/ InitPlugin \/ ApplySettings
  \/ \E r \in Replays : (\E m \in matches : SaveReplay(r, m))
                          \/ \E o \in UploadOutcomes : HandleUpload(r, o)
  \/ HandleSync \/ HandlePurge

-----------------------------------------------------------------------------
(* handleBCMatches                                                         *)

SessionFiles == {r \in DOMAIN files : files[r] >= startup}

\* Files of the same moment come in any order.
InOrder(rs) ==
  {s \in SetToSeqs(rs) : \A i, j \in DOMAIN s : i < j => files[s[i]] <= files[s[j]]}

\* host_db_query writes times in RFC3339, without the fraction.
StartedAt(m) == PerSecond * (m \div PerSecond)

Fits(r, m) == StartedAt(m) < files[r] /\ files[r] < StartedAt(m) + Window

Earliest(ms) == {m \in ms : \A n \in ms : m <= n}
Best(ms) == {m \in ms : \A n \in ms : m >= n}

\* matchReplayFiles: each file in turn takes the latest of the matches that it
\* fits and none has taken; of those that began in one second the first row,
\* which is the latest too.  The result maps matches to files.
MatchReplayFiles(s, listed) ==
  FoldLeft(LAMBDA taken, r :
             LET best == Best({m \in listed \ DOMAIN taken : Fits(r, m)}) IN
             [m \in DOMAIN taken \cup best |-> IF m \in best THEN r ELSE taken[m]],
           [m \in {} |-> 0], s)

-----------------------------------------------------------------------------
(* Properties                                                              *)

\* Every replay is of a match that had begun when it was written.
TypeOK ==
  /\ time \in 1..MaxTime /\ startup \in 1..time /\ matches \subseteq 1..time
  /\ DOMAIN files \subseteq DOMAIN of /\ DOMAIN of \subseteq Replays
  /\ files \in [DOMAIN files -> 1..time] /\ of \in [DOMAIN of -> matches]
  /\ \A r \in DOMAIN files : of[r] < files[r]
  /\ remote \cup uploads \cup removed \subseteq DOMAIN of
  /\ deleteAfterUpload \in BOOLEAN

\* None is removed that the service has never accepted, though an upload may
\* fail at every step, be accepted without an answer, or go unrecorded.  That
\* it is there still is more than the code knows (view.js:329 says "already on
\* Ballchasing"): a replay deleted on the service's page is purged as well.
OnlyUploadedAreRemoved == removed \subseteq accepted

\* Written within the window, and before the second in which the next match
\* began: a file written in that second, even before the match, fits both.
Timely(r) ==
  /\ Fits(r, of[r])
  /\ \A m \in matches : m > of[r] => files[r] <= StartedAt(m)

\* No other file of the session was written since the second in which its match
\* began: neither a late one of an earlier match nor a second one of its own.
First(r) ==
  \A x \in SessionFiles \ {r} : files[x] <= StartedAt(of[r]) \/ files[r] < files[x]

\* A replay of the session that is written in time, and first, is shown with
\* its own match, however many matches have no replay or are missing from the
\* query, and however late the other files were written.
ReplaysMeetTheirMatch ==
  \A s \in InOrder(SessionFiles), listed \in SUBSET matches :
    LET shown == MatchReplayFiles(s, listed) IN
    \A r \in SessionFiles :
      Timely(r) /\ First(r) /\ of[r] \in listed
        => of[r] \in DOMAIN shown /\ shown[of[r]] = r
=============================================================================
