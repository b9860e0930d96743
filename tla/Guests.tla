------------------------------- MODULE Guests -------------------------------
(***************************************************************************)
(* Three plugins beside one another, each in a guest of its own: Session,  *)
(* DejaVu and Ballchasing.  They share the process and nothing else, so a  *)
(* step is a step of one of them.                                          *)
(***************************************************************************)
EXTENDS Integers

CONSTANTS
  PerSecond,                                                   \* Session, Ballchasing
  SessionTime, MaxMatches, MaxSaved,                           \* Session
  Guids, NoGuid, Games, Players, Unstable, Past, QueueSize,    \* DejaVu
  Replays, PlayTime, Window                                    \* Ballchasing

VARIABLES
  now, since, saved, nextId, match, played, started, chain,
  game, history, events, state, cache, answer, stayed,
  time, matches, startup, replayFiles, of, remote, uploads, deleteAfterUpload,
  accepted, removed

sessionVars == <<now, since, saved, nextId, match, played, started, chain>>
dejavuVars == <<game, history, events, state, cache, answer, stayed>>
bcVars == <<time, matches, startup, replayFiles, of, remote, uploads, deleteAfterUpload,
            accepted, removed>>
guestVars == <<sessionVars, dejavuVars, bcVars>>

S == INSTANCE Session WITH MaxTime <- SessionTime
D == INSTANCE DejaVu WITH queue <- events
B == INSTANCE Ballchasing WITH MaxTime <- PlayTime, files <- replayFiles

ASSUME GuestsAssumption ==
  S!SessionAssumption /\ D!DejaVuAssumption /\ B!BallchasingAssumption

GuestsInit == S!Init /\ D!Init /\ B!Init

SessionSteps == S!Next /\ UNCHANGED <<dejavuVars, bcVars>>
DejaVuSteps == D!Next /\ UNCHANGED <<sessionVars, bcVars>>
BallchasingSteps == B!Next /\ UNCHANGED <<sessionVars, dejavuVars>>

GuestsNext == SessionSteps \/ DejaVuSteps \/ BallchasingSteps

GuestsSpec == GuestsInit /\ [][GuestsNext]_guestVars

-----------------------------------------------------------------------------
(* Properties: those of the parts.                                         *)

\* The types of the three.
GuestsTypes == S!TypeOK /\ D!TypeOK /\ B!TypeOK

\* Sessions saved one after the other lose no match and count none twice.
SessionsKeepEveryMatch == S!SessionsKeepEveryMatch

\* The running session is saved as it was shown.
LiveAgreesWithSaved == S!LiveAgreesWithSaved

\* A cached answer is what a new query would give.
AnswersAreFresh == D!AnswersAreFresh

\* A retry asks again after an error, and only then.
ErrorsAreRetried == D!ErrorsAreRetried

\* Only replays that the service accepted once are removed.
OnlyUploadedAreRemoved == B!OnlyUploadedAreRemoved

\* A replay written in time, and first, is shown with its own match.
ReplaysMeetTheirMatch == B!ReplaysMeetTheirMatch
=============================================================================
