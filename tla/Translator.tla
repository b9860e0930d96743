----------------------------- MODULE Translator -----------------------------
(***************************************************************************)
(* src/internal/rlevents/translator.go: the packets of the Rocket League   *)
(* API become typed events on the bus.  The translator remembers the GUID  *)
(* of the match in progress and whether its clock showed overtime; from    *)
(* the two it derives match.started, match.restarted and overtime.started. *)
(*                                                                         *)
(* The API is an external program: any packet may come at any time, for    *)
(* any match or without a GUID.                                            *)
(*                                                                         *)
(* out is what the last packet published; seenGuid and seenOvertime are    *)
(* history: what a subscriber knows from the events alone.                 *)
(***************************************************************************)

CONSTANTS
  Guids,     \* match GUIDs
  NoGuid     \* the empty GUID

TranslatorAssumption == NoGuid \notin Guids

AnyGuid == Guids \cup {NoGuid}

VARIABLES
  currentGUID, lastOvertime,
  out,            \* the events published by the last packet, in order
  seenGuid,       \* the match a subscriber takes to be in progress
  seenOvertime    \* whether a subscriber takes it to be in overtime

vars == <<currentGUID, lastOvertime, out, seenGuid, seenOvertime>>

Init ==
  /\ currentGUID = NoGuid /\ lastOvertime = FALSE /\ out = <<>>
  /\ seenGuid = NoGuid /\ seenOvertime = FALSE

-----------------------------------------------------------------------------
(* The events, and what a subscriber makes of them                         *)

Event(type, g) == [type |-> type, guid |-> g, old |-> NoGuid, overtime |-> FALSE]

Restarted(new, old) == [Event("match.restarted", new) EXCEPT !.old = old]

ClockUpdated(g, overtime) == [Event("clock.updated", g) EXCEPT !.overtime = overtime]

GuidAfter(g, e) ==
  CASE e.type \in {"match.ended", "match.destroyed"} -> NoGuid
    [] e.type \in {"match.started", "match.restarted", "state.updated"}
         /\ e.guid # NoGuid -> e.guid
    [] OTHER -> g

OvertimeAfter(o, e) ==
  CASE e.type \in {"match.ended", "match.destroyed"} -> FALSE
    [] e.type = "overtime.started" -> TRUE
    [] e.type = "clock.updated" -> e.overtime
    [] OTHER -> o

\* A packet publishes one event, or two.
Publish(event) ==
  /\ out' = <<event>>
  /\ seenGuid' = GuidAfter(seenGuid, event)
  /\ seenOvertime' = OvertimeAfter(seenOvertime, event)

PublishBoth(first, event) ==
  /\ out' = <<first, event>>
  /\ seenGuid' = GuidAfter(GuidAfter(seenGuid, first), event)
  /\ seenOvertime' = OvertimeAfter(OvertimeAfter(seenOvertime, first), event)

PublishAfter(needed, first, event) ==
  IF needed THEN PublishBoth(first, event) ELSE Publish(event)

PublishNothing == out' = <<>> /\ UNCHANGED <<seenGuid, seenOvertime>>

-----------------------------------------------------------------------------
(* The handlers                                                            *)

\* advanceGUID: the GUID after it, and whether it publishes match.restarted.
AdvanceEmptyToo(g) == g

Advance(g) == IF g = NoGuid THEN currentGUID ELSE g

RestartsUnlessSame(g) == currentGUID # g

Restarts(g) == g # NoGuid /\ currentGUID \notin {NoGuid, g}

PublishAdvanced(g, event) == PublishAfter(Restarts(g), Restarted(g, currentGUID), event)

\* MatchCreated, MatchInitialized
OnMatchStart(g) ==
  /\ IF g \in {NoGuid, currentGUID} THEN PublishNothing
     ELSE PublishAdvanced(g, Event("match.started", g))
  /\ currentGUID' = Advance(g)
  /\ UNCHANGED lastOvertime

\* The state is cleared whichever match the packet names.
OnMatchEnded(g) ==
  /\ Publish(Event("match.ended", g))
  /\ currentGUID' = NoGuid /\ lastOvertime' = FALSE

OnMatchDestroyed ==
  /\ Publish(Event("match.destroyed", NoGuid))
  /\ currentGUID' = NoGuid /\ lastOvertime' = FALSE

OnClockUpdated(g, overtime) ==
  /\ PublishAfter(overtime /\ ~lastOvertime, Event("overtime.started", g),
                  ClockUpdated(g, overtime))
  /\ lastOvertime' = overtime
  /\ UNCHANGED currentGUID

OnUpdateState(g) ==
  /\ PublishAdvanced(g, Event("state.updated", g))
  /\ currentGUID' = Advance(g)
  /\ UNCHANGED lastOvertime

\* GoalScored, StatfeedEvent, BallHit and CrossbarHit are translated one to
\* one; the second and the third may add a game.action.
OnGameEvent(g, type, action) ==
  /\ IF action THEN PublishBoth(Event(type, g), Event("game.action", g))
     ELSE Publish(Event(type, g))
  /\ UNCHANGED <<currentGUID, lastOvertime>>

\* Other events of the game, and packets whose data do not decode.
Ignore == PublishNothing /\ UNCHANGED <<currentGUID, lastOvertime>>

-----------------------------------------------------------------------------
(* The packets.  flag is the overtime flag of a clock, whether a stat or a *)
(* hit is a game action, and for MatchEnded whether its data do not decode.*)

GameEvents == {"goal.scored", "stat.feed", "ball.hit", "crossbar.hit"}

Packets ==
  [event : {"MatchInitialized", "UpdateState", "MatchDestroyed", "other", "goal.scored",
            "crossbar.hit"}, guid : AnyGuid, flag : {FALSE}]
  \cup [event : {"MatchEnded", "ClockUpdatedSeconds", "stat.feed", "ball.hit"},
        guid : AnyGuid, flag : BOOLEAN]

\* The switch of Translate, by the packet's event.
Translate(p) ==
  \/ p.event = "MatchInitialized" /\ OnMatchStart(p.guid)
  \/ p.event = "MatchEnded" /\ ~p.flag /\ OnMatchEnded(p.guid)
  \/ p.event = "MatchEnded" /\ p.flag /\ Ignore
  \/ p.event = "MatchDestroyed" /\ OnMatchDestroyed
  \/ p.event = "ClockUpdatedSeconds" /\ OnClockUpdated(p.guid, p.flag)
  \/ p.event = "UpdateState" /\ OnUpdateState(p.guid)
  \/ p.event \in GameEvents /\ OnGameEvent(p.guid, p.event, p.flag)
  \/ p.event = "other" /\ Ignore

\* Between packets nothing is published.
Quiet == out' = <<>> /\ UNCHANGED <<currentGUID, lastOvertime, seenGuid, seenOvertime>>

Next == Quiet \/ \E p \in Packets : Translate(p)

Spec == Init /\ [][Next]_vars

-----------------------------------------------------------------------------
(* Properties                                                              *)

TypeOK ==
  /\ currentGUID \in AnyGuid /\ seenGuid \in AnyGuid
  /\ lastOvertime \in BOOLEAN /\ seenOvertime \in BOOLEAN
  /\ \A i \in DOMAIN out : out[i].guid \in AnyGuid /\ out[i].old \in AnyGuid

\* A subscriber that follows the published events knows what the translator
\* knows: no packet changes its memory without an event that tells so.
SubscribersKeepUp == seenGuid = currentGUID /\ seenOvertime = lastOvertime

\* match.restarted names the match that subscribers still hold to be in
\* progress, and a different one to go on with.
RestartNamesTheMatchLeft ==
  [][\A i \in DOMAIN out' :
       out'[i].type = "match.restarted" =>
         /\ out'[i].old = seenGuid /\ out'[i].old # NoGuid
         /\ out'[i].guid \notin {NoGuid, seenGuid}]_vars
=============================================================================
