--------------------------- MODULE MCHistRecorder ---------------------------
(***************************************************************************)
(* Instances of HistRecorder.  One run has two scenes, of which one is     *)
(* chosen at the start: "matches" with two matches and a store that may    *)
(* fail to end one, and one match, which the scene names, with every       *)
(* roster and an upsert that may fail.                                     *)
(***************************************************************************)
EXTENDS HistRecorder, TLC

CONSTANTS g1, g2, a, b

Packet(g, won, overtime, over5, replay, roster, teams, playlist) ==
  [guid |-> g, hasWinner |-> won, overtime |-> overtime, over5 |-> over5,
   replay |-> replay, roster |-> roster, teams |-> teams, playlist |-> playlist]

BlueLeads == 0 :> 1 @@ 1 :> 0
Level == 0 :> 0 @@ 1 :> 0

\* Two matches.
NamedPackets ==
  {Packet(g, FALSE, FALSE, TRUE, FALSE, <<{a}>>, BlueLeads, TRUE) : g \in {g1, g2}}

\* Two matches, and an update without a GUID that has no players and shows the
\* teams level.
MatchPackets ==
  NamedPackets \cup {Packet(NoGuid, FALSE, FALSE, TRUE, FALSE, <<>>, Level, FALSE)}

\* One match, every roster, with more and less than 5 seconds left, in play
\* and in a replay.
RosterPackets(g) ==
  {Packet(g, FALSE, FALSE, over5, replay, roster, <<>>, FALSE) :
     over5, replay \in BOOLEAN, roster \in {<<>>, <<{a}>>, <<{b}>>, <<{a, b}>>}}

AllPackets == MatchPackets \cup RosterPackets(g1) \cup RosterPackets(g2)

TwoMatches == {g1, g2}
OnePlayer == {a}
TwoPlayers == {a, b}
Clock(overtime, over5) == [overtime |-> overtime, over5 |-> over5]
OvertimeClock == {Clock(TRUE, TRUE)}
LateClock == {Clock(FALSE, FALSE)}
BothClocks == OvertimeClock \cup LateClock
BlueTeam == {0}
NoTeam == {-1}
BlueOrNone == BlueTeam \cup NoTeam
Symmetric == Permutations({g1, g2})
NoErrors == {}
Errors == {"UpsertMatch", "EndMatch"}

VARIABLE scene

MCInit == Init /\ scene \in {"matches"} \cup Guids

\* Here the upsert does not fail, and goals are left out, which are stored as
\* stat feeds are.
InMatches ==
  \/ /\ \E p \in MatchPackets : OnStateUpdated(p)
     /\ rec'.matchGuid # NoGuid => rec'.matchID # 0
  \/ \E g \in Guids : OnMatchStarted(g)
  \/ \E g \in AnyGuid :
       \/ OnStatFeed(g) \/ OnBallHit(g) \/ OnMatchEnded(g, 0)
       \/ \E c \in OvertimeClock : OnClockUpdated(g, c)
  \/ OnMatchDestroyed \/ OtherInsert \/ Restart

InRosters ==
  \/ \E p \in RosterPackets(scene) : OnStateUpdated(p)
  \/ Others({scene}, LateClock, NoTeam)

MCNext ==
  /\ IF scene = "matches" THEN InMatches ELSE InRosters
  /\ UNCHANGED scene

MCSpec == MCInit /\ [][MCNext]_<<vars, scene>>
=============================================================================
