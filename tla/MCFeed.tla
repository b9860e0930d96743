------------------------------- MODULE MCFeed -------------------------------
(***************************************************************************)
(* Two settings of Feed, chosen at the start: "link" has four connections  *)
(* and three reconnects and no packets, "match" has two connections that   *)
(* break by themselves and every packet of two matches, until both are     *)
(* over; of one its podium may be captured before that.  The kinds of      *)
(* packet that the parts treat alike are taken once.                       *)
(***************************************************************************)
EXTENDS Feed

VARIABLE scene

mcVars == <<vars, scene>>

MCInit ==
  /\ scene \in {"link", "match"}
  /\ Init
  /\ scene = "link" => ~raw

CONSTANT g1

\* A packet whose GUID nobody looks at names g1.
MCPackets ==
  {p \in Trans!Packets :
     /\ p.event \notin {"goal.scored", "crossbar.hit", "ball.hit"}
     /\ p.event \notin {"MatchInitialized", "UpdateState"} => p.guid = g1
     /\ p.event = "stat.feed" => p.flag}

InLink == Link \/ Disconnect \/ Reconnect

\* A connection breaks as it is read: that Rocket League has closed it before
\* makes no difference to packets.
InMatch ==
  \/ \E p \in MCPackets : OnPacket(p)
  \/ Disconnect \/ TenSecondsPass
  \/ SwitchRaw \/ SaveFails
  \/ Link /\ conn' <= 2 /\ run' # run

MCNext ==
  /\ \/ scene = "link" /\ InLink
     \/ scene = "match" /\ over # Guids /\ InMatch
  /\ UNCHANGED scene

MCSpec == MCInit /\ [][MCNext]_mcVars /\ Fairness
=============================================================================
