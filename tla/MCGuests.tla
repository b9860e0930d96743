------------------------------ MODULE MCGuests ------------------------------
(***************************************************************************)
(* Plugins as they start, or one of three that does anything, chosen at    *)
(* the beginning: what they do together is each what it does alone.        *)
(*                                                                         *)
(* Those that start are three, each with any of the lists of Requires as   *)
(* its requirements, followed by a second file that claims an ID which is  *)
(* taken when the first one loads; any of them disabled.                   *)
(***************************************************************************)
EXTENDS PluginStart, Guests, TLC

CONSTANTS g1, g2, g3, me, p, q

ThreeMatches == {g1, g2, g3}
ThreePlayers == {me, p, q}
OneUnstable == {q}

\* g3 was recorded in an earlier run.  q has no stable id.
OneRecorded ==
  [g \in ThreeMatches |->
     [teams |-> IF g = g3 THEN me :> 0 @@ p :> 0 ELSE <<>>,
      winner |-> IF g = g3 THEN 1 ELSE -1, incomplete |-> FALSE]]

TwoGames ==
  {[guid |-> g1, roster |-> me :> 0], [guid |-> g1, roster |-> me :> 0 @@ p :> 1],
   [guid |-> g2, roster |-> me :> 1 @@ p :> 0 @@ q :> 0],
   [guid |-> g2, roster |-> me :> 0 @@ p :> 2]}

Requires ==
  {<<>>} \cup {<<i>> : i \in IDs} \cup {<<"a", "b">>, <<"b", "b">>, <<"c", "a">>}

File(i, requires) == [id |-> i, requires |-> requires]

\* No directory at all while a guest is at work.
SomeDirs ==
  {<<>>} \cup
  {<<File("a", x), File("b", y), File("c", z), File("a", <<"c">>)>> : x, y, z \in Requires}

VARIABLE scene

MCInit ==
  /\ scene \in {"start", "session", "dejavu", "ballchasing"}
  /\ Init /\ GuestsInit
  /\ IF scene = "start" THEN files # <<>> ELSE files = <<>> /\ disabled = {}

MCNext ==
  /\ \/ scene = "start" /\ Next /\ UNCHANGED guestVars
     \/ scene = "session" /\ SessionSteps /\ UNCHANGED vars
     \/ scene = "dejavu" /\ DejaVuSteps /\ UNCHANGED vars
     \/ scene = "ballchasing" /\ BallchasingSteps /\ UNCHANGED vars
  /\ UNCHANGED scene

MCSpec == MCInit /\ [][MCNext]_<<vars, guestVars, scene>>
=============================================================================
