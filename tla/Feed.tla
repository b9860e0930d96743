-------------------------------- MODULE Feed --------------------------------
(***************************************************************************)
(* The way of a packet, src/internal/rl/client.go:139-239: the goroutine   *)
(* that reads the connection (RLConnection) hands every packet first to    *)
(* the capture (PacketCapture) and then to the translator (Translator),    *)
(* both in the same call.  When the connection is lost the capture is      *)
(* dropped; the translator remembers its match across connections.         *)
(*                                                                         *)
(* The capture's setting is changed by HTTP handlers, which ask for a      *)
(* reconnect afterwards, unless a step of theirs fails in between.         *)
(***************************************************************************)
EXTENDS Naturals

CONSTANTS Guids, NoGuid, MaxDials, MaxReconnects

VARIABLES
  kick, run, conn, open, receivers, closing, returning, calls, requested,
  raw, guid, buf, closed, recent, lastPlayers, file, switched, heard, named, over,
  currentGUID, lastOvertime, out, seenGuid, seenOvertime,
  handler          \* "idle", or an HTTP handler has "switched" the setting

Conns == 1..MaxDials

Conn == INSTANCE RLConnection
Capture == INSTANCE PacketCapture
Trans == INSTANCE Translator

ASSUME FeedAssumption ==
  Conn!ConnectionAssumption /\ Capture!CaptureAssumption /\ Trans!TranslatorAssumption

connVars == <<kick, run, conn, open, receivers, closing, returning, calls, requested>>
captureVars ==
  <<raw, guid, buf, closed, recent, lastPlayers, file, switched, heard, named, over>>
transVars == <<currentGUID, lastOvertime, out, seenGuid, seenOvertime>>
vars == <<connVars, captureVars, transVars, handler>>

Init == Conn!Init /\ Capture!Init /\ Trans!Init /\ handler = "idle"

-----------------------------------------------------------------------------

\* Decode has a packet: c.handle(env, ...), whose last call is dispatch(env).
OnPacket(p) ==
  /\ run = "read"
  /\ Capture!OnPacket(p, conn) /\ Trans!Translate(p)
  /\ IF raw' = raw THEN UNCHANGED handler
     ELSE handler = "idle" /\ handler' = "switched"
  /\ UNCHANGED connVars

\* connect returns.
Disconnect ==
  /\ Conn!ReadFails /\ Capture!Abort
  /\ Trans!Quiet /\ UNCHANGED handler

\* What the connection does besides, and what the clock does.
Link ==
  /\ Conn!Run \/ Conn!PeerCloses \/ \E c \in Conns : Conn!Goroutine(c)
  /\ Capture!Quiet /\ Trans!Quiet /\ UNCHANGED handler

TenSecondsPass ==
  /\ Capture!TenSecondsPass
  /\ Trans!Quiet /\ UNCHANGED <<connVars, handler>>

\* handleConfig, handleSettings: the setting, then Reconnect.
SwitchRaw ==
  /\ handler = "idle" /\ handler' = "switched"
  /\ Capture!SwitchRaw
  /\ Trans!Quiet /\ UNCHANGED connVars

SaveFails ==
  /\ handler = "switched" /\ handler' = "idle"
  /\ Capture!Quiet /\ Trans!Quiet /\ UNCHANGED connVars

Reconnect ==
  /\ handler' = "idle"
  /\ Conn!Reconnect
  /\ Capture!Quiet /\ Trans!Quiet

Next ==
  \/ \E p \in Trans!Packets : OnPacket(p)
  \/ Disconnect \/ Link \/ TenSecondsPass
  \/ SwitchRaw \/ SaveFails \/ Reconnect

Spec == Init /\ [][Next]_vars

\* The fairness of RLConnection, for the steps as they are here.
Alone(A) == A /\ Capture!Quiet /\ Trans!Quiet /\ UNCHANGED handler

Fairness ==
  /\ WF_vars(Alone(Conn!Run))
  /\ WF_vars(conn \notin open /\ Disconnect)
  /\ \A c \in Conns :
       /\ WF_vars(Alone(Conn!Receive(c)))
       /\ WF_vars(Alone(Conn!CloseConn(c)))
       /\ WF_vars(Alone(Conn!PutBack(c)))

FairSpec == Spec /\ Fairness

-----------------------------------------------------------------------------
(* Properties: those of the parts, which hold of the parts together.       *)

TypeOK == Conn!TypeOK /\ Capture!TypeOK /\ Trans!TypeOK /\ handler \in {"idle", "switched"}

\* A reconnect that was asked for is not forgotten, RLConnection.
TokenIsKept == Conn!TokenIsKept

\* Packets never come from two connections, RLConnection.
OneConnection == Conn!OneConnection

\* A reconnect that was asked for happens, RLConnection.
ReconnectHappens == Conn!ReconnectHappens

\* A capture that is written holds what its connection had of the match, or
\* can be told from one that does, however connections break, captures
\* abort and the setting changes.
CapturesAreWhole == Capture!CapturesAreWhole

\* The players a capture lists are at most as old as the last match end,
\* across connections too.
PlayersOfTheMatch == Capture!PlayersOfTheMatch

\* Subscribers know what the translator knows, across connections too.
SubscribersKeepUp == Trans!SubscribersKeepUp

\* match.restarted names the match left, across connections too.
RestartNamesTheMatchLeft == Trans!RestartNamesTheMatchLeft
=============================================================================
