----------------------------- MODULE FeedProofs -----------------------------
(***************************************************************************)
(* What holds of connection, capture and translator together, for any      *)
(* number of matches, connections and reconnects.                          *)
(*                                                                         *)
(* A step of Feed is a step of each part or leaves it alone, so what a     *)
(* part keeps by itself, Feed keeps.  Only that a capture is whole needs   *)
(* two parts: the packets kept come from the connection that is read.      *)
(***************************************************************************)
EXTENDS Feed, TLAPS

\* Feed is the composition of its parts.
LEMMA StepsOfConnection == Next => Conn!Next \/ UNCHANGED connVars
<1> SUFFICES ASSUME Next PROVE Conn!Next \/ UNCHANGED connVars
  OBVIOUS
<1>1. CASE \E p \in Trans!Packets : OnPacket(p)
  BY <1>1 DEF OnPacket
<1>2. CASE Disconnect
  BY <1>2 DEF Disconnect, Conn!Next
<1>3. CASE Link
  BY <1>3 DEF Link, Conn!Next, Conns, Conn!Conns
<1>4. CASE TenSecondsPass
  BY <1>4 DEF TenSecondsPass
<1>5. CASE SwitchRaw \/ SaveFails
  BY <1>5 DEF SwitchRaw, SaveFails
<1>6. CASE Reconnect
  BY <1>6 DEF Reconnect, Conn!Next
<1> QED BY <1>1, <1>2, <1>3, <1>4, <1>5, <1>6 DEF Next

LEMMA StepsOfTranslator == Next => Trans!Next
<1> SUFFICES ASSUME Next PROVE Trans!Next
  OBVIOUS
<1>1. CASE \E p \in Trans!Packets : OnPacket(p)
  BY <1>1 DEF OnPacket, Trans!Next
<1>2. CASE Disconnect \/ Link \/ TenSecondsPass \/ SwitchRaw \/ SaveFails \/ Reconnect
  BY <1>2 DEF Disconnect, Link, TenSecondsPass, SwitchRaw, SaveFails, Reconnect, Trans!Next
<1> QED BY <1>1, <1>2 DEF Next

-----------------------------------------------------------------------------
(* The connection                                                          *)

ConnInv ==
  Conn!TypeOK /\ TokenIsKept /\ OneConnection /\ (run = "read" => conn \in Conns)

LEMMA ConnInitially == Init => ConnInv
<1> SUFFICES ASSUME Init PROVE ConnInv
  OBVIOUS
<1>1. Conn!TypeOK
  <2>1. 0 \in 0..MaxDials /\ 0 \in 0..MaxReconnects
    BY FeedAssumption DEF Conn!ConnectionAssumption
  <2> QED BY <2>1 DEF Init, Conn!Init, Conn!TypeOK
<1> QED BY <1>1 DEF Init, Conn!Init, ConnInv, TokenIsKept, OneConnection,
                    Conn!TokenIsKept, Conn!OneConnection

LEMMA ConnTypes == Conn!TypeOK /\ Conn!Next => Conn!TypeOK'
<1> SUFFICES ASSUME Conn!TypeOK, Conn!Next PROVE Conn!TypeOK'
  OBVIOUS
<1>1. CASE Conn!Reconnect
  BY <1>1, FeedAssumption DEF Conn!Reconnect, Conn!Put, Conn!TypeOK, Conn!goroutines,
                              Conn!ConnectionAssumption
<1>2. CASE Conn!PeerCloses \/ Conn!ReadFails
  BY <1>2 DEF Conn!PeerCloses, Conn!ReadFails, Conn!TypeOK, Conn!goroutines
<1>3. CASE Conn!TimerFires \/ Conn!DialFails
  BY <1>3 DEF Conn!TimerFires, Conn!DialFails, Conn!TypeOK, Conn!goroutines
<1>6. CASE Conn!TakeKick
  BY <1>6 DEF Conn!TakeKick, Conn!TypeOK, Conn!goroutines
<1>4. CASE Conn!DialSucceeds
  <2>1. conn + 1 \in Conn!Conns /\ conn + 1 \in 0..MaxDials
    BY <1>4, FeedAssumption DEF Conn!DialSucceeds, Conn!TypeOK, Conn!Conns,
                                Conn!ConnectionAssumption
  <2> QED BY <1>4, <2>1 DEF Conn!DialSucceeds, Conn!TypeOK
<1>5. CASE \E c \in Conn!Conns : Conn!Goroutine(c)
  BY <1>5 DEF Conn!Goroutine, Conn!Receive, Conn!CloseConn, Conn!PutBack, Conn!Put, Conn!TypeOK,
              Conn!goroutines
<1> QED BY <1>1, <1>2, <1>3, <1>4, <1>5, <1>6 DEF Conn!Next, Conn!Run

LEMMA ConnKept == ConnInv /\ [Conn!Next]_connVars => ConnInv'
<1> SUFFICES ASSUME ConnInv, [Conn!Next]_connVars PROVE ConnInv'
  OBVIOUS
<1>1. CASE UNCHANGED connVars
  BY <1>1 DEF connVars, ConnInv, TokenIsKept, OneConnection, Conn!TypeOK, Conn!TokenIsKept,
              Conn!OneConnection
<1>2. CASE Conn!Next
  <2>1. Conn!TypeOK /\ Conn!TypeOK'
    BY <1>2, ConnTypes DEF ConnInv
  <2>3. TokenIsKept'
    BY <1>2, <2>1 DEF ConnInv, TokenIsKept, Conn!TokenIsKept, Conn!Next, Conn!Run,
       Conn!Reconnect, Conn!Put, Conn!PeerCloses, Conn!ReadFails, Conn!TimerFires,
       Conn!TakeKick,
       Conn!DialFails, Conn!DialSucceeds, Conn!Goroutine, Conn!Receive, Conn!CloseConn,
       Conn!PutBack, Conn!goroutines, Conn!TypeOK
  <2>4. OneConnection'
    BY <1>2, <2>1 DEF ConnInv, OneConnection, Conn!OneConnection, Conn!Next, Conn!Run,
       Conn!Reconnect, Conn!Put, Conn!PeerCloses, Conn!ReadFails, Conn!TimerFires,
       Conn!TakeKick,
       Conn!DialFails, Conn!DialSucceeds, Conn!Goroutine, Conn!Receive, Conn!CloseConn,
       Conn!PutBack, Conn!goroutines, Conn!TypeOK
  <2>5. (run = "read" => conn \in Conns)'
    BY <1>2, <2>1 DEF ConnInv, Conns, Conn!Next, Conn!Run, Conn!Reconnect, Conn!Put,
       Conn!PeerCloses, Conn!ReadFails, Conn!TimerFires, Conn!TakeKick, Conn!DialFails,
       Conn!DialSucceeds, Conn!Goroutine, Conn!Receive, Conn!CloseConn, Conn!PutBack,
       Conn!TypeOK
  <2> QED BY <2>1, <2>3, <2>4, <2>5 DEF ConnInv
<1> QED BY <1>1, <1>2

-----------------------------------------------------------------------------
(* The translator                                                          *)

TransInv == Trans!TypeOK /\ SubscribersKeepUp

NamesTheMatchLeft ==
  \A i \in DOMAIN out' :
    out'[i].type = "match.restarted" =>
      /\ out'[i].old = seenGuid /\ out'[i].old # NoGuid
      /\ out'[i].guid \notin {NoGuid, seenGuid}

\* What both handlers that may announce a restart publish.
LEMMA RestartAnnounced ==
  ASSUME TransInv, NEW g \in Trans!AnyGuid, NEW type \in {"match.started", "state.updated"},
         Trans!PublishAdvanced(g, Trans!Event(type, g)),
         currentGUID' = Trans!Advance(g), UNCHANGED lastOvertime
  PROVE  TransInv' /\ NamesTheMatchLeft
<1>1. CASE Trans!Restarts(g)
  <2>1. Trans!PublishBoth(Trans!Restarted(g, currentGUID), Trans!Event(type, g))
    BY <1>1 DEF Trans!PublishAdvanced, Trans!PublishAfter
  <2>2. g # NoGuid /\ currentGUID # NoGuid /\ g # currentGUID
    BY <1>1 DEF Trans!Restarts
  <2>3. currentGUID' = g /\ seenGuid' = g /\ seenOvertime' = seenOvertime
    BY <2>1, <2>2 DEF Trans!PublishBoth, Trans!GuidAfter, Trans!OvertimeAfter, Trans!Restarted,
                      Trans!Event, Trans!Advance
  <2>4. /\ DOMAIN out' = {1, 2}
        /\ out'[1].type = "match.restarted" /\ out'[1].guid = g /\ out'[1].old = currentGUID
        /\ out'[2].type = type /\ out'[2].guid = g /\ out'[2].old = NoGuid
    BY <2>1 DEF Trans!PublishBoth, Trans!Restarted, Trans!Event
  <2> QED BY <2>2, <2>3, <2>4 DEF TransInv, SubscribersKeepUp, Trans!SubscribersKeepUp,
                                  Trans!TypeOK, Trans!AnyGuid, NamesTheMatchLeft
<1>2. CASE ~Trans!Restarts(g)
  <2>1. Trans!Publish(Trans!Event(type, g))
    BY <1>2 DEF Trans!PublishAdvanced, Trans!PublishAfter
  <2>2. currentGUID' = seenGuid' /\ seenOvertime' = seenOvertime
    BY <2>1 DEF Trans!Publish, Trans!GuidAfter, Trans!OvertimeAfter, Trans!Event, Trans!Advance,
                TransInv, SubscribersKeepUp, Trans!SubscribersKeepUp
  <2>3. /\ DOMAIN out' = {1}
        /\ out'[1].type = type /\ out'[1].guid = g /\ out'[1].old = NoGuid
    BY <2>1 DEF Trans!Publish, Trans!Event
  <2> QED BY <2>2, <2>3 DEF TransInv, SubscribersKeepUp, Trans!SubscribersKeepUp,
                                  Trans!TypeOK, Trans!AnyGuid, NamesTheMatchLeft, Trans!Advance
<1> QED BY <1>1, <1>2

LEMMA TransInitially == Init => TransInv
<1> SUFFICES ASSUME Trans!Init PROVE TransInv
  BY DEF Init
<1>1. out = <<>> /\ DOMAIN out = {}
  BY DEF Trans!Init
<1>2. SubscribersKeepUp
  BY DEF Trans!Init, SubscribersKeepUp, Trans!SubscribersKeepUp
<1> QED BY <1>1, <1>2 DEF Trans!Init, TransInv, Trans!TypeOK, Trans!AnyGuid

LEMMA NothingPublished ==
  ASSUME TransInv, out' = <<>>, UNCHANGED <<currentGUID, lastOvertime, seenGuid, seenOvertime>>
  PROVE  TransInv' /\ NamesTheMatchLeft
BY DEF TransInv, SubscribersKeepUp, Trans!SubscribersKeepUp, Trans!TypeOK, NamesTheMatchLeft

LEMMA Translated ==
  ASSUME TransInv, NEW p \in Trans!Packets, Trans!Translate(p)
  PROVE  TransInv' /\ NamesTheMatchLeft
<1>1. p.guid \in Trans!AnyGuid /\ p.flag \in BOOLEAN /\ NoGuid \in Trans!AnyGuid
  BY DEF Trans!Packets, Trans!AnyGuid
<1>2. CASE Trans!OnMatchStart(p.guid)
  <2>1. CASE p.guid \in {NoGuid, currentGUID}
    BY <1>2, <2>1, NothingPublished
       DEF Trans!OnMatchStart, Trans!PublishNothing, Trans!Advance
  <2>2. CASE p.guid \notin {NoGuid, currentGUID}
    BY <1>1, <1>2, <2>2, RestartAnnounced DEF Trans!OnMatchStart
  <2> QED BY <2>1, <2>2
<1>3. CASE Trans!OnUpdateState(p.guid)
  BY <1>1, <1>3, RestartAnnounced DEF Trans!OnUpdateState
<1>4. CASE Trans!OnMatchEnded(p.guid) \/ Trans!OnMatchDestroyed
  <2>1. currentGUID' = NoGuid /\ lastOvertime' = FALSE
    BY <1>4 DEF Trans!OnMatchEnded, Trans!OnMatchDestroyed
  <2>2. seenGuid' = NoGuid /\ seenOvertime' = FALSE
    BY <1>4 DEF Trans!OnMatchEnded, Trans!OnMatchDestroyed, Trans!Publish, Trans!Event,
                Trans!GuidAfter, Trans!OvertimeAfter
  <2>3. \A i \in DOMAIN out' : /\ out'[i].type # "match.restarted"
                               /\ out'[i].guid \in {p.guid, NoGuid} /\ out'[i].old = NoGuid
    BY <1>4 DEF Trans!OnMatchEnded, Trans!OnMatchDestroyed, Trans!Publish, Trans!Event
  <2> QED BY <1>1, <2>1, <2>2, <2>3 DEF TransInv, SubscribersKeepUp, Trans!SubscribersKeepUp,
                                        Trans!TypeOK, NamesTheMatchLeft
<1>5. CASE Trans!OnClockUpdated(p.guid, p.flag)
  <2>1. seenGuid' = seenGuid /\ currentGUID' = currentGUID
    BY <1>5 DEF Trans!OnClockUpdated, Trans!PublishAfter, Trans!PublishBoth, Trans!Publish,
                Trans!Event, Trans!ClockUpdated, Trans!GuidAfter
  <2>2. seenOvertime' = p.flag /\ lastOvertime' = p.flag
    BY <1>5 DEF Trans!OnClockUpdated, Trans!PublishAfter, Trans!PublishBoth, Trans!Publish,
                Trans!Event, Trans!ClockUpdated, Trans!OvertimeAfter
  <2>3. \A i \in DOMAIN out' : /\ out'[i].type # "match.restarted"
                               /\ out'[i].guid = p.guid /\ out'[i].old = NoGuid
    BY <1>5 DEF Trans!OnClockUpdated, Trans!PublishAfter, Trans!PublishBoth, Trans!Publish,
                Trans!Event, Trans!ClockUpdated
  <2> QED BY <1>1, <2>1, <2>2, <2>3 DEF TransInv, SubscribersKeepUp, Trans!SubscribersKeepUp,
                                        Trans!TypeOK, NamesTheMatchLeft
<1>6. CASE p.event \in Trans!GameEvents /\ Trans!OnGameEvent(p.guid, p.event, p.flag)
  <2>1. UNCHANGED <<currentGUID, lastOvertime, seenGuid, seenOvertime>>
    BY <1>6 DEF Trans!OnGameEvent, Trans!PublishBoth, Trans!Publish, Trans!Event,
                Trans!GuidAfter, Trans!OvertimeAfter, Trans!GameEvents
  <2>2. \A i \in DOMAIN out' : /\ out'[i].type # "match.restarted"
                               /\ out'[i].guid = p.guid /\ out'[i].old = NoGuid
    BY <1>6 DEF Trans!OnGameEvent, Trans!PublishBoth, Trans!Publish, Trans!Event,
                Trans!GameEvents
  <2> QED BY <1>1, <2>1, <2>2 DEF TransInv, SubscribersKeepUp, Trans!SubscribersKeepUp,
                                  Trans!TypeOK, NamesTheMatchLeft
<1>7. CASE Trans!Ignore
  BY <1>7, NothingPublished DEF Trans!Ignore, Trans!PublishNothing
<1> QED BY <1>2, <1>3, <1>4, <1>5, <1>6, <1>7 DEF Trans!Translate

LEMMA TransKept ==
  TransInv /\ [Next]_vars =>
    TransInv' /\ (NamesTheMatchLeft \/ UNCHANGED transVars)
<1> SUFFICES ASSUME TransInv, [Next]_vars
             PROVE  TransInv' /\ (NamesTheMatchLeft \/ UNCHANGED transVars)
  OBVIOUS
<1>1. CASE UNCHANGED vars
  BY <1>1 DEF vars, transVars, TransInv, SubscribersKeepUp, Trans!SubscribersKeepUp,
     Trans!TypeOK
<1>2. CASE Next
  <2>1. Trans!Quiet \/ \E p \in Trans!Packets : Trans!Translate(p)
    BY <1>2, StepsOfTranslator DEF Trans!Next
  <2> QED BY <2>1, Translated, NothingPublished DEF Trans!Quiet
<1> QED BY <1>1, <1>2

-----------------------------------------------------------------------------
(* The capture                                                             *)

BufferIsNamed == buf.conns # {} => guid # NoGuid

BufferIsWhole ==
  ~switched =>
    /\ buf.whole
    /\ guid # NoGuid => raw /\ buf.conns # {} /\ (buf.opened \/ guid \in over)
    /\ raw /\ guid = NoGuid => heard = {}

\* Why no packet that names a match comes before its capture: a match that
\* was closed is over, and the GUID captured was named.
GuidsAreNamed == guid \in named \cup {NoGuid} /\ closed \in over \cup {NoGuid}

PlayersAreNamed == lastPlayers \subseteq named \cup {NoGuid}

BufferOfConnection == buf.conns \subseteq {conn} /\ (run # "read" => buf.conns = {})

BufferInv ==
  /\ Capture!TypeOK
  /\ BufferIsNamed /\ BufferIsWhole /\ GuidsAreNamed /\ PlayersAreNamed /\ BufferOfConnection

CaptureInv == BufferInv /\ CapturesAreWhole /\ PlayersOfTheMatch

LEMMA CaptureInitially == Init => CaptureInv
<1> SUFFICES ASSUME Capture!Init PROVE CaptureInv
  BY DEF Init
<1>1. buf \in Capture!BufType /\ buf.conns = {} /\ buf.whole
  BY DEF Capture!Init, Capture!EmptyBuf, Capture!BufType
<1>2. Capture!TypeOK
  BY <1>1 DEF Capture!Init, Capture!TypeOK, Capture!AnyGuid
<1> QED BY <1>1, <1>2 DEF Capture!Init, CaptureInv, BufferInv, BufferIsNamed,
     BufferIsWhole, GuidsAreNamed,
       PlayersAreNamed, BufferOfConnection, CapturesAreWhole, Capture!CapturesAreWhole,
       PlayersOfTheMatch, Capture!PlayersOfTheMatch

\* A step that writes nothing keeps what is said of the captures written.
LEMMA NothingWritten ==
  ASSUME BufferInv', file' = {}
  PROVE  CaptureInv'
BY DEF CaptureInv, CapturesAreWhole, Capture!CapturesAreWhole, PlayersOfTheMatch,
       Capture!PlayersOfTheMatch

\* Which packets are kept, and what is kept then.
LEMMA Kept ==
  ASSUME BufferInv, run = "read", conn \in Conns, NEW p \in Trans!Packets, NEW r,
         r[1] = raw, r[1] = r[3] => r[2] = r[1],
         NEW b, b = Capture!Buffered(p, conn, r),
         NEW g, g = Capture!Started(p, r[2])
  PROVE  /\ b \in Capture!BufType /\ g \in Capture!AnyGuid
         /\ b.conns \subseteq {conn}
         /\ b.conns # {} => g # NoGuid
         /\ ~switched /\ r[1] = r[3] =>
              /\ b.whole
              /\ g # NoGuid => raw /\ b.conns # {} /\ (b.opened \/ g \in over)
              /\ raw /\ g = NoGuid => heard = {} /\ (p.event \in Capture!Opens =>
                                                    p.guid \in over \cup {NoGuid})
<1>1. p.guid \in Capture!AnyGuid
  BY DEF Trans!Packets, Trans!AnyGuid, Capture!AnyGuid
<1>2. g \in Capture!AnyGuid
  BY <1>1 DEF Capture!Started, Capture!StartedAnew, BufferInv, Capture!TypeOK
<1>3. /\ guid # NoGuid => g = guid
      /\ p.event \notin Capture!Opens => g = guid
      /\ guid = NoGuid /\ g # NoGuid => g = p.guid /\ p.event \in Capture!Opens /\ r[2]
  BY DEF Capture!Started, Capture!StartedAnew
<1>6. ~switched /\ r[1] = r[3] /\ raw /\ g = NoGuid =>
        heard = {} /\ (p.event \in Capture!Opens => p.guid \in over \cup {NoGuid})
  <2> SUFFICES ASSUME ~switched, r[1] = r[3], raw, g = NoGuid
               PROVE  heard = {} /\ (p.event \in Capture!Opens => p.guid \in over \cup {NoGuid})
    OBVIOUS
  <2>1. guid = NoGuid /\ r[2]
    BY <1>3
  <2>2. p.event \in Capture!Opens /\ p.guid # NoGuid => recent /\ closed = p.guid
    BY <2>1 DEF Capture!Started, Capture!StartedAnew
  <2> QED BY <2>1, <2>2 DEF BufferInv, BufferIsWhole, GuidsAreNamed
<1>4. CASE Capture!Captured(p, r)
  <2>1. g # NoGuid
    BY <1>3, <1>4 DEF Capture!Captured
  <2>2. b = Capture!With(buf, p, conn, g)
    BY <1>4 DEF Capture!Buffered
  <2>3. b \in Capture!BufType /\ b.conns = {conn} /\ b.whole = buf.whole
    <3>1. buf.conns \cup {conn} = {conn} /\ {conn} \in SUBSET Conns
      BY DEF BufferInv, BufferOfConnection
    <3>2. buf.whole \in BOOLEAN /\ buf.opened \in BOOLEAN
      BY DEF BufferInv, Capture!TypeOK, Capture!BufType
    <3>3. /\ b.conns = {conn} /\ b.whole = buf.whole
          /\ b.opened = IF buf.conns = {}
                        THEN p.event \in Capture!Opens /\ p.guid = g /\ g \notin heard
                        ELSE buf.opened
          /\ b.ended = (p.event \in Capture!Ends)
          /\ b = [conns |-> b.conns, opened |-> b.opened, whole |-> b.whole, ended |-> b.ended]
      BY <2>2, <3>1 DEF Capture!With
    <3>4. b.ended \in BOOLEAN
      <4>1. CASE p.event \in Capture!Ends
        BY <3>3, <4>1
      <4>2. CASE p.event \notin Capture!Ends
        BY <3>3, <4>2
      <4> QED BY <4>1, <4>2
    <3>5. b.opened \in BOOLEAN
      <4>1. CASE buf.conns = {} /\ p.event \in Capture!Opens /\ p.guid = g /\ g \notin heard
        BY <3>3, <4>1
      <4>2. CASE buf.conns = {} /\ ~(p.event \in Capture!Opens /\ p.guid = g /\ g \notin heard)
        BY <3>3, <4>2
      <4>3. CASE buf.conns # {}
        BY <3>2, <3>3, <4>3
      <4> QED BY <4>1, <4>2, <4>3
    <3> QED BY <3>1, <3>2, <3>3, <3>4, <3>5 DEF Capture!BufType
  <2>4. CASE buf.conns = {}
    <3>1. b.opened = (p.event \in Capture!Opens /\ p.guid = g /\ g \notin heard)
      BY <2>2, <2>4 DEF Capture!With
    <3> QED BY <1>2, <1>3, <2>1, <2>3, <2>4, <3>1 DEF BufferInv, BufferIsWhole,
         GuidsAreNamed, Capture!TypeOK
  <2>5. CASE buf.conns # {}
    <3>1. b.opened = buf.opened
      BY <2>2, <2>5 DEF Capture!With
    <3> QED BY <1>2, <1>3, <2>1, <2>3, <2>5, <3>1 DEF BufferInv, BufferIsNamed,
         BufferIsWhole, GuidsAreNamed,
                                                    Capture!TypeOK
  <2> QED BY <1>6, <2>4, <2>5
<1>5. CASE ~Capture!Captured(p, r)
  <2>1. b = [buf EXCEPT !.whole = @ /\ g = NoGuid]
    BY <1>5 DEF Capture!Buffered
  <2>2. b \in Capture!BufType /\ b.conns = buf.conns /\ b.whole = (buf.whole /\ g = NoGuid)
    BY <2>1 DEF BufferInv, Capture!TypeOK, Capture!BufType
  <2>3. ~switched /\ r[1] = r[3] => g = NoGuid
    BY <1>3, <1>5 DEF Capture!Captured, BufferInv, BufferIsWhole, GuidsAreNamed
  <2> QED BY <1>2, <1>3, <1>6, <2>2, <2>3
          DEF BufferInv, BufferIsNamed, BufferIsWhole, GuidsAreNamed, BufferOfConnection
<1> QED BY <1>4, <1>5

\* A packet, for the three times the setting is read.
LEMMA Handled ==
  ASSUME CaptureInv, run = "read", conn \in Conns, UNCHANGED <<run, conn>>,
         NEW p \in Trans!Packets, NEW r, Capture!Handle(p, conn, r),
         r[1] = raw, r[3] = raw', raw' \in BOOLEAN,
         \/ r[1] = r[3] /\ r[2] = r[1] /\ UNCHANGED switched
         \/ r[1] # r[3] /\ switched' = TRUE
  PROVE  CaptureInv'
<1> DEFINE b == Capture!Buffered(p, conn, r)
           g == Capture!Started(p, r[2])
<1>1. /\ b \in Capture!BufType /\ g \in Capture!AnyGuid
      /\ b.conns \subseteq {conn}
      /\ b.conns # {} => g # NoGuid
      /\ ~switched /\ r[1] = r[3] =>
           /\ b.whole
           /\ g # NoGuid => raw /\ b.conns # {} /\ (b.opened \/ g \in over)
           /\ raw /\ g = NoGuid => heard = {} /\ (p.event \in Capture!Opens =>
                                                 p.guid \in over \cup {NoGuid})
  BY Kept DEF CaptureInv
<1>2. p.guid \in Capture!AnyGuid
  BY DEF Trans!Packets, Trans!AnyGuid, Capture!AnyGuid
<1>3. CASE p.event \in Capture!Opens /\ Capture!Open(p, r, b)
  <2>1. guid' = g /\ buf' = b /\ file' = {} /\ UNCHANGED <<closed, recent, over>>
    BY <1>3 DEF Capture!Open
  <2>2. /\ named' = named \cup ({p.guid} \ {NoGuid})
        /\ heard' = heard \cup ({p.guid} \ ({NoGuid} \cup over))
        /\ lastPlayers' \in {lastPlayers, lastPlayers \cup {p.guid}}
    BY <1>3 DEF Capture!Open
  <2>3. /\ PlayersAreNamed' /\ named' \in SUBSET Guids /\ heard' \in SUBSET Guids
        /\ lastPlayers' \in SUBSET Capture!AnyGuid
    BY <1>2, <2>2 DEF CaptureInv, BufferInv, PlayersAreNamed, Capture!TypeOK, Capture!AnyGuid
  <2>4. Capture!TypeOK'
    BY <1>1, <2>1, <2>3 DEF CaptureInv, BufferInv, Capture!TypeOK
  <2>5. GuidsAreNamed'
    <3>1. g = guid \/ g = p.guid
      BY DEF Capture!Started, Capture!StartedAnew
    <3> QED BY <2>1, <2>2, <3>1 DEF CaptureInv, BufferInv, GuidsAreNamed
  <2>6. BufferIsWhole'
    <3> SUFFICES ASSUME ~switched'
                 PROVE  /\ b.whole
                        /\ g # NoGuid => raw' /\ b.conns # {} /\ (b.opened \/ g \in over)
                        /\ raw' /\ g = NoGuid => heard' = {}
      BY <2>1 DEF BufferIsWhole
    <3>1. ~switched /\ r[1] = r[3] /\ raw' = raw
      BY DEF CaptureInv, BufferInv, Capture!TypeOK
    <3> HIDE DEF b, g
    <3> QED BY <1>1, <1>3, <2>2, <3>1
  <2> QED BY <1>1, <2>1, <2>3, <2>4, <2>5, <2>6, NothingWritten
             DEF BufferInv, BufferIsNamed, BufferOfConnection
<1>4. CASE p.event \in Capture!Ends /\ Capture!Close(b, r)
  <2>1. /\ guid' = NoGuid /\ buf' = Capture!EmptyBuf /\ lastPlayers' = {}
        /\ named' = {} /\ heard' = {} /\ over' = over \cup named
    BY <1>4 DEF Capture!Close, Capture!Reset, Capture!Forget, Capture!MatchOver
  <2>2. /\ closed' = (IF guid = NoGuid THEN closed ELSE guid) /\ recent' \in {TRUE, recent}
        /\ file' \in Capture!Flushed(b, r)
    BY <1>4 DEF Capture!Close
  <2>3. buf' \in Capture!BufType /\ buf'.conns = {} /\ buf'.whole
    BY <2>1 DEF Capture!EmptyBuf, Capture!BufType
  <2>4. ASSUME NEW f \in file'
        PROVE  /\ b.conns # {} /\ f.guid = guid /\ f.buf = b /\ f.players = lastPlayers
               /\ f.written \in SUBSET Capture!ChunkFiles
               /\ f.complete = (f.written = Capture!ChunkFiles)
               /\ f.switched = (switched \/ r[1] # r[3])
               /\ f.named = named /\ f.podium = (guid \in over)
               /\ f = [guid |-> f.guid, buf |-> f.buf, players |-> f.players,
                       written |-> f.written, complete |-> f.complete,
                       switched |-> f.switched, named |-> f.named, podium |-> f.podium]
    BY <2>2, <2>4 DEF Capture!Flushed, Capture!ChunksCounted, Capture!ChunkFiles
  <2>5. p.event \notin Capture!Opens /\ g = guid
    BY <1>4 DEF Capture!Opens, Capture!Ends, Capture!Started, Capture!StartedAnew
  <2>6. Capture!TypeOK'
    <3>1. file' \subseteq Capture!FileType
      <4> SUFFICES ASSUME NEW f \in file' PROVE f \in Capture!FileType
        OBVIOUS
      <4>1. /\ guid \in Capture!AnyGuid /\ lastPlayers \in SUBSET Capture!AnyGuid
            /\ switched \in BOOLEAN /\ named \in SUBSET Guids
        BY DEF CaptureInv, BufferInv, Capture!TypeOK
      <4>2. /\ f.guid \in Capture!AnyGuid /\ f.buf \in Capture!BufType
            /\ f.players \in SUBSET Capture!AnyGuid
            /\ f.written \in SUBSET Capture!ChunkFiles
            /\ f.switched \in BOOLEAN /\ f.named \in SUBSET Guids
        BY <1>1, <2>4, <4>1
      <4>3. f.complete \in BOOLEAN
        <5> DEFINE all == f.written = Capture!ChunkFiles
        <5>1. f.complete = all
          BY <2>4
        <5>2. all \in BOOLEAN
          OBVIOUS
        <5> QED BY <5>1, <5>2
      <4>4. f.podium \in BOOLEAN
        <5> DEFINE late == guid \in over
        <5>1. f.podium = late
          BY <2>4
        <5>2. late \in BOOLEAN
          OBVIOUS
        <5> QED BY <5>1, <5>2
      <4> HIDE DEF b
      <4> QED BY <2>4, <4>2, <4>3, <4>4 DEF Capture!FileType
    <3>2. /\ raw \in BOOLEAN /\ guid \in Capture!AnyGuid /\ closed \in Capture!AnyGuid
          /\ recent \in BOOLEAN /\ switched \in BOOLEAN
          /\ named \in SUBSET Guids /\ over \in SUBSET Guids
      BY DEF CaptureInv, BufferInv, Capture!TypeOK
    <3>3. /\ closed' \in Capture!AnyGuid /\ recent' \in BOOLEAN /\ switched' \in BOOLEAN
          /\ over' \in SUBSET Guids
      BY <2>1, <2>2, <3>2
    <3> QED BY <2>1, <2>3, <3>1, <3>3 DEF Capture!TypeOK, Capture!AnyGuid
  <2>7. BufferInv'
    BY <2>1, <2>2, <2>3, <2>6 DEF CaptureInv, BufferInv, BufferIsNamed, BufferIsWhole,
       GuidsAreNamed, PlayersAreNamed,
                            BufferOfConnection
  <2>8. CapturesAreWhole'
    <3> SUFFICES ASSUME NEW f \in file'
                 PROVE  /\ f.guid \in Guids /\ f.buf.conns = {conn}
                        /\ f.complete /\ ~f.switched =>
                             /\ f.written = Capture!ChunkFiles
                             /\ f.buf.whole /\ f.buf.ended
                             /\ f.buf.opened \/ f.podium
      BY DEF CapturesAreWhole, Capture!CapturesAreWhole
    <3>1. f.guid \in Guids /\ f.buf.conns = {conn} /\ guid # NoGuid
      BY <1>1, <2>4, <2>5 DEF Capture!AnyGuid
    <3>2. CASE ~switched /\ r[1] = r[3]
      <4>1. Capture!Captured(p, r)
        BY <1>1, <3>1, <3>2, <2>5 DEF Capture!Captured
      <4>2. b.ended
        BY <1>4, <4>1 DEF Capture!Buffered, Capture!With
      <4> QED BY <1>1, <2>4, <2>5, <3>1, <3>2, <4>2
    <3> QED BY <2>4, <3>1, <3>2
  <2>9. PlayersOfTheMatch'
    BY <2>4 DEF PlayersOfTheMatch, Capture!PlayersOfTheMatch, CaptureInv, BufferInv,
                PlayersAreNamed
  <2> QED BY <2>7, <2>8, <2>9 DEF CaptureInv
<1>5. CASE /\ p.event \notin Capture!Opens \cup Capture!Ends
           /\ buf' = b /\ file' = {}
           /\ UNCHANGED <<guid, closed, recent, lastPlayers, heard, named, over>>
  <2>1. g = guid
    BY <1>5 DEF Capture!Started, Capture!StartedAnew
  <2>2. Capture!TypeOK'
    BY <1>1, <1>5 DEF CaptureInv, BufferInv, Capture!TypeOK
  <2> QED BY <1>1, <1>5, <2>1, <2>2, NothingWritten
             DEF CaptureInv, BufferInv, BufferIsNamed, BufferIsWhole, GuidsAreNamed,
                 BufferOfConnection,
                 PlayersAreNamed
<1> QED BY <1>3, <1>4, <1>5 DEF Capture!Handle, Capture!history

LEMMA CaptureKept == CaptureInv /\ ConnInv /\ [Next]_vars => CaptureInv'
<1> SUFFICES ASSUME CaptureInv, ConnInv, [Next]_vars PROVE CaptureInv'
  OBVIOUS
<1> USE DEF BufferInv, BufferIsNamed, BufferIsWhole, GuidsAreNamed, PlayersAreNamed,
     BufferOfConnection
<1>1. CASE \E p \in Trans!Packets : OnPacket(p)
  <2>1. PICK p \in Trans!Packets : OnPacket(p)
    BY <1>1
  <2>2. /\ run = "read" /\ conn \in Conns /\ UNCHANGED <<run, conn>>
        /\ Capture!OnPacket(p, conn)
    BY <2>1 DEF OnPacket, connVars, ConnInv
  <2>3. raw \in BOOLEAN
    BY DEF CaptureInv, Capture!TypeOK
  <2>4. CASE Capture!Handle(p, conn, <<raw, raw, raw>>) /\ UNCHANGED <<raw, switched>>
    <3> DEFINE r == <<raw, raw, raw>>
    <3>1. r[1] = raw /\ r[2] = raw /\ r[3] = raw' /\ raw' \in BOOLEAN
      BY <2>3, <2>4
    <3> HIDE DEF r, BufferInv
    <3> QED BY <2>2, <2>4, <3>1, Handled
  <2>5. CASE /\ raw' = ~raw /\ switched' = TRUE
             /\ \E mid \in BOOLEAN : Capture!Handle(p, conn, <<raw, mid, ~raw>>)
    <3>1. PICK mid \in BOOLEAN : Capture!Handle(p, conn, <<raw, mid, ~raw>>)
      BY <2>5
    <3> DEFINE r == <<raw, mid, ~raw>>
    <3>2. r[1] = raw /\ r[3] = raw' /\ raw' \in BOOLEAN /\ r[1] # r[3]
      BY <2>3, <2>5
    <3>3. Capture!Handle(p, conn, r)
      BY <3>1
    <3> HIDE DEF r, BufferInv
    <3> QED BY <2>2, <2>5, <3>2, <3>3, Handled
  <2> QED BY <2>2, <2>4, <2>5 DEF Capture!OnPacket
<1>2. CASE Disconnect
  <2>1. guid' = NoGuid /\ buf' = Capture!EmptyBuf
    BY <1>2 DEF Disconnect, Capture!Abort, Capture!Reset
  <2>2. buf' \in Capture!BufType /\ buf'.conns = {} /\ buf'.whole
    BY <2>1 DEF Capture!EmptyBuf, Capture!BufType
  <2>3. /\ file' = {} /\ switched' = FALSE
        /\ heard' = {} /\ UNCHANGED <<raw, closed, recent, lastPlayers, named, over>>
    BY <1>2 DEF Disconnect, Capture!Abort, Capture!NextConnection
  <2>4. Capture!TypeOK'
    BY <2>1, <2>2, <2>3 DEF CaptureInv, Capture!TypeOK, Capture!AnyGuid
  <2> QED BY <2>1, <2>2, <2>3, <2>4, NothingWritten DEF CaptureInv
<1>3. CASE Link
  <2>1. Capture!Quiet /\ Capture!TypeOK /\ Capture!TypeOK'
    BY <1>3 DEF Link, Capture!Quiet, Capture!history, CaptureInv, Capture!TypeOK
  <2>2. BufferOfConnection'
    BY <1>3, <2>1 DEF Link, CaptureInv, Capture!Quiet, Conn!Run, Conn!TimerFires,
       Conn!TakeKick, Conn!DialFails, Conn!DialSucceeds, Conn!PeerCloses, Conn!Goroutine,
       Conn!Receive,
       Conn!CloseConn, Conn!PutBack
  <2> QED BY <2>1, <2>2, NothingWritten DEF CaptureInv, Capture!Quiet, Capture!history
<1>4. CASE TenSecondsPass
  <2>1. Capture!TypeOK'
    BY <1>4 DEF TenSecondsPass, Capture!TenSecondsPass, Capture!history, CaptureInv,
       Capture!TypeOK
  <2> QED BY <1>4, <2>1, NothingWritten
          DEF TenSecondsPass, Capture!TenSecondsPass, Capture!history, CaptureInv, connVars
<1>5. CASE SwitchRaw
  <2>1. Capture!TypeOK'
    BY <1>5 DEF SwitchRaw, Capture!SwitchRaw, Capture!history, CaptureInv, Capture!TypeOK
  <2> QED BY <1>5, <2>1, NothingWritten
          DEF SwitchRaw, Capture!SwitchRaw, Capture!history, CaptureInv, connVars
<1>6. CASE SaveFails \/ Reconnect
  <2>1. Capture!Quiet /\ UNCHANGED <<run, conn>>
    BY <1>6 DEF SaveFails, Reconnect, Conn!Reconnect, connVars
  <2>2. Capture!TypeOK'
    BY <2>1 DEF Capture!Quiet, Capture!history, CaptureInv, Capture!TypeOK
  <2> QED BY <2>1, <2>2, NothingWritten DEF CaptureInv, Capture!Quiet, Capture!history
<1>7. CASE UNCHANGED vars
  <2>1. UNCHANGED captureVars /\ UNCHANGED <<run, conn>>
    BY <1>7 DEF vars, connVars
  <2> HIDE DEF BufferInv
  <2>2. BufferInv'
    BY <2>1 DEF captureVars, CaptureInv, BufferInv, Capture!TypeOK
  <2> QED BY <2>1, <2>2 DEF captureVars, CaptureInv, CapturesAreWhole, Capture!CapturesAreWhole,
                            PlayersOfTheMatch, Capture!PlayersOfTheMatch
<1> QED BY <1>1, <1>2, <1>3, <1>4, <1>5, <1>6, <1>7 DEF Next

-----------------------------------------------------------------------------
(* The theorems                                                            *)

FeedInv == ConnInv /\ TransInv /\ CaptureInv

LEMMA FeedKept == Spec => []FeedInv
<1>1. Init => FeedInv
  BY ConnInitially, TransInitially, CaptureInitially DEF FeedInv
<1>2. FeedInv /\ [Next]_vars => FeedInv'
  <2> SUFFICES ASSUME FeedInv, [Next]_vars PROVE FeedInv'
    OBVIOUS
  <2>1. [Conn!Next]_connVars
    BY StepsOfConnection DEF vars
  <2> QED BY <2>1, ConnKept, TransKept, CaptureKept DEF FeedInv
<1> QED BY <1>1, <1>2, PTL DEF Spec

\* client.go:170-185: no connection that ends, and no goroutine left behind
\* by one, takes a requested reconnect with it.
THEOREM ReconnectIsKept == Spec => []TokenIsKept
<1>1. FeedInv => TokenIsKept
  BY DEF FeedInv, ConnInv
<1> QED BY <1>1, FeedKept, PTL

\* client.go:139-203: whatever the order of reconnects, failures and late
\* goroutines, packets come from the last connection only.
THEOREM PacketsOfOneConnection == Spec => []OneConnection
<1>1. FeedInv => OneConnection
  BY DEF FeedInv, ConnInv
<1> QED BY <1>1, FeedKept, PTL

\* translator.go:45-239: a subscriber that follows the events knows the
\* match and the overtime the translator knows.
THEOREM EventsTellTheState == Spec => []SubscribersKeepUp
<1>1. FeedInv => SubscribersKeepUp
  BY DEF FeedInv, TransInv
<1> QED BY <1>1, FeedKept, PTL

\* translator.go:52-60: a restart is announced for a match that subscribers
\* hold to be in progress, also across connections.
THEOREM RestartsAreNamed == Spec => RestartNamesTheMatchLeft
<1>1. FeedInv /\ [Next]_vars =>
        [\A i \in DOMAIN out' :
           out'[i].type = "match.restarted" =>
             /\ out'[i].old = seenGuid /\ out'[i].old # NoGuid
             /\ out'[i].guid \notin {NoGuid, seenGuid}]_transVars
  BY TransKept DEF FeedInv, NamesTheMatchLeft
<1> QED BY <1>1, FeedKept, PTL
        DEF Spec, RestartNamesTheMatchLeft, Trans!RestartNamesTheMatchLeft, transVars,
            Trans!vars

\* client.go:188-441: a capture on disk whose metadata count all its chunks
\* has every packet from the first of its connection that names the match to
\* the one that ends it, unless the setting was switched while that
\* connection was up; of a match that was over before, the podium.
THEOREM WholeCaptures == Spec => []CapturesAreWhole
<1>1. FeedInv => CapturesAreWhole
  BY DEF FeedInv, CaptureInv
<1> QED BY <1>1, FeedKept, PTL

\* client.go:205-239, 387-441: the players listed with a capture were seen
\* since the last match end.  It does not say that they were in the match of
\* the capture: those of a match that broke off with its connection, and
\* those of one that another replaced without an end, are listed as well.
THEOREM OwnPlayers == Spec => []PlayersOfTheMatch
<1>1. FeedInv => PlayersOfTheMatch
  BY DEF FeedInv, CaptureInv
<1> QED BY <1>1, FeedKept, PTL
=============================================================================
