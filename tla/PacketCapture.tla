---------------------------- MODULE PacketCapture ----------------------------
(***************************************************************************)
(* The raw packet capture of src/internal/rl/client.go:188-441: while the  *)
(* setting raw_packets is on, the packets of a match are kept in memory    *)
(* from the first one that names it and written to a directory when it     *)
(* ends; what is kept is dropped when the connection is lost.              *)
(*                                                                         *)
(* The setting belongs to the configuration, which HTTP handlers change    *)
(* at any time; handle reads it up to three times for one packet.  Of the  *)
(* packets kept the module remembers what makes a capture worth having:    *)
(* the connections they came from, whether the first is the first of its   *)
(* connection that names the match, the last ends it, and none is missing  *)
(* between them.                                                           *)
(*                                                                         *)
(* file is what the last step wrote; switched, heard, named and over are   *)
(* history.                                                                *)
(***************************************************************************)
CONSTANTS
  Guids, NoGuid,   \* match GUIDs, and the empty one
  Conns            \* connections

CaptureAssumption == NoGuid \notin Guids

AnyGuid == Guids \cup {NoGuid}

VARIABLES
  raw,           \* cfg.Storage.RawPackets
  guid,          \* rawPacketGuid
  buf,           \* rawPacketCapture
  closed,        \* rawPacketClosedGuid
  recent,        \* rawPacketClosedAt is less than 10 seconds ago
  lastPlayers,   \* the matches that the remembered players were seen in
  file,          \* the captures written by the last step, at most one
  switched,      \* the setting was changed while this connection is up
  heard,         \* the matches this connection has named that are not over
  named,         \* the matches named since the last match end
  over           \* the matches named before a match end

history == <<heard, named, over>>
vars == <<raw, guid, buf, closed, recent, lastPlayers, file, switched, history>>

\* The two files of a chunk of packets.
ChunkFiles == {"normalized", "wire"}

EmptyBuf == [conns |-> {}, opened |-> FALSE, whole |-> TRUE, ended |-> FALSE]

Init ==
  /\ raw \in BOOLEAN /\ guid = NoGuid /\ buf = EmptyBuf
  /\ closed = NoGuid /\ recent = FALSE
  /\ lastPlayers = {} /\ file = {} /\ switched = FALSE
  /\ heard = {} /\ named = {} /\ over = {}

-----------------------------------------------------------------------------

Opens == {"MatchInitialized", "UpdateState"}
Ends == {"MatchEnded", "MatchDestroyed"}

\* startRawPacketCapture, for a setting read as r: the GUID after it.
StartedAnew(p, r) ==
  IF r /\ p.event \in Opens /\ p.guid # NoGuid /\ ~(recent /\ closed = p.guid)
  THEN p.guid ELSE guid

Started(p, r) == IF guid = NoGuid THEN StartedAnew(p, r) ELSE guid

\* captureRawPacketIfActive before and after the handler, for the settings r.
Captured(p, r) ==
  \/ r[1] /\ guid # NoGuid
  \/ r[3] /\ p.event \in Opens /\ Started(p, r[2]) # NoGuid

With(b, p, c, g) ==
  [conns |-> b.conns \cup {c},
   opened |-> IF b.conns = {} THEN p.event \in Opens /\ p.guid = g /\ g \notin heard
              ELSE b.opened,
   whole |-> b.whole,
   ended |-> p.event \in Ends]

Buffered(p, c, r) ==
  LET g == Started(p, r[2]) IN
    IF Captured(p, r) THEN With(buf, p, c, g)
    ELSE [buf EXCEPT !.whole = @ /\ g = NoGuid]

\* chunkCount: the chunks of which both files were written.
NormalizedCounted(written) == "normalized" \in written

ChunksCounted(written) == written = ChunkFiles

\* flushRawPacketCapture: the directory may not be created, which drops the
\* packets, or a file of a chunk may not be written, which ends the loop.
\* complete: the metadata count a chunk for every packet they count.
Flushed(b, r) ==
  IF b.conns = {} THEN {{}}
  ELSE {{}} \cup {{[guid |-> guid, buf |-> b, players |-> lastPlayers, written |-> w,
                    complete |-> ChunksCounted(w), switched |-> switched \/ r[1] # r[3],
                    named |-> named, podium |-> guid \in over]}
                  : w \in {{}, {"normalized"}, ChunkFiles}}

\* resetRawPacketCaptureState
Reset == guid' = NoGuid /\ buf' = EmptyBuf

\* handleMatchEnded and the case of MatchDestroyed: closeRawPacketCapture,
\* then the match is forgotten.
MatchOver == named' = {} /\ heard' = {} /\ over' = over \cup named

KeepPlayers == UNCHANGED lastPlayers /\ MatchOver

Forget == lastPlayers' = {} /\ MatchOver

Close(b, r) ==
  /\ IF guid = NoGuid THEN UNCHANGED <<closed, recent>>
     ELSE closed' = guid /\ recent' = TRUE
  /\ file' \in Flushed(b, r)
  /\ Reset
  /\ Forget

\* handleMatchStart, handleUpdateState.  An update may list players without
\* naming a match.
Open(p, r, b) ==
  /\ guid' = Started(p, r[2]) /\ buf' = b
  /\ named' = named \cup ({p.guid} \ {NoGuid})
  /\ heard' = heard \cup ({p.guid} \ ({NoGuid} \cup over))
  /\ \/ UNCHANGED lastPlayers
     \/ p.event = "UpdateState" /\ lastPlayers' = lastPlayers \cup {p.guid}
  /\ file' = {}
  /\ UNCHANGED <<closed, recent, over>>

\* handle, for a packet of connection c, with the setting read as r[1], r[2]
\* and r[3].
Handle(p, c, r) ==
  LET b == Buffered(p, c, r) IN
    \/ p.event \in Opens /\ Open(p, r, b)
    \/ p.event \in Ends /\ Close(b, r)
    \/ /\ p.event \notin Opens \cup Ends
       /\ buf' = b /\ file' = {}
       /\ UNCHANGED <<guid, closed, recent, lastPlayers, history>>

\* The setting does not change while handle runs, or it changes between two
\* of its reads.
OnPacket(p, c) ==
  \/ Handle(p, c, <<raw, raw, raw>>) /\ UNCHANGED <<raw, switched>>
  \/ /\ raw' = ~raw /\ switched' = TRUE
     /\ \E mid \in BOOLEAN : Handle(p, c, <<raw, mid, ~raw>>)

-----------------------------------------------------------------------------

\* applyCoreSettings, handleConfig
SwitchRaw ==
  /\ raw' = ~raw /\ switched' = TRUE /\ file' = {}
  /\ UNCHANGED <<guid, buf, closed, recent, lastPlayers, history>>

\* time.Since(c.rawPacketClosedAt)
TenSecondsPass ==
  /\ recent
  /\ recent' = FALSE /\ file' = {}
  /\ UNCHANGED <<raw, guid, buf, closed, lastPlayers, switched, history>>

\* Between packets nothing is written.
Quiet == file' = {} /\ UNCHANGED <<raw, guid, buf, closed, recent, lastPlayers, switched, history>>

\* abortRawPacketCapture, when connect returns.
NextConnection ==
  file' = {} /\ switched' = FALSE /\ heard' = {} /\ UNCHANGED <<named, over>>

KeepBuffered ==
  /\ NextConnection
  /\ UNCHANGED <<raw, guid, buf, closed, recent, lastPlayers>>

Abort ==
  /\ Reset
  /\ NextConnection
  /\ UNCHANGED <<raw, closed, recent, lastPlayers>>

-----------------------------------------------------------------------------
(* Properties                                                              *)

BufType ==
  [conns : SUBSET Conns, opened : BOOLEAN, whole : BOOLEAN, ended : BOOLEAN]

FileType ==
  [guid : AnyGuid, buf : BufType, players : SUBSET AnyGuid, written : SUBSET ChunkFiles,
   complete : BOOLEAN, switched : BOOLEAN, named : SUBSET Guids, podium : BOOLEAN]

TypeOK ==
  /\ raw \in BOOLEAN /\ guid \in AnyGuid /\ buf \in BufType
  /\ closed \in AnyGuid /\ recent \in BOOLEAN
  /\ lastPlayers \in SUBSET AnyGuid /\ file \subseteq FileType
  /\ heard \in SUBSET Guids /\ named \in SUBSET Guids /\ over \in SUBSET Guids
  /\ switched \in BOOLEAN

\* A capture comes from one connection.  Unless the setting was switched
\* while that connection was up, and if the metadata do not say that chunks
\* are missing, it holds every packet from the first of the connection that
\* names the match to the one that ends it, written with none left out.
\* Only of a match that was over before, its podium, the start is missing:
\* ten seconds after the end a state update opens a capture again.
CapturesAreWhole ==
  \A f \in file :
    /\ f.guid \in Guids
    /\ \E c \in Conns : f.buf.conns = {c}
    /\ f.complete /\ ~f.switched =>
         /\ f.written = ChunkFiles
         /\ f.buf.whole /\ f.buf.ended
         /\ f.buf.opened \/ f.podium

\* The players a capture lists were seen in a match named since the last
\* match end, or in a state update without a GUID.  That match may be
\* another: those of a match that broke off with its connection are kept.
PlayersOfTheMatch ==
  \A f \in file : f.players \subseteq f.named \cup {NoGuid}
=============================================================================
