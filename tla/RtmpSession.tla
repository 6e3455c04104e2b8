---------------------------- MODULE RtmpSession ----------------------------
(***************************************************************************)
(* An RTMP session (ingest/nativertmpingestsession.cpp) on its capture     *)
(* thread: connect, handshake, connect/createStream/play, the receive loop *)
(* and the verdict (lastFailureKind) by which the StreamWorker decides     *)
(* whether the source is tried again; the acknowledgement window; which    *)
(* video configuration a frame is decoded with.  Messages are whole here   *)
(* (RtmpChunks has the chunk layer) and count one unit towards the         *)
(* acknowledgement; time codes and the decoding of audio are left out.     *)
(* The server, the network and the time-outs are external: a server that   *)
(* announced a window sends no more than a window beyond what was          *)
(* acknowledged.                                                           *)
(***************************************************************************)
EXTENDS Integers, Sequences, FiniteSets

CONSTANTS
  Codecs,      \* NativeVideoCodec::H264 and Hevc
  Windows,     \* acknowledgement windows the server asks for
  MaxMessages, \* BOUND: messages of the server
  MaxInFlight  \* BOUND: messages on the wire

RtmpAssumption ==
  /\ Windows \subseteq Nat \ {0} /\ MaxMessages \in Nat /\ MaxInFlight \in Nat \ {0}

Unknown == "Unknown"
Kinds == {"None", "TransientNetwork", "UnsupportedProfile", "DecodeCapability", "MalformedStream"}
Permanent == {"UnsupportedProfile", "DecodeCapability", "MalformedStream"}

VARIABLES
  pc,          \* where the capture thread is
  failure,     \* m_lastFailureKind
  unsupported, \* m_unsupportedReason is not empty
  reconnect,   \* m_reconnectRequested
  seenVideo,   \* m_seenSupportedVideo
  probe,       \* the window for supported video: "closed" before run(), "open", "expired"
  codec,       \* m_videoCodec
  config,      \* m_avcConfig and m_hevcConfig: the header they hold; 0: none
  queue,       \* m_pendingMessages
  received,    \* m_receivedChunkBytes
  window,      \* m_acknowledgementWindowSize
  nextAck,     \* m_nextAcknowledgementAt
  stopFlag,    \* shouldStop()
  shown,       \* what the UI was told last (setConnected)
  wire,        \* sent by the server, not yet read (external)
  up,          \* the TCP connection stands (external)
  server,      \* what the server has sent, and been told (external)
  misfed,      \* history: a frame was decoded with another header than the last one
  grounds,     \* history: run() met something no retry can mend
  unsent       \* history: the last acknowledgement could not be written

verdictVars == <<failure, unsupported, reconnect, grounds>>
videoVars == <<seenVideo, codec, config, misfed>>
ackVars == <<received, window, nextAck, unsent>>
vars == <<pc, verdictVars, probe, videoVars, queue, ackVars, stopFlag, shown, wire, up, server>>

NoConfig == [c \in Codecs |-> 0]

Init ==
  /\ pc = "connecting"
  /\ failure = "None" /\ unsupported = FALSE /\ reconnect = FALSE /\ grounds = FALSE
  /\ probe = "closed"
  /\ seenVideo = FALSE /\ codec = Unknown /\ config = NoConfig /\ misfed = FALSE
  /\ queue = <<>> /\ received = 0 /\ window = 0 /\ nextAck = 0 /\ unsent = FALSE
  /\ stopFlag = FALSE /\ shown = FALSE
  /\ wire = <<>> /\ up = FALSE
  /\ server = [sent |-> 0, acked |-> 0, window |-> 0, header |-> 0]

InOpen == pc \in {"connecting", "handshake", "waitConnect", "waitCreate", "playing"}

NoteGrounds == grounds' = (grounds \/ pc = "running")

(* writeFully() fails: the connection is gone, or takes nothing for         *)
(* kIoTimeoutMs.  Who answers a message goes on all the same.               *)
WriteFails == failure' = "TransientNetwork" /\ UNCHANGED <<unsupported, reconnect, grounds>>

-----------------------------------------------------------------------------
(* The server (external).  `header' numbers the sequence headers it has     *)
(* sent; `malformed' and `unsupported' stand for video, audio and control   *)
(* messages that cannot be parsed, or have a codec nobody supports.         *)
Message == [kind : {"result", "badResult", "error", "reconnectRequest",
                    "ping", "sequenceEnd", "malformed", "unsupported"}]
           \cup [kind : {"window"}, size : Windows]
           \cup [kind : {"header", "coded"}, codec : Codecs]

Reading == pc \in {"waitConnect", "waitCreate", "running"} /\ ~stopFlag /\ queue = <<>>

(* BOUND: what is sent while the session is busy is sent when it reads.     *)
MaySend ==
  /\ up /\ Reading /\ server.sent < MaxMessages /\ Len(wire) < MaxInFlight
  /\ server.window > 0 => server.sent - server.acked < server.window

ServerSends(m) ==
  /\ MaySend
  /\ m.kind \in {"result", "badResult", "error"} => pc \in {"waitConnect", "waitCreate"}
  /\ wire' = Append(wire, [m |-> m, header |-> server.header + (IF m.kind = "header" THEN 1 ELSE 0)])
  /\ server' = [server EXCEPT
       !.sent = @ + 1,
       !.window = IF m.kind = "window" THEN m.size ELSE @,
       !.header = IF m.kind = "header" THEN @ + 1 ELSE @]
  /\ UNCHANGED <<pc, verdictVars, probe, videoVars, queue, ackVars, stopFlag, shown, up>>

ConnectionBreaks ==
  /\ up /\ up' = FALSE
  /\ UNCHANGED <<pc, verdictVars, probe, videoVars, queue, ackVars, stopFlag, shown, wire, server>>

ProbeExpires ==
  /\ probe = "open" /\ probe' = "expired"
  /\ UNCHANGED <<pc, verdictVars, videoVars, queue, ackVars, stopFlag, shown, wire, up, server>>

RequestStop ==
  /\ ~stopFlag /\ stopFlag' = TRUE
  /\ UNCHANGED <<pc, verdictVars, probe, videoVars, queue, ackVars, shown, wire, up, server>>

-----------------------------------------------------------------------------
(* open(): connectAndPlay().  A step that fails or is stopped closes the    *)
(* socket; the worker reads the verdict.                                    *)
OpenFails(kind) ==
  /\ InOpen
  /\ pc' = "ended" /\ failure' = kind /\ up' = FALSE /\ wire' = <<>>
  /\ UNCHANGED <<unsupported, reconnect, grounds, probe, videoVars, queue, ackVars,
                 stopFlag, shown, server>>

Connect ==
  /\ pc = "connecting" /\ ~stopFlag
  /\ up' = TRUE /\ pc' = "handshake"
  /\ UNCHANGED <<verdictVars, probe, videoVars, queue, ackVars, stopFlag, shown, wire, server>>

Handshake ==
  /\ pc = "handshake" /\ up /\ ~stopFlag
  /\ pc' = "waitConnect"
  /\ UNCHANGED <<verdictVars, probe, videoVars, queue, ackVars, stopFlag, shown, wire, up, server>>

ConnectTimesOut == pc = "connecting" /\ OpenFails("TransientNetwork")

HandshakeFails ==
  \/ pc = "handshake" /\ ~up /\ OpenFails("TransientNetwork")
  \/ pc = "handshake" /\ up /\ OpenFails("TransientNetwork")  \* idle for kIoTimeoutMs

WrongVersion ==
  /\ pc = "handshake" /\ up /\ ~stopFlag
  /\ pc' = "ended" /\ failure' = "MalformedStream"
  /\ up' = FALSE /\ wire' = <<>>
  /\ UNCHANGED <<unsupported, reconnect, grounds, probe, videoVars, queue, ackVars,
                 stopFlag, shown, server>>

OpenCancelled == InOpen /\ stopFlag /\ OpenFails(IF pc = "connecting" THEN "TransientNetwork" ELSE failure)

(* play is sent; open() reports the session, run() starts the probe.        *)
Play ==
  /\ pc = "playing" /\ up /\ ~stopFlag
  /\ pc' = "running" /\ shown' = TRUE /\ probe' = "open"
  /\ UNCHANGED <<verdictVars, videoVars, queue, ackVars, stopFlag, wire, up, server>>

PlayFails == pc = "playing" /\ OpenFails("TransientNetwork")

-----------------------------------------------------------------------------
(* noteIncomingChunkBytes(): the acknowledgement due when n more units have *)
(* come in.                                                                 *)
Due(total, next, size) == size > 0 /\ next > 0 /\ total >= next

NextMultiple(total, size) == ((total \div size) + 1) * size

Acknowledge(total) == server' = [server EXCEPT !.acked = total] /\ unsent' = FALSE

NotAcknowledged == unsent' = TRUE /\ UNCHANGED server

(* readMessage() fails: open() gives up with it; in run(), what is          *)
(* unsupported, or the end of the probe, comes before what the read says.   *)
EndsReading(kind) ==
  /\ pc' = IF pc = "running" THEN "closing" ELSE "ended"
  /\ failure' = IF pc = "running" /\ (unsupported \/ (probe = "expired" /\ ~seenVideo))
                THEN "UnsupportedProfile" ELSE kind
  /\ grounds' = (grounds \/ (pc = "running" /\ failure' \in Permanent))
  /\ UNCHANGED <<unsupported, reconnect, probe, videoVars, queue, stopFlag, shown, up>>

(* readMessage(): everything the socket holds is read at once, acknowledged *)
(* if due, parsed and queued.  The parser may reject it.                    *)
Incoming == received + Len(wire)
IsDue == Due(Incoming, nextAck, window)

TakeIn ==
  /\ Reading /\ wire # <<>> /\ wire' = <<>>
  /\ received' = Incoming /\ UNCHANGED window
  /\ nextAck' = IF IsDue THEN NextMultiple(Incoming, window) ELSE nextAck

AcknowledgeIncoming == IF IsDue THEN Acknowledge(Incoming) ELSE UNCHANGED <<server, unsent>>

Read ==
  /\ TakeIn /\ AcknowledgeIncoming
  /\ queue' = wire
  /\ UNCHANGED <<pc, verdictVars, probe, videoVars, stopFlag, shown, up>>

ReadGarbled == TakeIn /\ AcknowledgeIncoming /\ EndsReading("MalformedStream")

ReadUnacknowledged == TakeIn /\ IsDue /\ NotAcknowledged /\ EndsReading("TransientNetwork")

(* Nothing to read: the peer is gone, or silent for too long, or the probe  *)
(* for supported video has expired.                                         *)
ReadFails ==
  /\ Reading /\ wire = <<>>
  /\ EndsReading("TransientNetwork")
  /\ UNCHANGED <<ackVars, wire, server>>

-----------------------------------------------------------------------------
(* processMessage().                                                        *)
Fails(kind) == failure' = kind /\ NoteGrounds /\ UNCHANGED <<unsupported, reconnect>>

(* markUnsupported(): the first time only; run() ends on it in any case.    *)
Unsupported ==
  /\ unsupported' = TRUE /\ UNCHANGED reconnect
  /\ IF unsupported THEN UNCHANGED <<failure, grounds>>
                    ELSE failure' = "UnsupportedProfile" /\ NoteGrounds

(* Mutant: what is already due waits for the next bytes.                    *)
ProcessWindowLater(m) ==
  /\ window' = m.size /\ nextAck' = m.size
  /\ UNCHANGED <<received, unsent, verdictVars, videoVars, server>>

(* configureAcknowledgementWindow(), and the acknowledgement that is        *)
(* already due.                                                             *)
ProcessWindow(m) ==
  /\ window' = m.size
  /\ IF Due(received, m.size, m.size)
     THEN /\ nextAck' = NextMultiple(received, m.size)
          /\ \/ Acknowledge(received) /\ UNCHANGED verdictVars
             \/ NotAcknowledged /\ WriteFails
     ELSE nextAck' = m.size /\ UNCHANGED <<server, unsent, verdictVars>>
  /\ UNCHANGED <<received, videoVars>>

(* A ping is answered.                                                      *)
ProcessPing ==
  /\ UNCHANGED verdictVars \/ WriteFails
  /\ UNCHANGED <<videoVars, ackVars, server>>

ProcessHeader(m, header) ==
  /\ config' = [config EXCEPT ![m.codec] = header]
  /\ codec' = m.codec /\ seenVideo' = TRUE
  /\ UNCHANGED <<verdictVars, misfed, ackVars, server>>

ResetVideoState ==
  /\ codec' = Unknown /\ config' = NoConfig
  /\ UNCHANGED <<verdictVars, seenVideo, misfed, ackVars, server>>

(* A coded frame is dropped unless its codec is the current one and         *)
(* configured; the decoder may turn out to be unable.                       *)
(* Mutant: any configured codec will do.                                    *)
Configured(c) == config[c] > 0

Decodable(c) == codec = c /\ config[c] > 0

ProcessCoded(m, header) ==
  IF Decodable(m.codec)
  THEN /\ misfed' = (misfed \/ config[m.codec] # header)
       /\ \/ UNCHANGED verdictVars
          \/ Fails("DecodeCapability")
       /\ UNCHANGED <<seenVideo, codec, config, ackVars, server>>
  ELSE UNCHANGED <<verdictVars, videoVars, ackVars, server>>

Process(m, header) ==
  \/ m.kind = "window" /\ ProcessWindow(m)
  \/ m.kind = "ping" /\ ProcessPing
  \/ m.kind = "header" /\ ProcessHeader(m, header)
  \/ m.kind = "sequenceEnd" /\ ResetVideoState
  \/ m.kind = "coded" /\ ProcessCoded(m, header)
  \/ /\ m.kind = "malformed"
     /\ Fails("MalformedStream") /\ UNCHANGED <<videoVars, ackVars, server>>
  \/ /\ m.kind = "unsupported"
     /\ Unsupported /\ UNCHANGED <<videoVars, ackVars, server>>

Commands == {"result", "badResult", "error", "reconnectRequest"}

(* waitForCommandResult(): commands other than the answer are dropped, all  *)
(* else is processed.                                                       *)
AwaitResult ==
  /\ pc \in {"waitConnect", "waitCreate"} /\ ~stopFlag /\ queue # <<>>
  /\ LET m == Head(queue).m
     IN /\ m.kind \notin Commands /\ Process(m, Head(queue).header) /\ UNCHANGED <<pc, up, wire>>
        \/ /\ m.kind \in {"result", "badResult"} /\ pc = "waitConnect"
           /\ \/ pc' = "waitCreate" /\ UNCHANGED verdictVars     \* createStream is sent ...
              \/ pc' = "ended" /\ WriteFails                      \* ... or cannot be
           /\ UNCHANGED <<videoVars, ackVars, server, up, wire>>
        \/ /\ pc = "waitCreate"
           /\ \/ m.kind = "result" /\ pc' = "playing" /\ UNCHANGED verdictVars
              \/ m.kind = "badResult" /\ pc' = "ended" /\ Fails("MalformedStream")
           /\ UNCHANGED <<videoVars, ackVars, server, up, wire>>
        \/ /\ m.kind = "error" /\ pc' = "ended"
           /\ UNCHANGED <<verdictVars, videoVars, ackVars, server, up, wire>>
        \/ /\ m.kind = "reconnectRequest" /\ UNCHANGED pc
           /\ UNCHANGED <<verdictVars, videoVars, ackVars, server, up, wire>>
  /\ queue' = Tail(queue)
  /\ UNCHANGED <<probe, stopFlag, shown>>

(* Mutant: only an unsupported profile ends the run.                        *)
EndsOnUnsupportedOnly == reconnect' \/ unsupported'

EndsRun == reconnect' \/ unsupported' \/ failure' \in Permanent

(* run(): one message, then the reasons to stop.                            *)
RunMessage ==
  /\ pc = "running" /\ ~stopFlag /\ queue # <<>> /\ (probe # "expired" \/ seenVideo)
  /\ LET m == Head(queue).m
     IN \/ m.kind \notin Commands /\ Process(m, Head(queue).header)
        \/ /\ m.kind = "reconnectRequest"
           /\ reconnect' = TRUE /\ failure' = "TransientNetwork"
           /\ UNCHANGED <<unsupported, grounds, videoVars, ackVars, server>>
        \/ /\ m.kind \in Commands \ {"reconnectRequest"}
           /\ UNCHANGED <<verdictVars, videoVars, ackVars, server>>
  /\ queue' = Tail(queue)
  /\ pc' = IF EndsRun THEN "closing" ELSE pc
  /\ UNCHANGED <<probe, stopFlag, shown, up, wire>>

ProbeFails ==
  /\ pc = "running" /\ ~stopFlag /\ probe = "expired" /\ ~seenVideo /\ queue # <<>>
  /\ failure' = "UnsupportedProfile" /\ NoteGrounds
  /\ pc' = "closing"
  /\ UNCHANGED <<unsupported, reconnect, probe, videoVars, queue, ackVars, stopFlag, shown,
                 wire, up, server>>

RunStopped ==
  /\ pc = "running" /\ stopFlag
  /\ pc' = "closing"
  /\ UNCHANGED <<verdictVars, probe, videoVars, queue, ackVars, stopFlag, shown, wire, up, server>>

RunCloses ==
  /\ pc = "closing"
  /\ pc' = "ended" /\ shown' = FALSE /\ up' = FALSE /\ wire' = <<>> /\ queue' = <<>>
  /\ UNCHANGED <<verdictVars, probe, videoVars, ackVars, stopFlag, server>>

-----------------------------------------------------------------------------
Work ==
  \/ Connect \/ ConnectTimesOut \/ Handshake \/ HandshakeFails \/ WrongVersion
  \/ OpenCancelled \/ Play \/ PlayFails
  \/ Read \/ ReadGarbled \/ ReadUnacknowledged \/ ReadFails
  \/ AwaitResult \/ RunMessage \/ ProbeFails \/ RunStopped \/ RunCloses

Next ==
  \/ Work
  \/ \E m \in Message : ServerSends(m)
  \/ ConnectionBreaks \/ ProbeExpires \/ RequestStop

(* The thread runs, and every wait of it polls and times out.               *)
Spec == Init /\ [][Next]_vars /\ WF_vars(Work)

-----------------------------------------------------------------------------
(* What run() finds no retry can mend is what the worker gets to read: no   *)
(* reconnect request, no answer that cannot be written and no other failure *)
(* of the network replaces the verdict, and the source is not tried again   *)
(* for ever.                                                                *)
VerdictSurvives == pc = "ended" /\ grounds => failure \in Permanent

(* A frame is decoded with the sequence header the server sent last before  *)
(* it, across codec changes and ends of sequence.                           *)
FrameHasItsHeader == ~misfed

(* The server is never left waiting for an acknowledgement that will not    *)
(* come: whatever the session has taken in, less than a window of it is     *)
(* unacknowledged, also when the server changes the window, unless the last *)
(* acknowledgement could not be written.                                    *)
AcknowledgedInTime == window > 0 /\ ~unsent => received - server.acked < window

(* A stop ends the session, whatever the server does or fails to do.        *)
AskedToStop == stopFlag
Ended == pc = "ended"
StopEndsRun == AskedToStop ~> Ended
=============================================================================
