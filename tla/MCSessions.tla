----------------------------- MODULE MCSessions -----------------------------
(***************************************************************************)
(* The capture worker and the ingest sessions it runs.  A worker meets a   *)
(* session only through open(), run() and requestStop(), so each is looked *)
(* at on its own: a behaviour is about one part, chosen at the start, and  *)
(* what belongs to the others stands still.                                *)
(***************************************************************************)
EXTENDS CaptureWorker

CONSTANTS
  Sessions,  \* the SRT or NDI sessions of a process
  Watched,   \* one of them: they are alike
  Sockets, MaxAddresses, MaxOpens, CleanupAtExit,   \* SrtLink
  Codecs, Windows, MaxMessages, MaxInFlight,        \* RtmpSession
  MaxFinds                                          \* NdiSession

VARIABLES
  part,  \* what this behaviour is about
  pc, stopFlag, shown,      \* of every session
  capture, opens,           \* of SRT and NDI
  failure,                  \* of NDI and RTMP
  mode, sock, listenSock, started, left, initialized, refs, live,  \* SrtLink
  finds, finder, receiver, lent, inside, misused,                  \* NdiSession
  unsupported, reconnect, seenVideo, probe, codec, config, messages, received, window,
  nextAck, unsent, wire, up, server, misfed, grounds               \* RtmpSession

srtOwn == <<mode, sock, listenSock, started, left, initialized, refs, live>>
ndiOwn == <<finds, finder, receiver, lent, inside, misused>>
rtmpOwn == <<unsupported, reconnect, seenVideo, probe, codec, config, messages, received,
             window, nextAck, unsent, wire, up, server, misfed, grounds>>
sessionVars == <<pc, stopFlag, shown, capture, opens, failure, srtOwn, ndiOwn, rtmpOwn>>

Srt == INSTANCE SrtLink
Ndi == INSTANCE NdiSession
Rtmp == INSTANCE RtmpSession WITH queue <- messages

ASSUME MCAssumption ==
  /\ Srt!LinkAssumption
  /\ Rtmp!RtmpAssumption
  /\ Ndi!NdiAssumption
  /\ Watched \in Sessions

(* What a part does not use is 0 and stays so.                              *)
NoSrt == /\ mode = 0 /\ sock = 0 /\ listenSock = 0 /\ started = 0 /\ left = 0
         /\ initialized = 0 /\ refs = 0 /\ live = 0
NoNdi == finds = 0 /\ finder = 0 /\ receiver = 0 /\ lent = 0 /\ inside = 0 /\ misused = 0
NoRtmp == /\ unsupported = 0 /\ reconnect = 0 /\ seenVideo = 0 /\ probe = 0 /\ codec = 0
          /\ config = 0 /\ messages = 0 /\ received = 0 /\ window = 0 /\ nextAck = 0
          /\ unsent = 0 /\ wire = 0 /\ up = 0 /\ server = 0 /\ misfed = 0 /\ grounds = 0

MCInit ==
  \/ /\ part = "capture" /\ Init
     /\ pc = 0 /\ stopFlag = 0 /\ shown = 0 /\ capture = 0 /\ opens = 0 /\ failure = 0
     /\ NoSrt /\ NoNdi /\ NoRtmp
  \/ part = "srt" /\ Init /\ url = Empty /\ Srt!Init /\ failure = 0 /\ NoNdi /\ NoRtmp
  \/ part = "ndi" /\ Init /\ url = Empty /\ Ndi!Init /\ NoSrt /\ NoRtmp
  \/ part = "rtmp" /\ Init /\ url = Empty /\ Rtmp!Init /\ capture = 0 /\ opens = 0 /\ NoSrt /\ NoNdi

MCNext ==
  \/ part = "capture" /\ Next /\ UNCHANGED <<part, sessionVars>>
  \/ part = "srt" /\ Srt!Next /\ UNCHANGED <<part, vars, failure, ndiOwn, rtmpOwn>>
  \/ part = "ndi" /\ Ndi!Next /\ UNCHANGED <<part, vars, srtOwn, rtmpOwn>>
  \/ part = "rtmp" /\ Rtmp!Next /\ UNCHANGED <<part, vars, capture, opens, srtOwn, ndiOwn>>
  \/ part # "capture" /\ UNCHANGED <<part, vars, sessionVars>>

srtVars == Srt!vars
rtmpVars == Rtmp!vars
MCSpec ==
  /\ MCInit /\ [][MCNext]_<<part, vars, sessionVars>>
  /\ WF_vars(part = "capture" /\ gui # "idle" /\ (ChangeSource \/ StopWorker))
  /\ WF_vars(part = "capture" /\ MasterPulse)
  /\ WF_vars(part = "capture" /\ WorkerThread)
  /\ WF_vars(part = "capture" /\ CaptureThread)
  /\ WF_srtVars(part = "srt" /\ Srt!Poll(Watched))
  /\ WF_rtmpVars(part = "rtmp" /\ Rtmp!Work)

-----------------------------------------------------------------------------
(* Whatever way a session ends, nothing of it is left: SRT sockets, the     *)
(* port of a listener, the use of libsrt, an NDI receiver or frame.         *)
NothingLeaks ==
  /\ part = "srt" => Srt!SocketsAccountedFor
  /\ part = "ndi" => Ndi!ReceiverDiesQuietly

(* run() of an RTMP session tells the worker of what no retry can mend,     *)
(* decodes each frame with the header that came before it, and lets no      *)
(* server wait for an acknowledgement that will not come.                   *)
RtmpKeepsItsWord ==
  part = "rtmp" => Rtmp!VerdictSurvives /\ Rtmp!FrameHasItsHeader /\ Rtmp!AcknowledgedInTime

(* A session that is asked to stop ends, whatever its peer does or leaves,  *)
(* and for SRT whatever the other session does (they are alike: one stands  *)
(* for both).                                                               *)
SessionsEnd ==
  /\ (part = "srt" /\ Srt!AskedToStop(Watched)) ~> (part = "srt" => Srt!Ended(Watched))
  /\ (part = "rtmp" /\ Rtmp!AskedToStop) ~> (part = "rtmp" => Rtmp!Ended)
=============================================================================
