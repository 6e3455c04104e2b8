------------------------------ MODULE MCStudio ------------------------------
(***************************************************************************)
(* What the main thread keeps beside the source list: the recording        *)
(* session with its phase servo and time reference, the playback worker,   *)
(* the indicators, telemetry and the control clients.  They meet in the    *)
(* calls of UIManager, each of which is an action of every part it         *)
(* changes; each part is looked at on its own: a behaviour is about one,   *)
(* chosen at the start, and the others stand at their beginning.           *)
(***************************************************************************)
EXTENDS SourceRouting

CONSTANTS
  Feeds,                                                     \* of a recording
  Sources, Qualities, Offsets, FrameUnits, ServoStep, Cap,   \* RecordingSession
  MaxQueue, MaxChanges, MaxStarts,
  Leads, Spike, Guard, MinExchanges, LossThreshold,          \* PtpReference
  MaxNow, MaxRounds, MaxSpikes, MaxSteps,
  Urls, MaxListed, MaxLinks, MaxPosted, MaxEdits,            \* StudioSession
  DelayedFeeds, Lengths, MaxBuffer, MaxEvents, MaxSession,   \* Telemetry
  Clients, MaxSent, MaxSurface, MaxPos, MaxVersion, MaxInbox \* ControlServer

VARIABLES
  part,  \* what this behaviour is about
  taping, clock, timing, blue, muxer, feeds, telemetry, hasStats, stats, anchors, reference,
  graded, trim, applied, connected, phase, timecode, queue, changes, starts,  \* RecordingSession
  now, lead, round, wire, spikes, steps, clean, steady, client, window, rejects, servoLock,
  lost, loop, offset, epoch, locked,                                          \* PtpReference
  onAir, listed, worker, live, links, posted, lamps, health, edited, again, url, reply,
  pending, edits,                                                             \* StudioSession
  request, stream, buffer, logging, sessionTime, log, written, heard, timeline, loaded,
  newest, sent,                                                               \* Telemetry
  transport, others, timer, sockets, inbox, outbox, mirror, believes, holder, resume,
  surface, commanded, acted                                                   \* ControlServer

sessionOwn ==
  <<taping, clock, timing, blue, muxer, feeds, telemetry, hasStats, stats, anchors, reference,
    graded, trim, applied, connected, phase, timecode, queue, changes, starts>>
ptpOwn ==
  <<now, lead, round, wire, spikes, steps, clean, steady, client, window, rejects, servoLock,
    lost, loop, offset, epoch, locked>>
studioOwn ==
  <<onAir, listed, worker, live, links, posted, lamps, health, edited, again, url, reply,
    pending, edits>>
showsOwn ==
  <<request, stream, buffer, logging, sessionTime, log, written, heard, timeline, loaded,
    newest, sent>>
controlOwn ==
  <<transport, others, timer, sockets, inbox, outbox, mirror, believes, holder, resume,
    surface, commanded, acted>>
mcVars == <<part, vars, sessionOwn, ptpOwn, studioOwn, showsOwn, controlOwn>>

\* telemetryDelayMs: one unit for some feeds
Delay == [f \in Feeds |-> IF f \in DelayedFeeds THEN 1 ELSE 0]

Session == INSTANCE RecordingSession WITH recording <- taping
Ptp == INSTANCE PtpReference
Studio == INSTANCE StudioSession WITH
  recording <- onAir, sources <- listed, connected <- lamps, stats <- health,
  MaxSources <- MaxListed
Shows == INSTANCE Telemetry WITH
  reply <- request, wire <- stream, recording <- logging, now <- sessionTime,
  pending <- heard, live <- newest, MaxNow <- MaxSession
Control == INSTANCE ControlServer WITH sent <- commanded

ASSUME MCAssumption ==
  /\ Session!SessionAssumption
  /\ Ptp!PtpAssumption
  /\ Studio!StudioAssumption
  /\ Shows!TelemetryAssumption
  /\ Control!ControlAssumption

Parts == {"routing", "session", "ptp", "studio", "telemetry", "control"}

MCInit ==
  /\ part \in Parts
  /\ Init /\ Session!Init /\ Ptp!Init /\ Studio!Init /\ Shows!Init /\ Control!Init
  \* Those that stand still do so in one place.
  /\ part # "routing" => Len(slots) = 1
  /\ part # "ptp" => lead = CHOOSE l \in Leads : TRUE
  /\ part # "studio" => url = CHOOSE u \in Urls : TRUE

MCNext ==
  \/ /\ part = "routing" /\ Next
     /\ UNCHANGED <<part, sessionOwn, ptpOwn, studioOwn, showsOwn, controlOwn>>
  \/ /\ part = "session" /\ Session!Next
     /\ UNCHANGED <<part, vars, ptpOwn, studioOwn, showsOwn, controlOwn>>
  \/ /\ part = "ptp" /\ Ptp!Next
     /\ UNCHANGED <<part, vars, sessionOwn, studioOwn, showsOwn, controlOwn>>
  \/ /\ part = "studio" /\ Studio!Next
     /\ UNCHANGED <<part, vars, sessionOwn, ptpOwn, showsOwn, controlOwn>>
  \/ /\ part = "telemetry" /\ Shows!Next
     /\ UNCHANGED <<part, vars, sessionOwn, ptpOwn, studioOwn, controlOwn>>
  \/ /\ part = "control" /\ Control!Next
     /\ UNCHANGED <<part, vars, sessionOwn, ptpOwn, studioOwn, showsOwn>>
  \/ part # "routing" /\ UNCHANGED mcVars

sessionVars == Session!vars
MCSpec ==
  /\ MCInit /\ [][MCNext]_mcVars
  /\ WF_sessionVars(part = "session" /\ Session!Deliver)
  /\ \A s \in Sources : SF_sessionVars(part = "session" /\ Session!Report(s))

-----------------------------------------------------------------------------
(* The phase servo follows a source that is there, telemetry goes to the    *)
(* track of its feed, and the PTP time is moved by the grandmaster only:    *)
(* each judged on reports that come late, of sources and of rounds.         *)
SessionTrustsTheLiving ==
  /\ part = "session" => Session!ReferenceIsLive /\ Session!TelemetryOnOwnTrack
  /\ part = "ptp" => Ptp!ServoJudgesWell

(* Every camera comes to stand at its place.                                *)
CamerasSettle == []<>(part = "session" => Session!Settled)

(* Playback runs while it should and on providers that exist; what is shown *)
(* of links and of an import is of this recording, of one socket and of the *)
(* URL that is shown; the telemetry at the playhead is the last that took   *)
(* effect there.                                                            *)
StudioIsConsistent ==
  /\ part = "studio" =>
       /\ Studio!PlaybackIsSafe /\ Studio!IndicatorsSettle
       /\ Studio!HealthIsOfOneSocket /\ Studio!PreviewIsOfUrl
  /\ part = "telemetry" => Shows!ShownIsLatest

(* A client that was told it holds the speed holds it, and what a client    *)
(* shows is what is, once it has read all it was sent.                      *)
ClientsKnow ==
  part = "control" => Control!HoldBelongsToClient /\ Control!MirrorsAgree
=============================================================================
