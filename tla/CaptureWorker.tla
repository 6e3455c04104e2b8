--------------------------- MODULE CaptureWorker ---------------------------
(***************************************************************************)
(* One StreamWorker of recorder_engine/streamworker.cpp.  Three threads    *)
(* share it without a common lock: the GUI thread (changeSource, stop),    *)
(* the worker's own event loop (onMasterPulse, one pulse per recorded      *)
(* frame, and the end of run()), and the capture thread (captureLoop and   *)
(* the callbacks an ingest session makes on it).  An action is one access  *)
(* to the shared atomics, or one critical section.  A frame is the URL it  *)
(* came from; the timing that decides how many queued frames a pulse pulls *)
(* is left to RecordingTimeline and is any number here.                    *)
(***************************************************************************)
EXTENDS Integers, Sequences

CONSTANTS
  Urls,          \* URLs a session exists for
  FatalUrls,     \* the native-RTMP ones among them: a failure may be permanent
  BadUrls,       \* URLs no backend accepts
  Empty,         \* the empty URL: a blue source
  Grey, Blue,    \* pictures that are no source's
  MaxChanges,    \* BOUND: calls of changeSource
  MaxPosted,     \* BOUND: pulses waiting in the worker's event queue
  MaxQueue       \* the 10 s backstop of m_frameQueue

ASSUME CaptureAssumption ==
  /\ FatalUrls \subseteq Urls
  /\ Urls \cap BadUrls = {}
  /\ Empty \notin Urls \cup BadUrls
  /\ {Grey, Blue} \cap (Urls \cup BadUrls \cup {Empty}) = {}
  /\ MaxChanges \in Nat /\ MaxPosted \in Nat /\ MaxQueue \in Nat \ {0}

VARIABLES
  gui,         \* the GUI thread: idle, inside changeSource, inside stop, stopped
  url,         \* m_url
  restart,     \* m_restartCapture
  running,     \* m_captureRunning
  paintBlue,   \* m_paintBlue
  suppress,    \* m_suppressEnqueue
  quitting,    \* quit() was called on the worker's event loop
  posted,      \* pulses in the worker's event queue
  tick,        \* the worker thread
  painting,    \* the pulse in progress took the paint flag
  latest,      \* m_latestFrame
  cap,         \* the capture thread; "none" until it is launched
  capUrl,      \* currentUrl of captureLoop
  session,     \* a session object exists
  active,      \* m_activeSession points at it
  connected,   \* m_connected
  lastEnq,     \* m_lastFrameEnqueueAtMs: none, fresh, or older than the timeout
  queue,       \* m_frameQueue
  changes      \* history: calls of changeSource

guiVars == <<gui, changes>>
tickVars == <<tick, painting, latest, posted>>
capVars == <<cap, capUrl, session, active, connected>>
vars == <<guiVars, url, restart, running, paintBlue, suppress, quitting,
          tickVars, capVars, lastEnq, queue>>

AnyUrl == Urls \cup BadUrls \cup {Empty}
InChange == {"paint", "suppress", "restart"}
InStop == {"stop", "halt", "request", "quit"}
GuiPc == {"idle", "stopped"} \cup InChange \cup InStop
TickPc == {"setup", "loop", "force", "launch", "start", "paint", "encode",
           "exit", "halt", "join", "done"}
InSession == {"open", "opened", "run", "check", "enqueue"}
CapPc == {"none", "top", "ack", "read", "idle", "backoff", "done"} \cup InSession

Init ==
  /\ gui = "idle" /\ changes = 0
  /\ url \in AnyUrl
  /\ restart = FALSE /\ running = FALSE
  /\ paintBlue = FALSE /\ suppress = FALSE
  /\ quitting = FALSE /\ posted = 0
  /\ tick = "setup" /\ painting = FALSE /\ latest = Grey
  /\ cap = "none" /\ capUrl = Empty
  /\ session = FALSE /\ active = FALSE /\ connected = FALSE
  /\ lastEnq = "none" /\ queue = <<>>

-----------------------------------------------------------------------------
(* GUI thread: changeSource().                                              *)
WriteUrl(u) ==
  /\ gui = "idle" /\ u # url /\ changes < MaxChanges
  /\ url' = u
  /\ gui' = IF u = Empty THEN "paint" ELSE "restart"
  /\ changes' = changes + 1
  /\ UNCHANGED <<restart, running, paintBlue, suppress, quitting, tickVars,
                 capVars, lastEnq, queue>>

AskForBlue ==
  /\ gui = "paint"
  /\ paintBlue' = TRUE
  /\ gui' = "suppress"
  /\ UNCHANGED <<url, restart, running, suppress, quitting, changes, tickVars,
                 capVars, lastEnq, queue>>

SuppressEnqueue ==
  /\ gui = "suppress"
  /\ suppress' = TRUE
  /\ gui' = "restart"
  /\ UNCHANGED <<url, restart, running, paintBlue, quitting, changes, tickVars,
                 capVars, lastEnq, queue>>

AskForRestart ==
  /\ gui = "restart"
  /\ restart' = TRUE
  /\ gui' = "idle"
  /\ UNCHANGED <<url, running, paintBlue, suppress, quitting, changes, tickVars,
                 capVars, lastEnq, queue>>

ChangeSource == (\E u \in AnyUrl : WriteUrl(u)) \/ AskForBlue \/ SuppressEnqueue \/ AskForRestart

(* GUI thread: stop(), called by ReplayManager::stopRecording once the      *)
(* heartbeat has stopped.  requestStop() only makes the session return      *)
(* early, which a session may do at any time; what matters is that it is    *)
(* called on a session that still exists.                                   *)
Stop ==
  \/ /\ gui = "idle" /\ gui' = "stop"
     /\ UNCHANGED <<restart, running, quitting>>
  \/ /\ gui = "stop" /\ gui' = "halt" /\ restart' = TRUE
     /\ UNCHANGED <<running, quitting>>
  \/ /\ gui = "halt" /\ gui' = "request" /\ running' = FALSE
     /\ UNCHANGED <<restart, quitting>>
  \/ /\ gui = "request" /\ gui' = "quit"
     /\ UNCHANGED <<restart, running, quitting>>
  \/ /\ gui = "quit" /\ gui' = "stopped" /\ quitting' = TRUE
     /\ UNCHANGED <<restart, running>>

StopWorker ==
  /\ Stop
  /\ UNCHANGED <<url, paintBlue, suppress, changes, tickVars, capVars, lastEnq,
                 queue>>

-----------------------------------------------------------------------------
(* GUI thread: the heartbeat posts a pulse.                                 *)
MasterPulse ==
  /\ gui = "idle" /\ posted < MaxPosted
  /\ posted' = posted + 1
  /\ UNCHANGED <<guiVars, url, restart, running, paintBlue, suppress, quitting,
                 tick, painting, latest, capVars, lastEnq, queue>>

(* Worker thread: run() sets up the encoder and enters the event loop.      *)
SetupEncoder(ok) ==
  /\ tick = "setup"
  /\ tick' = IF ok THEN "loop" ELSE "done"
  /\ UNCHANGED <<guiVars, url, restart, running, paintBlue, suppress, quitting,
                 painting, latest, posted, capVars, lastEnq, queue>>

Stalled == lastEnq = "stale" /\ running /\ connected

(* onMasterPulse(): the stall detector decides on what it reads here ...    *)
BeginPulse ==
  /\ tick = "loop" /\ posted > 0
  /\ posted' = posted - 1
  /\ tick' = IF Stalled THEN "force" ELSE "launch"
  /\ UNCHANGED <<guiVars, url, restart, running, paintBlue, suppress, quitting,
                 painting, latest, capVars, lastEnq, queue>>

(* ... and asks for a restart here.                                         *)
ForceRestart ==
  /\ tick = "force"
  /\ restart' = TRUE
  /\ tick' = "launch"
  /\ UNCHANGED <<guiVars, url, running, paintBlue, suppress, quitting, painting,
                 latest, posted, capVars, lastEnq, queue>>

(* m_captureThread.joinable() stays true once the thread has been started,  *)
(* whether or not captureLoop() has returned.                               *)
Joinable == cap # "none"

PrepareLaunch ==
  /\ tick = "launch"
  /\ restart' = IF Joinable THEN restart ELSE FALSE
  /\ tick' = IF Joinable THEN "paint" ELSE "start"
  /\ UNCHANGED <<guiVars, url, running, paintBlue, suppress, quitting, painting,
                 latest, posted, capVars, lastEnq, queue>>

LaunchCapture ==
  /\ tick = "start"
  /\ running' = TRUE
  /\ cap' = "top"
  /\ tick' = "paint"
  /\ UNCHANGED <<guiVars, url, restart, paintBlue, suppress, quitting, painting,
                 latest, posted, capUrl, session, active, connected, lastEnq,
                 queue>>

(* processEncoderTick(): take the paint flag, ...                           *)
TakePaintFlag ==
  /\ tick = "paint"
  /\ painting' = paintBlue
  /\ paintBlue' = FALSE
  /\ tick' = "encode"
  /\ UNCHANGED <<guiVars, url, restart, running, suppress, quitting, latest,
                 posted, capVars, lastEnq, queue>>

(* ... then, holding m_frameMutex, flush the queue if it was set and pull   *)
(* the n frames the jitter gate lets through, showing the last of them.     *)
PullFrames(n) ==
  LET left == IF painting THEN <<>> ELSE queue IN
  /\ tick = "encode"
  /\ n \in 0..Len(left)
  /\ queue' = SubSeq(left, n + 1, Len(left))
  /\ latest' = IF n > 0 THEN left[n] ELSE IF painting THEN Blue ELSE latest
  /\ tick' = "loop"
  /\ painting' = FALSE
  /\ UNCHANGED <<guiVars, url, restart, running, paintBlue, suppress, quitting,
                 posted, capVars, lastEnq>>

(* quit() takes effect between two pulses; run() then asserts the shutdown  *)
(* again, because a pulse may have launched the capture thread meanwhile,   *)
(* and joins it.                                                            *)
LeaveFor(next) ==
  /\ tick = "loop" /\ quitting
  /\ tick' = next
  /\ UNCHANGED <<guiVars, url, restart, running, paintBlue, suppress, quitting,
                 painting, latest, posted, capVars, lastEnq, queue>>

LeaveUnasserted == LeaveFor("join")
LeaveLoop == LeaveFor("exit")

AssertShutdown ==
  \/ /\ tick = "exit" /\ tick' = "halt" /\ restart' = TRUE
     /\ UNCHANGED running
  \/ /\ tick = "halt" /\ tick' = "join" /\ running' = FALSE
     /\ UNCHANGED restart

Shutdown ==
  /\ AssertShutdown
  /\ UNCHANGED <<guiVars, url, paintBlue, suppress, quitting, painting, latest,
                 posted, capVars, lastEnq, queue>>

FinishWorker ==
  /\ tick = "join"
  /\ tick' = "done"
  /\ queue' = <<>>
  /\ UNCHANGED <<guiVars, url, restart, running, paintBlue, suppress, quitting,
                 painting, latest, posted, capVars, lastEnq>>

JoinCapture == cap \in {"none", "done"} /\ FinishWorker

-----------------------------------------------------------------------------
(* Capture thread: the head of captureLoop(), one shared access at a time.  *)
TestRunning ==
  /\ cap = "top"
  /\ cap' = IF running THEN "ack" ELSE "done"
  /\ UNCHANGED <<guiVars, url, restart, running, paintBlue, suppress, quitting,
                 tickVars, capUrl, session, active, connected, lastEnq, queue>>

(* The request is acknowledged BEFORE the URL is read, so that a change     *)
(* which comes in between is seen by either one.                            *)
AcknowledgeRestart ==
  /\ cap = "ack"
  /\ restart' = FALSE
  /\ cap' = "read"
  /\ UNCHANGED <<guiVars, url, running, paintBlue, suppress, quitting, tickVars,
                 capUrl, session, active, connected, lastEnq, queue>>

(* No connection for the empty URL; a URL without a backend ends            *)
(* captureLoop(); any other gets a session, published for stop().           *)
ReadUrl ==
  /\ cap = "read"
  /\ capUrl' = url
  /\ connected' = FALSE
  /\ cap' = CASE url = Empty -> "idle" [] url \in BadUrls -> "done" [] OTHER -> "open"
  /\ session' = (url \in Urls)
  /\ active' = (url \in Urls)
  /\ running' = (running /\ url \notin BadUrls)
  /\ UNCHANGED <<guiVars, url, restart, paintBlue, suppress, quitting, tickVars,
                 lastEnq, queue>>

(* shouldStop of the callbacks, which a session polls.                      *)
ShouldStop == restart \/ ~running

(* session->open(): the session reports itself connected while it returns,  *)
(* the stall clock is rebased and the suppression lifted only after that.   *)
SessionOpens ==
  /\ cap = "open"
  /\ cap' = "opened"
  /\ connected' = TRUE
  /\ UNCHANGED <<guiVars, url, restart, running, paintBlue, suppress, quitting,
                 tickVars, capUrl, session, active, lastEnq, queue>>

Settle(suppressed, pending) ==
  /\ cap = "opened"
  /\ cap' = "run"
  /\ lastEnq' = "fresh"
  /\ suppress' = suppressed /\ restart' = pending
  /\ UNCHANGED <<guiVars, url, running, paintBlue, quitting, tickVars, capUrl,
                 session, active, connected, queue>>

SettleAcknowledging == Settle(FALSE, FALSE)
SettleSuppressed == Settle(suppress, restart)
SettleSession == Settle(FALSE, restart)

(* open() or run() returned with a failure; shouldStopNativeRtmpAfterFailure *)
(* ends captureLoop() for good.  The exit for want of a RecordingClock       *)
(* (streamworker.cpp:526) is not taken: startRecording() makes the clock     *)
(* before the workers.                                                       *)
End(from, next, fatal, published, shown) ==
  /\ cap = from
  /\ fatal => capUrl \in FatalUrls
  /\ cap' = IF fatal THEN "done" ELSE next
  /\ running' = (running /\ ~fatal)
  /\ session' = FALSE /\ active' = published /\ connected' = shown
  /\ UNCHANGED <<guiVars, url, restart, paintBlue, suppress, quitting, tickVars,
                 capUrl, lastEnq, queue>>

EndLeavingItPublished(from, next, fatal) == End(from, next, fatal, active, FALSE)
EndSession(from, next, fatal) == End(from, next, fatal, FALSE, FALSE)

OpenFails(fatal) == EndSession("open", "backoff", fatal)
SessionEnds(fatal) == EndSession("run", "top", fatal)

(* The idle loop of an empty URL and the backoff after a failed open.       *)
WakeUp ==
  /\ \/ cap = "idle" /\ ShouldStop
     \/ cap = "backoff"
  /\ cap' = "top"
  /\ UNCHANGED <<guiVars, url, restart, running, paintBlue, suppress, quitting,
                 tickVars, capUrl, session, active, connected, lastEnq, queue>>

(* onVideoFrame(): the suppression is tested first ...                      *)
FrameArrives ==
  /\ cap = "run" /\ ~ShouldStop
  /\ cap' = "check"
  /\ UNCHANGED <<guiVars, url, restart, running, paintBlue, suppress, quitting,
                 tickVars, capUrl, session, active, connected, lastEnq, queue>>

TestSuppressed ==
  /\ cap = "check"
  /\ cap' = IF suppress THEN "run" ELSE "enqueue"
  /\ UNCHANGED <<guiVars, url, restart, running, paintBlue, suppress, quitting,
                 tickVars, capUrl, session, active, connected, lastEnq, queue>>

(* ... and the frame queued under m_frameMutex later, where the pre-drain   *)
(* and the backstop may drop d of the oldest.                               *)
EnqueueDropping(d) ==
  LET grown == Append(queue, capUrl) IN
  /\ cap = "enqueue"
  /\ d \in 0..Len(queue)
  /\ queue' = SubSeq(grown, d + 1, Len(grown))
  /\ cap' = "run"
  /\ lastEnq' = "fresh"
  /\ UNCHANGED <<guiVars, url, restart, running, paintBlue, suppress, quitting,
                 tickVars, capUrl, session, active, connected>>

EnqueueFrame(d) == Len(queue) + 1 - d <= MaxQueue /\ EnqueueDropping(d)

(* m_stallTimeoutMs pass.                                                   *)
TimeoutPasses ==
  /\ lastEnq = "fresh"
  /\ lastEnq' = "stale"
  /\ UNCHANGED <<guiVars, url, restart, running, paintBlue, suppress, quitting,
                 tickVars, capVars, queue>>

-----------------------------------------------------------------------------
WorkerThread ==
  \/ \E ok \in BOOLEAN : SetupEncoder(ok)
  \/ BeginPulse \/ ForceRestart \/ PrepareLaunch \/ LaunchCapture \/ TakePaintFlag
  \/ \E n \in 0..MaxQueue : PullFrames(n)
  \/ LeaveLoop \/ Shutdown \/ JoinCapture

(* What the capture thread does on its own account ...                      *)
CaptureThread ==
  \/ TestRunning \/ AcknowledgeRestart \/ ReadUrl \/ SettleSession \/ WakeUp
  \/ TestSuppressed
  \/ \E d \in 0..MaxQueue : EnqueueFrame(d)
  \/ SessionOpens
  \/ \E fatal \in BOOLEAN : OpenFails(fatal)
  \/ ShouldStop /\ SessionEnds(FALSE)

(* ... and what the peer and the clock do to it.                            *)
Environment ==
  \/ FrameArrives
  \/ \E fatal \in BOOLEAN : SessionEnds(fatal)
  \/ TimeoutPasses

(* stopRecording() waits for the worker and deletes it.                     *)
Stopped ==
  /\ gui = "stopped" /\ tick = "done"
  /\ UNCHANGED vars

Next == ChangeSource \/ StopWorker \/ MasterPulse \/ WorkerThread
        \/ CaptureThread \/ Environment \/ Stopped

Spec == Init /\ [][Next]_vars

(* The threads run, the heartbeat fires, open() has a timeout and run()     *)
(* polls shouldStop; nothing forces a frame, a failure or a GUI command.    *)
Fairness ==
  /\ WF_vars(gui # "idle" /\ (ChangeSource \/ StopWorker))
  /\ WF_vars(MasterPulse)
  /\ WF_vars(WorkerThread)
  /\ WF_vars(CaptureThread)

FairSpec == Spec /\ Fairness

-----------------------------------------------------------------------------
TypeOK ==
  /\ gui \in GuiPc /\ tick \in TickPc /\ cap \in CapPc
  /\ url \in AnyUrl /\ capUrl \in AnyUrl
  /\ restart \in BOOLEAN /\ running \in BOOLEAN /\ paintBlue \in BOOLEAN
  /\ suppress \in BOOLEAN /\ quitting \in BOOLEAN /\ painting \in BOOLEAN
  /\ session \in BOOLEAN /\ active \in BOOLEAN /\ connected \in BOOLEAN
  /\ posted \in 0..MaxPosted /\ changes \in 0..MaxChanges
  /\ latest \in Urls \cup {Grey, Blue}
  /\ lastEnq \in {"none", "fresh", "stale"}
  /\ queue \in Seq(Urls) /\ Len(queue) <= MaxQueue

InConnectLoop == InSession \cup {"idle", "backoff"}

(* No change of URL is lost: once changeSource() has returned and no        *)
(* restart is pending, the capture thread works on m_url, although it reads *)
(* the URL and acknowledges the request without a lock around the two.      *)
FreshUrlWins ==
  cap \in InConnectLoop /\ ~restart /\ gui \notin InChange => capUrl = url

(* A source that runs is not muted: clearing a source and giving it a URL   *)
(* again, however the calls fall into captureLoop(), never leaves a live    *)
(* session whose frames onVideoFrame() throws away.                         *)
LiveIsNotSuppressed ==
  cap \in {"run", "check", "enqueue"} /\ ~restart /\ gui \notin InChange => ~suppress

(* stop() calls requestStop() through m_activeSession from another thread:  *)
(* whatever made the session end, the pointer never outlives it.            *)
ActiveSessionIsAlive == active => session

(* When the worker thread is gone no capture thread is left to enqueue a    *)
(* frame or touch a session, even if a pulse launched it after stop().      *)
NothingOutlivesTheWorker ==
  tick = "done" => cap \in {"none", "done"} /\ queue = <<>> /\ ~session

(* Once stop() has returned the worker thread ends, and so: the flags a late*)
(* pulse reset are asserted again after exec(), and the join cannot hang.   *)
StopTerminates == (gui = "stopped") ~> (tick = "done" /\ NothingOutlivesTheWorker)
=============================================================================
