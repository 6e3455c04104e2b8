--------------------------- MODULE CaptureProofs ---------------------------
(***************************************************************************)
(* Proofs about the capture worker and the sessions it runs.  The          *)
(* invariant of the worker adds to the properties what the place of each   *)
(* thread implies: where the capture thread owns a session, and when it    *)
(* may not have been launched yet.  SRT: every socket belongs to the one   *)
(* session that will close it.  NDI: a receiver dies on the thread that    *)
(* uses it, with no call inside and no frame out.  RTMP: the worker reads  *)
(* the verdict run() had grounds for, a frame meets its header and the     *)
(* server its acknowledgement.                                             *)
(***************************************************************************)
EXTENDS MCSessions, FiniteSetTheorems, SequenceTheorems, TLAPS

(* A session exists, is published and may be shown as connected exactly     *)
(* between ReadUrl and EndSession; only then are frames of capUrl queued.   *)
SessionOwned ==
  /\ session <=> cap \in InSession
  /\ active <=> session
  /\ connected => session
  /\ session => capUrl \in Urls

(* The worker launches the capture thread at most once, and ends only after *)
(* it has ended or without having launched it.                              *)
LaunchedOnce ==
  /\ tick \in {"setup", "start"} => cap = "none"
  /\ tick = "done" => cap \in {"none", "done"}
  /\ cap = "none" \/ tick = "done" => queue = <<>>

(* TypeOK, with the Booleans apart.                                         *)
Flags ==
  /\ restart \in BOOLEAN /\ running \in BOOLEAN /\ paintBlue \in BOOLEAN
  /\ suppress \in BOOLEAN /\ quitting \in BOOLEAN /\ painting \in BOOLEAN
  /\ session \in BOOLEAN /\ active \in BOOLEAN /\ connected \in BOOLEAN

Places ==
  /\ gui \in GuiPc /\ tick \in TickPc /\ cap \in CapPc
  /\ url \in AnyUrl /\ capUrl \in AnyUrl
  /\ posted \in 0..MaxPosted /\ changes \in 0..MaxChanges
  /\ latest \in Urls \cup {Grey, Blue}
  /\ lastEnq \in {"none", "fresh", "stale"}
  /\ queue \in Seq(Urls) /\ Len(queue) <= MaxQueue

Rest == Places /\ SessionOwned /\ LaunchedOnce /\ FreshUrlWins /\ LiveIsNotSuppressed

IInv == Flags /\ Rest

USE CaptureAssumption DEF AnyUrl, InChange, InStop, GuiPc, TickPc, InSession, CapPc,
      InConnectLoop, guiVars, tickVars, capVars

LEMMA InitIInv == Init => IInv
<1> SUFFICES ASSUME Init PROVE IInv
  OBVIOUS
<1>1. Flags
  BY Zenon DEF Init, Flags
<1>3. Places
  BY DEF Init, Places
<1>2. SessionOwned /\ LaunchedOnce /\ FreshUrlWins /\ LiveIsNotSuppressed
  BY DEF Init, SessionOwned, LaunchedOnce, FreshUrlWins, LiveIsNotSuppressed
<1> QED
  BY <1>1, <1>2, <1>3 DEF IInv, Rest

(* The GUI thread and the heartbeat.                                        *)
LEMMA GuiStep ==
  ASSUME IInv, ChangeSource \/ StopWorker \/ MasterPulse \/ Stopped
  PROVE  IInv'
<1> USE DEF IInv, Flags, Rest, Places, SessionOwned, LaunchedOnce, FreshUrlWins,
             LiveIsNotSuppressed
<1>1. ASSUME NEW u \in AnyUrl, WriteUrl(u) PROVE IInv'
  <2>1. Flags'
    BY <1>1, Zenon DEF WriteUrl
  <2>2. Rest'
    BY <1>1 DEF WriteUrl
  <2> QED  BY <2>1, <2>2
<1>2. CASE AskForBlue
  <2>1. Flags'
    BY <1>2, Zenon DEF AskForBlue
  <2>2. Rest'
    BY <1>2 DEF AskForBlue
  <2> QED  BY <2>1, <2>2
<1>3. CASE SuppressEnqueue
  <2>1. Flags'
    BY <1>3, Zenon DEF SuppressEnqueue
  <2>2. Rest'
    BY <1>3 DEF SuppressEnqueue
  <2> QED  BY <2>1, <2>2
<1>4. CASE AskForRestart
  <2>1. Flags'
    BY <1>4, Zenon DEF AskForRestart
  <2>2. Rest'
    BY <1>4 DEF AskForRestart
  <2> QED  BY <2>1, <2>2
<1>5. CASE StopWorker
  <2>1. Flags'
    BY <1>5, Zenon DEF StopWorker, Stop
  <2>2. Rest'
    BY <1>5 DEF StopWorker, Stop
  <2> QED  BY <2>1, <2>2
<1>6. CASE MasterPulse
  <2>1. Flags'
    BY <1>6, Zenon DEF MasterPulse
  <2>2. Rest'
    BY <1>6 DEF MasterPulse
  <2> QED  BY <2>1, <2>2
<1>7. CASE Stopped
  <2>1. Flags'
    BY <1>7, Zenon DEF Stopped, vars
  <2>2. Rest'
    BY <1>7 DEF Stopped, vars
  <2> QED  BY <2>1, <2>2
<1> QED
  BY <1>1, <1>2, <1>3, <1>4, <1>5, <1>6, <1>7 DEF ChangeSource

(* The worker thread.                                                       *)
LEMMA WorkerStep ==
  ASSUME IInv, WorkerThread
  PROVE  IInv'
<1> USE DEF IInv, Flags, Rest, Places, SessionOwned, LaunchedOnce, FreshUrlWins,
             LiveIsNotSuppressed
<1>1. ASSUME NEW ok \in BOOLEAN, SetupEncoder(ok) PROVE IInv'
  <2>1. Flags'
    BY <1>1, Zenon DEF SetupEncoder
  <2>2. Rest'
    BY <1>1 DEF SetupEncoder
  <2> QED  BY <2>1, <2>2
<1>2. CASE BeginPulse
  <2>1. Flags'
    BY <1>2, Zenon DEF BeginPulse
  <2>2. Rest'
    BY <1>2 DEF BeginPulse
  <2> QED  BY <2>1, <2>2
<1>3. CASE ForceRestart
  <2>1. Flags'
    BY <1>3, Zenon DEF ForceRestart
  <2>2. Rest'
    BY <1>3 DEF ForceRestart
  <2> QED  BY <2>1, <2>2
<1>4. CASE PrepareLaunch
  <2>1. Flags'
    BY <1>4, Zenon DEF PrepareLaunch, Joinable
  <2>2. Rest'
    BY <1>4 DEF PrepareLaunch, Joinable
  <2> QED  BY <2>1, <2>2
<1>5. CASE LaunchCapture
  <2>1. Flags'
    BY <1>5, Zenon DEF LaunchCapture
  <2>2. Rest'
    BY <1>5 DEF LaunchCapture
  <2> QED  BY <2>1, <2>2
<1>6. CASE TakePaintFlag
  <2>1. Flags'
    BY <1>6, Zenon DEF TakePaintFlag
  <2>2. Rest'
    BY <1>6 DEF TakePaintFlag
  <2> QED  BY <2>1, <2>2
<1>7. ASSUME NEW n \in 0..MaxQueue, PullFrames(n) PROVE IInv'
  <2>1. Flags'
    BY <1>7, Zenon DEF PullFrames
  <2>2. Rest'
    BY <1>7 DEF PullFrames
  <2> QED  BY <2>1, <2>2
<1>8. CASE LeaveLoop
  <2>1. Flags'
    BY <1>8, Zenon DEF LeaveLoop, LeaveFor
  <2>2. Rest'
    BY <1>8 DEF LeaveLoop, LeaveFor
  <2> QED  BY <2>1, <2>2
<1>9. CASE Shutdown
  <2>1. Flags'
    BY <1>9, Zenon DEF Shutdown, AssertShutdown
  <2>2. Rest'
    BY <1>9 DEF Shutdown, AssertShutdown
  <2> QED  BY <2>1, <2>2
<1>10. CASE JoinCapture
  <2>1. Flags'
    BY <1>10, Zenon DEF JoinCapture, FinishWorker
  <2>2. Rest'
    BY <1>10 DEF JoinCapture, FinishWorker
  <2> QED  BY <2>1, <2>2
<1> QED
  BY <1>1, <1>2, <1>3, <1>4, <1>5, <1>6, <1>7, <1>8, <1>9, <1>10 DEF WorkerThread

(* The capture thread, the peer and the clock.                              *)
LEMMA CaptureStep ==
  ASSUME IInv, CaptureThread \/ Environment
  PROVE  IInv'
<1> USE DEF IInv, Flags, Rest, Places, SessionOwned, LaunchedOnce, FreshUrlWins,
             LiveIsNotSuppressed
<1>1. CASE TestRunning
  <2>1. Flags'
    BY <1>1, Zenon DEF TestRunning
  <2>2. Rest'
    BY <1>1 DEF TestRunning
  <2> QED  BY <2>1, <2>2
<1>2. CASE AcknowledgeRestart
  <2>1. Flags'
    BY <1>2, Zenon DEF AcknowledgeRestart
  <2>2. Rest'
    BY <1>2 DEF AcknowledgeRestart
  <2> QED  BY <2>1, <2>2
<1>3. CASE ReadUrl
  <2>1. Flags'
    <3>1. session' \in BOOLEAN /\ active' \in BOOLEAN /\ running' \in BOOLEAN
      <4> HIDE DEF Rest, Flags
      <4> QED  BY <1>3 DEF ReadUrl
    <3>2. /\ restart' \in BOOLEAN /\ paintBlue' \in BOOLEAN /\ suppress' \in BOOLEAN
          /\ quitting' \in BOOLEAN /\ painting' \in BOOLEAN /\ connected' \in BOOLEAN
      <4> HIDE DEF Rest
      <4> QED  BY <1>3, Zenon DEF ReadUrl
    <3> QED  BY <3>1, <3>2
  <2>2. CASE url = Empty
    <3>1. cap' = "idle" /\ ~session' /\ ~active' /\ ~connected'
      BY <1>3, <2>2 DEF ReadUrl
    <3> QED  BY <1>3, <2>1, <2>2, <3>1 DEF ReadUrl
  <2>3. CASE url \in BadUrls
    <3>1. cap' = "done" /\ ~session' /\ ~active' /\ ~connected'
      BY <1>3, <2>3 DEF ReadUrl
    <3> QED  BY <1>3, <2>1, <2>3, <3>1 DEF ReadUrl
  <2>4. CASE url \in Urls
    <3>1. cap' = "open" /\ session' /\ active' /\ ~connected'
      BY <1>3, <2>4 DEF ReadUrl
    <3> QED  BY <1>3, <2>1, <2>4, <3>1 DEF ReadUrl
  <2> QED  BY <2>2, <2>3, <2>4
<1>4. CASE SessionOpens
  <2>1. Flags'
    BY <1>4, Zenon DEF SessionOpens
  <2>2. Rest'
    BY <1>4 DEF SessionOpens
  <2> QED  BY <2>1, <2>2
<1>5. CASE SettleSession
  <2>1. Flags'
    BY <1>5, Zenon DEF SettleSession, Settle
  <2>2. Rest'
    BY <1>5 DEF SettleSession, Settle
  <2> QED  BY <2>1, <2>2
<1>6. CASE WakeUp
  <2>1. Flags'
    BY <1>6, Zenon DEF WakeUp
  <2>2. Rest'
    BY <1>6 DEF WakeUp
  <2> QED  BY <2>1, <2>2
<1>7. CASE FrameArrives
  <2>1. Flags'
    BY <1>7, Zenon DEF FrameArrives
  <2>2. Rest'
    BY <1>7 DEF FrameArrives
  <2> QED  BY <2>1, <2>2
<1>8. CASE TestSuppressed
  <2>1. Flags'
    BY <1>8, Zenon DEF TestSuppressed
  <2>2. Rest'
    BY <1>8 DEF TestSuppressed
  <2> QED  BY <2>1, <2>2
<1>9. ASSUME NEW d \in 0..MaxQueue, EnqueueFrame(d) PROVE IInv'
  <2>1. Flags'
    BY <1>9, Zenon DEF EnqueueFrame, EnqueueDropping
  <2>2. Rest'
    BY <1>9 DEF EnqueueFrame, EnqueueDropping
  <2> QED  BY <2>1, <2>2
<1>10. CASE TimeoutPasses
  <2>1. Flags'
    BY <1>10, Zenon DEF TimeoutPasses
  <2>2. Rest'
    BY <1>10 DEF TimeoutPasses
  <2> QED  BY <2>1, <2>2
<1>11. ASSUME NEW fatal \in BOOLEAN, OpenFails(fatal) PROVE IInv'
  <2>1. Flags'
    BY <1>11, Zenon DEF OpenFails, EndSession, End
  <2>2. Rest'
    BY <1>11 DEF OpenFails, EndSession, End
  <2> QED  BY <2>1, <2>2
<1>12. ASSUME NEW fatal \in BOOLEAN, SessionEnds(fatal) PROVE IInv'
  <2>1. Flags'
    BY <1>12, Zenon DEF SessionEnds, EndSession, End
  <2>2. Rest'
    BY <1>12 DEF SessionEnds, EndSession, End
  <2> QED  BY <2>1, <2>2
<1> QED
  BY <1>1, <1>2, <1>3, <1>4, <1>5, <1>6, <1>7, <1>8, <1>9, <1>10, <1>11, <1>12 DEF CaptureThread,
       Environment

LEMMA Stutter == IInv /\ UNCHANGED vars => IInv'
BY DEF IInv, Rest, Places, Flags, SessionOwned, LaunchedOnce, FreshUrlWins, LiveIsNotSuppressed, vars

(* The inductive invariant holds throughout.                                *)
THEOREM Invariance == Spec => []IInv
<1>1. IInv /\ [Next]_vars => IInv'
  BY GuiStep, WorkerStep, CaptureStep, Stutter DEF Next
<1> QED
  BY InitIInv, <1>1, PTL DEF Spec

(* No change of URL is lost between the acknowledgement and the read, for   *)
(* any number of URLs and changes.                                          *)
THEOREM NoChangeIsLost == Spec => []FreshUrlWins
<1>1. IInv => FreshUrlWins
  BY DEF IInv, Rest
<1> QED
  BY Invariance, <1>1, PTL

(* A live session is never muted by an earlier clear of the source.         *)
THEOREM NotMuted == Spec => []LiveIsNotSuppressed
<1>1. IInv => LiveIsNotSuppressed
  BY DEF IInv, Rest
<1> QED
  BY Invariance, <1>1, PTL

(* stop() never reaches a session that is gone, and the worker leaves       *)
(* neither a capture thread nor a frame behind.                             *)
THEOREM StopIsSafe == Spec => [](ActiveSessionIsAlive /\ NothingOutlivesTheWorker)
<1>1. IInv => ActiveSessionIsAlive /\ NothingOutlivesTheWorker
  BY DEF IInv, Rest, Places, Flags, SessionOwned, LaunchedOnce, ActiveSessionIsAlive,
       NothingOutlivesTheWorker
<1> QED
  BY Invariance, <1>1, PTL

-----------------------------------------------------------------------------
(* Places of the capture thread where nothing of libsrt is in use.          *)
SrtQuiet == {"idle", "resolving", "trying", "starting"}
SrtPlaces == SrtQuiet \cup {"creating", "preparing", "connecting", "accepting",
                      "preparing2", "running", "closing"}

SrtTypeOK ==
  /\ pc \in [Sessions -> SrtPlaces] /\ mode \in [Sessions -> Srt!Modes]
  /\ stopFlag \in [Sessions -> BOOLEAN] /\ capture \in [Sessions -> BOOLEAN]
  /\ sock \in [Sessions -> Sockets \cup {Srt!None}]
  /\ listenSock \in [Sessions -> Sockets \cup {Srt!None}]
  /\ started \in [Sessions -> BOOLEAN] /\ shown \in [Sessions -> BOOLEAN]
  /\ left \in [Sessions -> 0 .. MaxAddresses] /\ opens \in [Sessions -> 0 .. MaxOpens]
  /\ initialized \in BOOLEAN /\ live \subseteq Sockets

(* The place of the capture thread decides what the session may hold, and   *)
(* that a handle about to be overwritten is none.                           *)
SrtPlaceDecides(s) ==
  /\ started[s] <=> pc[s] \notin SrtQuiet
  /\ pc[s] \in SrtQuiet \cup {"creating"} => sock[s] = Srt!None /\ listenSock[s] = Srt!None
  /\ pc[s] = "preparing" => listenSock[s] = Srt!None
  /\ pc[s] = "accepting" => sock[s] = Srt!None
  /\ shown[s] => pc[s] = "running"

(* Who holds which socket.                                                  *)
SrtBooks ==
  /\ \A t \in Sessions : Srt!Held(t) \subseteq live
  /\ \A i \in live : \E t \in Sessions : i \in Srt!Held(t)
  /\ \A t, u \in Sessions : t # u => Srt!Held(t) \cap Srt!Held(u) = {}

SrtUsers == {t \in Sessions : started[t]}
SrtLibrary == refs = Cardinality(SrtUsers) /\ \A t \in Sessions : started[t] => initialized

SrtInv == SrtTypeOK /\ SrtBooks /\ SrtLibrary /\ \A s \in Sessions : SrtPlaceDecides(s)

(* A step of s leaves the place and the handles of t alone.                 *)
SrtUntouched(t) ==
  /\ pc'[t] = pc[t] /\ sock'[t] = sock[t] /\ listenSock'[t] = listenSock[t]
  /\ started'[t] = started[t] /\ shown'[t] = shown[t]

SrtHandleTypes ==
  /\ sock \in [Sessions -> Sockets \cup {Srt!None}]
  /\ listenSock \in [Sessions -> Sockets \cup {Srt!None}]
  /\ started \in [Sessions -> BOOLEAN]
  /\ initialized \in BOOLEAN /\ live \subseteq Sockets

-----------------------------------------------------------------------------
(* SrtLink counts as this module does.                                      *)
LEMMA SrtCounts ==
  \A S : (Srt!IsFiniteSet(S) <=> IsFiniteSet(S)) /\ Srt!Cardinality(S) = Cardinality(S)
BY DEF Srt!IsFiniteSet, IsFiniteSet, Srt!Cardinality, Cardinality

(* The uses of libsrt can be counted.                                       *)
LEMMA UsersFinite ==
  ASSUME Srt!LinkAssumption
  PROVE IsFiniteSet(SrtUsers) /\ Cardinality(SrtUsers) \in Nat
<1>1. IsFiniteSet(Sessions) /\ SrtUsers \subseteq Sessions
  BY SrtCounts DEF Srt!LinkAssumption, SrtUsers
<1> QED BY <1>1, FS_Subset, FS_CardinalityType

(* closeSocket() gives back what this session holds and nothing else: the   *)
(* sockets of the others stay, and libsrt stays up for them.                *)
LEMMA CloseSocketReleases ==
  ASSUME Srt!LinkAssumption, SrtInv, NEW s \in Sessions, Srt!CloseSocket(s)
  PROVE /\ SrtHandleTypes' /\ SrtBooks' /\ SrtLibrary'
        /\ sock'[s] = Srt!None /\ listenSock'[s] = Srt!None /\ ~started'[s]
        /\ \A t \in Sessions \ {s} : sock'[t] = sock[t] /\ listenSock'[t] = listenSock[t]
                                    /\ started'[t] = started[t]
<1>1. /\ sock'[s] = Srt!None /\ listenSock'[s] = Srt!None /\ ~started'[s]
      /\ \A t \in Sessions \ {s} : sock'[t] = sock[t] /\ listenSock'[t] = listenSock[t]
                                  /\ started'[t] = started[t]
  BY DEF SrtInv, SrtTypeOK, Srt!CloseSocket
<1>2. SrtHandleTypes' BY DEF SrtInv, SrtTypeOK, Srt!CloseSocket, SrtHandleTypes
<1>3. live' = live \ Srt!Held(s)
  <2>1. Srt!None \notin live BY DEF SrtInv, SrtTypeOK, Srt!LinkAssumption
  <2> QED BY <2>1 DEF Srt!CloseSocket, Srt!Held
<1>4. SrtBooks'
  <2>1. Srt!Held(s)' = {} BY <1>1 DEF Srt!Held
  <2>2. \A t \in Sessions \ {s} : Srt!Held(t)' = Srt!Held(t) BY <1>1 DEF Srt!Held
  <2>3. \A t \in Sessions : Srt!Held(t)' \subseteq live'
    BY <2>1, <2>2, <1>3 DEF SrtInv, SrtBooks
  <2>4. \A i \in live' : \E t \in Sessions : i \in Srt!Held(t)'
    <3>1. TAKE i \in live'
    <3>2. PICK t \in Sessions : i \in Srt!Held(t) BY <1>3 DEF SrtInv, SrtBooks
    <3>3. t # s BY <3>1, <3>2, <1>3
    <3> QED BY <3>2, <3>3, <2>2
  <2>5. \A t, u \in Sessions : t # u => Srt!Held(t)' \cap Srt!Held(u)' = {}
    BY <2>1, <2>2 DEF SrtInv, SrtBooks
  <2> QED BY <2>3, <2>4, <2>5 DEF SrtBooks
<1>5. SrtLibrary'
  <2>1. SrtUsers' = SrtUsers \ {s} BY <1>1 DEF SrtUsers
  <2>2. CASE started[s]
    <3>1. s \in SrtUsers BY <2>2 DEF SrtUsers
    <3>2. refs = Cardinality(SrtUsers) BY DEF SrtInv, SrtLibrary
    <3>3. Cardinality(SrtUsers') = refs - 1
      BY <3>1, <3>2, <2>1, UsersFinite, FS_RemoveElement
    <3>4. refs > 0 BY <3>1, <3>2, UsersFinite, FS_EmptySet
    <3>5. refs' = refs - 1 BY <2>2, <3>4 DEF Srt!CloseSocket
    <3>6. ASSUME NEW t \in Sessions, started'[t] PROVE initialized'
      <4>1. t \in SrtUsers' BY <3>6 DEF SrtUsers
      <4>2. IsFiniteSet(SrtUsers') BY <2>1, UsersFinite, FS_Subset
      <4>3. Cardinality(SrtUsers') # 0 BY <4>1, <4>2, FS_EmptySet
      <4>4. Cardinality(SrtUsers') \in Nat BY <4>2, FS_CardinalityType
      <4>5. refs' > 0
        <5>1. refs' = Cardinality(SrtUsers') BY <3>3, <3>5
        <5>2. refs' \in Nat /\ refs' # 0 BY <5>1, <4>3, <4>4
        <5> QED BY <5>2
      <4>6. initialized BY <2>2 DEF SrtInv, SrtLibrary
      <4> QED BY <4>5, <4>6 DEF Srt!CloseSocket
    <3> QED BY <3>3, <3>5, <3>6 DEF SrtLibrary
  <2>3. CASE ~started[s]
    <3>1. SrtUsers' = SrtUsers BY <2>1, <2>3 DEF SrtUsers
    <3>2. refs' = refs /\ initialized' = initialized
      BY <2>3 DEF Srt!CloseSocket, SrtInv, SrtTypeOK
    <3>3. \A t \in Sessions : started'[t] => started[t] BY <1>1
    <3> QED BY <3>1, <3>2, <3>3 DEF SrtInv, SrtLibrary
  <2> QED BY <2>2, <2>3
<1> QED BY <1>1, <1>2, <1>4, <1>5

(* A step that leaves the handles alone leaves the books alone.             *)
LEMMA HandlesKept ==
  ASSUME SrtInv, UNCHANGED Srt!socketVars PROVE SrtHandleTypes' /\ SrtBooks' /\ SrtLibrary'
<1>1. \A t : Srt!Held(t)' = Srt!Held(t) BY DEF Srt!Held, Srt!socketVars
<1>2. SrtUsers' = SrtUsers BY DEF SrtUsers, Srt!socketVars
<1> QED BY <1>1, <1>2 DEF SrtInv, SrtTypeOK, SrtHandleTypes, SrtBooks, SrtLibrary, Srt!socketVars

(* A new socket is nobody's, and becomes the data socket of one session.    *)
LEMMA SocketMade ==
  ASSUME Srt!LinkAssumption, SrtInv, NEW s \in Sessions, Srt!CanCreate, sock[s] = Srt!None,
         live' = live \cup {Srt!Fresh}, sock' = [sock EXCEPT ![s] = Srt!Fresh],
         UNCHANGED <<listenSock, started, initialized, refs>>
  PROVE SrtHandleTypes' /\ SrtBooks' /\ SrtLibrary'
<1>1. Srt!Fresh \in Sockets /\ Srt!Fresh \notin live BY DEF Srt!CanCreate, Srt!Fresh
<1>2. Srt!Fresh # Srt!None BY <1>1 DEF Srt!LinkAssumption
<1>3. SrtHandleTypes' BY <1>1 DEF SrtInv, SrtTypeOK, SrtHandleTypes
<1>4. Srt!Held(s)' = Srt!Held(s) \cup {Srt!Fresh} BY <1>2 DEF Srt!Held, SrtInv, SrtTypeOK
<1>5. \A t \in Sessions \ {s} : Srt!Held(t)' = Srt!Held(t) BY DEF Srt!Held, SrtInv, SrtTypeOK
<1>6. \A t \in Sessions : Srt!Fresh \notin Srt!Held(t) BY <1>1 DEF SrtInv, SrtBooks
<1>7. \A t \in Sessions : Srt!Held(t)' \subseteq live' BY <1>4, <1>5 DEF SrtInv, SrtBooks
<1>8. \A i \in live' : \E t \in Sessions : i \in Srt!Held(t)'
  <2>1. TAKE i \in live'
  <2>2. CASE i = Srt!Fresh BY <2>2, <1>4
  <2>3. CASE i \in live
    <3>1. PICK t \in Sessions : i \in Srt!Held(t) BY <2>3 DEF SrtInv, SrtBooks
    <3> QED BY <3>1, <1>4, <1>5
  <2> QED BY <2>2, <2>3
<1>9. \A t, u \in Sessions : t # u => Srt!Held(t)' \cap Srt!Held(u)' = {}
  <2>1. TAKE t, u \in Sessions
  <2>2. HAVE t # u
  <2>3. Srt!Held(t) \cap Srt!Held(u) = {} BY <2>2 DEF SrtInv, SrtBooks
  <2>4. CASE t = s BY <2>2, <2>3, <2>4, <1>4, <1>5, <1>6
  <2>5. CASE u = s BY <2>2, <2>3, <2>5, <1>4, <1>5, <1>6
  <2>6. CASE t # s /\ u # s BY <2>3, <2>6, <1>5
  <2> QED BY <2>4, <2>5, <2>6
<1>10. SrtLibrary'
  <2>1. SrtUsers' = SrtUsers BY DEF SrtUsers
  <2> QED BY <2>1 DEF SrtInv, SrtLibrary
<1> QED BY <1>3, <1>7, <1>8, <1>9, <1>10 DEF SrtBooks

(* A listener's socket changes its name, not its owner.                     *)
LEMMA SocketListens ==
  ASSUME Srt!LinkAssumption, SrtInv, NEW s \in Sessions, listenSock[s] = Srt!None,
         listenSock' = [listenSock EXCEPT ![s] = sock[s]],
         sock' = [sock EXCEPT ![s] = Srt!None],
         UNCHANGED <<live, started, initialized, refs>>
  PROVE SrtHandleTypes' /\ SrtBooks' /\ SrtLibrary'
<1>1. \A t \in Sessions : Srt!Held(t)' = Srt!Held(t) BY DEF Srt!Held, SrtInv, SrtTypeOK
<1>2. SrtUsers' = SrtUsers BY DEF SrtUsers
<1>3. SrtHandleTypes' BY DEF SrtInv, SrtTypeOK, SrtHandleTypes
<1>4. SrtBooks' BY <1>1 DEF SrtInv, SrtBooks
<1> QED BY <1>2, <1>3, <1>4 DEF SrtInv, SrtLibrary

(* acquireSrtLibrary() counts one user more.                                *)
LEMMA LibraryAcquired ==
  ASSUME Srt!LinkAssumption, SrtInv, NEW s \in Sessions, ~started[s], Srt!Acquire(s),
         UNCHANGED <<sock, listenSock, live>>
  PROVE SrtHandleTypes' /\ SrtBooks' /\ SrtLibrary'
<1>1. \A t : Srt!Held(t)' = Srt!Held(t) BY DEF Srt!Held
<1>2. SrtHandleTypes' BY DEF SrtInv, SrtTypeOK, SrtHandleTypes, Srt!Acquire
<1>3. SrtBooks' BY <1>1 DEF SrtInv, SrtBooks
<1>4. SrtUsers' = SrtUsers \cup {s} /\ s \notin SrtUsers BY DEF SrtUsers, Srt!Acquire, SrtInv, SrtTypeOK
<1>5. Cardinality(SrtUsers') = Cardinality(SrtUsers) + 1 BY <1>4, UsersFinite, FS_AddElement
<1> QED BY <1>2, <1>3, <1>5 DEF SrtInv, SrtLibrary, Srt!Acquire

-----------------------------------------------------------------------------
(* At the start no session holds anything.                                  *)
LEMMA SrtInitInv == ASSUME Srt!LinkAssumption PROVE Srt!Init => SrtInv
<1> SUFFICES ASSUME Srt!Init PROVE SrtInv OBVIOUS
<1>1. SrtTypeOK
  <2>1. 0 \in 0 .. MaxAddresses /\ 0 \in 0 .. MaxOpens BY DEF Srt!LinkAssumption
  <2>2. left \in [Sessions -> 0 .. MaxAddresses] /\ opens \in [Sessions -> 0 .. MaxOpens]
    BY <2>1 DEF Srt!Init
  <2> QED BY <2>2 DEF Srt!Init, SrtTypeOK, SrtPlaces, SrtQuiet, Srt!Modes
<1>2. \A t \in Sessions : Srt!Held(t) = {} BY DEF Srt!Init, Srt!Held
<1>3. SrtUsers = {} BY DEF SrtUsers, Srt!Init
<1>4. SrtLibrary BY <1>3, FS_EmptySet DEF SrtLibrary, Srt!Init
<1>5. SrtBooks BY <1>2 DEF SrtBooks, Srt!Init
<1>6. \A s \in Sessions : SrtPlaceDecides(s) BY DEF Srt!Init, SrtPlaceDecides, SrtQuiet
<1> QED BY <1>1, <1>4, <1>5, <1>6 DEF SrtInv

LEMMA SrtOpenKeeps ==
  ASSUME Srt!LinkAssumption, SrtInv, NEW s \in Sessions, Srt!Open(s) PROVE SrtInv'
<1>1. SrtHandleTypes' /\ SrtBooks' /\ SrtLibrary' BY CloseSocketReleases DEF Srt!Open
<1>2. SrtTypeOK'
  <2>1. opens[s] + 1 \in 0 .. MaxOpens BY DEF SrtInv, SrtTypeOK, Srt!Open, Srt!LinkAssumption
  <2>2. opens' \in [Sessions -> 0 .. MaxOpens] BY <2>1 DEF SrtInv, SrtTypeOK, Srt!Open
  <2>3. mode' \in [Sessions -> Srt!Modes] BY DEF SrtInv, SrtTypeOK, Srt!Open
  <2>4. pc' \in [Sessions -> SrtPlaces] /\ stopFlag' \in [Sessions -> BOOLEAN]
    BY DEF SrtInv, SrtTypeOK, Srt!Open, Srt!Goto, SrtPlaces, SrtQuiet
  <2> QED BY <1>1, <2>2, <2>3, <2>4 DEF SrtInv, SrtTypeOK, SrtHandleTypes, Srt!Open
<1>3. SrtPlaceDecides(s)'
  BY CloseSocketReleases DEF SrtInv, SrtTypeOK, SrtPlaceDecides, Srt!Goto, SrtQuiet, Srt!Open
<1>4. ASSUME NEW t \in Sessions, t # s PROVE SrtPlaceDecides(t)'
  <2>1. SrtUntouched(t)
    BY <1>4, CloseSocketReleases DEF SrtInv, SrtTypeOK, SrtUntouched, Srt!Goto, Srt!Open
  <2> QED BY <2>1, <1>4 DEF SrtInv, SrtPlaceDecides, SrtUntouched
<1> QED BY <1>1, <1>2, <1>3, <1>4 DEF SrtInv

LEMMA SrtResolvedKeeps ==
  ASSUME Srt!LinkAssumption, SrtInv, NEW s \in Sessions, Srt!Resolved(s) PROVE SrtInv'
<1>1. SrtHandleTypes' /\ SrtBooks' /\ SrtLibrary' BY HandlesKept DEF Srt!Resolved
<1>2. SrtTypeOK'
  <2>1. left' \in [Sessions -> 0 .. MaxAddresses] BY DEF SrtInv, SrtTypeOK, Srt!Resolved
  <2>2. pc' \in [Sessions -> SrtPlaces]
    BY DEF SrtInv, SrtTypeOK, Srt!Resolved, Srt!Goto, SrtPlaces, SrtQuiet
  <2> QED BY <1>1, <2>1, <2>2 DEF SrtInv, SrtTypeOK, SrtHandleTypes, Srt!Resolved
<1>3. SrtPlaceDecides(s)'
  BY DEF SrtInv, SrtTypeOK, SrtPlaceDecides, Srt!Goto, SrtQuiet, Srt!socketVars, Srt!Resolved
<1>4. ASSUME NEW t \in Sessions, t # s PROVE SrtPlaceDecides(t)'
  <2>1. SrtUntouched(t)
    BY <1>4 DEF SrtInv, SrtTypeOK, SrtUntouched, Srt!Goto, Srt!socketVars, Srt!Resolved
  <2> QED BY <2>1, <1>4 DEF SrtInv, SrtPlaceDecides, SrtUntouched
<1> QED BY <1>1, <1>2, <1>3, <1>4 DEF SrtInv

LEMMA SrtLookupAbandonedKeeps ==
  ASSUME Srt!LinkAssumption, SrtInv, NEW s \in Sessions, Srt!LookupAbandoned(s) PROVE SrtInv'
<1>1. SrtHandleTypes' /\ SrtBooks' /\ SrtLibrary' BY HandlesKept DEF Srt!LookupAbandoned
<1>2. SrtTypeOK'
  BY <1>1 DEF SrtInv, SrtTypeOK, SrtHandleTypes, Srt!Goto, SrtPlaces, SrtQuiet, Srt!LookupAbandoned
<1>3. SrtPlaceDecides(s)'
  BY DEF SrtInv, SrtTypeOK, SrtPlaceDecides, Srt!Goto, SrtQuiet, Srt!socketVars, Srt!LookupAbandoned
<1>4. ASSUME NEW t \in Sessions, t # s PROVE SrtPlaceDecides(t)'
  <2>1. SrtUntouched(t)
    BY <1>4 DEF SrtInv, SrtTypeOK, SrtUntouched, Srt!Goto, Srt!socketVars, Srt!LookupAbandoned
  <2> QED BY <2>1, <1>4 DEF SrtInv, SrtPlaceDecides, SrtUntouched
<1> QED BY <1>1, <1>2, <1>3, <1>4 DEF SrtInv

LEMMA SrtGiveUpKeeps ==
  ASSUME Srt!LinkAssumption, SrtInv, NEW s \in Sessions, Srt!GiveUp(s) PROVE SrtInv'
<1>1. SrtHandleTypes' /\ SrtBooks' /\ SrtLibrary' BY CloseSocketReleases DEF Srt!GiveUp
<1>2. SrtTypeOK'
  BY <1>1 DEF SrtInv, SrtTypeOK, SrtHandleTypes, Srt!LinkAssumption, Srt!Goto, SrtPlaces, SrtQuiet,
       Srt!GiveUp
<1>3. SrtPlaceDecides(s)'
  BY CloseSocketReleases DEF SrtInv, SrtTypeOK, SrtPlaceDecides, Srt!Goto, SrtQuiet, Srt!GiveUp
<1>4. ASSUME NEW t \in Sessions, t # s PROVE SrtPlaceDecides(t)'
  <2>1. SrtUntouched(t)
    BY <1>4, CloseSocketReleases DEF SrtInv, SrtTypeOK, SrtUntouched, Srt!Goto, Srt!GiveUp
  <2> QED BY <2>1, <1>4 DEF SrtInv, SrtPlaceDecides, SrtUntouched
<1> QED BY <1>1, <1>2, <1>3, <1>4 DEF SrtInv

LEMMA SrtTryNextKeeps ==
  ASSUME Srt!LinkAssumption, SrtInv, NEW s \in Sessions, Srt!TryNext(s) PROVE SrtInv'
<1>1. SrtHandleTypes' /\ SrtBooks' /\ SrtLibrary' BY CloseSocketReleases DEF Srt!TryNext
<1>2. SrtTypeOK'
  <2>1. left[s] - 1 \in 0 .. MaxAddresses BY DEF SrtInv, SrtTypeOK, Srt!TryNext, Srt!LinkAssumption
  <2>2. left' \in [Sessions -> 0 .. MaxAddresses] BY <2>1 DEF SrtInv, SrtTypeOK, Srt!TryNext
  <2>3. pc' \in [Sessions -> SrtPlaces]
    BY DEF SrtInv, SrtTypeOK, Srt!TryNext, Srt!Goto, SrtPlaces, SrtQuiet
  <2> QED BY <1>1, <2>2, <2>3 DEF SrtInv, SrtTypeOK, SrtHandleTypes, Srt!TryNext
<1>3. SrtPlaceDecides(s)'
  BY CloseSocketReleases DEF SrtInv, SrtTypeOK, SrtPlaceDecides, Srt!Goto, SrtQuiet, Srt!TryNext
<1>4. ASSUME NEW t \in Sessions, t # s PROVE SrtPlaceDecides(t)'
  <2>1. SrtUntouched(t)
    BY <1>4, CloseSocketReleases DEF SrtInv, SrtTypeOK, SrtUntouched, Srt!Goto, Srt!TryNext
  <2> QED BY <2>1, <1>4 DEF SrtInv, SrtPlaceDecides, SrtUntouched
<1> QED BY <1>1, <1>2, <1>3, <1>4 DEF SrtInv

LEMMA SrtStartLibraryKeeps ==
  ASSUME Srt!LinkAssumption, SrtInv, NEW s \in Sessions, Srt!StartLibrary(s) PROVE SrtInv'
<1>1. SrtHandleTypes' /\ SrtBooks' /\ SrtLibrary'
  <2>1. CASE Srt!Acquire(s)
    <3>1. ~started[s] BY DEF Srt!StartLibrary, SrtInv, SrtPlaceDecides, SrtQuiet
    <3> QED BY <2>1, <3>1, LibraryAcquired DEF Srt!StartLibrary
  <2>2. CASE UNCHANGED <<initialized, refs, started>>
    BY <2>2, HandlesKept DEF Srt!StartLibrary, Srt!socketVars
  <2> QED BY <2>1, <2>2 DEF Srt!StartLibrary
<1>2. SrtTypeOK'
  BY <1>1 DEF SrtInv, SrtTypeOK, SrtHandleTypes, Srt!Goto, SrtPlaces, SrtQuiet, Srt!StartLibrary,
       Srt!Acquire
<1>3. SrtPlaceDecides(s)'
  BY DEF SrtInv, SrtTypeOK, SrtPlaceDecides, Srt!Goto, SrtQuiet, Srt!StartLibrary, Srt!Acquire
<1>4. ASSUME NEW t \in Sessions, t # s PROVE SrtPlaceDecides(t)'
  <2>1. SrtUntouched(t)
    BY <1>4 DEF SrtInv, SrtTypeOK, SrtUntouched, Srt!Goto, Srt!StartLibrary, Srt!Acquire
  <2> QED BY <2>1, <1>4 DEF SrtInv, SrtPlaceDecides, SrtUntouched
<1> QED BY <1>1, <1>2, <1>3, <1>4 DEF SrtInv

LEMMA SrtCreateSocketKeeps ==
  ASSUME Srt!LinkAssumption, SrtInv, NEW s \in Sessions, Srt!CreateSocket(s) PROVE SrtInv'
<1>1. SrtHandleTypes' /\ SrtBooks' /\ SrtLibrary'
  BY SocketMade DEF Srt!CreateSocket, SrtInv, SrtPlaceDecides
<1>2. SrtTypeOK'
  BY <1>1 DEF SrtInv, SrtTypeOK, SrtHandleTypes, Srt!Goto, SrtPlaces, SrtQuiet, Srt!CreateSocket,
       Srt!CanCreate
<1>3. SrtPlaceDecides(s)'
  BY DEF SrtInv, SrtTypeOK, SrtPlaceDecides, Srt!Goto, SrtQuiet, Srt!CreateSocket, Srt!CanCreate
<1>4. ASSUME NEW t \in Sessions, t # s PROVE SrtPlaceDecides(t)'
  <2>1. SrtUntouched(t)
    BY <1>4 DEF SrtInv, SrtTypeOK, SrtUntouched, Srt!Goto, Srt!CreateSocket, Srt!CanCreate
  <2> QED BY <2>1, <1>4 DEF SrtInv, SrtPlaceDecides, SrtUntouched
<1> QED BY <1>1, <1>2, <1>3, <1>4 DEF SrtInv

LEMMA SrtPrepareKeeps ==
  ASSUME Srt!LinkAssumption, SrtInv, NEW s \in Sessions, Srt!Prepare(s) PROVE SrtInv'
<1>1. SrtHandleTypes' /\ SrtBooks' /\ SrtLibrary'
  <2>1. listenSock[s] = Srt!None BY DEF Srt!Prepare, SrtInv, SrtPlaceDecides
  <2>2. CASE mode[s] = "listener" BY <2>1, <2>2, SocketListens DEF Srt!Prepare
  <2>3. CASE mode[s] # "listener" BY <2>3, HandlesKept DEF Srt!Prepare, Srt!socketVars
  <2> QED BY <2>2, <2>3
<1>2. SrtTypeOK'
  BY <1>1 DEF SrtInv, SrtTypeOK, SrtHandleTypes, Srt!Goto, SrtPlaces, SrtQuiet, Srt!Prepare
<1>3. SrtPlaceDecides(s)' BY DEF SrtInv, SrtTypeOK, SrtPlaceDecides, Srt!Goto, SrtQuiet, Srt!Prepare
<1>4. ASSUME NEW t \in Sessions, t # s PROVE SrtPlaceDecides(t)'
  <2>1. SrtUntouched(t) BY <1>4 DEF SrtInv, SrtTypeOK, SrtUntouched, Srt!Goto, Srt!Prepare
  <2> QED BY <2>1, <1>4 DEF SrtInv, SrtPlaceDecides, SrtUntouched
<1> QED BY <1>1, <1>2, <1>3, <1>4 DEF SrtInv

LEMMA SrtAttemptFailsKeeps ==
  ASSUME Srt!LinkAssumption, SrtInv, NEW s \in Sessions, Srt!AttemptFails(s) PROVE SrtInv'
<1>1. SrtHandleTypes' /\ SrtBooks' /\ SrtLibrary' BY CloseSocketReleases DEF Srt!AttemptFails
<1>2. SrtTypeOK'
  BY <1>1 DEF SrtInv, SrtTypeOK, SrtHandleTypes, Srt!LinkAssumption, Srt!Goto, SrtPlaces, SrtQuiet,
     Srt!AttemptFails
<1>3. SrtPlaceDecides(s)'
  BY CloseSocketReleases DEF SrtInv, SrtTypeOK, SrtPlaceDecides, Srt!Goto, SrtQuiet, Srt!AttemptFails
<1>4. ASSUME NEW t \in Sessions, t # s PROVE SrtPlaceDecides(t)'
  <2>1. SrtUntouched(t)
    BY <1>4, CloseSocketReleases DEF SrtInv, SrtTypeOK, SrtUntouched, Srt!Goto, Srt!AttemptFails
  <2> QED BY <2>1, <1>4 DEF SrtInv, SrtPlaceDecides, SrtUntouched
<1> QED BY <1>1, <1>2, <1>3, <1>4 DEF SrtInv

LEMMA SrtConnectedKeeps ==
  ASSUME Srt!LinkAssumption, SrtInv, NEW s \in Sessions, Srt!Connected(s) PROVE SrtInv'
<1>1. SrtHandleTypes' /\ SrtBooks' /\ SrtLibrary' BY HandlesKept DEF Srt!Connected
<1>2. SrtTypeOK'
  BY <1>1 DEF SrtInv, SrtTypeOK, SrtHandleTypes, Srt!Goto, SrtPlaces, SrtQuiet, Srt!Connected,
       Srt!Established
<1>3. SrtPlaceDecides(s)'
  BY DEF SrtInv, SrtTypeOK, SrtPlaceDecides, Srt!Goto, SrtQuiet, Srt!socketVars, Srt!Connected,
       Srt!Established
<1>4. ASSUME NEW t \in Sessions, t # s PROVE SrtPlaceDecides(t)'
  <2>1. SrtUntouched(t)
    BY <1>4 DEF SrtInv, SrtTypeOK, SrtUntouched, Srt!Goto, Srt!socketVars, Srt!Connected,
         Srt!Established
  <2> QED BY <2>1, <1>4 DEF SrtInv, SrtPlaceDecides, SrtUntouched
<1> QED BY <1>1, <1>2, <1>3, <1>4 DEF SrtInv

LEMMA SrtAcceptedKeeps ==
  ASSUME Srt!LinkAssumption, SrtInv, NEW s \in Sessions, Srt!Accepted(s) PROVE SrtInv'
<1>1. SrtHandleTypes' /\ SrtBooks' /\ SrtLibrary'
  BY SocketMade DEF Srt!Accepted, SrtInv, SrtPlaceDecides
<1>2. SrtTypeOK'
  BY <1>1 DEF SrtInv, SrtTypeOK, SrtHandleTypes, Srt!Goto, SrtPlaces, SrtQuiet, Srt!Accepted,
       Srt!Established,
     Srt!CanCreate
<1>3. SrtPlaceDecides(s)'
  BY DEF SrtInv, SrtTypeOK, SrtPlaceDecides, Srt!Goto, SrtQuiet, Srt!Accepted, Srt!Established,
       Srt!CanCreate
<1>4. ASSUME NEW t \in Sessions, t # s PROVE SrtPlaceDecides(t)'
  <2>1. SrtUntouched(t)
    BY <1>4 DEF SrtInv, SrtTypeOK, SrtUntouched, Srt!Goto, Srt!Accepted, Srt!Established, Srt!CanCreate
  <2> QED BY <2>1, <1>4 DEF SrtInv, SrtPlaceDecides, SrtUntouched
<1> QED BY <1>1, <1>2, <1>3, <1>4 DEF SrtInv

LEMMA SrtAcceptedUnusableKeeps ==
  ASSUME Srt!LinkAssumption, SrtInv, NEW s \in Sessions, Srt!AcceptedUnusable(s) PROVE SrtInv'
<1>1. SrtHandleTypes' /\ SrtBooks' /\ SrtLibrary' BY CloseSocketReleases DEF Srt!AcceptedUnusable
<1>2. SrtTypeOK'
  BY <1>1 DEF SrtInv, SrtTypeOK, SrtHandleTypes, Srt!LinkAssumption, Srt!Goto, SrtPlaces, SrtQuiet,
     Srt!AcceptedUnusable
<1>3. SrtPlaceDecides(s)'
  BY CloseSocketReleases DEF SrtInv, SrtTypeOK, SrtPlaceDecides, Srt!Goto, SrtQuiet,
       Srt!AcceptedUnusable
<1>4. ASSUME NEW t \in Sessions, t # s PROVE SrtPlaceDecides(t)'
  <2>1. SrtUntouched(t)
    BY <1>4, CloseSocketReleases DEF SrtInv, SrtTypeOK, SrtUntouched, Srt!Goto, Srt!AcceptedUnusable
  <2> QED BY <2>1, <1>4 DEF SrtInv, SrtPlaceDecides, SrtUntouched
<1> QED BY <1>1, <1>2, <1>3, <1>4 DEF SrtInv

LEMMA SrtRunEndsKeeps ==
  ASSUME Srt!LinkAssumption, SrtInv, NEW s \in Sessions, Srt!RunEnds(s) PROVE SrtInv'
<1>1. SrtHandleTypes' /\ SrtBooks' /\ SrtLibrary' BY HandlesKept DEF Srt!RunEnds
<1>2. SrtTypeOK'
  BY <1>1 DEF SrtInv, SrtTypeOK, SrtHandleTypes, Srt!Goto, SrtPlaces, SrtQuiet, Srt!RunEnds
<1>3. SrtPlaceDecides(s)'
  BY DEF SrtInv, SrtTypeOK, SrtPlaceDecides, Srt!Goto, SrtQuiet, Srt!socketVars, Srt!RunEnds
<1>4. ASSUME NEW t \in Sessions, t # s PROVE SrtPlaceDecides(t)'
  <2>1. SrtUntouched(t)
    BY <1>4 DEF SrtInv, SrtTypeOK, SrtUntouched, Srt!Goto, Srt!socketVars, Srt!RunEnds
  <2> QED BY <2>1, <1>4 DEF SrtInv, SrtPlaceDecides, SrtUntouched
<1> QED BY <1>1, <1>2, <1>3, <1>4 DEF SrtInv

LEMMA SrtRunClosesKeeps ==
  ASSUME Srt!LinkAssumption, SrtInv, NEW s \in Sessions, Srt!RunCloses(s) PROVE SrtInv'
<1>1. SrtHandleTypes' /\ SrtBooks' /\ SrtLibrary' BY CloseSocketReleases DEF Srt!RunCloses
<1>2. SrtTypeOK'
  BY <1>1 DEF SrtInv, SrtTypeOK, SrtHandleTypes, Srt!LinkAssumption, Srt!Goto, SrtPlaces, SrtQuiet,
       Srt!RunCloses
<1>3. SrtPlaceDecides(s)'
  BY CloseSocketReleases DEF SrtInv, SrtTypeOK, SrtPlaceDecides, Srt!Goto, SrtQuiet, Srt!RunCloses
<1>4. ASSUME NEW t \in Sessions, t # s PROVE SrtPlaceDecides(t)'
  <2>1. SrtUntouched(t)
    BY <1>4, CloseSocketReleases DEF SrtInv, SrtTypeOK, SrtUntouched, Srt!Goto, Srt!RunCloses
  <2> QED BY <2>1, <1>4 DEF SrtInv, SrtPlaceDecides, SrtUntouched
<1> QED BY <1>1, <1>2, <1>3, <1>4 DEF SrtInv

LEMMA SrtRequestStopKeeps ==
  ASSUME Srt!LinkAssumption, SrtInv, NEW s \in Sessions, Srt!RequestStop(s) PROVE SrtInv'
<1>1. SrtHandleTypes' /\ SrtBooks' /\ SrtLibrary' BY HandlesKept DEF Srt!RequestStop
<1>2. SrtTypeOK'
  BY <1>1 DEF SrtInv, SrtTypeOK, SrtHandleTypes, Srt!Goto, SrtPlaces, SrtQuiet, Srt!RequestStop
<1>3. SrtPlaceDecides(s)'
  BY DEF SrtInv, SrtTypeOK, SrtPlaceDecides, Srt!Goto, SrtQuiet, Srt!socketVars, Srt!RequestStop
<1>4. ASSUME NEW t \in Sessions, t # s PROVE SrtPlaceDecides(t)'
  <2>1. SrtUntouched(t)
    BY <1>4 DEF SrtInv, SrtTypeOK, SrtUntouched, Srt!Goto, Srt!socketVars, Srt!RequestStop
  <2> QED BY <2>1, <1>4 DEF SrtInv, SrtPlaceDecides, SrtUntouched
<1> QED BY <1>1, <1>2, <1>3, <1>4 DEF SrtInv

LEMMA SrtStopCaptureKeeps ==
  ASSUME Srt!LinkAssumption, SrtInv, NEW s \in Sessions, Srt!StopCapture(s) PROVE SrtInv'
<1>1. SrtHandleTypes' /\ SrtBooks' /\ SrtLibrary' BY HandlesKept DEF Srt!StopCapture
<1>2. SrtTypeOK'
  BY <1>1 DEF SrtInv, SrtTypeOK, SrtHandleTypes, Srt!Goto, SrtPlaces, SrtQuiet, Srt!StopCapture
<1>3. SrtPlaceDecides(s)'
  BY DEF SrtInv, SrtTypeOK, SrtPlaceDecides, Srt!Goto, SrtQuiet, Srt!socketVars, Srt!StopCapture
<1>4. ASSUME NEW t \in Sessions, t # s PROVE SrtPlaceDecides(t)'
  <2>1. SrtUntouched(t)
    BY <1>4 DEF SrtInv, SrtTypeOK, SrtUntouched, Srt!Goto, Srt!socketVars, Srt!StopCapture
  <2> QED BY <2>1, <1>4 DEF SrtInv, SrtPlaceDecides, SrtUntouched
<1> QED BY <1>1, <1>2, <1>3, <1>4 DEF SrtInv

-----------------------------------------------------------------------------
LEMMA SrtStepInv == ASSUME Srt!LinkAssumption, SrtInv, [Srt!Next]_Srt!vars PROVE SrtInv'
<1>1. CASE UNCHANGED Srt!vars
  <2>1. SrtHandleTypes' /\ SrtBooks' /\ SrtLibrary' BY <1>1, HandlesKept DEF Srt!vars, Srt!socketVars
  <2> QED BY <1>1, <2>1 DEF Srt!vars, SrtInv, SrtTypeOK, SrtPlaceDecides
<1>2. ASSUME NEW s \in Sessions, Srt!Step(s) PROVE SrtInv'
  BY <1>2, SrtOpenKeeps, SrtResolvedKeeps, SrtLookupAbandonedKeeps, SrtGiveUpKeeps,
     SrtTryNextKeeps, SrtStartLibraryKeeps, SrtCreateSocketKeeps, SrtPrepareKeeps,
     SrtAttemptFailsKeeps, SrtConnectedKeeps, SrtAcceptedKeeps, SrtAcceptedUnusableKeeps,
     SrtRunEndsKeeps, SrtRunClosesKeeps, SrtRequestStopKeeps, SrtStopCaptureKeeps
  DEF Srt!Step
<1> QED BY <1>1, <1>2 DEF Srt!Next

(* Every variable keeps its type, for any number of sessions and sockets.   *)
THEOREM SrtTypeCorrect == Srt!Spec => []SrtTypeOK
<1>1. SrtInv => SrtTypeOK BY DEF SrtInv
<1>2. Srt!Init => SrtInv BY MCAssumption, SrtInitInv
<1>3. SrtInv /\ [Srt!Next]_Srt!vars => SrtInv' BY MCAssumption, SrtStepInv
<1> QED BY <1>1, <1>2, <1>3, PTL DEF Srt!Spec

(* What the inductive invariant says of the sockets.                        *)
LEMMA SocketsFollow == ASSUME SrtInv PROVE Srt!SocketsAccountedFor
<1>1. live = UNION {Srt!Held(s) : s \in Sessions} BY DEF SrtInv, SrtBooks
<1>2. \A s \in Sessions : pc[s] = "idle" => Srt!Held(s) = {} /\ ~started[s] /\ ~shown[s]
  BY DEF SrtInv, SrtPlaceDecides, SrtQuiet, Srt!Held
<1>3. live # {} => initialized
  <2>1. SUFFICES ASSUME NEW i \in live PROVE initialized OBVIOUS
  <2>2. PICK t \in Sessions : i \in Srt!Held(t) BY DEF SrtInv, SrtBooks
  <2>3. started[t] BY <2>2 DEF SrtInv, SrtPlaceDecides, Srt!Held
  <2> QED BY <2>3 DEF SrtInv, SrtLibrary
<1> QED BY <1>1, <1>2, <1>3, SrtCounts DEF SrtInv, SrtBooks, SrtLibrary, SrtUsers,
       Srt!SocketsAccountedFor

(* closeSocket() on every way out of an attempt and of a session: each      *)
(* socket in libsrt is held by exactly one session that is not idle, and    *)
(* libsrt is up while one of its users is left.                             *)
THEOREM SrtLeaksNothing == Srt!Spec => []Srt!SocketsAccountedFor
<1>1. SrtInv => Srt!SocketsAccountedFor BY MCAssumption, SocketsFollow
<1>2. Srt!Init => SrtInv BY MCAssumption, SrtInitInv
<1>3. SrtInv /\ [Srt!Next]_Srt!vars => SrtInv' BY MCAssumption, SrtStepInv
<1> QED BY <1>1, <1>2, <1>3, PTL DEF Srt!Spec

-----------------------------------------------------------------------------
(* The NDI sessions.                                                        *)
NdiPlaces == {"idle", "finding", "running", "capturing", "frame", "closing"}

NdiTypeOK ==
  /\ pc \in [Sessions -> NdiPlaces]
  /\ stopFlag \in [Sessions -> BOOLEAN] /\ capture \in [Sessions -> BOOLEAN]
  /\ failure \in [Sessions -> {"None", "DecodeCapability", "TransientNetwork"}]
  /\ shown \in [Sessions -> BOOLEAN]
  /\ finds \in [Sessions -> 0 .. MaxFinds] /\ opens \in [Sessions -> 0 .. MaxOpens]
  /\ finder \in [Sessions -> BOOLEAN] /\ receiver \in [Sessions -> BOOLEAN]
  /\ lent \in [Sessions -> BOOLEAN] /\ inside \in [Sessions -> BOOLEAN]
  /\ misused \in [Sessions -> BOOLEAN]

(* The place of the capture thread decides what libndi has given out: the   *)
(* finder while it searches, the receiver while it runs, a call only while  *)
(* it captures, a frame only until it is freed.                             *)
NdiPlaceDecides(s) ==
  /\ finder[s] <=> pc[s] = "finding"
  /\ receiver[s] <=> pc[s] \in {"running", "capturing", "frame", "closing"}
  /\ shown[s] <=> receiver[s]
  /\ inside[s] <=> pc[s] = "capturing"
  /\ lent[s] <=> pc[s] = "frame"
  /\ ~misused[s]

NdiInv == NdiTypeOK /\ \A s \in Sessions : NdiPlaceDecides(s)

(* The other sessions are not touched by a step of s.                       *)
NdiUntouched(t) ==
  /\ pc'[t] = pc[t] /\ shown'[t] = shown[t]
  /\ finder'[t] = finder[t] /\ receiver'[t] = receiver[t]
  /\ lent'[t] = lent[t] /\ inside'[t] = inside[t] /\ misused'[t] = misused[t]

-----------------------------------------------------------------------------
(* Nothing is lent, open or searched for when the sessions are made.        *)
LEMMA NdiInitInv == ASSUME Ndi!NdiAssumption PROVE Ndi!Init => NdiInv
BY DEF Ndi!NdiAssumption, Ndi!Init, NdiInv, NdiTypeOK, NdiPlaceDecides, NdiPlaces

LEMMA NdiOpenKeeps ==
  ASSUME Ndi!NdiAssumption, NdiInv, NEW s \in Sessions, Ndi!Open(s) PROVE NdiInv'
<1> USE DEF Ndi!NdiAssumption, Ndi!Set, Ndi!Goto, NdiPlaces
<1>1. NdiTypeOK'
  <2>1. pc' \in [Sessions -> NdiPlaces] BY DEF NdiInv, NdiTypeOK, Ndi!Open
  <2>2. failure' \in [Sessions -> {"None", "DecodeCapability", "TransientNetwork"}]
    BY DEF NdiInv, NdiTypeOK, Ndi!Open
  <2>3. finds' \in [Sessions -> 0 .. MaxFinds] /\ finder' \in [Sessions -> BOOLEAN]
    <3>1. CASE UNCHANGED <<finds, finder>> BY <3>1 DEF NdiInv, NdiTypeOK
    <3>2. CASE finds' = Ndi!Set(finds, s, 0) /\ finder' = Ndi!Set(finder, s, TRUE)
      <4>1. 0 \in 0 .. MaxFinds OBVIOUS
      <4> QED BY <3>2, <4>1 DEF NdiInv, NdiTypeOK
    <3> QED BY <3>1, <3>2 DEF Ndi!Open
  <2>4. stopFlag' \in [Sessions -> BOOLEAN] BY DEF NdiInv, NdiTypeOK, Ndi!Open
  <2>5. opens' \in [Sessions -> 0 .. MaxOpens]
    <3>1. opens[s] + 1 \in 0 .. MaxOpens BY DEF NdiInv, NdiTypeOK, Ndi!Open
    <3> QED BY <3>1 DEF NdiInv, NdiTypeOK, Ndi!Open
  <2>6. /\ receiver' \in [Sessions -> BOOLEAN]
        /\ misused' \in [Sessions -> BOOLEAN]
    BY DEF NdiInv, NdiTypeOK, Ndi!Open, Ndi!CloseReceiver
  <2> QED BY <2>1, <2>2, <2>3, <2>4, <2>5, <2>6 DEF NdiInv, NdiTypeOK, Ndi!Open
<1>2. NdiPlaceDecides(s)' BY DEF NdiInv, NdiTypeOK, NdiPlaceDecides, Ndi!Open, Ndi!CloseReceiver
<1>3. ASSUME NEW t \in Sessions, t # s PROVE NdiPlaceDecides(t)'
  <2>1. NdiUntouched(t) BY <1>3 DEF NdiInv, NdiTypeOK, NdiUntouched, Ndi!Open, Ndi!CloseReceiver
  <2> QED BY <2>1, <1>3 DEF NdiInv, NdiPlaceDecides, NdiUntouched
<1> QED BY <1>1, <1>2, <1>3 DEF NdiInv

LEMMA NdiFindAgainKeeps ==
  ASSUME Ndi!NdiAssumption, NdiInv, NEW s \in Sessions, Ndi!FindAgain(s) PROVE NdiInv'
<1> USE DEF Ndi!NdiAssumption, Ndi!Set, Ndi!Goto, NdiPlaces
<1>1. NdiTypeOK' BY DEF NdiInv, NdiTypeOK, NdiPlaceDecides, Ndi!FindAgain, Ndi!libraryVars
<1>2. NdiPlaceDecides(s)' BY DEF NdiInv, NdiTypeOK, NdiPlaceDecides, Ndi!FindAgain, Ndi!libraryVars
<1>3. ASSUME NEW t \in Sessions, t # s PROVE NdiPlaceDecides(t)'
  <2>1. NdiUntouched(t) BY <1>3 DEF NdiInv, NdiTypeOK, NdiUntouched, Ndi!FindAgain, Ndi!libraryVars
  <2> QED BY <2>1, <1>3 DEF NdiInv, NdiPlaceDecides, NdiUntouched
<1> QED BY <1>1, <1>2, <1>3 DEF NdiInv

LEMMA NdiNotFoundKeeps ==
  ASSUME Ndi!NdiAssumption, NdiInv, NEW s \in Sessions, Ndi!NotFound(s) PROVE NdiInv'
<1> USE DEF Ndi!NdiAssumption, Ndi!Set, Ndi!Goto, NdiPlaces
<1>1. NdiTypeOK' BY DEF NdiInv, NdiTypeOK, NdiPlaceDecides, Ndi!NotFound
<1>2. NdiPlaceDecides(s)' BY DEF NdiInv, NdiTypeOK, NdiPlaceDecides, Ndi!NotFound
<1>3. ASSUME NEW t \in Sessions, t # s PROVE NdiPlaceDecides(t)'
  <2>1. NdiUntouched(t) BY <1>3 DEF NdiInv, NdiTypeOK, NdiUntouched, Ndi!NotFound
  <2> QED BY <2>1, <1>3 DEF NdiInv, NdiPlaceDecides, NdiUntouched
<1> QED BY <1>1, <1>2, <1>3 DEF NdiInv

LEMMA NdiFoundKeeps ==
  ASSUME Ndi!NdiAssumption, NdiInv, NEW s \in Sessions, Ndi!Found(s) PROVE NdiInv'
<1> USE DEF Ndi!NdiAssumption, Ndi!Set, Ndi!Goto, NdiPlaces
<1>1. NdiTypeOK'
  <2>1. failure' \in [Sessions -> {"None", "DecodeCapability", "TransientNetwork"}]
        /\ pc' \in [Sessions -> NdiPlaces]
    BY DEF NdiInv, NdiTypeOK, Ndi!Found
  <2>2. finder' \in [Sessions -> BOOLEAN] /\ receiver' \in [Sessions -> BOOLEAN]
        /\ shown' \in [Sessions -> BOOLEAN]
    BY DEF NdiInv, NdiTypeOK, Ndi!Found
  <2> QED BY <2>1, <2>2 DEF NdiInv, NdiTypeOK, Ndi!Found
<1>2. NdiPlaceDecides(s)' BY DEF NdiInv, NdiTypeOK, NdiPlaceDecides, Ndi!Found
<1>3. ASSUME NEW t \in Sessions, t # s PROVE NdiPlaceDecides(t)'
  <2>1. NdiUntouched(t) BY <1>3 DEF NdiInv, NdiTypeOK, NdiUntouched, Ndi!Found
  <2> QED BY <2>1, <1>3 DEF NdiInv, NdiPlaceDecides, NdiUntouched
<1> QED BY <1>1, <1>2, <1>3 DEF NdiInv

LEMMA NdiEnterCaptureKeeps ==
  ASSUME Ndi!NdiAssumption, NdiInv, NEW s \in Sessions, Ndi!EnterCapture(s) PROVE NdiInv'
<1> USE DEF Ndi!NdiAssumption, Ndi!Set, Ndi!Goto, NdiPlaces
<1>1. NdiTypeOK' BY DEF NdiInv, NdiTypeOK, NdiPlaceDecides, Ndi!EnterCapture, Ndi!ShouldStop
<1>2. NdiPlaceDecides(s)' BY DEF NdiInv, NdiTypeOK, NdiPlaceDecides, Ndi!EnterCapture, Ndi!ShouldStop
<1>3. ASSUME NEW t \in Sessions, t # s PROVE NdiPlaceDecides(t)'
  <2>1. NdiUntouched(t) BY <1>3 DEF NdiInv, NdiTypeOK, NdiUntouched, Ndi!EnterCapture, Ndi!ShouldStop
  <2> QED BY <2>1, <1>3 DEF NdiInv, NdiPlaceDecides, NdiUntouched
<1> QED BY <1>1, <1>2, <1>3 DEF NdiInv

LEMMA NdiCaptureReturnsKeeps ==
  ASSUME Ndi!NdiAssumption, NdiInv, NEW s \in Sessions, Ndi!CaptureReturns(s) PROVE NdiInv'
<1> USE DEF Ndi!NdiAssumption, Ndi!Set, Ndi!Goto, NdiPlaces
<1>1. NdiTypeOK'
  <2>1. failure' \in [Sessions -> {"None", "DecodeCapability", "TransientNetwork"}]
        /\ pc' \in [Sessions -> NdiPlaces]
    BY DEF NdiInv, NdiTypeOK, Ndi!CaptureReturns
  <2>2. inside' \in [Sessions -> BOOLEAN] /\ lent' \in [Sessions -> BOOLEAN]
    BY DEF NdiInv, NdiTypeOK, Ndi!CaptureReturns
  <2> QED BY <2>1, <2>2 DEF NdiInv, NdiTypeOK, Ndi!CaptureReturns
<1>2. NdiPlaceDecides(s)' BY DEF NdiInv, NdiTypeOK, NdiPlaceDecides, Ndi!CaptureReturns
<1>3. ASSUME NEW t \in Sessions, t # s PROVE NdiPlaceDecides(t)'
  <2>1. NdiUntouched(t) BY <1>3 DEF NdiInv, NdiTypeOK, NdiUntouched, Ndi!CaptureReturns
  <2> QED BY <2>1, <1>3 DEF NdiInv, NdiPlaceDecides, NdiUntouched
<1> QED BY <1>1, <1>2, <1>3 DEF NdiInv

LEMMA NdiFreeFrameKeeps ==
  ASSUME Ndi!NdiAssumption, NdiInv, NEW s \in Sessions, Ndi!FreeFrame(s) PROVE NdiInv'
<1> USE DEF Ndi!NdiAssumption, Ndi!Set, Ndi!Goto, NdiPlaces
<1>1. NdiTypeOK' BY DEF NdiInv, NdiTypeOK, NdiPlaceDecides, Ndi!FreeFrame
<1>2. NdiPlaceDecides(s)' BY DEF NdiInv, NdiTypeOK, NdiPlaceDecides, Ndi!FreeFrame
<1>3. ASSUME NEW t \in Sessions, t # s PROVE NdiPlaceDecides(t)'
  <2>1. NdiUntouched(t) BY <1>3 DEF NdiInv, NdiTypeOK, NdiUntouched, Ndi!FreeFrame
  <2> QED BY <2>1, <1>3 DEF NdiInv, NdiPlaceDecides, NdiUntouched
<1> QED BY <1>1, <1>2, <1>3 DEF NdiInv

LEMMA NdiRunStoppedKeeps ==
  ASSUME Ndi!NdiAssumption, NdiInv, NEW s \in Sessions, Ndi!RunStopped(s) PROVE NdiInv'
<1> USE DEF Ndi!NdiAssumption, Ndi!Set, Ndi!Goto, NdiPlaces
<1>1. NdiTypeOK'
  BY DEF NdiInv, NdiTypeOK, NdiPlaceDecides, Ndi!RunStopped, Ndi!ShouldStop, Ndi!libraryVars
<1>2. NdiPlaceDecides(s)'
  BY DEF NdiInv, NdiTypeOK, NdiPlaceDecides, Ndi!RunStopped, Ndi!ShouldStop, Ndi!libraryVars
<1>3. ASSUME NEW t \in Sessions, t # s PROVE NdiPlaceDecides(t)'
  <2>1. NdiUntouched(t)
    BY <1>3 DEF NdiInv, NdiTypeOK, NdiUntouched, Ndi!RunStopped, Ndi!ShouldStop, Ndi!libraryVars
  <2> QED BY <2>1, <1>3 DEF NdiInv, NdiPlaceDecides, NdiUntouched
<1> QED BY <1>1, <1>2, <1>3 DEF NdiInv

LEMMA NdiRunClosesKeeps ==
  ASSUME Ndi!NdiAssumption, NdiInv, NEW s \in Sessions, Ndi!RunCloses(s) PROVE NdiInv'
<1> USE DEF Ndi!NdiAssumption, Ndi!Set, Ndi!Goto, NdiPlaces
<1>1. NdiTypeOK' BY DEF NdiInv, NdiTypeOK, NdiPlaceDecides, Ndi!RunCloses, Ndi!CloseReceiver
<1>2. NdiPlaceDecides(s)' BY DEF NdiInv, NdiTypeOK, NdiPlaceDecides, Ndi!RunCloses, Ndi!CloseReceiver
<1>3. ASSUME NEW t \in Sessions, t # s PROVE NdiPlaceDecides(t)'
  <2>1. NdiUntouched(t) BY <1>3 DEF NdiInv, NdiTypeOK, NdiUntouched, Ndi!RunCloses, Ndi!CloseReceiver
  <2> QED BY <2>1, <1>3 DEF NdiInv, NdiPlaceDecides, NdiUntouched
<1> QED BY <1>1, <1>2, <1>3 DEF NdiInv

LEMMA NdiRequestStopKeeps ==
  ASSUME Ndi!NdiAssumption, NdiInv, NEW s \in Sessions, Ndi!RequestStop(s) PROVE NdiInv'
<1> USE DEF Ndi!NdiAssumption, Ndi!Set, Ndi!Goto, NdiPlaces
<1>1. NdiTypeOK' BY DEF NdiInv, NdiTypeOK, NdiPlaceDecides, Ndi!RequestStop, Ndi!libraryVars
<1>2. NdiPlaceDecides(s)' BY DEF NdiInv, NdiTypeOK, NdiPlaceDecides, Ndi!RequestStop, Ndi!libraryVars
<1>3. ASSUME NEW t \in Sessions, t # s PROVE NdiPlaceDecides(t)'
  <2>1. NdiUntouched(t) BY <1>3 DEF NdiInv, NdiTypeOK, NdiUntouched, Ndi!RequestStop, Ndi!libraryVars
  <2> QED BY <2>1, <1>3 DEF NdiInv, NdiPlaceDecides, NdiUntouched
<1> QED BY <1>1, <1>2, <1>3 DEF NdiInv

LEMMA NdiStopCaptureKeeps ==
  ASSUME Ndi!NdiAssumption, NdiInv, NEW s \in Sessions, Ndi!StopCapture(s) PROVE NdiInv'
<1> USE DEF Ndi!NdiAssumption, Ndi!Set, Ndi!Goto, NdiPlaces
<1>1. NdiTypeOK' BY DEF NdiInv, NdiTypeOK, NdiPlaceDecides, Ndi!StopCapture, Ndi!libraryVars
<1>2. NdiPlaceDecides(s)' BY DEF NdiInv, NdiTypeOK, NdiPlaceDecides, Ndi!StopCapture, Ndi!libraryVars
<1>3. ASSUME NEW t \in Sessions, t # s PROVE NdiPlaceDecides(t)'
  <2>1. NdiUntouched(t) BY <1>3 DEF NdiInv, NdiTypeOK, NdiUntouched, Ndi!StopCapture, Ndi!libraryVars
  <2> QED BY <2>1, <1>3 DEF NdiInv, NdiPlaceDecides, NdiUntouched
<1> QED BY <1>1, <1>2, <1>3 DEF NdiInv

LEMMA NdiStepInv == ASSUME Ndi!NdiAssumption, NdiInv, [Ndi!Next]_Ndi!vars PROVE NdiInv'
<1>1. CASE UNCHANGED Ndi!vars BY <1>1 DEF Ndi!vars, NdiInv, NdiTypeOK, NdiPlaceDecides
<1>2. ASSUME NEW s \in Sessions, Ndi!Open(s) \/ Ndi!Work(s) \/ Ndi!RequestStop(s) \/ Ndi!StopCapture(s)
      PROVE NdiInv'
  BY <1>2, NdiOpenKeeps, NdiFindAgainKeeps, NdiNotFoundKeeps, NdiFoundKeeps, NdiEnterCaptureKeeps,
     NdiCaptureReturnsKeeps, NdiFreeFrameKeeps, NdiRunStoppedKeeps, NdiRunClosesKeeps,
     NdiRequestStopKeeps, NdiStopCaptureKeeps DEF Ndi!Work
<1> QED BY <1>1, <1>2 DEF Ndi!Next

(* Every variable keeps its type, for any number of sessions.               *)
THEOREM NdiTypeCorrect == Ndi!Spec => []NdiTypeOK
<1>1. NdiInv => NdiTypeOK BY DEF NdiInv
<1>2. Ndi!Init => NdiInv BY MCAssumption, NdiInitInv
<1>3. NdiInv /\ [Ndi!Next]_Ndi!vars => NdiInv' BY MCAssumption, NdiStepInv
<1> QED BY <1>1, <1>2, <1>3, PTL DEF Ndi!Spec

LEMMA ReceiverFollows == ASSUME NdiInv PROVE Ndi!ReceiverDiesQuietly
BY DEF NdiInv, NdiPlaceDecides, Ndi!ReceiverDiesQuietly

(* closeReceiver() never runs while libndi is inside the receiver or has a  *)
(* frame of it out, and a session that has ended has left nothing behind.   *)
THEOREM NdiDiesQuietly == Ndi!Spec => []Ndi!ReceiverDiesQuietly
<1>1. NdiInv => Ndi!ReceiverDiesQuietly BY ReceiverFollows
<1>2. Ndi!Init => NdiInv BY MCAssumption, NdiInitInv
<1>3. NdiInv /\ [Ndi!Next]_Ndi!vars => NdiInv' BY MCAssumption, NdiStepInv
<1> QED BY <1>1, <1>2, <1>3, PTL DEF Ndi!Spec

-----------------------------------------------------------------------------
(* The RTMP session.                                                        *)

(* What the capture thread works on: the wire and the queue hold messages   *)
(* with the number of sequence headers sent up to them.                     *)
RtmpEntry == [m : Rtmp!Message, header : Nat]
RtmpPlaces ==
  {"connecting", "handshake", "waitConnect", "waitCreate", "playing", "running", "closing", "ended"}

RtmpTypeOK ==
  /\ pc \in RtmpPlaces
  /\ failure \in Rtmp!Kinds
  /\ config \in [Codecs -> Nat]
  /\ messages \in Seq(RtmpEntry) /\ wire \in Seq(RtmpEntry)
  /\ received \in Nat /\ window \in Nat /\ nextAck \in Nat
  /\ server \in [sent : Nat, acked : Nat, window : Nat, header : Nat]

RtmpOver == pc \in {"closing", "ended"}

(* The verdict: what run() meets ends it at once.                           *)
RtmpVerdict == grounds => RtmpOver /\ failure \in Rtmp!Permanent

(* The acknowledgement: the next one is due before a window is full.        *)
RtmpAcks ==
  /\ window > 0 => nextAck > 0 /\ received < nextAck
  /\ ~unsent => (window > 0 => nextAck - server.acked =< window)

(* The headers: each message knows the header before it, none is skipped,   *)
(* and the configuration in use is that of the last header taken in.        *)
HeaderBefore(e) == e.header - (IF e.m.kind = "header" THEN 1 ELSE 0)
HeadersInOrder(s) ==
  /\ \A i \in 1 .. Len(s) - 1 : HeaderBefore(s[i + 1]) = s[i].header
  /\ s # <<>> => s[Len(s)].header = server.header
NextHeader(s) == IF s = <<>> THEN server.header ELSE HeaderBefore(s[1])
Unread == IF messages = <<>> THEN wire ELSE messages
RtmpHeaders ==
  /\ messages # <<>> => wire = <<>>
  /\ HeadersInOrder(Unread)
  /\ \A c \in Codecs : Rtmp!Decodable(c) => config[c] = NextHeader(Unread)

RtmpInv ==
  /\ RtmpTypeOK /\ RtmpVerdict /\ RtmpAcks
  /\ ~RtmpOver => RtmpHeaders
  /\ ~misfed

LEMMA MessageParts ==
  ASSUME Rtmp!RtmpAssumption, NEW m \in Rtmp!Message
  PROVE  /\ m.kind = "window" => m.size \in Nat /\ m.size > 0
         /\ m.kind \in {"header", "coded"} => m.codec \in Codecs
<1>1. CASE m \in [kind : {"result", "badResult", "error", "reconnectRequest",
                         "ping", "sequenceEnd", "malformed", "unsupported"}]
  BY <1>1
<1>2. CASE m \in [kind : {"window"}, size : Windows]
  <2>1. m.kind = "window" /\ m.size \in Windows BY <1>2
  <2>2. m.size \in Nat /\ m.size > 0
    <3>1. Windows \subseteq Nat \ {0} BY Rtmp!RtmpAssumption DEF Rtmp!RtmpAssumption
    <3>2. m.size \in Nat \ {0} BY <2>1, <3>1
    <3> QED BY <3>2
  <2> QED BY <2>1, <2>2
<1>3. CASE m \in [kind : {"header", "coded"}, codec : Codecs] BY <1>3
<1> QED BY <1>1, <1>2, <1>3 DEF Rtmp!Message

LEMMA RtmpInitInv == ASSUME Rtmp!RtmpAssumption PROVE Rtmp!Init => RtmpInv
<1> SUFFICES ASSUME Rtmp!Init PROVE RtmpInv OBVIOUS
<1>1. RtmpTypeOK BY DEF Rtmp!Init, RtmpTypeOK, RtmpPlaces, Rtmp!Kinds, Rtmp!NoConfig
<1>2. RtmpVerdict /\ RtmpAcks /\ ~misfed BY DEF Rtmp!Init, RtmpVerdict, RtmpAcks
<1>3. RtmpHeaders
  <2>1. Unread = <<>> BY DEF Rtmp!Init, Unread
  <2>2. \A c \in Codecs : ~Rtmp!Decodable(c) BY DEF Rtmp!Init, Rtmp!Decodable, Rtmp!NoConfig
  <2>3. HeadersInOrder(Unread) BY <2>1 DEF HeadersInOrder
  <2> QED BY <2>1, <2>2, <2>3 DEF Rtmp!Init, RtmpHeaders
<1> QED BY <1>1, <1>2, <1>3 DEF RtmpInv

(* A step that leaves messages, verdict and acknowledgement alone.          *)
LEMMA RtmpQuietKeeps ==
  ASSUME RtmpInv,
         UNCHANGED <<failure, unsupported, grounds, codec, config, misfed>>,
         UNCHANGED <<messages, received, window, nextAck, unsent, wire, server>>,
         pc' \in RtmpPlaces,
         RtmpOver => RtmpOver'
  PROVE  RtmpInv'
<1>1. RtmpTypeOK' BY DEF RtmpInv, RtmpTypeOK
<1>2. RtmpVerdict' /\ RtmpAcks' /\ ~misfed' BY DEF RtmpInv, RtmpVerdict, RtmpAcks
<1>3. ~RtmpOver' => RtmpHeaders'
  BY DEF RtmpInv, RtmpHeaders, HeadersInOrder, NextHeader, Unread, Rtmp!Decodable
<1> QED BY <1>1, <1>2, <1>3 DEF RtmpInv

(* A step that ends the session, with a verdict run() has grounds for.      *)
LEMMA RtmpEndingKeeps ==
  ASSUME RtmpInv, ~RtmpOver, pc' \in {"closing", "ended"}, failure' \in Rtmp!Kinds,
         grounds' => failure' \in Rtmp!Permanent,
         UNCHANGED <<config, misfed, window>>,
         received' \in Nat, nextAck' \in Nat, RtmpAcks',
         server' \in [sent : Nat, acked : Nat, window : Nat, header : Nat],
         messages' \in Seq(RtmpEntry), wire' \in Seq(RtmpEntry)
  PROVE  RtmpInv'
<1>1. RtmpOver' BY DEF RtmpOver
<1>2. RtmpTypeOK' BY DEF RtmpInv, RtmpTypeOK, RtmpPlaces
<1>3. RtmpVerdict' BY <1>1 DEF RtmpVerdict
<1> QED BY <1>1, <1>2, <1>3 DEF RtmpInv

(* What has been counted and acknowledged is left alone.                    *)
LEMMA RtmpAcksKept ==
  ASSUME RtmpInv, UNCHANGED <<received, window, nextAck, unsent, server>>
  PROVE  /\ received' \in Nat /\ nextAck' \in Nat /\ RtmpAcks'
         /\ server' \in [sent : Nat, acked : Nat, window : Nat, header : Nat]
BY DEF RtmpInv, RtmpTypeOK, RtmpAcks

-----------------------------------------------------------------------------
LEMMA RtmpServerKeeps ==
  ASSUME Rtmp!RtmpAssumption, RtmpInv, NEW m \in Rtmp!Message, Rtmp!ServerSends(m)
  PROVE  RtmpInv'
<1> DEFINE e == [m |-> m, header |-> server.header + (IF m.kind = "header" THEN 1 ELSE 0)]
<1>1. /\ messages = <<>> /\ wire' = Append(wire, e) /\ ~RtmpOver
      /\ UNCHANGED <<pc, failure, unsupported, grounds, codec, config, misfed, messages, received,
                     window, nextAck, unsent>>
  BY DEF Rtmp!ServerSends, Rtmp!MaySend, Rtmp!Reading, RtmpOver, Rtmp!verdictVars,
    Rtmp!videoVars, Rtmp!ackVars
<1>2. /\ server'.header = e.header /\ server'.acked = server.acked
      /\ server' \in [sent : Nat, acked : Nat, window : Nat, header : Nat]
  <2>1. server \in [sent : Nat, acked : Nat, window : Nat, header : Nat]
    BY DEF RtmpInv, RtmpTypeOK
  <2>2. CASE m.kind = "window"
    <3>1. e.header = server.header BY <2>1, <2>2
    <3>2. server' = [sent |-> server.sent + 1, acked |-> server.acked, window |-> m.size,
                     header |-> server.header]
      BY <2>1, <2>2 DEF Rtmp!ServerSends
    <3>3. m.size \in Nat BY <2>2, MessageParts
    <3> HIDE DEF e
    <3> QED BY <2>1, <3>1, <3>2, <3>3
  <2>3. CASE m.kind = "header"
    <3>1. e.header = server.header + 1 BY <2>1, <2>3
    <3>2. server' = [sent |-> server.sent + 1, acked |-> server.acked, window |-> server.window,
                     header |-> server.header + 1]
      BY <2>1, <2>3 DEF Rtmp!ServerSends
    <3> HIDE DEF e
    <3> QED BY <2>1, <3>1, <3>2
  <2>4. CASE m.kind \notin {"window", "header"}
    <3>1. e.header = server.header BY <2>1, <2>4
    <3>2. server' = [sent |-> server.sent + 1, acked |-> server.acked, window |-> server.window,
                     header |-> server.header]
      BY <2>1, <2>4 DEF Rtmp!ServerSends
    <3> HIDE DEF e
    <3> QED BY <2>1, <3>1, <3>2
  <2> QED BY <2>2, <2>3, <2>4
<1>3. e \in RtmpEntry /\ HeaderBefore(e) = server.header
  BY DEF RtmpEntry, HeaderBefore, RtmpInv, RtmpTypeOK
<1>4. wire \in Seq(RtmpEntry) BY DEF RtmpInv, RtmpTypeOK
<1> HIDE DEF e
<1>5. wire' \in Seq(RtmpEntry) /\ Len(wire') = Len(wire) + 1 /\ wire' # <<>>
      /\ wire'[Len(wire) + 1] = e /\ \A i \in 1 .. Len(wire) : wire'[i] = wire[i]
  BY <1>1, <1>3, <1>4
<1>6. RtmpTypeOK' BY <1>1, <1>2, <1>5 DEF RtmpInv, RtmpTypeOK
<1>7. RtmpVerdict' /\ RtmpAcks' /\ ~misfed'
  BY <1>1, <1>2 DEF RtmpInv, RtmpVerdict, RtmpAcks, RtmpOver
<1>8. RtmpHeaders'
  <2>1. Unread = wire /\ Unread' = wire' BY <1>1 DEF Unread
  <2>2. /\ \A i \in 1 .. Len(wire) - 1 : HeaderBefore(wire[i + 1]) = wire[i].header
        /\ wire # <<>> => wire[Len(wire)].header = server.header
    BY <1>1, <2>1 DEF RtmpInv, RtmpHeaders, HeadersInOrder
  <2>3. \A i \in 1 .. Len(wire') - 1 : HeaderBefore(wire'[i + 1]) = wire'[i].header
    <3>1. SUFFICES ASSUME NEW i \in 1 .. Len(wire) PROVE HeaderBefore(wire'[i + 1]) = wire'[i].header
      BY <1>4, <1>5
    <3>2. CASE i = Len(wire) BY <1>3, <1>4, <1>5, <2>2, <3>2
    <3>3. CASE i < Len(wire)
      <4>1. i + 1 \in 1 .. Len(wire) /\ i \in 1 .. Len(wire) - 1 BY <1>4, <3>3
      <4> QED BY <1>5, <2>2, <4>1
    <3> QED BY <1>4, <3>2, <3>3
  <2>4. HeadersInOrder(Unread)' BY <1>2, <1>4, <1>5, <2>1, <2>3 DEF HeadersInOrder
  <2>5. NextHeader(Unread)' = NextHeader(Unread)
    <3>1. CASE wire = <<>> BY <1>3, <1>5, <2>1, <3>1 DEF NextHeader
    <3>2. CASE wire # <<>>
      <4>1. wire'[1] = wire[1] BY <1>4, <1>5, <3>2
      <4> QED BY <1>5, <2>1, <3>2, <4>1 DEF NextHeader
    <3> QED BY <3>1, <3>2
  <2>6. \A c \in Codecs : Rtmp!Decodable(c)' => config'[c] = NextHeader(Unread)'
    BY <1>1, <2>5 DEF RtmpInv, RtmpHeaders, Rtmp!Decodable
  <2> QED BY <1>1, <2>4, <2>6 DEF RtmpHeaders
<1> QED BY <1>6, <1>7, <1>8 DEF RtmpInv

LEMMA NextIsBeyond ==
  ASSUME NEW total \in Nat, NEW size \in Nat, size > 0
  PROVE  /\ Rtmp!NextMultiple(total, size) \in Nat
         /\ total < Rtmp!NextMultiple(total, size)
         /\ Rtmp!NextMultiple(total, size) - total =< size
BY DEF Rtmp!NextMultiple

(* What has come in is counted, and acknowledged if it is due and can be.   *)
LEMMA RtmpTakenIn ==
  ASSUME RtmpInv, Rtmp!TakeIn,
         Rtmp!AcknowledgeIncoming \/ (Rtmp!IsDue /\ Rtmp!NotAcknowledged)
  PROVE  /\ received' \in Nat /\ nextAck' \in Nat /\ RtmpAcks'
         /\ server' \in [sent : Nat, acked : Nat, window : Nat, header : Nat]
         /\ server'.header = server.header
<1> DEFINE total == Rtmp!Incoming
<1>1. received' = total /\ window' = window BY DEF Rtmp!TakeIn
<1>2. total \in Nat /\ window \in Nat /\ nextAck \in Nat /\ server.acked \in Nat
  BY DEF RtmpInv, RtmpTypeOK, Rtmp!Incoming
<1> HIDE DEF total
<1>3. CASE Rtmp!IsDue
  <2>1. window > 0 BY <1>3 DEF Rtmp!IsDue, Rtmp!Due
  <2>2. nextAck' = Rtmp!NextMultiple(total, window) BY <1>3 DEF Rtmp!TakeIn, total
  <2>3. nextAck' \in Nat /\ total < nextAck' /\ nextAck' - total =< window
    BY <1>2, <2>1, <2>2, NextIsBeyond
  <2>4. nextAck' > 0 BY <1>2, <2>3
  <2>5. CASE Rtmp!Acknowledge(total)
    <3>1. server'.acked = total /\ server'.header = server.header
          /\ server' \in [sent : Nat, acked : Nat, window : Nat, header : Nat]
      BY <1>2, <2>5 DEF RtmpInv, RtmpTypeOK, Rtmp!Acknowledge
    <3>2. RtmpAcks' BY <1>1, <2>3, <2>4, <3>1 DEF RtmpAcks
    <3> QED BY <1>1, <1>2, <2>3, <3>1, <3>2
  <2>6. CASE Rtmp!NotAcknowledged
    <3>1. server' = server /\ unsent' = TRUE BY <2>6 DEF Rtmp!NotAcknowledged
    <3>2. ~unsent' => (window' > 0 => nextAck' - server'.acked =< window') BY <3>1
    <3>3. RtmpAcks' BY <1>1, <2>3, <2>4, <3>2 DEF RtmpAcks
    <3> QED BY <1>1, <1>2, <2>3, <3>1, <3>3 DEF RtmpInv, RtmpTypeOK
  <2> QED BY <1>3, <2>5, <2>6 DEF Rtmp!AcknowledgeIncoming, total
<1>4. CASE ~Rtmp!IsDue
  <2>1. UNCHANGED <<nextAck, server, unsent, window>>
    BY <1>1, <1>4 DEF Rtmp!TakeIn, Rtmp!AcknowledgeIncoming
  <2>2. window > 0 => nextAck > 0 BY DEF RtmpInv, RtmpAcks
  <2>3. window > 0 => total < nextAck BY <1>2, <1>4, <2>2 DEF Rtmp!IsDue, Rtmp!Due, total
  <2>4. ~unsent => (window > 0 => nextAck - server.acked =< window) BY DEF RtmpInv, RtmpAcks
  <2>5. ~unsent' => (window' > 0 => nextAck' - server'.acked =< window') BY <2>1, <2>4
  <2>6. RtmpAcks' BY <1>1, <2>1, <2>2, <2>3, <2>5 DEF RtmpAcks
  <2> QED BY <1>1, <1>2, <2>1, <2>6 DEF RtmpInv, RtmpTypeOK
<1> QED BY <1>3, <1>4

LEMMA RtmpReadKeeps ==
  ASSUME Rtmp!RtmpAssumption, RtmpInv, Rtmp!Read
  PROVE  RtmpInv'
<1>1. /\ messages = <<>> /\ wire # <<>> /\ messages' = wire /\ wire' = <<>> /\ ~RtmpOver
      /\ UNCHANGED <<pc, failure, unsupported, grounds, codec, config, misfed, window>>
  BY DEF Rtmp!Read, Rtmp!TakeIn, Rtmp!Reading, RtmpOver, Rtmp!verdictVars, Rtmp!videoVars
<1>2. window \in Nat BY DEF RtmpInv, RtmpTypeOK
<1>4. /\ received' \in Nat /\ nextAck' \in Nat /\ RtmpAcks'
      /\ server' \in [sent : Nat, acked : Nat, window : Nat, header : Nat]
      /\ server'.header = server.header
  BY RtmpTakenIn DEF Rtmp!Read
<1>5. RtmpTypeOK' BY <1>1, <1>2, <1>4 DEF RtmpInv, RtmpTypeOK
<1>6. RtmpVerdict' /\ ~misfed' BY <1>1 DEF RtmpInv, RtmpVerdict, RtmpOver
<1>7. RtmpHeaders'
  <2>1. Unread = wire /\ Unread' = wire BY <1>1 DEF Unread
  <2>2. HeadersInOrder(Unread)' BY <1>1, <1>4, <2>1 DEF RtmpInv, RtmpHeaders, HeadersInOrder
  <2>3. NextHeader(Unread)' = NextHeader(Unread) BY <1>4, <2>1 DEF NextHeader
  <2> QED BY <1>1, <2>2, <2>3 DEF RtmpInv, RtmpHeaders, Rtmp!Decodable
<1> QED BY <1>4, <1>5, <1>6, <1>7 DEF RtmpInv

-----------------------------------------------------------------------------
(* Taking the head off the queue.                                           *)
LEMMA RtmpTakesOne ==
  ASSUME RtmpInv, ~RtmpOver, messages # <<>>
  PROVE  /\ Head(messages).m \in Rtmp!Message /\ Head(messages).header \in Nat
         /\ Tail(messages) \in Seq(RtmpEntry) /\ wire = <<>>
         /\ HeadersInOrder(Tail(messages)) /\ NextHeader(Tail(messages)) = Head(messages).header
         /\ \A c \in Codecs : Rtmp!Decodable(c) => config[c] = HeaderBefore(Head(messages))
<1>1. messages \in Seq(RtmpEntry) /\ RtmpHeaders /\ Unread = messages BY DEF RtmpInv, RtmpTypeOK, Unread
<1>2. Head(messages) \in RtmpEntry /\ Head(messages) = messages[1] BY <1>1
<1>3. /\ Tail(messages) \in Seq(RtmpEntry) /\ Len(Tail(messages)) = Len(messages) - 1 /\ Len(messages) > 0
      /\ \A i \in 1 .. Len(messages) - 1 : Tail(messages)[i] = messages[i + 1]
  BY <1>1
<1>4. /\ \A i \in 1 .. Len(messages) - 1 : HeaderBefore(messages[i + 1]) = messages[i].header
      /\ messages[Len(messages)].header = server.header
  BY <1>1 DEF RtmpHeaders, HeadersInOrder
<1>5. CASE Len(messages) = 1
  <2>1. Tail(messages) = <<>>
    <3>1. Tail(messages) \in Seq(RtmpEntry) BY <1>3
    <3>2. Len(Tail(messages)) = 0 BY <1>3, <1>5
    <3> QED BY <3>1, <3>2, EmptySeq
  <2>2. HeadersInOrder(Tail(messages))
    <3>1. HeadersInOrder(<<>>)
      <4>1. Len(<<>>) = 0 OBVIOUS
      <4>2. 1 .. Len(<<>>) - 1 = {} BY <4>1
      <4> QED BY <4>2 DEF HeadersInOrder
    <3> QED BY <2>1, <3>1
  <2>3. NextHeader(Tail(messages)) = Head(messages).header BY <1>2, <1>4, <1>5, <2>1 DEF NextHeader
  <2> QED BY <1>1, <1>2, <1>3, <2>2, <2>3 DEF RtmpEntry, RtmpHeaders, NextHeader
<1>6. CASE Len(messages) > 1
  <2>1. Tail(messages) # <<>> /\ Len(messages) - 1 \in 1 .. Len(messages) - 1 /\ 1 \in 1 .. Len(messages) - 1
    <3> DEFINE n == Len(messages)
    <3>1. n \in Nat /\ n > 1 BY <1>1, <1>6
    <3>2. Len(Tail(messages)) = n - 1 BY <1>3
    <3> HIDE DEF n
    <3>3. n - 1 \in 1 .. n - 1 /\ 1 \in 1 .. n - 1 /\ n - 1 # 0 BY <3>1
    <3>4. Tail(messages) # <<>> BY <3>2, <3>3, EmptySeq
    <3> QED BY <3>3, <3>4 DEF n
  <2>2. NextHeader(Tail(messages)) = Head(messages).header
    <3>1. Tail(messages)[1] = messages[2] /\ HeaderBefore(messages[2]) = messages[1].header
      BY <1>3, <1>4, <2>1
    <3> QED BY <1>2, <2>1, <3>1 DEF NextHeader
  <2>3. \A i \in 1 .. Len(Tail(messages)) - 1 : HeaderBefore(Tail(messages)[i + 1]) = Tail(messages)[i].header
    <3>1. Len(messages) \in Nat /\ Len(Tail(messages)) = Len(messages) - 1 BY <1>1, <1>3
    <3>2. 1 .. Len(Tail(messages)) - 1 = 1 .. Len(messages) - 2 BY <3>1
    <3>3. SUFFICES ASSUME NEW i \in 1 .. Len(messages) - 2
                   PROVE  HeaderBefore(Tail(messages)[i + 1]) = Tail(messages)[i].header
      BY <3>2
    <3>4. i \in 1 .. Len(messages) - 1 /\ i + 1 \in 1 .. Len(messages) - 1 BY <3>1, <3>3
    <3>5. Tail(messages)[i] = messages[i + 1] /\ Tail(messages)[i + 1] = messages[(i + 1) + 1]
      BY <1>3, <3>4
    <3> QED BY <1>4, <3>4, <3>5
  <2>4. Tail(messages)[Len(Tail(messages))] = messages[Len(messages)]
    <3>1. Tail(messages)[Len(messages) - 1] = messages[(Len(messages) - 1) + 1] BY <1>3, <2>1
    <3>2. (Len(messages) - 1) + 1 = Len(messages) BY <1>1
    <3> QED BY <1>3, <3>1, <3>2
  <2>5. HeadersInOrder(Tail(messages)) BY <1>4, <2>3, <2>4 DEF HeadersInOrder
  <2> QED BY <1>1, <1>2, <1>3, <2>2, <2>5 DEF RtmpEntry, RtmpHeaders, NextHeader
<1> QED BY <1>1, <1>3, <1>5, <1>6

(* What processMessage() leaves, the verdict apart.                         *)
LEMMA RtmpProcessKeeps ==
  ASSUME Rtmp!RtmpAssumption, RtmpInv, ~RtmpOver, messages # <<>>,
         Rtmp!Process(Head(messages).m, Head(messages).header),
         messages' = Tail(messages), wire' = wire
  PROVE  /\ config' \in [Codecs -> Nat] /\ received' = received /\ window' \in Nat /\ nextAck' \in Nat
         /\ server' \in [sent : Nat, acked : Nat, window : Nat, header : Nat]
         /\ RtmpAcks' /\ RtmpHeaders' /\ ~misfed'
<1> DEFINE m == Head(messages).m
           header == Head(messages).header
<1>1. /\ m \in Rtmp!Message /\ header \in Nat /\ wire = <<>>
      /\ HeadersInOrder(Tail(messages)) /\ NextHeader(Tail(messages)) = header
      /\ \A c \in Codecs : Rtmp!Decodable(c) => config[c] = HeaderBefore(Head(messages))
  BY RtmpTakesOne
<1>2. HeaderBefore(Head(messages)) = header - (IF m.kind = "header" THEN 1 ELSE 0)
  BY DEF HeaderBefore
<1>3. Rtmp!Process(m, header) OBVIOUS
<1>4. Unread' = Tail(messages) BY <1>1 DEF Unread
<1>5. /\ received \in Nat /\ window \in Nat /\ nextAck \in Nat /\ config \in [Codecs -> Nat]
      /\ server \in [sent : Nat, acked : Nat, window : Nat, header : Nat] /\ RtmpAcks /\ ~misfed
  BY DEF RtmpInv, RtmpTypeOK
<1>6. ASSUME server'.header = server.header,
             \A c \in Codecs : Rtmp!Decodable(c)' => config'[c] = header
      PROVE  RtmpHeaders'
  <2>1. HeadersInOrder(Unread)' BY <1>1, <1>4, <1>6 DEF HeadersInOrder
  <2>2. NextHeader(Unread)' = header BY <1>1, <1>4, <1>6 DEF NextHeader
  <2> QED BY <1>1, <1>6, <2>1, <2>2 DEF RtmpHeaders
<1> HIDE DEF m, header
<1>7. CASE m.kind = "window" /\ Rtmp!ProcessWindow(m)
  <2>1. m.size \in Nat /\ m.size > 0 /\ m.kind # "header" BY <1>1, <1>7, MessageParts
  <2>2. window' = m.size /\ UNCHANGED <<received, codec, config, misfed>>
    BY <1>7 DEF Rtmp!ProcessWindow, Rtmp!videoVars
  <2>3. \A c \in Codecs : Rtmp!Decodable(c)' => config'[c] = header
    BY <1>1, <1>2, <2>1, <2>2 DEF Rtmp!Decodable
  <2>4. CASE Rtmp!Due(received, m.size, m.size)
    <3>1. nextAck' = Rtmp!NextMultiple(received, m.size)
          /\ (Rtmp!Acknowledge(received) \/ Rtmp!NotAcknowledged)
      BY <1>7, <2>4 DEF Rtmp!ProcessWindow
    <3>2. nextAck' \in Nat /\ received < nextAck' /\ nextAck' - received =< m.size
      BY <1>5, <2>1, <3>1, NextIsBeyond
    <3>3. nextAck' > 0 BY <1>5, <3>2
    <3>4. CASE Rtmp!Acknowledge(received)
      <4>1. server'.acked = received /\ server'.header = server.header
            /\ server' \in [sent : Nat, acked : Nat, window : Nat, header : Nat]
        BY <1>5, <3>4 DEF Rtmp!Acknowledge
      <4>2. RtmpAcks' BY <1>5, <2>1, <2>2, <3>2, <3>3, <4>1 DEF RtmpAcks
      <4> QED BY <1>5, <1>6, <2>1, <2>2, <2>3, <3>2, <4>1, <4>2
    <3>5. CASE Rtmp!NotAcknowledged
      <4>1. server' = server /\ unsent' = TRUE BY <3>5 DEF Rtmp!NotAcknowledged
      <4>2. ~unsent' => (window' > 0 => nextAck' - server'.acked =< window') BY <4>1
      <4>3. RtmpAcks' BY <2>1, <2>2, <3>2, <3>3, <4>2 DEF RtmpAcks
      <4> QED BY <1>5, <1>6, <2>1, <2>2, <2>3, <3>2, <4>1, <4>3
    <3> QED BY <3>1, <3>4, <3>5
  <2>5. CASE ~Rtmp!Due(received, m.size, m.size)
    <3>1. nextAck' = m.size /\ server' = server BY <1>7, <2>5 DEF Rtmp!ProcessWindow
    <3>2. received < m.size BY <1>5, <2>1, <2>5 DEF Rtmp!Due
    <3>3. server.acked \in Nat BY <1>5
    <3>4. nextAck' - server'.acked =< window' BY <2>1, <2>2, <3>1, <3>3
    <3>5. RtmpAcks' BY <1>5, <2>1, <2>2, <3>1, <3>2, <3>4 DEF RtmpAcks
    <3> QED BY <1>5, <1>6, <2>1, <2>2, <2>3, <3>1, <3>5
  <2> QED BY <2>4, <2>5
<1>8. CASE m.kind = "header" /\ Rtmp!ProcessHeader(m, header)
  <2>1. m.codec \in Codecs BY <1>1, <1>8, MessageParts
  <2>2. /\ config' = [config EXCEPT ![m.codec] = header] /\ codec' = m.codec
        /\ UNCHANGED <<received, window, nextAck, unsent, misfed, server>>
    BY <1>8 DEF Rtmp!ProcessHeader, Rtmp!ackVars
  <2>3. config' \in [Codecs -> Nat] BY <1>1, <1>5, <2>2
  <2>4. \A c \in Codecs : Rtmp!Decodable(c)' => config'[c] = header
    BY <1>5, <2>1, <2>2 DEF Rtmp!Decodable
  <2>5. RtmpAcks' BY <1>5, <2>2 DEF RtmpAcks
  <2> QED BY <1>5, <1>6, <2>2, <2>3, <2>4, <2>5
<1>9. CASE m.kind = "sequenceEnd" /\ Rtmp!ResetVideoState
  <2>1. config' = Rtmp!NoConfig /\ UNCHANGED <<received, window, nextAck, unsent, misfed, server>>
    BY <1>9 DEF Rtmp!ResetVideoState, Rtmp!ackVars
  <2>2. \A c \in Codecs : ~Rtmp!Decodable(c)' BY <2>1 DEF Rtmp!Decodable, Rtmp!NoConfig
  <2>3. RtmpAcks' BY <1>5, <2>1 DEF RtmpAcks
  <2> QED BY <1>5, <1>6, <2>1, <2>2, <2>3 DEF Rtmp!NoConfig
<1>10. CASE m.kind = "coded" /\ Rtmp!ProcessCoded(m, header)
  <2>1. m.codec \in Codecs /\ m.kind # "header" BY <1>1, <1>10, MessageParts
  <2>2. UNCHANGED <<received, window, nextAck, unsent, codec, config, server>>
    BY <1>10 DEF Rtmp!ProcessCoded, Rtmp!videoVars, Rtmp!ackVars
  <2>3. ~misfed'
    <3>1. Rtmp!Decodable(m.codec) => config[m.codec] = header BY <1>1, <1>2, <2>1
    <3> QED BY <1>5, <1>10, <3>1 DEF Rtmp!ProcessCoded, Rtmp!videoVars
  <2>4. \A c \in Codecs : Rtmp!Decodable(c)' => config'[c] = header
    BY <1>1, <1>2, <2>1, <2>2 DEF Rtmp!Decodable
  <2>5. RtmpAcks' BY <1>5, <2>2 DEF RtmpAcks
  <2> QED BY <1>5, <1>6, <2>2, <2>3, <2>4, <2>5
<1>11. CASE /\ m.kind \in {"ping", "malformed", "unsupported"}
            /\ UNCHANGED <<Rtmp!videoVars, Rtmp!ackVars, server>>
  <2>1. m.kind # "header" /\ UNCHANGED <<received, window, nextAck, unsent, codec, config, misfed, server>>
    BY <1>11 DEF Rtmp!videoVars, Rtmp!ackVars
  <2>2. \A c \in Codecs : Rtmp!Decodable(c)' => config'[c] = header
    BY <1>1, <1>2, <2>1 DEF Rtmp!Decodable
  <2>3. RtmpAcks' BY <1>5, <2>1 DEF RtmpAcks
  <2> QED BY <1>5, <1>6, <2>1, <2>2, <2>3
<1>12. m.kind = "ping" /\ Rtmp!ProcessPing => UNCHANGED <<Rtmp!videoVars, Rtmp!ackVars, server>>
  BY DEF Rtmp!ProcessPing
<1> QED BY <1>3, <1>7, <1>8, <1>9, <1>10, <1>11, <1>12 DEF Rtmp!Process

(* What processMessage() does to the verdict.                               *)
LEMMA RtmpProcessVerdict ==
  ASSUME RtmpInv, ~RtmpOver, NEW m, NEW header, Rtmp!Process(m, header)
  PROVE  /\ failure' \in Rtmp!Kinds
         /\ \/ grounds' = grounds
            \/ failure' \in Rtmp!Permanent /\ grounds' = (grounds \/ pc = "running")
<1>1. failure \in Rtmp!Kinds BY DEF RtmpInv, RtmpTypeOK
<1>2. CASE UNCHANGED Rtmp!verdictVars BY <1>1, <1>2 DEF Rtmp!verdictVars
<1>3. ASSUME NEW k \in Rtmp!Permanent, Rtmp!Fails(k)
      PROVE  /\ failure' \in Rtmp!Permanent /\ failure' \in Rtmp!Kinds
             /\ grounds' = (grounds \/ pc = "running")
  BY <1>3 DEF Rtmp!Fails, Rtmp!NoteGrounds, Rtmp!Permanent, Rtmp!Kinds
<1>4. CASE Rtmp!Unsupported
  BY <1>1, <1>4 DEF Rtmp!Unsupported, Rtmp!NoteGrounds, Rtmp!Permanent, Rtmp!Kinds
<1>5. CASE Rtmp!WriteFails BY <1>5 DEF Rtmp!WriteFails, Rtmp!Kinds
<1>6. UNCHANGED Rtmp!verdictVars \/ (\E k \in Rtmp!Permanent : Rtmp!Fails(k)) \/ Rtmp!Unsupported
      \/ Rtmp!WriteFails
  BY DEF Rtmp!Process, Rtmp!ProcessWindow, Rtmp!ProcessPing, Rtmp!ProcessHeader,
    Rtmp!ResetVideoState, Rtmp!ProcessCoded, Rtmp!Permanent
<1> QED BY <1>2, <1>3, <1>4, <1>5, <1>6

LEMMA RtmpAwaitKeeps ==
  ASSUME Rtmp!RtmpAssumption, RtmpInv, Rtmp!AwaitResult
  PROVE  RtmpInv'
<1>1. /\ pc \in {"waitConnect", "waitCreate"} /\ ~RtmpOver /\ messages # <<>> /\ messages' = Tail(messages)
      /\ wire' = wire
  BY DEF Rtmp!AwaitResult, RtmpOver
<1>2. ~grounds /\ Tail(messages) \in Seq(RtmpEntry) /\ wire \in Seq(RtmpEntry)
  BY <1>1, RtmpTakesOne DEF RtmpInv, RtmpVerdict, RtmpTypeOK
<1>3. CASE Rtmp!Process(Head(messages).m, Head(messages).header) /\ pc' = pc
  <2>1. ~RtmpOver' /\ pc # "running" BY <1>1, <1>3 DEF RtmpOver
  <2>2. /\ config' \in [Codecs -> Nat] /\ received' = received /\ window' \in Nat /\ nextAck' \in Nat
        /\ server' \in [sent : Nat, acked : Nat, window : Nat, header : Nat]
        /\ RtmpAcks' /\ RtmpHeaders' /\ ~misfed'
    BY <1>1, <1>3, RtmpProcessKeeps
  <2>3. failure' \in Rtmp!Kinds /\ ~grounds'
    BY <1>1, <1>2, <1>3, <2>1, RtmpProcessVerdict
  <2>4. RtmpTypeOK' BY <1>1, <1>2, <1>3, <2>2, <2>3 DEF RtmpInv, RtmpTypeOK
  <2> QED BY <2>2, <2>3, <2>4 DEF RtmpInv, RtmpVerdict
<1>4. CASE Head(messages).m.kind \in Rtmp!Commands /\ UNCHANGED <<Rtmp!videoVars, Rtmp!ackVars, server>>
  <2>1. UNCHANGED <<codec, config, misfed>>
        /\ UNCHANGED <<received, window, nextAck, unsent, server>>
    BY <1>4 DEF Rtmp!videoVars, Rtmp!ackVars
  <2>2. CASE pc' = "ended"
    <3>1. failure' \in Rtmp!Kinds /\ ~grounds'
      <4>1. failure \in Rtmp!Kinds /\ pc # "running" BY <1>1 DEF RtmpInv, RtmpTypeOK
      <4>2. \/ failure' = "MalformedStream" /\ grounds' = (grounds \/ pc = "running")
            \/ failure' = "TransientNetwork" /\ grounds' = grounds
            \/ failure' = failure /\ grounds' = grounds
        BY <1>1, <1>4, <2>2 DEF Rtmp!AwaitResult, Rtmp!Fails, Rtmp!NoteGrounds, Rtmp!WriteFails,
          Rtmp!verdictVars, Rtmp!Commands
      <4>3. failure' \in Rtmp!Kinds BY <4>1, <4>2 DEF Rtmp!Kinds
      <4>4. ~grounds' BY <1>2, <4>1, <4>2
      <4> QED BY <4>3, <4>4
    <3> QED BY <1>1, <1>2, <2>1, <2>2, <3>1, RtmpAcksKept, RtmpEndingKeeps
  <2>3. CASE pc' # "ended"
    <3>1. /\ UNCHANGED <<failure, unsupported, grounds>>
          /\ pc' \in {"waitConnect", "waitCreate", "playing"}
      BY <1>1, <1>4, <2>3 DEF Rtmp!AwaitResult, Rtmp!verdictVars, Rtmp!Commands
    <3>2. ~RtmpOver' BY <3>1 DEF RtmpOver
    <3>3. RtmpHeaders'
      <4>1. Head(messages).m.kind # "header" BY <1>4 DEF Rtmp!Commands
      <4>2. /\ HeadersInOrder(Tail(messages)) /\ NextHeader(Tail(messages)) = Head(messages).header
            /\ wire = <<>>
            /\ Head(messages).header \in Nat
            /\ \A c \in Codecs : Rtmp!Decodable(c) => config[c] = HeaderBefore(Head(messages))
        BY <1>1, RtmpTakesOne
      <4>3. HeaderBefore(Head(messages)) = Head(messages).header BY <4>1, <4>2 DEF HeaderBefore
      <4>4. Unread' = Tail(messages) BY <1>1, <4>2 DEF Unread
      <4>5. HeadersInOrder(Unread)' /\ NextHeader(Unread)' = Head(messages).header
        BY <2>1, <4>2, <4>4 DEF HeadersInOrder, NextHeader
      <4> QED BY <1>1, <2>1, <4>2, <4>3, <4>5 DEF RtmpHeaders, Rtmp!Decodable
    <3>4. RtmpTypeOK' BY <1>1, <1>2, <2>1, <3>1 DEF RtmpInv, RtmpTypeOK, RtmpPlaces
    <3>5. RtmpVerdict' /\ RtmpAcks' /\ ~misfed'
      BY <1>1, <2>1, <3>1, <3>2 DEF RtmpInv, RtmpVerdict, RtmpAcks
    <3> QED BY <3>3, <3>4, <3>5 DEF RtmpInv
  <2> QED BY <2>2, <2>3
<1>5. \/ Rtmp!Process(Head(messages).m, Head(messages).header) /\ pc' = pc
      \/ Head(messages).m.kind \in Rtmp!Commands /\ UNCHANGED <<Rtmp!videoVars, Rtmp!ackVars, server>>
  BY DEF Rtmp!AwaitResult, Rtmp!Commands
<1> QED BY <1>3, <1>4, <1>5

LEMMA RtmpRunKeeps ==
  ASSUME Rtmp!RtmpAssumption, RtmpInv, Rtmp!RunMessage
  PROVE  RtmpInv'
<1>1. /\ pc = "running" /\ ~RtmpOver /\ messages # <<>> /\ messages' = Tail(messages) /\ wire' = wire
      /\ pc' = IF Rtmp!EndsRun THEN "closing" ELSE pc
  BY DEF Rtmp!RunMessage, RtmpOver
<1>2. ~grounds /\ Tail(messages) \in Seq(RtmpEntry) /\ wire \in Seq(RtmpEntry)
  BY <1>1, RtmpTakesOne DEF RtmpInv, RtmpVerdict, RtmpTypeOK
<1>3. CASE Rtmp!Process(Head(messages).m, Head(messages).header)
  <2>1. /\ config' \in [Codecs -> Nat] /\ received' = received /\ window' \in Nat /\ nextAck' \in Nat
        /\ server' \in [sent : Nat, acked : Nat, window : Nat, header : Nat]
        /\ RtmpAcks' /\ RtmpHeaders' /\ ~misfed'
    BY <1>1, <1>3, RtmpProcessKeeps
  <2>2. failure' \in Rtmp!Kinds /\ (grounds' => failure' \in Rtmp!Permanent)
    BY <1>1, <1>2, <1>3, RtmpProcessVerdict
  <2>3. grounds' => RtmpOver' BY <1>1, <2>2 DEF Rtmp!EndsRun, RtmpOver
  <2>4. RtmpTypeOK' BY <1>1, <1>2, <2>1, <2>2 DEF RtmpInv, RtmpTypeOK, RtmpPlaces
  <2> QED BY <2>1, <2>2, <2>3, <2>4 DEF RtmpInv, RtmpVerdict
<1>4. CASE /\ Head(messages).m.kind \in Rtmp!Commands
           /\ UNCHANGED <<unsupported, grounds, Rtmp!videoVars, Rtmp!ackVars, server>>
  <2>1. UNCHANGED <<codec, config, misfed>>
        /\ UNCHANGED <<received, window, nextAck, unsent, server>>
    BY <1>4 DEF Rtmp!videoVars, Rtmp!ackVars
  <2>2. failure' \in Rtmp!Kinds /\ (reconnect' = TRUE \/ failure' = failure)
    BY <1>4 DEF Rtmp!RunMessage, Rtmp!Process, Rtmp!Commands, Rtmp!verdictVars, Rtmp!Kinds,
      RtmpInv, RtmpTypeOK
  <2>3. CASE pc' = "closing"
    BY <1>1, <1>2, <1>4, <2>1, <2>2, <2>3, RtmpAcksKept, RtmpEndingKeeps
  <2>4. CASE pc' # "closing"
    <3>1. pc' = pc /\ ~unsupported' /\ ~grounds' BY <1>1, <1>2, <1>4, <2>4 DEF Rtmp!EndsRun
    <3>2. ~RtmpOver' BY <1>1, <3>1 DEF RtmpOver
    <3>3. RtmpHeaders'
      <4>1. Head(messages).m.kind # "header" BY <1>4 DEF Rtmp!Commands
      <4>2. /\ HeadersInOrder(Tail(messages)) /\ NextHeader(Tail(messages)) = Head(messages).header
            /\ wire = <<>>
            /\ Head(messages).header \in Nat
            /\ \A c \in Codecs : Rtmp!Decodable(c) => config[c] = HeaderBefore(Head(messages))
        BY <1>1, RtmpTakesOne
      <4>3. HeaderBefore(Head(messages)) = Head(messages).header BY <4>1, <4>2 DEF HeaderBefore
      <4>4. Unread' = Tail(messages) BY <1>1, <4>2 DEF Unread
      <4>5. HeadersInOrder(Unread)' /\ NextHeader(Unread)' = Head(messages).header
        BY <2>1, <4>2, <4>4 DEF HeadersInOrder, NextHeader
      <4> QED BY <1>1, <2>1, <4>2, <4>3, <4>5 DEF RtmpHeaders, Rtmp!Decodable
    <3>4. RtmpTypeOK' BY <1>1, <1>2, <2>1, <2>2, <3>1 DEF RtmpInv, RtmpTypeOK
    <3>5. RtmpVerdict' /\ RtmpAcks' /\ ~misfed' BY <2>1, <3>1 DEF RtmpInv, RtmpVerdict, RtmpAcks
    <3> QED BY <3>3, <3>4, <3>5 DEF RtmpInv
  <2> QED BY <2>3, <2>4
<1>5. \/ Rtmp!Process(Head(messages).m, Head(messages).header)
      \/ /\ Head(messages).m.kind \in Rtmp!Commands
         /\ UNCHANGED <<unsupported, grounds, Rtmp!videoVars, Rtmp!ackVars, server>>
  BY DEF Rtmp!RunMessage, Rtmp!Commands, Rtmp!verdictVars
<1> QED BY <1>3, <1>4, <1>5

LEMMA RtmpStepInv ==
  ASSUME Rtmp!RtmpAssumption, RtmpInv, [Rtmp!Next]_Rtmp!vars
  PROVE  RtmpInv'
<1> USE DEF Rtmp!verdictVars, Rtmp!videoVars, Rtmp!ackVars
<1>1. CASE UNCHANGED Rtmp!vars \/ Rtmp!ProbeExpires \/ Rtmp!RequestStop \/ Rtmp!ConnectionBreaks
  BY <1>1, RtmpQuietKeeps DEF Rtmp!vars, Rtmp!ProbeExpires, Rtmp!RequestStop,
    Rtmp!ConnectionBreaks, RtmpInv, RtmpTypeOK, RtmpOver
<1>2. CASE Rtmp!Connect \/ Rtmp!Handshake \/ Rtmp!Play \/ Rtmp!RunStopped
  <2>1. /\ UNCHANGED <<failure, unsupported, grounds, codec, config, misfed, messages, received,
                       window, nextAck, unsent, wire, server>>
        /\ pc' \in {"handshake", "waitConnect", "running", "closing"} /\ ~RtmpOver
    BY <1>2 DEF Rtmp!Connect, Rtmp!Handshake, Rtmp!Play, Rtmp!RunStopped, RtmpOver
  <2> QED BY <2>1, RtmpQuietKeeps DEF RtmpPlaces
<1>3. ASSUME NEW k \in {"TransientNetwork", failure}, Rtmp!OpenFails(k) PROVE RtmpInv'
  <2>1. /\ ~RtmpOver /\ pc' = "ended" /\ failure' = k /\ wire' = <<>>
        /\ UNCHANGED <<grounds, config, misfed, messages>>
        /\ UNCHANGED <<received, window, nextAck, unsent, server>>
    BY <1>3 DEF Rtmp!OpenFails, Rtmp!InOpen, RtmpOver
  <2>2. ~grounds /\ failure' \in Rtmp!Kinds /\ messages \in Seq(RtmpEntry) /\ wire' \in Seq(RtmpEntry)
    BY <1>3, <2>1 DEF RtmpInv, RtmpVerdict, RtmpTypeOK, Rtmp!Kinds
  <2> QED BY <2>1, <2>2, RtmpAcksKept, RtmpEndingKeeps
<1>4. CASE Rtmp!ConnectTimesOut \/ Rtmp!HandshakeFails \/ Rtmp!OpenCancelled \/ Rtmp!PlayFails
  BY <1>3, <1>4 DEF Rtmp!ConnectTimesOut, Rtmp!HandshakeFails, Rtmp!OpenCancelled, Rtmp!PlayFails
<1>5. CASE Rtmp!WrongVersion \/ Rtmp!ProbeFails
  <2>1. /\ ~RtmpOver /\ pc' \in {"closing", "ended"}
        /\ failure' \in Rtmp!Kinds /\ failure' \in Rtmp!Permanent
        /\ (wire' = <<>> \/ wire' = wire) /\ messages' = messages
        /\ UNCHANGED <<config, misfed>>
        /\ UNCHANGED <<received, window, nextAck, unsent, server>>
    BY <1>5 DEF Rtmp!WrongVersion, Rtmp!ProbeFails, RtmpOver, Rtmp!Kinds, Rtmp!Permanent
  <2>2. messages' \in Seq(RtmpEntry) /\ wire' \in Seq(RtmpEntry)
    <3>1. messages \in Seq(RtmpEntry) /\ wire \in Seq(RtmpEntry) BY DEF RtmpInv, RtmpTypeOK
    <3>2. <<>> \in Seq(RtmpEntry) BY EmptySeq
    <3> QED BY <2>1, <3>1, <3>2
  <2> QED BY <2>1, <2>2, RtmpAcksKept, RtmpEndingKeeps
<1>7. CASE Rtmp!ReadGarbled \/ Rtmp!ReadUnacknowledged \/ Rtmp!ReadFails
  <2>1. PICK k \in {"MalformedStream", "TransientNetwork"} : Rtmp!EndsReading(k)
    BY <1>7 DEF Rtmp!ReadGarbled, Rtmp!ReadUnacknowledged, Rtmp!ReadFails
  <2>2. Rtmp!Reading /\ (wire' = <<>> \/ wire' = wire) /\ window' = window
    BY <1>7 DEF Rtmp!ReadGarbled, Rtmp!ReadUnacknowledged, Rtmp!ReadFails, Rtmp!TakeIn
  <2>3. /\ ~RtmpOver /\ pc' \in {"closing", "ended"} /\ messages' = messages
        /\ UNCHANGED <<config, misfed>> /\ failure' \in Rtmp!Kinds
        /\ grounds' = (grounds \/ (pc = "running" /\ failure' \in Rtmp!Permanent))
    BY <2>1, <2>2 DEF Rtmp!EndsReading, Rtmp!Reading, RtmpOver, Rtmp!Kinds
  <2>4. grounds' => failure' \in Rtmp!Permanent BY <2>3 DEF RtmpInv, RtmpVerdict
  <2>5. /\ received' \in Nat /\ nextAck' \in Nat /\ RtmpAcks'
        /\ server' \in [sent : Nat, acked : Nat, window : Nat, header : Nat]
    <3>1. CASE Rtmp!ReadFails BY <3>1, RtmpAcksKept DEF Rtmp!ReadFails
    <3>2. CASE Rtmp!ReadGarbled \/ Rtmp!ReadUnacknowledged
      BY <3>2, RtmpTakenIn DEF Rtmp!ReadGarbled, Rtmp!ReadUnacknowledged
    <3> QED BY <1>7, <3>1, <3>2
  <2>6. messages' \in Seq(RtmpEntry) /\ wire' \in Seq(RtmpEntry)
    <3>1. messages \in Seq(RtmpEntry) /\ wire \in Seq(RtmpEntry) BY DEF RtmpInv, RtmpTypeOK
    <3>2. <<>> \in Seq(RtmpEntry) BY EmptySeq
    <3> QED BY <2>2, <2>3, <3>1, <3>2
  <2> QED BY <2>2, <2>3, <2>4, <2>5, <2>6, RtmpEndingKeeps
<1>6. CASE Rtmp!RunCloses
  <2>1. /\ RtmpOver /\ RtmpOver' /\ pc' = "ended" /\ wire' = <<>> /\ messages' = <<>>
        /\ UNCHANGED <<failure, unsupported, grounds, config, misfed>>
        /\ UNCHANGED <<received, window, nextAck, unsent, server>>
    BY <1>6 DEF Rtmp!RunCloses, RtmpOver
  <2>2. RtmpTypeOK' BY <2>1 DEF RtmpInv, RtmpTypeOK, RtmpPlaces
  <2> QED BY <2>1, <2>2 DEF RtmpInv, RtmpVerdict, RtmpAcks
<1> QED
  BY <1>1, <1>2, <1>4, <1>5, <1>6, <1>7, RtmpServerKeeps, RtmpReadKeeps, RtmpAwaitKeeps,
    RtmpRunKeeps DEF Rtmp!Next, Rtmp!Work

LEMMA RtmpPromisesFollow ==
  ASSUME RtmpInv
  PROVE  Rtmp!VerdictSurvives /\ Rtmp!FrameHasItsHeader /\ Rtmp!AcknowledgedInTime
<1>1. Rtmp!VerdictSurvives BY DEF RtmpInv, RtmpVerdict, Rtmp!VerdictSurvives
<1>2. Rtmp!FrameHasItsHeader BY DEF RtmpInv, Rtmp!FrameHasItsHeader
<1>3. Rtmp!AcknowledgedInTime BY DEF RtmpInv, RtmpTypeOK, RtmpAcks, Rtmp!AcknowledgedInTime
<1> QED BY <1>1, <1>2, <1>3

(* What run() found no retry can mend is the verdict the worker reads, each *)
(* frame is decoded with the sequence header sent last before it, and less  *)
(* than a window of what was read is unacknowledged: for any codecs,        *)
(* windows and messages of the server.                                      *)
THEOREM RtmpKeepsPromises ==
  Rtmp!Spec => [](Rtmp!VerdictSurvives /\ Rtmp!FrameHasItsHeader /\ Rtmp!AcknowledgedInTime)
<1>1. Rtmp!Init => RtmpInv BY MCAssumption, RtmpInitInv
<1>2. RtmpInv /\ [Rtmp!Next]_Rtmp!vars => RtmpInv' BY MCAssumption, RtmpStepInv
<1> QED BY <1>1, <1>2, RtmpPromisesFollow, PTL DEF Rtmp!Spec

-----------------------------------------------------------------------------
(* The invariant of the part a behaviour is about.                          *)
SessionInv ==
  /\ part = "srt" => SrtInv
  /\ part = "ndi" => NdiInv
  /\ part = "rtmp" => RtmpInv

LEMMA SessionInit == MCInit => SessionInv
<1>1. part = "srt" /\ Srt!Init => SrtInv BY MCAssumption, SrtInitInv
<1>2. part = "ndi" /\ Ndi!Init => NdiInv BY MCAssumption, NdiInitInv
<1>3. part = "rtmp" /\ Rtmp!Init => RtmpInv BY MCAssumption, RtmpInitInv
<1> QED BY <1>1, <1>2, <1>3 DEF MCInit, SessionInv

LEMMA SessionStep == SessionInv /\ [MCNext]_<<part, vars, sessionVars>> => SessionInv'
<1> SUFFICES ASSUME SessionInv, [MCNext]_<<part, vars, sessionVars>> PROVE SessionInv' OBVIOUS
<1>1. /\ part' = part
      /\ part = "srt" => [Srt!Next]_Srt!vars
      /\ part = "ndi" => [Ndi!Next]_Ndi!vars
      /\ part = "rtmp" => [Rtmp!Next]_Rtmp!vars
  <2>1. CASE UNCHANGED sessionVars
    <3>1. part' = part BY DEF MCNext
    <3>2. UNCHANGED Srt!vars BY <2>1 DEF sessionVars, srtOwn, Srt!vars, Srt!socketVars
    <3>3. UNCHANGED Ndi!vars BY <2>1 DEF sessionVars, ndiOwn, Ndi!vars, Ndi!libraryVars
    <3>4. UNCHANGED Rtmp!vars
      BY <2>1 DEF sessionVars, rtmpOwn, Rtmp!vars, Rtmp!verdictVars, Rtmp!videoVars, Rtmp!ackVars
    <3> QED BY <3>1, <3>2, <3>3, <3>4
  <2>2. CASE MCNext /\ ~UNCHANGED sessionVars
    BY <2>2 DEF MCNext
  <2>3. MCNext \/ UNCHANGED sessionVars OBVIOUS
  <2> QED BY <2>1, <2>2, <2>3
<1>2. part = "srt" => SrtInv' BY <1>1, MCAssumption, SrtStepInv DEF SessionInv
<1>3. part = "ndi" => NdiInv' BY <1>1, MCAssumption, NdiStepInv DEF SessionInv
<1>4. part = "rtmp" => RtmpInv' BY <1>1, MCAssumption, RtmpStepInv DEF SessionInv
<1> QED BY <1>1, <1>2, <1>3, <1>4 DEF SessionInv

LEMMA SessionInvariance == MCSpec => []SessionInv
BY SessionInit, SessionStep, PTL DEF MCSpec

(* Whatever way a session ends, nothing of it is left behind, for any       *)
(* number of sessions, sockets, addresses and re-openings.                  *)
THEOREM NothingIsLeaked == MCSpec => []NothingLeaks
<1>1. SessionInv => NothingLeaks
  BY MCAssumption, SocketsFollow, ReceiverFollows DEF SessionInv, NothingLeaks
<1> QED BY <1>1, SessionInvariance, PTL

(* An RTMP session tells the worker of what no retry can mend, decodes each *)
(* frame with its header and answers the server, for any codecs, windows    *)
(* and messages.                                                            *)
THEOREM RtmpWordIsKept == MCSpec => []RtmpKeepsItsWord
<1>1. SessionInv => RtmpKeepsItsWord
  BY RtmpPromisesFollow DEF SessionInv, RtmpKeepsItsWord
<1> QED BY <1>1, SessionInvariance, PTL
=============================================================================
