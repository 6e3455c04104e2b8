------------------------------ MODULE SrtLink ------------------------------
(***************************************************************************)
(* The connection of an SRT session (ingest/nativesrtingestsession.cpp,    *)
(* nativesrtaddress.cpp): name lookup on a detached thread, the addresses  *)
(* tried in turn as caller, rendezvous or listener, the receive loop, and  *)
(* the teardown on the capture thread.  Several sessions share one         *)
(* reference-counted libsrt.  Each session is driven by its own capture    *)
(* thread; requestStop() comes from the control thread and sets a flag.    *)
(***************************************************************************)
EXTENDS Integers, FiniteSets

CONSTANTS
  Sessions,
  Sockets,       \* BOUND: handles libsrt can give out
  MaxAddresses,  \* BOUND: addresses a name resolves to
  MaxOpens,      \* BOUND: open() calls of a session
  CleanupAtExit  \* _WIN32: the library stays up until the process ends

Modes == {"caller", "rendezvous", "listener"}
None == 0 \* SRT_INVALID_SOCK

LinkAssumption ==
  /\ IsFiniteSet(Sessions) /\ None \notin Sockets
  /\ MaxAddresses \in Nat /\ MaxOpens \in Nat /\ CleanupAtExit \in BOOLEAN

VARIABLES
  pc,         \* where the capture thread of the session is
  mode,       \* nativeSrtUrlOptionsFromUrl(m_url).mode
  stopFlag,   \* m_stopRequested
  capture,    \* *m_captureRunning
  sock,       \* m_socket
  listenSock, \* m_listenSocket
  started,    \* m_srtLibraryStarted
  shown,      \* what the UI was told last (setConnected)
  left,       \* addresses not tried yet
  opens,      \* open() calls so far
  initialized,\* srtLibraryInitialized
  refs,       \* srtLibraryRefs
  live        \* sockets that exist in libsrt (external)

vars == <<pc, mode, stopFlag, capture, sock, listenSock, started, shown, left,
          opens, initialized, refs, live>>
socketVars == <<sock, listenSock, started, initialized, refs, live>>

Init ==
  /\ pc = [s \in Sessions |-> "idle"] /\ mode = [s \in Sessions |-> "caller"]
  /\ stopFlag = [s \in Sessions |-> FALSE] /\ capture = [s \in Sessions |-> TRUE]
  /\ sock = [s \in Sessions |-> None] /\ listenSock = [s \in Sessions |-> None]
  /\ started = [s \in Sessions |-> FALSE] /\ shown = [s \in Sessions |-> FALSE]
  /\ left = [s \in Sessions |-> 0] /\ opens = [s \in Sessions |-> 0]
  /\ initialized = FALSE /\ refs = 0 /\ live = {}

(* Mutant: only requestStop() is looked at.                                 *)
ShouldStopFlag(s) == stopFlag[s]

ShouldStop(s) == stopFlag[s] \/ ~capture[s]

Goto(s, where) == pc' = [pc EXCEPT ![s] = where]

-----------------------------------------------------------------------------
(* A handle srt_create_socket() or srt_accept() may give out (external).    *)
CanCreate == Sockets \ live # {}
Fresh == CHOOSE i \in Sockets : i \notin live

(* acquireSrtLibrary(), under srtLibraryMutex.                              *)
Acquire(s) ==
  /\ initialized' = TRUE /\ refs' = refs + 1
  /\ started' = [started EXCEPT ![s] = TRUE]

(* Mutant: only the data socket is closed.                                  *)
CloseDataSocketOnly(s) ==
  /\ live' = live \ {sock[s]}
  /\ sock' = [sock EXCEPT ![s] = None]
  /\ started' = [started EXCEPT ![s] = FALSE]
  /\ refs' = IF started[s] /\ refs > 0 THEN refs - 1 ELSE refs
  /\ initialized' = (initialized /\ (CleanupAtExit \/ refs' > 0 \/ ~started[s]))
  /\ UNCHANGED listenSock

(* closeSocket(): both sockets, then the reference (releaseSrtLibrary).     *)
CloseSocket(s) ==
  /\ live' = live \ {sock[s], listenSock[s]}
  /\ sock' = [sock EXCEPT ![s] = None]
  /\ listenSock' = [listenSock EXCEPT ![s] = None]
  /\ started' = [started EXCEPT ![s] = FALSE]
  /\ refs' = IF started[s] /\ refs > 0 THEN refs - 1 ELSE refs
  /\ initialized' = (initialized /\ (CleanupAtExit \/ refs' > 0 \/ ~started[s]))

-----------------------------------------------------------------------------
(* open(): the URL names the mode; an earlier request to stop is forgotten. *)
Open(s) ==
  /\ pc[s] = "idle" /\ opens[s] < MaxOpens /\ capture[s]
  /\ CloseSocket(s)
  /\ stopFlag' = [stopFlag EXCEPT ![s] = FALSE]
  /\ mode' \in {[mode EXCEPT ![s] = m] : m \in Modes}
  /\ opens' = [opens EXCEPT ![s] = @ + 1]
  /\ Goto(s, "resolving")
  /\ UNCHANGED <<capture, shown, left>>

(* nativeSrtResolveSockaddrsWithTimeout(): the lookup runs on a detached    *)
(* thread; its answer is used even if a stop came meanwhile, unless the     *)
(* stop or the time-out was seen first.  Nobody hears a later answer.       *)
Resolved(s) ==
  /\ pc[s] = "resolving"
  /\ \E found \in 0 .. MaxAddresses :
       /\ left' = [left EXCEPT ![s] = found]
       /\ Goto(s, IF found = 0 THEN "idle" ELSE "trying")
  /\ UNCHANGED <<mode, stopFlag, capture, socketVars, shown, opens>>

LookupAbandoned(s) ==
  /\ pc[s] = "resolving"
  /\ Goto(s, "idle")
  /\ UNCHANGED <<mode, stopFlag, capture, socketVars, shown, left, opens>>

(* nativeSrtTrySockaddrs(): the next address, or none is left or wanted.    *)
GiveUp(s) ==
  /\ pc[s] = "trying" /\ (left[s] = 0 \/ ShouldStop(s))
  /\ CloseSocket(s) /\ Goto(s, "idle")
  /\ UNCHANGED <<mode, stopFlag, capture, shown, left, opens>>

TryNext(s) ==
  /\ pc[s] = "trying" /\ left[s] > 0 /\ ~ShouldStop(s)
  /\ CloseSocket(s)
  /\ left' = [left EXCEPT ![s] = @ - 1]
  /\ Goto(s, "starting")
  /\ UNCHANGED <<mode, stopFlag, capture, shown, opens>>

(* openSocketToAddress(): the library ...                                   *)
StartLibrary(s) ==
  /\ pc[s] = "starting"
  /\ \/ Acquire(s) /\ Goto(s, "creating")
     \/ ~initialized /\ Goto(s, "trying") /\ UNCHANGED <<initialized, refs, started>>
  /\ UNCHANGED <<mode, stopFlag, capture, sock, listenSock, shown, left, opens, live>>

(* ... the socket ...                                                       *)
CreateSocket(s) ==
  /\ pc[s] = "creating" /\ CanCreate
  /\ live' = live \cup {Fresh} /\ sock' = [sock EXCEPT ![s] = Fresh]
  /\ Goto(s, "preparing")
  /\ UNCHANGED <<mode, stopFlag, capture, listenSock, started, shown, left, opens,
                 initialized, refs>>

(* ... its options, bind and connect; a listener turns it into the          *)
(* listening socket.  Any of these calls may fail.                          *)
Prepare(s) ==
  /\ pc[s] = "preparing"
  /\ IF mode[s] = "listener"
     THEN /\ listenSock' = [listenSock EXCEPT ![s] = sock[s]]
          /\ sock' = [sock EXCEPT ![s] = None]
          /\ Goto(s, "accepting")
     ELSE Goto(s, "connecting") /\ UNCHANGED <<sock, listenSock>>
  /\ UNCHANGED <<mode, stopFlag, capture, started, shown, left, opens,
                 initialized, refs, live>>

AttemptFails(s) ==
  /\ pc[s] \in {"creating", "preparing", "connecting", "accepting"}
  /\ CloseSocket(s) /\ Goto(s, "trying")
  /\ UNCHANGED <<mode, stopFlag, capture, shown, left, opens>>

Established(s) == Goto(s, "running") /\ shown' = [shown EXCEPT ![s] = TRUE]

(* connectAndAwait()                                                        *)
Connected(s) ==
  /\ pc[s] = "connecting" /\ ~ShouldStop(s)
  /\ Established(s)
  /\ UNCHANGED <<mode, stopFlag, capture, socketVars, left, opens>>

(* acceptListenerConnection()                                               *)
Accepted(s) ==
  /\ pc[s] = "accepting" /\ ~ShouldStop(s) /\ CanCreate
  /\ live' = live \cup {Fresh} /\ sock' = [sock EXCEPT ![s] = Fresh]
  /\ \/ Established(s)
     \/ Goto(s, "preparing2") /\ UNCHANGED shown
  /\ UNCHANGED <<mode, stopFlag, capture, listenSock, started, left, opens,
                 initialized, refs>>

(* The accepted socket refuses its option.                                  *)
AcceptedUnusable(s) ==
  /\ pc[s] = "preparing2"
  /\ CloseSocket(s) /\ Goto(s, "trying")
  /\ UNCHANGED <<mode, stopFlag, capture, shown, left, opens>>

(* run(): a stop, a stall or a broken link ends the loop, then the session  *)
(* is reported gone and its sockets are closed on this thread.              *)
RunEnds(s) ==
  /\ pc[s] = "running"
  /\ shown' = [shown EXCEPT ![s] = FALSE]
  /\ Goto(s, "closing")
  /\ UNCHANGED <<mode, stopFlag, capture, socketVars, left, opens>>

RunCloses(s) ==
  /\ pc[s] = "closing"
  /\ CloseSocket(s) /\ Goto(s, "idle")
  /\ UNCHANGED <<mode, stopFlag, capture, shown, left, opens>>

-----------------------------------------------------------------------------
(* requestStop(), and the worker that stops capturing.                      *)
RequestStop(s) ==
  /\ ~stopFlag[s] /\ pc[s] # "idle"
  /\ stopFlag' = [stopFlag EXCEPT ![s] = TRUE]
  /\ UNCHANGED <<pc, mode, capture, socketVars, shown, left, opens>>

StopCapture(s) ==
  /\ capture[s]
  /\ capture' = [capture EXCEPT ![s] = FALSE]
  /\ UNCHANGED <<pc, mode, stopFlag, socketVars, shown, left, opens>>

(* What the thread does when the network does nothing: every wait polls.    *)
Poll(s) ==
  \/ Resolved(s) \/ LookupAbandoned(s)
  \/ GiveUp(s) \/ TryNext(s)
  \/ StartLibrary(s) \/ CreateSocket(s) \/ Prepare(s)
  \/ AttemptFails(s) \/ AcceptedUnusable(s)
  \/ RunCloses(s)
  \/ RunEnds(s) /\ ShouldStop(s)

Step(s) ==
  \/ Open(s)
  \/ Resolved(s) \/ LookupAbandoned(s) \/ GiveUp(s) \/ TryNext(s)
  \/ StartLibrary(s) \/ CreateSocket(s) \/ Prepare(s) \/ AttemptFails(s)
  \/ Connected(s) \/ Accepted(s) \/ AcceptedUnusable(s)
  \/ RunEnds(s) \/ RunCloses(s)
  \/ RequestStop(s) \/ StopCapture(s)

Next == \E s \in Sessions : Step(s)

Fairness == \A s \in Sessions : WF_vars(Poll(s))

Spec == Init /\ [][Next]_vars /\ Fairness

-----------------------------------------------------------------------------
Held(s) == {sock[s], listenSock[s]} \ {None}

(* However an attempt ends, no socket is left without a session that will   *)
(* close it, no two sessions hold the same one, an idle session holds none  *)
(* (the port of a listener is free again), and libsrt stays up while any    *)
(* session has a socket in it: closeSocket() on every early return.         *)
SocketsAccountedFor ==
  /\ live = UNION {Held(s) : s \in Sessions}
  /\ \A s, t \in Sessions : s # t => Held(s) \cap Held(t) = {}
  /\ \A s \in Sessions : pc[s] = "idle" => Held(s) = {} /\ ~started[s] /\ ~shown[s]
  /\ refs = Cardinality({s \in Sessions : started[s]})
  /\ live # {} => initialized

(* A session asked to stop ends, whatever the network or the resolver does. *)
AskedToStop(s) == stopFlag[s] \/ ~capture[s]
Ended(s) == pc[s] = "idle"
StopEndsSession == \A s \in Sessions : AskedToStop(s) ~> Ended(s)
=============================================================================
