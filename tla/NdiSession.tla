----------------------------- MODULE NdiSession -----------------------------
(***************************************************************************)
(* NDI sessions (ingest/nativendiingestsession.cpp).  Each has a capture   *)
(* thread that opens, captures, frees and closes, and is stopped from the  *)
(* control thread by a flag.  libndi (external) lends a frame out until it *)
(* is freed, and a receiver must not be destroyed while a call is inside   *)
(* it or a frame of it is out.  The same session object is opened again.   *)
(***************************************************************************)
EXTENDS Integers, FiniteSets

CONSTANTS
  Sessions,
  MaxFinds, \* attempts to find the source, 4
  MaxOpens  \* BOUND: open() calls of a session

NdiAssumption == MaxFinds \in Nat \ {0} /\ MaxOpens \in Nat

VARIABLES
  pc,        \* where the capture thread is
  stopFlag,  \* m_stopRequested
  capture,   \* *m_captureRunning
  failure,   \* m_lastFailureKind
  shown,     \* what the UI was told last (setConnected)
  finds,     \* attempts made
  opens,     \* open() calls so far
  finder,    \* the finder exists (external)
  receiver,  \* m_receiver
  lent,      \* libndi has lent a frame out (external)
  inside,    \* a call is inside the receiver (external)
  misused    \* history: the receiver died with a call inside or a frame out

vars == <<pc, stopFlag, capture, failure, shown, finds, opens, finder, receiver,
          lent, inside, misused>>
libraryVars == <<finder, receiver, lent, inside, misused>>

Init ==
  /\ pc = [s \in Sessions |-> "idle"]
  /\ stopFlag = [s \in Sessions |-> FALSE] /\ capture = [s \in Sessions |-> TRUE]
  /\ failure = [s \in Sessions |-> "None"] /\ shown = [s \in Sessions |-> FALSE]
  /\ finds = [s \in Sessions |-> 0] /\ opens = [s \in Sessions |-> 0]
  /\ finder = [s \in Sessions |-> FALSE] /\ receiver = [s \in Sessions |-> FALSE]
  /\ lent = [s \in Sessions |-> FALSE] /\ inside = [s \in Sessions |-> FALSE]
  /\ misused = [s \in Sessions |-> FALSE]

Set(f, s, v) == [f EXCEPT ![s] = v]
Goto(s, where) == pc' = Set(pc, s, where)
ShouldStop(s) == stopFlag[s] \/ ~capture[s]

(* closeReceiver()                                                          *)
CloseReceiver(s) ==
  /\ receiver' = Set(receiver, s, FALSE)
  /\ misused' = Set(misused, s, misused[s] \/ (receiver[s] /\ (lent[s] \/ inside[s])))

-----------------------------------------------------------------------------
(* open(): without a runtime there is nothing to wait for, without the      *)
(* source there is.                                                         *)
Open(s) ==
  /\ pc[s] = "idle" /\ opens[s] < MaxOpens /\ capture[s]
  /\ opens' = Set(opens, s, opens[s] + 1)
  /\ stopFlag' = Set(stopFlag, s, FALSE)
  /\ \/ Goto(s, "idle") /\ failure' = Set(failure, s, "DecodeCapability") /\ UNCHANGED <<finds, finder>>
     \/ Goto(s, "idle") /\ failure' = Set(failure, s, "TransientNetwork") /\ UNCHANGED <<finds, finder>>
     \/ /\ Goto(s, "finding") /\ failure' = Set(failure, s, "None")
        /\ finds' = Set(finds, s, 0) /\ finder' = Set(finder, s, TRUE)
  /\ CloseReceiver(s)
  /\ UNCHANGED <<capture, shown, lent, inside>>

FindAgain(s) ==
  /\ pc[s] = "finding" /\ finds[s] < MaxFinds
  /\ finds' = Set(finds, s, finds[s] + 1)
  /\ UNCHANGED <<pc, stopFlag, capture, failure, shown, opens, libraryVars>>

NotFound(s) ==
  /\ pc[s] = "finding" /\ finds[s] = MaxFinds
  /\ finder' = Set(finder, s, FALSE)
  /\ failure' = Set(failure, s, "TransientNetwork") /\ Goto(s, "idle")
  /\ UNCHANGED <<stopFlag, capture, shown, finds, opens, receiver, lent, inside, misused>>

Found(s) ==
  /\ pc[s] = "finding" /\ finds[s] > 0
  /\ finder' = Set(finder, s, FALSE)
  /\ \/ /\ receiver' = Set(receiver, s, TRUE) /\ shown' = Set(shown, s, TRUE)
        /\ Goto(s, "running") /\ UNCHANGED failure
     \/ /\ failure' = Set(failure, s, "TransientNetwork") /\ Goto(s, "idle")
        /\ UNCHANGED <<receiver, shown>>
  /\ UNCHANGED <<stopFlag, capture, finds, opens, lent, inside, misused>>

-----------------------------------------------------------------------------
(* run(): capture() waits at most kCaptureTimeoutMs inside libndi; a frame  *)
(* is converted, handed on and freed before the next call.                  *)
EnterCapture(s) ==
  /\ pc[s] = "running" /\ ~ShouldStop(s)
  /\ inside' = Set(inside, s, TRUE) /\ Goto(s, "capturing")
  /\ UNCHANGED <<stopFlag, capture, failure, shown, finds, opens, finder, receiver, lent, misused>>

CaptureReturns(s) ==
  /\ pc[s] = "capturing"
  /\ inside' = Set(inside, s, FALSE)
  /\ \/ lent' = Set(lent, s, TRUE) /\ Goto(s, "frame") /\ UNCHANGED failure
     \/ Goto(s, "running") /\ UNCHANGED <<lent, failure>>
     \/ \* an error, or silence for longer than m_stallTimeoutMs
        /\ failure' = Set(failure, s, "TransientNetwork") /\ Goto(s, "closing") /\ UNCHANGED lent
  /\ UNCHANGED <<stopFlag, capture, shown, finds, opens, finder, receiver, misused>>

FreeFrame(s) ==
  /\ pc[s] = "frame"
  /\ lent' = Set(lent, s, lent[s] /\ ~receiver[s]) /\ Goto(s, "running")
  /\ UNCHANGED <<stopFlag, capture, failure, shown, finds, opens, finder, receiver, inside, misused>>

RunStopped(s) ==
  /\ pc[s] = "running" /\ ShouldStop(s)
  /\ Goto(s, "closing")
  /\ UNCHANGED <<stopFlag, capture, failure, shown, finds, opens, libraryVars>>

RunCloses(s) ==
  /\ pc[s] = "closing"
  /\ CloseReceiver(s) /\ shown' = Set(shown, s, FALSE) /\ Goto(s, "idle")
  /\ UNCHANGED <<stopFlag, capture, failure, finds, opens, finder, lent, inside>>

-----------------------------------------------------------------------------
(* Mutant: the stopping thread closes the receiver itself.                  *)
RequestStopCloses(s) ==
  /\ pc[s] # "idle" /\ ~stopFlag[s]
  /\ stopFlag' = Set(stopFlag, s, TRUE)
  /\ CloseReceiver(s)
  /\ UNCHANGED <<pc, capture, failure, shown, finds, opens, finder, lent, inside>>

(* requestStop(), from the control thread: a flag and nothing else.         *)
RequestStop(s) ==
  /\ pc[s] # "idle" /\ ~stopFlag[s]
  /\ stopFlag' = Set(stopFlag, s, TRUE)
  /\ UNCHANGED <<pc, capture, failure, shown, finds, opens, libraryVars>>

StopCapture(s) ==
  /\ capture[s] /\ capture' = Set(capture, s, FALSE)
  /\ UNCHANGED <<pc, stopFlag, failure, shown, finds, opens, libraryVars>>

Work(s) ==
  \/ FindAgain(s) \/ NotFound(s) \/ Found(s)
  \/ EnterCapture(s) \/ CaptureReturns(s) \/ FreeFrame(s) \/ RunStopped(s) \/ RunCloses(s)

Next == \E s \in Sessions : Open(s) \/ Work(s) \/ RequestStop(s) \/ StopCapture(s)

Spec == Init /\ [][Next]_vars

-----------------------------------------------------------------------------
(* The receiver dies quietly, on the thread that uses it: no call is inside *)
(* it and no frame of it is out; a session that has ended has left no       *)
(* finder, receiver or frame behind and is not shown as connected.          *)
ReceiverDiesQuietly ==
  \A s \in Sessions :
    /\ ~misused[s]
    /\ pc[s] = "idle" => ~finder[s] /\ ~receiver[s] /\ ~lent[s] /\ ~shown[s]
=============================================================================
