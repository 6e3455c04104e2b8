---------------------------- MODULE OutputTarget ----------------------------
(***************************************************************************)
(* One external output of the playback worker, from the operator's choice  *)
(* to the sender: setExternalOutputTargets() and the worker thread's       *)
(* rebuildOutputEndpoints(), the per-tick submit of OutputDispatcher with  *)
(* its identity skip, and QueuedOutputSink with its bounded queue, its     *)
(* thread and the way it tells back-pressure from failed deliveries.       *)
(*                                                                         *)
(* A frame is its output index and its payload; two frames have the same   *)
(* payload when OutputFrameIdentity::samePayloadAs() holds.  The inner     *)
(* sink is an NdiOutputSink: its start() and its submit() may fail.        *)
(***************************************************************************)
EXTENDS Integers, Sequences

CONSTANTS
  Capacity,     \* frames a sink queues before it drops the oldest (3 in the code)
  MaxTracked,   \* dropped indexes a sink remembers (kMaxTrackedDrops, 4096)
  Payloads,     \* what a tick may render
  LastIndex,    \* bound on the output frame index
  MaxRequests   \* bound on the calls of setExternalOutputTargets()

ASSUME BoundsAssumption ==
  /\ Capacity \in Nat \ {0} /\ MaxTracked \in Nat \ {0}
  /\ LastIndex \in Nat /\ MaxRequests \in Nat

NoIndex == -1
NoPayload == "no payload"
NoFrame == [index |-> NoIndex, payload |-> NoPayload]
ASSUME PayloadAssumption == NoPayload \notin Payloads

VARIABLES
  requested,     \* m_externalOutputAssignments: is the output enabled?
  requests,      \* how often the operator changed the outputs (MaxRequests)
  dirty,         \* m_outputTargetsDirty
  rebuild,       \* where the worker thread is in rebuildOutputEndpoints()
  taken,         \* the assignment that rebuild works from
  applied,       \* the assignment the endpoints were last built from
  overtaken,     \* were the outputs changed since taken was read?
  nextIndex,     \* m_nextOutputFrameIndex of the dispatcher
  lastIdentity,  \* lastIdentity of the target in the dispatcher's statistics
  active,        \* m_active
  stopRequested, \* m_stopRequested
  queue,         \* m_queue
  dropped,       \* m_droppedFrameIndexes
  lastDelivered, \* m_lastDeliveredFrameIndex, NoIndex before the first
  deliveryGap,   \* m_lastDeliveryGap
  lastResult,    \* m_lastAsyncResultSucceeded
  thread,        \* where the thread of the sink is in workerLoop()
  inHand,        \* the frame it has taken from the queue
  shown,         \* the payload the sender sent last, since it was created
  fate           \* what became of each index, for this sink

operatorVars == <<requested, requests>>
rebuildVars == <<dirty, rebuild, taken, applied>>
dispatchVars == <<nextIndex, lastIdentity>>
queueVars == <<queue, dropped>>
switchVars == <<active, stopRequested>>
statusVars == <<lastDelivered, deliveryGap, lastResult>>
threadVars == <<thread, inHand>>
ledgerVars == <<shown, fate>>
vars == <<operatorVars, overtaken, rebuildVars, dispatchVars, queueVars, switchVars,
          statusVars, threadVars, ledgerVars>>

Indexes == 0 .. LastIndex - 1
Frames == [index : Indexes, payload : Payloads]

(* The ledger: "skipped" by the dispatcher, waiting in the queue, "dropped" *)
(* by overflow and "forgotten" when the list of drops is full too, taken    *)
(* and then "delivered" or "refused", or "discarded" by a stop.             *)
Fates == {"none", "skipped", "queued", "dropped", "forgotten", "sending",
          "delivered", "refused", "discarded"}
Untouched == [i \in Indexes |-> "none"]

Init ==
  /\ requested \in BOOLEAN /\ requests = 0
  /\ dirty = TRUE /\ rebuild = "idle" /\ taken = FALSE /\ applied = FALSE
  /\ overtaken = FALSE
  /\ nextIndex = 0 /\ lastIdentity = NoPayload
  /\ active = FALSE /\ stopRequested = FALSE
  /\ queue = <<>> /\ dropped = <<>>
  /\ lastDelivered = NoIndex /\ deliveryGap = FALSE /\ lastResult = TRUE
  /\ thread = "none" /\ inHand = NoFrame
  /\ shown = NoPayload /\ fate = Untouched

-----------------------------------------------------------------------------
(* UIManager: the operator enables, disables or edits the output.           *)
SetTargetsQuietly ==              \* mutant of SetExternalOutputTargets: no dirty flag
  /\ requests < MaxRequests
  /\ requests' = requests + 1
  /\ requested' \in BOOLEAN
  /\ overtaken' = (rebuild # "idle")
  /\ UNCHANGED <<rebuildVars, dispatchVars, queueVars, switchVars, statusVars,
                 threadVars, ledgerVars>>

SetExternalOutputTargets ==
  /\ requests < MaxRequests
  /\ requests' = requests + 1
  /\ requested' \in BOOLEAN
  /\ dirty' = TRUE
  /\ overtaken' = (rebuild # "idle")
  /\ UNCHANGED <<rebuild, taken, applied, dispatchVars, queueVars, switchVars,
                 statusVars, threadVars, ledgerVars>>

-----------------------------------------------------------------------------
(* rebuildOutputEndpoints() on the playback thread.  Between the two calls   *)
(* of setEndpoints() the dispatcher has no endpoint; inside the first one    *)
(* OutputRuntime's mutex is held until the thread of the sink has ended.     *)
ReadAssignments ==
  /\ rebuild = "idle" /\ dirty
  /\ taken' = requested
  /\ overtaken' = FALSE
  /\ rebuild' = "stop"
  /\ UNCHANGED <<operatorVars, dirty, applied, dispatchVars, queueVars,
                 switchVars, statusVars, threadVars, ledgerVars>>

NoWake == thread                  \* mutant of WakeSink
WakeSink == IF thread = "asleep" THEN "check" ELSE thread

Discarded == [i \in Indexes |-> IF fate[i] = "queued" THEN "discarded" ELSE fate[i]]

StopSink ==                       \* QueuedOutputSink::stop(), under m_mutex
  /\ rebuild = "stop"
  /\ rebuild' = "joining"
  /\ active' = FALSE /\ stopRequested' = TRUE
  /\ queue' = <<>>
  /\ thread' = WakeSink
  /\ fate' = Discarded
  /\ UNCHANGED <<operatorVars, overtaken, dirty, taken, applied, dispatchVars, dropped,
                 statusVars, inHand, shown>>

JoinSink ==                       \* thread->wait(), m_inner->stop(), and the
  /\ rebuild = "joining"          \* sink is destroyed with its sender
  /\ thread = "none"
  /\ rebuild' = "start"
  /\ shown' = NoPayload
  /\ UNCHANGED <<operatorVars, overtaken, dirty, taken, applied, dispatchVars, queueVars,
                 switchVars, statusVars, threadVars, fate>>

(* The statistics of a target are keyed by its id: lastIdentity stays.      *)
StartSink(innerStarts) ==         \* QueuedOutputSink::start()
  /\ rebuild = "start"
  /\ rebuild' = "clear"
  /\ applied' = taken
  /\ IF taken /\ innerStarts
       THEN /\ active' = TRUE /\ stopRequested' = FALSE
            /\ thread' = "check"
       ELSE UNCHANGED <<switchVars, thread>>
  /\ queue' = <<>> /\ dropped' = <<>>
  /\ lastDelivered' = NoIndex /\ deliveryGap' = FALSE /\ lastResult' = TRUE
  /\ fate' = Untouched
  /\ UNCHANGED <<operatorVars, overtaken, dirty, taken, dispatchVars, inHand, shown>>

ClearDirty ==
  /\ rebuild = "clear"
  /\ rebuild' = "idle"
  /\ dirty' = FALSE
  /\ UNCHANGED <<operatorVars, overtaken, taken, applied, dispatchVars, queueVars,
                 switchVars, statusVars, threadVars, ledgerVars>>

Rebuild ==
  ReadAssignments \/ StopSink \/ JoinSink \/ ClearDirty
    \/ \E ok \in BOOLEAN : StartSink(ok)

-----------------------------------------------------------------------------
Full == Len(queue) >= Capacity

(* QueuedOutputSink::submit() of a frame: when the queue is full its oldest  *)
(* frame goes and its index is remembered, the latest MaxTracked of them.    *)
SubmitDropsNewest(frame) ==       \* mutant of Submit
  /\ IF Full
       THEN /\ dropped' = Append(dropped, frame.index)
            /\ fate' = [fate EXCEPT ![frame.index] = "dropped"]
            /\ UNCHANGED <<queue, thread>>
       ELSE /\ queue' = Append(queue, frame)
            /\ fate' = [fate EXCEPT ![frame.index] = "queued"]
            /\ thread' = WakeSink
            /\ UNCHANGED dropped

Submit(frame) ==
  LET drops == IF Full THEN Append(dropped, queue[1].index) ELSE dropped
      forget == Len(drops) > MaxTracked
  IN /\ queue' = Append(IF Full THEN Tail(queue) ELSE queue, frame)
     /\ dropped' = IF forget THEN Tail(drops) ELSE drops
     /\ fate' = [i \in Indexes |->
                   IF i = frame.index THEN "queued"
                   ELSE IF forget /\ i = drops[1] THEN "forgotten"
                   ELSE IF Full /\ i = queue[1].index THEN "dropped" ELSE fate[i]]
     /\ thread' = WakeSink

IdentitySkips(payload) == lastIdentity = payload

(* OutputDispatcher::dispatchTick() for this endpoint, under the mutex of    *)
(* OutputRuntime.  The index advances whatever happens; a skipped tick       *)
(* submits nothing, and the identity of a submitted frame is remembered.     *)
DispatchTick(payload) ==
  /\ nextIndex < LastIndex
  /\ rebuild # "joining"
  /\ nextIndex' = nextIndex + 1
  /\ IF ~active THEN UNCHANGED <<lastIdentity, queueVars, thread, fate>>
     ELSE IF IdentitySkips(payload)
       THEN /\ fate' = [fate EXCEPT ![nextIndex] = "skipped"]
            /\ UNCHANGED <<lastIdentity, queueVars, thread>>
       ELSE /\ Submit([index |-> nextIndex, payload |-> payload])
            /\ lastIdentity' = payload
  /\ UNCHANGED <<operatorVars, overtaken, rebuildVars, switchVars, statusVars, inHand, shown>>

-----------------------------------------------------------------------------
(* QueuedOutputSink::workerLoop(): sleep on the condition, take a frame,     *)
(* hand it to the inner sink without the mutex, settle the result under it.  *)
TakeFrame ==
  /\ thread = "check"
  /\ IF stopRequested THEN thread' = "none" /\ UNCHANGED <<queue, inHand, fate>>
     ELSE IF queue = <<>> THEN thread' = "asleep" /\ UNCHANGED <<queue, inHand, fate>>
     ELSE /\ thread' = "sending"
          /\ inHand' = queue[1]
          /\ queue' = Tail(queue)
          /\ fate' = [fate EXCEPT ![queue[1].index] = "sending"]
  /\ UNCHANGED <<operatorVars, overtaken, rebuildVars, dispatchVars, dropped, switchVars,
                 statusVars, shown>>

InnerSubmit(accepted) ==
  /\ thread = "sending"
  /\ thread' = IF accepted THEN "accepted" ELSE "refused"
  /\ shown' = IF accepted THEN inHand.payload ELSE shown
  /\ UNCHANGED <<operatorVars, overtaken, rebuildVars, dispatchVars, queueVars, switchVars,
                 statusVars, inHand, fate>>

(* The drops that precede a delivered frame are removed from the front; they *)
(* explain the indexes missing before it, and the gap is an error when there *)
(* are more.                                                                 *)
Explained ==
  CHOOSE n \in 0 .. Len(dropped) :
    /\ \A k \in 1 .. n : dropped[k] < inHand.index
    /\ n < Len(dropped) => dropped[n + 1] >= inHand.index
LaterDrops == SubSeq(dropped, Explained + 1, Len(dropped))
Missing == inHand.index - lastDelivered - 1

Unexplained == Missing > 0 /\ Explained < Missing

SettleAnyway ==                   \* mutant of Settle: a refused frame counts as delivered
  /\ thread \in {"accepted", "refused"}
  /\ dropped' = LaterDrops
  /\ deliveryGap' = IF lastDelivered = NoIndex THEN deliveryGap ELSE Unexplained
  /\ lastDelivered' = inHand.index
  /\ lastResult' = (thread = "accepted")
  /\ fate' = [fate EXCEPT ![inHand.index] =
                IF thread = "accepted" THEN "delivered" ELSE "refused"]
  /\ thread' = "check" /\ inHand' = NoFrame
  /\ UNCHANGED <<operatorVars, overtaken, rebuildVars, dispatchVars, queue, switchVars, shown>>

Settle ==
  /\ thread \in {"accepted", "refused"}
  /\ IF thread = "accepted"
       THEN /\ dropped' = LaterDrops
            /\ deliveryGap' = IF lastDelivered = NoIndex THEN deliveryGap ELSE Unexplained
            /\ lastDelivered' = inHand.index
            /\ fate' = [fate EXCEPT ![inHand.index] = "delivered"]
       ELSE /\ fate' = [fate EXCEPT ![inHand.index] = "refused"]
            /\ UNCHANGED <<dropped, deliveryGap, lastDelivered>>
  /\ lastResult' = (thread = "accepted")
  /\ thread' = "check" /\ inHand' = NoFrame
  /\ UNCHANGED <<operatorVars, overtaken, rebuildVars, dispatchVars, queue, switchVars, shown>>

SinkThread == TakeFrame \/ Settle \/ \E ok \in BOOLEAN : InnerSubmit(ok)

Next ==
  \/ SetExternalOutputTargets
  \/ Rebuild
  \/ \E p \in Payloads : DispatchTick(p)
  \/ SinkThread

Spec == Init /\ [][Next]_vars

(* The playback thread runs on, and an NDI send returns.  Ticks and the      *)
(* operator are not bound to happen.                                         *)
FairSpec == Spec /\ WF_vars(Rebuild) /\ WF_vars(SinkThread)
-----------------------------------------------------------------------------
(* Overflow costs only frames that were overtaken: whenever the thread of    *)
(* the sink has nothing left to do and its last send succeeded, the sender   *)
(* shows the frame the dispatcher submitted last, so that every tick it      *)
(* skipped since was a repeat.                                               *)
Idle == active /\ thread = "asleep"
NewestSurvives ==
  Idle /\ lastResult /\ lastDelivered # NoIndex => shown = lastIdentity

(* The comment in workerLoop(): a gap that overflow explains is no delivery  *)
(* error, and a drop never carries forward to hide a gap with another cause. *)
(* While the gap of the last delivery is judged, every index between the two *)
(* delivered frames has its final fate.                                      *)
Between(i) == \E j \in Indexes :
  j < i /\ fate[j] = "delivered" /\ \A k \in j + 1 .. lastDelivered - 1 : fate[k] # "delivered"
LostInGap(kinds) ==
  \E i \in Indexes : i < lastDelivered /\ Between(i) /\ fate[i] \in kinds

RefusalIsReported == LostInGap({"refused"}) => deliveryGap
BackpressureIsNoError == deliveryGap => LostInGap({"refused", "skipped", "forgotten"})

(* Both: the delivery gap the status shows has the right cause.              *)
GapsAreJudgedRightly == RefusalIsReported /\ BackpressureIsNoError

(* An edit of the outputs is applied unless it comes while the endpoints are *)
(* being rebuilt from an earlier one: nothing is left to do only when the    *)
(* endpoints are those the operator asked for last.                          *)
LatestTargetsApplied == ~dirty /\ ~overtaken => applied = requested

(* stop() returns: a rebuild ends although the sink may be asleep, sending   *)
(* or full when it begins.                                                   *)
RebuildEnds == rebuild = "joining" ~> rebuild = "idle"
=============================================================================
