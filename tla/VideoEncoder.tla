---------------------------- MODULE VideoEncoder ----------------------------
(***************************************************************************)
(* The Media Foundation H.264 encoder                                      *)
(* (codec/nativevideoencoder_mediafoundation.cpp), used by one thread of   *)
(* the recorder.  Each frame is stamped with a time of the encoder's own   *)
(* and the caller's ticks are kept under it until the packet comes out.    *)
(* The transform (external) is synchronous or asynchronous, may skip a     *)
(* frame or refuse one, and never reorders.                                *)
(***************************************************************************)
EXTENDS Integers, Sequences, FiniteSets, FiniteSetsExt, SequencesExt

CONSTANTS
  Depth,       \* frames the transform works on at once
  MaxInFlight, \* kMaxInFlight, 64
  MaxFrames,   \* BOUND: frames
  MaxMishaps,  \* BOUND: frames skipped or refused
  MaxChanges   \* BOUND: output format changes

\* Refused frames stay in the table until a later packet comes out, and a
\* frame has its place there before the transform has one for it.
EncoderAssumption ==
  /\ Depth \in Nat \ {0} /\ MaxInFlight \in Nat /\ MaxFrames \in Nat
  /\ MaxMishaps \in Nat /\ MaxChanges \in Nat
  /\ MaxInFlight > Depth + MaxMishaps

VARIABLES
  pc,        \* where the thread is: encode(), flush()
  streaming, \* m_streaming
  isAsync,   \* m_asyncTransform
  credits,   \* m_asyncNeedInputEvents
  nextTime,  \* m_nextSampleTime, in frames
  ticksOf,   \* m_ptsByMfTime: the stamps with their ticks
  avcc,      \* m_avcc has been built
  frames,    \* history: the ticks of the frames taken by the transform, by stamp
  packets,   \* history: the packets, with the frame they hold and the ticks they bear
  gone,      \* history: stamps of frames the transform skipped (external)
  wasted,    \* history: requests spent on frames it refused, which it still waits to be met
  events,    \* the event queue of the transform (external)
  asked,     \* inputs it has asked for and not been given (external)
  inside,    \* stamps it is encoding (external)
  ready,     \* stamps encoded, not fetched (external)
  draining,  \* told to drain (external)
  changes,   \* format changes to come (external)
  mishaps    \* frames skipped or refused

transformVars == <<events, asked, inside, ready, draining, changes>>
codeVars == <<streaming, isAsync, credits, nextTime, ticksOf, avcc>>
historyVars == <<frames, packets, gone, wasted, mishaps>>
vars == <<pc, codeVars, historyVars, transformVars>>

Init ==
  /\ pc = "none" /\ streaming = FALSE /\ isAsync = FALSE /\ credits = 0
  /\ nextTime = 0 /\ ticksOf = {} /\ avcc = FALSE
  /\ frames = {} /\ packets = <<>> /\ gone = {} /\ wasted = 0
  /\ events = <<>> /\ asked = 0 /\ inside = <<>> /\ ready = <<>> /\ draining = FALSE
  /\ changes = 0 /\ mishaps = 0

-----------------------------------------------------------------------------
(* createTransform(): hardware only, synchronous or not.                    *)
CreateTransform ==
  /\ \E async \in BOOLEAN : isAsync' = async
  /\ \E n \in 0 .. MaxChanges : changes' = n

(* configureOutputType(), configureInputType(), configureCodecApi(): all    *)
(* or no encoder; beginStreaming().                                         *)
Configure == streaming' = TRUE

Initialize ==
  /\ pc = "none" /\ ~streaming
  /\ CreateTransform /\ Configure /\ pc' = "idle"
  /\ UNCHANGED <<credits, nextTime, ticksOf, avcc, historyVars, events, asked, inside, ready, draining>>

(* The stalest entry makes room.                                            *)
Bounded(T) ==
  IF Cardinality(T) > MaxInFlight THEN T \ {CHOOSE e \in T : \A x \in T : e.at <= x.at} ELSE T

(* buildInputSample(): the ticks are the caller's, any number.              *)
BuildInputSample(ticks) ==
  /\ nextTime' = nextTime + 1
  /\ ticksOf' = Bounded(ticksOf \cup {[at |-> nextTime, ticks |-> ticks]})

(* encode(). The caller's ticks grow, with gaps.                            *)
Encode(gap) ==
  /\ pc = "idle" /\ ~draining /\ nextTime < MaxFrames
  /\ BuildInputSample(2 * nextTime + gap)
  /\ pc' = "submit"
  /\ UNCHANGED <<streaming, isAsync, credits, avcc, historyVars, transformVars>>

Stamp == nextTime - 1
TicksOfCall == (CHOOSE e \in ticksOf : e.at = Stamp).ticks

(* processInputSample(): the frame is taken.                                *)
TakeInput ==
  /\ inside' = Append(inside, Stamp)
  /\ frames' = frames \cup {[at |-> Stamp, ticks |-> TicksOfCall]}
  /\ asked' = IF isAsync THEN asked - 1 ELSE asked
  /\ pc' = "drain" /\ UNCHANGED <<wasted, mishaps>>

(* FAILED(hr): encode() returns at once.  The request is spent: whether the *)
(* transform gives it up, and may ask again, or waits for it is its affair. *)
(* The retry of a synchronous one (MF_E_NOTACCEPTING) finds nothing that    *)
(* the last drain left.                                                     *)
RefuseInput ==
  /\ mishaps < MaxMishaps /\ mishaps' = mishaps + 1
  /\ pc' = "idle" /\ UNCHANGED <<inside, frames>>
  /\ \/ asked' = (IF isAsync THEN asked - 1 ELSE asked) /\ UNCHANGED wasted
     \/ isAsync /\ wasted' = wasted + 1 /\ UNCHANGED asked

ProcessInput == TakeInput \/ RefuseInput

-----------------------------------------------------------------------------
(* Mutant: a packet takes the oldest ticks kept.                            *)
ResolveOldest(at) ==
  IF ticksOf = {} THEN at ELSE (CHOOSE e \in ticksOf : \A x \in ticksOf : e.at <= x.at).ticks

(* resolvePtsTicks(): without an entry the stamp itself.                    *)
ResolveTicks(at) ==
  IF \E e \in ticksOf : e.at = at THEN (CHOOSE e \in ticksOf : e.at = at).ticks ELSE at

Forgotten(at) ==
  IF \E e \in ticksOf : e.at = at THEN {e \in ticksOf : e.at > at} ELSE ticksOf

(* emitOutputSample(), buildAvccFromSequenceHeader(): the parameter sets    *)
(* come from the output type or from the packet's own units.                *)
Emit(at) ==
  /\ packets' = Append(packets, [at |-> at, ticks |-> ResolveTicks(at)])
  /\ ticksOf' = Forgotten(at) /\ avcc' = TRUE

(* drainOutput(), after a synchronous input or drain: all the outputs, and  *)
(* format changes on the way.  What the transform holds back is its own     *)
(* affair, until it is told to drain.                                       *)
DrainOutput ==
  /\ pc \in {"drain", "flush"} /\ ~isAsync
  /\ \/ /\ changes > 0 /\ changes' = changes - 1
        /\ UNCHANGED <<pc, packets, ticksOf, avcc, inside>>
     \/ /\ changes = 0 /\ inside # <<>>
        /\ Emit(Head(inside)) /\ inside' = Tail(inside) /\ UNCHANGED <<pc, changes>>
     \/ /\ changes = 0
        /\ inside = <<>> \/ (pc = "drain" /\ Len(inside) < Depth)
        /\ pc' = IF pc = "flush" THEN "flushed" ELSE "idle"
        /\ UNCHANGED <<changes, packets, ticksOf, avcc, inside>>
  /\ UNCHANGED <<streaming, isAsync, credits, nextTime, frames, gone, wasted, mishaps,
                 events, asked, ready, draining>>

SubmitSync ==
  /\ pc = "submit" /\ ~isAsync
  /\ ProcessInput
  /\ UNCHANGED <<codeVars, packets, gone, events, ready, draining, changes>>

-----------------------------------------------------------------------------
(* processOutputAsync(): one announcement.                                  *)
ProcessOutputAsync ==
  IF changes > 0
  THEN changes' = changes - 1 /\ events' = Append(Tail(events), "output")
       /\ UNCHANGED <<packets, ticksOf, avcc, ready>>
  ELSE /\ Emit(Head(ready)) /\ ready' = Tail(ready)
       /\ events' = Tail(events) /\ UNCHANGED changes

(* encodeAsync()                                                            *)
UseCredit ==
  /\ pc = "submit" /\ isAsync /\ credits > 0
  /\ credits' = credits - 1 /\ ProcessInput
  /\ UNCHANGED <<streaming, isAsync, nextTime, ticksOf, avcc, packets, gone, events, ready,
                 draining, changes>>

WaitForRequest ==
  /\ pc = "submit" /\ isAsync /\ credits = 0 /\ events # <<>>
  /\ \/ /\ Head(events) = "need" /\ events' = Tail(events) /\ ProcessInput
        /\ UNCHANGED <<packets, ticksOf, avcc, ready, changes>>
     \/ /\ Head(events) = "output" /\ ProcessOutputAsync
        /\ UNCHANGED <<pc, frames, wasted, mishaps, asked, inside>>
  /\ UNCHANGED <<streaming, isAsync, credits, nextTime, gone, draining>>

(* handleAsyncEvent() with nothing to give.                                 *)
HandleEvent ==
  \/ /\ Head(events) = "need" /\ events' = Tail(events) /\ credits' = credits + 1
     /\ UNCHANGED <<packets, ticksOf, avcc, ready, changes>>
  \/ Head(events) = "output" /\ ProcessOutputAsync /\ UNCHANGED credits

(* drainReadyAsyncEvents()                                                  *)
DrainReadyEvents ==
  /\ pc = "drain" /\ isAsync
  /\ \/ events # <<>> /\ HandleEvent /\ UNCHANGED pc
     \/ /\ events = <<>> /\ pc' = "idle"
        /\ UNCHANGED <<credits, packets, ticksOf, avcc, events, ready, changes>>
  /\ UNCHANGED <<streaming, isAsync, nextTime, frames, gone, wasted, mishaps, asked, inside, draining>>

(* flush(): end of stream, then the outputs up to the end of the drain.     *)
Flush ==
  /\ pc = "idle" /\ streaming /\ ~draining
  /\ draining' = TRUE /\ pc' = "flush"
  /\ UNCHANGED <<codeVars, historyVars, events, asked, inside, ready, changes>>

(* flushAsync(): the wait.                                                  *)
FlushEvents ==
  /\ pc = "flush" /\ isAsync /\ events # <<>>
  /\ \/ Head(events) # "drained" /\ HandleEvent /\ UNCHANGED pc
     \/ /\ Head(events) = "drained" /\ events' = Tail(events) /\ pc' = "flushed"
        /\ UNCHANGED <<credits, packets, ticksOf, avcc, ready, changes>>
  /\ UNCHANGED <<streaming, isAsync, nextTime, frames, gone, wasted, mishaps, asked, inside, draining>>

-----------------------------------------------------------------------------
(* The asynchronous transform (external).                                   *)
AskForInput ==
  /\ streaming /\ isAsync /\ ~draining
  /\ Len(inside) + Len(ready) + asked < Depth
  /\ asked' = asked + 1 /\ events' = Append(events, "need")
  /\ UNCHANGED <<pc, codeVars, historyVars, inside, ready, draining, changes>>

FinishFrame ==
  /\ isAsync /\ inside # <<>>
  /\ inside' = Tail(inside)
  /\ \/ /\ ready' = Append(ready, Head(inside)) /\ events' = Append(events, "output")
        /\ UNCHANGED <<gone, mishaps>>
     \/ /\ mishaps < MaxMishaps /\ mishaps' = mishaps + 1
        /\ gone' = gone \cup {Head(inside)} /\ UNCHANGED <<ready, events>>
  /\ UNCHANGED <<pc, codeVars, frames, packets, wasted, asked, draining, changes>>

Drained ==
  /\ draining /\ isAsync /\ inside = <<>> /\ ready = <<>> /\ pc = "flush"
  /\ ~\E i \in DOMAIN events : events[i] = "drained"
  /\ events' = Append(events, "drained")
  /\ UNCHANGED <<pc, codeVars, historyVars, asked, inside, ready, draining, changes>>

Thread ==
  SubmitSync \/ UseCredit \/ WaitForRequest \/ DrainOutput \/ DrainReadyEvents \/ FlushEvents

Next ==
  \/ Initialize \/ (\E gap \in {0, 1} : Encode(gap)) \/ Flush
  \/ Thread \/ AskForInput \/ FinishFrame \/ Drained

Fairness ==
  WF_vars(Thread) /\ WF_vars(AskForInput) /\ WF_vars(FinishFrame) /\ WF_vars(Drained)

Spec == Init /\ [][Next]_vars /\ Fairness

-----------------------------------------------------------------------------
(* Every packet bears the ticks its own frame came with, in order and once, *)
(* though frames are skipped and refused on the way and the table of ticks  *)
(* is bounded; after a flush every frame the transform took and did not     *)
(* skip has come out.                                                       *)
PacketsKeepTheirTicks ==
  /\ \A i \in DOMAIN packets :
       /\ packets[i] \in frames
       /\ i > 1 => packets[i - 1].at < packets[i].at
  /\ pc = "flushed" => {f.at : f \in frames} = {packets[i].at : i \in DOMAIN packets} \cup gone
  /\ Cardinality(ticksOf) <= MaxInFlight

(* encode() and flush() end, but for an encode() whose transform waits for  *)
(* requests that were all lost with frames it refused.                      *)
Calling == pc \in {"submit", "drain", "flush"}
Starved == wasted = Depth
EncodeEnds == Calling ~> (~Calling \/ Starved)
=============================================================================
