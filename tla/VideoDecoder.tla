---------------------------- MODULE VideoDecoder ----------------------------
(***************************************************************************)
(* The Media Foundation video decoder                                      *)
(* (ingest/nativevideodecoder_mediafoundation.cpp), used by one capture    *)
(* thread: a decode() call makes sure that a transform for the unit's      *)
(* parameter sets exists, gives it the unit, and hands on the frames it    *)
(* has ready.  The transform (external) is synchronous, or asynchronous:   *)
(* then it decodes on threads of its own, asks for input with one event    *)
(* per access unit and announces each output with another.                 *)
(***************************************************************************)
EXTENDS Integers, Sequences, FiniteSets, SequencesExt

CONSTANTS
  Keys,      \* parameter sets in the stream
  Depth,     \* access units the transform works on at once
  MaxUnits,  \* BOUND: access units
  MaxChanges \* BOUND: output format changes of a transform

DecoderAssumption ==
  Depth \in Nat \ {0} /\ MaxUnits \in Nat /\ MaxChanges \in Nat

NoKey == "none"

VARIABLES
  pc,       \* where the capture thread is inside decode()
  active,   \* transform exists: its activeParameterSetKey, NoKey if started without one
  isAsync,  \* asyncTransform
  surfaces, \* deviceManager
  credits,  \* asyncNeedInputEvents
  unit,     \* the access unit of the call
  units,    \* access units so far
  fed,      \* history: units this transform was given
  shown,    \* history: units whose frames it handed on
  wasted,   \* history: requests spent on units it refused, which it still waits to be met
  uncalled, \* history: a ProcessInput or ProcessOutput the transform had not called for
  events,   \* the event queue of the transform (external)
  asked,    \* inputs it has asked for and not been given (external)
  inside,   \* units it is decoding (external)
  ready,    \* units decoded, not fetched (external)
  changes   \* output format changes it has yet to announce (external)

transformVars == <<events, asked, inside, ready, changes>>
vars == <<pc, active, isAsync, surfaces, credits, unit, units, fed, shown, wasted, uncalled,
          transformVars>>

Init ==
  /\ pc = "idle" /\ active = {} /\ isAsync = FALSE /\ surfaces = FALSE
  /\ credits = 0 /\ unit = [id |-> 0, key |-> NoKey] /\ units = 0
  /\ fed = <<>> /\ shown = <<>> /\ wasted = 0 /\ uncalled = FALSE
  /\ events = <<>> /\ asked = 0 /\ inside = <<>> /\ ready = <<>> /\ changes = 0

-----------------------------------------------------------------------------
(* reset(): the transform is flushed and released, with all it held.        *)
Reset ==
  /\ active' = {} /\ isAsync' = FALSE /\ surfaces' = FALSE /\ credits' = 0
  /\ fed' = <<>> /\ shown' = <<>> /\ wasted' = 0 /\ events' = <<>> /\ asked' = 0
  /\ inside' = <<>> /\ ready' = <<>> /\ changes' = 0

(* createTransform(): the first transform registered for the codec; an      *)
(* asynchronous one is unlocked and gives events.                           *)
CreateTransform(async) ==
  /\ isAsync' = async
  /\ \E n \in 0 .. MaxChanges : changes' = n
  /\ fed' = <<>> /\ shown' = <<>> /\ wasted' = 0 /\ events' = <<>> /\ asked' = 0
  /\ inside' = <<>> /\ ready' = <<>>

(* createD3D()                                                              *)
CreateD3D(wanted) == surfaces' = wanted

(* configureTypes(), after which the transform streams.                     *)
ConfigureTypes(key) == active' = {key}

(* ensureSession(): the parameter sets of a unit without any stay in force. *)
Suits(key, wantSurface) ==
  active # {} /\ (wantSurface => surfaces) /\ (key = NoKey \/ active = {key})

EnsureSession(key, wantSurface) ==
  \/ /\ Suits(key, wantSurface)
     /\ pc' = "submit"
     /\ UNCHANGED <<active, isAsync, surfaces, credits, fed, shown, wasted, transformVars>>
  \/ /\ ~Suits(key, wantSurface) /\ credits' = 0
     /\ \E async \in BOOLEAN : CreateTransform(async)
     /\ CreateD3D(wantSurface) /\ ConfigureTypes(key)
     /\ pc' = "submit"
  \/ /\ ~Suits(key, wantSurface)
     /\ Reset /\ pc' = "idle"

(* decode(), decodeKeepSurface(): a unit, and whether surfaces are kept.    *)
Decode(key, wantSurface) ==
  /\ pc = "idle" /\ units < MaxUnits
  /\ units' = units + 1 /\ unit' = [id |-> units + 1, key |-> key]
  /\ EnsureSession(key, wantSurface)
  /\ UNCHANGED uncalled

(* The session's reset(), on a reconnect or a decode error.                 *)
ResetDecoder ==
  /\ pc = "idle" /\ active # {}
  /\ Reset /\ UNCHANGED <<pc, unit, units, uncalled>>

-----------------------------------------------------------------------------
(* processInputSample(): the unit is taken.                                 *)
TakeInput ==
  /\ fed' = Append(fed, unit.id) /\ inside' = Append(inside, unit.id)
  /\ asked' = IF isAsync /\ asked > 0 THEN asked - 1 ELSE asked
  /\ pc' = "drain" /\ UNCHANGED wasted

(* FAILED(hr): decode() returns at once.  The request is spent: whether the *)
(* transform gives it up, and may ask again, or waits for it is its affair. *)
RefuseInput ==
  /\ pc' = "idle" /\ UNCHANGED <<fed, inside>>
  /\ \/ asked' = (IF isAsync /\ asked > 0 THEN asked - 1 ELSE asked) /\ UNCHANGED wasted
     \/ isAsync /\ asked > 0 /\ wasted' = wasted + 1 /\ UNCHANGED asked

ProcessInput ==
  /\ TakeInput \/ RefuseInput
  /\ uncalled' = (uncalled \/ (isAsync /\ asked = 0))

(* submitSample()                                                           *)
SubmitSync ==
  /\ pc = "submit" /\ ~isAsync
  /\ ProcessInput
  /\ UNCHANGED <<active, isAsync, surfaces, credits, unit, units, shown, events, ready, changes>>

(* decodeAsync(): a request kept from before is used first.                 *)
UseCredit ==
  /\ pc = "submit" /\ isAsync /\ credits > 0
  /\ credits' = credits - 1
  /\ ProcessInput
  /\ UNCHANGED <<active, isAsync, surfaces, unit, units, shown, events, ready, changes>>

(* processOutput(), once per announcement: a format change is taken over    *)
(* and the output is announced again.                                       *)
ProcessOutput ==
  IF changes > 0
  THEN changes' = changes - 1 /\ events' = Append(Tail(events), "output")
       /\ UNCHANGED <<shown, ready, uncalled>>
  ELSE /\ uncalled' = (uncalled \/ ready = <<>>)
       /\ shown' = IF ready = <<>> THEN shown ELSE Append(shown, Head(ready))
       /\ ready' = IF ready = <<>> THEN ready ELSE Tail(ready)
       /\ events' = Tail(events) /\ UNCHANGED changes

(* Mutant: while it waits to be asked, announcements are put off.           *)
WaitTakesRequestsOnly ==
  /\ pc = "submit" /\ isAsync /\ credits = 0 /\ events # <<>> /\ Head(events) = "need"
  /\ events' = Tail(events) /\ ProcessInput
  /\ UNCHANGED <<active, isAsync, surfaces, credits, unit, units, shown, ready, changes>>

(* decodeAsync(): the wait; handleAsyncEvent() with a sample to give.       *)
WaitForRequest ==
  /\ pc = "submit" /\ isAsync /\ credits = 0 /\ events # <<>>
  /\ \/ /\ Head(events) = "need"
        /\ events' = Tail(events) /\ ProcessInput
        /\ UNCHANGED <<shown, ready, changes>>
     \/ /\ Head(events) = "output"
        /\ ProcessOutput
        /\ UNCHANGED <<pc, fed, wasted, inside, asked>>
  /\ UNCHANGED <<active, isAsync, surfaces, credits, unit, units>>

(* Mutant: a request that comes while there is nothing to give is lost.     *)
DrainEventDropsRequests ==
  /\ pc = "drain" /\ isAsync /\ events # <<>>
  /\ \/ /\ Head(events) = "need" /\ events' = Tail(events)
        /\ UNCHANGED <<credits, shown, ready, changes, uncalled>>
     \/ Head(events) = "output" /\ ProcessOutput /\ UNCHANGED credits
  /\ UNCHANGED <<pc, active, isAsync, surfaces, unit, units, fed, wasted, asked, inside>>

(* drainReadyAsyncEvents(): handleAsyncEvent() with nothing to give.        *)
DrainEvent ==
  /\ pc = "drain" /\ isAsync /\ events # <<>>
  /\ \/ /\ Head(events) = "need"
        /\ events' = Tail(events) /\ credits' = credits + 1
        /\ UNCHANGED <<shown, ready, changes, uncalled>>
     \/ Head(events) = "output" /\ ProcessOutput /\ UNCHANGED credits
  /\ UNCHANGED <<pc, active, isAsync, surfaces, unit, units, fed, wasted, asked, inside>>

(* drainSync(): every output, until the transform wants more input; it      *)
(* holds back less than Depth units.                                        *)
DrainSync ==
  /\ pc = "drain" /\ ~isAsync
  /\ \/ changes > 0 /\ changes' = changes - 1 /\ UNCHANGED <<shown, inside, pc>>
     \/ /\ changes = 0 /\ inside # <<>>
        /\ shown' = Append(shown, Head(inside)) /\ inside' = Tail(inside)
        /\ UNCHANGED <<changes, pc>>
     \/ /\ changes = 0 /\ Len(inside) < Depth
        /\ pc' = "idle" /\ UNCHANGED <<changes, shown, inside>>
  /\ UNCHANGED <<active, isAsync, surfaces, credits, unit, units, fed, wasted, uncalled,
                 events, asked, ready>>

DecodeReturns ==
  /\ pc = "drain" /\ isAsync /\ events = <<>>
  /\ pc' = "idle"
  /\ UNCHANGED <<active, isAsync, surfaces, credits, unit, units, fed, shown, wasted, uncalled,
                 transformVars>>

-----------------------------------------------------------------------------
(* The asynchronous transform (external).  Output that is not fetched       *)
(* leaves it no room.                                                       *)
Room == Depth - Len(inside) - Len(ready) - asked

AskForInput ==
  /\ active # {} /\ isAsync /\ Room > 0
  /\ asked' = asked + 1 /\ events' = Append(events, "need")
  /\ UNCHANGED <<pc, active, isAsync, surfaces, credits, unit, units, fed, shown, wasted, uncalled,
                 inside, ready, changes>>

FinishUnit ==
  /\ isAsync /\ inside # <<>>
  /\ inside' = Tail(inside) /\ ready' = Append(ready, Head(inside))
  /\ events' = Append(events, "output")
  /\ UNCHANGED <<pc, active, isAsync, surfaces, credits, unit, units, fed, shown, wasted, uncalled,
                 asked, changes>>

Thread ==
  SubmitSync \/ UseCredit \/ WaitForRequest \/ DrainEvent \/ DrainSync \/ DecodeReturns

Next ==
  \/ \E key \in Keys \cup {NoKey}, s \in BOOLEAN : Decode(key, s)
  \/ ResetDecoder \/ Thread \/ AskForInput \/ FinishUnit

Fairness == WF_vars(Thread) /\ WF_vars(AskForInput) /\ WF_vars(FinishUnit)

Spec == Init /\ [][Next]_vars /\ Fairness

-----------------------------------------------------------------------------
(* The transform is never given or asked for what it did not announce, a    *)
(* request is lost only with a unit it refused and none is carried over to  *)
(* another transform, and the frames of the units it took come out once     *)
(* each, in the order it was given them.                                    *)
TransformIsServed ==
  /\ ~uncalled
  /\ isAsync =>
       asked = credits + Cardinality({i \in DOMAIN events : events[i] = "need"}) + wasted
  /\ fed = shown \o ready \o inside

(* A decode() call ends: it waits only while the transform owes an event.   *)
(* All it could ask for may be lost with refused units, though; then it     *)
(* owes none, and since nobody resets it the next call waits for ever.      *)
Calling == pc # "idle"
Starved == wasted = Depth
DecodeEnds == Calling ~> (~Calling \/ Starved)
=============================================================================
