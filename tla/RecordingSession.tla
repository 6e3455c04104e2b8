-------------------------- MODULE RecordingSession --------------------------
(***************************************************************************)
(* ReplayManager (replaymanager.cpp): starting and stopping a recording,   *)
(* the telemetry tracks, and the inter-camera phase servo.  Capture        *)
(* threads report connections, statistics and timecodes through queued     *)
(* signals, which the main thread takes one at a time, also those of       *)
(* workers that are gone.  Timecode (timing/timecodealigner.cpp) and phase *)
(* (timing/sourceoffsetestimator.cpp) are graded here.                     *)
(***************************************************************************)
EXTENDS Integers, Sequences, FiniteSets, FiniteSetsExt

CONSTANTS
  Sources,     \* 0 .. N - 1, in the order of the source list
  Qualities,   \* ClockQuality, larger is better; 0 is not locked
  Offsets,     \* clockOffsetNs, in units of the servo
  FrameUnits,  \* the length of a frame, in units of the servo
  ServoStep,   \* kServoStepMs
  Cap,         \* kMaxInterCamCorrectionMs
  Feeds,       \* telemetry feeds
  MaxQueue,    \* BOUND: signals under way
  MaxChanges,  \* BOUND: changes of connections, phases and timecodes
  MaxStarts    \* BOUND: recordings

SessionAssumption ==
  /\ Sources \subseteq Nat /\ IsFiniteSet(Sources) /\ Qualities \subseteq Nat
  /\ Offsets \subseteq Int /\ FrameUnits \in Nat \ {0} /\ ServoStep \in Nat \ {0} /\ Cap \in Nat
  /\ MaxQueue \in Nat /\ MaxChanges \in Nat /\ MaxStarts \in Nat

None == -1
NoStats == [quality |-> 0, offset |-> 0]

VARIABLES
  recording, \* m_isRecording
  clock,     \* m_clock runs
  timing,    \* m_timingRef
  blue,      \* the blue encoder and its packet
  muxer,     \* the muxer is open: the telemetry tracks of the file, <<>> if closed
  feeds,     \* m_telemetryFeedIds
  telemetry, \* history: the last packet, its feed and track
  hasStats,  \* m_sourceHasStats
  stats,     \* m_lastStats
  anchors,   \* m_tcAligner: the session frame less the timecode of the first observation
  reference, \* m_referenceSource
  graded,    \* m_offsetEstimator: tier and offset
  trim,      \* m_servoTrimMs
  applied,   \* the trim each worker was told
  connected, \* the source is connected (capture thread)
  phase,     \* quality and offset of its clock (capture thread)
  timecode,  \* session frame less timecode of its frames, None without (capture thread)
  queue,     \* queued signals
  changes, starts

lifeVars == <<recording, clock, timing, blue, muxer>>
phaseVars == <<hasStats, stats, anchors, reference, graded, trim, applied>>
sourceVars == <<connected, phase, timecode>>
vars == <<lifeVars, feeds, telemetry, phaseVars, sourceVars, queue, changes, starts>>

NoGrade == [tier |-> "Approximate", offset |-> 0]

Init ==
  /\ recording = FALSE /\ clock = FALSE /\ timing = FALSE /\ blue = FALSE
  /\ muxer = <<FALSE, <<>>>> /\ feeds = <<>> /\ telemetry = {}
  /\ hasStats = [s \in Sources |-> FALSE] /\ stats = [s \in Sources |-> NoStats]
  /\ anchors = [s \in Sources |-> None] /\ reference = None
  /\ graded = [s \in Sources |-> NoGrade] /\ trim = [s \in Sources |-> 0]
  /\ applied = [s \in Sources |-> 0]
  /\ connected = [s \in Sources |-> FALSE] /\ phase = [s \in Sources |-> NoStats]
  /\ timecode = [s \in Sources |-> None]
  /\ queue = <<>> /\ changes = 0 /\ starts = 0

-----------------------------------------------------------------------------
(* Mutant: the telemetry tracks can be changed at any time.                 *)
SetTelemetryFeedsAnyTime(f) ==
  /\ feeds # f /\ changes < MaxChanges
  /\ feeds' = f /\ changes' = changes + 1
  /\ UNCHANGED <<lifeVars, telemetry, phaseVars, sourceVars, queue, starts>>

(* setTelemetryFeeds(): refused while a recording runs.                     *)
SetTelemetryFeeds(f) ==
  /\ ~recording /\ feeds # f /\ changes < MaxChanges
  /\ feeds' = f /\ changes' = changes + 1
  /\ UNCHANGED <<lifeVars, telemetry, phaseVars, sourceVars, queue, starts>>

TrackOf(fs, f) == CHOOSE i \in DOMAIN fs : fs[i] = f

(* recordTelemetryEvent()                                                   *)
RecordTelemetryEvent(f) ==
  /\ recording /\ \E i \in DOMAIN feeds : feeds[i] = f
  /\ telemetry' = {[feed |-> f, track |-> TrackOf(feeds, f)]}
  /\ UNCHANGED <<lifeVars, feeds, phaseVars, sourceVars, queue, changes, starts>>

-----------------------------------------------------------------------------
(* startRecording(): the evidence of the session before is dropped first.   *)
FreshEvidence ==
  /\ hasStats' = [s \in Sources |-> FALSE] /\ stats' = [s \in Sources |-> NoStats]
  /\ anchors' = [s \in Sources |-> None] /\ reference' = None
  /\ graded' = [s \in Sources |-> NoGrade] /\ trim' = [s \in Sources |-> 0]

(* setupBlueEncoder(), cleanupBlueEncoder(): all of it or nothing.          *)
SetupBlue(ok) == blue' = ok

StartRecording ==
  /\ ~recording /\ starts < MaxStarts /\ starts' = starts + 1
  /\ FreshEvidence /\ SetupBlue(TRUE)
  /\ muxer' = <<TRUE, feeds>> /\ clock' = TRUE /\ timing' = TRUE
  /\ recording' = TRUE /\ applied' = [s \in Sources |-> 0]
  /\ connected' = [s \in Sources |-> FALSE]
  /\ telemetry' = {}
  /\ UNCHANGED <<feeds, phase, timecode, queue, changes>>

(* Mutant: the file stays open when the blue encoder fails after it.        *)
StartFailsHalfway ==
  /\ ~recording /\ starts < MaxStarts /\ starts' = starts + 1
  /\ FreshEvidence /\ SetupBlue(FALSE)
  /\ \E opened \in BOOLEAN : muxer' = <<opened, IF opened THEN feeds ELSE <<>>>>
  /\ UNCHANGED <<recording, clock, timing, applied, telemetry, feeds, sourceVars, queue, changes>>

(* The file or the blue encoder fails: what the other opened is closed.     *)
StartFails ==
  /\ ~recording /\ starts < MaxStarts /\ starts' = starts + 1
  /\ FreshEvidence /\ SetupBlue(FALSE) /\ muxer' = <<FALSE, <<>>>>
  /\ UNCHANGED <<recording, clock, timing, applied, telemetry, feeds, sourceVars, queue, changes>>

Told(s, c) == [kind |-> "connection", source |-> s, connected |-> c]

(* The connected sources, in the order of the source list.                  *)
Leaving ==
  LET gone == {s \in Sources : connected[s]}
  IN [k \in 1 .. Cardinality(gone) |->
        CHOOSE s \in gone : Cardinality({o \in gone : o < s}) = k - 1]

(* stopRecording(): the workers are joined; on its way out a connected one  *)
(* reports that it is not any more.                                         *)
StopRecording ==
  /\ recording /\ recording' = FALSE
  /\ queue' = queue \o [k \in DOMAIN Leaving |-> Told(Leaving[k], FALSE)]
  /\ connected' = [s \in Sources |-> FALSE]
  /\ SetupBlue(FALSE) /\ muxer' = <<FALSE, <<>>>> /\ clock' = FALSE /\ timing' = FALSE
  /\ UNCHANGED <<feeds, telemetry, phaseVars, phase, timecode, changes, starts>>

-----------------------------------------------------------------------------
(* The capture threads.                                                     *)
Connect(s, c) ==
  /\ recording /\ connected[s] # c /\ changes < MaxChanges /\ Len(queue) < MaxQueue
  /\ connected' = [connected EXCEPT ![s] = c] /\ changes' = changes + 1
  /\ queue' = Append(queue, Told(s, c))
  /\ \E q \in Qualities, o \in Offsets :
       phase' = IF c THEN [phase EXCEPT ![s] = [quality |-> q, offset |-> o]] ELSE phase
  /\ \E t \in Nat \cap (0 .. 1) :
       timecode' = [timecode EXCEPT ![s] = IF c THEN (IF t = 0 THEN None ELSE s) ELSE @]
  /\ UNCHANGED <<lifeVars, feeds, telemetry, phaseVars, starts>>

Report(s) ==
  /\ recording /\ connected[s] /\ Len(queue) < MaxQueue
  /\ queue' = Append(queue, [kind |-> "stats", source |-> s, stats |-> phase[s]])
  /\ UNCHANGED <<lifeVars, feeds, telemetry, phaseVars, sourceVars, changes, starts>>

FrameTimecode(s) ==
  /\ recording /\ connected[s] /\ timecode[s] # None /\ Len(queue) < MaxQueue
  /\ anchors[s] = None
  /\ queue' = Append(queue, [kind |-> "timecode", source |-> s, at |-> timecode[s]])
  /\ UNCHANGED <<lifeVars, feeds, telemetry, phaseVars, sourceVars, changes, starts>>

-----------------------------------------------------------------------------
(* TimecodeAligner                                                          *)
HasTimecode(s) == anchors[s] # None
FrameOffset(a, b) == IF HasTimecode(a) /\ HasTimecode(b) THEN anchors[a] - anchors[b] ELSE 0
Aligned(a, b) == HasTimecode(a) /\ HasTimecode(b) /\ FrameOffset(a, b) = 0

(* SourceOffsetEstimator::update(); no external reference is locked.        *)
Grade(s, ref, st) ==
  [tier |-> IF s = ref \/ Aligned(ref, s) THEN "FrameAccurate"
            ELSE IF st[s].quality > 0 THEN "Bounded" ELSE "Approximate",
   offset |-> st[s].offset - st[ref].offset]

(* The best clock of those that have reported; the first of equals.         *)
Reference(has, st) ==
  LET live == {s \in Sources : has[s]}
      best == {s \in live : \A o \in live : st[o].quality <= st[s].quality}
  IN IF live = {} THEN None ELSE Min(best)

Bound(x) == IF x < -Cap THEN -Cap ELSE IF x > Cap THEN Cap ELSE x

Target(s, ref, has, st, gr) ==
  IF s = ref \/ ~has[s] \/ st[s].quality = 0 \/ gr[s].tier = "Approximate" THEN 0
  ELSE IF HasTimecode(s) /\ HasTimecode(ref) THEN Bound(FrameOffset(ref, s) * FrameUnits)
  ELSE Bound(-gr[s].offset)

(* Mutant: the ramp does not come down again.                               *)
RampUpOnly(from, to) == IF to > from THEN Min({from + ServoStep, to}) ELSE from

Ramp(from, to) ==
  IF to > from THEN Min({from + ServoStep, to})
  ELSE IF to < from THEN Max({from - ServoStep, to}) ELSE from

(* recomputeInterCamPhase()                                                 *)
Recompute(has, st) ==
  LET ref == Reference(has, st)
      gr == [s \in Sources |-> IF has[s] THEN Grade(s, ref, st) ELSE graded[s]]
      next == [s \in Sources |-> Ramp(trim[s], Target(s, ref, has, st, gr))]
  IN /\ hasStats' = has /\ stats' = st /\ reference' = ref
     /\ graded' = IF ref = None THEN graded ELSE gr
     /\ trim' = IF ref = None THEN trim ELSE next
     /\ applied' = IF ref = None \/ ~recording THEN applied
                   ELSE [s \in Sources |-> IF next[s] # trim[s] THEN next[s] ELSE applied[s]]

(* onSourceStatsUpdated()                                                   *)
OnStats(e) ==
  /\ Recompute([hasStats EXCEPT ![e.source] = TRUE], [stats EXCEPT ![e.source] = e.stats])
  /\ UNCHANGED anchors

(* Mutant: only a connection is noticed.                                    *)
OnConnectionIgnored(e) == UNCHANGED phaseVars

(* onSourcePhaseConnectionChanged()                                         *)
OnConnection(e) ==
  IF e.connected THEN UNCHANGED phaseVars
  ELSE Recompute([hasStats EXCEPT ![e.source] = FALSE], stats) /\ UNCHANGED anchors

(* onFrameTimecode(), TimecodeAligner::observe(): the first one counts.     *)
OnTimecode(e) ==
  /\ anchors' = [anchors EXCEPT ![e.source] = IF @ = None THEN e.at ELSE @]
  /\ UNCHANGED <<hasStats, stats, reference, graded, trim, applied>>

Deliver ==
  /\ queue # <<>> /\ queue' = Tail(queue)
  /\ LET e == Head(queue)
     IN \/ e.kind = "stats" /\ OnStats(e)
        \/ e.kind = "connection" /\ OnConnection(e)
        \/ e.kind = "timecode" /\ OnTimecode(e)
  /\ UNCHANGED <<lifeVars, feeds, telemetry, sourceVars, changes, starts>>

FeedLists == {<<>>} \cup {<<f>> : f \in Feeds}

Next ==
  \/ \E f \in FeedLists : SetTelemetryFeeds(f)
  \/ \E f \in Feeds : RecordTelemetryEvent(f)
  \/ StartRecording \/ StartFails \/ StopRecording
  \/ \E s \in Sources : Connect(s, TRUE) \/ Connect(s, FALSE) \/ Report(s) \/ FrameTimecode(s)
  \/ Deliver

(* Signals are delivered, and a connected source reports once a second.     *)
Fairness == WF_vars(Deliver) /\ \A s \in Sources : SF_vars(Report(s))

Spec == Init /\ [][Next]_vars /\ Fairness

-----------------------------------------------------------------------------
(* The servo never follows a source that is gone, of this session or of the *)
(* one before: once the signals under way are taken, the reference is a     *)
(* connected source that has reported, and each worker has the trim the     *)
(* servo holds for it.                                                      *)
ReferenceIsLive ==
  recording /\ queue = <<>> =>
    /\ reference # None => connected[reference]
    /\ \A s \in Sources : hasStats[s] => connected[s] /\ applied[s] = trim[s]

(* A telemetry packet goes to the track the file has for its feed, and      *)
(* whatever fails at a start, nothing is left open by a recording that does *)
(* not run.                                                                 *)
TelemetryOnOwnTrack ==
  /\ recording => \A t \in telemetry :
       t.track \in DOMAIN muxer[2] /\ muxer[2][t.track] = t.feed
  /\ ~recording => ~clock /\ ~timing /\ ~blue /\ ~muxer[1]

(* When connections, clocks and timecodes hold still, every camera comes to *)
(* stand at its target and stays there.                                     *)
Settled ==
  reference = None \/
    \A s \in Sources : trim[s] = Target(s, reference, hasStats, stats, graded)
TrimsSettle == []<>Settled
=============================================================================
