------------------------- MODULE RecordingTimeline -------------------------
(***************************************************************************)
(* Who writes which frame into which view track, and with which samples.   *)
(*                                                                         *)
(* The GUI thread's heartbeat (heartbeat.cpp, ReplayManager::onTimerTick)  *)
(* turns the clock into frame numbers; every number is posted as a pulse   *)
(* to every source worker and the blue writer fills the views without a    *)
(* source at once.  A worker handles its pulses later, on its own thread,  *)
(* and reads the view it is mapped to only then.  updateViewMapping runs   *)
(* on the GUI thread and changes the workers' tracks one after the other.  *)
(*                                                                         *)
(* Time is in UNITS (the code's milliseconds), sound in samples.  The      *)
(* constants keep what matters of 30 fps, 1000 ms and 48 kHz: the length   *)
(* of a frame is no whole number of units.                                 *)
(***************************************************************************)
EXTENDS Integers, Sequences, FiniteSets, SequencesExt

CONSTANTS
    NumSources, NumViews,
    Fps, Units,        \* frames and units in a second
    UnitSamples,       \* samples in a unit
    MaxPerTick,        \* kMaxFramesPerTick
    MaxElapsed,        \* BOUND: units a recording lasts
    MaxRemaps          \* BOUND: changes of the mapping

ASSUME TimelineAssumption ==
    /\ NumSources \in Nat /\ NumViews \in Nat
    /\ {Fps, Units, UnitSamples, MaxPerTick} \subseteq Nat \ {0}
    /\ {MaxElapsed, MaxRemaps} \subseteq Nat

Workers == 1..NumSources
Views == 1..NumViews
Blue == 0                      \* as a writer; as a slot it means: no source
Rate == Units * UnitSamples    \* kAudioSampleRate
Unset == -1

VARIABLES
    elapsed,    \* the session clock
    frame,      \* m_globalFrameCount
    slots,      \* m_viewSlotMap: the worker of a view, 0 = blue
    burst,      \* the frames the heartbeat still has to pulse in this tick
    setting,    \* the worker updateViewMapping sets next, 0 = not running
    remaps,     \* changes of the mapping so far
    track,      \* m_viewTrack of each worker, 0 = not assigned
    pulses,     \* masterPulse events posted to each worker
    cursor,     \* m_audioWriteCursor of each worker
    silence,    \* m_blueAudioCursor of each view
    log,        \* the file: what was written on each view, in order
    emitted,    \* history: the frames pulsed, in order
    disturbed   \* history: frames still posted to a worker at a remap

gui  == <<elapsed, frame, slots, burst, setting, remaps, emitted, disturbed>>
vars == <<gui, track, pulses, cursor, silence, log>>

-----------------------------------------------------------------------------
(* heartbeatFrameSpan: the frames to emit at a tick.                        *)
Derived(t) == (t * Fps) \div Units
ResumeFrom(d, last) == IF d - (last + 1) >= Fps THEN d - Fps + 1 ELSE last + 1
Lower(a, b) == IF a < b THEN a ELSE b
Higher(a, b) == IF a > b THEN a ELSE b

Span(t, last) ==
    LET d    == Derived(t)
        from == ResumeFrom(d, last)
    IN  [from |-> from,
         to   |-> IF d <= last THEN last ELSE Lower(d, from + MaxPerTick - 1)]

Frames(span) == [i \in 1 .. span.to - span.from + 1 |-> span.from + i - 1]

(* Frame -> file time -> samples, each division rounding down.              *)
SamplesAt(f) == ((f * Units) \div Fps) * UnitSamples

(* Both audio writers: from the cursor to this frame's sample, at most a    *)
(* second at once; a cursor that is not set starts one frame earlier.       *)
StartAt(c, f) == IF c = Unset THEN Higher(0, SamplesAt(f) - Rate \div Fps) ELSE c
Advance(c, f) == c + Higher(0, Lower(SamplesAt(f) - c, Rate))
CursorStays(c) == c
CursorUnderSource(c) == Unset
Write(w, f, c) == [frame |-> f, by |-> w, from |-> StartAt(c, f),
                   to |-> Advance(StartAt(c, f), f)]

-----------------------------------------------------------------------------
(* onTimerTick: read the clock once, then pulse frame after frame.          *)
OnTimerTick(t) ==
    /\ burst = <<>> /\ setting = 0
    /\ elapsed' = t
    /\ burst' = Frames(Span(t, frame))
    /\ UNCHANGED <<frame, slots, setting, remaps, emitted, disturbed, track, pulses,
                   cursor, silence, log>>

(* One pulse: posted to every worker, and writeBlueFrames.                  *)
AllViews == Views
BlueViews == {v \in Views : slots[v] = Blue}
Pulse ==
    /\ burst # <<>>
    /\ LET f    == Head(burst)
           blue == BlueViews
       IN  /\ frame' = f
           /\ emitted' = Append(emitted, f)
           /\ pulses' = [w \in Workers |-> Append(pulses[w], f)]
           /\ log' = [v \in Views |-> IF v \in blue
                                      THEN Append(log[v], Write(Blue, f, silence[v]))
                                      ELSE log[v]]
           /\ silence' = [v \in Views |-> IF v \in blue
                                          THEN Write(Blue, f, silence[v]).to
                                          ELSE CursorUnderSource(silence[v])]
    /\ burst' = Tail(burst)
    /\ UNCHANGED <<elapsed, slots, setting, remaps, disturbed, track, cursor>>

(* updateViewMapping: m_viewSlotMap first, then each worker's atomic.       *)
UpdateViewMapping(map) ==
    /\ burst = <<>> /\ setting = 0 /\ remaps < MaxRemaps
    /\ map # slots
    /\ slots' = map
    /\ setting' = IF Workers = {} THEN 0 ELSE 1
    /\ remaps' = remaps + 1
    /\ disturbed' = disturbed \cup UNION {ToSet(pulses[w]) : w \in Workers}
    /\ UNCHANGED <<elapsed, frame, burst, track, pulses, cursor, silence, log, emitted>>

SetViewTrack ==
    /\ setting # 0
    /\ LET mine == {v \in Views : slots[v] = setting} IN
       track' = [track EXCEPT ![setting] = IF mine = {} THEN 0 ELSE CHOOSE v \in mine : TRUE]
    /\ setting' = IF setting = NumSources THEN 0 ELSE setting + 1
    /\ UNCHANGED <<elapsed, frame, burst, slots, remaps, pulses, cursor, silence, log,
                   emitted, disturbed>>

(* onMasterPulse on the worker's thread: a mapped worker writes the frame   *)
(* and the samples up to it, another one pins its cursor to now.            *)
FrozenCursor(c, f) == c
CursorWhenUnmapped(c, f) == SamplesAt(f)
OnMasterPulse(w) ==
    /\ pulses[w] # <<>>
    /\ pulses' = [pulses EXCEPT ![w] = Tail(@)]
    /\ LET f == Head(pulses[w])
           v == track[w]
           e == Write(w, f, cursor[w])
       IN  \/ /\ v = 0
              /\ cursor' = [cursor EXCEPT ![w] = CursorWhenUnmapped(@, f)]
              /\ UNCHANGED log
           \/ /\ v # 0
              /\ cursor' = [cursor EXCEPT ![w] = e.to]
              /\ log' = [log EXCEPT ![v] = Append(@, e)]
    /\ UNCHANGED <<gui, track, silence>>

(* Mappings the slot map can hold: no source twice (see SourceRouting).     *)
Mappings == {m \in [Views -> 0..NumSources] :
               \A u, v \in Views : m[u] # 0 /\ m[u] = m[v] => u = v}

Init ==
    /\ elapsed = 0 /\ frame = 0 /\ burst = <<>> /\ setting = 0 /\ remaps = 0
    /\ slots \in Mappings
    /\ track = [w \in Workers |-> LET mine == {v \in Views : slots[v] = w}
                                  IN IF mine = {} THEN 0 ELSE CHOOSE v \in mine : TRUE]
    /\ pulses = [w \in Workers |-> <<>>]
    /\ cursor = [w \in Workers |-> Unset]
    /\ silence = [v \in Views |-> Unset]
    /\ log = [v \in Views |-> <<>>]
    /\ emitted = <<>> /\ disturbed = {}

Next ==
    \/ \E t \in elapsed..MaxElapsed : OnTimerTick(t)
    \/ Pulse
    \/ \E map \in Mappings : UpdateViewMapping(map)
    \/ SetViewTrack
    \/ \E w \in Workers : OnMasterPulse(w)

Spec == Init /\ [][Next]_vars

-----------------------------------------------------------------------------
(* Every worker has handled the frame.                                      *)
Handled(f) == \A w \in Workers : f \notin ToSet(pulses[w])
Quiet(f) == f \in ToSet(emitted) \ disturbed /\ Handled(f)
On(v, f) == {i \in DOMAIN log[v] : log[v][i].frame = f}

(* The tracks are constant frame rate: apart from the frames a worker had   *)
(* not handled yet when the mapping changed (the "one-tick skew" of the     *)
(* comment above updateViewMapping), every view gets every frame exactly    *)
(* once, from a worker or from the blue writer.                             *)
EveryFrameExactlyOnce ==
    \A f \in ToSet(emitted), v \in Views : Quiet(f) => Cardinality(On(v, f)) = 1

(* Sound never leaves its picture: with a frame goes the sound up to that   *)
(* frame's time, or a whole second of it while a backlog is being worked    *)
(* off; rounding never accumulates.                                         *)
SoundEndsWithPicture ==
    \A v \in Views : \A i \in DOMAIN log[v] :
        LET e == log[v][i] IN e.to = SamplesAt(e.frame) \/ e.to = e.from + Rate

(* Where frame f is followed by f + 1 the sound goes on without a gap, also *)
(* when another worker or a worker instead of blue takes the view over.     *)
(* When blue takes over it restarts at "one frame ago", which is off by     *)
(* less than a unit, for a frame is no whole number of units.  While a view *)
(* works a backlog off, its worker's sound is behind and would take that    *)
(* along to another view: nothing is said of the seam after such a frame.   *)
Seam(e, d) ==
    IF d.by = Blue /\ e.by # Blue
    THEN d.from - e.to \in (-UnitSamples)..UnitSamples
    ELSE d.from = e.to
CaughtUp(f) == \A v \in Views : \A i \in On(v, f) : log[v][i].to = SamplesAt(f)
SoundIsSeamless ==
    \A v \in Views : \A f \in ToSet(emitted) :
        Quiet(f) /\ Quiet(f + 1) /\ CaughtUp(f) =>
            \A i \in On(v, f), j \in On(v, f + 1) : Seam(log[v][i], log[v][j])

(* Both: the sound of every view goes with its pictures and never tears.    *)
SoundFollowsPicture == SoundEndsWithPicture /\ SoundIsSeamless
=============================================================================
