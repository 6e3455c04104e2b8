----------------------------- MODULE OutputClock -----------------------------
(***************************************************************************)
(* Which moment of the recording the output paints at each of its ticks.   *)
(*                                                                         *)
(* OutputRuntime dispatches one output frame per frame of wall time, with  *)
(* catch-up when it is late.  For each it asks PlaybackWorker for a        *)
(* snapshot (makeOutputSnapshot: published cache, commit gate, cache guard *)
(* and bookmark), without its own mutex, and then dispatches it under the  *)
(* mutex: OutputDispatcher samples a playing recording from its play epoch *)
(* and not from the snapshot, so the epoch must be reset by whoever moves  *)
(* the playhead: seekTo() and repositionTo() do.                           *)
(*                                                                         *)
(* Positions are counted in frames, time in nanoseconds (coarser in runs)  *)
(* of which a frame need not be a whole number.  The playback thread is    *)
(* reduced to taking a seek, committing it and decoding ahead; Playback    *)
(* models it in full.  Playback runs forward; armed cuts are not taken.    *)
(***************************************************************************)
EXTENDS FrameWindow

CONSTANTS
  Last,          \* newest frame of the recording
  Lead, Trail,   \* kLeadMs and kTrailMs in frames
  Targets,       \* positions the operator may seek to
  Numerator,     \* FrameRate: Numerator frames are dispatched ...
  Denominator,   \* ... in Denominator units of time
  MaxCatchUp,    \* m_maxCatchUpTicks (8 in the code)
  MaxLag,        \* bound: frames the output may be late
  MaxWall,       \* bound on the wall time
  MaxCommands    \* bound on the operator's commands

ASSUME ClockAssumption ==
  /\ Last \in Nat /\ Lead \in Nat \ {0} /\ Trail \in Nat
  /\ Targets \subseteq 0 .. Last
  /\ Numerator \in Nat \ {0} /\ Denominator \in Nat \ {0}
  /\ MaxCatchUp \in Nat \ {0} /\ MaxLag \in Nat \ {0}
  /\ MaxWall \in Nat /\ MaxCommands \in Nat

VARIABLES
  wall,          \* wall time since m_wallStartNs
  pos,           \* PlaybackTransport::m_currentPos
  playing,       \* m_isPlaying
  commands,      \* commands given so far (MaxCommands)
  ui,            \* how far the main thread is in a seek
  uiTarget,      \* its target
  seekTarget,    \* m_seekTargetMs, None when no seek waits
  seekGen,       \* m_seekGeneration
  committedGen,  \* m_committedGeneration
  committedPos,  \* m_committedPlayheadMs
  bookmark,      \* m_lastVisiblePlayheadMs
  cache,         \* the positions in the published OutputFrameCache
  edge,          \* newest frame the playback thread has decoded
  worker,        \* how far the playback thread is in repositionTo()
  job,           \* the target and generation it works for
  out,           \* how far the output thread is in dispatchDueTicksNs()
  elapsed,       \* elapsedNs of this call
  dispatched,    \* ticks dispatched by this call
  missed,        \* lastCappedCatchUpTicks; lastDispatchDeadlineMiss with it
  clockIndex,    \* m_nextOutputFrameIndex
  guarded,       \* m_outputPlayheadCacheGuarded
  tick,          \* the snapshot being taken
  epoch,         \* m_playEpoch, or NoEpoch
  passed,        \* did a seek or a commit pass the snapshot being taken?
  sampled,       \* sampledPlayheadMs of the last frame
  painted        \* the frame painted last, None while it is a placeholder

transportVars == <<wall, pos, playing>>
uiVars == <<commands, ui, uiTarget>>
gateVars == <<seekTarget, seekGen, committedGen, committedPos>>
workerVars == <<cache, edge, worker, job>>
runtimeVars == <<elapsed, dispatched, missed, clockIndex>>
snapVars == <<guarded, tick>>
paintVars == <<sampled, painted>>
clockVars == <<transportVars, uiVars, gateVars, bookmark, workerVars, out, runtimeVars,
          snapVars, epoch, passed, paintVars>>

NoEpoch == [index |-> None, pos |-> None, overtaken |-> FALSE]
NoTick == [cache |-> {}, held |-> FALSE, pos |-> None, playing |-> FALSE, reset |-> FALSE, mark |-> None]
NoJob == [target |-> None, gen |-> None]

Window(p) == {f \in 0 .. Last : p - Trail =< f /\ f =< p + Lead}

(* The recording was opened at a position and played for a while since: the *)
(* last committed target may be behind.                                     *)
ClockInit ==
  /\ wall = 0 /\ playing \in BOOLEAN
  /\ pos = Trail + 1
  /\ commands = 0 /\ ui = "idle" /\ uiTarget = None
  /\ seekTarget = None /\ seekGen = 0 /\ committedGen = 0
  /\ committedPos = 0 /\ bookmark = pos
  /\ cache = Window(pos) /\ edge = Max(Window(pos))
  /\ worker = "run" /\ job = NoJob
  /\ out = "idle" /\ elapsed = 0 /\ dispatched = 0 /\ missed = 0
  /\ clockIndex = 0 /\ guarded = FALSE /\ tick = NoTick
  /\ epoch = NoEpoch /\ passed = FALSE
  /\ sampled = None /\ painted = None

-----------------------------------------------------------------------------
(* frameIndexToNsCeil(): when a frame is scheduled.  dueFrameCount(): how    *)
(* many are due, the first one at once; in long double, taken to be exact.   *)
FrameIndexToNsFloor(index) == (index * Denominator) \div Numerator      \* mutant
FrameIndexToNsCeil(index) == (index * Denominator + (Numerator - 1)) \div Numerator
FramesIn(time) == (time * Numerator) \div Denominator
DueFrameCount(time) == FramesIn(time) + 1

(* Time is counted from the first call of dispatchDueTicksNs(); the output   *)
(* is at most MaxLag frames late, and the transport counts from its play     *)
(* start.                                                                    *)
WallTick ==
  /\ wall < MaxWall /\ (out = "idle" => clockIndex > 0)
  /\ FramesIn(wall + 1) - clockIndex =< MaxLag
  /\ wall' = wall + 1
  /\ pos' = IF playing THEN pos + (FramesIn(wall + 1) - FramesIn(wall)) ELSE pos
  /\ UNCHANGED <<playing, uiVars, gateVars, bookmark, workerVars, out,
                 runtimeVars, snapVars, epoch, passed, paintVars>>

(* The snapshot being taken is no longer what a new one would be.           *)
Overtake == passed' = (passed \/ out \in {"gens", "pos", "mark", "fly"})

ResetPlayEpoch == epoch' = NoEpoch /\ Overtake

-----------------------------------------------------------------------------
(* The main thread.  A seek moves the transport first and calls seekTo()     *)
(* then, which holds m_mutex: hold what is visible, open a new generation,   *)
(* reset the epoch.                                                          *)
Command ==
  /\ commands < MaxCommands /\ ui = "idle"
  /\ commands' = commands + 1

SetPlaying ==
  /\ Command
  /\ playing' = ~playing
  /\ UNCHANGED <<wall, pos, ui, uiTarget, gateVars, bookmark, workerVars,
                 out, runtimeVars, snapVars, epoch, passed, paintVars>>

TransportSeek(p) ==
  /\ Command
  /\ pos' = p /\ uiTarget' = p
  /\ ui' = "moved"
  /\ UNCHANGED <<wall, playing, gateVars, bookmark, workerVars, out,
                 runtimeVars, snapVars, epoch, passed, paintVars>>

HoldVisible ==
  /\ ui = "moved" /\ worker \notin {"reused", "reset"}       \* m_mutex
  /\ ui' = "held"
  /\ seekTarget' = uiTarget
  /\ committedPos' = bookmark
  /\ Overtake
  /\ UNCHANGED <<transportVars, commands, uiTarget, seekGen, committedGen, bookmark,
                 workerVars, out, runtimeVars, snapVars, epoch, paintVars>>

BumpGeneration ==
  /\ ui = "held"
  /\ ui' = "bumped"
  /\ seekGen' = seekGen + 1
  /\ Overtake
  /\ UNCHANGED <<transportVars, commands, uiTarget, seekTarget, committedGen,
                 committedPos, bookmark, workerVars, out, runtimeVars, snapVars,
                 epoch, paintVars>>

SeekResets ==
  /\ ui = "bumped"
  /\ ui' = "idle"
  /\ ResetPlayEpoch
  /\ UNCHANGED <<transportVars, commands, uiTarget, gateVars, bookmark, workerVars,
                 out, runtimeVars, snapVars, paintVars>>

-----------------------------------------------------------------------------
(* The playback thread: take the seek that waits, commit it when it is still *)
(* the latest, and re-anchor the output clock behind the commit.             *)
TakeSeek ==
  /\ worker = "run" /\ seekTarget # None
  /\ ui \notin {"held", "bumped"}           \* m_mutex
  /\ job' = [target |-> seekTarget, gen |-> None]
  /\ seekTarget' = None
  /\ worker' = "taken"
  /\ UNCHANGED <<transportVars, uiVars, seekGen, committedGen, committedPos, bookmark,
                 cache, edge, out, runtimeVars, snapVars, epoch, passed, paintVars>>

StartReposition ==                \* reset, and read m_seekGeneration
  /\ worker = "taken"
  /\ job' = [job EXCEPT !.gen = seekGen]
  /\ worker' = "filling"
  /\ ResetPlayEpoch
  /\ UNCHANGED <<transportVars, uiVars, gateVars, bookmark, cache, edge, out,
                 runtimeVars, snapVars, paintVars>>

BackwardJump ==                   \* the playhead is behind everything decoded
  /\ worker = "run" /\ seekTarget = None
  /\ FrameAt(cache, pos) = None
  /\ job' = [target |-> pos, gen |-> seekGen]
  /\ worker' = "filling"
  /\ UNCHANGED <<transportVars, uiVars, gateVars, bookmark, cache, edge, out,
                 runtimeVars, snapVars, epoch, passed, paintVars>>

MayCommit == /\ worker = "filling"
             /\ ui \notin {"held", "bumped"}           \* m_mutex
             /\ CanCommit(job.gen, seekGen, seekTarget # None)

GiveUp ==
  /\ worker = "filling" /\ ui \notin {"held", "bumped"}
  /\ ~CanCommit(job.gen, seekGen, seekTarget # None)
  /\ worker' = "run" /\ job' = NoJob
  /\ UNCHANGED <<transportVars, uiVars, gateVars, bookmark, cache, edge, out,
                 runtimeVars, snapVars, epoch, passed, paintVars>>

(* The window is merged into the cache and published together with the gate, *)
(* under m_bufferMutex.                                                      *)
Commit ==
  /\ MayCommit /\ out # "gens"                    \* m_bufferMutex
  /\ cache' = TrimBefore(cache \cup {f \in Window(job.target) : f =< job.target + 1},
                         job.target - Lead)
  /\ edge' = Min({Last, job.target + 1})
  /\ committedPos' = job.target /\ bookmark' = job.target
  /\ committedGen' = job.gen
  /\ worker' = "reset" /\ job' = NoJob
  /\ Overtake
  /\ UNCHANGED <<transportVars, uiVars, seekTarget, seekGen, out, runtimeVars,
                 snapVars, epoch, paintVars>>

(* When the target is decoded already nothing is published, and the gate is  *)
(* opened without m_bufferMutex: a snapshot may see the first half of it.    *)
Reuse ==
  /\ MayCommit
  /\ job.target \in cache /\ job.target =< edge
  /\ committedPos' = job.target /\ bookmark' = job.target
  /\ worker' = "reused"
  /\ Overtake
  /\ UNCHANGED <<transportVars, uiVars, seekTarget, seekGen, committedGen, cache, edge,
                 job, out, runtimeVars, snapVars, epoch, paintVars>>

ReuseOpensGate ==
  /\ worker = "reused"
  /\ committedGen' = job.gen
  /\ worker' = "reset" /\ job' = NoJob
  /\ Overtake
  /\ UNCHANGED <<transportVars, uiVars, seekTarget, seekGen, committedPos, bookmark,
                 cache, edge, out, runtimeVars, snapVars, epoch, paintVars>>

CommitWithoutReset ==             \* mutant of CommitResets
  /\ worker = "reset" /\ worker' = "run"
  /\ UNCHANGED <<transportVars, uiVars, gateVars, bookmark, cache, edge, job, out,
                 runtimeVars, snapVars, epoch, passed, paintVars>>

CommitResets ==                   \* still under m_mutex
  /\ worker = "reset"
  /\ worker' = "run"
  /\ ResetPlayEpoch
  /\ UNCHANGED <<transportVars, uiVars, gateVars, bookmark, cache, edge, job, out,
                 runtimeVars, snapVars, paintVars>>

DecodeTo == Min({Last, pos + Lead})

DecodeAhead ==
  /\ worker = "run" /\ seekTarget = None
  /\ edge < DecodeTo
  /\ edge' = edge + 1
  /\ cache' = TrimBefore(cache \cup {edge + 1}, pos - Trail)
  /\ UNCHANGED <<transportVars, uiVars, gateVars, bookmark, worker, job, out,
                 runtimeVars, snapVars, epoch, passed, paintVars>>

-----------------------------------------------------------------------------
(* The output thread: OutputRuntime::dispatchDueTicksNs(), every millisecond *)
(* and often with nothing to do.                                             *)
BeginDispatch ==
  /\ out = "idle"
  /\ out' = IF FrameIndexToNsCeil(clockIndex) =< wall THEN "snap" ELSE "idle"
  /\ elapsed' = wall /\ dispatched' = 0
  /\ UNCHANGED <<transportVars, uiVars, gateVars, bookmark, workerVars, missed,
                 clockIndex, snapVars, epoch, passed, paintVars>>

(* makeOutputSnapshot(): cache and held position, the generations, then      *)
(* without a mutex the transport, the cache guard and the bookmark.          *)
LoadCache ==
  /\ out = "snap"
  /\ out' = "gens"
  /\ tick' = [NoTick EXCEPT !.cache = cache, !.pos = committedPos]
  /\ passed' = FALSE
  /\ UNCHANGED <<transportVars, uiVars, gateVars, bookmark, workerVars, runtimeVars,
                 guarded, epoch, paintVars>>

LoadGenerations ==
  /\ out = "gens"
  /\ out' = "pos"
  /\ tick' = [tick EXCEPT !.held = (committedGen # seekGen)]
  /\ UNCHANGED <<transportVars, uiVars, gateVars, bookmark, workerVars, runtimeVars,
                 guarded, epoch, passed, paintVars>>

(* CommitGate: the live playhead unless a seek is outstanding; when the      *)
(* cache has nothing at or before it, the bookmark; and a new bookmark.      *)
GuardPosition ==
  LET covered == FrameAt(tick.cache, pos)
      guard == ~tick.held /\ covered = None
  IN /\ tick' = [tick EXCEPT
                   !.pos = IF tick.held THEN tick.pos
                           ELSE IF guard THEN bookmark ELSE pos,
                   !.reset = guarded \/ (guard /\ bookmark # pos),
                   !.mark = IF tick.held THEN None
                            ELSE IF guard THEN bookmark ELSE covered]
     /\ guarded' = (guard /\ bookmark # pos)

LoadPosition ==
  /\ out = "pos"
  /\ out' = "mark"
  /\ GuardPosition
  /\ UNCHANGED <<transportVars, uiVars, gateVars, bookmark, workerVars, runtimeVars,
                 epoch, passed, paintVars>>

StoreBookmark ==
  /\ out = "mark"
  /\ out' = "fly"
  /\ bookmark' = IF tick.mark = None THEN bookmark ELSE tick.mark
  /\ tick' = [tick EXCEPT !.playing = playing]
  /\ UNCHANGED <<transportVars, uiVars, gateVars, workerVars, runtimeVars, guarded,
                 epoch, passed, paintVars>>

(* OutputDispatcher::clockedStateForTick() and samplePlayheadMsForOutputTick *)
KeepsEpoch == epoch # NoEpoch /\ ~tick.reset

EpochOfTick ==
  IF ~tick.playing THEN NoEpoch
  ELSE IF KeepsEpoch THEN epoch
  ELSE [index |-> clockIndex, pos |-> tick.pos,
        overtaken |-> passed]

SampledAt(e) ==
  IF e = NoEpoch THEN tick.pos ELSE e.pos + (clockIndex - e.index)

(* dispatchTick() and recordDispatchTiming(): a placeholder is replaced by   *)
(* the last real frame, and an earlier report is over.  The loop goes on     *)
(* while the next frame is due by the time the call began with; after        *)
(* MaxCatchUp frames it ends, and what is due then is reported.              *)
DispatchSnapshot ==
  /\ out = "fly"
  /\ epoch' = EpochOfTick
  /\ sampled' = SampledAt(epoch')
  /\ LET frame == FrameAt(tick.cache, sampled') IN
     painted' = IF frame = None THEN painted ELSE frame
  /\ clockIndex' = clockIndex + 1
  /\ dispatched' = dispatched + 1
  /\ \/ /\ dispatched' < MaxCatchUp
        /\ out' = IF FrameIndexToNsCeil(clockIndex') =< elapsed THEN "snap" ELSE "idle"
        /\ missed' = 0
     \/ /\ dispatched' = MaxCatchUp
        /\ out' = "idle"
        /\ missed' = Max({0, DueFrameCount(elapsed) - clockIndex'})
  /\ tick' = NoTick /\ passed' = FALSE
  /\ UNCHANGED <<transportVars, uiVars, gateVars, bookmark, workerVars, elapsed, guarded>>

-----------------------------------------------------------------------------
Seek == HoldVisible \/ BumpGeneration \/ SeekResets
Worker ==
  TakeSeek \/ StartReposition \/ BackwardJump \/ GiveUp \/ Commit \/ Reuse
    \/ ReuseOpensGate \/ CommitResets \/ DecodeAhead
Output ==
  BeginDispatch \/ LoadCache \/ LoadGenerations \/ LoadPosition \/ StoreBookmark
    \/ DispatchSnapshot

ClockNext == WallTick \/ SetPlaying \/ (\E p \in Targets : TransportSeek(p)) \/ Seek \/ Worker \/ Output

ClockSpec == ClockInit /\ [][ClockNext]_clockVars

(* How far the sampled position may be from the transport: what the output   *)
(* may be late (e2e tests: maxClockDivergenceMs), once more for every pause   *)
(* that began and ended between two ticks: no epoch is reset by it.           *)
Tolerance == (1 + commands) * MaxLag
Near(p, q) == p - q =< Tolerance /\ q - p =< Tolerance

Settled == ui = "idle" /\ worker \notin {"reused", "reset"}

(* playbackworker.cpp:1290-1297 and outputdispatcher.h:76: once a seek is    *)
(* committed and the clock re-anchored, the output samples where the         *)
(* transport is and not where it was before the seek, unless the epoch came  *)
(* from a snapshot that the seek or its commit had passed.                *)
OnTheClock(excused) ==
  DispatchSnapshot /\ Settled /\ ~tick.held /\ ~guarded /\ tick.playing /\ ~excused
    => Near(sampled', tick.pos)

FreshAnchorIsOnTheClock == [][OnTheClock(epoch'.overtaken)]_clockVars
ClockIsReanchored == [][OnTheClock(passed)]_clockVars

(* A call sends no frame before its exact time, and the frames whose time    *)
(* had come when it began are sent when it ends, but for those it reports as *)
(* missed: not one more or less, though the loop rounds the schedule up and  *)
(* the report rounds the elapsed time down, and no report outlives the call  *)
(* that catches up.                                                          *)
TimeHasCome(index) == index * Denominator =< elapsed * Numerator
LeftBehind == {i \in clockIndex .. elapsed * Numerator : TimeHasCome(i)}

MissIsReported ==
  out = "idle" /\ clockIndex > 0 =>
    TimeHasCome(clockIndex - 1) /\ missed = Cardinality(LeftBehind)
=============================================================================
