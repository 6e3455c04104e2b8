------------------------------ MODULE Playback ------------------------------
(***************************************************************************)
(* The playback scheduler of playback/playbackworker.cpp with the two      *)
(* threads that command it.  The GUI thread seeks (transport first, worker *)
(* second: two calls) and recalls cue points (armNextCut).  The worker     *)
(* thread runs the windowed scheduler of run(): sample, classify,          *)
(* reposition or fill, trim, re-arm, stage.  The output thread fires a     *)
(* scheduled cut from makeOutputSnapshot(), swapping the staged cache for  *)
(* the live one.  They share atomics and two mutexes; an action is one     *)
(* critical section or the accesses between two points where another       *)
(* thread can matter.  Positions count frame durations; the recording is   *)
(* complete, all intra, and its tracks are read in step, so that one       *)
(* buffer stands for the bank.  Playback runs forward at 1x.               *)
(***************************************************************************)
EXTENDS FrameWindow

CONSTANTS
  Last,         \* the last frame of the recording
  Lead, Trail,  \* kLeadMs and kTrailMs: the window kept around the playhead
  Slack,        \* kSlackMs: how far beyond the window frames are kept
  BackSlack,    \* kBackJumpSlackMs
  Chunk,        \* kChunkMs: the reverse fetch
  Span,         \* kStagingSpanMs: frames staged ahead of a cut's target
  Batch,        \* kFillBatch and kPrerollPacketsPerTick, per track
  MaxOvershoot, \* BOUND: output frames by which a cut may fire late
  Targets,      \* positions the operator seeks to and recalls
  OpensSlowly,  \* commands may come while the recording is being opened
  MaxTicks,     \* BOUND: ticks of the playhead
  MaxCommands   \* BOUND: operator commands

ASSUME PlaybackAssumption ==
  /\ Last \in Nat /\ Targets \subseteq 0..Last
  /\ Lead \in Nat /\ Trail \in Nat /\ Slack \in Nat /\ BackSlack \in Nat
  /\ Chunk \in Nat /\ Span \in Nat /\ Batch \in Nat \ {0}
  /\ MaxOvershoot \in Nat /\ MaxTicks \in Nat /\ MaxCommands \in Nat
  /\ OpensSlowly \in BOOLEAN

VARIABLES
  \* the GUI thread and the transport
  ui,          \* position of a seek whose transport half is done, or None
  commands,    \* operator commands issued so far
  ticks,       \* ticks so far
  playing,     \* PlaybackTransport::isPlaying()
  pos,         \* PlaybackTransport::currentPos()
  \* the seek hand-over
  seekTarget,  \* m_seekTargetMs
  moveDir,     \* m_lastMoveDir
  seekGen, committedGen,
  \* the armed cut
  armed,       \* m_cutArmed
  armTarget,   \* m_armedTargetMs
  armGen,      \* m_armSeekGen
  fresh,       \* m_prerollSeekPending
  covers,      \* m_stagingCovers
  sched,       \* target of the scheduled cut, None when m_scheduledCutFrame < 0
  follow,      \* m_decoderFollowMs
  pend,        \* the queued re-arm [target, gen, cmd], or NoPend
  \* caches
  bank,        \* the decoder bank's TrackBuffers
  rd,          \* next frame the primary demuxer returns
  reverse,     \* m_reverseAnchorMs, None for INT64_MAX
  delivered,   \* lastDeliveredPtsMs
  live,        \* m_outputCache
  staged,      \* m_prerollStagingCache
  prerollRd,   \* next frame the pre-roll demuxer returns
  \* threads
  worker,      \* where the worker thread is
  now,         \* its sample [pos, playing, dir] of this pass
  job,         \* repositionTo(target, dir, cutFollow) with its start generation
  saved,       \* liveSaved: the live cache set aside by a reposition
  staging,     \* target local to fillStaging()
  firing,      \* where the output thread is in maybeFireScheduledCut()
  cutTo,       \* its newPlayhead
  \* history
  asked,       \* argument of the latest seekTo()
  lastSeek,    \* number of the latest command that was a seek
  armCmd,      \* number of the recall that is armed
  cutCmd,      \* number of the recall whose cut is firing, 0 once it proves not to go back
  strayed,     \* a cut came in the middle of a reposition, to elsewhere or after a race
  movedByCut,  \* a cut moved the playhead back, and no half of a seek came since
  raced        \* a staging fill began between a cut's swap and its disarming

uiVars == <<ui, commands, playing, asked, lastSeek>>
moveVars == <<pos, ticks, movedByCut>>
seekVars == <<seekTarget, moveDir, seekGen, committedGen>>
armVars == <<armed, armTarget, armGen, fresh, armCmd>>
cutVars == <<covers, sched, follow>>
fireVars == <<firing, cutTo, cutCmd, strayed>>
bankVars == <<bank, rd, reverse, delivered>>
stageVars == <<staged, prerollRd, staging>>
vars == <<uiVars, moveVars, seekVars, armVars, cutVars, pend, bankVars, live,
          stageVars, raced, worker, now, job, saved, fireVars>>

Positions == 0..Last
NoPend == [target |-> None, gen |-> None, cmd |-> None]
NoJob == [target |-> None, dir |-> 1, cut |-> FALSE, gen |-> 0]
Idle == [pos |-> 0, playing |-> FALSE, byCut |-> FALSE, dir |-> 1]
Pcs == {"opening", "sample", "seek", "jump", "reposition", "reuse", "refill",
        "fill", "trim", "rearm", "stage", "decode", "schedule"}
AtLeast0(p) == IF p < 0 THEN 0 ELSE p
AtMostLast(p) == IF p > Last THEN Last ELSE p

Init ==
  /\ ui = None /\ commands = 0 /\ playing \in BOOLEAN
  /\ pos = 0 /\ ticks = 0 /\ movedByCut = FALSE
  /\ seekTarget = None /\ moveDir = 1 /\ seekGen = 0 /\ committedGen = 0
  /\ armed = FALSE /\ armTarget = None /\ armGen = 0 /\ fresh = FALSE
  /\ covers = FALSE /\ sched = None /\ follow = None /\ pend = NoPend
  /\ bank = {} /\ rd = 0 /\ reverse = None /\ delivered = None
  /\ live = {} /\ staged = {} /\ prerollRd = 0 /\ staging = None
  /\ worker = "opening" /\ now = Idle /\ job = NoJob /\ saved = {}
  /\ firing = "no" /\ cutTo = None /\ cutCmd = 0
  /\ asked = None /\ lastSeek = 0 /\ armCmd = 0 /\ raced = FALSE /\ strayed = FALSE

-----------------------------------------------------------------------------
(* GUI thread.  Its timer also moves the playhead, so a tick never comes    *)
(* between the two halves of a seek.                                        *)
MayCommand ==
  /\ ui = None /\ commands < MaxCommands
  /\ worker = "opening" => OpensSlowly

Tick ==
  /\ ui = None /\ playing /\ pos < Last /\ ticks < MaxTicks
  /\ pos' = pos + 1 /\ ticks' = ticks + 1
  /\ UNCHANGED <<uiVars, movedByCut, seekVars, armVars, cutVars, pend,
                 bankVars, live, stageVars, raced, worker, now, job, saved,
                 fireVars>>

PlayPause ==
  /\ MayCommand
  /\ playing' = ~playing
  /\ commands' = commands + 1
  /\ UNCHANGED <<ui, asked, lastSeek, moveVars, seekVars, armVars, cutVars,
                 pend, bankVars, live, stageVars, raced, worker, now, job,
                 saved, fireVars>>

SeekTransport(t) ==
  /\ MayCommand
  /\ pos' = t /\ movedByCut' = FALSE /\ UNCHANGED ticks
  /\ ui' = t
  /\ commands' = commands + 1
  /\ UNCHANGED <<playing, asked, lastSeek, seekVars, armVars, cutVars, pend,
                 bankVars, live, stageVars, raced, worker, now, job, saved,
                 fireVars>>

(* PlaybackWorker::seekTo(): the seek also cancels the decoder-follow and   *)
(* the queued re-arm; an armed cut is cancelled by the new generation.      *)
SeekTo ==
  /\ ui # None
  /\ moveDir' = IF ui >= pos THEN 1 ELSE -1
  /\ seekTarget' = ui
  /\ follow' = None
  /\ pend' = NoPend
  /\ seekGen' = seekGen + 1
  /\ asked' = ui /\ lastSeek' = commands
  /\ ui' = None
  /\ movedByCut' = FALSE
  /\ UNCHANGED <<commands, playing, pos, ticks, committedGen, armVars, covers,
                 sched, bankVars, live, stageVars, raced, worker, now, job,
                 saved, fireVars>>

ArmCutWithoutPreroll(target, gen, cmd) ==  \* mutant of ArmCut
  /\ armTarget' = target
  /\ covers' = FALSE
  /\ sched' = None
  /\ armGen' = gen
  /\ armed' = TRUE
  /\ armCmd' = cmd
  /\ UNCHANGED fresh

(* armCutInternal(), from the GUI thread or from the worker's re-arm.       *)
ArmCut(target, gen, cmd) ==
  /\ armTarget' = target
  /\ fresh' = TRUE
  /\ covers' = FALSE
  /\ sched' = None
  /\ armGen' = gen
  /\ armed' = TRUE
  /\ armCmd' = cmd

(* armNextCut(), once the pre-roll context is open.                         *)
Recall(t) ==
  /\ MayCommand /\ worker # "opening"
  /\ commands' = commands + 1
  /\ \/ /\ armed
        /\ pend' = [target |-> t, gen |-> seekGen, cmd |-> commands']
        /\ UNCHANGED <<armVars, covers, sched>>
     \/ /\ ~armed
        /\ ArmCut(t, seekGen, commands')
        /\ UNCHANGED pend
  /\ UNCHANGED <<ui, playing, asked, lastSeek, moveVars, seekVars, follow,
                 bankVars, live, stageVars, raced, worker, now, job, saved,
                 fireVars>>

-----------------------------------------------------------------------------
(* Output thread: maybeFireScheduledCut() under m_bufferMutex.  Neither the *)
(* seek generation nor the playhead is under that mutex, so the decision,   *)
(* the swap and the re-basing are steps of their own; m_cutArmed comes last.*)
FiresWithoutGeneration == sched # None /\ firing = "no"  \* mutant of Fires
Fires == sched # None /\ firing = "no" /\ seekGen = armGen

AbortCut ==
  /\ sched # None /\ firing = "no" /\ seekGen # armGen
  /\ sched' = None /\ covers' = FALSE /\ follow' = None
  /\ armTarget' = None /\ fresh' = FALSE
  /\ firing' = "disarm"
  /\ UNCHANGED <<uiVars, moveVars, seekVars, armed, armGen, armCmd, pend,
                 bankVars, live, stageVars, raced, worker, now, job, saved,
                 cutTo, cutCmd, strayed>>

(* playheadAfterCut(): a cut that fires late starts as far into its clip.   *)
DecideCut(late) ==
  /\ Fires
  /\ cutTo' = AtMostLast(sched + late) /\ cutCmd' = armCmd /\ UNCHANGED strayed
  /\ firing' = "swap"
  /\ UNCHANGED <<uiVars, moveVars, seekVars, armVars, cutVars, pend, bankVars,
                 live, stageVars, raced, worker, now, job, saved>>

(* The decoder-follow is stored before the playhead moves.                  *)
FollowsNothing(new) == follow  \* mutant of FollowsTo
FollowsTo(new) == IF new < pos THEN new ELSE follow

SwapCaches ==
  /\ firing = "swap"
  /\ live' = staged /\ staged' = live
  /\ follow' = FollowsTo(cutTo)
  /\ cutCmd' = IF cutTo < pos THEN cutCmd ELSE 0
  /\ firing' = "rebase"
  /\ UNCHANGED <<uiVars, moveVars, seekVars, armVars, covers, sched, pend,
                 bankVars, prerollRd, staging, raced, worker, now, job, saved,
                 cutTo, strayed>>

Rebase ==
  /\ firing = "rebase"
  /\ pos' = cutTo /\ UNCHANGED ticks
  /\ movedByCut' = IF cutTo >= pos THEN movedByCut ELSE cutCmd > lastSeek
  /\ cutTo' = None /\ cutCmd' = 0
  /\ covers' = FALSE /\ sched' = None
  /\ firing' = "disarm"
  /\ strayed' = (strayed \/ (worker \in {"reuse", "refill"} /\ (raced \/ cutTo # job.target)))
  /\ UNCHANGED <<uiVars, seekVars, armVars, follow, pend, bankVars, live,
                 stageVars, raced, worker, now, job, saved>>

Disarm ==
  /\ firing = "disarm"
  /\ firing' = "no" /\ armed' = FALSE
  /\ UNCHANGED <<uiVars, moveVars, seekVars, armTarget, armGen, fresh, armCmd,
                 cutVars, pend, bankVars, live, stageVars, raced, worker, now,
                 job, saved, cutTo, cutCmd, strayed>>

-----------------------------------------------------------------------------
(* Worker thread: run().  What it does to the bank and to the live cache is *)
(* under m_bufferMutex, so it waits for a cut to finish; staging is not.    *)
Unlocked == firing = "no"

(* The recording is open, and whatever seek came     *)
(* before that is forgotten.                                                *)
Open ==
  /\ worker = "opening"
  /\ seekTarget' = None
  /\ worker' = "sample"
  /\ UNCHANGED <<uiVars, moveVars, moveDir, seekGen, committedGen, armVars,
                 cutVars, pend, bankVars, live, stageVars, raced, now, job,
                 saved, fireVars>>

NeedsWorkAtPlayhead ==  \* mutant of NeedsWork
  \/ playing
  \/ FrameAt(bank, pos) = None \/ FrameAt(bank, pos) # delivered

(* A paused worker does nothing while the frame at the playhead is the one  *)
(* it delivered.                                                            *)
NeedsWork ==
  \/ playing \/ seekTarget # None
  \/ FrameAt(bank, pos) = None \/ FrameAt(bank, pos) # delivered

Sample ==
  /\ worker = "sample" /\ NeedsWork /\ (playing \/ Unlocked)
  /\ now' = [pos |-> pos, playing |-> playing, byCut |-> movedByCut,
             dir |-> IF playing THEN 1 ELSE moveDir]
  /\ worker' = "seek"
  /\ UNCHANGED <<uiVars, moveVars, seekVars, armVars, cutVars, pend, bankVars,
                 live, stageVars, raced, job, saved, fireVars>>

Reposition(target, dir, cut) ==
  /\ job' = [target |-> target, dir |-> dir, cut |-> cut, gen |-> 0]
  /\ worker' = "reposition"

(* Classify (1): an explicit seek.                                          *)
TakeSeek ==
  /\ worker = "seek"
  /\ seekTarget' = None
  /\ IF seekTarget # None
     THEN Reposition(seekTarget, moveDir, FALSE)
     ELSE worker' = "jump" /\ UNCHANGED job
  /\ UNCHANGED <<uiVars, moveVars, moveDir, seekGen, committedGen, armVars,
                 cutVars, pend, bankVars, live, stageVars, raced, now, saved,
                 fireVars>>

(* (1b) a decoder-follow, else (2) a jump below the bank, else carry on.    *)
JumpsBack == bank # {} /\ now.pos < OldestPts(bank) - BackSlack

FollowOrJump ==
  /\ worker = "jump"
  /\ follow' = None
  /\ \/ /\ follow # None
        /\ Reposition(follow, -1, TRUE)
     \/ /\ follow = None /\ Unlocked /\ JumpsBack
        /\ Reposition(now.pos, -1, FALSE)
     \/ /\ follow = None /\ Unlocked /\ ~JumpsBack
        /\ worker' = "fill" /\ UNCHANGED job
  /\ UNCHANGED <<uiVars, moveVars, seekVars, armVars, covers, sched, pend,
                 bankVars, live, stageVars, raced, now, saved, fireVars>>

-----------------------------------------------------------------------------
ReuseFromBank(target) == target \in bank  \* mutant of ReuseAt

(* repositionTo(): the generation it serves, then the reuse fast path ...   *)
ReuseAt(target) == target \in bank /\ target \in live

StartReposition ==
  /\ worker = "reposition" /\ Unlocked
  /\ job' = [job EXCEPT !.gen = seekGen]
  /\ IF ReuseAt(job.target)
     THEN /\ worker' = "reuse"
          /\ UNCHANGED <<bank, rd, reverse, live, saved>>
     ELSE /\ worker' = "refill"
          /\ bank' = {} /\ reverse' = None
          /\ rd' = AtLeast0(job.target - IF job.dir < 0 THEN Lead ELSE Trail)
          /\ saved' = live /\ live' = {}
  /\ UNCHANGED <<uiVars, moveVars, seekVars, armVars, cutVars, pend, delivered,
                 stageVars, raced, now, fireVars>>

(* ... or the refill into a fresh cache, broken off by a newer seek, ...    *)
Refilled == NewestPts(bank) >= job.target + 1 \/ rd > Last

Refill ==
  /\ worker = "refill" /\ Unlocked /\ seekTarget = None /\ ~Refilled
  /\ bank' = bank \cup {rd}
  /\ live' = live \cup {rd}
  /\ rd' = rd + 1
  /\ UNCHANGED <<uiVars, moveVars, seekVars, armVars, cutVars, pend, reverse,
                 delivered, stageVars, raced, worker, now, job, saved,
                 fireVars>>

(* ... and the commit, under m_mutex: nothing if a newer seek superseded it.*)
MayCommit == CanCommit(job.gen, seekGen, seekTarget # None)
ReusedLive == worker = "reuse"

CommitReposition ==
  /\ Unlocked
  /\ \/ worker = "reuse"
     \/ worker = "refill" /\ (seekTarget # None \/ Refilled)
  /\ IF MayCommit
     THEN /\ committedGen' = job.gen
          /\ live' = IF ReusedLive THEN live
                     ELSE TrimBefore(saved \cup live, job.target - Lead)
          /\ delivered' = FrameAt(bank, job.target)
     ELSE /\ live' = IF ReusedLive THEN live ELSE saved
          /\ UNCHANGED <<committedGen, delivered>>
  /\ saved' = {} /\ job' = NoJob /\ strayed' = FALSE
  /\ worker' = "sample" /\ now' = Idle
  /\ UNCHANGED <<uiVars, moveVars, seekTarget, moveDir, seekGen, armVars,
                 cutVars, pend, bank, rd, reverse, stageVars, raced, firing, cutTo,
                 cutCmd>>

-----------------------------------------------------------------------------
(* deliverDueFrames(): a picture never goes against the direction of travel.*)
Deliver(p, dir, buffer) ==
  LET f == FrameAt(buffer, p) IN
  IF f = None \/ (delivered # None /\ IF dir >= 0 THEN f =< delivered ELSE f >= delivered)
  THEN delivered ELSE f

(* The forward fill reads on from where the demuxer is, up to the lead      *)
(* edge.  When the bank lags the playhead the code means to move the demuxer*)
(* to just behind the playhead first, unless the playhead is past the newest*)
(* frame of all; FrameWindow, theorem LagAlwaysHoldsTail, says it always is.*)
SkipsNow == now.playing /\ SkipsForward(<<NewestPts(bank)>>, Lead, now.pos)
ReadForward(newest, from) ==
  IF newest >= now.pos + Lead \/ seekTarget # None THEN {}
  ELSE {f \in from..AtMostLast(from + Batch - 1) : f = from \/ f =< now.pos + Lead}

FillForward ==
  LET kept == IF SkipsNow THEN {} ELSE bank
      from == IF SkipsNow THEN AtLeast0(now.pos - Trail) ELSE rd
      read == ReadForward(NewestPts(kept), from) IN
  /\ worker = "fill" /\ Unlocked /\ now.dir >= 0
  /\ delivered' = Deliver(now.pos, now.dir, kept)
  /\ bank' = kept \cup read
  /\ live' = live \cup read
  /\ rd' = from + Cardinality(read)
  /\ reverse' = None
  /\ worker' = "trim"
  /\ UNCHANGED <<uiVars, moveVars, seekVars, armVars, cutVars, pend, stageVars,
                 raced, now, job, saved, fireVars>>

(* The reverse fill fetches the chunk below the window and reads up to      *)
(* where the demuxer was; it needs the anchor to have come down a chunk.    *)
ReverseAnchor == AtLeast0(now.pos - Lead - Chunk)
NeedsChunk ==
  /\ seekTarget = None
  /\ bank = {} \/ (OldestPts(bank) > now.pos - Lead /\ now.pos > 0)
  /\ reverse = None \/ reverse - ReverseAnchor >= Chunk

FillBackward ==
  LET chunk == IF NeedsChunk THEN {f \in Positions : ReverseAnchor =< f /\ f < rd}
               ELSE {} IN
  /\ worker = "fill" /\ Unlocked /\ now.dir < 0
  /\ delivered' = Deliver(now.pos, now.dir, bank \cup chunk)
  /\ bank' = bank \cup chunk
  /\ live' = live \cup chunk
  /\ reverse' = IF NeedsChunk THEN ReverseAnchor ELSE reverse
  /\ worker' = "trim"
  /\ UNCHANGED <<uiVars, moveVars, seekVars, armVars, cutVars, pend, rd,
                 stageVars, raced, now, job, saved, fireVars>>

(* The trim uses the playhead sampled at the top of the pass, on whatever   *)
(* cache is live by now.                                                    *)
Behind == IF now.dir >= 0 THEN Trail ELSE Lead + Chunk
Ahead == IF now.dir >= 0 THEN Lead ELSE Trail

Trim ==
  /\ worker = "trim" /\ Unlocked
  /\ bank' = TrimBuffer(bank, now.pos - (Behind + Slack), now.pos + Ahead + Slack)
  /\ live' = TrimBefore(live, now.pos - (Behind + Slack))
  /\ worker' = "rearm"
  /\ UNCHANGED <<uiVars, moveVars, seekVars, armVars, cutVars, pend, rd,
                 reverse, delivered, stageVars, raced, now, job, saved,
                 fireVars>>

-----------------------------------------------------------------------------
(* The queued re-arm, applied once no cut is in flight, dropped if a seek   *)
(* came after it was queued.                                                *)
StillWanted == seekTarget = None /\ seekGen = pend.gen

Rearm ==
  /\ worker = "rearm"
  /\ IF ~armed /\ pend # NoPend
     THEN /\ pend' = NoPend
          /\ IF StillWanted THEN ArmCut(pend.target, pend.gen, pend.cmd)
             ELSE UNCHANGED <<armVars, covers, sched>>
     ELSE UNCHANGED <<pend, armVars, covers, sched>>
  /\ worker' = IF armed' /\ ~covers' THEN "stage" ELSE "sample"
  /\ raced' = (raced \/ (firing # "no" /\ worker' = "stage"))
  /\ now' = Idle
  /\ UNCHANGED <<uiVars, moveVars, seekVars, follow, bankVars, live, stageVars,
                 job, saved, fireVars>>

(* fillStaging(): the first call after arming moves the pre-roll demuxer    *)
(* and empties the staging cache; ...                                       *)
BeginStaging ==
  /\ worker = "stage"
  /\ IF armTarget = None \/ covers
     THEN /\ worker' = "sample"
          /\ UNCHANGED <<fresh, staging, staged, prerollRd>>
     ELSE /\ worker' = "decode"
          /\ staging' = armTarget
          /\ fresh' = FALSE
          /\ staged' = IF fresh THEN {} ELSE staged
          /\ prerollRd' = IF fresh THEN AtLeast0(armTarget - Trail) ELSE prerollRd
  /\ UNCHANGED <<uiVars, moveVars, seekVars, armed, armTarget, armGen, armCmd,
                 cutVars, pend, bankVars, live, raced, now, job, saved,
                 fireVars>>


(* ... a call reads a batch, and the target is covered once the span or the *)
(* end of the file has been read; ...                                       *)
Covers(next, target, atEnd) == next > target + Span \/ atEnd

DecodeStaging ==
  LET frames == {f \in prerollRd..Last :
                   f < prerollRd + Batch /\ (f = prerollRd \/ f =< staging + Span)} IN
  /\ worker = "decode"
  /\ staged' = staged \cup frames
  /\ prerollRd' = NewestPts(frames \cup {prerollRd - 1}) + 1
  /\ covers' = (covers \/ Covers(prerollRd', staging, prerollRd + Batch > Last + 1))
  /\ worker' = "schedule"
  /\ UNCHANGED <<uiVars, moveVars, seekVars, armVars, sched, follow, pend,
                 bankVars, live, staging, raced, now, job, saved, fireVars>>

(* ... and then the cut is scheduled, if it is still armed.                 *)
ScheduleCut ==
  /\ worker = "schedule"
  /\ sched' = IF armed /\ covers /\ sched = None THEN armTarget ELSE sched
  /\ staging' = None
  /\ worker' = "sample"
  /\ UNCHANGED <<uiVars, moveVars, seekVars, armVars, covers, follow, pend,
                 bankVars, live, staged, prerollRd, raced, now, job, saved,
                 fireVars>>

-----------------------------------------------------------------------------
Gui == Tick \/ PlayPause \/ (\E t \in Targets : SeekTransport(t) \/ Recall(t)) \/ SeekTo
Output ==
  AbortCut \/ (\E late \in 0..MaxOvershoot : DecideCut(late)) \/ SwapCaches
  \/ Rebase \/ Disarm
Schedule == Open \/ Sample \/ TakeSeek \/ FollowOrJump
Repositioning == StartReposition \/ Refill \/ CommitReposition
Pass == FillForward \/ FillBackward \/ Trim \/ Rearm
Staging == BeginStaging \/ DecodeStaging \/ ScheduleCut
Worker == Schedule \/ Repositioning \/ Pass \/ Staging

Next == Gui \/ Output \/ Worker

Spec == Init /\ [][Next]_vars

(* The second half of a seek follows in the same GUI event; the output      *)
(* clock ticks for ever; the worker thread runs.                            *)
FairSpec == Spec /\ WF_vars(SeekTo) /\ WF_vars(Output) /\ WF_vars(Worker)
-----------------------------------------------------------------------------
TypeOK ==
  /\ ui \in Positions \cup {None} /\ commands \in 0..MaxCommands
  /\ playing \in BOOLEAN /\ pos \in Positions /\ ticks \in 0..MaxTicks /\ movedByCut \in BOOLEAN
  /\ seekTarget \in Positions \cup {None} /\ moveDir \in {-1, 1}
  /\ seekGen \in Nat /\ committedGen \in Nat
  /\ armed \in BOOLEAN /\ armTarget \in Positions \cup {None}
  /\ armGen \in Nat /\ fresh \in BOOLEAN
  /\ covers \in BOOLEAN /\ sched \in Positions \cup {None}
  /\ follow \in Positions \cup {None}
  /\ pend \in [target : Positions, gen : Nat, cmd : 0..MaxCommands] \cup {NoPend}
  /\ bank \subseteq Positions /\ live \subseteq Positions /\ staged \subseteq Positions
  /\ rd \in 0..(Last + 1) /\ prerollRd \in 0..(Last + 1)
  /\ reverse \in Positions \cup {None} /\ delivered \in Positions \cup {None}
  /\ staging \in Positions \cup {None}
  /\ worker \in Pcs
  /\ now \in [pos : Positions, playing : BOOLEAN, byCut : BOOLEAN, dir : {-1, 1}]
  /\ job \in [target : Positions \cup {None}, dir : {-1, 1}, cut : BOOLEAN, gen : Nat]
  /\ saved \subseteq Positions
  /\ firing \in {"no", "swap", "rebase", "disarm"} /\ cutTo \in Positions \cup {None}
  /\ cutCmd \in 0..MaxCommands
  /\ asked \in Positions \cup {None} /\ lastSeek \in 0..MaxCommands
  /\ armCmd \in 0..MaxCommands /\ raced \in BOOLEAN /\ strayed \in BOOLEAN

(* A commit that releases the gate is for the position of the latest        *)
(* seekTo(): a reposition overtaken by a newer seek, or one the scheduler   *)
(* began for another reason, never passes for it.                           *)
CommitServesLatestSeek ==
  [][committedGen' # committedGen => job.target = asked]_vars

(* When the gate opens, the output cache has the very frame of the seek's   *)
(* target, though cuts may have swapped caches while the reposition was     *)
(* filling one; unless one of them went elsewhere, and took the playhead    *)
(* with it, or promoted what a stray staging fill had left.                 *)
CommittedSeekIsShown ==
  [][committedGen' # committedGen /\ ~strayed => job.target \in live']_vars

(* Manual seek wins: when a cut is let through, it was recalled after the   *)
(* latest seek, whichever way it was armed, at once or by the queued re-arm.*)
Deciding == \E late \in 0..MaxOvershoot : DecideCut(late)
CutNeverOutrunsSeek == [][Deciding => armCmd > lastSeek]_vars

(* The cache a cut promotes has the frame of its target, when an earlier cut*)
(* recalled elsewhere left its own frames in the staging cache, and however *)
(* near the end of the recording the target is.  (A staging fill that slips *)
(* in between a cut's swap and its disarming may break it: the code expects *)
(* the stray schedule to be harmless.)                                      *)
FiredCutIsCovered == [][SwapCaches /\ armed /\ ~raced => sched \in live']_vars

(* A backward cut brings the decoder back by the decoder-follow alone: the  *)
(* reactive backward jump, which would blank the bank for the whole refill, *)
(* never answers a playhead that only a cut moved.                          *)
ReactiveJumpIsTheOperators ==
  [][worker = "jump" /\ worker' = "reposition" /\ ~job'.cut
       => ~now.byCut \/ ui # None \/ seekTarget # None]_vars

(* A seek is served: the output is not held on its bookmark for ever,       *)
(* whatever cuts, pauses and newer seeks come in the meantime.              *)
SeekIsServed == (seekGen # committedGen) ~> (seekGen = committedGen)
=============================================================================
