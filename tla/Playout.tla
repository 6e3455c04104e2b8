------------------------------ MODULE Playout ------------------------------
(***************************************************************************)
(* Automatic playout of a rundown: PlaylistPlayout decides which boundary  *)
(* cut to arm, the monitor of UIManager polls the playhead and the count   *)
(* of fired cuts, PlaybackWorker carries one armed cut and one queued      *)
(* re-arm, and the output thread fires the cut at a scheduled output       *)
(* frame.  Nothing tells the rundown that its cut was called off.          *)
(*                                                                         *)
(* Time is counted in output frames and so are positions.  Staging a cut   *)
(* is one step; Playback takes it, and the worker's own pass, apart.       *)
(***************************************************************************)
EXTENDS Integers, Sequences

CONSTANTS
  Rundown,       \* the entries: a sequence of [in, out, speed]
  Last,          \* the end of the recording
  ArmLead,       \* kPlayoutArmLeadMs at speed 1
  CutLead,       \* kCutLeadMs: soonest a staged cut may fire
  Targets,       \* positions the operator seeks to or recalls
  Shuttles,      \* speeds of the shuttle buttons
  MaxLate,       \* BOUND: output frames by which a cut may fire late
  MaxCommands    \* BOUND: operator commands

Positions == 0 .. Last
Entries == 1 .. Len(Rundown)
Speeds == {1} \cup Shuttles \cup {Rundown[i].speed : i \in Entries}

(* playPlaylist() refuses a rundown with an unmarked out-point before its   *)
(* last entry.                                                              *)
ASSUME RundownAssumption ==
  /\ Last \in Nat /\ Targets \subseteq Positions /\ Shuttles \subseteq Int \ {0}
  /\ Rundown \in Seq([in : Positions, out : Int, speed : Nat \ {0}]) /\ Rundown # <<>>
  /\ \A i \in Entries : i < Len(Rundown) => Rundown[i].out \in Rundown[i].in .. Last
  /\ ArmLead \in Nat /\ CutLead \in Nat /\ MaxLate \in Nat /\ MaxCommands \in Nat

VARIABLES
  gui,          \* the call the GUI thread is in the middle of, or "idle"
  guiTarget,    \* the position that call seeks to
  commands,     \* operator commands so far
  pos, speed, playing,   \* PlaybackTransport
  index,        \* m_index, counted from 1; 0 when no rundown is active
  armedCurrent, \* m_armedCurrent
  baseline,     \* m_playoutCutBaseline
  seekGen,      \* m_seekGeneration
  seekPending,  \* m_seekTargetMs >= 0
  cut,          \* the armed cut, or NoCut when m_cutArmed is false
  due,          \* output frames until m_scheduledCutFrame, or Unscheduled
  queued,       \* the queued re-arm, or NoCut
  taken,        \* the re-arm the worker has taken and not yet armed
  epoch,        \* speed of the output clock's play epoch, or NoEpoch
  firing,       \* where the output thread is in maybeFireScheduledCut()
  cutTo,        \* its newPlayhead
  fired,        \* m_cutsFired: the fired cuts, by owner
  play,         \* history: number of this rundown's start
  jumped,       \* history: the operator moved the playhead of this rundown
  disturbed,    \* history: ... or paused or shuttled it
  straddled,    \* history: a cut fired while this rundown was being started
  lost,         \* history: the worker dropped a re-arm for a seek older than itself,
                \* or armed one over a cut armed meanwhile
  timing        \* history: how the scheduled cut was timed: "asap" or by the "clock",
                \* "spoilt" when the operator touched playback since

guiVars == <<gui, guiTarget, commands>>
transportVars == <<pos, speed, playing>>
rundownVars == <<index, armedCurrent, baseline, play>>
seekVars == <<seekGen, seekPending>>
cutVars == <<cut, due>>
fireVars == <<firing, cutTo, fired>>
noteVars == <<jumped, disturbed, straddled, lost, timing>>
vars == <<guiVars, transportVars, rundownVars, seekVars, cutVars, queued, taken,
          epoch, fireVars, noteVars>>

None == -1
NoEpoch == 0
Unscheduled == Last + CutLead + 1
NoOwner == <<0, 0>>   \* a recall
NoCut == [target |-> None, at |-> None, gen |-> None, owner |-> NoOwner]
active == index # 0

(* No position below zero (PlaybackTransport) or beyond the recording.     *)
Clamped(p) == IF p < 0 THEN 0 ELSE IF p > Last THEN Last ELSE p

Init ==
  /\ gui = "idle" /\ guiTarget = None /\ commands = 0
  /\ pos = 0 /\ speed = 1 /\ playing \in BOOLEAN
  /\ index = 0 /\ armedCurrent = FALSE /\ baseline = 0 /\ play = 0
  /\ seekGen = 0 /\ seekPending = FALSE
  /\ cut = NoCut /\ due = Unscheduled /\ queued = NoCut /\ taken = NoCut
  /\ epoch = IF playing THEN speed ELSE NoEpoch
  /\ firing = "no" /\ cutTo = None /\ fired = <<>>
  /\ jumped = FALSE /\ disturbed = FALSE /\ straddled = FALSE
  /\ lost = FALSE /\ timing = "asap"

-----------------------------------------------------------------------------
(* PlaybackWorker, called from the GUI thread.                              *)
Arm(c) == cut' = c /\ due' = Unscheduled

ArmNextCutIfFree(target, at, owner) ==  \* mutant of ArmNextCut
  \/ /\ cut = NoCut /\ UNCHANGED queued
     /\ Arm([target |-> target, at |-> at, gen |-> seekGen, owner |-> owner])
  \/ cut # NoCut /\ UNCHANGED <<cutVars, queued>>

(* armNextCut(): a cut that is armed is left alone and the new one queued.  *)
ArmNextCut(target, at, owner) ==
  LET c == [target |-> target, at |-> at, gen |-> seekGen, owner |-> owner] IN
  \/ cut = NoCut /\ Arm(c) /\ UNCHANGED queued
  \/ cut # NoCut /\ queued' = c /\ UNCHANGED cutVars

(* seekTo(): the queued re-arm is dropped; the armed cut stays, with the    *)
(* generation it was armed under.                                           *)
SeekTo ==
  /\ seekGen' = seekGen + 1 /\ seekPending' = TRUE
  /\ queued' = NoCut
  /\ epoch' = NoEpoch
  /\ UNCHANGED <<cutVars, taken>>

-----------------------------------------------------------------------------
(* Commands of the operator.                                                *)
Spoilt == IF timing = "clock" THEN "spoilt" ELSE timing

Command ==
  /\ gui = "idle" /\ commands < MaxCommands
  /\ commands' = commands + 1

StopsRundown == index' = 0 /\ armedCurrent' = FALSE
KeepsRundown == UNCHANGED <<index, armedCurrent>>

(* playPlaylist(): the transport first, ...                                 *)
Play(i) ==
  /\ Command
  /\ index' = i /\ armedCurrent' = FALSE /\ play' = play + 1
  /\ speed' = Rundown[i].speed /\ pos' = Rundown[i].in
  /\ gui' = "play" /\ guiTarget' = Rundown[i].in
  /\ jumped' = FALSE /\ disturbed' = FALSE /\ straddled' = (firing # "no") /\ lost' = FALSE
  /\ timing' = Spoilt
  /\ UNCHANGED <<playing, baseline, seekVars, cutVars, queued, taken, epoch, fireVars>>

(* ... then the worker, ...                                                 *)
PlaySeekTo ==
  /\ gui = "play" /\ gui' = "baseline"
  /\ SeekTo
  /\ UNCHANGED <<guiTarget, commands, transportVars, rundownVars, fireVars, noteVars>>

(* ... and the number of cuts fired so far, from which fires are counted.   *)
BaselineKept == baseline  \* mutant of Baseline
Baseline == Len(fired)

PlayBaseline ==
  /\ gui = "baseline"
  /\ playing' = TRUE
  /\ baseline' = Baseline
  /\ gui' = "idle" /\ guiTarget' = None
  /\ UNCHANGED <<commands, pos, speed, index, armedCurrent, play, seekVars, cutVars,
                 queued, taken, epoch, fireVars, noteVars>>

(* A seek of the operator: transport, then worker.  seekPlayback() ends the *)
(* rundown; stepping, jogging and going live do not.                        *)
SeekTransport(t) ==
  /\ Command
  /\ pos' = t /\ gui' = "seek" /\ guiTarget' = t
  /\ UNCHANGED <<baseline, play, seekVars, cutVars, queued, taken, epoch, fireVars,
                 straddled, lost>>

SeekPlayback(t) ==
  /\ SeekTransport(t) /\ StopsRundown
  /\ timing' = Spoilt
  /\ UNCHANGED <<speed, playing, jumped, disturbed>>

Jumps == jumped' = TRUE /\ disturbed' = TRUE /\ timing' = Spoilt

Step(frames) ==
  /\ SeekTransport(Clamped(pos + frames)) /\ KeepsRundown
  /\ playing' = FALSE
  /\ Jumps
  /\ UNCHANGED speed

GoLive ==
  /\ SeekTransport(Last) /\ KeepsRundown
  /\ speed' = 1 /\ playing' = TRUE
  /\ Jumps

SeekWorker ==
  /\ gui = "seek" /\ gui' = "idle" /\ guiTarget' = None
  /\ SeekTo
  /\ UNCHANGED <<commands, transportVars, rundownVars, fireVars, noteVars>>

(* playPause(), rewind5x() and forward5x().                                 *)
Transport(s, p) ==
  /\ Command
  /\ speed' = s /\ playing' = p
  /\ disturbed' = TRUE /\ timing' = Spoilt
  /\ UNCHANGED <<gui, guiTarget, pos, rundownVars, seekVars, cutVars, queued, taken,
                 epoch, fireVars, jumped, straddled, lost>>

PlayPause == Transport(speed, ~playing)
Shuttle(s) == Transport(s, TRUE)

(* recallEntry() arms a cut that fires as soon as it is staged.             *)
Recall(t) ==
  /\ Command
  /\ StopsRundown
  /\ ArmNextCut(t, None, NoOwner)
  /\ UNCHANGED <<gui, guiTarget, transportVars, baseline, play, seekVars, taken, epoch,
                 fireVars, noteVars>>

(* stopPlaylistPlayout(), by hand or for an edit of the rundown.            *)
StopPlayout ==
  /\ Command
  /\ active /\ StopsRundown
  /\ UNCHANGED <<gui, guiTarget, transportVars, baseline, play, seekVars, cutVars,
                 queued, taken, epoch, fireVars, noteVars>>

-----------------------------------------------------------------------------
(* onPlayoutTick(): every cut fired since the last tick advances the        *)
(* rundown by one entry and sets that entry's speed, ...                    *)
Advanced == index + (Len(fired) - baseline)
Reached == IF Advanced > Len(Rundown) THEN Len(Rundown) ELSE Advanced

(* ... the last entry ends it, ...                                          *)
Ends(i) == i = Len(Rundown)

(* ... and PlaylistPlayout::evaluate() arms, once, the boundary of the entry*)
(* whose out-point is less than the lead ahead.                             *)
Lead(s) == IF s > 0 THEN ArmLead * s ELSE ArmLead
ArmedForEver(i) == armedCurrent  \* mutant of StillArmed
StillArmed(i) == armedCurrent /\ i = index
Evaluate(i, s) == ~StillArmed(i) /\ pos >= Rundown[i].out - Lead(s)

PlayoutTick ==
  LET i == Reached
      s == IF i # index THEN Rundown[i].speed ELSE speed IN
  /\ gui = "idle" /\ active
  /\ baseline' = Len(fired)
  /\ speed' = s
  /\ \/ Ends(i) /\ StopsRundown /\ UNCHANGED <<cutVars, queued>>
     \/ /\ ~Ends(i) /\ Evaluate(i, s)
        /\ index' = i /\ armedCurrent' = TRUE
        /\ ArmNextCut(Rundown[i + 1].in, Rundown[i].out, <<play, i>>)
     \/ /\ ~Ends(i) /\ ~Evaluate(i, s)
        /\ index' = i /\ armedCurrent' = StillArmed(i)
        /\ UNCHANGED <<cutVars, queued>>
  /\ UNCHANGED <<guiVars, pos, playing, play, seekVars, taken, epoch, fireVars, noteVars>>

-----------------------------------------------------------------------------
(* The playback thread.                                                     *)
TakeSeek ==
  /\ seekPending /\ taken = NoCut
  /\ seekPending' = FALSE
  /\ epoch' = NoEpoch                          \* the commit resets it, too
  /\ UNCHANGED <<guiVars, transportVars, rundownVars, seekGen, cutVars, queued, taken,
                 fireVars, noteVars>>

(* The queued re-arm: taken once no cut is armed, dropped if a seek came    *)
(* since or is still waiting; ...                                           *)
StillWanted == seekGen = queued.gen /\ ~seekPending

TakeRearm ==
  /\ taken = NoCut /\ cut = NoCut /\ queued # NoCut
  /\ queued' = NoCut
  /\ taken' = IF StillWanted THEN queued ELSE NoCut
  /\ lost' = (lost \/ (seekGen = queued.gen /\ seekPending))
  /\ UNCHANGED <<guiVars, transportVars, rundownVars, seekVars, cutVars, epoch, fireVars,
                 jumped, disturbed, straddled, timing>>

(* ... then armed with the generation it was queued with.                   *)
ApplyRearm ==
  /\ taken # NoCut
  /\ Arm(taken) /\ taken' = NoCut
  /\ lost' = (lost \/ cut # NoCut)
  /\ UNCHANGED <<guiVars, transportVars, rundownVars, seekVars, queued, epoch, fireVars,
                 jumped, disturbed, straddled, timing>>

(* fillStaging() has covered the target: the cut fires when the output clock *)
(* reaches its out-point, or at once if that is too soon or not known.      *)
RoundedQuotient(n, d) == (2 * n + d) \div (2 * d)
FramesTo(at) == RoundedQuotient(at - pos, epoch)
Timed(c) == c.at # None /\ epoch > 0
DueAtOnce(c) == CutLead  \* mutant of DueIn
DueIn(c) == IF Timed(c) /\ FramesTo(c.at) > CutLead THEN FramesTo(c.at) ELSE CutLead

Stage ==
  /\ cut # NoCut /\ due = Unscheduled /\ firing = "no" /\ taken = NoCut
  /\ due' = DueIn(cut)
  /\ timing' = IF Timed(cut) /\ epoch = speed /\ playing THEN "clock" ELSE "asap"
  /\ UNCHANGED <<guiVars, transportVars, rundownVars, seekVars, cut, queued, taken, epoch,
                 fireVars, jumped, disturbed, straddled, lost>>

-----------------------------------------------------------------------------
(* An output frame: it re-anchors the play epoch if it has to, and the      *)
(* playhead moves.                                                          *)
Tick ==
  /\ gui = "idle" /\ firing = "no" /\ due > -MaxLate
  /\ pos' = IF playing THEN Clamped(pos + speed) ELSE pos
  /\ playing' = (playing /\ pos + speed >= 0)
  /\ epoch' = IF playing THEN speed ELSE NoEpoch
  /\ due' = IF due = Unscheduled THEN due ELSE due - 1
  /\ UNCHANGED <<guiVars, speed, rundownVars, seekVars, cut, queued, taken, fireVars,
                 noteVars>>

-----------------------------------------------------------------------------
(* maybeFireScheduledCut() on the output thread: a cut older than the latest*)
(* seek is called off, ...                                                  *)
Reaches == due # Unscheduled /\ due =< 0 /\ firing = "no"
Fires == Reaches /\ cut.gen = seekGen

AbortCut ==
  /\ Reaches /\ cut.gen # seekGen
  /\ due' = Unscheduled
  /\ firing' = "disarm"
  /\ UNCHANGED <<guiVars, transportVars, rundownVars, seekVars, cut, queued, taken, epoch,
                 cutTo, fired, noteVars>>

(* ... any other starts as far into its clip as it is late, ...             *)
FireCut ==
  /\ Fires
  /\ cutTo' = Clamped(cut.target - due)
  /\ firing' = "rebase"
  /\ straddled' = (straddled \/ gui \in {"play", "baseline"})
  /\ UNCHANGED <<guiVars, transportVars, rundownVars, seekVars, cutVars, queued, taken,
                 epoch, fired, jumped, disturbed, lost, timing>>

(* ... moves the playhead, ...                                              *)
Rebase ==
  /\ firing = "rebase" /\ firing' = "count"
  /\ pos' = cutTo /\ cutTo' = None
  /\ epoch' = NoEpoch /\ due' = Unscheduled
  /\ UNCHANGED <<guiVars, speed, playing, rundownVars, seekVars, cut, queued, taken,
                 fired, noteVars>>

(* ... is counted, and is disarmed last.                                    *)
Count ==
  /\ firing = "count" /\ firing' = "disarm"
  /\ fired' = Append(fired, cut.owner)
  /\ UNCHANGED <<guiVars, transportVars, rundownVars, seekVars, cutVars, queued, taken,
                 epoch, cutTo, noteVars>>

Disarm ==
  /\ firing = "disarm" /\ firing' = "no"
  /\ cut' = NoCut
  /\ UNCHANGED <<guiVars, transportVars, rundownVars, seekVars, due, queued, taken,
                 epoch, cutTo, fired, noteVars>>

-----------------------------------------------------------------------------
Operator ==
  \/ \E i \in Entries : Play(i)
  \/ \E t \in Targets : SeekPlayback(t) \/ Recall(t)
  \/ \E d \in {-1, 1} : Step(d)
  \/ \E s \in Shuttles : Shuttle(s)
  \/ GoLive \/ PlayPause \/ StopPlayout
Gui == PlaySeekTo \/ PlayBaseline \/ SeekWorker
Worker == TakeSeek \/ TakeRearm \/ ApplyRearm \/ Stage
Output == AbortCut \/ FireCut \/ Rebase \/ Count \/ Disarm

Next == Operator \/ Gui \/ PlayoutTick \/ Tick \/ Worker \/ Output

Spec == Init /\ [][Next]_vars

(* A GUI call returns; the monitor and the output clock tick; a playing     *)
(* worker passes over its seek, its queued re-arm and its staging; the      *)
(* output thread finishes a cut.                                            *)
FairSpec ==
  /\ Spec
  /\ WF_vars(Gui) /\ WF_vars(PlayoutTick) /\ WF_vars(Tick)
  /\ WF_vars(playing /\ Worker) /\ WF_vars(Output)

-----------------------------------------------------------------------------
(* Where the boundary of the current entry is, once it has been armed: it   *)
(* waits in the worker under the present generation, it is firing, or it    *)
(* has fired and the monitor has not seen it yet.                           *)
Boundary == <<play, index>>
Waits == \E c \in {cut, queued, taken} : c.owner = Boundary /\ c.gen = seekGen
IsFiring == cut.owner = Boundary /\ firing \in {"rebase", "count"}
HasFired == \E k \in baseline + 1 .. Len(fired) : fired[k] = Boundary

(* The one-shot arm of a boundary is never spent for nothing: while the     *)
(* rundown believes it armed (m_armedCurrent), the cut can still come.      *)
ArmedBoundaryIsAlive ==
  gui = "idle" /\ active /\ armedCurrent => Waits \/ IsFiring \/ HasFired

(* ... unless the operator stepped, jogged or went live, or the worker took *)
(* an older seek for a newer one and dropped the re-arm.                 *)
ArmedBoundaryIsAliveUnlessJumped == jumped \/ lost \/ straddled \/ ArmedBoundaryIsAlive

(* The cuts the monitor is about to count are the boundaries of this very   *)
(* rundown, in order: the index never leaves the fired cuts behind, and no  *)
(* recall or earlier rundown advances it.                                   *)
CountsOwnBoundaries ==
  gui = "idle" /\ active /\ ~straddled =>
    \A k \in baseline + 1 .. Len(fired) : fired[k] = <<play, index + k - baseline - 1>>

(* A boundary that the output clock could time, and that no command touched *)
(* since, fires at the output frame nearest to the out-point of its entry:  *)
(* never half a frame early.                                                *)
FiresBoundary == FireCut /\ cut.owner # NoOwner
UnspoiltFiresAtOutPoint ==
  [][FiresBoundary /\ timing = "clock" /\ ~straddled => 2 * (cut.at - pos) < speed]_vars

(* playlistplayout.h:20: a boundary fires "when the current entry's playhead *)
(* reaches fireAtMs (its out-point)".  So when playback is paused before it, *)
(* it waits there.                                                          *)
PausedBoundaryWaits ==
  [][FiresBoundary /\ timing = "spoilt" /\ ~playing => pos >= cut.at]_vars

(* A recall takes the operator out of the rundown: no boundary of it fires  *)
(* while the recalled cue waits.                                            *)
RecallOverridesBoundary ==
  [][FiresBoundary => queued = NoCut \/ queued.owner # NoOwner]_vars

(* A rundown the operator leaves alone comes to its end.                    *)
RundownEnds == []<>(~active \/ disturbed \/ straddled \/ lost)
=============================================================================
