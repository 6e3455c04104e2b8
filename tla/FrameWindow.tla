---------------------------- MODULE FrameWindow ----------------------------
(***************************************************************************)
(* The pure helpers of the playback side, on sets of frame positions: the  *)
(* windows kept by TrackBuffer and OutputFrameCache, the bank-wide edges   *)
(* the scheduler classifies by, and the CommitGate decision.  A frame is   *)
(* its position in frame durations; None is the -1 the code uses for "no   *)
(* frame", "no target" and "nothing pending".                              *)
(***************************************************************************)
EXTENDS Integers, FiniteSetsExt

None == -1

(* TrackBuffer::newestPts() and oldestPts().                                *)
NewestPts(buffer) == IF buffer = {} THEN None ELSE Max(buffer)
OldestPts(buffer) == IF buffer = {} THEN None ELSE Min(buffer)

(* The frame shown at playhead p: the largest position not after it.        *)
FrameAt(window, p) == NewestPts({f \in window : f =< p})

(* TrackBuffer::trim() cuts at both ends; OutputFrameCache::trimBefore()    *)
(* cuts the old end only and keeps one frame before the cutoff.             *)
TrimBuffer(buffer, from, to) == {f \in buffer : from =< f /\ f =< to}

TrimBefore(cache, from) ==
  LET old == {f \in cache : f < from} IN
  (cache \ old) \cup {f \in old : \A g \in old : g =< f}

-----------------------------------------------------------------------------
(* newestPtsMin() over the tracks of the bank, newest[t] being the newest    *)
(* frame of track t or None: a track more than lead behind the newest of    *)
(* all is stalled and does not count in the minimum.                        *)
Advancing(newest, lead) ==
  {t \in DOMAIN newest :
     newest[t] >= 0 /\ \A u \in DOMAIN newest : newest[t] >= newest[u] - lead}

(* Step (3) of the scheduler's classification: that minimum is more than    *)
(* lead behind the playhead p, ...                                          *)
LagsForward(newest, lead, p) ==
  \E t \in Advancing(newest, lead) : newest[t] < p - lead

(* ... and then either p is past the newest frame of all, which is taken as *)
(* the written tail and held, or the demuxer is moved to just behind p.     *)
PastNewest(newest, p) == \A t \in DOMAIN newest : newest[t] < p
HoldsTail(newest, lead, p) == LagsForward(newest, lead, p) /\ PastNewest(newest, p)
SkipsForward(newest, lead, p) == LagsForward(newest, lead, p) /\ ~PastNewest(newest, p)

-----------------------------------------------------------------------------
CanCommitByGeneration(startedGen, currentGen, seekPending) ==  \* mutant of CanCommit
  startedGen = currentGen

(* CommitGate::canCommitReposition().                                       *)
CanCommit(startedGen, currentGen, seekPending) ==
  ~seekPending /\ startedGen = currentGen
=============================================================================
