---------------------------- MODULE SourceClock ----------------------------
(***************************************************************************)
(* AnchoredSourceClock of recorder_engine/timing/sourceclock.cpp: the one  *)
(* clock of a source, which SRT, RTMP and NDI sessions share with their    *)
(* StreamWorker over reconnects.  An anchor pairs a sender time with a     *)
(* time of the session; the authority (video, PCR) may move it, a follower *)
(* (audio) only sets the first one.  Sender and session count in the same  *)
(* unit, and the estimated drift is that of a sender without drift; `rate' *)
(* keeps, of each rate sample since the last reset, the distance between   *)
(* the two clocks, so that samples of two different time lines show.       *)
(***************************************************************************)
EXTENDS Integers

CONSTANTS
  ForwardJump,   \* m_forwardJumpMs
  BackTolerance  \* - m_backwardToleranceMs

ClockAssumption == ForwardJump \in Nat /\ BackTolerance \in Nat

Unset == -1

FreshClock == [units |-> Unset, ms |-> Unset, prev |-> Unset, rate |-> {}]

Locked(c) == c.units >= 0 /\ c.ms >= 0

AddRateSample(c, units, now) ==
  IF units >= 0 /\ now >= 0 THEN [c EXCEPT !.rate = @ \cup {units - now}] ELSE c

Jumped(c, units) ==
  /\ c.prev >= 0
  /\ \/ units - c.prev > ForwardJump
     \/ units - c.prev < -BackTolerance

NeedsAnchor(c, units, discontinuity, authority) ==
  \/ c.units < 0
  \/ authority /\ (discontinuity \/ Jumped(c, units))

Observe(c, units, now, discontinuity, authority) ==
  LET anchored == IF NeedsAnchor(c, units, discontinuity, authority)
                  THEN [c EXCEPT !.units = units, !.ms = now, !.rate = {}]
                  ELSE c
  IN CASE units < 0 -> c
       [] units >= 0 /\ authority ->
            AddRateSample([anchored EXCEPT !.prev = units], units, now)
       [] OTHER -> anchored

ToSession(c, units) == IF Locked(c) THEN c.ms + (units - c.units) ELSE Unset

SameAnchor(c, d) == c.units = d.units /\ c.ms = d.ms
=============================================================================
