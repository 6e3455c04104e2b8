--------------------------- MODULE PlaybackProofs ---------------------------
(***************************************************************************)
(* What is proved of the playback scheduler for every recording, window,   *)
(* batch and number of commands: the gate opens for the latest seek only,  *)
(* no cut is let through once a seek was issued after its recall, and the  *)
(* skip-forward branch of the scheduler cannot be taken.                   *)
(***************************************************************************)
EXTENDS Playback, FiniteSetTheorems, TLAPS

-----------------------------------------------------------------------------
(* Whatever the newest frames of the tracks are, a playhead that the bank   *)
(* lags is past all of them: newestPtsMin() leaves out exactly the tracks   *)
(* that could be lead behind while another one reaches the playhead.  The   *)
(* skip-forward branch of run() and its counter are therefore dead code.    *)
THEOREM LagAlwaysHoldsTail ==
  ASSUME NEW Tracks, NEW newest \in [Tracks -> Int], NEW lead \in Int, NEW p \in Int
  PROVE  ~SkipsForward(newest, lead, p)
<1>1. SUFFICES ASSUME NEW t \in Tracks, NEW u \in Tracks,
                      newest[t] < p - lead, ~(newest[u] < p),
                      newest[t] >= newest[u] - lead
               PROVE  FALSE
  BY DEF SkipsForward, LagsForward, PastNewest, Advancing
<1>2. newest[t] \in Int /\ newest[u] \in Int
  OBVIOUS
<1>3. QED
  BY <1>1, <1>2
-----------------------------------------------------------------------------
(* Newest frames.  Max is a CHOOSE: that there is a largest element is the  *)
(* well-foundedness of the finite subsets of Nat under strict inclusion.    *)
LEMMA LeastNatural ==
  ASSUME NEW T, T \subseteq Nat, T # {}
  PROVE  \E x \in T : \A y \in T : x =< y
<1> DEFINE U == {0..x : x \in T}
<1>1. U \subseteq FiniteSubsetsOf(Nat) /\ U # {}
  <2>1. ASSUME NEW x \in T
        PROVE  0..x \in FiniteSubsetsOf(Nat)
    BY <2>1, FS_Interval DEF FiniteSubsetsOf
  <2>2. QED
    BY <2>1
<1>2. PICK u \in U : \A v \in U : ~(<<v, u>> \in StrictSubsetOrdering(Nat))
  <2>1. IsWellFoundedOn(StrictSubsetOrdering(Nat), FiniteSubsetsOf(Nat))
    BY FS_StrictSubsetOrderingWellFounded
  <2> HIDE DEF U
  <2>2. QED
    BY <1>1, <2>1, WFMin
<1>3. PICK x \in T : u = 0..x
  OBVIOUS
<1>4. ASSUME NEW y \in T, y < x
      PROVE  FALSE
  <2>1. 0..y \in U /\ 0..y \subseteq 0..x /\ x \in 0..x /\ x \notin 0..y
    BY <1>4
  <2>2. 0..y \in SUBSET Nat /\ 0..x \in SUBSET Nat /\ 0..y # 0..x
    BY <1>4, <2>1
  <2>3. <<0..y, u>> \in StrictSubsetOrdering(Nat)
    BY <1>3, <2>1, <2>2 DEF StrictSubsetOrdering
  <2>4. QED
    BY <1>2, <2>1, <2>3
<1>5. QED
  BY <1>4

(* What newestPts() returns for a buffer bounded from above.                *)
LEMMA NewestIsLast ==
  ASSUME NEW S, S \subseteq Int, NEW hi \in Int, \A y \in S : y =< hi, S # {}
  PROVE  NewestPts(S) \in S /\ \A y \in S : y =< NewestPts(S)
<1> DEFINE T == {hi - y : y \in S}
<1>1. T \subseteq Nat /\ T # {}
  <2>1. ASSUME NEW y \in S
        PROVE  hi - y \in Nat
    OBVIOUS
  <2>2. QED
    BY <2>1
<1>2. PICK d \in T : \A e \in T : d =< e
  <2> HIDE DEF T
  <2>1. QED
    BY <1>1, LeastNatural
<1>3. PICK x \in S : d = hi - x
  OBVIOUS
<1>4. \A y \in S : x >= y
  <2>1. ASSUME NEW y \in S
        PROVE  x >= y
    <3>1. hi - y \in T
      OBVIOUS
    <3>2. hi - x =< hi - y
      BY <1>2, <1>3, <3>1
    <3>3. QED
      BY <3>2
  <2>2. QED
    BY <2>1
<1>5. Max(S) \in S /\ \A y \in S : Max(S) >= y
  BY <1>4 DEF Max
<1>6. QED
  BY <1>5 DEF NewestPts

LEMMA FrameAtIsAFrame ==
  ASSUME NEW S, S \subseteq Positions, NEW p \in Int, Last \in Nat
  PROVE  FrameAt(S, p) \in S \cup {None}
<1> DEFINE F == {f \in S : f =< p}
<1>1. F = {} => NewestPts(F) = None
  BY DEF NewestPts
<1>2. F # {} => NewestPts(F) \in F
  <2>1. F \subseteq Int
    <3>1. ASSUME NEW f \in Positions
          PROVE  f \in Int
      BY <3>1 DEF Positions
    <3>2. QED
      BY <3>1
  <2>2. \A y \in F : y =< p
    OBVIOUS
  <2> HIDE DEF F
  <2>3. QED
    BY <2>1, <2>2, NewestIsLast
<1>3. QED
  BY <1>1, <1>2 DEF FrameAt
-----------------------------------------------------------------------------
(* Types.  The two facts that are not immediate are that neither demuxer is *)
(* ever taken past the end of the recording.                                *)
USE DEF None

LEMMA ForwardReadIsBounded ==
  ASSUME NEW from \in 0..(Last + 1), NEW newest
  PROVE  /\ ReadForward(newest, from) \subseteq from..Last
         /\ from + Cardinality(ReadForward(newest, from)) \in 0..(Last + 1)
<1> DEFINE read == ReadForward(newest, from)
<1>1. read \subseteq from..Last
  <2>1. from..AtMostLast(from + Batch - 1) \subseteq from..Last
    BY PlaybackAssumption DEF AtMostLast
  <2>2. read \subseteq from..AtMostLast(from + Batch - 1)
    BY DEF ReadForward
  <2>3. QED
    BY <2>1, <2>2
<1>2. IsFiniteSet(from..Last) /\ Cardinality(from..Last) = IF from > Last THEN 0 ELSE Last - from + 1
  BY FS_Interval, PlaybackAssumption
<1>3. IsFiniteSet(read) /\ Cardinality(read) =< Cardinality(from..Last)
  BY <1>1, <1>2, FS_Subset
<1>4. Cardinality(read) \in Nat
  BY <1>3, FS_CardinalityType
<1> HIDE DEF read
<1>5. from + Cardinality(read) \in 0..(Last + 1)
  BY <1>2, <1>3, <1>4, PlaybackAssumption
<1>6. QED
  BY <1>1, <1>5 DEF read

(* One call of fillStaging() reads the frames from where the demuxer is, in *)
(* order and without a gap, at least past the span or up to the end.        *)
StagedBatch(from, target) ==
  {f \in from..Last : f < from + Batch /\ (f = from \/ f =< target + Span)}

LEMMA BatchHasNoGaps ==
  ASSUME NEW from \in 0..(Last + 1), NEW target \in Positions,
         NEW next, next = NewestPts(StagedBatch(from, target) \cup {from - 1}) + 1
  PROVE  /\ next \in from..(Last + 1)
         /\ from..(next - 1) \subseteq StagedBatch(from, target)
         /\ from + Batch > Last + 1 => next > AtMostLast(target + Span)
<1> DEFINE batch == StagedBatch(from, target)
           S == batch \cup {from - 1}
<1>1. Last \in Nat /\ Span \in Nat /\ Batch \in Nat \ {0}
  BY PlaybackAssumption
<1>2. \A f : f \in batch <=> f \in from..Last /\ f < from + Batch /\ (f = from \/ f =< target + Span)
  BY DEF StagedBatch
<1>3. target \in 0..Last
  BY DEF Positions
<1> HIDE DEF batch
<1>4. NewestPts(S) \in S /\ \A y \in S : y =< NewestPts(S)
  <2>1. S \subseteq Int /\ S # {} /\ \A y \in S : y =< Last + 1
    BY <1>1, <1>2
  <2>2. Last + 1 \in Int
    BY <1>1
  <2> HIDE DEF S
  <2>3. QED
    BY <2>1, <2>2, NewestIsLast
<1>5. PICK m \in S : m = NewestPts(S) /\ \A y \in S : y =< m
  BY <1>4
<1>6. m \in Int /\ m >= from - 1 /\ m =< Last /\ next = m + 1
  BY <1>1, <1>2, <1>5 DEF batch
<1>7. ASSUME NEW f \in from..m
      PROVE  f \in batch
  <2>1. m \in batch
    BY <1>5, <1>6, <1>7
  <2>2. QED
    BY <1>1, <1>2, <1>3, <1>6, <1>7, <2>1
<1>8. ASSUME from + Batch > Last + 1, ~(next > AtMostLast(target + Span))
      PROVE  FALSE
  <2>1. next \in Int /\ next =< Last /\ next =< target + Span
    BY <1>1, <1>3, <1>6, <1>8 DEF AtMostLast
  <2>2. next \in batch
    BY <1>1, <1>2, <1>3, <1>6, <1>8, <2>1
  <2>3. next \in S
    BY <2>2
  <2>4. next =< m
    BY <1>5, <2>3
  <2>5. QED
    BY <1>6, <2>4
<1>9. next \in from..(Last + 1) /\ \A f \in from..(next - 1) : f \in batch
  <2>1. next - 1 = m
    BY <1>6
  <2>2. next \in from..(Last + 1)
    BY <1>1, <1>6
  <2>3. QED
    BY <1>7, <2>1, <2>2
<1>10. QED
  BY <1>8, <1>9 DEF batch

(* TypeOK by the part of the state it speaks of; a cut that is past its     *)
(* decision has a playhead to go to.                                        *)
UiTyped ==
  /\ ui \in Positions \cup {None} /\ commands \in 0..MaxCommands /\ playing \in BOOLEAN
  /\ asked \in Positions \cup {None} /\ lastSeek \in 0..MaxCommands
MoveTyped ==
  /\ pos \in Positions /\ ticks \in 0..MaxTicks
  /\ movedByCut \in BOOLEAN /\ raced \in BOOLEAN /\ strayed \in BOOLEAN
SeekTyped ==
  /\ seekTarget \in Positions \cup {None} /\ moveDir \in {-1, 1}
  /\ seekGen \in Nat /\ committedGen \in Nat
ArmTyped ==
  /\ armed \in BOOLEAN /\ armTarget \in Positions \cup {None} /\ armGen \in Nat
  /\ fresh \in BOOLEAN /\ armCmd \in 0..MaxCommands
  /\ covers \in BOOLEAN /\ sched \in Positions \cup {None} /\ follow \in Positions \cup {None}
  /\ pend \in [target : Positions, gen : Nat, cmd : 0..MaxCommands] \cup {NoPend}
BankTyped ==
  /\ bank \subseteq Positions /\ live \subseteq Positions /\ saved \subseteq Positions
  /\ rd \in 0..(Last + 1)
  /\ reverse \in Positions \cup {None} /\ delivered \in Positions \cup {None}
StageTyped ==
  staged \subseteq Positions /\ prerollRd \in 0..(Last + 1) /\ staging \in Positions \cup {None}
WorkTyped ==
  /\ worker \in Pcs
  /\ now \in [pos : Positions, playing : BOOLEAN, byCut : BOOLEAN, dir : {-1, 1}]
  /\ job \in [target : Positions \cup {None}, dir : {-1, 1}, cut : BOOLEAN, gen : Nat]
FireTyped ==
  /\ firing \in {"no", "swap", "rebase", "disarm"} /\ cutTo \in Positions \cup {None}
  /\ cutCmd \in 0..MaxCommands
  /\ firing \in {"swap", "rebase"} => cutTo \in Positions

Typed ==
  /\ UiTyped /\ MoveTyped /\ SeekTyped /\ ArmTyped
  /\ BankTyped /\ StageTyped /\ WorkTyped /\ FireTyped

LEMMA TypeOfGui == ASSUME Typed, Gui PROVE Typed'
<1> USE DEF Typed
<1>1. CASE Tick
  <2>1. UiTyped' /\ SeekTyped' /\ ArmTyped' /\ BankTyped' /\ StageTyped' /\ WorkTyped' /\ FireTyped'
    BY <1>1 DEF Tick, uiVars, seekVars, armVars, cutVars, bankVars, stageVars, fireVars,
      UiTyped, SeekTyped, ArmTyped, BankTyped, StageTyped, WorkTyped, FireTyped
  <2>2. MoveTyped'
    BY <1>1, PlaybackAssumption DEF Tick, fireVars, MoveTyped, Positions
  <2>3. QED
    BY <2>1, <2>2
<1>2. CASE PlayPause
  <2>1. MoveTyped' /\ SeekTyped' /\ ArmTyped' /\ BankTyped' /\ StageTyped' /\ WorkTyped' /\ FireTyped'
    BY <1>2 DEF PlayPause, moveVars, seekVars, armVars, cutVars, bankVars, stageVars, fireVars,
      MoveTyped, SeekTyped, ArmTyped, BankTyped, StageTyped, WorkTyped, FireTyped
  <2>2. UiTyped'
    BY <1>2, PlaybackAssumption DEF PlayPause, UiTyped, MayCommand
  <2>3. QED
    BY <2>1, <2>2
<1>3. CASE \E t \in Targets : SeekTransport(t)
  <2>1. PICK t \in Targets : SeekTransport(t)
    BY <1>3
  <2>2. SeekTyped' /\ ArmTyped' /\ BankTyped' /\ StageTyped' /\ WorkTyped' /\ FireTyped'
    BY <2>1 DEF SeekTransport, seekVars, armVars, cutVars, bankVars, stageVars, fireVars,
      SeekTyped, ArmTyped, BankTyped, StageTyped, WorkTyped, FireTyped
  <2>3. UiTyped'
    BY <2>1, PlaybackAssumption DEF SeekTransport, UiTyped, MayCommand, Positions
  <2>4. MoveTyped'
    BY <2>1, PlaybackAssumption DEF SeekTransport, fireVars, MoveTyped, Positions
  <2>5. QED
    BY <2>2, <2>3, <2>4
<1>4. CASE SeekTo
  <2>1. BankTyped' /\ StageTyped' /\ WorkTyped' /\ FireTyped'
    BY <1>4 DEF SeekTo, armVars, bankVars, stageVars, fireVars, BankTyped, StageTyped,
      WorkTyped, FireTyped
  <2>2. UiTyped'
    BY <1>4 DEF SeekTo, UiTyped
  <2>3. MoveTyped'
    BY <1>4 DEF SeekTo, fireVars, MoveTyped
  <2>4. SeekTyped'
    BY <1>4 DEF SeekTo, SeekTyped, UiTyped
  <2>5. ArmTyped'
    BY <1>4 DEF SeekTo, armVars, ArmTyped
  <2>6. QED
    BY <2>1, <2>2, <2>3, <2>4, <2>5
<1>5. CASE \E t \in Targets : Recall(t)
  <2>1. PICK t \in Targets : Recall(t)
    BY <1>5
  <2>2. MoveTyped' /\ SeekTyped' /\ BankTyped' /\ StageTyped' /\ WorkTyped' /\ FireTyped'
    BY <2>1 DEF Recall, moveVars, seekVars, bankVars, stageVars, fireVars, MoveTyped, SeekTyped,
      BankTyped, StageTyped, WorkTyped, FireTyped
  <2>3. UiTyped'
    BY <2>1, PlaybackAssumption DEF Recall, UiTyped, MayCommand
  <2>4. ArmTyped'
    <3>1. t \in Positions /\ commands' \in 0..MaxCommands
      BY <2>1, <2>3, PlaybackAssumption DEF UiTyped, Positions
    <3>2. CASE armed
      <4>1. pend' \in [target : Positions, gen : Nat, cmd : 0..MaxCommands]
        BY <2>1, <3>1, <3>2 DEF Recall, SeekTyped
      <4>2. QED
        BY <2>1, <3>2, <4>1 DEF Recall, ArmTyped, armVars
    <3>3. CASE ~armed
      BY <2>1, <3>1, <3>3 DEF Recall, ArmCut, ArmTyped, SeekTyped
    <3>4. QED
      BY <3>2, <3>3
  <2>5. QED
    BY <2>2, <2>3, <2>4
<1>6. QED
  BY <1>1, <1>2, <1>3, <1>4, <1>5 DEF Gui

LEMMA TypeOfOutput == ASSUME Typed, Output PROVE Typed'
<1> USE DEF Typed
<1>1. CASE AbortCut
  <2>1. UiTyped' /\ MoveTyped' /\ SeekTyped' /\ BankTyped' /\ StageTyped' /\ WorkTyped'
    BY <1>1 DEF AbortCut, uiVars, moveVars, seekVars, bankVars, stageVars, UiTyped, MoveTyped,
      SeekTyped, BankTyped, StageTyped, WorkTyped
  <2>2. ArmTyped'
    BY <1>1 DEF AbortCut, ArmTyped
  <2>3. FireTyped'
    BY <1>1 DEF AbortCut, FireTyped
  <2>4. QED
    BY <2>1, <2>2, <2>3
<1>2. CASE \E late \in 0..MaxOvershoot : DecideCut(late)
  <2>1. PICK late \in 0..MaxOvershoot : DecideCut(late)
    BY <1>2
  <2>2. UiTyped' /\ SeekTyped' /\ ArmTyped' /\ BankTyped' /\ StageTyped' /\ WorkTyped'
    BY <2>1 DEF DecideCut, uiVars, moveVars, seekVars, armVars, cutVars, bankVars, stageVars,
      UiTyped, SeekTyped, ArmTyped, BankTyped, StageTyped, WorkTyped
  <2>3. MoveTyped'
    BY <2>1 DEF DecideCut, moveVars, MoveTyped
  <2>4. FireTyped'
    BY <2>1, PlaybackAssumption DEF DecideCut, FireTyped, Fires, AtMostLast, Positions, ArmTyped
  <2>5. QED
    BY <2>2, <2>3, <2>4
<1>3. CASE SwapCaches
  <2>1. UiTyped' /\ MoveTyped' /\ SeekTyped' /\ WorkTyped'
    BY <1>3 DEF SwapCaches, uiVars, moveVars, seekVars, armVars, bankVars, UiTyped, MoveTyped,
      SeekTyped, WorkTyped
  <2>2. ArmTyped'
    BY <1>3 DEF SwapCaches, armVars, ArmTyped, FollowsTo, FireTyped
  <2>3. BankTyped'
    BY <1>3 DEF SwapCaches, bankVars, BankTyped, StageTyped
  <2>4. StageTyped'
    BY <1>3 DEF SwapCaches, StageTyped, BankTyped
  <2>5. FireTyped'
    BY <1>3, PlaybackAssumption DEF SwapCaches, FireTyped, Positions
  <2>6. QED
    BY <2>1, <2>2, <2>3, <2>4, <2>5
<1>4. CASE Rebase
  <2>1. UiTyped' /\ SeekTyped' /\ BankTyped' /\ StageTyped' /\ WorkTyped'
    BY <1>4 DEF Rebase, uiVars, seekVars, armVars, bankVars, stageVars, UiTyped, SeekTyped,
      BankTyped, StageTyped, WorkTyped
  <2>2. MoveTyped'
    <3>1. pos' \in Positions /\ UNCHANGED <<ticks, raced>>
      BY <1>4 DEF Rebase, FireTyped
    <3>2. movedByCut' \in BOOLEAN
      <4>1. movedByCut' = (IF cutTo >= pos THEN movedByCut ELSE cutCmd > lastSeek)
        BY <1>4 DEF Rebase
      <4>2. (cutCmd > lastSeek) \in BOOLEAN
        OBVIOUS
      <4>3. QED
        BY <4>1, <4>2 DEF MoveTyped
    <3>3. strayed' \in BOOLEAN
      BY <1>4 DEF Rebase
    <3>4. QED
      BY <3>1, <3>2, <3>3 DEF MoveTyped
  <2>3. ArmTyped'
    BY <1>4 DEF Rebase, armVars, ArmTyped
  <2>4. FireTyped'
    BY <1>4, PlaybackAssumption DEF Rebase, FireTyped
  <2>5. QED
    BY <2>1, <2>2, <2>3, <2>4
<1>5. CASE Disarm
  <2>1. UiTyped' /\ MoveTyped' /\ SeekTyped' /\ BankTyped' /\ StageTyped' /\ WorkTyped'
    BY <1>5 DEF Disarm, uiVars, moveVars, seekVars, cutVars, bankVars, stageVars, UiTyped,
      MoveTyped, SeekTyped, BankTyped, StageTyped, WorkTyped
  <2>2. ArmTyped'
    BY <1>5 DEF Disarm, cutVars, ArmTyped
  <2>3. FireTyped'
    BY <1>5 DEF Disarm, FireTyped
  <2>4. QED
    BY <2>1, <2>2, <2>3
<1>6. QED
  BY <1>1, <1>2, <1>3, <1>4, <1>5 DEF Output

LEMMA TypeOfSchedule == ASSUME Typed, Schedule PROVE Typed'
<1> USE DEF Typed
<1>1. CASE Open
  <2>1. UiTyped' /\ MoveTyped' /\ ArmTyped' /\ BankTyped' /\ StageTyped' /\ FireTyped'
    BY <1>1 DEF Open, uiVars, moveVars, armVars, cutVars, bankVars, stageVars, fireVars,
      UiTyped, MoveTyped, ArmTyped, BankTyped, StageTyped, FireTyped
  <2>2. SeekTyped'
    BY <1>1 DEF Open, SeekTyped
  <2>3. WorkTyped'
    BY <1>1 DEF Open, WorkTyped, Pcs
  <2>4. QED
    BY <2>1, <2>2, <2>3
<1>2. CASE Sample
  <2>1. UiTyped' /\ MoveTyped' /\ SeekTyped' /\ ArmTyped' /\ BankTyped' /\ StageTyped' /\ FireTyped'
    BY <1>2 DEF Sample, uiVars, moveVars, seekVars, armVars, cutVars, bankVars, stageVars,
      fireVars, UiTyped, MoveTyped, SeekTyped, ArmTyped, BankTyped, StageTyped, FireTyped
  <2>2. WorkTyped'
    BY <1>2 DEF Sample, WorkTyped, Pcs, MoveTyped, SeekTyped, UiTyped
  <2>3. QED
    BY <2>1, <2>2
<1>3. CASE TakeSeek
  <2>1. UiTyped' /\ MoveTyped' /\ ArmTyped' /\ BankTyped' /\ StageTyped' /\ FireTyped'
    BY <1>3 DEF TakeSeek, uiVars, moveVars, armVars, cutVars, bankVars, stageVars, fireVars,
      UiTyped, MoveTyped, ArmTyped, BankTyped, StageTyped, FireTyped
  <2>2. SeekTyped'
    BY <1>3 DEF TakeSeek, SeekTyped
  <2>3. WorkTyped'
    <3>1. CASE seekTarget # None
      <4>1. worker' = "reposition" /\ now' = now
            /\ job' = [target |-> seekTarget, dir |-> moveDir, cut |-> FALSE, gen |-> 0]
        BY <1>3, <3>1 DEF TakeSeek, Reposition
      <4>2. QED
        BY <4>1 DEF WorkTyped, SeekTyped, Pcs
    <3>2. CASE seekTarget = None
      BY <1>3, <3>2 DEF TakeSeek, WorkTyped, Pcs
    <3>3. QED
      BY <3>1, <3>2
  <2>4. QED
    BY <2>1, <2>2, <2>3
<1>4. CASE FollowOrJump
  <2>1. UiTyped' /\ MoveTyped' /\ SeekTyped' /\ BankTyped' /\ StageTyped' /\ FireTyped'
    BY <1>4 DEF FollowOrJump, uiVars, moveVars, seekVars, armVars, bankVars, stageVars,
      fireVars, UiTyped, MoveTyped, SeekTyped, BankTyped, StageTyped, FireTyped
  <2>2. ArmTyped'
    BY <1>4 DEF FollowOrJump, armVars, ArmTyped
  <2>3. WorkTyped'
    <3>1. CASE worker' = "reposition"
      <4>1. PICK target \in Positions, cut \in BOOLEAN :
              job' = [target |-> target, dir |-> -1, cut |-> cut, gen |-> 0]
        BY <1>4, <3>1 DEF FollowOrJump, Reposition, ArmTyped, WorkTyped
      <4>2. now' = now
        BY <1>4 DEF FollowOrJump
      <4>3. QED
        BY <3>1, <4>1, <4>2 DEF WorkTyped, Pcs
    <3>2. CASE worker' # "reposition"
      BY <1>4, <3>2 DEF FollowOrJump, Reposition, WorkTyped, Pcs
    <3>3. QED
      BY <3>1, <3>2
  <2>4. QED
    BY <2>1, <2>2, <2>3
<1>5. QED
  BY <1>1, <1>2, <1>3, <1>4 DEF Schedule

LEMMA TypeOfRepositioning == ASSUME Typed, Repositioning PROVE Typed'
<1> USE DEF Typed
<1>1. CASE StartReposition
  <2>1. UiTyped' /\ MoveTyped' /\ SeekTyped' /\ ArmTyped' /\ StageTyped' /\ FireTyped'
    BY <1>1 DEF StartReposition, uiVars, moveVars, seekVars, armVars, cutVars, stageVars,
      fireVars, UiTyped, MoveTyped, SeekTyped, ArmTyped, StageTyped, FireTyped
  <2>2. BankTyped'
    <3>1. rd' \in 0..(Last + 1)
      <4>1. job.target \in -1..Last /\ Lead \in Nat /\ Trail \in Nat /\ Last \in Nat
        BY PlaybackAssumption DEF WorkTyped, Positions
      <4>2. rd' = rd \/ rd' = AtLeast0(job.target - Lead) \/ rd' = AtLeast0(job.target - Trail)
        BY <1>1 DEF StartReposition
      <4>3. QED
        BY <4>1, <4>2 DEF AtLeast0, BankTyped
    <3>2. QED
      BY <1>1, <3>1 DEF StartReposition, BankTyped
  <2>3. WorkTyped'
    BY <1>1 DEF StartReposition, WorkTyped, Pcs, SeekTyped
  <2>4. QED
    BY <2>1, <2>2, <2>3
<1>2. CASE Refill
  <2>1. UiTyped' /\ MoveTyped' /\ SeekTyped' /\ ArmTyped' /\ StageTyped' /\ WorkTyped' /\ FireTyped'
    BY <1>2 DEF Refill, uiVars, moveVars, seekVars, armVars, cutVars, stageVars, fireVars,
      UiTyped, MoveTyped, SeekTyped, ArmTyped, StageTyped, WorkTyped, FireTyped
  <2>2. BankTyped'
    BY <1>2, PlaybackAssumption DEF Refill, BankTyped, Refilled, Positions
  <2>3. QED
    BY <2>1, <2>2
<1>3. CASE CommitReposition
  <2>1. UiTyped' /\ ArmTyped' /\ StageTyped' /\ FireTyped'
    BY <1>3 DEF CommitReposition, uiVars, moveVars, armVars, cutVars, stageVars, UiTyped,
      ArmTyped, StageTyped, FireTyped
  <2>2. MoveTyped'
    BY <1>3 DEF CommitReposition, moveVars, MoveTyped
  <2>3. SeekTyped'
    BY <1>3 DEF CommitReposition, SeekTyped, WorkTyped
  <2>4. BankTyped'
    <3>1. FrameAt(bank, job.target) \in Positions \cup {None}
      <4>1. job.target \in Int /\ Last \in Nat
        BY PlaybackAssumption DEF WorkTyped, Positions
      <4>2. QED
        BY <4>1, FrameAtIsAFrame DEF BankTyped
    <3>2. UNCHANGED <<bank, rd, reverse>> /\ saved' = {} /\ delivered' \in Positions \cup {None}
      BY <1>3, <3>1 DEF CommitReposition, BankTyped
    <3>3. live' \subseteq Positions
      BY <1>3 DEF CommitReposition, TrimBefore, BankTyped
    <3>4. QED
      BY <3>2, <3>3 DEF BankTyped
  <2>5. WorkTyped'
    BY <1>3, PlaybackAssumption DEF CommitReposition, WorkTyped, Pcs, NoJob, Idle, Positions
  <2>6. QED
    BY <2>1, <2>2, <2>3, <2>4, <2>5
<1>4. QED
  BY <1>1, <1>2, <1>3 DEF Repositioning

LEMMA TypeOfPass == ASSUME Typed, Pass PROVE Typed'
<1> USE DEF Typed
<1>1. CASE FillForward
  <2>1. UiTyped' /\ MoveTyped' /\ SeekTyped' /\ ArmTyped' /\ StageTyped' /\ FireTyped'
    BY <1>1 DEF FillForward, uiVars, moveVars, seekVars, armVars, cutVars, stageVars, fireVars,
      UiTyped, MoveTyped, SeekTyped, ArmTyped, StageTyped, FireTyped
  <2>2. BankTyped'
    <3> DEFINE kept == IF SkipsNow THEN {} ELSE bank
               from == IF SkipsNow THEN AtLeast0(now.pos - Trail) ELSE rd
               read == ReadForward(NewestPts(kept), from)
    <3>1. now.pos \in 0..Last /\ Trail \in Nat /\ Last \in Nat
      BY PlaybackAssumption DEF WorkTyped, Positions
    <3>2. kept \subseteq Positions /\ from \in 0..(Last + 1)
      BY <3>1 DEF BankTyped, AtLeast0
    <3>3. Deliver(now.pos, now.dir, kept) \in Positions \cup {None}
      BY <3>1, <3>2, FrameAtIsAFrame DEF Deliver, BankTyped
    <3>4. read \subseteq from..Last /\ from + Cardinality(read) \in 0..(Last + 1)
      BY <3>2, ForwardReadIsBounded
    <3>5. from..Last \subseteq Positions
      BY <3>1, <3>2 DEF Positions
    <3>6. /\ delivered' = Deliver(now.pos, now.dir, kept)
          /\ bank' = kept \cup read /\ live' = live \cup read
          /\ rd' = from + Cardinality(read) /\ reverse' = None /\ saved' = saved
      BY <1>1 DEF FillForward
    <3> HIDE DEF kept, from, read
    <3>7. QED
      BY <3>2, <3>3, <3>4, <3>5, <3>6 DEF BankTyped
  <2>3. WorkTyped'
    BY <1>1 DEF FillForward, WorkTyped, Pcs
  <2>4. QED
    BY <2>1, <2>2, <2>3
<1>2. CASE FillBackward
  <2>1. UiTyped' /\ MoveTyped' /\ SeekTyped' /\ ArmTyped' /\ StageTyped' /\ FireTyped'
    BY <1>2 DEF FillBackward, uiVars, moveVars, seekVars, armVars, cutVars, stageVars, fireVars,
      UiTyped, MoveTyped, SeekTyped, ArmTyped, StageTyped, FireTyped
  <2>2. BankTyped'
    <3> DEFINE chunk == IF NeedsChunk THEN {f \in Positions : ReverseAnchor =< f /\ f < rd} ELSE {}
    <3>1. now.pos \in 0..Last /\ Lead \in Nat /\ Chunk \in Nat /\ Last \in Nat
      BY PlaybackAssumption DEF WorkTyped, Positions
    <3>2. chunk \subseteq Positions /\ bank \cup chunk \subseteq Positions
      BY DEF BankTyped
    <3>3. Deliver(now.pos, now.dir, bank \cup chunk) \in Positions \cup {None}
      BY <3>1, <3>2, FrameAtIsAFrame DEF Deliver, BankTyped
    <3>4. ReverseAnchor \in Positions
      BY <3>1 DEF ReverseAnchor, AtLeast0, Positions
    <3>5. /\ delivered' = Deliver(now.pos, now.dir, bank \cup chunk)
          /\ bank' = bank \cup chunk /\ live' = live \cup chunk
          /\ reverse' = IF NeedsChunk THEN ReverseAnchor ELSE reverse
          /\ rd' = rd /\ saved' = saved
      BY <1>2 DEF FillBackward
    <3> HIDE DEF chunk
    <3>6. QED
      BY <3>2, <3>3, <3>4, <3>5 DEF BankTyped
  <2>3. WorkTyped'
    BY <1>2 DEF FillBackward, WorkTyped, Pcs
  <2>4. QED
    BY <2>1, <2>2, <2>3
<1>3. CASE Trim
  <2>1. UiTyped' /\ MoveTyped' /\ SeekTyped' /\ ArmTyped' /\ StageTyped' /\ FireTyped'
    BY <1>3 DEF Trim, uiVars, moveVars, seekVars, armVars, cutVars, stageVars, fireVars,
      UiTyped, MoveTyped, SeekTyped, ArmTyped, StageTyped, FireTyped
  <2>2. BankTyped'
    BY <1>3 DEF Trim, BankTyped, TrimBuffer, TrimBefore
  <2>3. WorkTyped'
    BY <1>3 DEF Trim, WorkTyped, Pcs
  <2>4. QED
    BY <2>1, <2>2, <2>3
<1>4. CASE Rearm
  <2>1. UiTyped' /\ SeekTyped' /\ BankTyped' /\ StageTyped' /\ FireTyped'
    BY <1>4 DEF Rearm, uiVars, moveVars, seekVars, bankVars, stageVars, fireVars, UiTyped,
      SeekTyped, BankTyped, StageTyped, FireTyped
  <2>2. MoveTyped'
    BY <1>4 DEF Rearm, moveVars, fireVars, MoveTyped
  <2>3. ArmTyped'
    <3>1. CASE ~armed /\ pend # NoPend /\ StillWanted
      BY <1>4, <3>1 DEF Rearm, ArmCut, ArmTyped
    <3>2. CASE ~(~armed /\ pend # NoPend /\ StillWanted)
      <4>1. UNCHANGED <<armVars, covers, sched, follow>> /\ (pend' = pend \/ pend' = NoPend)
        BY <1>4, <3>2 DEF Rearm
      <4>2. QED
        BY <4>1 DEF ArmTyped, armVars
    <3>3. QED
      BY <3>1, <3>2
  <2>4. WorkTyped'
    BY <1>4, PlaybackAssumption DEF Rearm, WorkTyped, Pcs, Idle, Positions
  <2>5. QED
    BY <2>1, <2>2, <2>3, <2>4
<1>5. QED
  BY <1>1, <1>2, <1>3, <1>4 DEF Pass

LEMMA TypeOfStaging == ASSUME Typed, Staging PROVE Typed'
<1> USE DEF Typed
<1>1. CASE BeginStaging
  <2>1. UiTyped' /\ MoveTyped' /\ SeekTyped' /\ BankTyped' /\ FireTyped'
    BY <1>1 DEF BeginStaging, uiVars, moveVars, seekVars, cutVars, bankVars, fireVars, UiTyped,
      MoveTyped, SeekTyped, BankTyped, FireTyped
  <2>2. ArmTyped'
    BY <1>1 DEF BeginStaging, cutVars, ArmTyped
  <2>3. StageTyped'
    <3>1. CASE armTarget = None \/ covers
      BY <1>1, <3>1 DEF BeginStaging, StageTyped
    <3>2. CASE ~(armTarget = None \/ covers)
      <4>1. armTarget \in 0..Last /\ Trail \in Nat /\ Last \in Nat
        BY <3>2, PlaybackAssumption DEF ArmTyped, Positions
      <4>2. AtLeast0(armTarget - Trail) \in 0..(Last + 1)
        BY <4>1 DEF AtLeast0
      <4>3. /\ staging' = armTarget /\ (staged' = {} \/ staged' = staged)
            /\ prerollRd' = AtLeast0(armTarget - Trail) \/ prerollRd' = prerollRd
        BY <1>1, <3>2 DEF BeginStaging
      <4>4. QED
        BY <4>1, <4>2, <4>3 DEF StageTyped, Positions
    <3>3. QED
      BY <3>1, <3>2
  <2>4. WorkTyped'
    BY <1>1 DEF BeginStaging, WorkTyped, Pcs
  <2>5. QED
    BY <2>1, <2>2, <2>3, <2>4
<1>2. CASE DecodeStaging
  <2>1. UiTyped' /\ MoveTyped' /\ SeekTyped' /\ BankTyped' /\ FireTyped'
    BY <1>2 DEF DecodeStaging, uiVars, moveVars, seekVars, armVars, bankVars, fireVars, UiTyped,
      MoveTyped, SeekTyped, BankTyped, FireTyped
  <2>2. ArmTyped'
    BY <1>2 DEF DecodeStaging, armVars, ArmTyped
  <2>3. StageTyped'
    <3> DEFINE frames == StagedBatch(prerollRd, staging)
    <3>1. frames \subseteq Positions
      BY PlaybackAssumption DEF StagedBatch, StageTyped, Positions
    <3>2. prerollRd' = NewestPts(frames \cup {prerollRd - 1}) + 1
      BY <1>2 DEF DecodeStaging, StagedBatch
    <3>3. prerollRd' \in 0..(Last + 1)
      <4> HIDE DEF frames
      <4>1. frames \cup {prerollRd - 1} \subseteq -1..Last /\ Last \in Nat
        BY <3>1, PlaybackAssumption DEF StageTyped, Positions
      <4>2. NewestPts(frames \cup {prerollRd - 1}) \in -1..Last
        BY <4>1, NewestIsLast
      <4>3. QED
        BY <3>2, <4>1, <4>2
    <3>4. staged' = staged \cup frames /\ staging' = staging
      BY <1>2 DEF DecodeStaging, StagedBatch
    <3> HIDE DEF frames
    <3>5. QED
      BY <3>1, <3>3, <3>4 DEF StageTyped
  <2>4. WorkTyped'
    BY <1>2 DEF DecodeStaging, WorkTyped, Pcs
  <2>5. QED
    BY <2>1, <2>2, <2>3, <2>4
<1>3. CASE ScheduleCut
  <2>1. UiTyped' /\ MoveTyped' /\ SeekTyped' /\ BankTyped' /\ FireTyped'
    BY <1>3 DEF ScheduleCut, uiVars, moveVars, seekVars, armVars, bankVars, fireVars, UiTyped,
      MoveTyped, SeekTyped, BankTyped, FireTyped
  <2>2. ArmTyped'
    BY <1>3 DEF ScheduleCut, armVars, ArmTyped
  <2>3. StageTyped'
    BY <1>3 DEF ScheduleCut, StageTyped
  <2>4. WorkTyped'
    BY <1>3 DEF ScheduleCut, WorkTyped, Pcs
  <2>5. QED
    BY <2>1, <2>2, <2>3, <2>4
<1>4. QED
  BY <1>1, <1>2, <1>3 DEF Staging

LEMMA TypedInvariant == Spec => []Typed
<1>1. Init => Typed
  <2>1. 0 \in Positions /\ MaxCommands \in Nat /\ MaxTicks \in Nat /\ Last \in Nat
    BY PlaybackAssumption DEF Positions
  <2>2. Init => UiTyped /\ MoveTyped /\ SeekTyped /\ ArmTyped
    <3>1. Init => UiTyped /\ SeekTyped
      BY <2>1 DEF Init, UiTyped, SeekTyped
    <3>2. ASSUME Init PROVE MoveTyped
      <4>1. pos = 0 /\ ticks = 0 /\ movedByCut = FALSE /\ raced = FALSE /\ strayed = FALSE
        BY <3>2 DEF Init
      <4>2. movedByCut \in BOOLEAN /\ raced \in BOOLEAN /\ strayed \in BOOLEAN
        BY <4>1
      <4>3. QED
        BY <2>1, <4>1, <4>2 DEF MoveTyped
    <3>3. ASSUME Init PROVE ArmTyped
      <4>1. /\ armed = FALSE /\ armTarget = None /\ armGen = 0 /\ fresh = FALSE /\ armCmd = 0
            /\ covers = FALSE /\ sched = None /\ follow = None /\ pend = NoPend
        BY <3>3 DEF Init
      <4>2. armed \in BOOLEAN /\ fresh \in BOOLEAN /\ covers \in BOOLEAN
        BY <4>1
      <4>3. QED
        BY <2>1, <4>1, <4>2 DEF ArmTyped
    <3>4. QED
      BY <3>1, <3>2, <3>3
  <2>3. Init => BankTyped /\ StageTyped /\ FireTyped
    BY <2>1 DEF Init, BankTyped, StageTyped, FireTyped
  <2>4. Init => WorkTyped
    BY <2>1 DEF Init, WorkTyped, NoJob, Idle, Pcs
  <2>5. QED
    BY <2>2, <2>3, <2>4 DEF Typed
<1>2. Typed /\ [Next]_vars => Typed'
  <2>1. CASE UNCHANGED vars
    BY <2>1 DEF vars, uiVars, moveVars, seekVars, armVars, cutVars, bankVars, stageVars, fireVars,
      Typed, UiTyped, MoveTyped, SeekTyped, ArmTyped, BankTyped, StageTyped, WorkTyped, FireTyped
  <2>2. QED
    BY <2>1, TypeOfGui, TypeOfOutput, TypeOfSchedule, TypeOfRepositioning, TypeOfPass, TypeOfStaging
    DEF Next, Worker
<1>3. QED
  BY <1>1, <1>2, PTL DEF Spec

(* TypeOK for every recording, window and number of commands.               *)
THEOREM TypeCorrect == Spec => []TypeOK
<1>1. Typed => TypeOK
  BY DEF Typed, UiTyped, MoveTyped, SeekTyped, ArmTyped, BankTyped, StageTyped, WorkTyped,
    FireTyped, TypeOK
<1>2. QED
  BY <1>1, TypedInvariant, PTL
-----------------------------------------------------------------------------
(* The gate: a seek not yet committed is either still pending, or the       *)
(* worker is in the reposition that serves it, and unless a newer seek      *)
(* supersedes it that reposition knows the current generation.  Commands    *)
(* must not come while the recording is opened: run() would forget a seek.  *)
InReposition == {"reposition", "reuse", "refill"}

GateInv ==
  /\ job = [target |-> job.target, dir |-> job.dir, cut |-> job.cut, gen |-> job.gen]
  /\ seekTarget # None => seekTarget = asked
  /\ seekTarget = None /\ seekGen # committedGen
       => worker \in InReposition /\ job.target = asked
  /\ seekTarget = None /\ worker \in {"reuse", "refill"} => job.gen = seekGen
  /\ worker = "opening" => ui = None /\ seekTarget = None /\ seekGen = committedGen

gateVars == <<ui, seekTarget, asked, seekGen, committedGen, worker, job>>

(* The steps that matter to the gate only by where they leave the worker.   *)
LEMMA GateUnmoved ==
  ASSUME GateInv, ~OpensSlowly,
         UNCHANGED <<ui, seekTarget, asked, seekGen, committedGen, job>>,
         worker \notin InReposition \/ worker' = worker,
         worker' \notin InReposition \/ worker' = worker,
         worker' # "opening" \/ worker' = worker
  PROVE  GateInv'
  BY DEF GateInv, InReposition

LEMMA GateOfGui ==
  ASSUME GateInv, ~OpensSlowly, Gui
  PROVE  GateInv'
<1>1. CASE Tick \/ PlayPause \/ \E t \in Targets : Recall(t)
  BY <1>1, GateUnmoved DEF Tick, PlayPause, Recall, uiVars, seekVars
<1>2. CASE \E t \in Targets : SeekTransport(t)
  BY <1>2 DEF SeekTransport, MayCommand, GateInv, seekVars
<1>3. CASE SeekTo
  BY <1>3 DEF SeekTo, GateInv, None
<1>4. QED
  BY <1>1, <1>2, <1>3 DEF Gui

LEMMA GateOfOutput ==
  ASSUME GateInv, ~OpensSlowly, Output
  PROVE  GateInv'
<1>1. UNCHANGED <<ui, seekTarget, asked, seekGen, committedGen, worker, job>>
  BY DEF Output, AbortCut, DecideCut, SwapCaches, Rebase, Disarm, uiVars, seekVars
<1>2. QED
  BY <1>1, GateUnmoved

LEMMA GateOfSchedule ==
  ASSUME GateInv, ~OpensSlowly, Schedule
  PROVE  GateInv'
<1>1. CASE Open
  BY <1>1 DEF Open, GateInv, InReposition, uiVars
<1>2. CASE Sample
  BY <1>2, GateUnmoved DEF Sample, InReposition, uiVars, seekVars
<1>3. CASE TakeSeek
  BY <1>3 DEF TakeSeek, Reposition, GateInv, InReposition, None, uiVars
<1>4. CASE FollowOrJump
  BY <1>4 DEF FollowOrJump, Reposition, GateInv, InReposition, uiVars, seekVars
<1>5. QED
  BY <1>1, <1>2, <1>3, <1>4 DEF Schedule

LEMMA GateOfRepositioning ==
  ASSUME GateInv, ~OpensSlowly, Repositioning
  PROVE  GateInv'
<1>1. CASE StartReposition
  <2>1. job'.target = job.target /\ job'.gen = seekGen
    BY <1>1 DEF StartReposition, GateInv
  <2>2. job' = [target |-> job'.target, dir |-> job'.dir, cut |-> job'.cut, gen |-> job'.gen]
    BY <1>1 DEF StartReposition, GateInv
  <2>3. worker = "reposition" /\ worker' \in {"reuse", "refill"}
    BY <1>1 DEF StartReposition
  <2>4. UNCHANGED <<ui, seekTarget, asked, seekGen, committedGen>>
    BY <1>1 DEF StartReposition, uiVars, seekVars
  <2>5. QED
    BY <2>1, <2>2, <2>3, <2>4 DEF GateInv, InReposition
<1>2. CASE Refill
  BY <1>2, GateUnmoved DEF Refill, InReposition, uiVars, seekVars
<1>3. CASE CommitReposition
  <2>1. /\ worker \in {"reuse", "refill"} /\ worker' = "sample" /\ job' = NoJob
        /\ UNCHANGED <<ui, seekTarget, asked, seekGen>>
    BY <1>3 DEF CommitReposition, uiVars
  <2>2. seekTarget = None => committedGen' = seekGen
    BY <1>3, <2>1 DEF CommitReposition, MayCommit, CanCommit, GateInv
  <2>3. QED
    BY <1>3, <2>1, <2>2 DEF CommitReposition, GateInv, NoJob, InReposition
<1>4. QED
  BY <1>1, <1>2, <1>3 DEF Repositioning

LEMMA GateOfPass ==
  ASSUME GateInv, ~OpensSlowly, Pass \/ Staging
  PROVE  GateInv'
<1>1. /\ UNCHANGED <<ui, seekTarget, asked, seekGen, committedGen, job>>
      /\ worker \notin InReposition /\ worker' \notin InReposition
      /\ worker' # "opening"
  BY DEF Pass, Staging, FillForward, FillBackward, Trim, Rearm, BeginStaging,
         DecodeStaging, ScheduleCut, InReposition, uiVars, seekVars
<1>2. QED
  BY <1>1, GateUnmoved

LEMMA GateInvariant == ASSUME ~OpensSlowly PROVE Spec => []GateInv
<1>1. Init => GateInv
  BY DEF Init, GateInv, NoJob, InReposition
<1>2. GateInv /\ [Next]_vars => GateInv'
  <2>1. CASE UNCHANGED vars
    BY <2>1 DEF vars, uiVars, seekVars, GateInv
  <2>2. QED
    BY <2>1, GateOfGui, GateOfOutput, GateOfSchedule, GateOfRepositioning, GateOfPass
    DEF Next, Worker
<1>3. QED
  BY <1>1, <1>2, PTL DEF Spec

LEMMA OnlyCommits ==
  ASSUME Next, committedGen' # committedGen
  PROVE  CommitReposition
  BY DEF Next, Gui, Output, Worker, Schedule, Repositioning, Pass, Staging,
    Tick, PlayPause, Recall, SeekTransport, SeekTo, AbortCut, DecideCut, SwapCaches,
    Rebase, Disarm, Open, Sample, TakeSeek, FollowOrJump, StartReposition, Refill,
    FillForward, FillBackward, Trim, Rearm, BeginStaging, DecodeStaging, ScheduleCut,
    uiVars, seekVars

(* CommitServesLatestSeek for every recording and any number of commands.   *)
THEOREM CommitsServeLatestSeek ==
  ASSUME ~OpensSlowly
  PROVE  Spec => CommitServesLatestSeek
<1>1. GateInv /\ [Next]_vars => [committedGen' # committedGen => job.target = asked]_vars
  <2>1. SUFFICES ASSUME GateInv, Next, committedGen' # committedGen
                 PROVE  job.target = asked
    OBVIOUS
  <2>2. CommitReposition
    BY <2>1, OnlyCommits
  <2>3. seekTarget = None /\ committedGen' = job.gen /\ job.gen = seekGen
    BY <2>1, <2>2 DEF CommitReposition, MayCommit, CanCommit
  <2>4. QED
    BY <2>1, <2>3 DEF GateInv
<1>2. QED
  BY <1>1, GateInvariant, PTL DEF Spec, CommitServesLatestSeek
-----------------------------------------------------------------------------
(* The cut: recalls and seeks are numbered by the order of the commands.  A *)
(* recall that is armed, or queued, under the current seek generation is    *)
(* later than every seek; any seek makes the generations differ for good.   *)
Numbers ==
  /\ seekGen \in Nat /\ armGen \in Nat /\ armGen =< seekGen
  /\ commands \in Nat /\ lastSeek \in Nat /\ lastSeek =< commands
  /\ armCmd \in Nat

ArmedIsLatest ==
  (armed \/ sched # None) /\ armGen = seekGen => armCmd > lastSeek

QueuedIsLatest ==
  pend # NoPend =>
    /\ pend.gen \in Nat /\ pend.gen =< seekGen /\ pend.cmd \in Nat
    /\ pend.gen = seekGen => pend.cmd > lastSeek

CutInv == Numbers /\ ArmedIsLatest /\ QueuedIsLatest

LEMMA CutUnmoved ==
  ASSUME CutInv, UNCHANGED <<seekGen, armGen, commands, lastSeek, armCmd, pend>>,
         armed' => armed, sched' # None => sched # None \/ armed
  PROVE  CutInv'
  BY DEF CutInv, Numbers, ArmedIsLatest, QueuedIsLatest

LEMMA CutOfGui == ASSUME CutInv, Gui PROVE CutInv'
<1>1. CASE Tick
  BY <1>1, CutUnmoved DEF Tick, uiVars, seekVars, armVars, cutVars
<1>2. CASE PlayPause \/ \E t \in Targets : SeekTransport(t)
  BY <1>2 DEF PlayPause, SeekTransport, seekVars, armVars, cutVars,
              CutInv, Numbers, ArmedIsLatest, QueuedIsLatest
<1>3. CASE SeekTo
  BY <1>3 DEF SeekTo, armVars, CutInv, Numbers, ArmedIsLatest, QueuedIsLatest
<1>4. CASE \E t \in Targets : Recall(t)
  <2>1. PICK t \in Targets : Recall(t)
    BY <1>4
  <2>2. CASE armed
    <3>1. /\ pend' = [target |-> t, gen |-> seekGen, cmd |-> commands']
          /\ commands' = commands + 1
          /\ UNCHANGED <<armed, armGen, armCmd, sched, seekGen, lastSeek>>
      BY <2>1, <2>2 DEF Recall, seekVars, armVars
    <3>2. pend'.gen = seekGen /\ pend'.cmd = commands'
      BY <3>1
    <3>3. QED
      BY <3>1, <3>2 DEF CutInv, Numbers, ArmedIsLatest, QueuedIsLatest
  <2>3. CASE ~armed
    <3>1. /\ armGen' = seekGen /\ armCmd' = commands' /\ commands' = commands + 1
          /\ UNCHANGED <<pend, seekGen, lastSeek>>
      BY <2>1, <2>3 DEF Recall, ArmCut, seekVars
    <3>2. QED
      BY <3>1 DEF CutInv, Numbers, ArmedIsLatest, QueuedIsLatest
  <2>4. QED
    BY <2>2, <2>3
<1>5. QED
  BY <1>1, <1>2, <1>3, <1>4 DEF Gui

LEMMA CutOfOutput == ASSUME CutInv, Output PROVE CutInv'
<1>1. /\ UNCHANGED <<seekGen, armGen, commands, lastSeek, armCmd, pend>>
      /\ armed' = armed \/ armed' = FALSE
      /\ sched' = sched \/ sched' = None
  BY DEF Output, AbortCut, DecideCut, SwapCaches, Rebase, Disarm, uiVars, seekVars,
         armVars, cutVars
<1>2. QED
  BY <1>1, CutUnmoved

(* The worker arms a queued recall only under the generation it was queued  *)
(* under, and schedules only what is armed.                                 *)
LEMMA CutOfWorker == ASSUME CutInv, Worker PROVE CutInv'
<1>1. CASE Schedule \/ Repositioning \/ FillForward \/ FillBackward \/ Trim
  <2>1. UNCHANGED <<seekGen, armGen, commands, lastSeek, armCmd, pend, armed, sched>>
    BY <1>1 DEF Schedule, Open, Sample, TakeSeek, FollowOrJump, Repositioning,
       StartReposition, Refill, CommitReposition, FillForward, FillBackward, Trim,
       uiVars, seekVars, armVars, cutVars
  <2>2. QED
    BY <2>1, CutUnmoved
<1>2. CASE Rearm
  <2>1. UNCHANGED <<seekGen, commands, lastSeek>>
    BY <1>2 DEF Rearm, uiVars, seekVars
  <2>2. CASE ~armed /\ pend # NoPend /\ StillWanted
    <3>1. pend' = NoPend /\ armGen' = pend.gen /\ armCmd' = pend.cmd /\ pend.gen = seekGen
      BY <1>2, <2>2 DEF Rearm, ArmCut, StillWanted
    <3>2. QED
      BY <2>1, <2>2, <3>1 DEF CutInv, Numbers, ArmedIsLatest, QueuedIsLatest
  <2>3. CASE ~(~armed /\ pend # NoPend /\ StillWanted)
    <3>1. /\ UNCHANGED <<armed, armGen, armCmd, sched>>
          /\ pend' = pend \/ pend' = NoPend
      BY <1>2, <2>3 DEF Rearm, armVars
    <3>2. QED
      BY <2>1, <3>1 DEF CutInv, Numbers, ArmedIsLatest, QueuedIsLatest
  <2>4. QED
    BY <2>2, <2>3
<1>3. CASE Staging
  <2>1. /\ UNCHANGED <<seekGen, armGen, commands, lastSeek, armCmd, pend, armed>>
        /\ sched' # None => sched # None \/ armed
    BY <1>3 DEF Staging, BeginStaging, DecodeStaging, ScheduleCut, uiVars, seekVars,
       armVars, cutVars
  <2>2. QED
    BY <2>1, CutUnmoved
<1>4. QED
  BY <1>1, <1>2, <1>3 DEF Worker, Pass

LEMMA CutInvariant == Spec => []CutInv
<1>1. Init => CutInv
  BY DEF Init, CutInv, Numbers, ArmedIsLatest, QueuedIsLatest
<1>2. CutInv /\ [Next]_vars => CutInv'
  <2>1. CASE UNCHANGED vars
    BY <2>1, CutUnmoved DEF vars, uiVars, seekVars, armVars, cutVars
  <2>2. QED
    BY <2>1, CutOfGui, CutOfOutput, CutOfWorker DEF Next
<1>3. QED
  BY <1>1, <1>2, PTL DEF Spec

(* CutNeverOutrunsSeek for any number of commands, in any order.            *)
THEOREM CutsNeverOutrunSeeks == Spec => CutNeverOutrunsSeek
<1>1. CutInv /\ [Next]_vars => [Deciding => armCmd > lastSeek]_vars
  BY DEF Deciding, DecideCut, Fires, CutInv, ArmedIsLatest
<1>2. QED
  BY <1>1, CutInvariant, PTL DEF Spec, CutNeverOutrunsSeek
-----------------------------------------------------------------------------
(* A cut in flight.  As long as no staging fill has slipped in between a    *)
(* cut's swap and its disarming (raced), the cut and the staging fill take  *)
(* turns: a scheduled cut is armed, covered and for the armed target, and   *)
(* nobody stages while it is pending or firing; ...                         *)
Scheduled ==
  sched # None =>
    /\ armed /\ covers /\ sched = armTarget
    /\ worker \notin {"stage", "decode", "schedule"}
    /\ firing # "disarm"

Firing ==
  /\ firing # "no" => armed
  /\ firing \in {"swap", "rebase"} =>
       sched # None /\ cutTo \in sched..AtMostLast(sched + MaxOvershoot)

StagesForTheArmed ==
  /\ worker \in {"stage", "decode", "schedule"} => armed /\ sched = None /\ firing = "no"
  /\ worker \in {"stage", "decode"} => ~covers
  /\ worker = "decode" => staging = armTarget /\ ~fresh
  /\ armed /\ firing # "disarm" => armTarget # None

(* ... and the staging cache holds, without a gap, whatever the pre-roll    *)
(* demuxer read since it was moved to the armed target, which is the whole  *)
(* span once the target counts as covered.  From the swap on the cache is   *)
(* the other one: the frames a late cut can land on are live.               *)
StagedIsWhole ==
  armed /\ ~fresh /\ firing \in {"no", "swap"} =>
    /\ AtLeast0(armTarget - Trail) =< prerollRd
    /\ AtLeast0(armTarget - Trail)..(prerollRd - 1) \subseteq staged

CoveredIsStaged ==
  armed /\ covers /\ firing \in {"no", "swap"} =>
    ~fresh /\ AtMostLast(armTarget + Span) < prerollRd

PromotedIsLive ==
  MaxOvershoot =< Span /\ firing = "rebase" => cutTo \in live

Turns ==
  /\ Scheduled /\ Firing /\ StagesForTheArmed
  /\ StagedIsWhole /\ CoveredIsStaged /\ PromotedIsLive

TakeTurns == ~raced => Turns

turnVars == <<armed, armTarget, fresh, covers, sched, firing, cutTo, prerollRd, staged, staging>>
InStaging == {"stage", "decode", "schedule"}

LEMMA TurnsUnmoved ==
  ASSUME Turns, UNCHANGED turnVars,
         firing # "no" => live' = live,
         worker' # worker => worker \notin InStaging /\ worker' \notin InStaging
  PROVE  Turns'
<1>1. Scheduled' /\ Firing' /\ StagedIsWhole' /\ CoveredIsStaged'
  BY DEF Turns, turnVars, InStaging, Scheduled, Firing, StagedIsWhole, CoveredIsStaged
<1>2. StagesForTheArmed'
  BY DEF Turns, turnVars, InStaging, StagesForTheArmed
<1>3. PromotedIsLive'
  BY DEF Turns, turnVars, PromotedIsLive
<1>4. QED
  BY <1>1, <1>2, <1>3 DEF Turns

(* Two runs of frames that meet are one.                                    *)
LEMMA RunsJoin ==
  ASSUME NEW S, NEW T, NEW a \in Int, NEW m \in Int, NEW n \in Int,
         a..(m - 1) \subseteq S, m..(n - 1) \subseteq T
  PROVE  a..(n - 1) \subseteq S \cup T
<1>1. ASSUME NEW f \in a..(n - 1)
      PROVE  f \in S \cup T
  <2>1. f \in a..(m - 1) \/ f \in m..(n - 1)
    OBVIOUS
  <2>2. QED
    BY <2>1
<1>2. QED
  BY <1>1

(* What a cut about to swap finds in the staging cache.                     *)
LEMMA FiringIsStaged ==
  ASSUME Typed, Turns, firing = "swap"
  PROVE  sched \in staged /\ (MaxOvershoot =< Span => cutTo \in staged)
<1> DEFINE first == AtLeast0(armTarget - Trail)
<1>1. /\ sched # None /\ armed /\ covers /\ sched = armTarget
      /\ cutTo \in sched..AtMostLast(sched + MaxOvershoot)
  BY DEF Turns, Scheduled, Firing
<1>2. /\ ~fresh /\ AtMostLast(armTarget + Span) < prerollRd
      /\ first..(prerollRd - 1) \subseteq staged
  BY <1>1 DEF Turns, StagedIsWhole, CoveredIsStaged
<1>3. /\ sched \in 0..Last /\ prerollRd \in Int /\ cutTo \in Int /\ Last \in Nat /\ Span \in Nat
      /\ Trail \in Nat /\ MaxOvershoot \in Nat
  BY <1>1, PlaybackAssumption DEF Typed, ArmTyped, StageTyped, FireTyped, Positions
<1>4. first \in Int /\ first =< sched
  BY <1>1, <1>3 DEF AtLeast0
<1> HIDE DEF first
<1>5. sched =< AtMostLast(sched + Span)
  BY <1>3 DEF AtMostLast
<1>6. AtMostLast(sched + Span) \in Int /\ AtMostLast(sched + MaxOvershoot) \in Int
  BY <1>3 DEF AtMostLast
<1>7. sched \in first..(prerollRd - 1)
  BY <1>1, <1>2, <1>3, <1>4, <1>5, <1>6
<1>8. ASSUME MaxOvershoot =< Span
      PROVE  cutTo \in first..(prerollRd - 1)
  <2>1. AtMostLast(sched + MaxOvershoot) =< AtMostLast(sched + Span)
    BY <1>3, <1>8 DEF AtMostLast
  <2>2. QED
    BY <1>1, <1>2, <1>3, <1>4, <1>6, <2>1
<1>9. QED
  BY <1>2, <1>7, <1>8

(* A recall is armed at once, or by the worker's re-arm.                    *)
LEMMA TurnsOfArming ==
  ASSUME Turns, ~armed, armed', fresh', ~covers', sched' = None, armTarget' # None,
         firing' = firing, cutTo' = cutTo,
         worker' \in InStaging => worker' = "stage"
  PROVE  Turns'
<1>1. firing = "no"
  BY DEF Turns, Firing
<1>2. QED
  BY <1>1 DEF Turns, InStaging, Scheduled, Firing, StagesForTheArmed, StagedIsWhole,
    CoveredIsStaged, PromotedIsLive

LEMMA TurnsOfGui == ASSUME Typed, Turns, Gui PROVE Turns'
<1>1. CASE Tick \/ PlayPause \/ (\E t \in Targets : SeekTransport(t)) \/ SeekTo
  <2>1. UNCHANGED turnVars /\ live' = live /\ worker' = worker
    BY <1>1 DEF Tick, PlayPause, SeekTransport, SeekTo, turnVars, armVars, cutVars, stageVars, fireVars
  <2>2. QED
    BY <2>1, TurnsUnmoved
<1>2. CASE \E t \in Targets : Recall(t)
  <2>1. PICK t \in Targets : Recall(t)
    BY <1>2
  <2>2. t # None /\ UNCHANGED <<firing, cutTo, prerollRd, staged, staging, live, worker>>
    BY <2>1, PlaybackAssumption DEF Recall, stageVars, fireVars
  <2>3. CASE armed
    <3>1. UNCHANGED turnVars
      BY <2>1, <2>2, <2>3 DEF Recall, armVars, turnVars
    <3>2. QED
      BY <2>2, <3>1, TurnsUnmoved
  <2>4. CASE ~armed
    <3>1. worker \notin InStaging
      BY <2>4 DEF Turns, StagesForTheArmed, InStaging
    <3>2. armed' /\ fresh' /\ ~covers' /\ sched' = None /\ armTarget' = t
      BY <2>1, <2>4 DEF Recall, ArmCut
    <3>3. QED
      BY <2>2, <2>4, <3>1, <3>2, TurnsOfArming
  <2>5. QED
    BY <2>3, <2>4
<1>3. QED
  BY <1>1, <1>2 DEF Gui

LEMMA TurnsOfOutput == ASSUME Typed, Turns, Output PROVE Turns'
<1>1. CASE AbortCut
  <2>1. /\ sched # None /\ sched' = None /\ ~covers' /\ ~fresh' /\ firing' = "disarm"
        /\ armed' = armed /\ worker' = worker
    BY <1>1 DEF AbortCut
  <2>2. armed /\ worker \notin InStaging
    BY <2>1 DEF Turns, Scheduled, InStaging
  <2>3. QED
    BY <2>1, <2>2 DEF Turns, InStaging, Scheduled, Firing, StagesForTheArmed, StagedIsWhole,
      CoveredIsStaged, PromotedIsLive
<1>2. CASE \E late \in 0..MaxOvershoot : DecideCut(late)
  <2>1. PICK late \in 0..MaxOvershoot : DecideCut(late)
    BY <1>2
  <2>2. /\ sched # None /\ firing = "no" /\ firing' = "swap" /\ cutTo' = AtMostLast(sched + late)
        /\ UNCHANGED <<armed, armTarget, fresh, covers, sched, prerollRd, staged, staging, worker>>
    BY <2>1 DEF DecideCut, Fires, armVars, cutVars, stageVars
  <2>3. armed /\ worker \notin InStaging
    BY <2>2 DEF Turns, Scheduled, InStaging
  <2>4. cutTo' \in sched..AtMostLast(sched + MaxOvershoot)
    <3>1. sched \in 0..Last /\ Last \in Nat /\ MaxOvershoot \in Nat
      BY <2>2, PlaybackAssumption DEF Typed, ArmTyped, Positions
    <3>2. QED
      BY <2>2, <3>1 DEF AtMostLast
  <2>5. Scheduled' /\ StagesForTheArmed' /\ PromotedIsLive'
    BY <2>2, <2>3 DEF Turns, InStaging, Scheduled, StagesForTheArmed, PromotedIsLive
  <2>6. Firing'
    BY <2>2, <2>3, <2>4 DEF Firing
  <2>7. StagedIsWhole' /\ CoveredIsStaged'
    BY <2>2 DEF Turns, StagedIsWhole, CoveredIsStaged
  <2>8. QED
    BY <2>5, <2>6, <2>7 DEF Turns
<1>3. CASE SwapCaches
  <2>1. /\ firing = "swap" /\ firing' = "rebase" /\ live' = staged
        /\ UNCHANGED <<armed, armTarget, fresh, covers, sched, cutTo, prerollRd, staging, worker>>
    BY <1>3 DEF SwapCaches, armVars
  <2>2. Scheduled' /\ Firing' /\ StagesForTheArmed' /\ StagedIsWhole' /\ CoveredIsStaged'
    BY <2>1 DEF Turns, Scheduled, Firing, StagesForTheArmed, StagedIsWhole, CoveredIsStaged
  <2>3. ASSUME MaxOvershoot =< Span
        PROVE  cutTo \in staged
    BY <2>1, <2>3, FiringIsStaged
  <2>4. QED
    BY <2>1, <2>2, <2>3 DEF Turns, PromotedIsLive
<1>4. CASE Rebase
  <2>1. /\ firing = "rebase" /\ firing' = "disarm" /\ sched' = None /\ ~covers'
        /\ UNCHANGED <<armed, worker>>
    BY <1>4 DEF Rebase, armVars
  <2>2. armed /\ worker \notin InStaging
    BY <2>1 DEF Turns, Scheduled, Firing, InStaging
  <2>3. QED
    BY <2>1, <2>2 DEF Turns, InStaging, Scheduled, Firing, StagesForTheArmed, StagedIsWhole,
      CoveredIsStaged, PromotedIsLive
<1>5. CASE Disarm
  <2>1. firing = "disarm" /\ firing' = "no" /\ ~armed' /\ sched' = sched /\ worker' = worker
    BY <1>5 DEF Disarm, cutVars
  <2>2. sched = None /\ worker \notin InStaging
    BY <2>1 DEF Turns, Scheduled, StagesForTheArmed, InStaging
  <2>3. QED
    BY <2>1, <2>2 DEF Turns, InStaging, Scheduled, Firing, StagesForTheArmed, StagedIsWhole,
      CoveredIsStaged, PromotedIsLive
<1>6. QED
  BY <1>1, <1>2, <1>3, <1>4, <1>5 DEF Output

LEMMA TurnsOfWorker ==
  ASSUME Typed, Turns, Worker, ~raced'
  PROVE  Turns'
<1>1. CASE Schedule
  <2>1. UNCHANGED turnVars /\ live' = live /\ worker \notin InStaging /\ worker' \notin InStaging
    BY <1>1 DEF Schedule, Open, Sample, TakeSeek, FollowOrJump, Reposition, turnVars, InStaging,
      armVars, cutVars, stageVars, fireVars
  <2>2. QED
    BY <2>1, TurnsUnmoved
<1>2. CASE Repositioning \/ FillForward \/ FillBackward \/ Trim
  <2>1. UNCHANGED turnVars /\ firing = "no" /\ worker \notin InStaging /\ worker' \notin InStaging
    BY <1>2 DEF Repositioning, StartReposition, Refill, CommitReposition, FillForward, FillBackward,
      Trim, Unlocked, turnVars, InStaging, armVars, cutVars, stageVars, fireVars
  <2>2. QED
    BY <2>1, TurnsUnmoved
<1>3. CASE Rearm
  <2>1. /\ worker = "rearm" /\ worker' \in {"stage", "sample"}
        /\ worker' = "stage" => armed' /\ ~covers' /\ firing = "no"
        /\ UNCHANGED <<firing, cutTo, prerollRd, staged, staging, live>>
    BY <1>3 DEF Rearm, stageVars, fireVars
  <2>2. CASE ~armed /\ pend # NoPend /\ StillWanted
    <3>1. pend.target # None
      BY <2>2 DEF Typed, ArmTyped, Positions
    <3>2. armed' /\ fresh' /\ ~covers' /\ sched' = None /\ armTarget' = pend.target
      BY <1>3, <2>2 DEF Rearm, ArmCut
    <3>3. QED
      BY <2>1, <2>2, <3>1, <3>2, TurnsOfArming DEF InStaging
  <2>3. CASE ~(~armed /\ pend # NoPend /\ StillWanted)
    <3>1. UNCHANGED turnVars
      BY <1>3, <2>1, <2>3 DEF Rearm, turnVars, armVars
    <3>2. CASE worker' = "sample"
      BY <2>1, <3>1, <3>2, TurnsUnmoved DEF InStaging
    <3>3. CASE worker' = "stage"
      <4>1. armed /\ ~covers /\ firing = "no"
        BY <2>1, <3>1, <3>3 DEF turnVars
      <4>2. sched = None
        BY <4>1 DEF Turns, Scheduled
      <4>3. QED
        BY <2>1, <3>1, <3>3, <4>1, <4>2 DEF Turns, turnVars, InStaging, Scheduled, Firing,
          StagesForTheArmed, StagedIsWhole, CoveredIsStaged, PromotedIsLive
    <3>4. QED
      BY <2>1, <3>2, <3>3
  <2>4. QED
    BY <2>2, <2>3
<1>4. CASE BeginStaging
  <2>1. /\ worker = "stage"
        /\ UNCHANGED <<armed, armTarget, covers, sched, firing, cutTo, live>>
    BY <1>4 DEF BeginStaging, cutVars, fireVars
  <2>2. armed /\ sched = None /\ firing = "no" /\ ~covers /\ armTarget # None
    BY <2>1 DEF Turns, StagesForTheArmed
  <2>3. /\ worker' = "decode" /\ staging' = armTarget /\ ~fresh'
        /\ staged' = IF fresh THEN {} ELSE staged
        /\ prerollRd' = IF fresh THEN AtLeast0(armTarget - Trail) ELSE prerollRd
    BY <1>4, <2>2 DEF BeginStaging
  <2>4. Scheduled' /\ Firing' /\ StagesForTheArmed' /\ CoveredIsStaged' /\ PromotedIsLive'
    BY <2>1, <2>2, <2>3 DEF Scheduled, Firing, StagesForTheArmed, CoveredIsStaged, PromotedIsLive
  <2>5. StagedIsWhole'
    <3>1. CASE fresh
      <4>1. AtLeast0(armTarget - Trail) \in Int
        BY PlaybackAssumption DEF Typed, ArmTyped, Positions, AtLeast0
      <4>2. QED
        BY <2>1, <2>3, <3>1, <4>1 DEF StagedIsWhole
    <3>2. CASE ~fresh
      BY <2>1, <2>2, <2>3, <3>2 DEF Turns, StagedIsWhole
    <3>3. QED
      BY <3>1, <3>2
  <2>6. QED
    BY <2>4, <2>5 DEF Turns
<1>5. CASE DecodeStaging
  <2> DEFINE batch == StagedBatch(prerollRd, armTarget)
  <2>1. /\ worker = "decode" /\ worker' = "schedule"
        /\ UNCHANGED <<armed, armTarget, fresh, sched, firing, cutTo, live>>
    BY <1>5 DEF DecodeStaging, armVars, fireVars
  <2>2. /\ armed /\ sched = None /\ firing = "no" /\ ~covers /\ ~fresh
        /\ armTarget # None /\ staging = armTarget
    BY <2>1 DEF Turns, StagesForTheArmed
  <2>3. /\ staged' = staged \cup batch
        /\ prerollRd' = NewestPts(batch \cup {prerollRd - 1}) + 1
        /\ covers' => prerollRd' > armTarget + Span \/ prerollRd + Batch > Last + 1
    BY <1>5, <2>2 DEF DecodeStaging, StagedBatch, Covers
  <2>4. prerollRd \in 0..(Last + 1) /\ armTarget \in Positions
    BY <2>2 DEF Typed, StageTyped, ArmTyped
  <2>5. /\ prerollRd' \in prerollRd..(Last + 1)
        /\ prerollRd..(prerollRd' - 1) \subseteq batch
        /\ prerollRd + Batch > Last + 1 => prerollRd' > AtMostLast(armTarget + Span)
    BY <2>3, <2>4, BatchHasNoGaps
  <2> HIDE DEF batch
  <2>6. armTarget \in 0..Last /\ Last \in Nat /\ Span \in Nat /\ Trail \in Nat
    BY <2>4, PlaybackAssumption DEF Positions
  <2>7. Scheduled' /\ Firing' /\ StagesForTheArmed' /\ PromotedIsLive'
    BY <2>1, <2>2 DEF Scheduled, Firing, StagesForTheArmed, PromotedIsLive
  <2>8. CoveredIsStaged'
    <3>1. covers' => AtMostLast(armTarget + Span) < prerollRd'
      BY <2>3, <2>4, <2>5, <2>6 DEF AtMostLast
    <3>2. QED
      BY <2>1, <2>2, <3>1 DEF CoveredIsStaged
  <2>9. StagedIsWhole'
    <3> DEFINE first == AtLeast0(armTarget - Trail)
    <3>1. first \in Int
      BY <2>6 DEF AtLeast0
    <3>2. first =< prerollRd /\ first..(prerollRd - 1) \subseteq staged
      BY <2>2 DEF Turns, StagedIsWhole
    <3>3. first' = first
      BY <2>1 DEF AtLeast0
    <3> HIDE DEF first
    <3>4. first =< prerollRd' /\ first..(prerollRd' - 1) \subseteq staged'
      <4>1. prerollRd \in Int /\ prerollRd' \in Int /\ prerollRd =< prerollRd'
        BY <2>4, <2>5, <2>6
      <4>2. first..(prerollRd' - 1) \subseteq staged \cup batch
        BY <2>5, <3>1, <3>2, <4>1, RunsJoin
      <4>3. QED
        BY <2>3, <3>1, <3>2, <4>1, <4>2
    <3>5. QED
      BY <3>3, <3>4 DEF StagedIsWhole, first
  <2>10. QED
    BY <2>7, <2>8, <2>9 DEF Turns
<1>6. CASE ScheduleCut
  <2>1. /\ worker = "schedule" /\ worker' = "sample"
        /\ sched' = IF armed /\ covers /\ sched = None THEN armTarget ELSE sched
        /\ UNCHANGED <<armed, armTarget, fresh, covers, firing, cutTo, prerollRd, staged, live>>
    BY <1>6 DEF ScheduleCut, armVars, fireVars
  <2>2. armed /\ sched = None /\ firing = "no"
    BY <2>1 DEF Turns, StagesForTheArmed
  <2>3. Scheduled' /\ Firing' /\ StagesForTheArmed' /\ PromotedIsLive'
    BY <2>1, <2>2 DEF Turns, Scheduled, Firing, StagesForTheArmed, PromotedIsLive
  <2>4. StagedIsWhole' /\ CoveredIsStaged'
    BY <2>1 DEF Turns, StagedIsWhole, CoveredIsStaged
  <2>5. QED
    BY <2>3, <2>4 DEF Turns
<1>7. QED
  BY <1>1, <1>2, <1>3, <1>4, <1>5, <1>6 DEF Worker, Pass, Staging

LEMMA TakeTurnsInvariant == Spec => []TakeTurns
<1>1. Init => TakeTurns
  BY DEF Init, TakeTurns, Turns, Scheduled, Firing, StagesForTheArmed, StagedIsWhole,
    CoveredIsStaged, PromotedIsLive
<1>2. Typed /\ TakeTurns /\ [Next]_vars => TakeTurns'
  <2>1. SUFFICES ASSUME Typed, TakeTurns, [Next]_vars, ~raced'
                 PROVE  Turns'
    BY DEF TakeTurns
  <2>2. ~raced
    BY <2>1 DEF Next, Gui, Output, Worker, Schedule, Repositioning, Pass, Staging, vars,
      Tick, PlayPause, Recall, SeekTransport, SeekTo, AbortCut, DecideCut, SwapCaches,
      Rebase, Disarm, Open, Sample, TakeSeek, FollowOrJump, StartReposition, Refill,
      CommitReposition, FillForward, FillBackward, Trim, Rearm, BeginStaging, DecodeStaging,
      ScheduleCut
  <2>3. Turns
    BY <2>1, <2>2 DEF TakeTurns
  <2>4. CASE UNCHANGED vars
    <3>1. UNCHANGED turnVars /\ live' = live /\ worker' = worker
      BY <2>4 DEF vars, turnVars, armVars, cutVars, stageVars, fireVars
    <3>2. QED
      BY <2>3, <3>1, TurnsUnmoved
  <2>5. QED
    BY <2>1, <2>3, <2>4, TurnsOfGui, TurnsOfOutput, TurnsOfWorker DEF Next
<1>3. QED
  BY <1>1, <1>2, TypedInvariant, PTL DEF Spec

(* FiredCutIsCovered for every recording, staged span, batch and lateness.  *)
THEOREM FiredCutsAreCovered == Spec => FiredCutIsCovered
<1>1. Typed /\ TakeTurns /\ [Next]_vars => [SwapCaches /\ armed /\ ~raced => sched \in live']_vars
  <2>1. SUFFICES ASSUME Typed, Turns, SwapCaches
                 PROVE  sched \in live'
    BY DEF TakeTurns
  <2>2. firing = "swap" /\ live' = staged
    BY <2>1 DEF SwapCaches
  <2>3. QED
    BY <2>1, <2>2, FiringIsStaged
<1>2. QED
  BY <1>1, TypedInvariant, TakeTurnsInvariant, PTL DEF Spec, FiredCutIsCovered
-----------------------------------------------------------------------------
(* The reposition in progress keeps its promise unless a cut strayed: the   *)
(* target is live once the demuxer is past it, but for the moment between a *)
(* cut's swap and its re-base.                                              *)
RefillReads ==
  worker = "refill" => \A f \in bank : f < rd

TargetIsLive ==
  worker \in {"reuse", "refill"} /\ ~strayed /\ firing # "rebase" =>
    (worker = "reuse" \/ job.target < rd => job.target \in live)

RepositionInv ==
  /\ worker \in InReposition => job.target \in Positions
  /\ RefillReads /\ TargetIsLive

LEMMA RepositionUnmoved ==
  ASSUME RepositionInv, UNCHANGED <<bank, rd, live, strayed, firing, job, worker>>
  PROVE  RepositionInv'
  BY DEF RepositionInv, RefillReads, TargetIsLive, InReposition

LEMMA RepositionElsewhere ==
  ASSUME worker' \notin InReposition
  PROVE  RepositionInv'
  BY DEF RepositionInv, RefillReads, TargetIsLive, InReposition

LEMMA RepositionOfOutput ==
  ASSUME Typed, TakeTurns, RepositionInv, Output, MaxOvershoot =< Span
  PROVE  RepositionInv'
<1>1. UNCHANGED <<bank, rd, job, worker>>
  BY DEF Output, AbortCut, DecideCut, SwapCaches, Rebase, Disarm, bankVars
<1>2. (worker' \in InReposition => job'.target \in Positions) /\ RefillReads'
  BY <1>1 DEF RepositionInv, RefillReads
<1>3. CASE AbortCut \/ (\E late \in 0..MaxOvershoot : DecideCut(late)) \/ Disarm
  <2>1. firing # "rebase" /\ UNCHANGED <<live, strayed>>
    BY <1>3 DEF AbortCut, DecideCut, Disarm, Fires
  <2>2. TargetIsLive'
    BY <1>1, <2>1 DEF RepositionInv, TargetIsLive
  <2>3. QED
    BY <1>2, <2>2 DEF RepositionInv
<1>4. CASE SwapCaches
  <2>1. firing' = "rebase"
    BY <1>4 DEF SwapCaches
  <2>2. QED
    BY <1>2, <2>1 DEF RepositionInv, TargetIsLive
<1>5. CASE Rebase
  <2>1. SUFFICES ASSUME worker \in {"reuse", "refill"}, ~strayed'
                 PROVE  job.target \in live'
    BY <1>1, <1>2 DEF RepositionInv, TargetIsLive
  <2>2. firing = "rebase" /\ live' = live /\ ~raced /\ cutTo = job.target
    BY <1>5, <2>1 DEF Rebase
  <2>3. QED
    BY <2>2 DEF TakeTurns, Turns, PromotedIsLive
<1>6. QED
  BY <1>3, <1>4, <1>5 DEF Output

LEMMA RepositionOfWorker ==
  ASSUME Typed, RepositionInv, Worker
  PROVE  RepositionInv'
<1>1. CASE Schedule
  <2>1. worker' \notin {"reuse", "refill"}
    BY <1>1 DEF Schedule, Open, Sample, TakeSeek, FollowOrJump, Reposition
  <2>2. worker' = "reposition" => job'.target \in Positions
    <3>1. CASE TakeSeek
      BY <3>1 DEF TakeSeek, Reposition, Typed, SeekTyped
    <3>2. CASE FollowOrJump
      <4>1. now.pos \in Positions
        BY DEF Typed, WorkTyped
      <4>2. follow # None => follow \in Positions
        BY DEF Typed, ArmTyped
      <4>3. QED
        BY <3>2, <4>1, <4>2 DEF FollowOrJump, Reposition
    <3>3. CASE Open \/ Sample
      BY <3>3 DEF Open, Sample
    <3>4. QED
      BY <1>1, <3>1, <3>2, <3>3 DEF Schedule
  <2>3. QED
    BY <2>1, <2>2 DEF RepositionInv, RefillReads, TargetIsLive, InReposition
<1>2. CASE StartReposition
  <2>1. /\ worker = "reposition" /\ worker' \in {"reuse", "refill"} /\ job'.target = job.target
        /\ worker' = "reuse" => job.target \in live /\ live' = live
        /\ worker' = "refill" => bank' = {} /\ \E b \in {Lead, Trail} : rd' = AtLeast0(job.target - b)
    BY <1>2 DEF StartReposition, ReuseAt, Typed, WorkTyped
  <2>2. job.target \in 0..Last /\ Lead \in Nat /\ Trail \in Nat /\ Last \in Nat
    BY <2>1, PlaybackAssumption DEF RepositionInv, InReposition, Positions
  <2>3. worker' = "refill" => ~(job.target < rd')
    BY <2>1, <2>2 DEF AtLeast0
  <2>4. QED
    BY <2>1, <2>2, <2>3 DEF RepositionInv, RefillReads, TargetIsLive, Positions
<1>3. CASE Refill
  <2>1. /\ worker = "refill" /\ firing = "no" /\ ~(rd > Last)
        /\ bank' = bank \cup {rd} /\ live' = live \cup {rd} /\ rd' = rd + 1
        /\ UNCHANGED <<worker, job, strayed, firing>>
    BY <1>3 DEF Refill, Unlocked, Refilled, fireVars
  <2>2. rd \in Int /\ bank \subseteq Int /\ job.target \in Int
    BY <2>1, PlaybackAssumption DEF Typed, BankTyped, RepositionInv, InReposition, Positions
  <2>3. RefillReads'
    <3>1. \A f \in bank : f < rd
      BY <2>1 DEF RepositionInv, RefillReads
    <3>2. \A f \in bank' : f < rd'
      BY <2>1, <2>2, <3>1
    <3>3. QED
      BY <3>2 DEF RefillReads
  <2>4. TargetIsLive'
    <3>1. ~strayed /\ job.target < rd => job.target \in live
      BY <2>1 DEF RepositionInv, TargetIsLive
    <3>2. job.target < rd + 1 => job.target < rd \/ job.target = rd
      BY <2>2
    <3>3. QED
      BY <2>1, <3>1, <3>2 DEF TargetIsLive
  <2>5. QED
    BY <2>1, <2>3, <2>4 DEF RepositionInv
<1>4. CASE CommitReposition \/ Pass \/ Staging
  <2>1. worker' \notin InReposition
    BY <1>4 DEF CommitReposition, Pass, Staging, FillForward, FillBackward, Trim, Rearm,
      BeginStaging, DecodeStaging, ScheduleCut, InReposition
  <2>2. QED
    BY <2>1, RepositionElsewhere
<1>5. QED
  BY <1>1, <1>2, <1>3, <1>4 DEF Worker, Repositioning

LEMMA RepositionInvariant ==
  ASSUME MaxOvershoot =< Span
  PROVE  Spec => []RepositionInv
<1>1. Init => RepositionInv
  BY DEF Init, RepositionInv, RefillReads, TargetIsLive, InReposition
<1>2. Typed /\ TakeTurns /\ RepositionInv /\ [Next]_vars => RepositionInv'
  <2>1. SUFFICES ASSUME Typed, TakeTurns, RepositionInv, [Next]_vars
                 PROVE  RepositionInv'
    OBVIOUS
  <2>2. CASE UNCHANGED vars \/ Gui
    <3>1. UNCHANGED <<bank, rd, live, strayed, firing, job, worker>>
      BY <2>2 DEF vars, Gui, Tick, PlayPause, Recall, SeekTransport, SeekTo, bankVars, fireVars
    <3>2. QED
      BY <2>1, <3>1, RepositionUnmoved
  <2>3. QED
    BY <2>1, <2>2, RepositionOfOutput, RepositionOfWorker DEF Next
<1>3. QED
  BY <1>1, <1>2, TypedInvariant, TakeTurnsInvariant, PTL DEF Spec

(* CommittedSeekIsShown for every recording, provided that no output tick   *)
(* comes later than the staged span: playheadAfterCut() starts a late cut   *)
(* as far into its clip, and past the span nothing is staged.               *)
THEOREM CommittedSeeksAreShown ==
  ASSUME MaxOvershoot =< Span
  PROVE  Spec => CommittedSeekIsShown
<1>1. Typed /\ RepositionInv /\ [Next]_vars
        => [committedGen' # committedGen /\ ~strayed => job.target \in live']_vars
  <2>1. SUFFICES ASSUME Typed, RepositionInv, Next, committedGen' # committedGen, ~strayed
                 PROVE  job.target \in live'
    OBVIOUS
  <2>2. CommitReposition
    BY <2>1, OnlyCommits
  <2>3. /\ seekTarget = None /\ firing = "no" /\ worker \in {"reuse", "refill"}
        /\ worker = "reuse" => live' = live
        /\ worker = "refill" => Refilled /\ live' = TrimBefore(saved \cup live, job.target - Lead)
    BY <2>1, <2>2 DEF CommitReposition, MayCommit, CanCommit, Unlocked, ReusedLive
  <2>4. /\ job.target \in 0..Last /\ rd \in Int /\ Lead \in Nat /\ Last \in Int
        /\ \A f \in bank : f \in Int /\ f =< Last
    <3>1. job.target \in Positions
      BY <2>1, <2>3 DEF RepositionInv, InReposition
    <3>2. bank \subseteq Positions /\ rd \in 0..(Last + 1)
      BY <2>1 DEF Typed, BankTyped
    <3>3. QED
      BY <3>1, <3>2, PlaybackAssumption DEF Positions
  <2>5. CASE worker = "reuse"
    BY <2>1, <2>3, <2>5 DEF RepositionInv, TargetIsLive
  <2>6. CASE worker = "refill"
    <3>1. job.target < rd
      <4>1. CASE rd > Last
        BY <2>4, <4>1
      <4>2. CASE NewestPts(bank) >= job.target + 1
        <5>1. bank # {}
          BY <2>4, <4>2 DEF NewestPts
        <5>2. NewestPts(bank) \in bank
          <6>1. bank \subseteq Int
            BY <2>4
          <6>2. QED
            BY <2>4, <5>1, <6>1, NewestIsLast
        <5>3. NewestPts(bank) < rd /\ NewestPts(bank) \in Int
          BY <2>1, <2>4, <2>6, <5>2 DEF RepositionInv, RefillReads
        <5>4. QED
          BY <2>4, <4>2, <5>3
      <4>3. QED
        BY <2>3, <2>6, <4>1, <4>2 DEF Refilled
    <3>2. job.target \in live
      BY <2>1, <2>3, <2>6, <3>1 DEF RepositionInv, TargetIsLive
    <3>3. ~(job.target < job.target - Lead)
      BY <2>4
    <3>4. QED
      BY <2>3, <2>6, <3>2, <3>3 DEF TrimBefore
  <2>7. QED
    BY <2>3, <2>5, <2>6
<1>2. QED
  BY <1>1, TypedInvariant, RepositionInvariant, PTL DEF Spec, CommittedSeekIsShown
=============================================================================
