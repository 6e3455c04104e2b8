---------------------------- MODULE OutputProofs ----------------------------
(***************************************************************************)
(* TLAPS proofs about the output stack.  About OutputTarget, for any queue *)
(* capacity, any length of the list of drops, any payloads and any number  *)
(* of ticks and edits: the newest frame survives every overflow, a gap of  *)
(* the delivery is reported for the right cause, and an edit of the        *)
(* outputs is never lost.  About OutputClock, further down: no deadline    *)
(* miss is hidden, and a fresh clock is where the transport is.            *)
(***************************************************************************)
EXTENDS OutputTarget, OutputClock, FiniteSetTheorems, SequenceTheorems, WellFoundedInduction, TLAPS

(* The type of every variable, and the two bounds of the sink: its queue    *)
(* and its list of drops never grow beyond them.                            *)
Busy == thread \in {"sending", "accepted", "refused"}

TypeOK ==
  /\ requested \in BOOLEAN /\ requests \in 0 .. MaxRequests
  /\ dirty \in BOOLEAN /\ overtaken \in BOOLEAN
  /\ rebuild \in {"idle", "stop", "joining", "start", "clear"}
  /\ taken \in BOOLEAN /\ applied \in BOOLEAN
  /\ nextIndex \in 0 .. LastIndex /\ lastIdentity \in Payloads \cup {NoPayload}
  /\ active \in BOOLEAN /\ stopRequested \in BOOLEAN
  /\ queue \in Seq(Frames) /\ Len(queue) <= Capacity
  /\ dropped \in Seq(Indexes) /\ Len(dropped) <= MaxTracked
  /\ lastDelivered \in Indexes \cup {NoIndex}
  /\ deliveryGap \in BOOLEAN /\ lastResult \in BOOLEAN
  /\ thread \in {"none", "check", "asleep", "sending", "accepted", "refused"}
  /\ inHand \in IF Busy THEN Frames ELSE {NoFrame}
  /\ shown \in Payloads \cup {NoPayload}
  /\ fate \in [Indexes -> Fates]

(* The operator's part: while a rebuild is under way the flag is up, and    *)
(* what it works from is what was asked for unless that changed since.      *)
Rebuilding ==
  /\ rebuild # "idle" => dirty
  /\ rebuild # "idle" /\ ~overtaken => taken = requested
  /\ rebuild = "clear" => applied = taken
  /\ LatestTargetsApplied

(* The life of the sink: its thread outlives m_active only while stop()     *)
(* waits for it, and it sleeps only over an empty queue.                    *)
Phases ==
  /\ rebuild \in {"joining", "start"} => ~active
  /\ rebuild = "start" => thread = "none"
  /\ active => thread # "none" /\ ~stopRequested
  /\ thread # "none" => active \/ rebuild = "joining"
  /\ ~active => queue = <<>>
  /\ thread = "asleep" => queue = <<>>

(* The last frame submitted is the last one queued, or the one in hand, or  *)
(* the one the sender shows: overflow never takes it.                       *)
NewestIsAhead ==
  active =>
    /\ queue # <<>> => queue[Len(queue)].payload = lastIdentity
    /\ queue = <<>> /\ Busy => inHand.payload = lastIdentity
    /\ thread = "accepted" => shown = inHand.payload
    /\ queue = <<>> /\ ~Busy /\ lastResult /\ lastDelivered # NoIndex => shown = lastIdentity

(* Indexes grow from the delivered frame to the one in hand, to the queue,  *)
(* to the next tick; the remembered drops lie between the delivered frame   *)
(* and the queue.                                                           *)
InOrder ==
  /\ lastDelivered < nextIndex
  /\ Busy => lastDelivered < inHand.index /\ inHand.index < nextIndex
  /\ \A k \in 1 .. Len(queue) :
       /\ lastDelivered < queue[k].index /\ queue[k].index < nextIndex
       /\ Busy => inHand.index < queue[k].index
       /\ \A d \in 1 .. Len(dropped) : dropped[d] < queue[k].index
       /\ \A j \in 1 .. k - 1 : queue[j].index < queue[k].index
  /\ \A d \in 1 .. Len(dropped) :
       /\ lastDelivered < dropped[d] /\ dropped[d] < nextIndex
       /\ \A c \in 1 .. d - 1 : dropped[c] < dropped[d]

(* The ledger agrees with the sink: what is queued, in hand, delivered and  *)
(* remembered as dropped is exactly what it says.                           *)
FateIsTrue(i) ==
  /\ fate[i] = "queued" <=> \E k \in 1 .. Len(queue) : queue[k].index = i
  /\ fate[i] = "sending" <=> Busy /\ inHand.index = i
  /\ fate[i] = "dropped" /\ i > lastDelivered
       <=> \E d \in 1 .. Len(dropped) : dropped[d] = i
  /\ fate[i] = "delivered" => i <= lastDelivered
  /\ i = lastDelivered => fate[i] = "delivered"
  /\ fate[i] = "discarded" => ~active /\ (Busy => inHand.index < i)
  /\ nextIndex <= i => fate[i] = "none"

LedgerIsTrue == \A i \in Indexes : FateIsTrue(i)

(* While the sink runs, no tick goes past it: after the first index that    *)
(* met a fate every one did.                                                *)
NoHoles ==
  thread # "none" =>
    \A i, j \in Indexes : j < i /\ i < nextIndex /\ fate[j] # "none" => fate[i] # "none"

(* The verdict on the last gap is right, and there is none before the first *)
(* delivered frame.                                                         *)
Verdict == GapsAreJudgedRightly /\ (lastDelivered = NoIndex => ~deliveryGap)

IInv ==
  /\ TypeOK /\ Rebuilding /\ Phases /\ NewestIsAhead /\ InOrder /\ LedgerIsTrue /\ NoHoles /\ Verdict
-----------------------------------------------------------------------------
(* What the library says of sequences, in the form the steps need it.       *)
LEMMA TailFacts ==
  ASSUME NEW S, NEW s \in Seq(S), s # <<>>
  PROVE  /\ Len(s) \in Nat \ {0} /\ s[1] \in S
         /\ Tail(s) \in Seq(S) /\ Len(Tail(s)) = Len(s) - 1
         /\ \A k \in 1 .. Len(s) - 1 : Tail(s)[k] = s[k + 1]
<1>1. Len(s) \in Nat /\ Len(s) # 0
  BY EmptySeq, LenProperties
<1>2. s[1] \in S
  BY <1>1, ElementOfSeq
<1> QED
  BY <1>1, <1>2, HeadTailProperties

LEMMA AppendFacts ==
  ASSUME NEW S, NEW s \in Seq(S), NEW e \in S
  PROVE  /\ Len(s) \in Nat
         /\ Append(s, e) \in Seq(S) /\ Append(s, e) # <<>>
         /\ Len(Append(s, e)) = Len(s) + 1
         /\ \A k \in 1 .. Len(s) : Append(s, e)[k] = s[k]
         /\ Append(s, e)[Len(s) + 1] = e
BY AppendProperties, LenProperties

LEMMA LeastElement ==
  ASSUME NEW S, S \subseteq Nat, S # {}
  PROVE  \E m \in S : \A n \in S : m <= n
<1>1. PICK m \in S : \A n \in S : ~(<<n, m>> \in OpToRel(<, Nat))
  BY NatLessThanWellFounded, WFMin
<1>2. \A n \in S : ~(n < m)
  BY <1>1 DEF OpToRel
<1> QED
  BY <1>2

-----------------------------------------------------------------------------
LEMMA InitInv == Init => IInv
<1> SUFFICES ASSUME Init PROVE IInv
  OBVIOUS
<1> USE DEF Init, Busy
<1>1. TypeOK
  <2>1. /\ <<>> \in Seq(Frames) /\ <<>> \in Seq(Indexes) /\ Len(<<>>) = 0
    BY EmptySeq
  <2>2. 0 \in 0 .. MaxRequests /\ 0 \in 0 .. LastIndex /\ 0 <= Capacity /\ 0 <= MaxTracked
    BY BoundsAssumption
  <2>3. Untouched \in [Indexes -> Fates]
    BY DEF Fates, Untouched
  <2> QED BY <2>1, <2>2, <2>3 DEF TypeOK
<1>2. Rebuilding
  BY DEF Rebuilding, LatestTargetsApplied
<1>3. Phases
  BY DEF Phases
<1>4. NewestIsAhead
  BY DEF NewestIsAhead
<1>5. InOrder
  BY EmptySeq DEF InOrder, NoIndex
<1>6. LedgerIsTrue
  BY EmptySeq DEF LedgerIsTrue, FateIsTrue, Indexes, NoIndex, Untouched
<1>7. NoHoles
  BY DEF NoHoles
<1>8. Verdict
  BY DEF Verdict, GapsAreJudgedRightly, RefusalIsReported, BackpressureIsNoError,
         LostInGap, Indexes, NoIndex
<1> QED
  BY <1>1, <1>2, <1>3, <1>4, <1>5, <1>6, <1>7, <1>8 DEF IInv

(* The verdict depends on the fates up to the delivered frame only, and     *)
(* these do not change until the next frame is delivered.                   *)
LEMMA VerdictKept ==
  ASSUME IInv, UNCHANGED <<lastDelivered, deliveryGap>>,
         \A i \in Indexes : i <= lastDelivered => fate'[i] = fate[i]
  PROVE  Verdict'
<1>1. LastIndex \in Nat /\ lastDelivered \in Int /\ lastDelivered < LastIndex
  BY BoundsAssumption DEF IInv, TypeOK, Indexes, NoIndex
<1>2. ASSUME NEW i \in Indexes, i < lastDelivered PROVE Between(i)' <=> Between(i)
  <2>1. \A j \in Indexes : j < i => fate'[j] = fate[j]
    BY <1>1, <1>2 DEF Indexes
  <2>2. \A j \in Indexes : \A k \in j + 1 .. lastDelivered - 1 : fate'[k] = fate[k]
    BY <1>1 DEF Indexes
  <2> QED BY <2>1, <2>2 DEF Between
<1>3. ASSUME NEW K PROVE LostInGap(K)' <=> LostInGap(K)
  <2>1. \A i \in Indexes : i < lastDelivered => fate'[i] = fate[i] /\ (Between(i)' <=> Between(i))
    BY <1>1, <1>2 DEF Indexes
  <2> QED BY <2>1 DEF LostInGap
<1>4. /\ LostInGap({"refused"})' <=> LostInGap({"refused"})
      /\ LostInGap({"refused", "skipped", "forgotten"})'
           <=> LostInGap({"refused", "skipped", "forgotten"})
  BY <1>3
<1> QED
  BY <1>4 DEF IInv, Verdict, GapsAreJudgedRightly, RefusalIsReported, BackpressureIsNoError

LEMMA NoHolesKept ==
  ASSUME NoHoles, nextIndex' = nextIndex, thread' # "none" => thread # "none",
         \A i \in Indexes : fate'[i] = "none" <=> fate[i] = "none"
  PROVE  NoHoles'
BY DEF NoHoles

(* The numbers the invariant speaks of are numbers.                         *)
LEMMA Numbers ==
  ASSUME TypeOK
  PROVE  /\ LastIndex \in Nat /\ nextIndex \in Nat /\ lastDelivered \in Int
         /\ lastDelivered >= -1 /\ lastDelivered < LastIndex
         /\ lastDelivered # NoIndex => lastDelivered \in Indexes
         /\ Capacity \in Nat \ {0} /\ MaxTracked \in Nat \ {0}
         /\ Len(queue) \in Nat /\ Len(dropped) \in Nat
         /\ \A k \in 1 .. Len(queue) : queue[k] \in Frames /\ queue[k].index \in Indexes
                                       /\ queue[k].index \in Nat
         /\ \A d \in 1 .. Len(dropped) : dropped[d] \in Indexes /\ dropped[d] \in Nat
         /\ Busy => inHand.index \in Indexes /\ inHand.index \in Nat /\ inHand.payload \in Payloads
<1>1. LastIndex \in Nat /\ Indexes \subseteq Nat /\ \A i \in Indexes : i < LastIndex
  BY BoundsAssumption DEF Indexes
<1>2. /\ nextIndex \in Nat /\ lastDelivered \in Int
      /\ lastDelivered >= -1 /\ lastDelivered < LastIndex
      /\ lastDelivered # NoIndex => lastDelivered \in Indexes
  BY <1>1 DEF TypeOK, NoIndex
<1>3. Len(queue) \in Nat /\ \A k \in 1 .. Len(queue) : queue[k] \in Frames
  BY LenProperties, ElementOfSeq DEF TypeOK
<1>4. Len(dropped) \in Nat /\ \A d \in 1 .. Len(dropped) : dropped[d] \in Indexes
  BY LenProperties, ElementOfSeq DEF TypeOK
<1>5. \A f \in Frames : f.index \in Indexes /\ f.payload \in Payloads
  BY DEF Frames
<1>6. Busy => inHand \in Frames
  BY DEF TypeOK
<1> QED
  BY <1>1, <1>2, <1>3, <1>4, <1>5, <1>6, BoundsAssumption

(* A step that leaves the sink alone; what the sender shows may change when *)
(* the sink is stopped.                                                     *)
LEMMA SinkLeftAlone ==
  ASSUME IInv, active => shown' = shown,
         UNCHANGED <<dispatchVars, queueVars, switchVars, statusVars, threadVars, fate>>
  PROVE  NewestIsAhead' /\ InOrder' /\ LedgerIsTrue' /\ NoHoles' /\ Verdict'
<1> USE DEF dispatchVars, queueVars, switchVars, statusVars, threadVars
<1>1. NewestIsAhead'
  BY DEF IInv, NewestIsAhead, Busy
<1>2. InOrder'
  BY DEF IInv, InOrder, Busy
<1>3. LedgerIsTrue'
  BY DEF IInv, LedgerIsTrue, FateIsTrue, Busy
<1>4. NoHoles'
  BY NoHolesKept DEF IInv
<1>5. Verdict'
  BY VerdictKept
<1> QED
  BY <1>1, <1>2, <1>3, <1>4, <1>5

LEMMA SetTargetsInv == ASSUME IInv, SetExternalOutputTargets PROVE IInv'
<1> USE DEF SetExternalOutputTargets, IInv, dispatchVars, queueVars, switchVars, statusVars,
            threadVars, ledgerVars, Busy
<1>1. TypeOK'
  <2>1. requests + 1 \in 0 .. MaxRequests
    BY BoundsAssumption DEF TypeOK
  <2> QED BY <2>1 DEF TypeOK
<1>2. Rebuilding'
  BY DEF TypeOK, Rebuilding, LatestTargetsApplied
<1>3. Phases'
  BY DEF Phases
<1> QED
  BY <1>1, <1>2, <1>3, SinkLeftAlone

LEMMA ReadAssignmentsInv == ASSUME IInv, ReadAssignments PROVE IInv'
<1> USE DEF ReadAssignments, IInv, operatorVars, dispatchVars, queueVars, switchVars,
            statusVars, threadVars, ledgerVars, Busy
<1>1. TypeOK'
  <2>1. dirty' \in BOOLEAN /\ taken' \in BOOLEAN /\ overtaken' \in BOOLEAN
        /\ rebuild' \in {"idle", "stop", "joining", "start", "clear"}
    BY DEF TypeOK
  <2>2. inHand' \in IF Busy' THEN Frames ELSE {NoFrame}
    BY DEF TypeOK
  <2> QED BY <2>1, <2>2 DEF TypeOK
<1>2. Rebuilding'
  <2>1. dirty' /\ taken' = requested' /\ rebuild' # "clear"
    OBVIOUS
  <2> QED BY <2>1 DEF Rebuilding, LatestTargetsApplied
<1>3. Phases'
  BY DEF Phases
<1> QED
  BY <1>1, <1>2, <1>3, SinkLeftAlone

LEMMA JoinSinkInv == ASSUME IInv, JoinSink PROVE IInv'
<1> USE DEF JoinSink, IInv, operatorVars, dispatchVars, queueVars, switchVars,
            statusVars, threadVars, Busy
<1>1. TypeOK'
  BY DEF TypeOK
<1>2. Rebuilding'
  BY DEF TypeOK, Rebuilding, LatestTargetsApplied
<1>3. Phases'
  BY DEF Phases
<1>4. ~active
  BY DEF Phases
<1> QED
  BY <1>1, <1>2, <1>3, <1>4, SinkLeftAlone

LEMMA ClearDirtyInv == ASSUME IInv, ClearDirty PROVE IInv'
<1> USE DEF ClearDirty, IInv, operatorVars, dispatchVars, queueVars, switchVars,
            statusVars, threadVars, ledgerVars, Busy
<1>1. TypeOK'
  <2>1. dirty' \in BOOLEAN /\ rebuild' \in {"idle", "stop", "joining", "start", "clear"}
    OBVIOUS
  <2>2. inHand' \in IF Busy' THEN Frames ELSE {NoFrame}
    BY DEF TypeOK
  <2> QED BY <2>1, <2>2 DEF TypeOK
<1>2. Rebuilding'
  BY DEF TypeOK, Rebuilding, LatestTargetsApplied
<1>3. Phases'
  BY DEF Phases
<1> QED
  BY <1>1, <1>2, <1>3, SinkLeftAlone

(* stop(): what was queued is discarded, the thread is woken.               *)
LEMMA StopSinkInv == ASSUME IInv, StopSink PROVE IInv'
<1> USE DEF StopSink, IInv, operatorVars, dispatchVars, statusVars, WakeSink, Busy
<1>0. Busy' <=> Busy
  BY DEF TypeOK
<1>1. TypeOK'
  <2>1. <<>> \in Seq(Frames) /\ Len(<<>>) = 0 /\ 0 <= Capacity
    BY EmptySeq, BoundsAssumption
  <2>2. Discarded \in [Indexes -> Fates]
    BY DEF Discarded, TypeOK, Fates
  <2>3. inHand' \in IF Busy' THEN Frames ELSE {NoFrame}
    BY <1>0 DEF TypeOK
  <2>4. thread' \in {"none", "check", "asleep", "sending", "accepted", "refused"}
    BY DEF TypeOK
  <2>5. queue' \in Seq(Frames) /\ Len(queue') <= Capacity /\ fate' \in [Indexes -> Fates]
    BY <2>1, <2>2
  <2>6. active' \in BOOLEAN /\ stopRequested' \in BOOLEAN
        /\ rebuild' \in {"idle", "stop", "joining", "start", "clear"}
    BY DEF TypeOK
  <2> QED BY <2>3, <2>4, <2>5, <2>6 DEF TypeOK
<1>2. Rebuilding'
  BY DEF TypeOK, Rebuilding, LatestTargetsApplied
<1>3. Phases'
  BY DEF Phases
<1>4. NewestIsAhead'
  BY DEF NewestIsAhead
<1>5. InOrder'
  BY EmptySeq, Numbers DEF InOrder
<1>6. LedgerIsTrue'
  <2> SUFFICES ASSUME NEW i \in Indexes
               PROVE  FateIsTrue(i)'
    BY DEF LedgerIsTrue
  <2>1. queue' = <<>> /\ Len(queue') = 0 /\ ~active'
    BY EmptySeq
  <2>2. fate'[i] = IF fate[i] = "queued" THEN "discarded" ELSE fate[i]
    BY DEF Discarded
  <2>3. ASSUME fate[i] = "queued"
        PROVE  lastDelivered < i /\ i < nextIndex /\ (Busy => inHand.index < i)
    BY <2>3, Numbers DEF LedgerIsTrue, FateIsTrue, InOrder
  <2>4. thread' # "none" => thread # "none"
    BY DEF TypeOK
  <2> QED
    BY <1>0, <2>1, <2>2, <2>3, <2>4, Numbers DEF LedgerIsTrue, FateIsTrue
<1>7. NoHoles'
  <2>1. \A i \in Indexes : fate'[i] = "none" <=> fate[i] = "none"
    BY DEF Discarded
  <2>2. thread' # "none" => thread # "none"
    BY DEF TypeOK
  <2> QED BY <2>1, <2>2, NoHolesKept
<1>8. Verdict'
  <2>1. ASSUME NEW i \in Indexes, i <= lastDelivered PROVE fate[i] # "queued"
    <3>1. i \in Int /\ FateIsTrue(i)
      BY DEF LedgerIsTrue, Indexes
    <3> QED BY <2>1, <3>1, Numbers DEF FateIsTrue, InOrder
  <2> QED BY <2>1, VerdictKept DEF Discarded
<1> QED
  BY <1>1, <1>2, <1>3, <1>4, <1>5, <1>6, <1>7, <1>8

(* start(): everything about the sink begins anew.                          *)
LEMMA StartSinkInv == ASSUME IInv, NEW ok \in BOOLEAN, StartSink(ok) PROVE IInv'
<1> USE DEF StartSink, IInv, operatorVars, dispatchVars, Busy
<1>0. /\ queue' = <<>> /\ dropped' = <<>> /\ Len(queue') = 0 /\ Len(dropped') = 0
      /\ lastDelivered' = NoIndex /\ ~deliveryGap' /\ fate' = Untouched
      /\ inHand' = inHand /\ nextIndex' = nextIndex
      /\ thread = "none" /\ ~Busy /\ ~Busy'
  BY EmptySeq DEF Phases, switchVars
<1>1. TypeOK'
  <2>1. <<>> \in Seq(Frames) /\ <<>> \in Seq(Indexes) /\ Len(<<>>) = 0
        /\ 0 <= Capacity /\ 0 <= MaxTracked
    BY EmptySeq, BoundsAssumption
  <2>2. Untouched \in [Indexes -> Fates]
    BY DEF Untouched, Fates
  <2>3. inHand' = NoFrame
    BY <1>0 DEF TypeOK
  <2>4. active' \in BOOLEAN /\ stopRequested' \in BOOLEAN /\ thread' \in {"none", "check"}
    <3>1. CASE taken /\ ok
      BY <3>1
    <3>2. CASE ~(taken /\ ok)
      <4>1. UNCHANGED <<active, stopRequested, thread>>
        BY <3>2 DEF switchVars
      <4> QED BY <1>0, <4>1 DEF TypeOK
    <3> QED BY <3>1, <3>2
  <2>5. rebuild' \in {"idle", "stop", "joining", "start", "clear"} /\ applied' \in BOOLEAN
        /\ lastDelivered' \in Indexes \cup {NoIndex}
    BY DEF TypeOK
  <2>6. deliveryGap' \in BOOLEAN /\ lastResult' \in BOOLEAN
    OBVIOUS
  <2> QED BY <1>0, <2>1, <2>2, <2>3, <2>4, <2>5, <2>6 DEF TypeOK
<1>2. Rebuilding'
  BY DEF TypeOK, Rebuilding, LatestTargetsApplied
<1>3. Phases'
  BY <1>0 DEF Phases, switchVars
<1>4. NewestIsAhead'
  BY <1>0 DEF NewestIsAhead
<1>5. InOrder'
  BY <1>0, Numbers DEF InOrder, NoIndex
<1>6. LedgerIsTrue'
  BY <1>0, Numbers DEF LedgerIsTrue, FateIsTrue, Untouched, NoIndex, Indexes
<1>7. NoHoles'
  BY <1>0 DEF NoHoles, Untouched
<1>8. Verdict'
  BY <1>0, Numbers DEF Verdict, GapsAreJudgedRightly, RefusalIsReported, BackpressureIsNoError,
         LostInGap, Indexes, NoIndex
<1> QED
  BY <1>1, <1>2, <1>3, <1>4, <1>5, <1>6, <1>7, <1>8

(* What a step of the dispatcher or of the thread of the sink leaves to the *)
(* rebuild.                                                                 *)
LEMMA RebuildLeftAlone ==
  ASSUME Rebuilding, UNCHANGED <<operatorVars, overtaken, rebuildVars>>
  PROVE  Rebuilding'
BY DEF Rebuilding, LatestTargetsApplied, operatorVars, rebuildVars

(* InnerSubmit: the sender takes the frame or refuses it.                   *)
LEMMA InnerSubmitInv == ASSUME IInv, NEW ok \in BOOLEAN, InnerSubmit(ok) PROVE IInv'
<1> USE DEF InnerSubmit, IInv, operatorVars, rebuildVars, dispatchVars, queueVars, switchVars,
            statusVars
<1>0. Busy /\ Busy' /\ thread' \in {"accepted", "refused"} /\ inHand \in Frames
  BY DEF Busy, TypeOK
<1>1. TypeOK'
  <2>1. shown' \in Payloads \cup {NoPayload}
    BY <1>0 DEF TypeOK, Frames
  <2>2. inHand' \in IF Busy' THEN Frames ELSE {NoFrame}
    BY <1>0
  <2> QED BY <1>0, <2>1, <2>2 DEF TypeOK
<1>2. Rebuilding'
  BY RebuildLeftAlone
<1>3. Phases'
  BY <1>0 DEF Phases
<1>4. NewestIsAhead'
  BY <1>0 DEF NewestIsAhead
<1>5. InOrder'
  BY <1>0 DEF InOrder
<1>6. LedgerIsTrue'
  BY <1>0 DEF LedgerIsTrue, FateIsTrue
<1>7. NoHoles'
  BY <1>0, NoHolesKept DEF Busy
<1>8. Verdict'
  BY VerdictKept
<1> QED
  BY <1>1, <1>2, <1>3, <1>4, <1>5, <1>6, <1>7, <1>8

(* TakeFrame, when there is nothing to take: the thread ends or sleeps.     *)
LEMMA TakeNothingInv ==
  ASSUME IInv, thread = "check", thread' \in {"none", "asleep"},
         thread' = "none" => stopRequested, thread' = "asleep" => queue = <<>>,
         UNCHANGED <<operatorVars, overtaken, rebuildVars, dispatchVars, queueVars, switchVars,
                     statusVars, inHand, shown, fate>>
  PROVE  IInv'
<1> USE DEF IInv, operatorVars, rebuildVars, dispatchVars, queueVars, switchVars, statusVars
<1>0. ~Busy /\ ~Busy'
  BY DEF Busy
<1>1. TypeOK'
  BY <1>0 DEF TypeOK
<1>2. Rebuilding'
  BY RebuildLeftAlone
<1>3. Phases'
  BY <1>0 DEF Phases
<1>4. NewestIsAhead'
  BY <1>0 DEF NewestIsAhead
<1>5. InOrder'
  BY <1>0 DEF InOrder
<1>6. LedgerIsTrue'
  BY <1>0 DEF LedgerIsTrue, FateIsTrue
<1>7. NoHoles'
  BY NoHolesKept
<1>8. Verdict'
  BY VerdictKept
<1> QED
  BY <1>1, <1>2, <1>3, <1>4, <1>5, <1>6, <1>7, <1>8

(* TakeFrame, when the queue has a frame: its oldest goes into the hand.    *)
LEMMA TakeOldestInv ==
  ASSUME IInv, thread = "check", ~stopRequested, queue # <<>>, thread' = "sending",
         inHand' = queue[1], queue' = Tail(queue),
         fate' = [fate EXCEPT ![queue[1].index] = "sending"],
         UNCHANGED <<operatorVars, overtaken, rebuildVars, dispatchVars, dropped, switchVars,
                     statusVars, shown>>
  PROVE  IInv'
<1> DEFINE first == queue[1]
           n == Len(queue)
<1> USE DEF IInv, operatorVars, rebuildVars, dispatchVars, switchVars, statusVars
<1>0. /\ ~Busy /\ Busy' /\ active
  BY DEF Busy, Phases
<1>1. /\ n \in Nat \ {0} /\ first \in Frames
      /\ Tail(queue) \in Seq(Frames) /\ Len(queue') = n - 1
      /\ \A k \in 1 .. n - 1 : queue'[k] = queue[k + 1]
  BY TailFacts DEF TypeOK
<1>2. first.index \in Indexes /\ first.index \in Nat /\ lastDelivered \in Int /\ nextIndex \in Nat
  BY <1>1, Numbers
<1>3. /\ lastDelivered < first.index /\ first.index < nextIndex
      /\ \A d \in 1 .. Len(dropped) : dropped[d] < first.index
      /\ \A k \in 2 .. n : first.index < queue[k].index
  BY <1>1 DEF InOrder
<1>4. TypeOK'
  <2>1. n - 1 <= Capacity
    BY <1>1, Numbers DEF TypeOK
  <2>2. fate' \in [Indexes -> Fates]
    BY <1>2 DEF TypeOK, Fates
  <2>3. inHand' \in IF Busy' THEN Frames ELSE {NoFrame}
    BY <1>0, <1>1
  <2> QED BY <1>0, <1>1, <2>1, <2>2, <2>3 DEF TypeOK
<1>5. Rebuilding'
  BY RebuildLeftAlone
<1>6. Phases'
  BY <1>0 DEF Phases
<1>7. NewestIsAhead'
  <2>1. queue' # <<>> => queue'[Len(queue')].payload = lastIdentity
    <3>1. ASSUME queue' # <<>> PROVE n - 1 \in 1 .. n - 1 /\ (n - 1) + 1 = n
      BY <1>1, <3>1, EmptySeq
    <3> QED BY <1>0, <1>1, <3>1 DEF NewestIsAhead
  <2>2. queue' = <<>> => inHand'.payload = lastIdentity
    <3>1. ASSUME queue' = <<>> PROVE n = 1
      <4>1. Len(queue') = 0
        BY <3>1, EmptySeq
      <4> QED BY <1>1, <4>1
    <3> QED BY <1>0, <3>1 DEF NewestIsAhead
  <2> QED BY <1>0, <2>1, <2>2 DEF NewestIsAhead
<1>8. InOrder'
  <2>1. ASSUME NEW k \in 1 .. n - 1
        PROVE  /\ lastDelivered < queue'[k].index /\ queue'[k].index < nextIndex
               /\ first.index < queue'[k].index
               /\ \A d \in 1 .. Len(dropped) : dropped[d] < queue'[k].index
               /\ \A j \in 1 .. k - 1 : queue'[j].index < queue'[k].index
    <3>1. k + 1 \in 2 .. n /\ k + 1 \in 1 .. n /\ queue'[k] = queue[k + 1]
      BY <1>1
    <3>2. \A j \in 1 .. k - 1 : j + 1 \in 1 .. (k + 1) - 1 /\ queue'[j] = queue[j + 1]
      BY <1>1
    <3> QED BY <1>3, <3>1, <3>2 DEF InOrder
  <2> QED BY <1>0, <1>1, <1>3, <2>1 DEF InOrder
<1>9. LedgerIsTrue'
  <2> SUFFICES ASSUME NEW i \in Indexes PROVE FateIsTrue(i)'
    BY DEF LedgerIsTrue
  <2>0. i \in Int /\ FateIsTrue(i) /\ fate'[i] = IF i = first.index THEN "sending" ELSE fate[i]
    <3>1. i \in Int /\ FateIsTrue(i)
      BY DEF LedgerIsTrue, Indexes
    <3>2. fate'[i] = IF i = first.index THEN "sending" ELSE fate[i]
      BY <1>2 DEF TypeOK
    <3> QED BY <3>1, <3>2
  <2>1. fate'[i] = "queued" <=> \E k \in 1 .. n - 1 : queue'[k].index = i
    <3>1. ASSUME NEW k \in 1 .. n - 1, queue'[k].index = i
          PROVE  k + 1 \in 1 .. n /\ queue[k + 1].index = i /\ i # first.index
      BY <1>1, <1>2, <1>3, <2>0, <3>1
    <3>2. ASSUME NEW k \in 1 .. n, queue[k].index = i, i # first.index
          PROVE  k - 1 \in 1 .. n - 1 /\ queue'[k - 1].index = i
      <4>1. k # 1
        BY <3>2
      <4>2. k - 1 \in 1 .. n - 1 /\ (k - 1) + 1 = k
        BY <1>1, <4>1
      <4>3. queue'[k - 1] = queue[(k - 1) + 1]
        BY <1>1, <4>2
      <4> QED BY <3>2, <4>2, <4>3
    <3>3. CASE i = first.index
      BY <2>0, <3>1, <3>3
    <3>4. CASE i # first.index
      <4>1. fate'[i] = "queued" <=> \E k \in 1 .. n : queue[k].index = i
        BY <2>0, <3>4 DEF FateIsTrue
      <4>2. (\E k \in 1 .. n : queue[k].index = i) <=> \E k \in 1 .. n - 1 : queue'[k].index = i
        BY <3>1, <3>2, <3>4
      <4> QED BY <4>1, <4>2
    <3> QED BY <3>3, <3>4
  <2>2. fate'[i] = "sending" <=> inHand'.index = i
    BY <1>0, <2>0 DEF FateIsTrue
  <2>3. fate'[i] = "dropped" /\ i > lastDelivered
          <=> \E d \in 1 .. Len(dropped) : dropped[d] = i
    <3>1. \A d \in 1 .. Len(dropped) : dropped[d] # first.index
      BY <1>2, <1>3, Numbers
    <3> QED BY <2>0, <3>1 DEF FateIsTrue
  <2>4. /\ fate'[i] = "delivered" => i <= lastDelivered
        /\ i = lastDelivered => fate'[i] = "delivered"
        /\ fate'[i] # "discarded"
        /\ nextIndex <= i => fate'[i] = "none"
    BY <1>0, <1>2, <1>3, <2>0 DEF FateIsTrue
  <2> QED BY <1>0, <1>1, <2>1, <2>2, <2>3, <2>4 DEF FateIsTrue
<1>10. NoHoles'
  <2>1. fate[first.index] # "none"
    BY <1>1, <1>2 DEF LedgerIsTrue, FateIsTrue
  <2>2. \A i \in Indexes : fate'[i] = "none" <=> fate[i] = "none"
    BY <2>1 DEF TypeOK
  <2> QED BY <2>2, NoHolesKept
<1>11. Verdict'
  <2>1. \A i \in Indexes : i <= lastDelivered => fate'[i] = fate[i]
    BY <1>2, <1>3 DEF TypeOK
  <2> QED BY <2>1, VerdictKept
<1> QED
  BY <1>4, <1>5, <1>6, <1>7, <1>8, <1>9, <1>10, <1>11

LEMMA TakeFrameInv == ASSUME IInv, TakeFrame PROVE IInv'
<1>1. CASE stopRequested
  <2>1. thread = "check" /\ thread' = "none"
        /\ UNCHANGED <<operatorVars, overtaken, rebuildVars, dispatchVars, queueVars, switchVars,
                       statusVars, inHand, shown, fate>>
    BY <1>1 DEF TakeFrame, queueVars
  <2> QED BY <1>1, <2>1, TakeNothingInv
<1>2. CASE ~stopRequested /\ queue = <<>>
  <2>1. thread = "check" /\ thread' = "asleep"
        /\ UNCHANGED <<operatorVars, overtaken, rebuildVars, dispatchVars, queueVars, switchVars,
                       statusVars, inHand, shown, fate>>
    BY <1>2 DEF TakeFrame, queueVars
  <2> QED BY <1>2, <2>1, TakeNothingInv
<1>3. CASE ~stopRequested /\ queue # <<>>
  BY <1>3, TakeOldestInv DEF TakeFrame
<1> QED
  BY <1>1, <1>2, <1>3

-----------------------------------------------------------------------------
(* How far the drops are removed from the front: the choice exists, all of  *)
(* those removed precede the frame in hand and the next one does not.       *)
LEMMA ExplainedFacts ==
  ASSUME TypeOK, Busy
  PROVE  /\ Explained \in 0 .. Len(dropped)
         /\ \A k \in 1 .. Explained : dropped[k] < inHand.index
         /\ Explained < Len(dropped) => dropped[Explained + 1] >= inHand.index
<1> DEFINE Stop(n) == n < Len(dropped) => dropped[n + 1] >= inHand.index
           S == {n \in 0 .. Len(dropped) : Stop(n)}
<1>1. Len(dropped) \in S /\ S \subseteq Nat
  BY Numbers
<1>2. PICK m \in S : \A n \in S : m <= n
  BY <1>1, LeastElement
<1>3. ASSUME NEW k \in 1 .. m PROVE dropped[k] < inHand.index
  <2>1. k - 1 \in 0 .. Len(dropped) /\ k - 1 < Len(dropped) /\ (k - 1) + 1 = k /\ k - 1 < m
        /\ k \in 1 .. Len(dropped)
    BY Numbers
  <2>2. k - 1 \notin S
    BY <1>2, <2>1
  <2>3. ~Stop(k - 1)
    BY <2>1, <2>2
  <2>4. ~(dropped[k] >= inHand.index)
    BY <2>1, <2>3
  <2>5. dropped[k] \in Int /\ inHand.index \in Int
    BY <2>1, Numbers
  <2> QED BY <2>4, <2>5
<1>4. \E n \in 0 .. Len(dropped) :
        /\ \A k \in 1 .. n : dropped[k] < inHand.index
        /\ n < Len(dropped) => dropped[n + 1] >= inHand.index
  BY <1>2, <1>3
<1> QED
  BY <1>4 DEF Explained

(* So it cuts the list of drops at the frame in hand.                       *)
LEMMA LaterDropsFacts ==
  ASSUME IInv, Busy
  PROVE  /\ LaterDrops \in Seq(Indexes) /\ Len(LaterDrops) = Len(dropped) - Explained
         /\ \A k \in 1 .. Len(LaterDrops) :
              /\ Explained + k \in 1 .. Len(dropped)
              /\ LaterDrops[k] = dropped[Explained + k] /\ inHand.index < LaterDrops[k]
<1>1. /\ Len(dropped) \in Nat /\ inHand.index \in Indexes /\ inHand.index \in Nat
      /\ \A d \in 1 .. Len(dropped) : dropped[d] \in Indexes /\ dropped[d] \in Nat
  BY Numbers DEF IInv
<1>2. /\ Explained \in 0 .. Len(dropped)
      /\ Explained < Len(dropped) => dropped[Explained + 1] >= inHand.index
  BY ExplainedFacts DEF IInv
<1>3. /\ LaterDrops \in Seq(Indexes)
      /\ Len(LaterDrops) = Len(dropped) - Explained
      /\ \A k \in 1 .. Len(dropped) - Explained : LaterDrops[k] = dropped[Explained + k]
  <2>1. \A i \in Explained + 1 .. Len(dropped) : dropped[i] \in Indexes
    BY <1>1, <1>2
  <2>2. Explained + 1 \in Int /\ Len(dropped) \in Int
    BY <1>1, <1>2
  <2>3. /\ LaterDrops \in Seq(Indexes)
        /\ Len(LaterDrops) = IF Explained + 1 <= Len(dropped)
                               THEN Len(dropped) - (Explained + 1) + 1 ELSE 0
        /\ \A k \in 1 .. Len(dropped) - (Explained + 1) + 1 :
             LaterDrops[k] = dropped[Explained + 1 + k - 1]
    BY <2>1, <2>2, SubSeqProperties DEF LaterDrops
  <2>4. \A k \in 1 .. Len(dropped) - Explained :
          k \in 1 .. Len(dropped) - (Explained + 1) + 1 /\ Explained + 1 + k - 1 = Explained + k
    BY <1>1, <1>2
  <2>5. Len(LaterDrops) = Len(dropped) - Explained
    BY <1>1, <1>2, <2>3
  <2> QED BY <2>3, <2>4, <2>5
<1>4. ASSUME NEW d \in 1 .. Len(dropped) PROVE dropped[d] # inHand.index
  <2>1. fate[dropped[d]] = "dropped"
    BY <1>1 DEF IInv, LedgerIsTrue, FateIsTrue
  <2>2. fate[inHand.index] = "sending"
    BY <1>1 DEF IInv, LedgerIsTrue, FateIsTrue
  <2> QED BY <2>1, <2>2
<1>5. ASSUME NEW k \in 1 .. Len(dropped) - Explained
      PROVE  Explained + k \in 1 .. Len(dropped) /\ inHand.index < dropped[Explained + k]
  <2>1. Explained + k \in 1 .. Len(dropped) /\ Explained + 1 \in 1 .. Len(dropped)
        /\ Explained < Len(dropped)
    BY <1>1, <1>2
  <2>2. inHand.index < dropped[Explained + 1]
    BY <1>1, <1>2, <1>4, <2>1
  <2>3. k = 1 \/ dropped[Explained + 1] < dropped[Explained + k]
    <3>1. k = 1 \/ Explained + 1 \in 1 .. (Explained + k) - 1
      BY <1>1, <1>2
    <3> QED BY <2>1, <3>1 DEF IInv, InOrder
  <2> QED BY <1>1, <2>1, <2>2, <2>3
<1> QED
  BY <1>3, <1>5

(* The indexes missing before the frame in hand are all explained just when *)
(* each of them is a remembered drop.                                       *)
LEMMA ExplainedCounts ==
  ASSUME IInv, Busy
  PROVE  Unexplained <=> \E i \in Indexes :
           lastDelivered < i /\ i < inHand.index /\ fate[i] # "dropped"
<1> DEFINE h == inHand.index
           L == lastDelivered
           n == Explained
           Gap == L + 1 .. h - 1
           f == [k \in 1 .. n |-> dropped[k]]
<1>1. /\ L \in Int /\ L >= -1 /\ h \in Nat /\ L < h /\ h < LastIndex /\ LastIndex \in Nat
      /\ n \in 0 .. Len(dropped) /\ Len(dropped) \in Nat
      /\ Gap \subseteq Indexes /\ \A i \in Indexes : i \in Int
  <2>1. L \in Int /\ L >= -1 /\ h \in Nat /\ h \in Indexes /\ LastIndex \in Nat
        /\ Len(dropped) \in Nat
    BY Numbers DEF IInv
  <2>2. L < h /\ n \in 0 .. Len(dropped)
    BY ExplainedFacts DEF IInv, InOrder
  <2> QED BY <2>1, <2>2 DEF Indexes
<1>2. IsFiniteSet(Gap) /\ Cardinality(Gap) = h - L - 1
  <2>1. L + 1 \in Int /\ h - 1 \in Int
    BY <1>1
  <2>2. IsFiniteSet(Gap) /\ Cardinality(Gap) = IF L + 1 > h - 1 THEN 0 ELSE (h - 1) - (L + 1) + 1
    BY <2>1, FS_Interval
  <2> QED BY <1>1, <2>2
<1>3. IsFiniteSet(1 .. n) /\ Cardinality(1 .. n) = n
  <2>1. n \in Int /\ n >= 0
    BY <1>1
  <2>2. IsFiniteSet(1 .. n) /\ Cardinality(1 .. n) = IF 1 > n THEN 0 ELSE n - 1 + 1
    BY <2>1, FS_Interval
  <2> QED BY <2>1, <2>2
<1>4. \A k \in 1 .. n : k \in 1 .. Len(dropped) /\ dropped[k] \in Gap
  <2>1. \A k \in 1 .. n : dropped[k] < h /\ k \in 1 .. Len(dropped)
    BY <1>1, ExplainedFacts DEF IInv
  <2>2. \A k \in 1 .. Len(dropped) : L < dropped[k] /\ dropped[k] \in Int
    BY Numbers DEF IInv, InOrder
  <2> QED BY <1>1, <2>1, <2>2
<1>5. f \in Injection(1 .. n, Gap)
  <2>1. f \in [1 .. n -> Gap]
    BY <1>4
  <2>2. ASSUME NEW a \in 1 .. n, NEW b \in 1 .. n, a < b PROVE dropped[a] # dropped[b]
    <3>1. a \in 1 .. b - 1 /\ b \in 1 .. Len(dropped)
      BY <1>1, <1>4, <2>2
    <3>2. dropped[a] < dropped[b]
      BY <3>1 DEF IInv, InOrder
    <3>3. dropped[b] \in Int
      BY <1>1, <1>4
    <3> QED BY <3>2, <3>3
  <2>3. ASSUME NEW a \in 1 .. n, NEW b \in 1 .. n, f[a] = f[b] PROVE a = b
    BY <1>1, <2>2, <2>3
  <2> QED BY <2>1, <2>3 DEF Injection, IsInjective
<1>6. n <= h - L - 1 /\ (n = h - L - 1 <=> f \in Surjection(1 .. n, Gap))
  BY <1>2, <1>3, <1>5, FS_Injection
<1>7. f \in Surjection(1 .. n, Gap) <=> \A i \in Gap : \E k \in 1 .. n : dropped[k] = i
  BY <1>4, <1>5 DEF Surjection
<1>8. ASSUME NEW i \in Gap
      PROVE  fate[i] = "dropped" <=> \E k \in 1 .. n : dropped[k] = i
  <2>1. i \in Indexes /\ L < i /\ i < h
    BY <1>1
  <2>2. fate[i] = "dropped" <=> \E d \in 1 .. Len(dropped) : dropped[d] = i
    BY <1>1, <2>1 DEF IInv, LedgerIsTrue, FateIsTrue
  <2>3. ASSUME NEW d \in 1 .. Len(dropped), dropped[d] = i PROVE d \in 1 .. n
    <3>1. CASE d <= n
      BY <1>1, <3>1
    <3>2. CASE d > n
      <4>1. d - n \in 1 .. Len(dropped) - n /\ n + (d - n) = d
        BY <1>1, <3>2
      <4>2. h < dropped[d]
        BY <4>1, LaterDropsFacts
      <4> QED BY <1>1, <2>1, <2>3, <4>2
    <3> QED BY <1>1, <3>1, <3>2
  <2>4. \A k \in 1 .. n : k \in 1 .. Len(dropped)
    BY <1>4
  <2> QED BY <2>2, <2>3, <2>4
<1>9. Unexplained <=> n < h - L - 1
  BY <1>1 DEF Unexplained, Missing
<1>10. n < h - L - 1 <=> \E i \in Gap : fate[i] # "dropped"
  <2>1. n < h - L - 1 <=> ~(n = h - L - 1)
    <3>1. n \in Int /\ h - L - 1 \in Int
      BY <1>1
    <3> HIDE DEF h, L, n
    <3> QED BY <3>1, <1>6
  <2> HIDE DEF h, L, n, Gap, f
  <2>2. n = h - L - 1 <=> \A i \in Gap : \E k \in 1 .. n : dropped[k] = i
    BY <1>6, <1>7
  <2>3. (\A i \in Gap : \E k \in 1 .. n : dropped[k] = i)
          <=> \A i \in Gap : fate[i] = "dropped"
    BY <1>8
  <2> QED BY <2>1, <2>2, <2>3
<1>11. (\E i \in Gap : fate[i] # "dropped")
        <=> \E i \in Indexes : L < i /\ i < h /\ fate[i] # "dropped"
  BY <1>1
<1> QED
  BY <1>9, <1>10, <1>11

-----------------------------------------------------------------------------
(* Settle, when the sender refused the frame.                               *)
LEMMA SettleRefusedInv == ASSUME IInv, Settle, thread = "refused" PROVE IInv'
<1> DEFINE h == inHand.index
<1> USE DEF Settle, IInv, operatorVars, rebuildVars, dispatchVars, switchVars
<1>0. /\ Busy /\ ~Busy' /\ h \in Indexes /\ h \in Nat /\ lastDelivered \in Int
      /\ lastDelivered < h /\ h < nextIndex /\ nextIndex \in Nat
  BY Numbers DEF Busy, InOrder
<1>1. TypeOK'
  <2>1. fate' \in [Indexes -> Fates]
    BY DEF TypeOK, Fates
  <2> QED BY <1>0, <2>1 DEF TypeOK
<1>2. Rebuilding'
  BY RebuildLeftAlone
<1>3. Phases'
  BY DEF Phases
<1>4. NewestIsAhead'
  BY <1>0 DEF NewestIsAhead
<1>5. InOrder'
  BY <1>0 DEF InOrder
<1>6. LedgerIsTrue'
  <2> SUFFICES ASSUME NEW i \in Indexes PROVE FateIsTrue(i)'
    BY DEF LedgerIsTrue
  <2>0. fate'[i] = IF i = h THEN "refused" ELSE fate[i]
    BY DEF TypeOK
  <2>1. FateIsTrue(i) /\ FateIsTrue(h) /\ i \in Int
        /\ fate'[i] = IF i = h THEN "refused" ELSE fate[i]
    BY <1>0, <2>0 DEF LedgerIsTrue, Indexes
  <2>2. CASE i = h
    BY <1>0, <2>1, <2>2 DEF FateIsTrue
  <2>3. CASE i # h
    BY <1>0, <2>1, <2>3 DEF FateIsTrue
  <2> QED BY <2>2, <2>3
<1>7. NoHoles'
  <2>1. fate[h] # "none"
    BY <1>0 DEF LedgerIsTrue, FateIsTrue
  <2>2. \A i \in Indexes : fate'[i] = "none" <=> fate[i] = "none"
    BY <2>1 DEF TypeOK
  <2> QED BY <2>2, NoHolesKept
<1>8. Verdict'
  <2>1. \A i \in Indexes : i <= lastDelivered => fate'[i] = fate[i]
    BY <1>0 DEF TypeOK
  <2> QED BY <2>1, VerdictKept
<1> QED
  BY <1>1, <1>2, <1>3, <1>4, <1>5, <1>6, <1>7, <1>8

(* Settle, when the sender took the frame: the state is in order, ...       *)
LEMMA SettleAcceptedOrder ==
  ASSUME IInv, Settle, thread = "accepted"
  PROVE  /\ TypeOK' /\ Rebuilding' /\ Phases' /\ NewestIsAhead' /\ InOrder'
         /\ LedgerIsTrue' /\ NoHoles'
<1> DEFINE h == inHand.index
           m == Len(LaterDrops)
<1> USE DEF Settle, IInv, operatorVars, rebuildVars, dispatchVars, switchVars
<1>0. /\ Busy /\ ~Busy' /\ h \in Indexes /\ h \in Nat /\ lastDelivered \in Int
      /\ lastDelivered < h /\ h < nextIndex /\ nextIndex \in Nat
      /\ dropped' = LaterDrops /\ lastDelivered' = h
  BY Numbers DEF Busy, InOrder
<1>1. /\ LaterDrops \in Seq(Indexes) /\ m = Len(dropped) - Explained /\ m \in Nat
      /\ Explained \in 0 .. Len(dropped) /\ Len(dropped) \in Nat
      /\ \A k \in 1 .. m : /\ Explained + k \in 1 .. Len(dropped)
                           /\ LaterDrops[k] = dropped[Explained + k] /\ h < LaterDrops[k]
  <2>1. Explained \in 0 .. Len(dropped) /\ Len(dropped) \in Nat
    BY <1>0, ExplainedFacts, Numbers
  <2> QED BY <1>0, <2>1, LaterDropsFacts
<1>2. TypeOK'
  <2>1. fate' \in [Indexes -> Fates]
    BY DEF TypeOK, Fates
  <2>2. m <= MaxTracked
    BY <1>1, Numbers DEF TypeOK
  <2>3. deliveryGap' \in BOOLEAN
    BY DEF TypeOK, Unexplained
  <2> QED BY <1>0, <1>1, <2>1, <2>2, <2>3 DEF TypeOK
<1>3. Rebuilding'
  BY RebuildLeftAlone
<1>4. Phases'
  BY DEF Phases
<1>5. NewestIsAhead'
  BY <1>0 DEF NewestIsAhead
<1>6. InOrder'
  <2>1. ASSUME NEW k \in 1 .. Len(queue)
        PROVE  /\ h < queue[k].index /\ queue[k].index < nextIndex
               /\ \A d \in 1 .. m : LaterDrops[d] < queue[k].index
               /\ \A j \in 1 .. k - 1 : queue[j].index < queue[k].index
    BY <1>0, <1>1 DEF InOrder
  <2>2. ASSUME NEW d \in 1 .. m
        PROVE  /\ h < LaterDrops[d] /\ LaterDrops[d] < nextIndex
               /\ \A c \in 1 .. d - 1 : LaterDrops[c] < LaterDrops[d]
    <3>1. Explained + d \in 1 .. Len(dropped) /\ LaterDrops[d] = dropped[Explained + d]
          /\ h < LaterDrops[d]
      BY <1>1
    <3>2. LaterDrops[d] < nextIndex
      BY <3>1 DEF InOrder
    <3>3. ASSUME NEW c \in 1 .. d - 1 PROVE LaterDrops[c] < LaterDrops[d]
      <4>1. c \in 1 .. m /\ Explained + c \in 1 .. (Explained + d) - 1
        BY <1>1
      <4>2. dropped[Explained + c] < dropped[Explained + d]
        BY <3>1, <4>1 DEF InOrder
      <4> QED BY <1>1, <3>1, <4>1, <4>2
    <3> QED BY <3>1, <3>2, <3>3
  <2> QED BY <1>0, <1>1, <2>1, <2>2 DEF InOrder
<1>7. LedgerIsTrue'
  <2> SUFFICES ASSUME NEW i \in Indexes PROVE FateIsTrue(i)'
    BY DEF LedgerIsTrue
  <2>0. fate'[i] = IF i = h THEN "delivered" ELSE fate[i]
    BY DEF TypeOK
  <2>1. FateIsTrue(i) /\ FateIsTrue(h) /\ i \in Int
        /\ fate'[i] = IF i = h THEN "delivered" ELSE fate[i]
    BY <1>0, <2>0 DEF LedgerIsTrue, Indexes
  <2>2. fate'[i] = "dropped" /\ i > h <=> \E d \in 1 .. m : LaterDrops[d] = i
    <3>1. ASSUME NEW d \in 1 .. m, LaterDrops[d] = i PROVE fate'[i] = "dropped" /\ i > h
      <4>1. i > h /\ \E e \in 1 .. Len(dropped) : dropped[e] = i
        BY <1>0, <1>1, <2>1, <3>1
      <4> QED BY <1>0, <2>1, <4>1 DEF FateIsTrue
    <3>2. ASSUME fate'[i] = "dropped", i > h PROVE \E d \in 1 .. m : LaterDrops[d] = i
      <4>1. PICK e \in 1 .. Len(dropped) : dropped[e] = i
        BY <1>0, <2>1, <3>2 DEF FateIsTrue
      <4>2. e > Explained
        <5>1. ASSUME e \in 1 .. Explained PROVE FALSE
          <6>1. dropped[e] < h
            BY <1>0, <5>1, ExplainedFacts
          <6> QED BY <1>0, <2>1, <3>2, <4>1, <6>1
        <5> QED BY <1>1, <5>1
      <4>3. e - Explained \in 1 .. m /\ Explained + (e - Explained) = e
        BY <1>1, <4>2
      <4>4. LaterDrops[e - Explained] = dropped[Explained + (e - Explained)]
        BY <1>1, <4>3
      <4> QED BY <4>1, <4>3, <4>4
    <3> QED BY <3>1, <3>2
  <2>3. fate'[i] = "queued" <=> \E k \in 1 .. Len(queue) : queue[k].index = i
    BY <1>0, <2>1 DEF FateIsTrue
  <2>4. /\ fate'[i] # "sending"
        /\ fate'[i] = "delivered" => i <= h
        /\ i = h => fate'[i] = "delivered"
        /\ fate'[i] = "discarded" => ~active
        /\ nextIndex <= i => fate'[i] = "none"
    BY <1>0, <2>1 DEF FateIsTrue
  <2> QED BY <1>0, <2>2, <2>3, <2>4 DEF FateIsTrue
<1>8. NoHoles'
  <2>1. fate[h] # "none"
    BY <1>0 DEF LedgerIsTrue, FateIsTrue
  <2>2. \A i \in Indexes : fate'[i] = "none" <=> fate[i] = "none"
    BY <2>1 DEF TypeOK
  <2> QED BY <2>2, NoHolesKept
<1> QED
  BY <1>2, <1>3, <1>4, <1>5, <1>6, <1>7, <1>8

(* ... and the gap before it is judged by what became of its indexes.  Only *)
(* the delivered frame before it opens that gap: "between the two delivered *)
(* frames" is the interval from lastDelivered to the frame in hand.         *)
LEMMA SettleAcceptedVerdict ==
  ASSUME IInv, Settle, thread = "accepted"
  PROVE  Verdict'
<1> DEFINE h == inHand.index
           L == lastDelivered
<1> USE DEF IInv
<1>0. /\ Busy /\ h \in Indexes /\ h \in Nat /\ L \in Int /\ L < h /\ h < nextIndex
      /\ nextIndex \in Nat /\ lastDelivered' = h /\ L >= -1
      /\ L # NoIndex => L \in Indexes
      /\ \A i \in Indexes : i \in Int
  BY Numbers DEF Busy, InOrder, Settle, Indexes
<1>1. \A i \in Indexes : fate'[i] = IF i = h THEN "delivered" ELSE fate[i]
  BY DEF Settle, TypeOK
<1>2. \A i \in Indexes : i < h /\ fate'[i] = "delivered" => i <= L
  BY <1>0, <1>1 DEF LedgerIsTrue, FateIsTrue
<1>3. CASE L = NoIndex
  <2>1. ~deliveryGap'
    BY <1>3 DEF Settle, Verdict
  <2>2. \A j \in Indexes : j < h => fate'[j] # "delivered"
    BY <1>0, <1>2, <1>3 DEF NoIndex, Indexes
  <2>3. \A i \in Indexes : i < h => ~Between(i)'
    <3> SUFFICES ASSUME NEW i \in Indexes, i < h, NEW j \in Indexes, j < i,
                        fate'[j] = "delivered"
                 PROVE  FALSE
      BY <1>0 DEF Between
    <3> QED BY <1>0, <2>2
  <2>4. ~LostInGap({"refused"})'
    BY <1>0, <2>3 DEF LostInGap
  <2> QED BY <1>0, <2>1, <2>4 DEF Verdict, GapsAreJudgedRightly, RefusalIsReported,
             BackpressureIsNoError, NoIndex
<1>4. CASE L # NoIndex
  <2>1. deliveryGap' = Unexplained
    BY <1>4 DEF Settle
  <2>2. L \in Indexes /\ fate[L] = "delivered" /\ fate'[L] = "delivered"
    <3>1. L \in Indexes /\ FateIsTrue(L) /\ L # h
      BY <1>0, <1>4 DEF LedgerIsTrue
    <3> QED BY <1>1, <3>1 DEF FateIsTrue
  <2>3. ASSUME NEW i \in Indexes, i < h PROVE Between(i)' <=> L < i
    <3>1. ASSUME NEW j \in Indexes, j < i, fate'[j] = "delivered",
                 \A k \in j + 1 .. h - 1 : fate'[k] # "delivered"
          PROVE  L < i
      <4>1. ~(L \in j + 1 .. h - 1)
        BY <2>2, <3>1
      <4>2. j <= L
        BY <1>0, <1>2, <2>3, <3>1
      <4> QED BY <1>0, <3>1, <4>1, <4>2
    <3>2. ASSUME L < i, NEW k \in L + 1 .. h - 1 PROVE fate'[k] # "delivered"
      <4>1. h < LastIndex /\ LastIndex \in Int
        BY <1>0, Numbers DEF Indexes
      <4>2. k \in Indexes /\ k < h /\ ~(k <= L)
        BY <1>0, <4>1 DEF Indexes
      <4> QED BY <1>2, <4>2
    <3>3. Between(i)' <=> \E j \in Indexes : j < i /\ fate'[j] = "delivered"
                            /\ \A k \in j + 1 .. h - 1 : fate'[k] # "delivered"
      BY <1>0 DEF Between
    <3> QED BY <2>2, <3>1, <3>2, <3>3
  <2>4. ASSUME NEW K
        PROVE  LostInGap(K)' <=> \E i \in Indexes : L < i /\ i < h /\ fate[i] \in K
    <3>1. LostInGap(K)' <=> \E i \in Indexes : i < h /\ Between(i)' /\ fate'[i] \in K
      BY <1>0 DEF LostInGap
    <3>2. \A i \in Indexes : i < h => fate'[i] = fate[i]
      BY <1>0, <1>1
    <3> QED BY <2>3, <3>1, <3>2
  <2>5. ASSUME NEW i \in Indexes, L < i, i < h
        PROVE  fate[i] \in {"refused", "skipped", "forgotten", "dropped"}
    <3>1. FateIsTrue(i) /\ fate[i] \in Fates
      BY DEF LedgerIsTrue, TypeOK
    <3>2. fate[i] # "none"
      <4>1. thread # "none" /\ i < nextIndex
        BY <1>0, <2>5 DEF Busy
      <4> QED BY <2>2, <2>5, <4>1 DEF NoHoles
    <3>3. fate[i] # "queued"
      <4>1. \A k \in 1 .. Len(queue) : queue[k].index # i
        BY <1>0, <2>5, Numbers DEF InOrder
      <4> QED BY <3>1, <4>1 DEF FateIsTrue
    <3>4. fate[i] # "sending" /\ fate[i] # "delivered" /\ fate[i] # "discarded"
      BY <1>0, <2>5, <3>1 DEF FateIsTrue
    <3> QED BY <3>1, <3>2, <3>3, <3>4 DEF Fates
  <2>6. Unexplained <=> LostInGap({"refused", "skipped", "forgotten"})'
    <3>1. Unexplained <=> \E i \in Indexes : L < i /\ i < h /\ fate[i] # "dropped"
      BY <1>0, ExplainedCounts
    <3>2. \A i \in Indexes : L < i /\ i < h =>
            (fate[i] # "dropped" <=> fate[i] \in {"refused", "skipped", "forgotten"})
      BY <2>5
    <3> QED BY <2>4, <3>1, <3>2
  <2>7. LostInGap({"refused"})' => LostInGap({"refused", "skipped", "forgotten"})'
    BY <2>4
  <2>8. GapsAreJudgedRightly'
    BY <2>1, <2>6, <2>7 DEF GapsAreJudgedRightly, RefusalIsReported, BackpressureIsNoError
  <2> QED BY <1>0, <2>8 DEF Verdict, NoIndex, Indexes
<1> QED
  BY <1>3, <1>4

LEMMA SettleInv == ASSUME IInv, Settle PROVE IInv'
<1>1. CASE thread = "accepted"
  BY <1>1, SettleAcceptedOrder, SettleAcceptedVerdict DEF IInv
<1>2. CASE thread = "refused"
  BY <1>2, SettleRefusedInv
<1> QED
  BY <1>1, <1>2 DEF Settle

-----------------------------------------------------------------------------
(* A tick that submits nothing: the sink is stopped, or the payload is the  *)
(* last one again and the index is skipped.                                 *)
LEMMA TickPassesInv ==
  ASSUME IInv, NEW p \in Payloads, DispatchTick(p), ~active \/ IdentitySkips(p)
  PROVE  IInv'
<1> USE DEF DispatchTick, IInv, operatorVars, rebuildVars, switchVars, statusVars, queueVars
<1>0. /\ nextIndex \in Indexes /\ nextIndex \in Nat /\ nextIndex' = nextIndex + 1
      /\ lastDelivered \in Int /\ lastDelivered < nextIndex
      /\ UNCHANGED <<lastIdentity, queue, dropped, thread, inHand, lastDelivered, deliveryGap,
                     active>>
      /\ Busy' <=> Busy
  BY Numbers DEF InOrder, Indexes, Busy
<1>1. \A i \in Indexes : fate'[i] = IF active /\ i = nextIndex THEN "skipped" ELSE fate[i]
  <2>1. CASE ~active
    BY <2>1
  <2>2. CASE active
    BY <2>2 DEF TypeOK
  <2> QED BY <2>1, <2>2
<1>2. TypeOK'
  <2>1. fate' \in [Indexes -> Fates]
    <3>1. CASE ~active
      BY <3>1 DEF TypeOK
    <3>2. CASE active
      BY <1>0, <3>2 DEF TypeOK, Fates
    <3> QED BY <3>1, <3>2
  <2>2. nextIndex' \in 0 .. LastIndex
    BY <1>0, Numbers
  <2>3. inHand' \in IF Busy' THEN Frames ELSE {NoFrame}
    BY <1>0 DEF TypeOK
  <2> QED BY <1>0, <2>1, <2>2, <2>3 DEF TypeOK
<1>3. Rebuilding'
  BY RebuildLeftAlone
<1>4. Phases'
  BY <1>0 DEF Phases
<1>5. NewestIsAhead'
  BY <1>0 DEF NewestIsAhead, Busy
<1>6. InOrder'
  <2>1. \A x \in Int : x < nextIndex => x < nextIndex'
    BY <1>0
  <2> QED BY <1>0, <2>1, Numbers DEF InOrder
<1>7. LedgerIsTrue'
  <2> SUFFICES ASSUME NEW i \in Indexes PROVE FateIsTrue(i)'
    BY DEF LedgerIsTrue
  <2>1. FateIsTrue(i) /\ i \in Int
    BY DEF LedgerIsTrue, Indexes
  <2>2. CASE active /\ i = nextIndex
    <3>1. fate[i] = "none" /\ fate'[i] = "skipped"
      BY <1>0, <1>1, <2>1, <2>2 DEF FateIsTrue
    <3> QED BY <1>0, <2>1, <2>2, <3>1 DEF FateIsTrue
  <2>3. CASE ~(active /\ i = nextIndex)
    <3>1. fate'[i] = fate[i]
      BY <1>1, <2>3
    <3>2. nextIndex' <= i => nextIndex <= i
      BY <1>0, <2>1
    <3> QED BY <1>0, <2>1, <3>1, <3>2 DEF FateIsTrue
  <2> QED BY <2>2, <2>3
<1>8. NoHoles'
  <2>1. thread # "none" => active
    BY DEF Phases
  <2> QED BY <1>0, <1>1, <2>1 DEF NoHoles, Indexes, LedgerIsTrue, FateIsTrue
<1>9. Verdict'
  BY <1>0, <1>1, VerdictKept DEF Indexes
<1> QED
  BY <1>2, <1>3, <1>4, <1>5, <1>6, <1>7, <1>8, <1>9

(* A tick that submits.  The queue loses its oldest frame when it is full   *)
(* and ends with the new one; ...                                           *)
Shift == IF Full THEN 1 ELSE 0

LEMMA SubmitQueue ==
  ASSUME TypeOK, NEW f \in Frames, Submit(f)
  PROVE  /\ queue' \in Seq(Frames) /\ Shift \in {0, 1} /\ Len(queue) \in Nat
         /\ Len(queue') = Len(queue) - Shift + 1
         /\ Len(queue') \in Nat /\ 1 <= Len(queue') /\ Len(queue') <= Capacity
         /\ queue' # <<>> /\ queue'[Len(queue')] = f
         /\ \A k \in 1 .. Len(queue') - 1 :
              k + Shift \in 1 .. Len(queue) /\ queue'[k] = queue[k + Shift]
<1>0. /\ Len(queue) \in Nat /\ Len(queue) <= Capacity /\ Capacity \in Nat \ {0}
      /\ queue \in Seq(Frames)
  BY Numbers DEF TypeOK
<1>1. CASE ~Full
  <2>1. Shift = 0 /\ queue' = Append(queue, f) /\ Len(queue) < Capacity
    BY <1>0, <1>1 DEF Shift, Submit, Full
  <2> QED BY <1>0, <2>1, AppendFacts
<1>2. CASE Full
  <2>1. Shift = 1 /\ queue' = Append(Tail(queue), f) /\ Len(queue) = Capacity
    BY <1>0, <1>2 DEF Shift, Submit, Full
  <2>2. queue # <<>>
    BY <1>0, <2>1, EmptySeq
  <2>3. /\ Tail(queue) \in Seq(Frames) /\ Len(Tail(queue)) = Len(queue) - 1
        /\ \A k \in 1 .. Len(queue) - 1 : Tail(queue)[k] = queue[k + 1]
    BY <1>0, <2>2, TailFacts
  <2>4. /\ queue' \in Seq(Frames) /\ queue' # <<>> /\ Len(queue') = Len(Tail(queue)) + 1
        /\ queue'[Len(Tail(queue)) + 1] = f
        /\ \A k \in 1 .. Len(Tail(queue)) : queue'[k] = Tail(queue)[k]
    BY <2>1, <2>3, AppendFacts
  <2>5. \A k \in 1 .. Len(queue') - 1 : k + 1 \in 1 .. Len(queue) /\ queue'[k] = queue[k + 1]
    BY <1>0, <2>3, <2>4
  <2> QED BY <1>0, <2>1, <2>3, <2>4, <2>5
<1> QED
  BY <1>1, <1>2

(* ... and the list of drops gains the lost index, and loses its first one  *)
(* when it is full, too.                                                    *)
Forgets == IF Full /\ Len(dropped) = MaxTracked THEN 1 ELSE 0

LEMMA SubmitDrops ==
  ASSUME TypeOK, NEW f \in Frames, Submit(f)
  PROVE  /\ ~Full => /\ dropped' = dropped
                     /\ \A i \in Indexes : fate'[i] = IF i = f.index THEN "queued" ELSE fate[i]
         /\ Full => /\ Len(queue) \in Nat \ {0} /\ 1 \in 1 .. Len(queue)
                    /\ Forgets \in {0, 1} /\ Forgets <= Len(dropped)
                    /\ dropped' \in Seq(Indexes) /\ Len(dropped') = Len(dropped) + 1 - Forgets
                    /\ Len(dropped') <= MaxTracked
                    /\ dropped'[Len(dropped')] = queue[1].index
                    /\ \A k \in 1 .. Len(dropped') - 1 :
                         k + Forgets \in 1 .. Len(dropped) /\ dropped'[k] = dropped[k + Forgets]
                    /\ \A i \in Indexes : fate'[i] =
                         IF i = f.index THEN "queued"
                         ELSE IF Forgets = 1 /\ i = dropped[1] THEN "forgotten"
                         ELSE IF i = queue[1].index THEN "dropped" ELSE fate[i]
<1>0. /\ Len(dropped) \in Nat /\ Len(dropped) <= MaxTracked /\ MaxTracked \in Nat \ {0}
      /\ dropped \in Seq(Indexes) /\ Len(queue) \in Nat /\ Capacity \in Nat \ {0}
  BY Numbers DEF TypeOK
<1>1. CASE ~Full
  BY <1>0, <1>1 DEF Submit
<1>2. CASE Full
  <2> DEFINE o == queue[1].index
             drops == Append(dropped, o)
  <2>1. Len(queue) \in Nat \ {0} /\ 1 \in 1 .. Len(queue) /\ o \in Indexes
    <3>1. Len(queue) \in Nat \ {0} /\ 1 \in 1 .. Len(queue)
      BY <1>0, <1>2 DEF Full
    <3> QED BY <3>1, Numbers
  <2>2. /\ drops \in Seq(Indexes) /\ Len(drops) = Len(dropped) + 1 /\ drops # <<>>
        /\ drops[Len(dropped) + 1] = o
        /\ \A k \in 1 .. Len(dropped) : drops[k] = dropped[k]
    BY <1>0, <2>1, AppendFacts
  <2>3. /\ dropped' = IF Len(drops) > MaxTracked THEN Tail(drops) ELSE drops
        /\ \A i \in Indexes : fate'[i] =
             IF i = f.index THEN "queued"
             ELSE IF Len(drops) > MaxTracked /\ i = drops[1] THEN "forgotten"
             ELSE IF i = o THEN "dropped" ELSE fate[i]
    BY <1>2 DEF Submit
  <2>4. CASE Len(drops) > MaxTracked
    <3>1. Forgets = 1 /\ Len(dropped) = MaxTracked /\ 1 <= Len(dropped) /\ drops[1] = dropped[1]
      BY <1>0, <1>2, <2>2, <2>4 DEF Forgets
    <3>2. /\ dropped' \in Seq(Indexes) /\ Len(dropped') = Len(dropped)
          /\ \A k \in 1 .. Len(dropped) : dropped'[k] = drops[k + 1]
      BY <1>0, <2>2, <2>3, <2>4, TailFacts
    <3>3. dropped'[Len(dropped)] = o
      BY <1>0, <2>2, <3>1, <3>2
    <3>4. \A k \in 1 .. Len(dropped) - 1 :
            k + 1 \in 1 .. Len(dropped) /\ dropped'[k] = dropped[k + 1]
      BY <1>0, <2>2, <3>2
    <3> QED BY <1>0, <1>2, <2>1, <2>3, <2>4, <3>1, <3>2, <3>3, <3>4
  <2>5. CASE ~(Len(drops) > MaxTracked)
    <3>1. Forgets = 0 /\ dropped' = drops
      BY <1>0, <2>2, <2>3, <2>5 DEF Forgets
    <3> QED BY <1>0, <1>2, <2>1, <2>2, <2>3, <2>5, <3>1
  <2> QED BY <2>4, <2>5
<1> QED
  BY <1>1, <1>2

LEMMA TickSubmitsInv ==
  ASSUME IInv, NEW p \in Payloads, DispatchTick(p), active, ~IdentitySkips(p)
  PROVE  IInv'
<1> DEFINE f == [index |-> nextIndex, payload |-> p]
           o == queue[1].index
           last == Len(queue')
           n == Len(dropped')
<1> USE DEF IInv
<1>0. /\ nextIndex \in Indexes /\ nextIndex \in Nat /\ nextIndex' = nextIndex + 1
      /\ nextIndex' \in 0 .. LastIndex
      /\ f \in Frames /\ Submit(f) /\ lastIdentity' = p
      /\ lastDelivered \in Int /\ lastDelivered < nextIndex /\ \A i \in Indexes : i \in Int
      /\ UNCHANGED <<operatorVars, overtaken, rebuildVars, active, stopRequested, lastDelivered,
                     deliveryGap, lastResult, inHand, shown>>
  BY Numbers DEF DispatchTick, InOrder, Indexes, Frames, switchVars, statusVars
<1>1. /\ thread # "none" /\ thread' # "none" /\ thread' # "asleep" /\ (Busy' <=> Busy)
      /\ thread' \in {"check", "sending", "accepted", "refused"}
      /\ thread' = "accepted" => thread = "accepted"
  BY <1>0 DEF Submit, WakeSink, Busy, TypeOK, Phases
<1>2. /\ queue' \in Seq(Frames) /\ Shift \in {0, 1} /\ Len(queue) \in Nat
      /\ last = Len(queue) - Shift + 1
      /\ last \in Nat /\ 1 <= last /\ last <= Capacity /\ queue' # <<>> /\ queue'[last] = f
      /\ \A k \in 1 .. last - 1 : k + Shift \in 1 .. Len(queue) /\ queue'[k] = queue[k + Shift]
  BY <1>0, SubmitQueue
<1>3. ~Full => /\ dropped' = dropped
               /\ \A i \in Indexes : fate'[i] = IF i = nextIndex THEN "queued" ELSE fate[i]
  BY <1>0, SubmitDrops
<1>4. Full => /\ Len(queue) \in Nat \ {0} /\ 1 \in 1 .. Len(queue)
              /\ Forgets \in {0, 1} /\ Forgets <= Len(dropped)
              /\ dropped' \in Seq(Indexes) /\ n = Len(dropped) + 1 - Forgets
              /\ n <= MaxTracked /\ dropped'[n] = o
              /\ \A k \in 1 .. n - 1 :
                   k + Forgets \in 1 .. Len(dropped) /\ dropped'[k] = dropped[k + Forgets]
              /\ \A i \in Indexes : fate'[i] =
                   IF i = nextIndex THEN "queued"
                   ELSE IF Forgets = 1 /\ i = dropped[1] THEN "forgotten"
                   ELSE IF i = o THEN "dropped" ELSE fate[i]
  BY <1>0, SubmitDrops
<1>5. \A k \in 1 .. Len(queue) :
        /\ queue[k].index \in Indexes /\ lastDelivered < queue[k].index
        /\ queue[k].index < nextIndex /\ (Busy => inHand.index < queue[k].index)
        /\ \A d \in 1 .. Len(dropped) : dropped[d] < queue[k].index
        /\ \A j \in 1 .. k - 1 : queue[j].index < queue[k].index
  BY Numbers DEF InOrder
<1>6. /\ Len(dropped) \in Nat
      /\ \A d \in 1 .. Len(dropped) :
           /\ dropped[d] \in Indexes /\ lastDelivered < dropped[d] /\ dropped[d] < nextIndex
           /\ \A c \in 1 .. d - 1 : dropped[c] < dropped[d]
  BY Numbers DEF InOrder
<1>7. Full => Shift = 1 /\ o \in Indexes /\ lastDelivered < o /\ o < nextIndex
  BY <1>4, <1>5 DEF Shift
<1>8. ~Full => Shift = 0
  BY DEF Shift
<1>9. \A i \in Indexes : i < nextIndex => i < nextIndex'
  BY <1>0
<1>10. TypeOK'
  <2>1. fate' \in [Indexes -> Fates]
    BY <1>0 DEF Submit, TypeOK, Fates
  <2>2. dropped' \in Seq(Indexes) /\ n <= MaxTracked
    BY <1>3, <1>4 DEF TypeOK
  <2>3. inHand' \in IF Busy' THEN Frames ELSE {NoFrame}
    BY <1>0, <1>1 DEF TypeOK
  <2>4. thread' \in {"none", "check", "asleep", "sending", "accepted", "refused"}
    BY <1>1
  <2> QED BY <1>0, <1>2, <2>1, <2>2, <2>3, <2>4 DEF TypeOK, operatorVars, rebuildVars
<1>11. Rebuilding'
  BY <1>0, RebuildLeftAlone
<1>12. Phases'
  BY <1>0, <1>1, <1>2 DEF Phases, rebuildVars
<1>13. NewestIsAhead'
  BY <1>0, <1>1, <1>2 DEF NewestIsAhead
<1>14. InOrder'
  <2>1. ASSUME NEW k \in 1 .. last
        PROVE  /\ lastDelivered < queue'[k].index /\ queue'[k].index < nextIndex'
               /\ Busy => inHand.index < queue'[k].index
               /\ \A d \in 1 .. Len(dropped) : dropped[d] < queue'[k].index
               /\ Full => o < queue'[k].index
               /\ \A j \in 1 .. k - 1 : queue'[j].index < queue'[k].index
    <3>1. CASE k = last
      <4>1. queue'[k].index = nextIndex
        BY <1>2, <3>1
      <4>2. Busy => inHand.index < nextIndex
        BY DEF InOrder
      <4>3. \A j \in 1 .. k - 1 : queue'[j].index < nextIndex
        BY <1>2, <1>5, <3>1
      <4> QED BY <1>0, <1>6, <1>7, <4>1, <4>2, <4>3
    <3>2. CASE k # last
      <4>1. k \in 1 .. last - 1 /\ k + Shift \in 1 .. Len(queue) /\ queue'[k] = queue[k + Shift]
        BY <1>2, <3>2
      <4>2. \A j \in 1 .. k - 1 : j + Shift \in 1 .. (k + Shift) - 1 /\ queue'[j] = queue[j + Shift]
        BY <1>2, <4>1
      <4>3. Full => 1 \in 1 .. (k + Shift) - 1
        BY <1>7, <4>1
      <4>4. /\ lastDelivered < queue'[k].index /\ queue'[k].index < nextIndex'
            /\ Busy => inHand.index < queue'[k].index
            /\ \A d \in 1 .. Len(dropped) : dropped[d] < queue'[k].index
        BY <1>5, <1>9, <4>1
      <4>5. Full => o < queue'[k].index
        BY <1>5, <4>1, <4>3
      <4>6. \A j \in 1 .. k - 1 : queue'[j].index < queue'[k].index
        BY <1>5, <4>1, <4>2
      <4> QED BY <4>4, <4>5, <4>6
    <3> QED BY <3>1, <3>2
  <2>2. ASSUME NEW d \in 1 .. n
        PROVE  /\ lastDelivered < dropped'[d] /\ dropped'[d] < nextIndex
               /\ \A c \in 1 .. d - 1 : dropped'[c] < dropped'[d]
               /\ \A k \in 1 .. last : dropped'[d] < queue'[k].index
    <3>1. CASE ~Full
      BY <1>3, <1>6, <2>1, <3>1
    <3>2. CASE Full /\ d = n
      <4>1. dropped'[d] = o
        BY <1>4, <3>2
      <4>2. \A c \in 1 .. d - 1 : dropped'[c] < o
        BY <1>4, <1>5, <3>2
      <4> QED BY <1>7, <2>1, <3>2, <4>1, <4>2
    <3>3. CASE Full /\ d # n
      <4>1. d \in 1 .. n - 1 /\ d + Forgets \in 1 .. Len(dropped)
            /\ dropped'[d] = dropped[d + Forgets]
        BY <1>4, <1>6, <3>3
      <4>2. \A c \in 1 .. d - 1 :
              c + Forgets \in 1 .. (d + Forgets) - 1 /\ dropped'[c] = dropped[c + Forgets]
        BY <1>4, <3>3, <4>1
      <4> QED BY <1>6, <2>1, <4>1, <4>2
    <3> QED BY <3>1, <3>2, <3>3
  <2>3. \A d \in 1 .. n : dropped'[d] < nextIndex'
    <3>1. \A d \in 1 .. n : dropped'[d] \in Indexes
      BY <1>10, ElementOfSeq, LenProperties DEF TypeOK
    <3> QED BY <1>9, <2>2, <3>1
  <2>4. Busy => lastDelivered < inHand.index /\ inHand.index < nextIndex'
    BY <1>0, Numbers DEF InOrder
  <2> QED BY <1>0, <1>1, <2>1, <2>2, <2>3, <2>4 DEF InOrder
<1>15. /\ fate[nextIndex] = "none"
       /\ Full => fate[o] = "queued"
       /\ Full /\ Forgets = 1 => /\ 1 \in 1 .. Len(dropped) /\ dropped[1] \in Indexes
                                 /\ fate[dropped[1]] = "dropped" /\ dropped[1] < o
                                 /\ lastDelivered < dropped[1] /\ dropped[1] < nextIndex
  <2>1. fate[nextIndex] = "none"
    BY <1>0 DEF LedgerIsTrue, FateIsTrue
  <2>2. Full => fate[o] = "queued"
    <3>1. Full => o \in Indexes /\ \E k \in 1 .. Len(queue) : queue[k].index = o
      BY <1>4, <1>7
    <3> QED BY <3>1 DEF LedgerIsTrue, FateIsTrue
  <2>3. ASSUME Full, Forgets = 1
        PROVE  /\ 1 \in 1 .. Len(dropped) /\ dropped[1] \in Indexes
               /\ fate[dropped[1]] = "dropped" /\ dropped[1] < o
               /\ lastDelivered < dropped[1] /\ dropped[1] < nextIndex
    <3>1. 1 \in 1 .. Len(dropped)
      BY <1>4, <1>6, <2>3
    <3>2. dropped[1] \in Indexes /\ FateIsTrue(dropped[1])
      BY <1>6, <3>1 DEF LedgerIsTrue
    <3>3. fate[dropped[1]] = "dropped"
      BY <3>1, <3>2 DEF FateIsTrue
    <3> QED BY <1>4, <1>5, <1>6, <2>3, <3>1, <3>2, <3>3
  <2> QED BY <2>1, <2>2, <2>3
<1>16. \A i \in Indexes :
         \/ /\ fate'[i] = fate[i] /\ i # nextIndex /\ (Full => i # o)
            /\ Full /\ Forgets = 1 => i # dropped[1]
         \/ i = nextIndex /\ fate'[i] = "queued"
         \/ Full /\ i = o /\ fate'[i] = "dropped" /\ i # nextIndex
         \/ Full /\ Forgets = 1 /\ i = dropped[1] /\ fate'[i] = "forgotten"
  BY <1>0, <1>3, <1>4, <1>7, <1>15
<1>17. \A d \in 1 .. n : dropped'[d] \in Indexes /\ dropped'[d] < nextIndex
  <2>1. \A d \in 1 .. n : dropped'[d] < queue'[last].index
    BY <1>2, <1>14 DEF InOrder
  <2>2. \A d \in 1 .. n : dropped'[d] \in Indexes
    BY <1>10, Numbers, ElementOfSeq DEF TypeOK
  <2> QED BY <1>2, <2>1, <2>2
<1>18. LedgerIsTrue'
  <2> SUFFICES ASSUME NEW i \in Indexes PROVE FateIsTrue(i)'
    BY DEF LedgerIsTrue
  <2>0. FateIsTrue(i) /\ i \in Int
    BY <1>0 DEF LedgerIsTrue
  <2>1. /\ fate'[i] = "sending" <=> Busy' /\ inHand'.index = i
        /\ fate'[i] = "delivered" => i <= lastDelivered'
        /\ i = lastDelivered' => fate'[i] = "delivered"
        /\ fate'[i] = "discarded" => ~active' /\ (Busy' => inHand'.index < i)
        /\ nextIndex' <= i => fate'[i] = "none"
    <3>1. CASE fate'[i] = fate[i] /\ i # nextIndex
      BY <1>0, <1>1, <2>0, <3>1 DEF FateIsTrue
    <3>2. CASE i = nextIndex /\ fate'[i] = "queued"
      BY <1>0, <1>1, <1>15, <2>0, <3>2 DEF FateIsTrue
    <3>3. CASE Full /\ i = o /\ fate'[i] = "dropped"
      BY <1>0, <1>1, <1>7, <1>15, <2>0, <3>3 DEF FateIsTrue
    <3>4. CASE Full /\ Forgets = 1 /\ i = dropped[1] /\ fate'[i] = "forgotten"
      BY <1>0, <1>1, <1>15, <2>0, <3>4 DEF FateIsTrue
    <3> QED BY <1>16, <3>1, <3>2, <3>3, <3>4
  <2>2. fate'[i] = "queued" <=> \E k \in 1 .. last : queue'[k].index = i
    <3>1. CASE i = nextIndex /\ fate'[i] = "queued"
      <4>1. last \in 1 .. last /\ queue'[last].index = i
        BY <1>2, <3>1
      <4> QED BY <3>1, <4>1
    <3>2. CASE Full /\ i = o /\ fate'[i] = "dropped" /\ i # nextIndex
      <4>1. ASSUME NEW k \in 1 .. last, queue'[k].index = i PROVE FALSE
        <5>1. k \in 1 .. last - 1
          BY <1>2, <3>2, <4>1
        <5>2. queue'[k] = queue[k + Shift] /\ k + Shift \in 1 .. Len(queue)
              /\ 1 \in 1 .. (k + Shift) - 1
          BY <1>2, <1>7, <3>2, <5>1
        <5>3. o < queue[k + Shift].index
          BY <1>5, <5>2
        <5> QED BY <1>7, <2>0, <3>2, <4>1, <5>2, <5>3
      <4> QED BY <3>2, <4>1
    <3>3. CASE Full /\ Forgets = 1 /\ i = dropped[1] /\ fate'[i] = "forgotten"
      <4>1. ASSUME NEW k \in 1 .. last, queue'[k].index = i PROVE FALSE
        <5>1. k \in 1 .. last - 1
          <6>1. dropped[1] # nextIndex
            BY <1>15, <3>3
          <6>2. k # last
            BY <1>2, <3>3, <4>1, <6>1
          <6> QED BY <1>2, <4>1, <6>2
        <5>2. queue'[k] = queue[k + Shift] /\ k + Shift \in 1 .. Len(queue)
          BY <1>2, <5>1
        <5>3. dropped[1] < queue[k + Shift].index
          BY <1>5, <1>15, <3>3, <5>2
        <5> QED BY <2>0, <3>3, <4>1, <5>2, <5>3
      <4> QED BY <3>3, <4>1
    <3>4. CASE fate'[i] = fate[i] /\ i # nextIndex /\ (Full => i # o)
      <4>1. ASSUME NEW k \in 1 .. last, queue'[k].index = i
            PROVE  \E j \in 1 .. Len(queue) : queue[j].index = i
        <5>1. k \in 1 .. last - 1
          BY <1>2, <3>4, <4>1
        <5> QED BY <1>2, <4>1, <5>1
      <4>2. ASSUME NEW j \in 1 .. Len(queue), queue[j].index = i
            PROVE  \E k \in 1 .. last : queue'[k].index = i
        <5>1. Full => j # 1
          BY <3>4, <4>2
        <5>2. j - Shift \in 1 .. last - 1 /\ (j - Shift) + Shift = j
          BY <1>2, <1>7, <1>8, <5>1
        <5>3. queue'[j - Shift] = queue[j] /\ j - Shift \in 1 .. last
          BY <1>2, <5>2
        <5> QED BY <4>2, <5>3
      <4>3. fate[i] = "queued" <=> \E k \in 1 .. Len(queue) : queue[k].index = i
        BY <2>0 DEF FateIsTrue
      <4> QED BY <3>4, <4>1, <4>2, <4>3
    <3> QED BY <1>16, <3>1, <3>2, <3>3, <3>4
  <2>3. fate'[i] = "dropped" /\ i > lastDelivered <=> \E d \in 1 .. n : dropped'[d] = i
    <3>1. CASE i = nextIndex /\ fate'[i] = "queued"
      BY <1>0, <1>17, <3>1
    <3>2. CASE Full /\ i = o /\ fate'[i] = "dropped"
      <4>1. n \in 1 .. n /\ dropped'[n] = i
        BY <1>4, <1>6, <3>2
      <4> QED BY <1>7, <2>0, <3>2, <4>1
    <3>3. CASE Full /\ Forgets = 1 /\ i = dropped[1] /\ fate'[i] = "forgotten"
      <4>1. ASSUME NEW d \in 1 .. n, dropped'[d] = i PROVE FALSE
        <5>1. d \in 1 .. n - 1
          BY <1>0, <1>4, <1>6, <1>7, <1>15, <3>3, <4>1
        <5>2. dropped'[d] = dropped[d + Forgets] /\ d + Forgets \in 1 .. Len(dropped)
              /\ 1 \in 1 .. (d + Forgets) - 1
          BY <1>4, <3>3, <5>1
        <5>3. dropped[1] < dropped[d + Forgets]
          BY <1>6, <5>2
        <5> QED BY <2>0, <3>3, <4>1, <5>2, <5>3
      <4> QED BY <3>3, <4>1
    <3>4. CASE /\ fate'[i] = fate[i] /\ (Full => i # o)
               /\ Full /\ Forgets = 1 => i # dropped[1]
      <4>0. fate[i] = "dropped" /\ i > lastDelivered <=> \E d \in 1 .. Len(dropped) : dropped[d] = i
        BY <2>0 DEF FateIsTrue
      <4>1. CASE ~Full
        BY <1>3, <3>4, <4>0, <4>1
      <4>2. CASE Full
        <5>1. ASSUME NEW d \in 1 .. n, dropped'[d] = i
              PROVE  \E e \in 1 .. Len(dropped) : dropped[e] = i
          <6>1. d \in 1 .. n - 1
            BY <1>4, <1>6, <3>4, <4>2, <5>1
          <6> QED BY <1>4, <4>2, <5>1, <6>1
        <5>2. ASSUME NEW e \in 1 .. Len(dropped), dropped[e] = i
              PROVE  \E d \in 1 .. n : dropped'[d] = i
          <6>1. Forgets = 1 => e # 1
            BY <3>4, <4>2, <5>2
          <6>2. e - Forgets \in 1 .. n - 1 /\ (e - Forgets) + Forgets = e
            BY <1>4, <1>6, <4>2, <6>1
          <6>3. dropped'[e - Forgets] = dropped[e] /\ e - Forgets \in 1 .. n
            BY <1>4, <4>2, <6>2
          <6> QED BY <5>2, <6>3
        <5> QED BY <3>4, <4>0, <5>1, <5>2
      <4> QED BY <4>1, <4>2
    <3> QED BY <1>16, <3>1, <3>2, <3>3, <3>4
  <2> QED BY <1>0, <2>1, <2>2, <2>3 DEF FateIsTrue
<1>19. NoHoles'
  <2>1. \A i \in Indexes : i # nextIndex => (fate'[i] = "none" <=> fate[i] = "none")
    BY <1>15, <1>16
  <2>2. fate'[nextIndex] # "none"
    BY <1>0, <1>7, <1>15, <1>16
  <2>3. \A j \in Indexes : nextIndex < j => fate'[j] = "none"
    BY <1>0, <1>18 DEF LedgerIsTrue, FateIsTrue
  <2> QED BY <1>0, <1>1, <2>1, <2>2, <2>3 DEF NoHoles
<1>20. Verdict'
  <2>1. ASSUME NEW i \in Indexes, i <= lastDelivered PROVE fate'[i] = fate[i]
    <3>1. i \in Int /\ i # nextIndex BY <1>0, <2>1
    <3>2. ~(Full /\ i = o)
      <4>1. Full => o \in Int BY <1>0, <1>7
      <4> QED BY <1>0, <1>7, <2>1, <3>1, <4>1
    <3>3. ~(Full /\ Forgets = 1 /\ i = dropped[1])
      <4>1. Full /\ Forgets = 1 => lastDelivered < dropped[1] /\ dropped[1] \in Int
        BY <1>0, <1>15
      <4> QED BY <1>0, <2>1, <3>1, <4>1
    <3> QED BY <1>16, <3>1, <3>2, <3>3
  <2> QED BY <1>0, <2>1, VerdictKept
<1> QED
  BY <1>10, <1>11, <1>12, <1>13, <1>14, <1>18, <1>19, <1>20

-----------------------------------------------------------------------------
LEMMA NextInv == ASSUME IInv, [Next]_vars PROVE IInv'
<1>1. CASE SetExternalOutputTargets
  BY <1>1, SetTargetsInv
<1>2. CASE Rebuild
  BY <1>2, ReadAssignmentsInv, StopSinkInv, JoinSinkInv, ClearDirtyInv, StartSinkInv DEF Rebuild
<1>3. ASSUME NEW p \in Payloads, DispatchTick(p) PROVE IInv'
  BY <1>3, TickPassesInv, TickSubmitsInv
<1>4. CASE SinkThread
  BY <1>4, TakeFrameInv, SettleInv, InnerSubmitInv DEF SinkThread
<1>5. CASE UNCHANGED vars
  <2> USE <1>5 DEF IInv, vars, operatorVars, rebuildVars, dispatchVars, queueVars, switchVars,
                   statusVars, threadVars, ledgerVars, Busy
  <2>1. TypeOK'
    BY DEF TypeOK
  <2>2. Rebuilding' /\ Phases'
    BY DEF Rebuilding, LatestTargetsApplied, Phases
  <2> QED BY <2>1, <2>2, SinkLeftAlone
<1> QED
  BY <1>1, <1>2, <1>3, <1>4, <1>5 DEF Next

LEMMA Inductive == Spec => []IInv
BY InitInv, NextInv, PTL DEF Spec

(* The variables keep their types, and the sink its two bounds: neither the *)
(* queue nor the list of remembered drops grows beyond them.                *)
THEOREM TypeCorrect == Spec => []TypeOK
<1>1. IInv => TypeOK
  BY DEF IInv
<1> QED
  BY <1>1, Inductive, PTL

(* Whatever overflow and stop() threw away, an idle sink whose last send    *)
(* succeeded shows the frame the dispatcher submitted last.                 *)
THEOREM NewestFrameSurvives == Spec => []NewestSurvives
<1>1. IInv => NewestSurvives
  BY DEF IInv, Phases, NewestIsAhead, NewestSurvives, Idle, Busy
<1> QED
  BY <1>1, Inductive, PTL

(* workerLoop() calls a gap a delivery error just when an index in it was   *)
(* lost to something else than a remembered overflow.                       *)
THEOREM GapsHaveTheirCause == Spec => []GapsAreJudgedRightly
<1>1. IInv => GapsAreJudgedRightly
  BY DEF IInv, Verdict
<1> QED
  BY <1>1, Inductive, PTL

(* When rebuildOutputEndpoints() leaves nothing to do, the endpoints are    *)
(* those of the operator's last edit.                                       *)
THEOREM EditsAreApplied == Spec => []LatestTargetsApplied
<1>1. IInv => LatestTargetsApplied
  BY DEF IInv, Rebuilding
<1> QED
  BY <1>1, Inductive, PTL

-----------------------------------------------------------------------------
(* The clock of the output.  What follows is about OutputClock: for any      *)
(* recording, lateness, catch-up cap and number of commands, no deadline     *)
(* miss is hidden, and a fresh clock samples where the transport is.         *)
WallFrames == FramesIn(wall)
CallFrames == FramesIn(elapsed)

ClockNumbers ==
  /\ wall \in Nat /\ clockIndex \in Nat /\ elapsed \in Nat /\ commands \in Nat
  /\ WallFrames \in Nat /\ CallFrames \in Nat
  /\ pos \in Int /\ playing \in BOOLEAN
  /\ DOMAIN tick = DOMAIN NoTick

(* The output is never ahead of the wall clock and at most MaxLag late, and  *)
(* no tick of a call is dispatched before its time.                         *)
OnTime ==
  /\ clockIndex <= WallFrames + 1 /\ WallFrames - clockIndex <= MaxLag
  /\ elapsed <= wall /\ CallFrames <= WallFrames
  /\ out # "idle" => clockIndex <= CallFrames

(* What a call leaves behind, by the numbers it works with.                 *)
Reported ==
  out = "idle" /\ clockIndex > 0 =>
    clockIndex <= CallFrames + 1 /\ missed = CallFrames + 1 - clockIndex

(* The transport has been read and the tick is not dispatched yet.          *)
SnapshotTaken == out \in {"mark", "fly"}

(* What the clock may owe after c commands, without a product.              *)
LagRoom(c) == MaxLag * c

(* The first index the transport is still to be read for.                   *)
NextRead == IF out = "fly" /\ tick.playing THEN clockIndex + 1 ELSE clockIndex

(* How far an epoch may be ahead of the transport: one lag for every command *)
(* (a pause that began and ended between two ticks), and while the recording *)
(* is paused what has passed since the transport was last read.             *)
Debt == IF playing THEN LagRoom(commands + 1) ELSE LagRoom(commands) + (WallFrames - NextRead + 1)

(* How far the transport fell behind the wall clock since it was at p at i.  *)
Behind(p, i) == (WallFrames - i) - (pos - p)

(* Position p at index i, moved on at the output's rate, is where the        *)
(* transport is but for that debt.                                          *)
Honest(p, i) ==
  p \in Int /\ i \in Int /\ 0 <= Behind(p, i) /\ Behind(p, i) <= Debt

(* A snapshot nobody has passed holds exactly when a seek is outstanding, it *)
(* took an honest position, and so did the epoch.                           *)
GateIsRead ==
  out \in {"pos", "mark", "fly"} /\ ~passed => (tick.held <=> committedGen # seekGen)

SnapshotHonest ==
  SnapshotTaken /\ ~passed /\ ~tick.held /\ ~guarded /\ ui = "idle"
    => Honest(tick.pos, clockIndex)

Current == epoch # NoEpoch /\ ~epoch.overtaken /\ ui = "idle" /\ worker # "reset"
EpochHonest ==
  Current /\ committedGen = seekGen /\ ~guarded /\ ~(SnapshotTaken /\ tick.reset)
    => Honest(epoch.pos, epoch.index)

(* What the epoch gives for this tick and what the snapshot took are near.   *)
EpochTogether ==
  SnapshotTaken /\ ~tick.reset /\ Current /\ ~passed /\ ~tick.held /\ ~guarded
    => Near(epoch.pos + (clockIndex - epoch.index), tick.pos)

(* Whoever passed the snapshot has reset the epoch by the time he is done.   *)
OvertakenResets == passed /\ Settled => epoch = NoEpoch

ClockInv ==
  /\ ClockNumbers /\ OnTime /\ Reported
  /\ GateIsRead /\ SnapshotHonest /\ EpochHonest /\ EpochTogether /\ OvertakenResets

-----------------------------------------------------------------------------
(* The schedule rounded up and the elapsed time rounded down name the same  *)
(* frames, those whose exact time has come.                                 *)
LEMMA Quotient ==
  ASSUME NEW a \in Nat, NEW b \in Nat \ {0}
  PROVE  a \div b \in Nat /\ b * (a \div b) <= a /\ a < b * (a \div b) + b
OBVIOUS

LEMMA TimesGrows ==
  ASSUME NEW a \in Nat, NEW b \in Nat, NEW c \in Nat, a <= b
  PROVE  c * a <= c * b /\ a * c <= b * c
OBVIOUS

LEMMA TimesIsNatural ==
  ASSUME NEW a \in Nat, NEW b \in Nat
  PROVE  a * b \in Nat /\ (a * (b + 1) = a * b + a)
OBVIOUS

LEMMA WholeFrames ==
  ASSUME ClockAssumption, NEW e \in Nat
  PROVE  /\ FramesIn(e) \in Nat /\ e * Numerator \in Nat
         /\ Denominator * FramesIn(e) <= e * Numerator
         /\ e * Numerator < Denominator * FramesIn(e) + Denominator
<1>1. Numerator \in Nat /\ Denominator \in Nat \ {0} BY DEF ClockAssumption
<1>2. e * Numerator \in Nat BY <1>1, TimesIsNatural
<1> QED BY <1>1, <1>2, Quotient DEF FramesIn

(* A frame's time has come, exactly, ...                                    *)
LEMMA ComeInTime ==
  ASSUME ClockAssumption, NEW e \in Nat, NEW i \in Nat
  PROVE  i * Denominator <= e * Numerator <=> i <= FramesIn(e)
<1>1. /\ FramesIn(e) \in Nat /\ e * Numerator \in Nat
      /\ Denominator * FramesIn(e) <= e * Numerator
      /\ e * Numerator < Denominator * FramesIn(e) + Denominator
  BY WholeFrames
<1>2. Denominator \in Nat BY DEF ClockAssumption
<1>3. PICK f \in Nat : f = FramesIn(e) BY <1>1
<1>4. PICK x \in Nat : x = e * Numerator BY <1>1
<1>5. PICK y \in Nat : y = i * Denominator BY <1>2, TimesIsNatural
<1>6. y = Denominator * i BY <1>2, <1>5
<1>7. PICK z \in Nat : z = Denominator * f BY <1>2, <1>3, TimesIsNatural
<1>8. z <= x /\ x < z + Denominator BY <1>1, <1>3, <1>4, <1>7
<1>9. CASE i <= f
  <2>1. Denominator * i <= Denominator * f BY <1>2, <1>9, TimesGrows
  <2>2. y <= x BY <1>6, <1>7, <1>8, <2>1
  <2> QED BY <1>3, <1>4, <1>5, <1>9, <2>2
<1>10. CASE ~(i <= f)
  <2>1. f + 1 \in Nat /\ f + 1 <= i BY <1>10
  <2>2. Denominator * (f + 1) <= Denominator * i BY <1>2, <2>1, TimesGrows
  <2>3. Denominator * (f + 1) = Denominator * f + Denominator BY <1>2, TimesIsNatural
  <2>4. x < y BY <1>2, <1>6, <1>7, <1>8, <2>2, <2>3
  <2> QED BY <1>3, <1>4, <1>5, <1>10, <2>4
<1> QED BY <1>9, <1>10

(* ... just when its schedule in whole units of time is reached.            *)
LEMMA Scheduled ==
  ASSUME ClockAssumption, NEW e \in Nat, NEW i \in Nat
  PROVE  FrameIndexToNsCeil(i) <= e <=> i <= FramesIn(e)
<1>1. Numerator \in Nat \ {0} /\ Denominator \in Nat /\ Numerator - 1 \in Nat BY DEF ClockAssumption
<1>2. PICK y \in Nat : y = i * Denominator BY <1>1, TimesIsNatural
<1>3. PICK x \in Nat : x = e * Numerator BY <1>1, TimesIsNatural
<1>4. PICK a \in Nat : a = y + (Numerator - 1) BY <1>1
<1>5. a \div Numerator \in Nat /\ Numerator * (a \div Numerator) <= a
      /\ a < Numerator * (a \div Numerator) + Numerator
  BY <1>1, Quotient
<1>6. PICK c \in Nat : c = a \div Numerator BY <1>5
<1>7. c = FrameIndexToNsCeil(i) BY <1>2, <1>4, <1>6 DEF FrameIndexToNsCeil
<1>8. PICK z \in Nat : z = Numerator * c BY <1>1, TimesIsNatural
<1>9. z <= a /\ a < z + Numerator BY <1>5, <1>6, <1>8
<1>10. x = Numerator * e BY <1>1, <1>3
<1>11. c <= e <=> y <= x
  <2>1. CASE c <= e
    <3>1. Numerator * c <= Numerator * e BY <1>1, <2>1, TimesGrows
    <3> QED BY <1>1, <1>4, <1>8, <1>9, <1>10, <2>1, <3>1
  <2>2. CASE ~(c <= e)
    <3>1. e + 1 \in Nat /\ e + 1 <= c BY <2>2
    <3>2. Numerator * (e + 1) <= Numerator * c BY <1>1, <3>1, TimesGrows
    <3>3. Numerator * (e + 1) = Numerator * e + Numerator BY <1>1, TimesIsNatural
    <3>4. x + Numerator <= z BY <1>8, <1>10, <3>2, <3>3
    <3> QED BY <1>1, <1>4, <1>9, <2>2, <3>4
  <2> QED BY <2>1, <2>2
<1>12. y <= x <=> i <= FramesIn(e) BY <1>2, <1>3, ComeInTime
<1> QED BY <1>7, <1>11, <1>12

LEMMA FramesGrow ==
  ASSUME ClockAssumption, NEW d \in Nat, NEW e \in Nat, d <= e
  PROVE  FramesIn(d) <= FramesIn(e)
<1>1. Numerator \in Nat BY DEF ClockAssumption
<1>2. FramesIn(d) \in Nat BY WholeFrames
<1>3. FramesIn(d) * Denominator <= d * Numerator BY <1>2, ComeInTime
<1>4. d * Numerator <= e * Numerator BY <1>1, TimesGrows
<1>5. PICK x \in Nat : x = d * Numerator BY <1>1, TimesIsNatural
<1>6. PICK y \in Nat : y = e * Numerator BY <1>1, TimesIsNatural
<1>7. PICK z \in Nat : z = FramesIn(d) * Denominator
  BY <1>2, TimesIsNatural DEF ClockAssumption
<1>8. z <= y BY <1>3, <1>4, <1>5, <1>6, <1>7
<1> QED BY <1>2, <1>6, <1>7, <1>8, ComeInTime

LEMMA FramesStay ==
  ASSUME UNCHANGED <<wall, elapsed>>
  PROVE  WallFrames' = WallFrames /\ CallFrames' = CallFrames
BY DEF WallFrames, CallFrames, FramesIn

LEMMA MoreThanNone == ASSUME NEW x \in Nat PROVE Max({0, x}) = x
<1>1. \A y \in {0, x} : x >= y OBVIOUS
<1>2. Max({0, x}) = CHOOSE z \in {0, x} : \A y \in {0, x} : z >= y BY DEF Max
<1> QED BY <1>1, <1>2

(* The report names exactly the frames whose time has come and that are not *)
(* sent.                                                                    *)
LEMMA ReportsAreTrue ==
  ASSUME ClockAssumption, ClockNumbers, Reported
  PROVE  MissIsReported
<1> SUFFICES ASSUME out = "idle", clockIndex > 0
             PROVE  TimeHasCome(clockIndex - 1) /\ missed = Cardinality(LeftBehind)
  BY DEF MissIsReported
<1>1. /\ clockIndex \in Nat /\ elapsed \in Nat /\ CallFrames \in Nat
      /\ clockIndex <= CallFrames + 1 /\ missed = CallFrames + 1 - clockIndex
  BY DEF ClockNumbers, Reported
<1>2. \A i \in Nat : TimeHasCome(i) <=> i <= CallFrames
  BY <1>1, ComeInTime DEF TimeHasCome, CallFrames
<1>3. TimeHasCome(clockIndex - 1) BY <1>1, <1>2
<1>4. elapsed * Numerator \in Nat /\ CallFrames <= elapsed * Numerator
  <2>1. /\ elapsed * Numerator \in Nat
        /\ Denominator * CallFrames <= elapsed * Numerator
    BY <1>1, WholeFrames DEF CallFrames
  <2>2. Denominator \in Nat /\ 1 <= Denominator BY DEF ClockAssumption
  <2>3. 1 * CallFrames <= Denominator * CallFrames BY <1>1, <2>2, TimesGrows
  <2>4. 1 * CallFrames = CallFrames BY <1>1
  <2>5. PICK x \in Nat : x = elapsed * Numerator BY <2>1
  <2>6. PICK y \in Nat : y = Denominator * CallFrames BY <1>1, <2>2, TimesIsNatural
  <2> QED BY <1>1, <2>1, <2>3, <2>4, <2>5, <2>6
<1>5. LeftBehind = clockIndex .. CallFrames
  <2>1. PICK x \in Nat : x = elapsed * Numerator BY <1>4
  <2>2. \A i \in clockIndex .. x : i \in Nat BY <1>1
  <2>3. LeftBehind = {i \in clockIndex .. x : i <= CallFrames}
    BY <1>2, <2>1, <2>2 DEF LeftBehind
  <2> QED BY <1>1, <1>4, <2>1, <2>3
<1>6. Cardinality(clockIndex .. CallFrames)
        = IF clockIndex > CallFrames THEN 0 ELSE CallFrames - clockIndex + 1
  BY <1>1, FS_Interval
<1>7. missed = Cardinality(LeftBehind) BY <1>1, <1>5, <1>6
<1> QED BY <1>3, <1>7

LEMMA LagRoomFacts ==
  ASSUME ClockAssumption, NEW c \in Nat
  PROVE  /\ LagRoom(c) \in Nat /\ LagRoom(c + 1) \in Nat
         /\ LagRoom(c + 1) = LagRoom(c) + MaxLag
         /\ LagRoom(c + 2) = LagRoom(c) + MaxLag + MaxLag
         /\ LagRoom(c + 1) = (1 + c) * MaxLag
         /\ MaxLag \in Nat /\ MaxLag >= 1
<1>1. MaxLag \in Nat /\ MaxLag >= 1
  BY DEF ClockAssumption
<1> QED BY <1>1 DEF LagRoom

(* What the main thread's seek and the playback thread leave alone.         *)
clockReads == <<wall, pos, playing, commands, clockIndex, elapsed, missed, out, guarded, tick>>

(* A step of the main thread or of the playback thread that resets the      *)
(* epoch or leaves it, and marks the snapshot it may have passed.           *)
LEMMA EditKeeps ==
  ASSUME ClockInv, UNCHANGED clockReads, Overtake,
         UNCHANGED epoch \/ epoch' = NoEpoch,
         epoch' = NoEpoch \/ ~Settled' \/ (Settled /\ UNCHANGED passed),
         epoch' = NoEpoch \/ ui' # "idle" \/ worker' = "reset"
           \/ (UNCHANGED <<ui, committedGen, seekGen>> /\ worker # "reset")
  PROVE  ClockInv'
<1> USE DEF clockReads
<1>0. WallFrames' = WallFrames /\ CallFrames' = CallFrames BY FramesStay
<1>1. ClockNumbers' /\ OnTime' /\ Reported'
  BY <1>0 DEF ClockInv, ClockNumbers, OnTime, Reported
<1>2. out' \in {"pos", "mark", "fly"} => passed'
  BY DEF Overtake
<1>3. GateIsRead' /\ SnapshotHonest' /\ EpochTogether'
  BY <1>2 DEF GateIsRead, SnapshotHonest, EpochTogether, SnapshotTaken
<1>4. EpochHonest'
  <2>1. SUFFICES ASSUME Current', committedGen' = seekGen', ~guarded',
      ~(SnapshotTaken' /\ tick'.reset)
                 PROVE  Honest(epoch.pos, epoch.index)'
    BY DEF EpochHonest
  <2>2. /\ epoch' = epoch /\ Current /\ committedGen = seekGen
        /\ ~guarded /\ ~(SnapshotTaken /\ tick.reset)
    BY <2>1 DEF Current, SnapshotTaken
  <2>3. Honest(epoch.pos, epoch.index)
    BY <2>2 DEF ClockInv, EpochHonest
  <2> QED BY <1>0, <2>2, <2>3 DEF Honest, Behind, Debt, NextRead
<1>5. OvertakenResets'
  BY DEF ClockInv, OvertakenResets
<1> QED BY <1>1, <1>3, <1>4, <1>5 DEF ClockInv

(* A step of the playback thread that no snapshot can tell.                 *)
LEMMA QuietKeeps ==
  ASSUME ClockInv, UNCHANGED <<clockReads, ui, committedGen, seekGen,
      epoch, passed>>,
         worker # "reset", worker' # "reset", Settled' => Settled
  PROVE  ClockInv'
<1> USE DEF clockReads
<1>0. WallFrames' = WallFrames /\ CallFrames' = CallFrames BY FramesStay
<1>1. ClockNumbers' /\ OnTime' /\ Reported'
  BY <1>0 DEF ClockInv, ClockNumbers, OnTime, Reported
<1>2. GateIsRead' /\ SnapshotHonest' /\ EpochHonest'
  BY <1>0 DEF ClockInv, GateIsRead, SnapshotHonest, EpochHonest, SnapshotTaken, Current,
      Honest, Behind, Debt, NextRead
<1>3. EpochTogether' /\ OvertakenResets'
  BY DEF ClockInv, EpochTogether, SnapshotTaken, Current, Near, Tolerance,
      OvertakenResets
<1> QED BY <1>1, <1>2, <1>3 DEF ClockInv

LEMMA ClockBegins ==
  ASSUME ClockAssumption
  PROVE  ClockInit => ClockInv
<1> SUFFICES ASSUME ClockInit PROVE ClockInv
  OBVIOUS
<1>1. Trail + 1 \in Int /\ MaxLag \in Nat
  BY DEF ClockAssumption
<1>2. WallFrames \in Nat /\ CallFrames = WallFrames
  BY WholeFrames DEF ClockInit, WallFrames, CallFrames
<1>3. WallFrames = 0
  <2>1. wall = 0 /\ Numerator \in Nat /\ Denominator \in Nat \ {0} BY DEF ClockInit, ClockAssumption
  <2>2. wall * Numerator = 0 BY <2>1
  <2>3. Denominator * WallFrames <= 0 BY <2>1, <2>2, WholeFrames DEF WallFrames
  <2>4. 1 * WallFrames <= Denominator * WallFrames BY <1>2, <2>1, TimesGrows
  <2>5. PICK x \in Nat : x = Denominator * WallFrames BY <1>2, <2>1, TimesIsNatural
  <2>6. 1 * WallFrames = WallFrames BY <1>2
  <2> QED BY <1>2, <2>3, <2>4, <2>5, <2>6
<1> QED BY <1>1, <1>2, <1>3 DEF ClockInit, ClockInv, ClockNumbers, OnTime, Reported,
    GateIsRead, SnapshotHonest,
         EpochHonest, EpochTogether, OvertakenResets, SnapshotTaken, Current

(* With the same read of the transport, the output being at most MaxLag     *)
(* late and a command more, what was honest stays so.                       *)
LEMMA SetPlayingKeeps ==
  ASSUME ClockAssumption, ClockInv, SetPlaying
  PROVE  ClockInv'
<1> USE DEF SetPlaying, Command, gateVars, workerVars,
    runtimeVars, snapVars, paintVars
<1>0. WallFrames' = WallFrames /\ CallFrames' = CallFrames BY FramesStay
<1>1. ClockNumbers' /\ OnTime' /\ Reported'
  BY <1>0 DEF ClockInv, ClockNumbers, OnTime, Reported
<1>2. ASSUME NEW p, NEW i, Honest(p, i) PROVE Honest(p, i)'
  <2>1. LagRoom(commands) \in Nat /\ LagRoom(commands + 1) = LagRoom(commands) + MaxLag
        /\ LagRoom(commands + 2) = LagRoom(commands) + MaxLag + MaxLag
        /\ MaxLag \in Nat /\ MaxLag >= 1
    BY LagRoomFacts DEF ClockInv, ClockNumbers
  <2>2. commands' = commands + 1 /\ commands' + 1 = commands + 2 /\ playing' = ~playing
    BY DEF ClockInv, ClockNumbers
  <2>3. /\ NextRead' = NextRead /\ NextRead \in Nat /\ WallFrames \in Nat
        /\ NextRead <= WallFrames + 1 /\ WallFrames - NextRead <= MaxLag
    BY <2>1 DEF ClockInv, ClockNumbers, OnTime, NextRead
  <2>4. Debt <= Debt' /\ Debt \in Int /\ Debt' \in Int
    <3>1. CASE playing
      BY <1>0, <2>1, <2>2, <2>3, <3>1 DEF Debt
    <3>2. CASE ~playing
      BY <1>0, <2>1, <2>2, <2>3, <3>2 DEF Debt
    <3> QED BY <3>1, <3>2
  <2>5. Behind(p, i)' = Behind(p, i) /\ Behind(p, i) \in Int
    BY <1>0, <1>2 DEF ClockInv, ClockNumbers, Behind, Honest
  <2> QED BY <1>2, <2>4, <2>5 DEF Honest
<1>3. GateIsRead' /\ SnapshotHonest'
  BY <1>2 DEF ClockInv, GateIsRead, SnapshotHonest, SnapshotTaken
<1>4. EpochHonest'
  BY <1>2 DEF ClockInv, EpochHonest, SnapshotTaken, Current
<1>5. EpochTogether'
  <2>1. Tolerance \in Int /\ Tolerance' \in Int /\ Tolerance <= Tolerance'
    <3>1. Tolerance = LagRoom(commands + 1) /\ Tolerance' = LagRoom(commands + 2)
      <4>1. commands + 1 \in Nat /\ commands + 1 + 1 = commands + 2 /\ commands \in Nat
        BY DEF ClockInv, ClockNumbers
      <4>2. LagRoom(commands + 2) = (1 + (commands + 1)) * MaxLag
        BY <4>1, LagRoomFacts
      <4>3. LagRoom(commands + 1) = (1 + commands) * MaxLag
        BY <4>1, LagRoomFacts
      <4> QED BY <4>2, <4>3 DEF Tolerance
    <3>2. LagRoom(commands) \in Nat /\ LagRoom(commands + 1) = LagRoom(commands) + MaxLag
          /\ LagRoom(commands + 2) = LagRoom(commands) + MaxLag + MaxLag /\ MaxLag \in Nat
      BY LagRoomFacts DEF ClockInv, ClockNumbers
    <3> QED BY <3>1, <3>2
  <2>2. SUFFICES ASSUME SnapshotTaken, ~tick.reset, Current, ~passed, ~tick.held, ~guarded
                 PROVE  Near(epoch.pos + (clockIndex - epoch.index), tick.pos)'
    BY DEF EpochTogether, SnapshotTaken, Current
  <2>3. Near(epoch.pos + (clockIndex - epoch.index), tick.pos)
    BY <2>2 DEF ClockInv, EpochTogether
  <2>4. tick.pos \in Int
    BY <2>2 DEF ClockInv, SnapshotHonest, Current, Honest
  <2>5. epoch.pos \in Int /\ epoch.index \in Int /\ clockIndex \in Int
    <3>1. committedGen = seekGen
      BY <2>2 DEF ClockInv, GateIsRead, SnapshotTaken
    <3> QED BY <2>2, <3>1 DEF ClockInv, EpochHonest, Honest, ClockNumbers
  <2> QED BY <2>1, <2>3, <2>4, <2>5 DEF Near
<1>6. OvertakenResets'
  BY DEF ClockInv, OvertakenResets, Settled
<1> QED BY <1>1, <1>3, <1>4, <1>5, <1>6 DEF ClockInv

LEMMA WallTickKeeps ==
  ASSUME ClockAssumption, ClockInv, WallTick
  PROVE  ClockInv'
<1> USE DEF WallTick, uiVars, gateVars, workerVars, runtimeVars,
    snapVars, paintVars
<1>0. /\ WallFrames \in Nat /\ WallFrames' \in Nat /\ WallFrames <= WallFrames'
      /\ WallFrames' - clockIndex <= MaxLag /\ CallFrames' = CallFrames
  <2>1. wall \in Nat /\ wall' = wall + 1 BY DEF ClockInv, ClockNumbers
  <2>2. WallFrames' = FramesIn(wall + 1) /\ CallFrames' = CallFrames
    BY <2>1 DEF WallFrames, CallFrames, FramesIn
  <2>3. wall + 1 \in Nat /\ wall <= wall + 1 BY <2>1
  <2>4. FramesIn(wall) \in Nat /\ FramesIn(wall + 1) \in Nat BY <2>1, <2>3, WholeFrames
  <2>5. FramesIn(wall) <= FramesIn(wall + 1) BY <2>1, <2>3, FramesGrow
  <2> QED BY <2>2, <2>4, <2>5 DEF WallFrames
<1>13. WallFrames \in Nat /\ WallFrames' \in Nat /\ WallFrames <= WallFrames' BY <1>0
<1>7. /\ UNCHANGED <<playing, commands, ui, committedGen, seekGen, worker, clockIndex, missed, out,
                    guarded, tick, epoch, passed, elapsed>>
      /\ wall' = wall + 1 /\ wall \in Nat /\ MaxLag \in Nat
  BY DEF ClockInv, ClockNumbers, ClockAssumption
<1>11. (playing => pos' = pos + (WallFrames' - WallFrames)) /\ (~playing => pos' = pos)
  <2>1. WallFrames' = FramesIn(wall + 1) BY <1>7 DEF WallFrames, FramesIn
  <2>2. pos' = IF playing THEN pos + (FramesIn(wall + 1) - WallFrames) ELSE pos BY DEF WallFrames
  <2> QED BY <2>1, <2>2, Zenon
<1> HIDE DEF WallTick
<1>8. /\ pos \in Int /\ playing \in BOOLEAN /\ clockIndex \in Nat /\ elapsed \in Nat /\ commands \in Nat
      /\ CallFrames \in Nat /\ DOMAIN tick = DOMAIN NoTick
  BY DEF ClockInv, ClockNumbers
<1>12. pos \in Int /\ clockIndex \in Nat /\ elapsed \in Nat /\ CallFrames \in Nat BY <1>8
<1>9. ClockNumbers'
  <2>1. pos' \in Int
    <3>0. WallFrames' - WallFrames \in Int BY <1>0
    <3>1. PICK d \in Int : d = WallFrames' - WallFrames BY <3>0
    <3>2. pos' = pos + d \/ pos' = pos BY <1>11, <3>1
    <3> QED BY <1>8, <3>1, <3>2
  <2>2. wall' \in Nat BY <1>7
  <2> QED BY <1>0, <1>7, <1>8, <2>1, <2>2 DEF ClockNumbers, NoTick
<1>10. OnTime'
  <2>1. /\ clockIndex <= WallFrames + 1 /\ elapsed <= wall /\ CallFrames <= WallFrames
        /\ out # "idle" => clockIndex <= CallFrames
    BY DEF ClockInv, OnTime
  <2>2. clockIndex' = clockIndex /\ elapsed' = elapsed /\ out' = out /\ wall' = wall + 1 BY <1>7
  <2>8. clockIndex <= WallFrames + 1 BY <2>1
  <2>9. clockIndex' = clockIndex BY <2>2
  <2>3. clockIndex' <= WallFrames' + 1
    <3>1. PICK w \in Nat : w = WallFrames BY <1>13
    <3>2. PICK x \in Nat : x = WallFrames' BY <1>13
    <3>3. PICK c \in Nat : c = clockIndex BY <1>12
    <3>4. c <= w + 1 /\ w <= x BY <1>13, <2>8, <3>1, <3>2, <3>3
    <3>5. c <= x + 1 BY <3>4
    <3> QED BY <2>9, <3>2, <3>3, <3>5
  <2>4. WallFrames' - clockIndex' <= MaxLag BY <1>0, <2>2
  <2>5. elapsed' <= wall' BY <1>7, <1>8, <2>1, <2>2
  <2>6. CallFrames' <= WallFrames' BY <1>0, <1>8, <2>1
  <2>7. out' # "idle" => clockIndex' <= CallFrames' BY <1>0, <2>1, <2>2
  <2> QED BY <2>3, <2>4, <2>5, <2>6, <2>7 DEF OnTime
<1>1. ClockNumbers' /\ OnTime' /\ Reported'
  BY <1>0, <1>7, <1>9, <1>10 DEF ClockInv, Reported
<1>2. ASSUME NEW p, NEW i, Honest(p, i) PROVE Honest(p, i)'
  <2>1. LagRoom(commands) \in Nat /\ LagRoom(commands + 1) \in Nat
    <3>1. commands \in Nat
      BY DEF ClockInv, ClockNumbers
    <3> QED BY <3>1, LagRoomFacts
  <2>2. NextRead' = NextRead /\ NextRead \in Nat /\ pos \in Int
    BY <1>7 DEF ClockInv, ClockNumbers, NextRead
  <2>5. commands' = commands /\ playing' = playing BY <1>7
  <2>6. p \in Int /\ i \in Int /\ 0 <= Behind(p, i) /\ Behind(p, i) <= Debt BY <1>2 DEF Honest
  <2>13. p \in Int /\ i \in Int BY <2>6
  <2>7. PICK w \in Int : w = WallFrames BY <1>13
  <2>8. PICK x \in Int : x = WallFrames' BY <1>13
  <2>9. PICK q \in Int : q = pos BY <2>2
  <2>10. PICK d \in Int : d = NextRead BY <2>2
  <2>11. PICK b \in Int : b = (w - i) - (q - p) BY <2>6, <2>7, <2>9
  <2>12. b = Behind(p, i) BY <2>7, <2>9, <2>11 DEF Behind
  <2>3. CASE playing
    <3>6. pos' = pos + (WallFrames' - WallFrames) BY <1>11, <2>3, Zenon
    <3>1. pos' = q + (x - w) BY <2>7, <2>8, <2>9, <3>6, Zenon
    <3>2. (x - i) - ((q + (x - w)) - p) = b BY <2>11, <2>13
    <3>3. Behind(p, i)' = b BY <2>8, <3>1, <3>2 DEF Behind
    <3>4. Debt' = Debt BY <2>3, <2>5 DEF Debt, LagRoom
    <3>5. 0 <= b /\ b <= Debt BY <2>6, <2>12
    <3> QED BY <2>6, <3>3, <3>4, <3>5 DEF Honest
  <2>4. CASE ~playing
    <3>1. pos' = q BY <1>11, <2>4, <2>9
    <3>2. Behind(p, i)' = (x - i) - (q - p) BY <2>8, <3>1 DEF Behind
    <3>3. PICK m \in Int : m = LagRoom(commands) BY <2>1
    <3>4. Debt = m + (w - d + 1) BY <2>4, <2>7, <2>10, <3>3 DEF Debt
    <3>5. LagRoom(commands)' = m BY <2>5, <3>3 DEF LagRoom
    <3>6. Debt' = m + (x - d + 1) BY <2>2, <2>4, <2>5, <2>8, <2>10, <3>5 DEF Debt
    <3>7. w <= x /\ 0 <= b /\ b <= m + (w - d + 1) BY <1>13, <2>6, <2>7, <2>8, <2>12, <3>4
    <3>8. /\ 0 <= (x - i) - (q - p) /\ (x - i) - (q - p) <= m + (x - d + 1)
      BY <2>11, <2>13, <3>7
    <3> QED BY <2>6, <3>2, <3>6, <3>8 DEF Honest
  <2> QED BY <2>3, <2>4
<1>3. GateIsRead' /\ SnapshotHonest'
  BY <1>2, <1>7 DEF ClockInv, GateIsRead, SnapshotHonest, SnapshotTaken
<1>4. EpochHonest'
  BY <1>2, <1>7 DEF ClockInv, EpochHonest, SnapshotTaken, Current
<1>5. EpochTogether' /\ OvertakenResets'
  BY <1>7 DEF ClockInv, EpochTogether, SnapshotTaken, Current, Near, Tolerance,
      OvertakenResets, Settled
<1> QED BY <1>1, <1>3, <1>4, <1>5 DEF ClockInv

LEMMA TransportSeekKeeps ==
  ASSUME ClockAssumption, ClockInv, NEW p \in Targets, TransportSeek(p)
  PROVE  ClockInv'
<1> USE DEF TransportSeek, Command, gateVars, workerVars,
    runtimeVars, snapVars, paintVars
<1>0. WallFrames' = WallFrames /\ CallFrames' = CallFrames BY FramesStay
<1>1. ClockNumbers' /\ OnTime' /\ Reported'
  <2>1. p \in Int
    BY DEF ClockAssumption
  <2> QED BY <1>0, <2>1 DEF ClockInv, ClockNumbers, OnTime, Reported
<1>2. GateIsRead'
  BY DEF ClockInv, GateIsRead
<1>3. ui' # "idle"
  OBVIOUS
<1> QED BY <1>1, <1>2, <1>3 DEF ClockInv, SnapshotHonest, EpochHonest, EpochTogether,
    OvertakenResets,
                                Current, Settled

-----------------------------------------------------------------------------
(* The main thread's seek and the playback thread.                          *)
LEMMA HoldVisibleKeeps ==
  ASSUME ClockInv, HoldVisible
  PROVE  ClockInv'
<1>1. UNCHANGED clockReads /\ UNCHANGED epoch /\ Overtake /\ ui' # "idle" /\ ~Settled'
  BY DEF HoldVisible, clockReads, transportVars, workerVars,
      runtimeVars, snapVars, Settled
<1> QED BY <1>1, EditKeeps

LEMMA BumpGenerationKeeps ==
  ASSUME ClockInv, BumpGeneration
  PROVE  ClockInv'
<1>1. UNCHANGED clockReads /\ UNCHANGED epoch /\ Overtake /\ ui' # "idle" /\ ~Settled'
  BY DEF BumpGeneration, clockReads, transportVars, workerVars,
      runtimeVars, snapVars, Settled
<1> QED BY <1>1, EditKeeps

LEMMA SeekResetsKeeps ==
  ASSUME ClockInv, SeekResets
  PROVE  ClockInv'
<1>1. UNCHANGED clockReads /\ epoch' = NoEpoch /\ Overtake
  BY DEF SeekResets, ResetPlayEpoch, clockReads, transportVars,
      runtimeVars, snapVars
<1> QED BY <1>1, EditKeeps

LEMMA TakeSeekKeeps ==
  ASSUME ClockInv, TakeSeek
  PROVE  ClockInv'
<1>1. UNCHANGED <<clockReads, ui, committedGen, seekGen, epoch, passed>>
      /\ worker # "reset" /\ worker' # "reset" /\ (Settled' => Settled)
  BY DEF TakeSeek, clockReads, transportVars, uiVars, runtimeVars,
      snapVars, Settled
<1> QED BY <1>1, QuietKeeps

LEMMA StartRepositionKeeps ==
  ASSUME ClockInv, StartReposition
  PROVE  ClockInv'
<1>1. UNCHANGED clockReads /\ epoch' = NoEpoch /\ Overtake
  BY DEF StartReposition, ResetPlayEpoch, clockReads, transportVars,
      uiVars, runtimeVars, snapVars
<1> QED BY <1>1, EditKeeps

LEMMA BackwardJumpKeeps ==
  ASSUME ClockInv, BackwardJump
  PROVE  ClockInv'
<1>1. UNCHANGED <<clockReads, ui, committedGen, seekGen, epoch, passed>>
      /\ worker # "reset" /\ worker' # "reset" /\ (Settled' => Settled)
  BY DEF BackwardJump, clockReads, transportVars, uiVars, gateVars,
      runtimeVars, snapVars, Settled
<1> QED BY <1>1, QuietKeeps

LEMMA GiveUpKeeps ==
  ASSUME ClockInv, GiveUp
  PROVE  ClockInv'
<1>1. UNCHANGED <<clockReads, ui, committedGen, seekGen, epoch, passed>>
      /\ worker # "reset" /\ worker' # "reset" /\ (Settled' => Settled)
  BY DEF GiveUp, clockReads, transportVars, uiVars, gateVars,
      runtimeVars, snapVars, Settled
<1> QED BY <1>1, QuietKeeps

LEMMA CommitKeeps ==
  ASSUME ClockInv, Commit
  PROVE  ClockInv'
<1>1. UNCHANGED clockReads /\ UNCHANGED epoch /\ Overtake
      /\ worker' = "reset" /\ ~Settled'
  BY DEF Commit, clockReads, transportVars, uiVars, runtimeVars,
      snapVars, Settled
<1> QED BY <1>1, EditKeeps

LEMMA ReuseKeeps ==
  ASSUME ClockInv, Reuse
  PROVE  ClockInv'
<1>1. UNCHANGED clockReads /\ UNCHANGED <<epoch, ui, committedGen, seekGen>> /\ Overtake
      /\ worker # "reset" /\ ~Settled'
  BY DEF Reuse, MayCommit, clockReads, transportVars, uiVars,
      runtimeVars, snapVars, Settled
<1> QED BY <1>1, EditKeeps

LEMMA ReuseOpensGateKeeps ==
  ASSUME ClockInv, ReuseOpensGate
  PROVE  ClockInv'
<1>1. UNCHANGED clockReads /\ UNCHANGED epoch /\ Overtake
      /\ worker' = "reset" /\ ~Settled'
  BY DEF ReuseOpensGate, clockReads, transportVars, uiVars,
      runtimeVars, snapVars, Settled
<1> QED BY <1>1, EditKeeps

LEMMA CommitResetsKeeps ==
  ASSUME ClockInv, CommitResets
  PROVE  ClockInv'
<1>1. UNCHANGED clockReads /\ epoch' = NoEpoch /\ Overtake
  BY DEF CommitResets, ResetPlayEpoch, clockReads, transportVars,
      uiVars, runtimeVars, snapVars
<1> QED BY <1>1, EditKeeps

LEMMA DecodeAheadKeeps ==
  ASSUME ClockInv, DecodeAhead
  PROVE  ClockInv'
<1>1. UNCHANGED <<clockReads, ui, committedGen, seekGen, epoch, passed>>
      /\ worker # "reset" /\ worker' # "reset" /\ (Settled' => Settled)
  BY DEF DecodeAhead, clockReads, transportVars, uiVars, gateVars,
      runtimeVars, snapVars, Settled
<1> QED BY <1>1, QuietKeeps

-----------------------------------------------------------------------------
(* The output thread.  Before the transport is read nothing is at stake.    *)
LEMMA BeginDispatchKeeps ==
  ASSUME ClockAssumption, ClockInv, BeginDispatch
  PROVE  ClockInv'
<1> USE DEF BeginDispatch, transportVars, uiVars, gateVars,
    workerVars, snapVars, paintVars
<1>0. WallFrames' = WallFrames /\ CallFrames' = WallFrames
  BY DEF WallFrames, CallFrames, FramesIn
<1>4. /\ wall \in Nat /\ clockIndex \in Nat /\ WallFrames \in Nat /\ CallFrames \in Nat
      /\ CallFrames <= WallFrames /\ clockIndex <= WallFrames + 1
  BY DEF ClockInv, ClockNumbers, OnTime
<1>5. FrameIndexToNsCeil(clockIndex) <= wall <=> clockIndex <= WallFrames
  BY <1>4, Scheduled DEF WallFrames
<1>6. out' = IF clockIndex <= WallFrames THEN "snap" ELSE "idle"
  BY <1>5
<1>1. ClockNumbers' /\ OnTime' /\ Reported'
  <2>1. ClockNumbers' /\ OnTime' BY <1>0, <1>4, <1>6 DEF ClockInv, ClockNumbers, OnTime
  <2>2. Reported' BY <1>0, <1>4, <1>6 DEF ClockInv, Reported
  <2> QED BY <2>1, <2>2
<1>2. GateIsRead' /\ SnapshotHonest' /\ EpochTogether' /\ OvertakenResets'
  BY <1>6 DEF ClockInv, GateIsRead, SnapshotHonest, EpochTogether, SnapshotTaken, OvertakenResets,
      Settled
<1>3. EpochHonest'
  BY <1>0, <1>6 DEF ClockInv, EpochHonest, SnapshotTaken, Current, Honest, Behind,
      Debt, NextRead
<1> QED BY <1>1, <1>2, <1>3 DEF ClockInv

LEMMA LoadCacheKeeps ==
  ASSUME ClockInv, LoadCache
  PROVE  ClockInv'
<1> USE DEF LoadCache, transportVars, uiVars, gateVars,
    workerVars, runtimeVars, paintVars
<1>0. WallFrames' = WallFrames /\ CallFrames' = CallFrames BY FramesStay
<1>1. ClockNumbers' /\ OnTime' /\ Reported'
  BY <1>0 DEF ClockInv, ClockNumbers, OnTime, Reported, NoTick
<1>2. GateIsRead' /\ SnapshotHonest' /\ EpochTogether' /\ OvertakenResets'
  BY DEF GateIsRead, SnapshotHonest, EpochTogether, SnapshotTaken, OvertakenResets
<1>3. EpochHonest'
  BY <1>0 DEF ClockInv, EpochHonest, SnapshotTaken, Current, Honest, Behind,
      Debt, NextRead
<1> QED BY <1>1, <1>2, <1>3 DEF ClockInv

LEMMA LoadGenerationsKeeps ==
  ASSUME ClockInv, LoadGenerations
  PROVE  ClockInv'
<1> USE DEF LoadGenerations, transportVars, uiVars, gateVars,
    workerVars, runtimeVars, paintVars
<1>0. WallFrames' = WallFrames /\ CallFrames' = CallFrames BY FramesStay
<1>1. ClockNumbers' /\ OnTime' /\ Reported'
  BY <1>0 DEF ClockInv, ClockNumbers, OnTime, Reported
<1>2. tick'.held = (committedGen # seekGen)
  BY DEF ClockInv, ClockNumbers, NoTick
<1>3. GateIsRead' /\ SnapshotHonest' /\ EpochTogether' /\ OvertakenResets'
  BY <1>2 DEF ClockInv, GateIsRead, SnapshotHonest, EpochTogether, SnapshotTaken,
      OvertakenResets, Settled
<1>4. EpochHonest'
  BY <1>0 DEF ClockInv, EpochHonest, SnapshotTaken, Current, Honest, Behind,
      Debt, NextRead
<1> QED BY <1>1, <1>3, <1>4 DEF ClockInv

(* The transport is read: what is taken is where it is now, and what the    *)
(* epoch would give is no further from it than the clock may be.            *)
LEMMA LoadPositionKeeps ==
  ASSUME ClockAssumption, ClockInv, LoadPosition
  PROVE  ClockInv'
<1> USE DEF LoadPosition, transportVars, uiVars, gateVars,
    workerVars, runtimeVars, paintVars
<1>0. WallFrames' = WallFrames /\ CallFrames' = CallFrames BY FramesStay
<1>1. ClockNumbers' /\ OnTime' /\ Reported'
  BY <1>0 DEF ClockInv, ClockNumbers, OnTime, Reported, GuardPosition
<1>2. tick'.held = tick.held /\ (~tick'.reset => ~guarded)
      /\ (~tick'.held /\ ~guarded' => tick'.pos = pos)
  BY DEF ClockInv, ClockNumbers, NoTick, GuardPosition
<1>3. GateIsRead' /\ OvertakenResets'
  BY <1>2 DEF ClockInv, GateIsRead, OvertakenResets, Settled
<1>4. LagRoom(commands) \in Nat /\ LagRoom(commands + 1) = LagRoom(commands) + MaxLag
      /\ MaxLag \in Nat /\ MaxLag >= 1 /\ Tolerance = LagRoom(commands + 1)
  BY LagRoomFacts DEF ClockInv, ClockNumbers, Tolerance
<1>5. /\ NextRead = clockIndex /\ NextRead' = clockIndex
      /\ WallFrames \in Nat /\ clockIndex \in Nat /\ pos \in Int
      /\ clockIndex <= WallFrames /\ WallFrames - clockIndex <= MaxLag
  BY DEF NextRead, ClockInv, ClockNumbers, OnTime
<1>6. SnapshotHonest'
  <2>1. SUFFICES ASSUME ~tick'.held, ~guarded' PROVE Honest(tick.pos, clockIndex)'
    BY DEF SnapshotHonest
  <2>2. tick'.pos = pos
    BY <1>2, <2>1
  <2>3. CASE playing
    BY <1>0, <1>4, <1>5, <2>2, <2>3 DEF Honest, Behind, Debt
  <2>4. CASE ~playing
    BY <1>0, <1>4, <1>5, <2>2, <2>4 DEF Honest, Behind, Debt
  <2> QED BY <2>3, <2>4
<1>7. EpochHonest'
  <2>1. Debt' = Debt
    BY <1>0, <1>5 DEF Debt
  <2> QED BY <1>0, <1>2, <2>1 DEF ClockInv, EpochHonest, SnapshotTaken, Current, Honest,
      Behind
<1>8. EpochTogether'
  <2>1. SUFFICES ASSUME ~tick'.reset, Current, ~passed, ~tick'.held, ~guarded'
                 PROVE  Near(epoch.pos + (clockIndex - epoch.index), tick.pos)'
    BY DEF EpochTogether, Current
  <2>2. committedGen = seekGen /\ tick'.pos = pos
    BY <1>2, <2>1 DEF ClockInv, GateIsRead
  <2>3. Honest(epoch.pos, epoch.index)
    BY <1>2, <2>1, <2>2 DEF ClockInv, EpochHonest, SnapshotTaken
  <2>4. epoch.pos \in Int /\ epoch.index \in Int
    BY <2>3 DEF Honest
  <2>5. epoch.pos + (clockIndex - epoch.index) - pos = Behind(epoch.pos,
      epoch.index) - (WallFrames - clockIndex)
    BY <1>5, <2>4 DEF Behind
  <2>6. Behind(epoch.pos, epoch.index) \in Int /\ 0 <= Behind(epoch.pos, epoch.index)
        /\ Behind(epoch.pos, epoch.index) <= Debt
    BY <1>5, <2>3, <2>4 DEF Honest, Behind
  <2>7. Debt - (WallFrames - clockIndex) <= Tolerance /\ WallFrames - clockIndex <= Tolerance
        /\ Debt \in Int /\ Tolerance \in Int
    <3>1. CASE playing
      BY <1>4, <1>5, <3>1 DEF Debt
    <3>2. CASE ~playing
      BY <1>4, <1>5, <3>2 DEF Debt
    <3> QED BY <3>1, <3>2
  <2> DEFINE x == epoch.pos + (clockIndex - epoch.index)
             b == Behind(epoch.pos, epoch.index)
  <2>8. x \in Int /\ x - pos = b - (WallFrames - clockIndex)
    BY <1>5, <2>4, <2>5
  <2>9. x - pos <= Tolerance /\ pos - x <= Tolerance
    <3> DEFINE late == WallFrames - clockIndex
    <3>1. late \in Int /\ late >= 0 /\ late <= Tolerance
      BY <1>5, <2>7
    <3>2. x - pos = b - late /\ Debt - late <= Tolerance
      BY <2>7, <2>8
    <3>3. /\ b \in Int /\ 0 <= b /\ b <= Debt
          /\ Debt \in Int /\ Tolerance \in Int /\ pos \in Int
      BY <1>5, <2>6, <2>7
    <3>4. x \in Int
      BY <2>8
    <3> HIDE DEF x, b, late
    <3> QED BY <3>1, <3>2, <3>3, <3>4
  <2>10. UNCHANGED <<epoch, clockIndex, commands>>
    OBVIOUS
  <2> QED BY <2>2, <2>9, <2>10 DEF Near, Tolerance
<1> QED BY <1>1, <1>3, <1>6, <1>7, <1>8 DEF ClockInv

LEMMA StoreBookmarkKeeps ==
  ASSUME ClockInv, StoreBookmark
  PROVE  ClockInv'
<1> USE DEF StoreBookmark, transportVars, uiVars, gateVars,
    workerVars, runtimeVars, paintVars
<1>0. WallFrames' = WallFrames /\ CallFrames' = CallFrames BY FramesStay
<1>1. ClockNumbers' /\ OnTime' /\ Reported'
  BY <1>0 DEF ClockInv, ClockNumbers, OnTime, Reported
<1>2. tick'.held = tick.held /\ tick'.reset = tick.reset /\ tick'.pos = tick.pos
      /\ tick'.playing = playing
  BY DEF ClockInv, ClockNumbers, NoTick
<1>3. Debt' = Debt
  BY <1>0, <1>2 DEF Debt, NextRead
<1>4. GateIsRead' /\ OvertakenResets' /\ SnapshotHonest' /\ EpochHonest'
  BY <1>0, <1>2, <1>3 DEF ClockInv, GateIsRead, OvertakenResets, Settled, SnapshotHonest,
      EpochHonest, SnapshotTaken,
                    Current, Honest, Behind
<1>5. EpochTogether'
  BY <1>2 DEF ClockInv, EpochTogether, SnapshotTaken, Current, Near, Tolerance
<1> QED BY <1>1, <1>4, <1>5 DEF ClockInv

LEMMA DispatchTickKeeps ==
  ASSUME ClockAssumption, ClockInv, DispatchSnapshot
  PROVE  ClockInv'
<1> USE DEF DispatchSnapshot, transportVars, uiVars, gateVars,
    workerVars, paintVars
<1>1. clockIndex' = clockIndex + 1 /\ clockIndex \in Nat /\ (out' = "snap" \/ out' = "idle")
      /\ tick' = NoTick /\ ~passed'
  BY DEF ClockInv, ClockNumbers
<1>0. WallFrames' = WallFrames /\ CallFrames' = CallFrames BY FramesStay
<1>6. /\ elapsed \in Nat /\ CallFrames \in Nat /\ WallFrames \in Nat /\ clockIndex' \in Nat
      /\ clockIndex' <= CallFrames + 1 /\ CallFrames <= WallFrames
  BY <1>1 DEF ClockInv, ClockNumbers, OnTime
<1>7. FrameIndexToNsCeil(clockIndex') <= elapsed <=> clockIndex' <= CallFrames
  BY <1>6, Scheduled DEF CallFrames
<1>8. out' # "idle" => clockIndex' <= CallFrames
  BY <1>7
<1>2. ClockNumbers' /\ OnTime'
  BY <1>0, <1>1, <1>6, <1>8 DEF ClockAssumption, ClockInv, ClockNumbers, OnTime
<1>3. Reported'
  <2>1. CASE /\ out' = IF FrameIndexToNsCeil(clockIndex') <= elapsed THEN "snap" ELSE "idle"
             /\ missed' = 0
    <3>1. out' = "idle" => ~(clockIndex' <= CallFrames) BY <1>7, <2>1
    <3>2. out' = "idle" => clockIndex' = CallFrames + 1 BY <1>6, <3>1
    <3> QED BY <1>0, <1>6, <2>1, <3>2 DEF Reported
  <2>2. CASE missed' = Max({0, DueFrameCount(elapsed) - clockIndex'})
    <3>1. DueFrameCount(elapsed) = CallFrames + 1 BY DEF DueFrameCount, CallFrames
    <3>2. CallFrames + 1 - clockIndex' \in Nat BY <1>6
    <3> DEFINE x == CallFrames + 1 - clockIndex'
    <3>3. DueFrameCount(elapsed) - clockIndex' = x BY <1>6, <3>1
    <3> HIDE DEF x
    <3>4. missed' = Max({0, x}) BY <2>2, <3>3
    <3>5. missed' = CallFrames + 1 - clockIndex' BY <3>2, <3>4, MoreThanNone DEF x
    <3> QED BY <1>0, <1>6, <3>5 DEF Reported
  <2> QED BY <2>1, <2>2
<1>4. GateIsRead' /\ SnapshotHonest' /\ EpochTogether' /\ OvertakenResets'
  BY <1>1 DEF GateIsRead, SnapshotHonest, EpochTogether, SnapshotTaken, OvertakenResets
<1>5. EpochHonest'
  <2>1. SUFFICES ASSUME epoch' # NoEpoch, ~epoch'.overtaken, ui = "idle",
      worker # "reset",
                        committedGen = seekGen, ~guarded
                 PROVE  Honest(epoch.pos, epoch.index)'
    BY DEF EpochHonest, Current
  <2>2. tick.playing /\ epoch' = EpochOfTick
    BY <2>1 DEF EpochOfTick
  <2>3. Debt' = Debt
    BY <1>0, <1>1, <2>2 DEF Debt, NextRead, NoTick
  <2>4. CASE KeepsEpoch
    <3>1. epoch' = epoch /\ Honest(epoch.pos, epoch.index)
      BY <2>1, <2>2, <2>4 DEF EpochOfTick, KeepsEpoch, ClockInv, EpochHonest,
          SnapshotTaken, Current
    <3> QED BY <1>0, <2>3, <3>1 DEF Honest, Behind
  <2>5. CASE ~KeepsEpoch
    <3>1. epoch' = [index |-> clockIndex, pos |-> tick.pos, overtaken |-> passed]
      BY <2>2, <2>5 DEF EpochOfTick
    <3>2. epoch'.pos = tick.pos /\ epoch'.index = clockIndex /\ ~passed
      BY <2>1, <3>1
    <3>3. Honest(tick.pos, clockIndex)
      BY <2>1, <3>2 DEF ClockInv, GateIsRead, SnapshotHonest, SnapshotTaken
    <3> QED BY <1>0, <2>3, <3>2, <3>3 DEF Honest, Behind
  <2> QED BY <2>4, <2>5
<1> QED BY <1>2, <1>3, <1>4, <1>5 DEF ClockInv

-----------------------------------------------------------------------------
LEMMA StepKeeps ==
  ASSUME ClockAssumption
  PROVE  ClockInv /\ [ClockNext]_clockVars => ClockInv'
<1> SUFFICES ASSUME ClockInv, [ClockNext]_clockVars PROVE ClockInv'
  OBVIOUS
<1>1. CASE WallTick
  BY <1>1, WallTickKeeps
<1>2. CASE SetPlaying
  BY <1>2, SetPlayingKeeps
<1>3. CASE \E p \in Targets : TransportSeek(p)
  BY <1>3, TransportSeekKeeps
<1>4. CASE Seek
  BY <1>4, HoldVisibleKeeps, BumpGenerationKeeps, SeekResetsKeeps DEF Seek
<1>5. CASE Worker
  BY <1>5, TakeSeekKeeps, StartRepositionKeeps, BackwardJumpKeeps,
      GiveUpKeeps, CommitKeeps,
     ReuseKeeps, ReuseOpensGateKeeps, CommitResetsKeeps,
         DecodeAheadKeeps DEF Worker
<1>6. CASE Output
  BY <1>6, BeginDispatchKeeps, LoadCacheKeeps, LoadGenerationsKeeps,
      LoadPositionKeeps,
     StoreBookmarkKeeps, DispatchTickKeeps DEF Output
<1>7. CASE UNCHANGED clockVars
  <2>1. UNCHANGED <<clockReads, ui, committedGen, seekGen, epoch, passed, worker>>
    BY <1>7 DEF clockVars, clockReads, transportVars, uiVars, gateVars,
        workerVars, runtimeVars, snapVars
  <2>0. WallFrames' = WallFrames /\ CallFrames' = CallFrames BY <2>1, FramesStay DEF clockReads
  <2>2. ClockNumbers' /\ OnTime' /\ Reported'
    BY <2>0, <2>1 DEF clockReads, ClockInv, ClockNumbers, OnTime, Reported
  <2>3. GateIsRead' /\ SnapshotHonest' /\ EpochHonest'
    BY <2>0, <2>1 DEF clockReads, ClockInv, GateIsRead, SnapshotHonest, EpochHonest, SnapshotTaken,
        Current, Honest,
                Behind, Debt, NextRead
  <2>4. EpochTogether' /\ OvertakenResets'
    BY <2>1 DEF clockReads, ClockInv, EpochTogether, SnapshotTaken, Current, Near,
        Tolerance, OvertakenResets, Settled
  <2> QED BY <2>2, <2>3, <2>4 DEF ClockInv
<1> QED BY <1>1, <1>2, <1>3, <1>4, <1>5, <1>6, <1>7 DEF ClockNext

LEMMA ClockInductive ==
  ASSUME ClockAssumption
  PROVE  ClockSpec => []ClockInv
<1>1. ClockInit => ClockInv
  BY ClockBegins
<1>2. ClockInv /\ [ClockNext]_clockVars => ClockInv'
  BY StepKeeps
<1> QED BY <1>1, <1>2, PTL DEF ClockSpec

(* Whatever the frame rate, a call sends no frame before its exact time and *)
(* reports exactly the due frames it leaves behind: the schedule rounded up *)
(* and the count of due frames rounded down never disagree                  *)
(* (outputruntime.cpp).                                                     *)
THEOREM MissesAreReported ==
  ASSUME ClockAssumption
  PROVE  ClockSpec => []MissIsReported
<1>1. ClockInv => MissIsReported
  BY ReportsAreTrue DEF ClockInv
<1> QED BY <1>1, ClockInductive, PTL

(* The tick that samples: the epoch it keeps was together with what its      *)
(* snapshot took, and the epoch it makes is that snapshot.                  *)
LEMMA AnchorStep ==
  ASSUME ClockAssumption, ClockInv, DispatchSnapshot, Settled,
         ~tick.held, ~guarded, tick.playing, ~epoch'.overtaken
  PROVE  Near(sampled', tick.pos)
<1> USE DEF DispatchSnapshot
<1>1. epoch' = EpochOfTick /\ sampled' = SampledAt(epoch') /\ out = "fly"
  OBVIOUS
<1>2. CASE KeepsEpoch
  <2>1. epoch' = epoch /\ epoch # NoEpoch /\ ~tick.reset
    BY <1>1, <1>2 DEF EpochOfTick, KeepsEpoch
  <2>2. ~passed
    BY <2>1 DEF ClockInv, OvertakenResets
  <2>3. Near(epoch.pos + (clockIndex - epoch.index), tick.pos)
    BY <1>1, <2>1, <2>2 DEF ClockInv, EpochTogether, SnapshotTaken, Current, Settled
  <2> QED BY <1>1, <2>1, <2>3 DEF SampledAt
<1>3. CASE ~KeepsEpoch
  <2>1. epoch' = [index |-> clockIndex, pos |-> tick.pos, overtaken |-> passed]
    BY <1>1, <1>3 DEF EpochOfTick
  <2>2. ~passed
    BY <2>1
  <2>3. tick.pos \in Int /\ clockIndex \in Int
    BY <1>1, <2>2 DEF ClockInv, SnapshotHonest, SnapshotTaken, Settled, Honest
  <2>4. sampled' = tick.pos
    BY <1>1, <2>1, <2>3 DEF SampledAt
  <2>5. Tolerance \in Nat
    <3>1. commands \in Nat /\ commands + 1 \in Nat
      BY DEF ClockInv, ClockNumbers
    <3>2. LagRoom(commands + 1) = (1 + commands) * MaxLag /\ LagRoom(commands + 1) \in Nat
      BY <3>1, LagRoomFacts
    <3> QED BY <3>2 DEF Tolerance
  <2> QED BY <2>3, <2>4, <2>5 DEF Near
<1> QED BY <1>2, <1>3

(* Once a seek is committed and the clock re-anchored, the output samples    *)
(* where the transport is, whatever the interleaving of the four threads,    *)
(* unless its epoch was made from a snapshot the seek had passed.            *)
THEOREM AnchorsAreFresh ==
  ASSUME ClockAssumption
  PROVE  ClockSpec => FreshAnchorIsOnTheClock
<1>1. ClockInv /\ [ClockNext]_clockVars => [OnTheClock(epoch'.overtaken)]_clockVars
  BY AnchorStep DEF OnTheClock
<1> QED BY <1>1, ClockInductive, PTL DEF ClockSpec, FreshAnchorIsOnTheClock
=============================================================================
