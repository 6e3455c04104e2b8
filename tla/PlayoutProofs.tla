---------------------------- MODULE PlayoutProofs ----------------------------
(***************************************************************************)
(* TLAPS proofs about Playout, for any rundown, lead times, speeds and     *)
(* number of operator commands: the cuts the monitor counts are those of   *)
(* its own rundown, an armed boundary stays alive, and an undisturbed one  *)
(* fires at its out-point.                                                 *)
(***************************************************************************)
EXTENDS Playout, SequenceTheorems, TLAPS

Owners == Nat \X Nat
Cuts == [target : Positions, at : Positions \cup {None}, gen : Nat, owner : Owners]

CutOK(c) == c \in Cuts \cup {NoCut} /\ c.gen <= seekGen

(* The type of every variable; no cut is newer than the latest seek, and a  *)
(* playhead about to move has somewhere to go.                              *)
TypeOK ==
  /\ gui \in {"idle", "play", "baseline", "seek"} /\ guiTarget \in Positions \cup {None}
  /\ commands \in 0 .. MaxCommands
  /\ pos \in Positions /\ speed \in Speeds /\ playing \in BOOLEAN
  /\ index \in 0 .. Len(Rundown) /\ armedCurrent \in BOOLEAN
  /\ fired \in Seq(Owners) /\ baseline \in 0 .. Len(fired) /\ play \in Nat
  /\ seekGen \in Nat /\ seekPending \in BOOLEAN
  /\ CutOK(cut) /\ CutOK(queued) /\ CutOK(taken)
  /\ due \in Int /\ epoch \in Speeds \cup {NoEpoch}
  /\ firing \in {"no", "rebase", "count", "disarm"}
  /\ cutTo \in Positions \cup {None} /\ (firing = "rebase" => cutTo \in Positions)
  /\ jumped \in BOOLEAN /\ disturbed \in BOOLEAN /\ straddled \in BOOLEAN /\ lost \in BOOLEAN
  /\ timing \in {"asap", "clock", "spoilt"}

(* One cut at a time: while a cut is scheduled or firing it is armed, and   *)
(* the worker holds no re-arm that could overwrite it.                      *)
OneCut ==
  /\ due # Unscheduled \/ firing # "no" => cut # NoCut /\ taken = NoCut
  /\ firing \in {"count", "disarm"} => due = Unscheduled

(* A cut that can still move the playhead: it waits under the present       *)
(* generation, or it is past the point where a seek could call it off.      *)
Live(c) == c.gen = seekGen
CutIsAlive == IF firing = "no" THEN Live(cut) ELSE firing \in {"rebase", "count"}
QueuedIsAlive == Live(queued)
TakenIsAlive == Live(taken)

Unseen == Len(fired) - baseline

(* From the first seek of a rundown to its end, at most one cut is alive.   *)
(* It is the boundary of the current entry, which the rundown has armed and *)
(* not yet seen fire; and at most that boundary has fired unseen.           *)
Sole ==
  /\ ~(CutIsAlive /\ QueuedIsAlive) /\ ~(CutIsAlive /\ TakenIsAlive)
  /\ ~(QueuedIsAlive /\ TakenIsAlive)
OwnedBy(c) == c.owner = Boundary /\ armedCurrent /\ index < Len(Rundown) /\ Unseen = 0
Mine ==
  /\ CutIsAlive => OwnedBy(cut)
  /\ QueuedIsAlive => OwnedBy(queued)
  /\ TakenIsAlive => OwnedBy(taken)
OneUnseen ==
  Unseen # 0 => Unseen = 1 /\ fired[Len(fired)] = Boundary /\ index < Len(Rundown)
Running == active /\ ~straddled /\ gui \in {"idle", "seek"}
Owned == Running => Sole /\ Mine /\ OneUnseen

(* Before that seek is over nothing is alive, or the rundown is straddled.  *)
Starting ==
  active /\ ~straddled =>
    /\ gui \in {"play", "baseline"} => firing \notin {"rebase", "count"} /\ ~armedCurrent
    /\ gui = "baseline" => ~CutIsAlive /\ ~QueuedIsAlive /\ ~TakenIsAlive

(* And a boundary that is armed is alive or has fired, unless the operator  *)
(* moved the playhead or the worker lost the re-arm.                        *)
SeekJumps == active /\ gui = "seek" => jumped
Alive ==
  Running /\ armedCurrent /\ ~jumped /\ ~lost =>
    CutIsAlive \/ QueuedIsAlive \/ TakenIsAlive \/ Unseen = 1

(* A cut scheduled by the clock fires when the playhead, at this speed, has *)
(* come to its out-point.                                                   *)
Ahead == IF due > 0 THEN speed * due ELSE 0
OnTime ==
  due # Unscheduled /\ timing = "clock" /\ ~straddled /\ Live(cut) /\ firing = "no" =>
    cut.at # None /\ playing /\ speed > 0 /\ 2 * (cut.at - pos - Ahead) < speed

IInv == TypeOK /\ OneCut /\ Owned /\ Starting /\ SeekJumps /\ Alive /\ OnTime

-----------------------------------------------------------------------------
(* The constants.                                                           *)
LEMMA Rundowns ==
  /\ Last \in Nat /\ CutLead \in Nat /\ MaxLate \in Nat /\ MaxCommands \in Nat /\ ArmLead \in Nat
  /\ Len(Rundown) \in Nat /\ Len(Rundown) >= 1
  /\ 0 \in Positions /\ Last \in Positions /\ Targets \subseteq Positions
  /\ \A i \in Entries : /\ Rundown[i].in \in Positions
                        /\ Rundown[i].speed \in Speeds /\ Rundown[i].out \in Int
  /\ \A i \in Entries : i < Len(Rundown) => Rundown[i].out \in Positions
  /\ Speeds \subseteq Int \ {0} /\ 1 \in Speeds /\ Shuttles \subseteq Speeds
  /\ Unscheduled \in Int
<1>1. /\ Last \in Nat /\ CutLead \in Nat /\ MaxLate \in Nat /\ MaxCommands \in Nat
      /\ ArmLead \in Nat /\ Targets \subseteq Positions
  BY RundownAssumption
<1>2. Len(Rundown) \in Nat /\ Len(Rundown) >= 1
  BY RundownAssumption, LenProperties, EmptySeq
<1>3. \A i \in Entries : Rundown[i] \in [in : Positions, out : Int, speed : Nat \ {0}]
  BY RundownAssumption, ElementOfSeq DEF Entries
<1>4. \A i \in Entries : i < Len(Rundown) => Rundown[i].out \in Positions
  <2> SUFFICES ASSUME NEW i \in Entries, i < Len(Rundown) PROVE Rundown[i].out \in Positions
    OBVIOUS
  <2>1. Rundown[i].out \in Rundown[i].in .. Last /\ Rundown[i].in \in 0 .. Last
    BY <1>3, RundownAssumption DEF Positions
  <2> QED BY <1>1, <2>1 DEF Positions
<1>5. Speeds \subseteq Int \ {0} /\ 1 \in Speeds /\ Shuttles \subseteq Speeds
      /\ \A i \in Entries : Rundown[i].speed \in Speeds
  <2>1. \A i \in Entries : Rundown[i].speed \in Nat \ {0}
    BY <1>3
  <2>2. Shuttles \subseteq Int \ {0}
    BY RundownAssumption
  <2>3. \A x \in Speeds : x = 1 \/ x \in Shuttles \/ \E i \in Entries : x = Rundown[i].speed
    BY DEF Speeds
  <2>4. ASSUME NEW x \in Speeds PROVE x \in Int \ {0}
    <3>1. x = 1 \/ x \in Shuttles \/ x \in Nat \ {0}
      BY <2>1, <2>3
    <3>2. CASE x \in Shuttles
      BY <2>2, <3>2
    <3>3. CASE x \notin Shuttles
      BY <3>1, <3>3
    <3> QED BY <3>2, <3>3
  <2>5. 1 \in Speeds /\ Shuttles \subseteq Speeds /\ \A i \in Entries : Rundown[i].speed \in Speeds
    BY DEF Speeds
  <2> QED BY <2>4, <2>5
<1>6. Unscheduled \in Int /\ 0 \in Positions /\ Last \in Positions
  BY <1>1 DEF Unscheduled, Positions
<1> QED
  BY <1>1, <1>2, <1>3, <1>4, <1>5, <1>6

LEMMA ClampedType == ASSUME NEW p \in Int PROVE Clamped(p) \in Positions
BY Rundowns DEF Clamped, Positions

LEMMA NoCutFacts ==
  /\ NoCut.gen = -1 /\ NoCut.target = -1 /\ NoCut.at = None /\ NoCut.owner = NoOwner
  /\ NoOwner \in Owners
BY DEF NoCut, None, NoOwner, Owners

(* What a cut in a variable is made of.                                     *)
LEMMA CutFields ==
  ASSUME TypeOK, NEW c, CutOK(c)
  PROVE  /\ c.gen \in Int /\ c.gen <= seekGen /\ c.target \in Int /\ c.owner \in Owners
         /\ c.at = None \/ c.at \in Positions
         /\ seekGen \in Nat /\ (c = NoCut => ~Live(c))
<1>1. seekGen \in Nat /\ c.gen <= seekGen
  BY DEF TypeOK, CutOK
<1>2. CASE c = NoCut
  BY <1>1, <1>2, NoCutFacts DEF Live
<1>3. CASE c \in Cuts
  <2>1. /\ c.gen \in Nat /\ c.target \in Positions /\ c.owner \in Owners
        /\ c.at = None \/ c.at \in Positions
    BY <1>3 DEF Cuts
  <2>2. c # NoCut
    BY <2>1, NoCutFacts
  <2> QED BY <1>1, <2>1, <2>2 DEF Positions
<1> QED
  BY <1>2, <1>3 DEF CutOK

LEMMA Numbers ==
  ASSUME TypeOK
  PROVE  /\ Len(fired) \in Nat /\ baseline \in Nat /\ baseline <= Len(fired)
         /\ Unseen \in Nat /\ index \in Nat /\ pos \in Int /\ pos >= 0 /\ pos <= Last
         /\ speed \in Int \ {0} /\ due \in Int /\ seekGen \in Nat /\ play \in Nat
BY Rundowns, LenProperties DEF TypeOK, Unseen, Positions

LEMMA InitInv == Init => IInv
<1> SUFFICES ASSUME Init PROVE IInv
  OBVIOUS
<1> USE DEF Init
<1>1. TypeOK
  <2>1. CutOK(cut) /\ CutOK(queued) /\ CutOK(taken)
    BY NoCutFacts DEF CutOK
  <2>2. fired \in Seq(Owners) /\ Len(fired) = 0 /\ baseline \in 0 .. Len(fired)
    BY EmptySeq
  <2>3. commands \in 0 .. MaxCommands /\ pos \in Positions /\ speed \in Speeds
        /\ epoch \in Speeds \cup {NoEpoch} /\ index \in 0 .. Len(Rundown) /\ due \in Int
    BY Rundowns
  <2> QED BY <2>1, <2>2, <2>3 DEF TypeOK
<1>2. OneCut
  BY DEF OneCut
<1>3. ~active /\ OnTime
  BY DEF active, OnTime
<1> QED
  BY <1>1, <1>2, <1>3 DEF IInv, Owned, Starting, SeekJumps, Alive, Running

-----------------------------------------------------------------------------
(* Steps that change neither the cuts nor the rundown.                      *)
LEMMA CutsKept ==
  ASSUME Owned, Starting, Alive,
         UNCHANGED <<cut, queued, taken, seekGen, fired, baseline, play, index, armedCurrent,
                     straddled, lost>>,
         CutIsAlive' <=> CutIsAlive,
         firing' \in {"rebase", "count"} => firing \in {"rebase", "count"},
         gui' = gui \/ (gui = "idle" /\ gui' = "seek"),
         jumped => jumped'
  PROVE  Owned' /\ Starting' /\ Alive'
<1> USE DEF QueuedIsAlive, TakenIsAlive, Live, Unseen, active, Running, Boundary
<1>1. Owned'
  BY DEF Owned, Sole, Mine, OwnedBy, OneUnseen
<1>2. Starting'
  BY DEF Starting
<1>3. Alive'
  BY DEF Alive
<1> QED
  BY <1>1, <1>2, <1>3

(* Steps that end the rundown.                                              *)
LEMMA RundownOver ==
  ASSUME index' = 0 PROVE Owned' /\ Starting' /\ SeekJumps' /\ Alive'
BY DEF Owned, Starting, SeekJumps, Alive, Running, active

(* Steps that leave a scheduled cut and the playhead alone.                 *)
LEMMA ScheduleKept ==
  ASSUME OnTime, UNCHANGED <<due, timing, straddled, cut, seekGen, firing, playing, speed, pos>>
  PROVE  OnTime'
BY DEF OnTime, Live, Ahead

-----------------------------------------------------------------------------
(* Commands of the operator.                                                *)
LEMMA PlayInv == ASSUME IInv, NEW i \in Entries, Play(i) PROVE IInv'
<1> USE DEF Play, Command, IInv, seekVars, cutVars, fireVars
<1>1. TypeOK'
  <2>1. /\ commands' \in 0 .. MaxCommands /\ play' \in Nat /\ index' \in 0 .. Len(Rundown)
        /\ speed' \in Speeds /\ pos' \in Positions /\ guiTarget' \in Positions
    BY Rundowns DEF TypeOK, Entries
  <2>2. timing' \in {"asap", "clock", "spoilt"}
    BY DEF TypeOK, Spoilt
  <2>3. CutOK(cut)' /\ CutOK(queued)' /\ CutOK(taken)'
    BY DEF TypeOK, CutOK
  <2>4. straddled' \in BOOLEAN
    OBVIOUS
  <2> QED BY <2>1, <2>2, <2>3, <2>4 DEF TypeOK
<1>2. OneCut'
  BY DEF OneCut
<1>3. gui' = "play" /\ ~armedCurrent' /\ (~straddled' => firing' = "no")
  OBVIOUS
<1>4. Owned' /\ Alive' /\ SeekJumps'
  BY <1>3 DEF Owned, Alive, Running, SeekJumps
<1>5. Starting'
  BY <1>3 DEF Starting
<1>6. OnTime'
  BY DEF OnTime, Spoilt
<1> QED
  BY <1>1, <1>2, <1>4, <1>5, <1>6

(* Every seek of the operator: transport first.                             *)
LEMMA SeekTransportType ==
  ASSUME TypeOK, NEW t \in Positions, SeekTransport(t),
         speed' \in Speeds, playing' \in BOOLEAN,
         index' \in 0 .. Len(Rundown), armedCurrent' \in BOOLEAN,
         jumped' \in BOOLEAN, disturbed' \in BOOLEAN, timing' = Spoilt
  PROVE  TypeOK'
<1> USE DEF SeekTransport, Command, seekVars, cutVars, fireVars
<1>1. commands' \in 0 .. MaxCommands
  BY Rundowns DEF TypeOK
<1>2. CutOK(cut)' /\ CutOK(queued)' /\ CutOK(taken)'
  BY DEF TypeOK, CutOK
<1>3. timing' \in {"asap", "clock", "spoilt"}
  BY DEF TypeOK, Spoilt
<1> QED
  BY <1>1, <1>2, <1>3 DEF TypeOK

LEMMA SeekPlaybackInv == ASSUME IInv, NEW t \in Targets, SeekPlayback(t) PROVE IInv'
<1> USE DEF SeekPlayback, StopsRundown, IInv
<1>1. TypeOK'
  <2>1. armedCurrent' \in BOOLEAN /\ timing' = Spoilt
    OBVIOUS
  <2>2. index' \in 0 .. Len(Rundown) /\ t \in Positions
    BY Rundowns
  <2> QED BY <2>1, <2>2, SeekTransportType DEF TypeOK
<1>2. OneCut'
  BY DEF OneCut, SeekTransport, cutVars, fireVars
<1>3. OnTime'
  BY DEF OnTime, Spoilt
<1> QED
  BY <1>1, <1>2, <1>3, RundownOver

(* A step, a jog or going live, with the rundown running on.                *)
LEMMA JumpInv ==
  ASSUME IInv, NEW t \in Positions, SeekTransport(t), KeepsRundown, Jumps,
         speed' \in Speeds, playing' \in BOOLEAN
  PROVE  IInv'
<1> USE DEF SeekTransport, Command, KeepsRundown, Jumps, IInv, seekVars, cutVars, fireVars
<1>1. TypeOK'
  BY SeekTransportType DEF TypeOK
<1>2. OneCut'
  BY DEF OneCut
<1>3. Owned' /\ Starting' /\ Alive'
  BY CutsKept DEF CutIsAlive, Live
<1>4. SeekJumps'
  BY DEF SeekJumps
<1>5. OnTime'
  BY DEF OnTime, Spoilt
<1> QED
  BY <1>1, <1>2, <1>3, <1>4, <1>5

LEMMA StepInv == ASSUME IInv, NEW d \in {-1, 1}, Step(d) PROVE IInv'
<1>1. pos + d \in Int
  BY Numbers DEF IInv
<1>2. Clamped(pos + d) \in Positions
  BY <1>1, ClampedType
<1> QED
  BY <1>2, JumpInv DEF Step, IInv, TypeOK

LEMMA GoLiveInv == ASSUME IInv, GoLive PROVE IInv'
BY JumpInv, Rundowns DEF GoLive

LEMMA TransportInv ==
  ASSUME IInv, NEW s \in Speeds, NEW p \in BOOLEAN, Transport(s, p) PROVE IInv'
<1> USE DEF Transport, Command, IInv, rundownVars, seekVars, cutVars, fireVars
<1>1. TypeOK'
  <2>1. commands' \in 0 .. MaxCommands
    BY Rundowns DEF TypeOK
  <2>2. CutOK(cut)' /\ CutOK(queued)' /\ CutOK(taken)'
    BY DEF TypeOK, CutOK
  <2>3. timing' \in {"asap", "clock", "spoilt"}
    BY DEF TypeOK, Spoilt
  <2> QED BY <2>1, <2>2, <2>3 DEF TypeOK
<1>2. OneCut'
  BY DEF OneCut
<1>3. Owned' /\ Starting' /\ Alive'
  BY CutsKept DEF CutIsAlive, Live
<1>4. SeekJumps'
  BY DEF SeekJumps, active
<1>5. OnTime'
  BY DEF OnTime, Spoilt
<1> QED
  BY <1>1, <1>2, <1>3, <1>4, <1>5

(* The cut a call arms or queues.                                           *)
LEMMA ArmNextCutFacts ==
  ASSUME TypeOK, OneCut, NEW t \in Positions, NEW a \in Positions \cup {None}, NEW w \in Owners,
         ArmNextCut(t, a, w), UNCHANGED <<seekGen, taken, firing>>
  PROVE  /\ CutOK(cut)' /\ CutOK(queued)' /\ CutOK(taken)' /\ due' \in Int
         /\ OneCut'
         /\ \/ /\ cut = NoCut /\ firing = "no" /\ queued' = queued /\ due' = Unscheduled
               /\ cut'.owner = w /\ Live(cut)'
            \/ cut # NoCut /\ UNCHANGED cutVars /\ queued'.owner = w /\ Live(queued)'
<1> DEFINE c == [target |-> t, at |-> a, gen |-> seekGen, owner |-> w]
<1>1. c \in Cuts /\ c.gen = seekGen /\ c.owner = w /\ c # NoCut
  <2>1. c \in Cuts /\ c.gen = seekGen /\ c.owner = w /\ seekGen \in Nat
    BY DEF Cuts, TypeOK
  <2> QED BY <2>1, NoCutFacts
<1>2. CutOK(taken)' /\ seekGen <= seekGen
  BY DEF TypeOK, CutOK
<1>3. CASE cut = NoCut /\ Arm(c) /\ UNCHANGED queued
  <2>1. cut' = c /\ due' = Unscheduled /\ queued' = queued /\ firing = "no"
    BY <1>3 DEF Arm, OneCut, TypeOK
  <2>2. CutOK(cut)' /\ CutOK(queued)' /\ due' \in Int
    BY <1>1, <1>2, <2>1, Rundowns DEF CutOK, TypeOK
  <2>3. OneCut'
    BY <2>1 DEF OneCut
  <2> QED BY <1>1, <1>2, <1>3, <2>1, <2>2, <2>3 DEF Live
<1>4. CASE cut # NoCut /\ queued' = c /\ UNCHANGED cutVars
  <2>1. CutOK(cut)' /\ CutOK(queued)' /\ due' \in Int
    BY <1>1, <1>2, <1>4 DEF CutOK, TypeOK, cutVars
  <2>2. OneCut'
    BY <1>4 DEF OneCut, cutVars
  <2> QED BY <1>1, <1>2, <1>4, <2>1, <2>2 DEF Live
<1> QED
  BY <1>3, <1>4 DEF ArmNextCut

LEMMA RecallInv == ASSUME IInv, NEW t \in Targets, Recall(t) PROVE IInv'
<1> USE DEF Recall, Command, StopsRundown, IInv, seekVars, fireVars, transportVars, noteVars
<1>1. /\ CutOK(cut)' /\ CutOK(queued)' /\ CutOK(taken)' /\ due' \in Int /\ OneCut'
      /\ due' = Unscheduled \/ UNCHANGED cutVars
  BY ArmNextCutFacts, Rundowns, NoCutFacts
<1>2. TypeOK'
  <2>1. commands' \in 0 .. MaxCommands /\ index' \in 0 .. Len(Rundown)
    BY Rundowns DEF TypeOK
  <2>2. armedCurrent' \in BOOLEAN
    OBVIOUS
  <2> QED BY <1>1, <2>1, <2>2 DEF TypeOK
<1>3. OnTime'
  BY <1>1, ScheduleKept DEF OnTime, cutVars
<1> QED
  BY <1>1, <1>2, <1>3, RundownOver

LEMMA StopPlayoutInv == ASSUME IInv, StopPlayout PROVE IInv'
<1> USE DEF StopPlayout, Command, StopsRundown, IInv, seekVars, fireVars, transportVars, cutVars,
            noteVars
<1>1. TypeOK'
  <2>1. commands' \in 0 .. MaxCommands /\ index' \in 0 .. Len(Rundown)
    BY Rundowns DEF TypeOK
  <2>2. CutOK(cut)' /\ CutOK(queued)' /\ CutOK(taken)'
    BY DEF TypeOK, CutOK
  <2>3. armedCurrent' \in BOOLEAN
    OBVIOUS
  <2> QED BY <2>1, <2>2, <2>3 DEF TypeOK
<1>2. OneCut'
  BY DEF OneCut
<1>3. OnTime'
  BY ScheduleKept
<1> QED
  BY <1>1, <1>2, <1>3, RundownOver

-----------------------------------------------------------------------------
(* The calls in progress.                                                   *)
LEMMA SeekToFacts ==
  ASSUME TypeOK, OneCut, SeekTo, UNCHANGED firing
  PROVE  /\ CutOK(cut)' /\ CutOK(queued)' /\ CutOK(taken)' /\ seekGen' \in Nat /\ OneCut'
         /\ ~Live(cut)' /\ ~Live(queued)' /\ ~Live(taken)'
         /\ UNCHANGED <<cut, taken, due>>
<1> USE DEF SeekTo, cutVars
<1>1. seekGen' = seekGen + 1 /\ seekGen \in Nat /\ seekGen' \in Nat /\ queued' = NoCut
      /\ UNCHANGED <<cut, taken, due>>
  BY DEF TypeOK
<1>2. cut.gen \in Int /\ cut.gen <= seekGen /\ taken.gen \in Int /\ taken.gen <= seekGen
  BY CutFields DEF TypeOK
<1>3. CutOK(cut)' /\ CutOK(queued)' /\ CutOK(taken)'
  BY <1>1, <1>2, NoCutFacts DEF CutOK, TypeOK
<1>4. ~Live(cut)' /\ ~Live(queued)' /\ ~Live(taken)'
  BY <1>1, <1>2, NoCutFacts DEF Live
<1>5. OneCut'
  BY <1>1 DEF OneCut
<1> QED
  BY <1>1, <1>3, <1>4, <1>5

LEMMA PlaySeekToInv == ASSUME IInv, PlaySeekTo PROVE IInv'
<1> USE DEF PlaySeekTo, IInv, transportVars, rundownVars, fireVars, noteVars
<1>0. /\ CutOK(cut)' /\ CutOK(queued)' /\ CutOK(taken)' /\ seekGen' \in Nat /\ OneCut'
      /\ ~Live(cut)' /\ ~Live(queued)' /\ ~Live(taken)'
      /\ UNCHANGED <<cut, taken, due>>
  BY SeekToFacts
<1>1. TypeOK'
  <2>1. seekPending' \in BOOLEAN /\ epoch' \in Speeds \cup {NoEpoch} /\ due' \in Int
    BY <1>0 DEF SeekTo, TypeOK
  <2> QED BY <1>0, <2>1 DEF TypeOK
<1>2. Owned' /\ Alive' /\ SeekJumps'
  BY DEF Owned, Alive, SeekJumps, Running
<1>3. Starting'
  BY <1>0 DEF Starting, CutIsAlive, QueuedIsAlive, TakenIsAlive, active
<1>4. OnTime'
  BY <1>0 DEF OnTime
<1> QED
  BY <1>0, <1>1, <1>2, <1>3, <1>4

LEMMA PlayBaselineInv == ASSUME IInv, PlayBaseline PROVE IInv'
<1> USE DEF PlayBaseline, Baseline, IInv, seekVars, cutVars, fireVars, noteVars
<1>1. TypeOK'
  <2>1. baseline' \in 0 .. Len(fired')
    BY Numbers
  <2>2. CutOK(cut)' /\ CutOK(queued)' /\ CutOK(taken)'
    BY DEF TypeOK, CutOK
  <2>3. playing' \in BOOLEAN
    OBVIOUS
  <2> QED BY <2>1, <2>2, <2>3 DEF TypeOK
<1>2. OneCut'
  BY DEF OneCut
<1>3. CutIsAlive' = CutIsAlive /\ QueuedIsAlive' = QueuedIsAlive /\ TakenIsAlive' = TakenIsAlive
  BY DEF CutIsAlive, QueuedIsAlive, TakenIsAlive, Live
<1>4. Unseen' = 0
  BY Numbers DEF Unseen
<1>5. Running' =>
        ~CutIsAlive' /\ ~QueuedIsAlive' /\ ~TakenIsAlive' /\ ~armedCurrent'
  BY <1>3 DEF Running, Starting, active
<1>6. Owned'
  BY <1>4, <1>5 DEF Owned, Sole, Mine, OneUnseen
<1>7. Alive' /\ Starting' /\ SeekJumps'
  BY <1>5 DEF Alive, Starting, SeekJumps
<1>8. OnTime'
  <2>1. active /\ ~straddled => ~Live(cut) \/ firing # "no"
    BY DEF Starting, CutIsAlive
  <2> QED BY DEF OnTime, Live, Ahead
<1> QED
  BY <1>1, <1>2, <1>6, <1>7, <1>8

LEMMA SeekWorkerInv == ASSUME IInv, SeekWorker PROVE IInv'
<1> USE DEF SeekWorker, IInv, transportVars, rundownVars, fireVars, noteVars
<1>0. /\ CutOK(cut)' /\ CutOK(queued)' /\ CutOK(taken)' /\ seekGen' \in Nat /\ OneCut'
      /\ ~Live(cut)' /\ ~Live(queued)' /\ ~Live(taken)'
      /\ UNCHANGED <<cut, taken, due>>
  BY SeekToFacts
<1>1. TypeOK'
  <2>1. seekPending' \in BOOLEAN /\ epoch' \in Speeds \cup {NoEpoch} /\ due' \in Int
    BY <1>0 DEF SeekTo, TypeOK
  <2> QED BY <1>0, <2>1 DEF TypeOK
<1>2. ~QueuedIsAlive' /\ ~TakenIsAlive' /\ (CutIsAlive' => CutIsAlive)
  BY <1>0 DEF CutIsAlive, QueuedIsAlive, TakenIsAlive
<1>3. Owned'
  <2>1. Running' => Running
    BY DEF Running, active
  <2> QED BY <1>0, <1>2, <2>1 DEF Owned, Sole, Mine, OwnedBy, OneUnseen, Boundary, Unseen
<1>4. Starting'
  BY DEF Starting
<1>5. Alive' /\ SeekJumps'
  BY DEF Alive, SeekJumps, Running, active
<1>6. OnTime'
  BY <1>0 DEF OnTime
<1> QED
  BY <1>0, <1>1, <1>3, <1>4, <1>5, <1>6

-----------------------------------------------------------------------------
(* The monitor.                                                             *)
LEMMA PlayoutTickInv == ASSUME IInv, PlayoutTick PROVE IInv'
<1> DEFINE i == Reached
           s == IF i # index THEN Rundown[i].speed ELSE speed
           N == Len(Rundown)
<1> USE DEF IInv
<1>0. /\ gui = "idle" /\ active /\ index \in 1 .. N /\ N \in Nat /\ Unseen \in Nat
      /\ baseline' = Len(fired) /\ speed' = s
      /\ UNCHANGED <<guiVars, pos, playing, play, seekVars, taken, epoch, fireVars, noteVars>>
  BY Numbers, Rundowns DEF PlayoutTick, active, TypeOK
<1>1. /\ i \in index .. N /\ i \in 1 .. N /\ s \in Speeds
      /\ i = IF index + Unseen > N THEN N ELSE index + Unseen
  <2>1. i = IF index + Unseen > N THEN N ELSE index + Unseen
    BY DEF Reached, Advanced, Unseen
  <2>2. i \in index .. N /\ i \in 1 .. N
    BY <1>0, <2>1
  <2> QED BY <2>1, <2>2, Rundowns DEF Entries, TypeOK
<1>2. ~straddled => /\ Unseen = 0 => i = index
                    /\ Unseen # 0 => Unseen = 1 /\ i = index + 1
                    /\ Unseen # 0 => ~CutIsAlive /\ ~QueuedIsAlive /\ ~TakenIsAlive
                    /\ ~armedCurrent => ~CutIsAlive /\ ~QueuedIsAlive /\ ~TakenIsAlive
  <2>1. ~straddled => Sole /\ Mine /\ OneUnseen
    BY <1>0 DEF Owned, Running
  <2> QED BY <1>0, <1>1, <2>1 DEF Mine, OwnedBy, OneUnseen
<1>3. Unseen' = 0
  BY <1>0, Numbers DEF Unseen, fireVars
<1>4. ASSUME UNCHANGED <<cutVars, queued>>
      PROVE  /\ CutOK(cut)' /\ CutOK(queued)' /\ CutOK(taken)' /\ due' \in Int /\ OneCut'
             /\ (CutIsAlive' <=> CutIsAlive) /\ (QueuedIsAlive' <=> QueuedIsAlive)
             /\ (TakenIsAlive' <=> TakenIsAlive)
  BY <1>0, <1>4 DEF TypeOK, CutOK, OneCut, CutIsAlive, QueuedIsAlive, TakenIsAlive, Live, cutVars,
                    seekVars, fireVars
<1>5. ASSUME index' \in 0 .. N, armedCurrent' \in BOOLEAN,
             CutOK(cut)', CutOK(queued)', CutOK(taken)', due' \in Int
      PROVE  TypeOK'
  <2>1. baseline' \in 0 .. Len(fired')
    BY <1>0, Numbers DEF fireVars
  <2> QED BY <1>0, <1>1, <1>5, <2>1 DEF TypeOK, guiVars, seekVars, fireVars, noteVars
<1>6. ASSUME UNCHANGED cutVars PROVE OnTime'
  <2>1. CASE ~straddled /\ Live(cut) /\ firing = "no"
    <3>1. CutIsAlive
      BY <2>1 DEF CutIsAlive
    <3>2. speed' = speed
      BY <1>0, <1>2, <2>1, <3>1
    <3> QED BY <1>0, <1>6, <3>2, ScheduleKept DEF cutVars, seekVars, fireVars, noteVars
  <2>2. CASE straddled \/ ~Live(cut) \/ firing # "no"
    BY <1>0, <1>6, <2>2 DEF OnTime, Live, cutVars, seekVars, fireVars, noteVars
  <2> QED BY <2>1, <2>2
<1>7. CASE Ends(i) /\ StopsRundown /\ UNCHANGED <<cutVars, queued>>
  <2>1. index' \in 0 .. N /\ index' = 0
    BY <1>0, <1>7 DEF StopsRundown
  <2>2. armedCurrent' \in BOOLEAN
    BY <1>7 DEF StopsRundown
  <2> QED BY <1>4, <1>5, <1>6, <1>7, <2>1, <2>2, RundownOver
<1>8. CASE /\ ~Ends(i) /\ ~Evaluate(i, s)
           /\ index' = i /\ armedCurrent' = StillArmed(i)
           /\ UNCHANGED <<cutVars, queued>>
  <2>1. index' \in 0 .. N /\ armedCurrent' \in BOOLEAN /\ i < N
    BY <1>0, <1>1, <1>8 DEF StillArmed, Ends, TypeOK
  <2>2. Owned'
    <3>1. CASE straddled
      BY <1>0, <3>1 DEF Owned, Running, noteVars
    <3>2. CASE ~straddled /\ Unseen = 0
      <4>1. index' = index /\ armedCurrent' = armedCurrent
        BY <1>2, <1>8, <3>2 DEF StillArmed, TypeOK
      <4>2. Sole /\ Mine
        BY <1>0, <3>2 DEF Owned, Running
      <4> QED BY <1>0, <1>3, <1>4, <1>8, <3>2, <4>1, <4>2
              DEF Owned, Sole, Mine, OwnedBy, OneUnseen, Boundary, cutVars
    <3>3. CASE ~straddled /\ Unseen # 0
      <4>1. ~CutIsAlive' /\ ~QueuedIsAlive' /\ ~TakenIsAlive'
        BY <1>2, <1>4, <1>8, <3>3
      <4> QED BY <1>3, <4>1 DEF Owned, Sole, Mine, OneUnseen
    <3> QED BY <3>1, <3>2, <3>3
  <2>3. Alive'
    <3> SUFFICES ASSUME Running', armedCurrent', ~jumped', ~lost'
                 PROVE  CutIsAlive' \/ QueuedIsAlive' \/ TakenIsAlive'
      BY DEF Alive
    <3>1. ~straddled /\ ~jumped /\ ~lost /\ armedCurrent /\ i = index
      BY <1>0, <1>8 DEF Running, StillArmed, noteVars
    <3>2. Unseen = 0
      BY <1>0, <1>2, <3>1
    <3>3. CutIsAlive \/ QueuedIsAlive \/ TakenIsAlive
      BY <1>0, <3>1, <3>2 DEF Alive, Running
    <3> QED BY <1>4, <1>8, <3>3
  <2>4. Starting' /\ SeekJumps'
    BY <1>0 DEF Starting, SeekJumps, guiVars
  <2> QED BY <1>4, <1>5, <1>6, <1>8, <2>1, <2>2, <2>3, <2>4
<1>9. CASE /\ ~Ends(i) /\ Evaluate(i, s)
           /\ index' = i /\ armedCurrent' = TRUE
           /\ ArmNextCut(Rundown[i + 1].in, Rundown[i].out, <<play, i>>)
  <2>1. i < N /\ i + 1 \in 1 .. N /\ i \in 1 .. N
    BY <1>0, <1>1, <1>9 DEF Ends
  <2>2. /\ Rundown[i + 1].in \in Positions /\ Rundown[i].out \in Positions
        /\ <<play, i>> \in Owners
    BY <2>1, Rundowns, Numbers DEF Entries, Owners
  <2>3. UNCHANGED <<seekGen, taken, firing, fired, play, straddled, gui>>
    BY <1>0 DEF seekVars, fireVars, noteVars, guiVars
  <2>4. /\ CutOK(cut)' /\ CutOK(queued)' /\ CutOK(taken)' /\ due' \in Int
        /\ OneCut'
        /\ \/ /\ cut = NoCut /\ firing = "no" /\ queued' = queued /\ due' = Unscheduled
              /\ cut'.owner = <<play, i>> /\ Live(cut)'
           \/ cut # NoCut /\ UNCHANGED cutVars /\ queued'.owner = <<play, i>> /\ Live(queued)'
    BY <1>9, <2>2, <2>3, ArmNextCutFacts
  <2>5. index' \in 0 .. N /\ armedCurrent' \in BOOLEAN /\ armedCurrent'
    BY <1>1, <1>9
  <2>6. Boundary' = <<play, i>>
    BY <1>9, <2>3 DEF Boundary
  <2>7. ~straddled => ~CutIsAlive /\ ~QueuedIsAlive /\ ~TakenIsAlive
    <3>1. ~StillArmed(i)
      BY <1>9 DEF Evaluate
    <3> QED BY <1>0, <1>2, <3>1 DEF StillArmed
  <2>8. Owned' /\ Alive'
    <3>1. CASE straddled
      BY <2>3, <3>1 DEF Owned, Alive, Running
    <3>2. CASE ~straddled /\ cut = NoCut /\ firing = "no" /\ queued' = queued
               /\ cut'.owner = <<play, i>> /\ Live(cut)'
      <4>1. CutIsAlive' /\ ~QueuedIsAlive' /\ ~TakenIsAlive'
        BY <2>3, <2>7, <3>2 DEF CutIsAlive, QueuedIsAlive, TakenIsAlive, Live
      <4> QED BY <1>3, <1>9, <2>1, <2>6, <3>2, <4>1
              DEF Owned, Alive, Sole, Mine, OwnedBy, OneUnseen
    <3>3. CASE ~straddled /\ UNCHANGED cutVars /\ queued'.owner = <<play, i>> /\ Live(queued)'
      <4>1. ~CutIsAlive' /\ QueuedIsAlive' /\ ~TakenIsAlive'
        BY <2>3, <2>7, <3>3 DEF CutIsAlive, QueuedIsAlive, TakenIsAlive, Live, cutVars
      <4> QED BY <1>3, <1>9, <2>1, <2>6, <3>3, <4>1
              DEF Owned, Alive, Sole, Mine, OwnedBy, OneUnseen
    <3> QED BY <2>4, <3>1, <3>2, <3>3
  <2>9. Starting' /\ SeekJumps'
    BY <1>0, <2>3 DEF Starting, SeekJumps
  <2>10. OnTime'
    BY <1>6, <2>4 DEF OnTime
  <2> QED BY <1>5, <2>4, <2>5, <2>8, <2>9, <2>10
<1> QED
  BY <1>7, <1>8, <1>9 DEF PlayoutTick

-----------------------------------------------------------------------------
(* The playback thread.                                                     *)
LEMMA TakeSeekInv == ASSUME IInv, TakeSeek PROVE IInv'
<1> USE DEF TakeSeek, IInv, guiVars, transportVars, rundownVars, cutVars, fireVars, noteVars
<1>1. TypeOK'
  <2>1. CutOK(cut)' /\ CutOK(queued)' /\ CutOK(taken)'
    BY DEF TypeOK, CutOK
  <2>2. seekPending' \in BOOLEAN /\ epoch' \in Speeds \cup {NoEpoch}
    OBVIOUS
  <2> QED BY <2>1, <2>2 DEF TypeOK
<1>2. OneCut'
  BY DEF OneCut
<1>3. Owned' /\ Starting' /\ Alive'
  BY CutsKept DEF CutIsAlive, Live
<1>4. SeekJumps' /\ OnTime'
  BY ScheduleKept DEF SeekJumps, active
<1> QED
  BY <1>1, <1>2, <1>3, <1>4

LEMMA TakeRearmInv == ASSUME IInv, TakeRearm PROVE IInv'
<1> USE DEF TakeRearm, IInv, guiVars, transportVars, rundownVars, seekVars, cutVars, fireVars
<1>0. /\ ~Live(NoCut) /\ ~Live(cut) /\ ~Live(taken) /\ firing = "no" /\ due = Unscheduled
      /\ queued' = NoCut /\ ~Live(queued)' /\ seekGen' = seekGen
      /\ UNCHANGED <<cut, firing, fired, play, index, armedCurrent, baseline, straddled>>
  BY NoCutFacts DEF OneCut, Live, TypeOK
<1>1. taken' = queued \/ taken' = NoCut
  OBVIOUS
<1>2. TypeOK'
  <2>1. CutOK(cut)' /\ CutOK(queued)' /\ CutOK(taken)'
    BY <1>0, <1>1, NoCutFacts DEF TypeOK, CutOK
  <2>2. lost' \in BOOLEAN
    BY DEF TypeOK
  <2> QED BY <2>1, <2>2 DEF TypeOK
<1>3. OneCut'
  BY <1>0 DEF OneCut
<1>4. /\ ~CutIsAlive /\ ~CutIsAlive' /\ ~TakenIsAlive /\ ~QueuedIsAlive'
      /\ TakenIsAlive' => QueuedIsAlive /\ taken' = queued
      /\ QueuedIsAlive => TakenIsAlive' \/ lost'
  BY <1>0 DEF CutIsAlive, TakenIsAlive, QueuedIsAlive, StillWanted, Live
<1>5. Running' <=> Running
  BY DEF Running, active
<1>6. Owned'
  BY <1>0, <1>4, <1>5 DEF Owned, Sole, Mine, OwnedBy, OneUnseen, Boundary, Unseen
<1>7. Starting'
  BY <1>0, <1>4 DEF Starting, active
<1>8. Alive'
  <2>1. lost => lost'
    OBVIOUS
  <2> QED BY <1>4, <1>5, <2>1 DEF Alive, Unseen
<1>9. SeekJumps' /\ OnTime'
  BY ScheduleKept DEF SeekJumps, active
<1> QED
  BY <1>2, <1>3, <1>6, <1>7, <1>8, <1>9

LEMMA ApplyRearmInv == ASSUME IInv, ApplyRearm PROVE IInv'
<1> USE DEF ApplyRearm, Arm, IInv, guiVars, transportVars, rundownVars, seekVars, fireVars
<1>0. /\ firing = "no" /\ due = Unscheduled /\ due' = Unscheduled /\ cut' = taken /\ taken' = NoCut
      /\ queued' = queued /\ seekGen' = seekGen /\ ~Live(taken)' /\ taken # NoCut
      /\ UNCHANGED <<firing, fired, play, index, armedCurrent, baseline, straddled>>
      /\ lost' <=> lost \/ cut # NoCut
  <2>1. firing = "no" /\ due = Unscheduled /\ taken # NoCut
    BY DEF OneCut, TypeOK
  <2>2. ~Live(taken)' /\ seekGen' = seekGen
    BY NoCutFacts DEF Live, TypeOK
  <2>3. lost' <=> lost \/ cut # NoCut
    OBVIOUS
  <2> QED BY <2>1, <2>2, <2>3
<1>1. TypeOK'
  <2>1. CutOK(cut)' /\ CutOK(queued)' /\ CutOK(taken)' /\ due' \in Int
    BY <1>0, NoCutFacts, Rundowns DEF TypeOK, CutOK
  <2>2. lost' \in BOOLEAN
    BY DEF TypeOK
  <2> QED BY <2>1, <2>2 DEF TypeOK
<1>2. OneCut'
  BY <1>0 DEF OneCut
<1>3. /\ (CutIsAlive' <=> TakenIsAlive) /\ ~TakenIsAlive' /\ (QueuedIsAlive' <=> QueuedIsAlive)
      /\ CutIsAlive /\ ~lost' => FALSE
  <2>1. ~Live(NoCut)
    BY NoCutFacts DEF Live, TypeOK
  <2> QED BY <1>0, <2>1 DEF CutIsAlive, TakenIsAlive, QueuedIsAlive, Live
<1>4. Running' <=> Running
  BY DEF Running, active
<1>5. Owned'
  BY <1>0, <1>3, <1>4 DEF Owned, Sole, Mine, OwnedBy, OneUnseen, Boundary, Unseen
<1>6. Starting'
  BY <1>0, <1>3 DEF Starting, active
<1>7. Alive'
  BY <1>0, <1>3, <1>4 DEF Alive, Unseen
<1>8. SeekJumps' /\ OnTime'
  BY <1>0 DEF SeekJumps, active, OnTime
<1> QED
  BY <1>1, <1>2, <1>5, <1>6, <1>7, <1>8

(* Rounding to the nearest frame costs at most half of one.                 *)
LEMMA Rounding ==
  ASSUME NEW n \in Int, NEW d \in Nat \ {0}
  PROVE  /\ RoundedQuotient(n, d) \in Int
         /\ 2 * (n - d * RoundedQuotient(n, d)) < d
<1> DEFINE q == RoundedQuotient(n, d)
<1>1. 2 * d \in Nat \ {0} /\ 2 * n + d \in Int
  OBVIOUS
<1>2. q \in Int /\ 2 * n + d < (2 * d) * q + 2 * d
  BY <1>1 DEF RoundedQuotient
<1>3. (2 * d) * q = 2 * (d * q)
  BY <1>2
<1> QED
  BY <1>2, <1>3

LEMMA StageInv == ASSUME IInv, Stage PROVE IInv'
<1> USE DEF Stage, IInv, guiVars, transportVars, rundownVars, seekVars, fireVars
<1>1. due' \in Int
  <2>1. CASE Timed(cut) /\ FramesTo(cut.at) > CutLead
    <3>1. cut.at - pos \in Int /\ epoch \in Nat \ {0}
      BY <2>1, CutFields, Numbers, Rundowns DEF Timed, TypeOK, NoEpoch, Positions
    <3> QED BY <2>1, <3>1, Rounding DEF DueIn, FramesTo
  <2>2. CASE ~(Timed(cut) /\ FramesTo(cut.at) > CutLead)
    BY <2>2, Rundowns DEF DueIn
  <2> QED BY <2>1, <2>2
<1>2. TypeOK'
  <2>1. CutOK(cut)' /\ CutOK(queued)' /\ CutOK(taken)'
    BY DEF TypeOK, CutOK
  <2>2. timing' \in {"asap", "clock", "spoilt"}
    OBVIOUS
  <2> QED BY <1>1, <2>1, <2>2 DEF TypeOK
<1>3. OneCut'
  BY DEF OneCut
<1>4. Owned' /\ Starting' /\ Alive'
  BY CutsKept DEF CutIsAlive, Live
<1>5. SeekJumps'
  BY DEF SeekJumps, active
<1>6. OnTime'
  <2> SUFFICES ASSUME timing' = "clock"
               PROVE  cut.at # None /\ playing /\ speed > 0 /\ 2 * (cut.at - pos - Ahead') < speed
    BY DEF OnTime
  <2> DEFINE n == cut.at - pos
             q == FramesTo(cut.at)
  <2>1. Timed(cut) /\ epoch = speed /\ playing
    OBVIOUS
  <2>2. cut.at # None /\ speed > 0 /\ n \in Int /\ speed \in Nat \ {0} /\ CutLead \in Nat
    BY <2>1, CutFields, Numbers, Rundowns DEF Timed, TypeOK, Positions
  <2>3. q \in Int /\ 2 * (n - speed * q) < speed
    BY <2>1, <2>2, Rounding DEF FramesTo
  <2>4. due' >= q /\ due' >= 0 /\ due' = IF q > CutLead THEN q ELSE CutLead
    BY <2>1, <2>2, <2>3 DEF DueIn
  <2>5. CASE due' > 0
    <3>1. Ahead' = speed * due'
      BY <2>5 DEF Ahead
    <3>2. due' - q \in Nat /\ speed * due' = speed * q + speed * (due' - q)
      BY <1>1, <2>2, <2>3, <2>4
    <3>3. speed * (due' - q) \in Nat /\ speed * q \in Int
      BY <2>2, <2>3, <3>2
    <3>4. 2 * (n - speed * due') < speed
      BY <2>2, <2>3, <3>2, <3>3
    <3> QED BY <2>1, <2>2, <3>1, <3>4
  <2>6. CASE due' = 0
    <3>1. Ahead' = 0 /\ -q \in Nat
      BY <2>3, <2>4, <2>6 DEF Ahead
    <3>2. speed * (-q) \in Nat /\ speed * q = -(speed * (-q))
      BY <2>2, <2>3, <3>1
    <3> QED BY <2>1, <2>2, <2>3, <3>1, <3>2
  <2> QED BY <1>1, <2>4, <2>5, <2>6
<1> QED
  BY <1>2, <1>3, <1>4, <1>5, <1>6

-----------------------------------------------------------------------------
(* An output frame: while the playhead comes a step closer to the out-point *)
(* the cut comes a frame closer.                                            *)
LEMMA TickInv == ASSUME IInv, Tick PROVE IInv'
<1> USE DEF Tick, IInv, guiVars, rundownVars, seekVars, fireVars, noteVars
<1>0. /\ pos \in Int /\ pos >= 0 /\ pos <= Last /\ speed \in Int \ {0} /\ due \in Int
      /\ Last \in Nat /\ speed \in Speeds
  BY Numbers, Rundowns DEF TypeOK
<1>1. TypeOK'
  <2>1. CutOK(cut)' /\ CutOK(queued)' /\ CutOK(taken)'
    BY DEF TypeOK, CutOK
  <2>2. pos + speed \in Int
    BY <1>0
  <2>3. pos' \in Positions
    BY <2>2, ClampedType DEF TypeOK
  <2>4. playing' \in BOOLEAN /\ due' \in Int
    BY <1>0 DEF TypeOK
  <2>5. epoch' \in Speeds \cup {NoEpoch}
    BY <1>0
  <2> QED BY <2>1, <2>3, <2>4, <2>5 DEF TypeOK
<1>2. OneCut'
  BY DEF OneCut
<1>3. Owned' /\ Starting' /\ Alive'
  BY CutsKept DEF CutIsAlive, Live
<1>4. SeekJumps'
  BY DEF SeekJumps, active
<1>5. OnTime'
  <2> SUFFICES ASSUME due' # Unscheduled, timing = "clock", ~straddled, Live(cut), firing = "no"
               PROVE  /\ cut.at # None /\ playing' /\ speed > 0
                      /\ 2 * (cut.at - pos' - Ahead') < speed
    BY DEF OnTime, Live
  <2>1. due # Unscheduled /\ due' = due - 1
    OBVIOUS
  <2>2. cut.at # None /\ playing /\ speed > 0 /\ 2 * (cut.at - pos - Ahead) < speed
    BY <2>1 DEF OnTime
  <2>3. cut.at \in Int /\ cut.at <= Last
    BY <1>0, <2>2, CutFields DEF TypeOK, Positions
  <2>4. playing' /\ pos' = IF pos + speed > Last THEN Last ELSE pos + speed
    <3>1. pos + speed >= 0
      BY <1>0, <2>2
    <3>2. playing'
      BY <2>2, <3>1
    <3>3. pos' = Clamped(pos + speed)
      BY <2>2
    <3>4. ~(pos + speed < 0)
      BY <1>0, <3>1
    <3> QED BY <3>2, <3>3, <3>4 DEF Clamped
  <2>5. CASE due <= 0
    <3>1. Ahead = 0 /\ Ahead' = 0
      BY <1>0, <2>1, <2>5 DEF Ahead
    <3> QED BY <1>0, <2>2, <2>3, <2>4, <3>1
  <2>6. CASE due > 0
    <3>1. due - 1 \in Nat /\ Ahead = speed * due /\ Ahead' = speed * (due - 1)
      BY <1>0, <2>1, <2>6 DEF Ahead
    <3>2. speed * (due - 1) \in Nat /\ speed * due = speed * (due - 1) + speed
      BY <1>0, <2>2, <3>1
    <3> QED BY <1>0, <2>2, <2>3, <2>4, <3>1, <3>2
  <2> QED BY <1>0, <2>5, <2>6
<1> QED
  BY <1>1, <1>2, <1>3, <1>4, <1>5

-----------------------------------------------------------------------------
(* The output thread.                                                       *)
LEMMA AbortCutInv == ASSUME IInv, AbortCut PROVE IInv'
<1> USE DEF AbortCut, Reaches, IInv, guiVars, transportVars, rundownVars, seekVars, noteVars
<1>1. TypeOK'
  <2>1. CutOK(cut)' /\ CutOK(queued)' /\ CutOK(taken)' /\ due' \in Int
    BY Rundowns DEF TypeOK, CutOK
  <2> QED BY <2>1 DEF TypeOK
<1>2. OneCut'
  BY DEF OneCut
<1>3. Owned' /\ Starting' /\ Alive'
  <2>1. ~CutIsAlive /\ ~CutIsAlive'
    BY DEF CutIsAlive, Live
  <2> QED BY <2>1, CutsKept
<1>4. SeekJumps' /\ OnTime'
  BY DEF SeekJumps, active, OnTime
<1> QED
  BY <1>1, <1>2, <1>3, <1>4

LEMMA FireCutInv == ASSUME IInv, FireCut PROVE IInv'
<1> USE DEF FireCut, Fires, Reaches, IInv, guiVars, transportVars, rundownVars, seekVars, cutVars
<1>1. TypeOK'
  <2>1. CutOK(cut)' /\ CutOK(queued)' /\ CutOK(taken)'
    BY DEF TypeOK, CutOK
  <2>2. cutTo' \in Positions
    <3>1. cut.target - due \in Int
      BY CutFields DEF TypeOK
    <3> QED BY <3>1, ClampedType
  <2>3. straddled' \in BOOLEAN
    BY DEF TypeOK
  <2> QED BY <2>1, <2>2, <2>3 DEF TypeOK
<1>2. OneCut'
  BY DEF OneCut
<1>3. SeekJumps' /\ OnTime'
  BY DEF SeekJumps, active, OnTime
<1>4. CASE straddled'
  BY <1>1, <1>2, <1>3, <1>4 DEF Owned, Starting, Alive, Running
<1>5. CASE ~straddled'
  <2>1. straddled' = straddled /\ ~straddled /\ gui \notin {"play", "baseline"}
    BY <1>5 DEF TypeOK
  <2>2. CutIsAlive /\ CutIsAlive'
    BY DEF CutIsAlive, Live
  <2>3. /\ QueuedIsAlive' <=> QueuedIsAlive
        /\ TakenIsAlive' <=> TakenIsAlive
        /\ Running' <=> Running
    BY <2>1 DEF QueuedIsAlive, TakenIsAlive, Live, Running, active
  <2>4. Owned' /\ Alive'
    BY <2>1, <2>2, <2>3
       DEF Owned, Alive, Sole, Mine, OwnedBy, OneUnseen, Boundary, Unseen
  <2>5. Starting'
    BY <2>1 DEF Starting
  <2> QED BY <1>1, <1>2, <1>3, <2>4, <2>5
<1> QED
  BY <1>4, <1>5

LEMMA RebaseInv == ASSUME IInv, Rebase PROVE IInv'
<1> USE DEF Rebase, IInv, guiVars, rundownVars, seekVars, noteVars
<1>1. TypeOK'
  <2>1. CutOK(cut)' /\ CutOK(queued)' /\ CutOK(taken)' /\ due' \in Int
    BY Rundowns DEF TypeOK, CutOK
  <2>2. epoch' \in Speeds \cup {NoEpoch} /\ pos' \in Positions
    BY DEF TypeOK
  <2> QED BY <2>1, <2>2 DEF TypeOK
<1>2. OneCut'
  BY DEF OneCut
<1>3. Owned' /\ Starting' /\ Alive'
  BY CutsKept DEF CutIsAlive
<1>4. SeekJumps' /\ OnTime'
  BY DEF SeekJumps, active, OnTime
<1> QED
  BY <1>1, <1>2, <1>3, <1>4

LEMMA CountInv == ASSUME IInv, Count PROVE IInv'
<1> USE DEF Count, IInv, guiVars, transportVars, rundownVars, seekVars, cutVars, noteVars
<1>0. /\ Len(fired) \in Nat /\ baseline \in Nat /\ baseline <= Len(fired) /\ cut.owner \in Owners
      /\ fired \in Seq(Owners)
  BY Numbers, CutFields DEF TypeOK
<1>1. /\ fired' \in Seq(Owners) /\ Len(fired') = Len(fired) + 1
      /\ fired'[Len(fired')] = cut.owner /\ Unseen' = Unseen + 1 /\ baseline' = baseline
  BY <1>0, AppendProperties DEF Unseen
<1>2. TypeOK'
  <2>1. CutOK(cut)' /\ CutOK(queued)' /\ CutOK(taken)'
    BY DEF TypeOK, CutOK
  <2>2. baseline' \in 0 .. Len(fired')
    BY <1>0, <1>1
  <2> QED BY <1>1, <2>1, <2>2 DEF TypeOK
<1>3. OneCut'
  BY DEF OneCut
<1>4. CutIsAlive /\ ~CutIsAlive'
  BY DEF CutIsAlive
<1>5. Running' => Running /\ Sole /\ Mine /\ OneUnseen
  BY DEF Owned, Running, active
<1>6. Running' => ~QueuedIsAlive' /\ ~TakenIsAlive' /\ Unseen = 0
                  /\ cut.owner = Boundary' /\ index' < Len(Rundown)
  BY <1>4, <1>5 DEF Sole, Mine, OwnedBy, QueuedIsAlive, TakenIsAlive, Live, Boundary
<1>7. Owned' /\ Alive'
  BY <1>1, <1>4, <1>6 DEF Owned, Alive, Sole, Mine, OneUnseen
<1>8. Starting'
  BY <1>4 DEF Starting, QueuedIsAlive, TakenIsAlive, Live, active
<1>9. SeekJumps' /\ OnTime'
  BY DEF SeekJumps, active, OnTime
<1> QED
  BY <1>2, <1>3, <1>7, <1>8, <1>9

LEMMA DisarmInv == ASSUME IInv, Disarm PROVE IInv'
<1> USE DEF Disarm, IInv, guiVars, transportVars, rundownVars, seekVars, noteVars
<1>1. TypeOK'
  <2>1. CutOK(cut)' /\ CutOK(queued)' /\ CutOK(taken)'
    BY NoCutFacts DEF TypeOK, CutOK
  <2> QED BY <2>1 DEF TypeOK
<1>2. OneCut'
  BY DEF OneCut
<1>3. ~CutIsAlive /\ ~CutIsAlive' /\ ~Live(cut)'
  BY NoCutFacts DEF CutIsAlive, Live, TypeOK
<1>4. /\ QueuedIsAlive' <=> QueuedIsAlive
      /\ TakenIsAlive' <=> TakenIsAlive
      /\ Running' <=> Running
  BY DEF QueuedIsAlive, TakenIsAlive, Live, Running, active
<1>5. Owned' /\ Alive'
  BY <1>3, <1>4 DEF Owned, Alive, Sole, Mine, OwnedBy, OneUnseen, Boundary, Unseen
<1>6. Starting'
  BY <1>3, <1>4 DEF Starting, active
<1>7. SeekJumps' /\ OnTime'
  BY <1>3 DEF SeekJumps, active, OnTime
<1> QED
  BY <1>1, <1>2, <1>5, <1>6, <1>7

-----------------------------------------------------------------------------
LEMMA OperatorInv == ASSUME IInv, Operator PROVE IInv'
<1>1. ASSUME NEW i \in Entries, Play(i) PROVE IInv'
  BY <1>1, PlayInv
<1>2. ASSUME NEW t \in Targets, SeekPlayback(t) \/ Recall(t) PROVE IInv'
  BY <1>2, SeekPlaybackInv, RecallInv
<1>3. ASSUME NEW d \in {-1, 1}, Step(d) PROVE IInv'
  BY <1>3, StepInv
<1>4. ASSUME NEW s \in Shuttles, Shuttle(s) PROVE IInv'
  <2>1. s \in Speeds /\ TRUE \in BOOLEAN
    BY Rundowns
  <2> QED BY <1>4, <2>1, TransportInv DEF Shuttle
<1>5. CASE PlayPause
  <2>1. speed \in Speeds
    BY DEF IInv, TypeOK
  <2>2. (~playing) \in BOOLEAN
    OBVIOUS
  <2> QED BY <1>5, <2>1, <2>2, TransportInv DEF PlayPause
<1> QED
  BY <1>1, <1>2, <1>3, <1>4, <1>5, GoLiveInv, StopPlayoutInv DEF Operator

LEMMA NextInv == ASSUME IInv, [Next]_vars PROVE IInv'
<1>1. CASE Operator
  BY <1>1, OperatorInv
<1>2. CASE Gui
  BY <1>2, PlaySeekToInv, PlayBaselineInv, SeekWorkerInv DEF Gui
<1>3. CASE PlayoutTick \/ Tick
  BY <1>3, PlayoutTickInv, TickInv
<1>4. CASE Worker
  BY <1>4, TakeSeekInv, TakeRearmInv, ApplyRearmInv, StageInv DEF Worker
<1>5. CASE Output
  BY <1>5, AbortCutInv, FireCutInv, RebaseInv, CountInv, DisarmInv DEF Output
<1>6. CASE UNCHANGED vars
  <2> USE <1>6 DEF IInv, vars, guiVars, transportVars, rundownVars, seekVars, cutVars, fireVars,
                   noteVars
  <2>1. TypeOK'
    <3>1. CutOK(cut)' /\ CutOK(queued)' /\ CutOK(taken)'
      BY DEF TypeOK, CutOK
    <3> QED BY <3>1 DEF TypeOK
  <2>2. OneCut' /\ SeekJumps'
    BY DEF OneCut, SeekJumps, active
  <2>3. Owned' /\ Starting' /\ Alive'
    BY CutsKept DEF CutIsAlive, Live
  <2>4. OnTime'
    BY ScheduleKept
  <2> QED BY <2>1, <2>2, <2>3, <2>4
<1> QED
  BY <1>1, <1>2, <1>3, <1>4, <1>5, <1>6 DEF Next

LEMMA Inductive == Spec => []IInv
BY InitInv, NextInv, PTL DEF Spec

(* The variables keep their types, no cut carries a generation beyond the   *)
(* latest seek, and the output thread never rebases to nowhere.             *)
THEOREM TypeCorrect == Spec => []TypeOK
<1>1. IInv => TypeOK
  BY DEF IInv
<1> QED
  BY <1>1, Inductive, PTL

(* The monitor only ever counts cuts of its own rundown, in order: of the   *)
(* cuts fired since its baseline there is at most one, the present boundary.*)
THEOREM CutsAreItsOwn == Spec => []CountsOwnBoundaries
<1>1. ASSUME IInv PROVE CountsOwnBoundaries
  <2> SUFFICES ASSUME gui = "idle", active, ~straddled, NEW k \in baseline + 1 .. Len(fired)
               PROVE  fired[k] = <<play, index + k - baseline - 1>>
    BY DEF CountsOwnBoundaries
  <2>1. OneUnseen
    BY <1>1 DEF IInv, Owned, Running
  <2>2. Len(fired) \in Nat /\ baseline \in Nat /\ index \in Nat /\ k \in Int
    BY <1>1, Numbers DEF IInv
  <2>3. Unseen # 0
    BY <2>2 DEF Unseen
  <2>4. Unseen = 1 /\ fired[Len(fired)] = Boundary
    BY <2>1, <2>3 DEF OneUnseen
  <2>5. k = Len(fired) /\ index + k - baseline - 1 = index
    BY <2>2, <2>4 DEF Unseen
  <2> QED BY <2>4, <2>5 DEF Boundary
<1> QED
  BY <1>1, Inductive, PTL

(* While the rundown believes its boundary armed, the cut waits in the      *)
(* worker under the present generation, is firing, or has fired unseen;     *)
(* the exceptions are a jump of the operator and a re-arm the worker lost.  *)
THEOREM ArmedStaysAlive == Spec => []ArmedBoundaryIsAliveUnlessJumped
<1>1. ASSUME IInv PROVE ArmedBoundaryIsAliveUnlessJumped
  <2> SUFFICES ASSUME ~jumped, ~lost, ~straddled, gui = "idle", active, armedCurrent
               PROVE  Waits \/ IsFiring \/ HasFired
    BY DEF ArmedBoundaryIsAliveUnlessJumped, ArmedBoundaryIsAlive
  <2>1. Running /\ Mine /\ OneUnseen
    BY <1>1 DEF IInv, Owned, Running
  <2>2. CutIsAlive \/ QueuedIsAlive \/ TakenIsAlive \/ Unseen = 1
    BY <1>1, <2>1 DEF IInv, Alive
  <2>3. CASE CutIsAlive
    <3>1. cut.owner = Boundary
      BY <2>1, <2>3 DEF Mine, OwnedBy
    <3> QED BY <2>3, <3>1 DEF CutIsAlive, Live, Waits, IsFiring
  <2>4. CASE QueuedIsAlive \/ TakenIsAlive
    BY <2>1, <2>4 DEF Mine, OwnedBy, QueuedIsAlive, TakenIsAlive, Live, Waits
  <2>5. CASE Unseen = 1
    <3>1. fired[Len(fired)] = Boundary
      BY <2>1, <2>5 DEF OneUnseen
    <3>2. Len(fired) \in baseline + 1 .. Len(fired)
      BY <1>1, <2>5, Numbers DEF IInv, Unseen
    <3> QED BY <3>1, <3>2 DEF HasFired
  <2> QED BY <2>2, <2>3, <2>4, <2>5
<1> QED
  BY <1>1, Inductive, PTL

(* A boundary timed by the output clock and left alone by the operator      *)
(* never fires half an output frame or more before its out-point.           *)
THEOREM FiresOnTime == Spec => UnspoiltFiresAtOutPoint
<1>1. ASSUME IInv, FiresBoundary, timing = "clock", ~straddled
      PROVE  2 * (cut.at - pos) < speed
  <2>1. due # Unscheduled /\ due <= 0 /\ firing = "no" /\ Live(cut)
    BY <1>1 DEF FiresBoundary, FireCut, Fires, Reaches, Live
  <2>2. cut.at # None /\ 2 * (cut.at - pos - Ahead) < speed
    BY <1>1, <2>1 DEF IInv, OnTime
  <2>3. Ahead = 0
    BY <1>1, <2>1, Numbers DEF Ahead, IInv
  <2>4. cut.at - pos \in Int
    BY <1>1, <2>2, Numbers, CutFields DEF IInv, TypeOK, Positions
  <2> QED BY <2>2, <2>3, <2>4
<1>2. IInv => (FiresBoundary /\ timing = "clock" /\ ~straddled => 2 * (cut.at - pos) < speed)
  BY <1>1
<1> QED
  BY <1>2, Inductive, PTL DEF UnspoiltFiresAtOutPoint
=============================================================================
