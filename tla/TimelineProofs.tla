--------------------------- MODULE TimelineProofs ---------------------------
(***************************************************************************)
(* Proofs about RecordingTimeline, for any number of sources and views, any*)
(* frame rate and any number of late ticks and changes of the mapping:     *)
(* every view gets every frame once, and its sound goes with the pictures. *)
(* At the end those about the way of a frame to the timeline and from it   *)
(* into the file, which MediaProofs gives, are put together for MCMedia.   *)
(***************************************************************************)
EXTENDS MCMedia, SequenceTheorems, FiniteSetTheorems, TLAPS

Entry == [frame : Nat, by : 0..NumSources, from : Nat, to : Nat]
Cursor == Nat \cup {Unset}

TypeOK ==
  /\ elapsed \in Nat /\ frame \in Nat /\ remaps \in 0..MaxRemaps
  /\ slots \in Mappings /\ setting \in 0..NumSources
  /\ track \in [Workers -> 0..NumViews]
  /\ burst \in Seq(Nat) /\ emitted \in Seq(Nat)
  /\ pulses \in [Workers -> Seq(Nat)]
  /\ cursor \in [Workers -> Cursor] /\ silence \in [Views -> Cursor]
  /\ log \in [Views -> Seq(Entry)]
  /\ disturbed \subseteq Nat

(* Frames are pulsed in order, each once; a tick pulses consecutive ones,   *)
(* with nothing of the GUI thread in between.                               *)
InOrder ==
  /\ \A i, j \in 1..Len(emitted) : i < j => emitted[i] < emitted[j]
  /\ emitted # <<>> => emitted[Len(emitted)] = frame
  /\ \A i \in 1..Len(burst) : burst[i] = burst[1] + i - 1
  /\ burst # <<>> => frame < burst[1] /\ setting = 0

(* Nothing is written or disturbed before it is pulsed.                     *)
Past ==
  /\ \A f \in disturbed : f <= frame
  /\ \A v \in Views : \A i \in 1..Len(log[v]) : log[v][i].frame <= frame

(* What is posted to a worker is the end of what was pulsed.                *)
Done(w) == Len(emitted) - Len(pulses[w])
Posted ==
  \A w \in Workers :
    /\ Len(pulses[w]) <= Len(emitted)
    /\ \A i \in 1..Len(pulses[w]) : pulses[w][i] = emitted[Done(w) + i]

(* The worker of a view knows its view, unless updateViewMapping is still   *)
(* to tell it; till then all that is posted is disturbed.                   *)
Aligned(w) == \A v \in Views : slots[v] = w <=> track[w] = v
Told ==
  /\ \A w \in Workers : setting = 0 \/ w < setting => Aligned(w)
  /\ setting # 0 =>
       \A w \in Workers : \A k \in Done(w) + 1..Len(emitted) : emitted[k] \in disturbed

(* An undisturbed frame is still to be written on a view by its worker, or  *)
(* is there, once.                                                          *)
Outstanding(v, k) == slots[v] # Blue /\ k > Done(slots[v])
WrittenOnce(v, k) ==
  IF Outstanding(v, k) THEN On(v, emitted[k]) = {}
                       ELSE \E i \in 1..Len(log[v]) : On(v, emitted[k]) = {i}
Once ==
  \A v \in Views, k \in 1..Len(emitted) : emitted[k] \notin disturbed => WrittenOnce(v, k)

(* No sound cursor is ahead of the pictures.                                *)
NotAhead ==
  /\ \A w \in Workers :
       cursor[w] # Unset => Done(w) >= 1 /\ cursor[w] <= SamplesAt(emitted[Done(w)])
  /\ \A v \in Views :
       silence[v] # Unset => emitted # <<>> /\ silence[v] <= SamplesAt(frame)

(* After an undisturbed frame the cursor of a worker is where that frame's  *)
(* time, or the sound the worker wrote with it, ended, ...                  *)
TrailOf(w) ==
  LET g == emitted[Done(w)] IN
  Done(w) >= 1 /\ g \notin disturbed =>
    \/ cursor[w] = SamplesAt(g)
    \/ \E v \in Views : \E i \in On(v, g) : log[v][i].to = cursor[w]
Trail == \A w \in Workers : TrailOf(w)

(* ... and the cursor of blue where its sound ended, if it was blue's view. *)
SilenceOf(v) ==
  emitted # <<>> /\ frame \notin disturbed =>
    /\ Outstanding(v, Len(emitted)) => silence[v] = Unset
    /\ \A i \in On(v, frame) :
         silence[v] = IF log[v][i].by = Blue THEN log[v][i].to ELSE Unset
Silences == \A v \in Views : SilenceOf(v)

SeamsAt(v, f) == \A i \in On(v, f), j \in On(v, f + 1) : Seam(log[v][i], log[v][j])
Seams ==
  \A v \in Views : \A f \in ToSet(emitted) :
    f + 1 \in ToSet(emitted) /\ f \notin disturbed /\ f + 1 \notin disturbed /\ CaughtUp(f) =>
      SeamsAt(v, f)

IInv ==
  /\ TypeOK /\ InOrder /\ Past /\ Posted /\ Told /\ Once
  /\ NotAhead /\ SoundEndsWithPicture /\ Trail /\ Silences /\ Seams

-----------------------------------------------------------------------------
(* The constants, and the arithmetic of frames and samples.                 *)
LEMMA Sizes ==
  /\ Fps \in Nat \ {0} /\ Units \in Nat \ {0} /\ UnitSamples \in Nat \ {0}
  /\ MaxPerTick \in Nat \ {0} /\ MaxElapsed \in Nat /\ MaxRemaps \in Nat
  /\ NumSources \in Nat /\ NumViews \in Nat
  /\ Rate \in Nat \ {0} /\ Rate \div Fps \in Nat
<1>1. /\ Fps \in Nat \ {0} /\ Units \in Nat \ {0} /\ UnitSamples \in Nat \ {0}
      /\ MaxPerTick \in Nat \ {0} /\ MaxElapsed \in Nat /\ MaxRemaps \in Nat
      /\ NumSources \in Nat /\ NumViews \in Nat
  BY TimelineAssumption
<1>2. Rate \in Nat \ {0}
  <2>1. Units * UnitSamples \in Nat /\ Units * UnitSamples # 0
    BY <1>1
  <2> QED BY <2>1 DEF Rate
<1>3. Rate \div Fps \in Nat
  BY <1>1, <1>2
<1> QED
  BY <1>1, <1>2, <1>3

(* A product with a positive factor keeps the order, and reflects it.       *)
LEMMA Ordered ==
  ASSUME NEW F \in Nat \ {0}, NEW x \in Int, NEW y \in Int
  PROVE  (x <= y => F * x <= F * y) /\ (F * x < F * y => x < y)
<1>1. ASSUME x <= y PROVE F * x <= F * y
  <2>1. y - x \in Nat /\ F * y = F * x + F * (y - x)
    BY <1>1
  <2>2. F * (y - x) \in Nat /\ F * x \in Int
    BY <2>1
  <2> QED BY <2>1, <2>2
<1>2. ASSUME y <= x PROVE F * y <= F * x
  <2>1. x - y \in Nat /\ F * x = F * y + F * (x - y)
    BY <1>2
  <2>2. F * (x - y) \in Nat /\ F * y \in Int
    BY <2>1
  <2> QED BY <2>1, <2>2
<1> QED
  <2>1. F * x \in Int /\ F * y \in Int
    OBVIOUS
  <2> QED BY <1>1, <1>2, <2>1

LEMMA Quotient ==
  ASSUME NEW n \in Nat, NEW F \in Nat \ {0}
  PROVE  n \div F \in Nat /\ F * (n \div F) <= n /\ n < F * (n \div F) + F
OBVIOUS

Time(f) == (f * Units) \div Fps

LEMMA TimeFacts ==
  ASSUME NEW f \in Nat
  PROVE  /\ Time(f) \in Nat /\ f * Units \in Nat
         /\ Fps * Time(f) <= f * Units /\ f * Units < Fps * Time(f) + Fps
         /\ SamplesAt(f) = Time(f) * UnitSamples /\ SamplesAt(f) \in Nat
<1>1. f * Units \in Nat
  BY Sizes
<1>2. Time(f) \in Nat /\ Fps * Time(f) <= f * Units /\ f * Units < Fps * Time(f) + Fps
  BY <1>1, Sizes, Quotient DEF Time
<1>3. Time(f) * UnitSamples \in Nat
  BY <1>2, Sizes
<1> QED
  BY <1>1, <1>2, <1>3 DEF SamplesAt, Time

LEMMA SamplesGrow ==
  ASSUME NEW f \in Nat, NEW g \in Nat, f <= g
  PROVE  SamplesAt(f) <= SamplesAt(g)
<1>1. f * Units <= g * Units
  <2>1. Units * f <= Units * g
    BY Sizes, Ordered
  <2> QED BY <2>1, Sizes
<1>2. Fps * Time(f) < Fps * (Time(g) + 1)
  <2>1. Fps * Time(f) <= f * Units /\ g * Units < Fps * Time(g) + Fps
        /\ f * Units \in Nat /\ g * Units \in Nat /\ Time(f) \in Nat /\ Time(g) \in Nat
    BY TimeFacts
  <2>2. Fps * (Time(g) + 1) = Fps * Time(g) + Fps /\ Fps * Time(g) \in Nat /\ Fps * Time(f) \in Nat
    BY <2>1, Sizes
  <2> QED BY <1>1, <2>1, <2>2, Sizes
<1>3. Time(f) <= Time(g)
  <2>1. Time(f) \in Int /\ Time(g) + 1 \in Int
    BY TimeFacts
  <2>2. Time(f) < Time(g) + 1
    BY <1>2, <2>1, Ordered, Sizes
  <2> QED BY <2>1, <2>2, TimeFacts
<1>4. UnitSamples * Time(f) <= UnitSamples * Time(g)
  <2>1. Time(f) \in Int /\ Time(g) \in Int
    BY TimeFacts
  <2> QED BY <1>3, <2>1, Ordered, Sizes
<1> QED
  BY <1>4, TimeFacts, Sizes

(* A frame takes Rate \div Fps samples, or up to a unit more or less.       *)
LEMMA FrameTakes ==
  ASSUME NEW f \in Nat
  PROVE  /\ SamplesAt(f + 1) - Rate \div Fps - SamplesAt(f) <= UnitSamples
         /\ -UnitSamples <= SamplesAt(f + 1) - Rate \div Fps - SamplesAt(f)
<1> DEFINE q == Units \div Fps
           d == Time(f + 1) - Time(f)
           R == Rate \div Fps
<1>1. q \in Nat /\ Fps * q <= Units /\ Units < Fps * q + Fps
  BY Sizes, Quotient
<1>2. R \in Nat /\ Fps * R <= Rate /\ Rate < Fps * R + Fps
  BY Sizes, Quotient
<1>3. d \in Int /\ (f + 1) * Units = f * Units + Units
  BY TimeFacts, Sizes
<1>4. Fps * d <= Units + Fps - 1 /\ Units - Fps < Fps * d
  <2>1. Fps * d = Fps * Time(f + 1) - Fps * Time(f)
    BY TimeFacts, Sizes
  <2>2. /\ Fps * Time(f) \in Nat /\ Fps * Time(f + 1) \in Nat
        /\ Fps * Time(f) <= f * Units /\ f * Units < Fps * Time(f) + Fps
        /\ Fps * Time(f + 1) <= (f + 1) * Units
        /\ (f + 1) * Units < Fps * Time(f + 1) + Fps
        /\ f * Units \in Nat /\ (f + 1) * Units \in Nat
    BY TimeFacts, Sizes
  <2> QED BY <1>3, <2>1, <2>2, Sizes
<1>5. q <= d /\ d <= q + 1
  <2> HIDE DEF q, d
  <2>1. Fps * (q - 1) = Fps * q - Fps /\ Fps * (q + 2) = Fps * q + 2 * Fps /\ Fps * q \in Nat
        /\ Fps * d \in Int
    BY <1>1, <1>3, Sizes
  <2>2. Fps * (q - 1) < Fps * d /\ Fps * d < Fps * (q + 2)
    BY <1>1, <1>4, <2>1, Sizes
  <2>3. q - 1 < d /\ d < q + 2
    <3>1. q - 1 \in Int /\ q + 2 \in Int /\ d \in Int
      BY <1>1, <1>3
    <3> QED BY <2>2, <3>1, Ordered, Sizes
  <2> QED BY <1>1, <1>3, <2>3
<1>6. UnitSamples * q <= R /\ R <= UnitSamples * q + UnitSamples
  <2> HIDE DEF q, R
  <2>1. UnitSamples * (Fps * q) <= Rate /\ Rate <= UnitSamples * (Fps * q + Fps)
    <3>1. Fps * q \in Int /\ Fps * q + Fps \in Int /\ Units \in Int /\ Fps * q + Fps >= Units
      BY <1>1, Sizes
    <3>2. /\ UnitSamples * (Fps * q) <= UnitSamples * Units
          /\ UnitSamples * Units <= UnitSamples * (Fps * q + Fps)
      BY <1>1, <3>1, Ordered, Sizes
    <3> QED BY <3>2, Sizes DEF Rate
  <2>2. /\ UnitSamples * (Fps * q) = Fps * (UnitSamples * q)
        /\ UnitSamples * (Fps * q + Fps) = Fps * (UnitSamples * q + UnitSamples)
        /\ Fps * (R + 1) = Fps * R + Fps
    BY <1>1, <1>2, Sizes
  <2>3. /\ Fps * (UnitSamples * q) < Fps * (R + 1)
        /\ Fps * R <= Fps * (UnitSamples * q + UnitSamples)
    <3>1. /\ Fps * (UnitSamples * q) \in Int /\ Fps * (R + 1) \in Int /\ Fps * R \in Int
          /\ Fps * (UnitSamples * q + UnitSamples) \in Int
      BY <1>1, <1>2, Sizes
    <3> QED BY <1>2, <2>1, <2>2, <3>1, Sizes
  <2>4. UnitSamples * q \in Int /\ R + 1 \in Int /\ UnitSamples * q + UnitSamples + 1 \in Int
    BY <1>1, <1>2, Sizes
  <2>5. UnitSamples * q < R + 1
    BY <2>3, <2>4, Ordered, Sizes
  <2>6. Fps * R < Fps * (UnitSamples * q + UnitSamples + 1)
    <3>1. Fps * (UnitSamples * q + UnitSamples + 1) = Fps * (UnitSamples * q + UnitSamples) + Fps
      BY <2>4, Sizes
    <3>2. Fps * (UnitSamples * q + UnitSamples) \in Int /\ Fps * R \in Int
      BY <1>2, <2>4, Sizes
    <3> QED BY <2>3, <3>1, <3>2, Sizes
  <2>7. R < UnitSamples * q + UnitSamples + 1
    <3>1. R \in Int
      BY <1>2
    <3> DEFINE T == UnitSamples * q + UnitSamples + 1
    <3>2. T \in Int /\ Fps * R < Fps * T
      BY <2>4, <2>6
    <3> HIDE DEF T
    <3>3. R < T
      BY <3>1, <3>2, Ordered, Sizes
    <3> QED BY <3>3 DEF T
  <2>8. R \in Int
    BY <1>2
  <2> DEFINE p == UnitSamples * q
  <2>9. p \in Int /\ p < R + 1 /\ R < p + UnitSamples + 1
    BY <2>4, <2>5, <2>7
  <2> HIDE DEF p
  <2>10. p <= R /\ R <= p + UnitSamples
    BY <2>8, <2>9, Sizes
  <2> QED BY <2>10 DEF p
<1>7. SamplesAt(f + 1) - SamplesAt(f) = UnitSamples * d
  BY TimeFacts, Sizes
<1>8. UnitSamples * q <= UnitSamples * d /\ UnitSamples * d <= UnitSamples * q + UnitSamples
  <2> HIDE DEF q, d
  <2>1. UnitSamples * q <= UnitSamples * d /\ UnitSamples * d <= UnitSamples * (q + 1)
    BY <1>1, <1>3, <1>5, Ordered, Sizes
  <2>2. UnitSamples * (q + 1) = UnitSamples * q + UnitSamples
    BY <1>1, Sizes
  <2> QED BY <2>1, <2>2
<1> QED
  <2>1. UnitSamples * q \in Int /\ UnitSamples * d \in Int
    BY <1>1, <1>3, Sizes
  <2>2. SamplesAt(f + 1) \in Nat /\ SamplesAt(f) \in Nat
    BY TimeFacts
  <2> HIDE DEF q, d, R
  <2>3. SamplesAt(f + 1) - R - SamplesAt(f) = UnitSamples * d - R
    BY <1>2, <1>7, <2>1, <2>2
  <2> QED BY <1>2, <1>6, <1>8, <2>1, <2>3, Sizes DEF R

-----------------------------------------------------------------------------
(* What a writer appends.                                                   *)
LEMMA WriteFacts ==
  ASSUME NEW w \in 0..NumSources, NEW f \in Nat, NEW c \in Cursor,
         c # Unset => c <= SamplesAt(f)
  PROVE  /\ Write(w, f, c) \in Entry
         /\ Write(w, f, c).frame = f /\ Write(w, f, c).by = w
         /\ Write(w, f, c).to <= SamplesAt(f)
         /\ Write(w, f, c).to = SamplesAt(f) \/ Write(w, f, c).to = Write(w, f, c).from + Rate
         /\ Write(w, f, c).from =
              IF c = Unset THEN Higher(0, SamplesAt(f) - Rate \div Fps) ELSE c
<1>1. SamplesAt(f) \in Nat /\ Rate \in Nat /\ Rate \div Fps \in Nat
  BY TimeFacts, Sizes
<1> DEFINE a == StartAt(c, f)
           b == Advance(StartAt(c, f), f)
<1>2. a \in Nat /\ a <= SamplesAt(f)
  BY <1>1 DEF StartAt, Cursor, Unset, Higher
<1>3. b \in Nat /\ b <= SamplesAt(f) /\ (b = SamplesAt(f) \/ b = a + Rate)
  <2> HIDE DEF a
  <2> SUFFICES /\ Advance(a, f) \in Nat /\ Advance(a, f) <= SamplesAt(f)
               /\ Advance(a, f) = SamplesAt(f) \/ Advance(a, f) = a + Rate
    BY DEF a
  <2> QED BY <1>1, <1>2 DEF Advance, Higher, Lower
<1>4. Write(w, f, c) = [frame |-> f, by |-> w, from |-> a, to |-> b]
  BY DEF Write
<1>5. a = IF c = Unset THEN Higher(0, SamplesAt(f) - Rate \div Fps) ELSE c
  BY DEF StartAt
<1> HIDE DEF a, b
<1> QED
  BY <1>2, <1>3, <1>4, <1>5 DEF Entry

(* A view's log with one more entry, and one with none.                     *)
LEMMA LogGrows ==
  ASSUME NEW v \in Views, NEW e \in Entry, log[v] \in Seq(Entry),
         log'[v] = Append(log[v], e)
  PROVE  /\ Len(log'[v]) = Len(log[v]) + 1
         /\ \A i \in 1..Len(log[v]) : log'[v][i] = log[v][i]
         /\ log'[v][Len(log[v]) + 1] = e
         /\ \A g \in Nat : On(v, g)' = IF e.frame = g THEN On(v, g) \cup {Len(log[v]) + 1}
                                                      ELSE On(v, g)
         /\ \A g \in Nat : \A i \in On(v, g) : i \in 1..Len(log[v]) /\ log'[v][i] = log[v][i]
<1>1. Len(log'[v]) = Len(log[v]) + 1 /\ Len(log[v]) \in Nat
  BY AppendProperties, LenProperties
<1>2. /\ \A i \in 1..Len(log[v]) : log'[v][i] = log[v][i]
      /\ log'[v][Len(log[v]) + 1] = e
  BY AppendProperties, LenProperties
<1>3. DOMAIN log[v] = 1..Len(log[v]) /\ DOMAIN log'[v] = 1..Len(log[v]) + 1
  BY <1>1, AppendProperties, LenProperties
<1> QED
  BY <1>1, <1>2, <1>3 DEF On

LEMMA LogStays ==
  ASSUME NEW v, log'[v] = log[v]
  PROVE  \A g \in Nat : On(v, g)' = On(v, g)
BY DEF On

(* The frames pulsed: no two alike, neighbours in number are neighbours.    *)
LEMMA Emission ==
  ASSUME emitted \in Seq(Nat), frame \in Nat, InOrder
  PROVE  /\ \A i, j \in 1..Len(emitted) : emitted[i] = emitted[j] => i = j
         /\ \A i, j \in 1..Len(emitted) : emitted[j] = emitted[i] + 1 => j = i + 1
         /\ \A i \in 1..Len(emitted) : emitted[i] \in Nat /\ emitted[i] <= frame
<1>1. Len(emitted) \in Nat /\ \A i \in 1..Len(emitted) : emitted[i] \in Nat
  BY ElementOfSeq, LenProperties
<1>2. \A i, j \in 1..Len(emitted) : i < j => emitted[i] < emitted[j]
  BY DEF InOrder
<1>3. \A i, j \in 1..Len(emitted) : emitted[i] = emitted[j] => i = j
  BY <1>1, <1>2
<1>4. ASSUME NEW i \in 1..Len(emitted), NEW j \in 1..Len(emitted), emitted[j] = emitted[i] + 1
      PROVE  j = i + 1
  <2>1. i < j
    BY <1>1, <1>2, <1>4
  <2>2. CASE j # i + 1
    <3>1. i + 1 \in 1..Len(emitted) /\ i + 1 < j
      BY <1>1, <2>1, <2>2
    <3> QED BY <1>1, <1>2, <1>4, <3>1
  <2> QED BY <2>2
<1>5. ASSUME NEW i \in 1..Len(emitted) PROVE emitted[i] <= frame
  <2>1. emitted # <<>> /\ emitted[Len(emitted)] = frame
    <3>1. emitted # <<>>
      BY <1>1, EmptySeq
    <3> QED BY <3>1 DEF InOrder
  <2> QED BY <1>1, <1>2, <2>1
<1> QED
  BY <1>1, <1>3, <1>4, <1>5

(* updateViewMapping tells a worker the one view it is mapped to.           *)
TrackOf(m, w) == LET mine == {v \in Views : m[v] = w}
                 IN  IF mine = {} THEN 0 ELSE CHOOSE v \in mine : TRUE
LEMMA TrackFacts ==
  ASSUME NEW m \in Mappings, NEW w \in Workers
  PROVE  TrackOf(m, w) \in 0..NumViews /\ \A v \in Views : m[v] = w <=> TrackOf(m, w) = v
<1> DEFINE mine == {v \in Views : m[v] = w}
<1>1. \A u, v \in mine : u = v
  BY Sizes DEF Mappings, Workers, Views
<1>2. CASE mine = {}
  <2>1. TrackOf(m, w) = 0
    BY <1>2 DEF TrackOf
  <2> QED BY <1>2, <2>1, Sizes DEF Views
<1>3. CASE mine # {}
  <2>1. TrackOf(m, w) \in mine
    BY <1>3 DEF TrackOf
  <2> QED BY <1>1, <2>1, Sizes DEF Views
<1> QED
  BY <1>2, <1>3

-----------------------------------------------------------------------------
LEMMA InitInv == Init => IInv
<1> SUFFICES ASSUME Init PROVE IInv
  OBVIOUS
<1>1. \A w \in Workers : track[w] = TrackOf(slots, w)
  BY DEF Init, TrackOf
<1>2. Len(emitted) = 0 /\ Len(burst) = 0
      /\ \A w \in Workers : Len(pulses[w]) = 0 /\ Done(w) = 0
      /\ \A v \in Views : Len(log[v]) = 0 /\ \A f : On(v, f) = {}
  BY DEF Init, On, Done
<1>3. TypeOK
  <2>1. slots \in Mappings /\ \A w \in Workers : track[w] \in 0..NumViews
    BY <1>1, TrackFacts DEF Init
  <2>2. track \in [Workers -> 0..NumViews]
    BY <2>1 DEF Init
  <2>3. /\ burst \in Seq(Nat) /\ emitted \in Seq(Nat) /\ pulses \in [Workers -> Seq(Nat)]
        /\ log \in [Views -> Seq(Entry)]
    BY EmptySeq DEF Init
  <2>4. cursor \in [Workers -> Cursor] /\ silence \in [Views -> Cursor]
    BY DEF Init, Cursor
  <2>5. elapsed \in Nat /\ frame \in Nat /\ remaps \in 0..MaxRemaps /\ setting \in 0..NumSources
        /\ disturbed \subseteq Nat
    BY Sizes DEF Init
  <2> QED BY <2>1, <2>2, <2>3, <2>4, <2>5 DEF TypeOK
<1>4. Told
  <2>1. \A w \in Workers : Aligned(w)
    BY <1>1, <1>3, TrackFacts DEF Aligned, TypeOK
  <2> QED BY <2>1 DEF Told, Init
<1>5. InOrder /\ Past /\ Posted /\ Once
  BY <1>2 DEF Init, InOrder, Past, Posted, Once
<1>6. NotAhead /\ SoundEndsWithPicture /\ Trail /\ Silences
  <2>1. SoundEndsWithPicture
    BY DEF Init, SoundEndsWithPicture
  <2>2. NotAhead /\ Trail /\ Silences
    BY <1>2 DEF Init, NotAhead, Trail, TrailOf, Silences, SilenceOf
  <2> QED BY <2>1, <2>2
<1>7. Seams
  <2>1. ToSet(emitted) = {}
    BY DEF Init, ToSet
  <2> QED BY <2>1 DEF Seams
<1> QED
  BY <1>3, <1>4, <1>5, <1>6, <1>7 DEF IInv

(* What does not change keeps what is said of it.                           *)
LEMMA Kept ==
  ASSUME UNCHANGED <<frame, slots, setting, emitted, disturbed, track, pulses, cursor,
                     silence, log>>
  PROVE  /\ Past' = Past /\ Posted' = Posted /\ Told' = Told /\ Once' = Once
         /\ NotAhead' = NotAhead /\ SoundEndsWithPicture' = SoundEndsWithPicture
         /\ Trail' = Trail /\ Silences' = Silences /\ Seams' = Seams
<1>1. Past' = Past
  BY DEF Past
<1>2. Posted' = Posted
  BY DEF Posted, Done
<1>3. Told' = Told
  BY DEF Told, Aligned, Done
<1>4. Once' = Once
  BY DEF Once, WrittenOnce, Outstanding, On, Done
<1>5. NotAhead' = NotAhead
  BY DEF NotAhead, Done
<1>6. SoundEndsWithPicture' = SoundEndsWithPicture
  BY DEF SoundEndsWithPicture
<1>7. Trail' = Trail
  BY DEF Trail, TrailOf, Done, On
<1>8. Silences' = Silences
  BY DEF Silences, SilenceOf, Outstanding, On, Done
<1>9. Seams' = Seams
  BY DEF Seams, SeamsAt, CaughtUp, On
<1> QED
  BY <1>1, <1>2, <1>3, <1>4, <1>5, <1>6, <1>7, <1>8, <1>9

(* A tick plans consecutive frames, all of them later than the last one.    *)
LEMMA OnTimerTickInv ==
  ASSUME IInv, NEW t \in elapsed..MaxElapsed, OnTimerTick(t)
  PROVE  IInv'
<1> DEFINE s == Span(t, frame)
<1>1. frame \in Nat /\ elapsed \in Nat /\ t \in Nat
  BY Sizes DEF IInv, TypeOK
<1>2. s.from \in Nat /\ s.to \in Nat /\ frame < s.from
  <2>1. Derived(t) \in Nat
    <3>1. t * Fps \in Nat
      BY <1>1, Sizes
    <3> QED BY <3>1, Sizes DEF Derived
  <2>2. ResumeFrom(Derived(t), frame) \in Nat /\ frame < ResumeFrom(Derived(t), frame)
    BY <1>1, <2>1, Sizes DEF ResumeFrom
  <2> QED BY <1>1, <2>1, <2>2, Sizes DEF Span, Lower
<1>3. /\ burst' \in Seq(Nat) /\ \A i \in 1..Len(burst') : burst'[i] = burst'[1] + i - 1
      /\ burst' # <<>> => frame < burst'[1]
  <2> HIDE DEF s
  <2>1. burst' = [i \in 1 .. s.to - s.from + 1 |-> s.from + i - 1]
    BY DEF OnTimerTick, Frames, s
  <2>2. CASE s.to < s.from
    <3>1. burst' = <<>>
      BY <1>2, <2>1, <2>2
    <3> QED BY <3>1, EmptySeq
  <2>3. CASE s.from <= s.to
    <3>1. s.to - s.from + 1 \in Nat /\ s.to - s.from + 1 >= 1
      BY <1>2, <2>3
    <3>2. \A i \in 1 .. s.to - s.from + 1 : s.from + i - 1 \in Nat
      BY <1>2, <3>1
    <3>3. burst' \in Seq(Nat) /\ Len(burst') = s.to - s.from + 1
      BY <2>1, <3>1, <3>2
    <3> QED BY <1>2, <2>1, <3>1, <3>3
  <2> QED BY <1>2, <2>2, <2>3
<1>4. TypeOK'
  BY <1>1, <1>3 DEF IInv, TypeOK, OnTimerTick
<1>5. InOrder'
  BY <1>3 DEF IInv, InOrder, OnTimerTick
<1>6. UNCHANGED <<frame, slots, setting, emitted, disturbed, track, pulses, cursor,
                  silence, log>>
  BY DEF OnTimerTick
<1> QED
  BY <1>4, <1>5, <1>6, Kept DEF IInv

(* Lengths and counts.                                                      *)
LEMMA Counts ==
  ASSUME TypeOK, Posted
  PROVE  /\ Len(emitted) \in Nat /\ Len(burst) \in Nat
         /\ \A i \in 1..Len(emitted) : emitted[i] \in Nat
         /\ \A w \in Workers : /\ Len(pulses[w]) \in Nat /\ pulses[w] \in Seq(Nat)
                               /\ Done(w) \in 0..Len(emitted)
         /\ \A v \in Views : Len(log[v]) \in Nat
<1>1. Len(emitted) \in Nat /\ Len(burst) \in Nat /\ \A i \in 1..Len(emitted) : emitted[i] \in Nat
  BY LenProperties, ElementOfSeq DEF TypeOK
<1>2. ASSUME NEW w \in Workers
      PROVE  Len(pulses[w]) \in Nat /\ pulses[w] \in Seq(Nat) /\ Done(w) \in 0..Len(emitted)
  <2>1. pulses[w] \in Seq(Nat) /\ Len(pulses[w]) \in Nat
    BY <1>2, LenProperties DEF TypeOK
  <2>2. Len(pulses[w]) <= Len(emitted)
    BY <1>2 DEF Posted
  <2>3. Done(w) \in 0..Len(emitted)
    BY <1>1, <2>1, <2>2 DEF Done
  <2> QED BY <2>1, <2>3
<1>3. ASSUME NEW v \in Views PROVE Len(log[v]) \in Nat
  BY <1>3, LenProperties DEF TypeOK
<1> QED
  BY <1>1, <1>2, <1>3

(* What is posted to a worker was pulsed, and is disturbed by a remap.      *)
LEMMA Pending ==
  ASSUME TypeOK, InOrder, Posted
  PROVE  /\ \A w \in Workers : \A f \in ToSet(pulses[w]) : f \in Nat /\ f <= frame
         /\ \A w \in Workers : \A k \in Done(w) + 1..Len(emitted) :
              emitted[k] \in ToSet(pulses[w])
<1>1. ASSUME NEW w \in Workers, NEW f \in ToSet(pulses[w]) PROVE f \in Nat /\ f <= frame
  <2>1. PICK i \in 1..Len(pulses[w]) : f = pulses[w][i]
    BY <1>1, Counts, LenProperties DEF ToSet
  <2>2. f = emitted[Done(w) + i]
    BY <1>1, <2>1 DEF Posted
  <2>3. Len(emitted) \in Nat /\ Len(pulses[w]) \in Nat /\ Done(w) \in 0..Len(emitted)
        /\ i \in 1..Len(pulses[w])
    BY <1>1, <2>1, Counts
  <2>4. Done(w) + i \in 1..Len(emitted)
    BY <2>3 DEF Done
  <2> QED BY <2>2, <2>4, Emission DEF TypeOK
<1>2. ASSUME NEW w \in Workers, NEW k \in Done(w) + 1..Len(emitted)
      PROVE  emitted[k] \in ToSet(pulses[w])
  <2>1. k - Done(w) \in 1..Len(pulses[w]) /\ Done(w) + (k - Done(w)) = k
    <3> DEFINE n == Len(emitted)
               m == Len(pulses[w])
               d == Done(w)
    <3>1. n \in Nat /\ m \in Nat /\ d \in Nat
      BY <1>2, Counts
    <3>2. d = n - m
      BY DEF Done
    <3>3. k \in d + 1..n
      OBVIOUS
    <3> HIDE DEF n, m, d
    <3>4. k - d \in 1..m /\ d + (k - d) = k
      BY <3>1, <3>2, <3>3
    <3> QED BY <3>4 DEF m, d
  <2>2. emitted[k] = pulses[w][k - Done(w)]
    BY <1>2, <2>1 DEF Posted
  <2>3. k - Done(w) \in DOMAIN pulses[w]
    BY <1>2, <2>1, Counts, LenProperties
  <2> QED BY <2>2, <2>3 DEF ToSet
<1> QED
  BY <1>1, <1>2

(* A change of the mapping: whatever it could tear is disturbed.            *)
LEMMA UpdateViewMappingInv ==
  ASSUME IInv, NEW map \in Mappings, UpdateViewMapping(map)
  PROVE  IInv'
<1> USE DEF IInv
<1>1. /\ UNCHANGED <<elapsed, frame, burst, track, pulses, cursor, silence, log, emitted>>
      /\ disturbed \subseteq disturbed' /\ burst = <<>>
      /\ disturbed' = disturbed \cup UNION {ToSet(pulses[w]) : w \in Workers}
      /\ \A w \in Workers : Done(w)' = Done(w)
      /\ \A v \in Views, g \in Nat : On(v, g)' = On(v, g)
  BY DEF UpdateViewMapping, Done, On
<1>2. \A w \in Workers, k \in 1..Len(emitted) :
        emitted[k] \notin disturbed' => k <= Done(w)
  <2> SUFFICES ASSUME NEW w \in Workers, NEW k \in 1..Len(emitted), ~(k <= Done(w))
               PROVE  emitted[k] \in disturbed'
    OBVIOUS
  <2>1. k \in Done(w) + 1..Len(emitted)
    BY Counts
  <2>2. emitted[k] \in ToSet(pulses[w])
    BY <2>1, Pending
  <2> QED BY <1>1, <2>2
<1>3. TypeOK'
  <2>1. setting' \in 0..NumSources /\ remaps' \in 0..MaxRemaps /\ slots' \in Mappings
    <3>1. setting' = 0 \/ (setting' = 1 /\ Workers # {})
      BY DEF UpdateViewMapping
    <3> QED BY <3>1, Sizes DEF UpdateViewMapping, TypeOK, Workers
  <2>2. disturbed' \subseteq Nat
    BY <1>1, Pending DEF TypeOK
  <2> QED BY <1>1, <2>1, <2>2 DEF TypeOK
<1>4. InOrder'
  BY <1>1 DEF InOrder
<1>5. Past'
  BY <1>1, Pending DEF Past
<1>6. Posted'
  BY <1>1 DEF Posted
<1>7. Told'
  <2>1. setting' = 0 \/ setting' = 1
    BY DEF UpdateViewMapping
  <2>2. setting' = 0 => Workers = {}
    BY DEF UpdateViewMapping
  <2>3. \A w \in Workers : ~(w < 1)
    BY Sizes DEF Workers
  <2>4. \A w \in Workers : \A k \in Done(w)' + 1..Len(emitted') : emitted'[k] \in disturbed'
    BY <1>1, Pending
  <2> QED BY <2>1, <2>2, <2>3, <2>4 DEF Told
<1>8. \A v \in Views, k \in 1..Len(emitted) :
        emitted[k] \notin disturbed' => ~Outstanding(v, k) /\ ~Outstanding(v, k)'
  <2> SUFFICES ASSUME NEW v \in Views, NEW k \in 1..Len(emitted), emitted[k] \notin disturbed'
               PROVE  ~Outstanding(v, k) /\ ~Outstanding(v, k)'
    OBVIOUS
  <2>1. /\ slots[v] # Blue => slots[v] \in Workers
        /\ slots'[v] # Blue => slots'[v] \in Workers
    <3>1. slots \in [Views -> 0..NumSources] /\ slots' \in [Views -> 0..NumSources]
      BY DEF UpdateViewMapping, TypeOK, Mappings
    <3> QED BY <3>1, Sizes DEF Workers, Blue
  <2>2. \A w \in Workers : ~(k > Done(w)) /\ ~(k > Done(w)')
    BY <1>1, <1>2, Counts
  <2>3. slots'[v] # Blue => ~(k > Done(slots[v])')
    BY <2>1, <2>2 DEF Done
  <2> QED BY <2>1, <2>2, <2>3 DEF Outstanding
<1>9. Once'
  BY <1>1, <1>8, Counts DEF Once, WrittenOnce
<1>10. NotAhead'
  BY <1>1 DEF NotAhead
<1>11. SoundEndsWithPicture'
  BY <1>1 DEF SoundEndsWithPicture
<1>12. Trail'
  BY <1>1, Counts DEF Trail, TrailOf
<1>13. Silences'
  BY <1>1, <1>8, Counts DEF Silences, SilenceOf, InOrder, TypeOK
<1>14. Seams'
  BY <1>1 DEF Seams, SeamsAt, CaughtUp, On
<1> QED
  BY <1>3, <1>4, <1>5, <1>6, <1>7, <1>9, <1>10, <1>11, <1>12, <1>13, <1>14

LEMMA SetViewTrackInv ==
  ASSUME IInv, SetViewTrack
  PROVE  IInv'
<1> USE DEF IInv
<1>1. /\ UNCHANGED <<elapsed, frame, burst, slots, remaps, pulses, cursor, silence, log,
                     emitted, disturbed>>
      /\ setting \in Workers /\ slots \in Mappings
      /\ track' = [track EXCEPT ![setting] = TrackOf(slots, setting)]
      /\ setting' = IF setting = NumSources THEN 0 ELSE setting + 1
  BY Sizes DEF SetViewTrack, TypeOK, Workers, TrackOf
<1>2. TypeOK'
  <2>1. TrackOf(slots, setting) \in 0..NumViews
    BY <1>1, TrackFacts
  <2>2. setting' \in 0..NumSources
    BY <1>1, Sizes DEF Workers
  <2> QED BY <1>1, <2>1, <2>2 DEF TypeOK
<1>3. InOrder'
  <2>1. burst = <<>>
    BY DEF InOrder, SetViewTrack
  <2> QED BY <1>1, <2>1 DEF InOrder
<1>4. Told'
  <2>1. ASSUME NEW w \in Workers, setting' = 0 \/ w < setting' PROVE Aligned(w)'
    <3>1. w = setting \/ w < setting
      BY <1>1, <2>1, Sizes DEF Workers
    <3>2. CASE w = setting
      <4>1. track'[w] = TrackOf(slots, w)
        BY <1>1, <3>2 DEF TypeOK
      <4> QED BY <1>1, <4>1, TrackFacts DEF Aligned
    <3>3. CASE w < setting
      <4>1. Aligned(w) /\ w # setting /\ track'[w] = track[w]
        BY <1>1, <2>1, <3>3, Sizes DEF Told, TypeOK, Workers
      <4> QED BY <1>1, <4>1 DEF Aligned
    <3> QED BY <3>1, <3>2, <3>3
  <2>2. \A w \in Workers : \A k \in Done(w) + 1..Len(emitted) : emitted[k] \in disturbed
    BY DEF Told, SetViewTrack
  <2>3. \A w \in Workers : \A k \in Done(w)' + 1..Len(emitted') : emitted'[k] \in disturbed'
    BY <1>1, <2>2 DEF Done
  <2> QED BY <2>1, <2>3 DEF Told
<1>5. Past' /\ Posted'
  BY <1>1 DEF Past, Posted, Done
<1>6. Once'
  BY <1>1 DEF Once, WrittenOnce, Outstanding, Done, On
<1>7. NotAhead' /\ SoundEndsWithPicture'
  BY <1>1 DEF NotAhead, SoundEndsWithPicture, Done
<1>8. Trail'
  BY <1>1 DEF Trail, TrailOf, Done, On
<1>9. Silences'
  BY <1>1 DEF Silences, SilenceOf, Outstanding, Done, On
<1>10. Seams'
  BY <1>1 DEF Seams, SeamsAt, CaughtUp, On
<1> QED
  BY <1>2, <1>3, <1>4, <1>5, <1>6, <1>7, <1>8, <1>9, <1>10

(* A worker handles its next pulse, h, on the view v it knows.              *)
LEMMA OnMasterPulseInv ==
  ASSUME IInv, NEW w \in Workers, OnMasterPulse(w)
  PROVE  IInv'
<1> USE DEF IInv
<1> DEFINE h == Head(pulses[w])
           n == Done(w) + 1
           v == track[w]
           e == Write(w, h, cursor[w])
<1>1. UNCHANGED <<gui, track, silence>> /\ pulses[w] # <<>>
      /\ pulses' = [pulses EXCEPT ![w] = Tail(@)]
  BY DEF OnMasterPulse
<1>2. n \in 1..Len(emitted) /\ h = emitted[n] /\ h \in Nat /\ h <= frame
  <2>1. Len(pulses[w]) \in Nat /\ pulses[w] \in Seq(Nat) /\ Done(w) \in 0..Len(emitted)
        /\ Len(emitted) \in Nat
    BY Counts
  <2>2. Len(pulses[w]) >= 1 /\ h = pulses[w][1]
    BY <1>1, <2>1, EmptySeq
  <2>3. h = emitted[n]
    BY <2>1, <2>2 DEF Posted
  <2>4. n \in 1..Len(emitted)
    BY <2>1, <2>2 DEF Done
  <2> QED BY <2>3, <2>4, Emission DEF TypeOK
<1>3. /\ pulses' \in [Workers -> Seq(Nat)] /\ Len(pulses'[w]) = Len(pulses[w]) - 1
      /\ \A i \in 1..Len(pulses'[w]) : pulses'[w][i] = pulses[w][i + 1]
      /\ \A u \in Workers : u # w => pulses'[u] = pulses[u]
  <2>1. pulses[w] \in Seq(Nat) /\ pulses[w] # <<>> /\ pulses \in [Workers -> Seq(Nat)]
    BY <1>1 DEF TypeOK
  <2>2. Tail(pulses[w]) \in Seq(Nat) /\ Len(Tail(pulses[w])) = Len(pulses[w]) - 1
        /\ \A i \in 1..Len(Tail(pulses[w])) : Tail(pulses[w])[i] = pulses[w][i + 1]
    BY <2>1, HeadTailProperties
  <2> QED BY <1>1, <2>1, <2>2
<1>4. Done(w)' = n /\ \A u \in Workers : u # w => Done(u)' = Done(u)
  <2>1. Len(emitted') = Len(emitted) /\ Len(emitted) \in Nat /\ Len(pulses[w]) \in Nat
    BY <1>1, Counts DEF gui
  <2>2. Done(w)' = n
    BY <1>3, <2>1 DEF Done
  <2>3. \A u \in Workers : u # w => Done(u)' = Done(u)
    BY <1>3, <2>1 DEF Done
  <2> QED BY <2>2, <2>3
<1>5. UNCHANGED <<elapsed, frame, slots, burst, setting, remaps, emitted, disturbed,
                  track, silence>>
  BY <1>1 DEF gui
<1>6. cursor[w] \in Cursor /\ (cursor[w] # Unset => cursor[w] <= SamplesAt(h))
  <2>1. cursor[w] \in Cursor
    BY DEF TypeOK
  <2>2. ASSUME cursor[w] # Unset PROVE cursor[w] <= SamplesAt(h)
    <3>1. Done(w) >= 1 /\ cursor[w] <= SamplesAt(emitted[Done(w)])
      BY <2>2 DEF NotAhead
    <3>2. Done(w) \in 1..Len(emitted) /\ Done(w) < n /\ Len(emitted) \in Nat
      BY <3>1, Counts
    <3>3. emitted[Done(w)] \in Nat /\ emitted[Done(w)] <= h
      BY <1>2, <3>2, Counts DEF InOrder
    <3>4. SamplesAt(emitted[Done(w)]) <= SamplesAt(h)
      BY <1>2, <3>3, SamplesGrow
    <3>5. cursor[w] \in Nat /\ SamplesAt(emitted[Done(w)]) \in Nat /\ SamplesAt(h) \in Nat
      BY <1>2, <2>1, <2>2, <3>3, TimeFacts DEF Cursor
    <3> QED BY <3>1, <3>4, <3>5
  <2> QED BY <2>1, <2>2
<1>7. /\ e \in Entry /\ e.frame = h /\ e.by = w /\ e.to <= SamplesAt(h) /\ e.to \in Nat
      /\ e.to = SamplesAt(h) \/ e.to = e.from + Rate
      /\ e.from = IF cursor[w] = Unset THEN Higher(0, SamplesAt(h) - Rate \div Fps) ELSE cursor[w]
  <2>1. w \in 0..NumSources
    BY Sizes DEF Workers
  <2>2. e \in Entry /\ e.frame = h /\ e.by = w /\ e.to <= SamplesAt(h)
        /\ (e.to = SamplesAt(h) \/ e.to = e.from + Rate)
        /\ e.from = IF cursor[w] = Unset THEN Higher(0, SamplesAt(h) - Rate \div Fps) ELSE cursor[w]
    BY <1>2, <1>6, <2>1, WriteFacts
  <2>3. e.to \in Nat
    BY <2>2 DEF Entry
  <2> QED BY <2>2, <2>3
<1>8. /\ cursor' = [cursor EXCEPT ![w] = IF v = 0 THEN SamplesAt(h) ELSE e.to]
      /\ v = 0 \/ v \in Views
      /\ log' \in [Views -> Seq(Entry)]
      /\ \A u \in Views : u # v => log'[u] = log[u]
      /\ v # 0 => log'[v] = Append(log[v], e)
  <2>1. v = 0 \/ (v # 0 /\ v \in Views)
    BY Sizes DEF TypeOK, Views
  <2>2. CASE v = 0
    <3>1. cursor' = [cursor EXCEPT ![w] = SamplesAt(h)] /\ log' = log
      BY <2>2 DEF OnMasterPulse, CursorWhenUnmapped
    <3> QED BY <2>2, <3>1 DEF TypeOK
  <2>3. CASE v # 0 /\ v \in Views
    <3>1. cursor' = [cursor EXCEPT ![w] = e.to] /\ log' = [log EXCEPT ![v] = Append(@, e)]
      BY <2>3 DEF OnMasterPulse
    <3>2. log \in [Views -> Seq(Entry)] /\ log[v] \in Seq(Entry)
      BY <2>3 DEF TypeOK
    <3>3. Append(log[v], e) \in Seq(Entry)
      BY <1>7, <3>2, AppendProperties
    <3> HIDE DEF e, h
    <3> QED BY <2>3, <3>1, <3>2, <3>3
  <2> QED BY <2>1, <2>2, <2>3
<1> HIDE DEF h, n, v, e
<1>9. /\ cursor'[w] = IF v = 0 THEN SamplesAt(h) ELSE e.to
      /\ \A u \in Workers : u # w => cursor'[u] = cursor[u]
      /\ cursor' \in [Workers -> Cursor]
  <2>1. SamplesAt(h) \in Nat
    BY <1>2, TimeFacts
  <2>2. cursor \in [Workers -> Cursor]
    BY DEF TypeOK
  <2> QED BY <1>7, <1>8, <2>1, <2>2 DEF Cursor
<1>10. /\ \A u \in Views, g \in Nat :
            On(u, g)' = IF u = v /\ g = h THEN On(u, g) \cup {Len(log[u]) + 1} ELSE On(u, g)
       /\ \A u \in Views, g \in Nat : \A i \in On(u, g) :
            i \in 1..Len(log[u]) /\ log'[u][i] = log[u][i]
       /\ v # 0 => v \in Views /\ log'[v][Len(log[v]) + 1] = e
       /\ \A u \in Views : u = v => Len(log'[u]) = Len(log[u]) + 1
       /\ \A u \in Views : log[u] \in Seq(Entry) /\ Len(log[u]) \in Nat
  <2>1. ASSUME NEW u \in Views PROVE log[u] \in Seq(Entry) /\ Len(log[u]) \in Nat
    BY <2>1, LenProperties DEF TypeOK
  <2>2. ASSUME NEW u \in Views, NEW g \in Nat, u # v PROVE On(u, g)' = On(u, g)
    BY <1>8, <2>2, LogStays
  <2>3. ASSUME NEW u \in Views, NEW g \in Nat, NEW i \in On(u, g), u # v
        PROVE  i \in 1..Len(log[u]) /\ log'[u][i] = log[u][i]
    BY <1>8, <2>1, <2>3, LenProperties DEF On
  <2>4. ASSUME NEW u \in Views, u = v
        PROVE  /\ \A g \in Nat : On(u, g)' = IF g = h THEN On(u, g) \cup {Len(log[u]) + 1}
                                                      ELSE On(u, g)
               /\ \A g \in Nat : \A i \in On(u, g) : i \in 1..Len(log[u]) /\ log'[u][i] = log[u][i]
               /\ log'[u][Len(log[u]) + 1] = e /\ Len(log'[u]) = Len(log[u]) + 1
    <3>1. log'[u] = Append(log[u], e) /\ e.frame = h /\ e \in Entry
      BY <1>7, <1>8, <2>4, Sizes DEF Views
    <3>2. PICK d \in Entry : d = e
      BY <3>1
    <3>3. log'[u] = Append(log[u], d) /\ d.frame = h
      BY <3>1, <3>2
    <3>4. /\ \A g \in Nat : On(u, g)' = IF d.frame = g THEN On(u, g) \cup {Len(log[u]) + 1}
                                                       ELSE On(u, g)
          /\ \A g \in Nat : \A i \in On(u, g) : i \in 1..Len(log[u]) /\ log'[u][i] = log[u][i]
          /\ log'[u][Len(log[u]) + 1] = d /\ Len(log'[u]) = Len(log[u]) + 1
      BY <2>1, <2>4, <3>3, LogGrows
    <3> QED BY <3>2, <3>3, <3>4
  <2>5. \A u \in Views, g \in Nat :
          On(u, g)' = IF u = v /\ g = h THEN On(u, g) \cup {Len(log[u]) + 1} ELSE On(u, g)
    BY <2>2, <2>4
  <2>6. v # 0 => v \in Views /\ log'[v][Len(log[v]) + 1] = e
    BY <1>8, <2>4
  <2>7. \A u \in Views, g \in Nat : \A i \in On(u, g) :
          i \in 1..Len(log[u]) /\ log'[u][i] = log[u][i]
    BY <2>3, <2>4
  <2> QED BY <2>1, <2>4, <2>5, <2>6, <2>7
<1>11. h \notin disturbed =>
         setting = 0 /\ \A u \in Views : slots[u] = w <=> u = v
  <2> SUFFICES ASSUME h \notin disturbed
               PROVE  setting = 0 /\ \A u \in Views : slots[u] = w <=> u = v
    OBVIOUS
  <2>1. n \in Done(w) + 1..Len(emitted)
    BY <1>2, Counts DEF n
  <2>2. setting = 0
    BY <1>2, <2>1 DEF Told
  <2>3. Aligned(w)
    BY <2>2 DEF Told
  <2> QED BY <2>2, <2>3 DEF Aligned, v
<1>12. \A u \in Views, k \in 1..Len(emitted) :
         Outstanding(u, k)' <=> Outstanding(u, k) /\ ~(slots[u] = w /\ k = n)
  <2> SUFFICES ASSUME NEW u \in Views, NEW k \in 1..Len(emitted)
               PROVE  Outstanding(u, k)' <=> Outstanding(u, k) /\ ~(slots[u] = w /\ k = n)
    OBVIOUS
  <2>1. slots[u] # Blue => slots[u] \in Workers
    <3>1. slots \in [Views -> 0..NumSources]
      BY DEF TypeOK, Mappings
    <3> QED BY <3>1, Sizes DEF Workers, Blue
  <2>2. Outstanding(u, k)' <=> slots[u] # Blue /\ k > Done(slots[u])'
    BY <1>5 DEF Outstanding, Done
  <2>3. CASE slots[u] = w
    <3>1. Done(slots[u])' = n
      <4>1. Done(slots[u])' = Done(w)'
        BY <1>5, <2>3 DEF Done
      <4> QED BY <1>4, <4>1
    <3>2. w # Blue /\ Done(w) \in Nat /\ k \in Nat
      BY Counts, Sizes DEF Workers, Blue
    <3> QED BY <2>2, <2>3, <3>1, <3>2 DEF Outstanding, n
  <2>4. CASE slots[u] # w
    <3>1. slots[u] # Blue => Done(slots[u])' = Done(slots[u])
      <4> SUFFICES ASSUME slots[u] # Blue PROVE Done(slots[u])' = Done(slots[u])
        OBVIOUS
      <4>1. PICK x \in Workers : x = slots[u]
        BY <2>1
      <4>2. Done(x)' = Done(x)
        BY <1>4, <2>4, <4>1
      <4>3. Done(slots[u])' = Done(x)' /\ Done(slots[u]) = Done(x)
        BY <1>5, <4>1 DEF Done
      <4> QED BY <4>2, <4>3
    <3> QED BY <2>2, <2>4, <3>1 DEF Outstanding
  <2> QED BY <2>3, <2>4
<1>13. TypeOK'
  BY <1>3, <1>5, <1>8, <1>9 DEF TypeOK
<1>14. InOrder'
  BY <1>5 DEF InOrder
<1>15. Past'
  <2>1. \A f \in disturbed' : f <= frame'
    BY <1>5 DEF Past
  <2>2. ASSUME NEW u \in Views, NEW i \in 1..Len(log'[u]) PROVE log'[u][i].frame <= frame'
    <3>1. CASE u # v
      BY <1>5, <1>8, <2>2, <3>1 DEF Past
    <3>2. CASE u = v
      <4>1. log'[u] = Append(log[u], e) /\ log[u] \in Seq(Entry) /\ Len(log'[u]) = Len(log[u]) + 1
            /\ Len(log[u]) \in Nat
        BY <1>8, <1>10, <3>2, Sizes DEF Views
      <4>2. CASE i \in 1..Len(log[u])
        <5>1. log'[u][i] = log[u][i]
          BY <1>7, <4>1, <4>2, AppendProperties
        <5> QED BY <1>5, <4>2, <5>1 DEF Past
      <4>3. CASE i = Len(log[u]) + 1
        <5>1. log'[u][i] = e
          BY <1>7, <4>1, <4>3, AppendProperties
        <5> QED BY <1>2, <1>5, <1>7, <5>1
      <4> QED BY <2>2, <4>1, <4>2, <4>3
    <3> QED BY <3>1, <3>2
  <2> QED BY <2>1, <2>2 DEF Past
<1>16. Posted'
  <2> SUFFICES ASSUME NEW u \in Workers
               PROVE  /\ Len(pulses'[u]) <= Len(emitted)
                      /\ \A i \in 1..Len(pulses'[u]) : pulses'[u][i] = emitted[Done(u)' + i]
    BY <1>5 DEF Posted, Done
  <2>1. CASE u # w
    <3>1. pulses'[u] = pulses[u] /\ Done(u)' = Done(u)
      BY <1>3, <1>4, <2>1
    <3> QED BY <3>1 DEF Posted
  <2>2. CASE u = w
    <3>1. Len(pulses'[u]) <= Len(emitted)
      BY <1>3, <2>2, Counts DEF Posted
    <3>2. ASSUME NEW i \in 1..Len(pulses'[u]) PROVE pulses'[u][i] = emitted[Done(u)' + i]
      <4>1. Len(pulses[w]) \in Nat /\ Done(w) \in Nat /\ i \in 1..Len(pulses[w]) - 1
        BY <1>3, <2>2, <3>2, Counts
      <4>2. pulses'[w][i] = pulses[w][i + 1] /\ i + 1 \in 1..Len(pulses[w])
        BY <1>3, <2>2, <3>2, <4>1
      <4>3. pulses[w][i + 1] = emitted[Done(w) + (i + 1)]
        BY <4>2 DEF Posted
      <4>4. Done(w) + (i + 1) = n + i
        BY <4>1 DEF n
      <4> QED BY <1>4, <2>2, <4>2, <4>3, <4>4
    <3> QED BY <3>1, <3>2
  <2> QED BY <2>1, <2>2
<1>17. Told'
  <2>1. \A u \in Workers : setting = 0 \/ u < setting => Aligned(u)
    BY DEF Told
  <2>2. \A u \in Workers : Aligned(u)' <=> Aligned(u)
    BY <1>5 DEF Aligned
  <2>3. setting # 0 =>
          \A u \in Workers : \A k \in Done(u)' + 1..Len(emitted) : emitted[k] \in disturbed
    <3> SUFFICES ASSUME setting # 0, NEW u \in Workers, NEW k \in Done(u)' + 1..Len(emitted)
                 PROVE  emitted[k] \in disturbed
      OBVIOUS
    <3>1. Done(u) \in Nat /\ Len(emitted) \in Nat /\ Done(u)' \in Nat /\ Done(u) <= Done(u)'
      BY <1>4, Counts DEF n
    <3>2. k \in Done(u) + 1..Len(emitted)
      BY <3>1
    <3> QED BY <3>2 DEF Told
  <2> QED BY <1>5, <2>1, <2>2, <2>3 DEF Told
<1>18. Once'
  <2> SUFFICES ASSUME NEW u \in Views, NEW k \in 1..Len(emitted), emitted[k] \notin disturbed
               PROVE  WrittenOnce(u, k)'
    BY <1>5 DEF Once
  <2>1. emitted[k] \in Nat /\ (emitted[k] = h <=> k = n)
    BY <1>2, Emission DEF TypeOK
  <2>2. WrittenOnce(u, k)
    BY DEF Once
  <2>3. Len(log[u]) \in Nat /\ \A i \in 1..Len(log[u]) : i \in 1..Len(log'[u])
    <3>1. Len(log[u]) \in Nat /\ (Len(log'[u]) = Len(log[u]) \/ Len(log'[u]) = Len(log[u]) + 1)
      BY <1>8, <1>10
    <3> QED BY <3>1
  <2>4. CASE u = v /\ k = n
    <3>1. slots[u] = w /\ ~Outstanding(u, k)' /\ Outstanding(u, k)
      <4>1. slots[u] = w
        BY <1>11, <2>1, <2>4
      <4>2. Outstanding(u, k)
        BY <2>4, <4>1, Counts, Sizes DEF Outstanding, Workers, Blue, n
      <4> QED BY <1>12, <2>4, <4>1, <4>2
    <3>2. On(u, emitted[k]) = {}
      BY <2>2, <3>1 DEF WrittenOnce
    <3>3. On(u, emitted[k])' = {Len(log[u]) + 1}
      <4>2. PICK g \in Nat : g = emitted[k] /\ g = h
        BY <2>1, <2>4
      <4>3. On(u, g) = {} /\ On(u, g)' = On(u, g) \cup {Len(log[u]) + 1}
        BY <1>10, <2>4, <3>2, <4>2
      <4>4. On(u, emitted[k])' = On(u, g)'
        BY <1>5, <4>2 DEF On
      <4> QED BY <4>3, <4>4
    <3>4. Len(log[u]) + 1 \in 1..Len(log'[u])
      BY <1>10, <2>3, <2>4
    <3> QED BY <3>1, <3>3, <3>4 DEF WrittenOnce
  <2>5. CASE ~(u = v /\ k = n)
    <3>1. On(u, emitted[k])' = On(u, emitted[k])
      <4>1. PICK g \in Nat : g = emitted[k]
        BY <2>1
      <4>2. On(u, g)' = On(u, g)
        BY <1>10, <2>1, <2>5, <4>1
      <4>3. On(u, emitted[k])' = On(u, g)' /\ On(u, emitted[k]) = On(u, g)
        BY <1>5, <4>1 DEF On
      <4> QED BY <4>2, <4>3
    <3>2. Outstanding(u, k)' <=> Outstanding(u, k)
      <4>1. k = n => ~(slots[u] = w)
        BY <1>11, <2>1, <2>5
      <4> QED BY <1>12, <4>1
    <3> QED BY <2>2, <2>3, <3>1, <3>2 DEF WrittenOnce
  <2> QED BY <2>4, <2>5
<1>19. NotAhead'
  <2>1. ASSUME NEW u \in Workers, cursor'[u] # Unset
        PROVE  Done(u)' >= 1 /\ cursor'[u] <= SamplesAt(emitted[Done(u)'])
    <3>1. CASE u = w
      <4>1. Done(u)' = n /\ n >= 1 /\ emitted[n] = h /\ SamplesAt(h) \in Nat
        <5>1. Len(emitted) \in Nat
          BY Counts
        <5>2. Done(u)' = n /\ n >= 1 /\ emitted[n] = h
          BY <1>2, <1>4, <3>1, <5>1
        <5> QED BY <1>2, <5>2, TimeFacts
      <4>2. cursor'[w] <= SamplesAt(h)
        BY <1>7, <1>9, <4>1
      <4> QED BY <3>1, <4>1, <4>2
    <3>2. CASE u # w
      <4>1. cursor'[u] = cursor[u] /\ Done(u)' = Done(u)
        BY <1>4, <1>9, <3>2
      <4> QED BY <2>1, <4>1 DEF NotAhead
    <3> QED BY <3>1, <3>2
  <2>2. \A u \in Views :
          silence'[u] # Unset => emitted' # <<>> /\ silence'[u] <= SamplesAt(frame')
    BY <1>5 DEF NotAhead
  <2>3. \A u \in Workers : cursor'[u] # Unset =>
          Done(u)' >= 1 /\ cursor'[u] <= SamplesAt(emitted'[Done(u)'])
    BY <1>5, <2>1
  <2> QED BY <2>2, <2>3 DEF NotAhead
<1>20. SoundEndsWithPicture'
  <2> SUFFICES ASSUME NEW u \in Views, NEW i \in DOMAIN log'[u]
               PROVE  \/ log'[u][i].to = SamplesAt(log'[u][i].frame)
                      \/ log'[u][i].to = log'[u][i].from + Rate
    BY DEF SoundEndsWithPicture
  <2>1. CASE u # v
    BY <1>8, <2>1 DEF SoundEndsWithPicture
  <2>2. CASE u = v
    <3>1. log'[u] = Append(log[u], e) /\ log[u] \in Seq(Entry) /\ Len(log'[u]) = Len(log[u]) + 1
          /\ Len(log[u]) \in Nat
      BY <1>8, <1>10, <2>2, Sizes DEF Views
    <3>2. i \in 1..Len(log[u]) + 1 /\ DOMAIN log[u] = 1..Len(log[u])
      BY <1>7, <3>1, LenProperties, AppendProperties
    <3>3. CASE i \in 1..Len(log[u])
      <4>1. log'[u][i] = log[u][i]
        BY <1>7, <3>1, <3>3, AppendProperties
      <4> QED BY <3>2, <3>3, <4>1 DEF SoundEndsWithPicture
    <3>4. CASE i = Len(log[u]) + 1
      <4>1. log'[u][i] = e
        BY <1>7, <3>1, <3>4, AppendProperties
      <4> QED BY <1>7, <4>1
    <3> QED BY <3>1, <3>2, <3>3, <3>4
  <2> QED BY <2>1, <2>2
<1>21. Trail'
  <2> SUFFICES ASSUME NEW u \in Workers PROVE TrailOf(u)'
    BY DEF Trail
  <2> SUFFICES ASSUME NEW g \in Nat, Done(u)' >= 1, g = emitted[Done(u)'], g \notin disturbed
               PROVE  \/ cursor'[u] = SamplesAt(g)
                      \/ \E x \in Views : \E i \in On(x, g)' : log'[x][i].to = cursor'[u]
    <3>1. Done(u)' >= 1 => emitted[Done(u)'] \in Nat
      <4>1. Done(u)' \in 0..Len(emitted)
        BY <1>2, <1>4, Counts
      <4> QED BY <4>1, Counts
    <3>2. TrailOf(u)' <=>
            (Done(u)' >= 1 /\ emitted[Done(u)'] \notin disturbed =>
               \/ cursor'[u] = SamplesAt(emitted[Done(u)'])
               \/ \E x \in Views :
                    \E i \in {j \in DOMAIN log'[x] : log'[x][j].frame = emitted[Done(u)']} :
                      log'[x][i].to = cursor'[u])
      BY <1>5 DEF TrailOf, On
    <3> QED BY <3>1, <3>2 DEF On
  <2>1. CASE u = w
    <3>1. Done(u)' = n /\ emitted[n] = h /\ g = h
      BY <1>2, <1>4, <2>1
    <3>2. CASE v = 0
      BY <1>9, <2>1, <3>1, <3>2
    <3>3. CASE v # 0
      <4>1. PICK x \in Views : x = v
        BY <1>10, <3>3
      <4>2. Len(log[x]) + 1 \in On(x, g)'
        BY <1>10, <3>1, <4>1
      <4>3. log'[x][Len(log[x]) + 1].to = cursor'[u]
        BY <1>9, <1>10, <2>1, <3>3, <4>1
      <4> QED BY <4>2, <4>3
    <3> QED BY <3>2, <3>3
  <2>2. CASE u # w
    <3>1. Done(u)' = Done(u) /\ cursor'[u] = cursor[u]
      BY <1>4, <1>9, <2>2
    <3>2. \/ cursor[u] = SamplesAt(g)
          \/ \E x \in Views : \E i \in On(x, g) : log[x][i].to = cursor[u]
      BY <3>1 DEF Trail, TrailOf
    <3>3. \A x \in Views : \A i \in On(x, g) : i \in On(x, g)' /\ log'[x][i] = log[x][i]
      BY <1>10
    <3> QED BY <3>1, <3>2, <3>3
  <2> QED BY <2>1, <2>2
<1>22. Silences'
  <2> SUFFICES ASSUME NEW u \in Views, emitted # <<>>, frame \notin disturbed
               PROVE  /\ Outstanding(u, Len(emitted))' => silence[u] = Unset
                      /\ \A i \in On(u, frame)' :
                           silence[u] = IF log'[u][i].by = Blue THEN log'[u][i].to ELSE Unset
    BY <1>5 DEF Silences, SilenceOf, Outstanding, Done, On
  <2>1. Len(emitted) \in 1..Len(emitted) /\ emitted[Len(emitted)] = frame /\ frame \in Nat
    BY Counts, EmptySeq DEF InOrder, TypeOK
  <2>2. /\ Outstanding(u, Len(emitted)) => silence[u] = Unset
        /\ \A i \in On(u, frame) :
             silence[u] = IF log[u][i].by = Blue THEN log[u][i].to ELSE Unset
    BY DEF Silences, SilenceOf
  <2>3. Outstanding(u, Len(emitted))' => Outstanding(u, Len(emitted))
    <3>1. PICK k \in 1..Len(emitted) : k = Len(emitted)
      BY <2>1
    <3>2. Outstanding(u, k)' => Outstanding(u, k)
      BY <1>12
    <3>3. Outstanding(u, Len(emitted))' <=> Outstanding(u, k)'
      BY <1>5, <3>1 DEF Outstanding
    <3> QED BY <3>1, <3>2, <3>3
  <2>4. ASSUME NEW i \in On(u, frame)'
        PROVE  silence[u] = IF log'[u][i].by = Blue THEN log'[u][i].to ELSE Unset
    <3>1. PICK g \in Nat : g = frame
      BY <2>1
    <3>2. i \in On(u, g)' /\ On(u, g) = On(u, frame)
      BY <1>5, <2>4, <3>1 DEF On
    <3>3. CASE i \in On(u, g)
      BY <1>10, <2>2, <3>2, <3>3
    <3>4. CASE i \notin On(u, g)
      <4>1. u = v /\ g = h /\ i = Len(log[u]) + 1
        BY <1>10, <3>2, <3>4
      <4>2. log'[u][i] = e
        BY <1>10, <4>1, Sizes DEF Views
      <4>3. Len(emitted) = n /\ slots[u] = w
        BY <1>2, <1>11, <2>1, <3>1, <4>1, Emission DEF TypeOK
      <4>4. Outstanding(u, Len(emitted))
        BY <4>3, Counts, Sizes DEF Outstanding, n, Workers, Blue
      <4>5. w # Blue
        BY Sizes DEF Workers, Blue
      <4> QED BY <1>7, <2>2, <4>2, <4>4, <4>5
    <3> QED BY <3>3, <3>4
  <2> QED BY <2>2, <2>3, <2>4
<1>23. Seams'
  <2> SUFFICES ASSUME NEW u \in Views, NEW f \in ToSet(emitted), f + 1 \in ToSet(emitted),
                      f \notin disturbed, f + 1 \notin disturbed, CaughtUp(f)',
                      NEW i \in On(u, f)', NEW j \in On(u, f + 1)'
               PROVE  Seam(log'[u][i], log'[u][j])
    BY <1>5 DEF Seams, SeamsAt
  <2>1. PICK a \in 1..Len(emitted), b \in 1..Len(emitted) : f = emitted[a] /\ f + 1 = emitted[b]
    BY Counts, LenProperties DEF ToSet, TypeOK
  <2>2. f \in Nat /\ f + 1 \in Nat /\ b = a + 1
    BY <2>1, Emission DEF TypeOK
  <2>3. CaughtUp(f)
    <3> SUFFICES ASSUME NEW x \in Views, NEW y \in On(x, f) PROVE log[x][y].to = SamplesAt(f)
      BY DEF CaughtUp
    <3>1. y \in On(x, f)' /\ log'[x][y] = log[x][y]
      BY <1>10, <2>2
    <3> QED BY <3>1 DEF CaughtUp
  <2>4. CASE i \in On(u, f) /\ j \in On(u, f + 1)
    <3>1. log'[u][i] = log[u][i] /\ log'[u][j] = log[u][j]
      BY <1>10, <2>2, <2>4
    <3> QED BY <2>3, <2>4, <3>1 DEF Seams, SeamsAt
  <2>5. CASE i \notin On(u, f)
    <3>1. u = v /\ f = h
      BY <1>10, <2>2, <2>5
    <3>2. slots[u] = w /\ a = n /\ b > Done(w)
      <4>1. slots[u] = w
        BY <1>11, <3>1
      <4>2. a = n
        BY <1>2, <2>1, <3>1, Emission DEF TypeOK
      <4> QED BY <2>2, <4>1, <4>2, Counts DEF n
    <3>3. Outstanding(u, b)
      BY <3>2, Sizes DEF Outstanding, Workers, Blue
    <3>4. On(u, f + 1) = {}
      BY <2>1, <3>3 DEF Once, WrittenOnce
    <3>5. f + 1 # h
      BY <2>2, <3>1
    <3> QED BY <1>10, <2>2, <3>4, <3>5
  <2>6. CASE i \in On(u, f) /\ j \notin On(u, f + 1)
    <3>1. u = v /\ f + 1 = h /\ j = Len(log[u]) + 1
      BY <1>10, <2>2, <2>6
    <3>2. log'[u][j] = e /\ log'[u][i] = log[u][i]
      BY <1>10, <2>2, <2>6, <3>1, Sizes DEF Views
    <3>3. b = n /\ a = Done(w) /\ Done(w) >= 1
      <4>1. b = n
        BY <1>2, <2>1, <3>1, Emission DEF TypeOK
      <4> QED BY <2>2, <4>1, Counts DEF n
    <3>4. log[u][i].to = SamplesAt(f)
      BY <2>3, <2>6 DEF CaughtUp
    <3>5. cursor[w] = SamplesAt(f)
      <4>1. emitted[Done(w)] = f
        BY <2>1, <3>3
      <4>2. \/ cursor[w] = SamplesAt(f)
            \/ \E x \in Views : \E y \in On(x, f) : log[x][y].to = cursor[w]
        BY <3>3, <4>1 DEF Trail, TrailOf
      <4> QED BY <2>3, <4>2 DEF CaughtUp
    <3>6. SamplesAt(f) \in Nat
      BY <2>2, TimeFacts
    <3>7. e.from = SamplesAt(f) /\ e.by # Blue
      BY <1>7, <3>5, <3>6, Sizes DEF Unset, Workers, Blue
    <3> QED BY <3>2, <3>4, <3>7 DEF Seam
  <2> QED BY <2>4, <2>5, <2>6
<1> QED
  BY <1>13, <1>14, <1>15, <1>16, <1>17, <1>18, <1>19, <1>20, <1>21, <1>22, <1>23

(* A pulse: the next frame, p, on every view blue has, and to every worker. *)
LEMMA PulseInv ==
  ASSUME IInv, Pulse
  PROVE  IInv'
<1> USE DEF IInv
<1>1. PICK p \in Nat : p = Head(burst)
  <2>1. burst \in Seq(Nat) /\ burst # <<>>
    BY DEF Pulse, TypeOK
  <2> QED BY <2>1, HeadTailProperties
<1> DEFINE n == Len(emitted) + 1
           e(u) == Write(Blue, p, silence[u])
<1>2. /\ burst \in Seq(Nat) /\ burst # <<>> /\ p = burst[1] /\ burst' = Tail(burst)
      /\ setting = 0 /\ frame < p /\ frame' = p /\ frame \in Nat
      /\ UNCHANGED <<elapsed, slots, setting, remaps, disturbed, track, cursor>>
  <2>1. burst \in Seq(Nat) /\ burst # <<>> /\ p = burst[1]
    BY <1>1, EmptySeq DEF Pulse, TypeOK
  <2> QED BY <1>1, <2>1 DEF Pulse, InOrder, TypeOK
<1>3. /\ emitted' = Append(emitted, p) /\ emitted \in Seq(Nat) /\ emitted' \in Seq(Nat)
      /\ Len(emitted) \in Nat /\ Len(emitted') = n /\ emitted'[n] = p
      /\ \A k \in 1..Len(emitted) : emitted'[k] = emitted[k] /\ emitted[k] \in Nat
      /\ \A k \in 1..Len(emitted) : emitted[k] < p
  <2>1. emitted' = Append(emitted, p) /\ emitted \in Seq(Nat) /\ Len(emitted) \in Nat
    BY <1>1, LenProperties DEF Pulse, TypeOK
  <2>2. emitted' \in Seq(Nat) /\ Len(emitted') = n /\ emitted'[n] = p
        /\ \A k \in 1..Len(emitted) : emitted'[k] = emitted[k]
    BY <2>1, AppendProperties
  <2>3. \A k \in 1..Len(emitted) : emitted[k] \in Nat /\ emitted[k] < p
    BY <1>2, <2>1, Emission
  <2> QED BY <2>1, <2>2, <2>3
<1>4. /\ pulses' \in [Workers -> Seq(Nat)]
      /\ \A w \in Workers : /\ Len(pulses'[w]) = Len(pulses[w]) + 1
                            /\ pulses'[w][Len(pulses[w]) + 1] = p
                            /\ \A i \in 1..Len(pulses[w]) : pulses'[w][i] = pulses[w][i]
                            /\ Done(w)' = Done(w)
  <2>1. \A w \in Workers : pulses[w] \in Seq(Nat) /\ Len(pulses[w]) \in Nat
    BY Counts
  <2>2. pulses' = [w \in Workers |-> Append(pulses[w], p)]
    BY <1>1 DEF Pulse
  <2>3. ASSUME NEW w \in Workers
        PROVE  /\ pulses'[w] \in Seq(Nat) /\ Len(pulses'[w]) = Len(pulses[w]) + 1
               /\ pulses'[w][Len(pulses[w]) + 1] = p
               /\ \A i \in 1..Len(pulses[w]) : pulses'[w][i] = pulses[w][i]
    BY <2>1, <2>2, AppendProperties
  <2>4. ASSUME NEW w \in Workers PROVE Done(w)' = Done(w)
    <3>1. Len(pulses'[w]) = Len(pulses[w]) + 1 /\ Len(pulses[w]) \in Nat
          /\ Len(emitted') = Len(emitted) + 1
      BY <1>3, <2>1, <2>3
    <3> QED BY <1>3, <3>1 DEF Done
  <2> QED BY <2>2, <2>3, <2>4
<1>5. \A u \in Views : silence[u] \in Cursor /\ (silence[u] # Unset => silence[u] <= SamplesAt(p))
  <2> SUFFICES ASSUME NEW u \in Views
               PROVE  silence[u] \in Cursor /\ (silence[u] # Unset => silence[u] <= SamplesAt(p))
    OBVIOUS
  <2>1. silence[u] \in Cursor /\ (silence[u] # Unset => silence[u] <= SamplesAt(frame))
    BY DEF TypeOK, NotAhead
  <2>2. SamplesAt(frame) <= SamplesAt(p) /\ SamplesAt(frame) \in Nat /\ SamplesAt(p) \in Nat
    <3>1. frame \in Nat /\ p \in Nat /\ frame <= p
      BY <1>1, <1>2
    <3> QED BY <3>1, SamplesGrow, TimeFacts
  <2> QED BY <2>1, <2>2 DEF Cursor, Unset
<1>6. \A u \in Views :
        /\ e(u) \in Entry /\ e(u).frame = p /\ e(u).by = Blue
        /\ e(u).to \in Nat /\ e(u).to <= SamplesAt(p)
        /\ e(u).to = SamplesAt(p) \/ e(u).to = e(u).from + Rate
        /\ e(u).from =
             IF silence[u] = Unset THEN Higher(0, SamplesAt(p) - Rate \div Fps) ELSE silence[u]
  <2> SUFFICES ASSUME NEW u \in Views
               PROVE  /\ e(u) \in Entry /\ e(u).frame = p /\ e(u).by = Blue
                      /\ e(u).to \in Nat /\ e(u).to <= SamplesAt(p)
                      /\ e(u).to = SamplesAt(p) \/ e(u).to = e(u).from + Rate
                      /\ e(u).from = IF silence[u] = Unset
                                     THEN Higher(0, SamplesAt(p) - Rate \div Fps) ELSE silence[u]
    OBVIOUS
  <2>1. Blue \in 0..NumSources
    BY Sizes DEF Blue
  <2>2. /\ e(u) \in Entry /\ e(u).frame = p /\ e(u).by = Blue /\ e(u).to <= SamplesAt(p)
        /\ e(u).to = SamplesAt(p) \/ e(u).to = e(u).from + Rate
        /\ e(u).from = IF silence[u] = Unset
                       THEN Higher(0, SamplesAt(p) - Rate \div Fps) ELSE silence[u]
    BY <1>5, <2>1, WriteFacts
  <2>3. e(u).to \in Nat
    BY <2>2 DEF Entry
  <2> QED BY <2>2, <2>3
<1>7. /\ \A u \in Views : slots[u] = Blue =>
           log'[u] = Append(log[u], e(u)) /\ silence'[u] = e(u).to
      /\ \A u \in Views : slots[u] # Blue => log'[u] = log[u] /\ silence'[u] = Unset
      /\ log' \in [Views -> Seq(Entry)] /\ silence' \in [Views -> Cursor]
      /\ \A u \in Views : log[u] \in Seq(Entry) /\ Len(log[u]) \in Nat
  <2>1. log' = [u \in Views |-> IF slots[u] = Blue THEN Append(log[u], e(u)) ELSE log[u]]
        /\ silence' = [u \in Views |-> IF slots[u] = Blue THEN e(u).to ELSE Unset]
    BY <1>1 DEF Pulse, BlueViews, CursorUnderSource
  <2> HIDE DEF e
  <2>2. \A u \in Views : log[u] \in Seq(Entry) /\ Len(log[u]) \in Nat
    BY Counts DEF TypeOK
  <2>3. \A u \in Views : Append(log[u], e(u)) \in Seq(Entry)
    BY <1>6, <2>2, AppendProperties
  <2>4. log' \in [Views -> Seq(Entry)]
    BY <2>1, <2>2, <2>3
  <2>5. silence' \in [Views -> Cursor]
    BY <1>6, <2>1 DEF Cursor
  <2> QED BY <2>1, <2>2, <2>4, <2>5
<1> HIDE DEF n, e
<1>8. \A u \in Views :
        /\ \A g \in Nat : On(u, g)' = IF g = p /\ slots[u] = Blue
                                      THEN On(u, g) \cup {Len(log[u]) + 1} ELSE On(u, g)
        /\ \A g \in Nat : \A i \in On(u, g) : i \in 1..Len(log[u]) /\ log'[u][i] = log[u][i]
        /\ On(u, p) = {}
        /\ slots[u] = Blue => log'[u][Len(log[u]) + 1] = e(u) /\ Len(log'[u]) = Len(log[u]) + 1
        /\ \A i \in 1..Len(log[u]) : log'[u][i] = log[u][i]
  <2> SUFFICES ASSUME NEW u \in Views
      PROVE
        /\ \A g \in Nat : On(u, g)' = IF g = p /\ slots[u] = Blue
                                      THEN On(u, g) \cup {Len(log[u]) + 1} ELSE On(u, g)
        /\ \A g \in Nat : \A i \in On(u, g) : i \in 1..Len(log[u]) /\ log'[u][i] = log[u][i]
        /\ On(u, p) = {}
        /\ slots[u] = Blue => log'[u][Len(log[u]) + 1] = e(u) /\ Len(log'[u]) = Len(log[u]) + 1
        /\ \A i \in 1..Len(log[u]) : log'[u][i] = log[u][i]
    OBVIOUS
  <2>1. DOMAIN log[u] = 1..Len(log[u]) /\ log[u] \in Seq(Entry)
    BY <1>7, LenProperties
  <2>2. On(u, p) = {}
    <3>1. \A i \in 1..Len(log[u]) : log[u][i].frame <= frame /\ log[u][i] \in Entry
      BY <2>1, ElementOfSeq DEF Past
    <3>2. \A i \in 1..Len(log[u]) : log[u][i].frame # p
      BY <1>2, <3>1 DEF Entry
    <3> QED BY <2>1, <3>2 DEF On
  <2>3. CASE slots[u] # Blue
    <3>1. log'[u] = log[u]
      BY <1>7, <2>3
    <3>2. \A g \in Nat : On(u, g)' = On(u, g)
      BY <3>1, LogStays
    <3>3. \A g \in Nat : \A i \in On(u, g) : i \in 1..Len(log[u])
      BY <2>1 DEF On
    <3> QED BY <2>2, <2>3, <3>1, <3>2, <3>3
  <2>4. CASE slots[u] = Blue
    <3>1. PICK d \in Entry : d = e(u)
      BY <1>6
    <3>2. log'[u] = Append(log[u], d) /\ d.frame = p
      BY <1>6, <1>7, <2>4, <3>1
    <3>3. /\ \A g \in Nat : On(u, g)' = IF d.frame = g THEN On(u, g) \cup {Len(log[u]) + 1}
                                                       ELSE On(u, g)
          /\ \A g \in Nat : \A i \in On(u, g) : i \in 1..Len(log[u]) /\ log'[u][i] = log[u][i]
          /\ log'[u][Len(log[u]) + 1] = d /\ Len(log'[u]) = Len(log[u]) + 1
          /\ \A i \in 1..Len(log[u]) : log'[u][i] = log[u][i]
      BY <2>1, <3>2, LogGrows
    <3> QED BY <2>2, <2>4, <3>1, <3>2, <3>3
  <2> QED BY <2>3, <2>4
<1>9. TypeOK'
  <2>1. burst' \in Seq(Nat)
    BY <1>2, HeadTailProperties
  <2> QED BY <1>1, <1>2, <1>3, <1>4, <1>7, <2>1 DEF TypeOK
<1>10. InOrder'
  <2>1. \A i, j \in 1..Len(emitted') : i < j => emitted'[i] < emitted'[j]
    <3> SUFFICES ASSUME NEW i \in 1..Len(emitted'), NEW j \in 1..Len(emitted'), i < j
                 PROVE  emitted'[i] < emitted'[j]
      OBVIOUS
    <3>1. i \in 1..Len(emitted) /\ (j \in 1..Len(emitted) \/ j = n)
      BY <1>3 DEF n
    <3> QED BY <1>3, <3>1 DEF InOrder
  <2>2. emitted'[Len(emitted')] = frame'
    BY <1>2, <1>3
  <2>3. /\ Len(burst) \in Nat /\ Len(burst') = Len(burst) - 1
        /\ \A i \in 1..Len(burst') : burst'[i] = burst[i + 1]
    BY <1>2, HeadTailProperties, LenProperties
  <2>4. \A i \in 1..Len(burst) : burst[i] = p + i - 1
    BY <1>2 DEF InOrder
  <2>5. \A i \in 1..Len(burst') : burst'[i] = p + i
    <3> SUFFICES ASSUME NEW i \in 1..Len(burst') PROVE burst'[i] = p + i
      OBVIOUS
    <3>1. i + 1 \in 1..Len(burst) /\ i \in Nat /\ i + 1 - 1 = i
      BY <2>3
    <3>2. burst[i + 1] = p + (i + 1) - 1
      BY <2>4, <3>1
    <3> QED BY <1>1, <2>3, <3>1, <3>2
  <2>6. burst' # <<>> => 1 \in 1..Len(burst')
    <3>1. burst' \in Seq(Nat)
      BY <1>2, HeadTailProperties
    <3> QED BY <3>1, EmptySeq, LenProperties
  <2>7. \A i \in 1..Len(burst') : burst'[i] = burst'[1] + i - 1
    <3> SUFFICES ASSUME NEW i \in 1..Len(burst') PROVE burst'[i] = burst'[1] + i - 1
      OBVIOUS
    <3>1. 1 \in 1..Len(burst')
      BY <2>3
    <3> QED BY <1>1, <2>3, <2>5, <3>1
  <2>8. burst' # <<>> => frame' < burst'[1] /\ setting' = 0
    BY <1>1, <1>2, <2>5, <2>6
  <2> QED BY <2>1, <2>2, <2>7, <2>8 DEF InOrder
<1>11. Past'
  <2>1. \A f \in disturbed' : f <= frame'
    BY <1>1, <1>2 DEF Past, TypeOK
  <2>2. ASSUME NEW u \in Views, NEW i \in 1..Len(log'[u]) PROVE log'[u][i].frame <= frame'
    <3>1. CASE i \in 1..Len(log[u])
      <4>1. log'[u][i] = log[u][i] /\ log[u][i].frame <= frame
        BY <1>8, <3>1 DEF Past
      <4>2. log[u][i] \in Entry
        BY <1>7, <3>1, ElementOfSeq
      <4>3. log[u][i].frame \in Nat
        BY <4>2 DEF Entry
      <4> QED BY <1>1, <1>2, <4>1, <4>3
    <3>2. CASE i \notin 1..Len(log[u])
      <4>1. slots[u] = Blue /\ i = Len(log[u]) + 1
        BY <1>7, <1>8, <2>2, <3>2
      <4> QED BY <1>1, <1>2, <1>6, <1>8, <4>1
    <3> QED BY <3>1, <3>2
  <2> QED BY <2>1, <2>2 DEF Past
<1>12. Posted'
  <2> SUFFICES ASSUME NEW w \in Workers
               PROVE  /\ Len(pulses'[w]) <= Len(emitted')
                      /\ \A i \in 1..Len(pulses'[w]) : pulses'[w][i] = emitted'[Done(w)' + i]
    BY DEF Posted
  <2>1. Len(pulses[w]) \in Nat /\ Done(w) \in Nat /\ Done(w) + Len(pulses[w]) = Len(emitted)
        /\ Len(pulses[w]) <= Len(emitted)
    <3>1. Len(pulses[w]) <= Len(emitted)
      BY DEF Posted
    <3>2. Len(pulses[w]) \in Nat /\ Done(w) \in Nat
      BY Counts
    <3> QED BY <1>3, <3>1, <3>2 DEF Done
  <2>2. Len(pulses'[w]) <= Len(emitted')
    BY <1>3, <1>4, <2>1 DEF n
  <2>3. ASSUME NEW i \in 1..Len(pulses'[w]) PROVE pulses'[w][i] = emitted'[Done(w)' + i]
    <3>1. CASE i \in 1..Len(pulses[w])
      <4>1. Done(w) + i \in 1..Len(emitted)
        BY <1>3, <2>1, <3>1
      <4>2. pulses'[w][i] = pulses[w][i] /\ pulses[w][i] = emitted[Done(w) + i]
        BY <1>4, <3>1 DEF Posted
      <4> QED BY <1>3, <1>4, <4>1, <4>2
    <3>2. CASE i = Len(pulses[w]) + 1
      <4>1. Done(w) + i = n
        <5>1. Done(w) + (Len(pulses[w]) + 1) = (Done(w) + Len(pulses[w])) + 1
          BY <2>1
        <5> QED BY <2>1, <3>2, <5>1 DEF n
      <4> QED BY <1>3, <1>4, <3>2, <4>1
    <3> QED BY <1>4, <2>1, <2>3, <3>1, <3>2
  <2> QED BY <2>2, <2>3
<1>13. Told'
  <2>1. \A w \in Workers : Aligned(w)
    BY <1>2 DEF Told
  <2>2. \A w \in Workers : Aligned(w)'
    BY <1>2, <2>1 DEF Aligned
  <2> QED BY <1>2, <2>2 DEF Told
<1>14. \A u \in Views, k \in 1..Len(emitted) : Outstanding(u, k)' <=> Outstanding(u, k)
  <2> SUFFICES ASSUME NEW u \in Views, NEW k \in 1..Len(emitted)
               PROVE  Outstanding(u, k)' <=> Outstanding(u, k)
    OBVIOUS
  <2>1. slots[u] # Blue => slots[u] \in Workers
    <3>1. slots \in [Views -> 0..NumSources]
      BY DEF TypeOK, Mappings
    <3> QED BY <3>1, Sizes DEF Workers, Blue
  <2>2. slots[u] # Blue => Done(slots[u])' = Done(slots[u])
    <3> SUFFICES ASSUME slots[u] # Blue PROVE Done(slots[u])' = Done(slots[u])
      OBVIOUS
    <3>1. PICK x \in Workers : x = slots[u]
      BY <2>1
    <3>2. Done(x)' = Done(x)
      BY <1>4
    <3>3. Done(slots[u])' = Done(x)' /\ Done(slots[u]) = Done(x)
      BY <1>2, <3>1 DEF Done
    <3> QED BY <3>2, <3>3
  <2> QED BY <1>2, <2>2 DEF Outstanding
<1>15. ASSUME NEW u \in Views, NEW k \in Nat, k = n
       PROVE  Outstanding(u, k)' <=> slots[u] # Blue
  <2>1. slots[u] # Blue => slots[u] \in Workers
    <3>1. slots \in [Views -> 0..NumSources]
      BY DEF TypeOK, Mappings
    <3> QED BY <3>1, Sizes DEF Workers, Blue
  <2>2. ASSUME slots[u] # Blue PROVE k > Done(slots[u])'
    <3>1. PICK x \in Workers : x = slots[u]
      BY <2>1, <2>2
    <3>2. Done(x)' = Done(x) /\ Done(x) \in 0..Len(emitted)
      BY <1>4, Counts
    <3>3. Done(slots[u])' = Done(x)'
      BY <1>2, <3>1 DEF Done
    <3> QED BY <1>3, <1>15, <3>2, <3>3 DEF n
  <2>3. Outstanding(u, k)' <=> slots[u] # Blue /\ k > Done(slots[u])'
    BY <1>2 DEF Outstanding, Done
  <2> QED BY <2>2, <2>3
<1>16. Once'
  <2> SUFFICES ASSUME NEW u \in Views, NEW k \in 1..Len(emitted'), emitted'[k] \notin disturbed
               PROVE  WrittenOnce(u, k)'
    BY <1>2 DEF Once
  <2>1. PICK g \in Nat : g = emitted'[k]
    BY <1>3, ElementOfSeq
  <2>2. On(u, emitted[k])' = On(u, g)'
    BY <2>1 DEF On
  <2>3. Len(log[u]) \in Nat /\ \A i \in 1..Len(log[u]) : i \in 1..Len(log'[u])
    <3>1. Len(log[u]) \in Nat /\ (Len(log'[u]) = Len(log[u]) \/ Len(log'[u]) = Len(log[u]) + 1)
      BY <1>7, <1>8
    <3> QED BY <3>1
  <2>4. CASE k = n
    <3>1. g = p /\ On(u, g) = {} /\ (Outstanding(u, k)' <=> slots[u] # Blue)
      <4>1. g = p /\ On(u, g) = {}
        BY <1>3, <1>8, <2>1, <2>4
      <4>2. Outstanding(u, k)' <=> slots[u] # Blue
        <5>1. k \in Nat /\ k = n
          BY <1>3, <2>4
        <5> QED BY <1>15, <5>1
      <4> QED BY <4>1, <4>2
    <3>2. CASE slots[u] = Blue
      <4>1. On(u, g)' = {Len(log[u]) + 1} /\ Len(log[u]) + 1 \in 1..Len(log'[u])
        BY <1>8, <2>3, <3>1, <3>2
      <4> QED BY <2>2, <3>1, <3>2, <4>1 DEF WrittenOnce
    <3>3. CASE slots[u] # Blue
      <4>1. On(u, g)' = {}
        BY <1>8, <3>1, <3>3
      <4> QED BY <2>2, <3>1, <3>3, <4>1 DEF WrittenOnce
    <3> QED BY <3>2, <3>3
  <2>5. CASE k # n
    <3>1. k \in 1..Len(emitted)
      BY <1>3, <2>5 DEF n
    <3>2. g = emitted[k] /\ g # p /\ WrittenOnce(u, k)
      BY <1>3, <2>1, <3>1 DEF Once
    <3>3. On(u, g)' = On(u, g) /\ On(u, emitted[k]) = On(u, g)
      BY <1>8, <3>2
    <3>4. Outstanding(u, k)' <=> Outstanding(u, k)
      BY <1>14, <3>1
    <3> QED BY <2>2, <2>3, <3>2, <3>3, <3>4 DEF WrittenOnce
  <2> QED BY <2>4, <2>5
<1>17. NotAhead'
  <2>1. ASSUME NEW w \in Workers, cursor'[w] # Unset
        PROVE  Done(w)' >= 1 /\ cursor'[w] <= SamplesAt(emitted'[Done(w)'])
    <3>1. Done(w) >= 1 /\ cursor[w] <= SamplesAt(emitted[Done(w)])
      BY <1>2, <2>1 DEF NotAhead
    <3>2. Done(w) \in 1..Len(emitted)
      BY <3>1, Counts
    <3> QED BY <1>2, <1>3, <1>4, <3>1, <3>2
  <2>2. ASSUME NEW u \in Views, silence'[u] # Unset
        PROVE  emitted' # <<>> /\ silence'[u] <= SamplesAt(frame')
    <3>1. slots[u] = Blue /\ silence'[u] = e(u).to
      BY <1>7, <2>2
    <3>2. silence'[u] <= SamplesAt(frame')
      BY <1>2, <1>6, <3>1
    <3>3. emitted' # <<>>
      BY <1>3, EmptySeq DEF n
    <3> QED BY <3>2, <3>3
  <2> QED BY <2>1, <2>2 DEF NotAhead
<1>18. SoundEndsWithPicture'
  <2> SUFFICES ASSUME NEW u \in Views, NEW i \in DOMAIN log'[u]
               PROVE  \/ log'[u][i].to = SamplesAt(log'[u][i].frame)
                      \/ log'[u][i].to = log'[u][i].from + Rate
    BY DEF SoundEndsWithPicture
  <2>1. i \in 1..Len(log'[u]) /\ DOMAIN log[u] = 1..Len(log[u])
    BY <1>7, LenProperties
  <2>2. CASE i \in 1..Len(log[u])
    <3>1. log'[u][i] = log[u][i]
      BY <1>8, <2>2
    <3> QED BY <2>1, <2>2, <3>1 DEF SoundEndsWithPicture
  <2>3. CASE i \notin 1..Len(log[u])
    <3>1. slots[u] = Blue /\ i = Len(log[u]) + 1
      BY <1>7, <1>8, <2>1, <2>3
    <3> QED BY <1>6, <1>8, <3>1
  <2> QED BY <2>2, <2>3
<1>19. Trail'
  <2> SUFFICES ASSUME NEW w \in Workers PROVE TrailOf(w)'
    BY DEF Trail
  <2>1. CASE Done(w) >= 1
    <3>1. Done(w) \in 1..Len(emitted)
      BY <2>1, Counts
    <3>2. PICK g \in Nat : g = emitted[Done(w)]
      BY <1>3, <3>1
    <3>3. emitted'[Done(w)'] = g
      BY <1>3, <1>4, <3>1, <3>2
    <3>4. TrailOf(w)
      BY DEF Trail
    <3>5. g \notin disturbed => \/ cursor[w] = SamplesAt(g)
                                \/ \E x \in Views : \E i \in On(x, g) : log[x][i].to = cursor[w]
      BY <2>1, <3>2, <3>4 DEF TrailOf
    <3>6. \A x \in Views : \A i \in On(x, g) : i \in On(x, g)' /\ log'[x][i] = log[x][i]
      BY <1>8
    <3>7. g \notin disturbed' => \/ cursor'[w] = SamplesAt(g)
                                 \/ \E x \in Views : \E i \in On(x, g)' : log'[x][i].to = cursor'[w]
      BY <1>2, <3>5, <3>6
    <3> QED BY <3>3, <3>7 DEF TrailOf, On
  <2>2. CASE ~(Done(w) >= 1)
    <3>1. ~(Done(w)' >= 1)
      BY <1>4, <2>2
    <3> QED BY <3>1 DEF TrailOf
  <2> QED BY <2>1, <2>2
<1>20. Silences'
  <2> SUFFICES ASSUME NEW u \in Views PROVE SilenceOf(u)'
    BY DEF Silences
  <2>1. PICK k \in Nat : k = n
    BY <1>3 DEF n
  <2>2. Outstanding(u, k)' <=> slots[u] # Blue
    BY <1>15, <2>1
  <2>3. Outstanding(u, Len(emitted))' <=> Outstanding(u, k)'
    BY <1>3, <2>1 DEF Outstanding
  <2>4. On(u, frame)' = On(u, p)'
    BY <1>2 DEF On
  <2>5. CASE slots[u] = Blue
    <3>1. On(u, p)' = {Len(log[u]) + 1} /\ log'[u][Len(log[u]) + 1] = e(u)
      BY <1>1, <1>8, <2>5
    <3>2. silence'[u] = e(u).to /\ e(u).by = Blue
      BY <1>6, <1>7, <2>5
    <3> QED BY <2>2, <2>3, <2>4, <2>5, <3>1, <3>2 DEF SilenceOf
  <2>6. CASE slots[u] # Blue
    <3>1. On(u, p)' = {} /\ silence'[u] = Unset
      BY <1>1, <1>7, <1>8, <2>6
    <3> QED BY <2>2, <2>3, <2>4, <2>6, <3>1 DEF SilenceOf
  <2> QED BY <2>5, <2>6
<1>21. Seams'
  <2> SUFFICES ASSUME NEW u \in Views, NEW f \in ToSet(emitted'), f + 1 \in ToSet(emitted'),
                      f \notin disturbed, f + 1 \notin disturbed, CaughtUp(f)',
                      NEW i \in On(u, f)', NEW j \in On(u, f + 1)'
               PROVE  Seam(log'[u][i], log'[u][j])
    BY <1>2 DEF Seams, SeamsAt
  <2>1. PICK a \in 1..Len(emitted'), b \in 1..Len(emitted') : f = emitted'[a] /\ f + 1 = emitted'[b]
    BY <1>3, LenProperties DEF ToSet
  <2>2. f \in Nat /\ f + 1 \in Nat
    BY <1>3, <2>1, ElementOfSeq
  <2>3. a \in 1..Len(emitted) /\ f = emitted[a] /\ f # p
    <3>1. a \in 1..Len(emitted) \/ a = n
      BY <1>3, <2>1 DEF n
    <3>2. a # n
      <4> SUFFICES ASSUME a = n PROVE FALSE
        OBVIOUS
      <4>1. f = p
        BY <1>3, <2>1
      <4>2. b \in 1..Len(emitted) \/ b = n
        BY <1>3, <2>1 DEF n
      <4>3. f + 1 <= p
        BY <1>1, <1>3, <2>1, <4>2
      <4> QED BY <1>1, <4>1, <4>3
    <3> QED BY <1>3, <2>1, <2>2, <3>1, <3>2
  <2>4. On(u, f)' = On(u, f)
    BY <1>8, <2>2, <2>3
  <2>5. CaughtUp(f)
    <3> SUFFICES ASSUME NEW x \in Views, NEW y \in On(x, f) PROVE log[x][y].to = SamplesAt(f)
      BY DEF CaughtUp
    <3>1. y \in On(x, f)' /\ log'[x][y] = log[x][y]
      BY <1>8, <2>2
    <3> QED BY <3>1 DEF CaughtUp
  <2>6. f \in ToSet(emitted) /\ log'[u][i] = log[u][i] /\ log[u][i].to = SamplesAt(f)
    <3>1. f \in ToSet(emitted)
      BY <1>3, <2>3, LenProperties DEF ToSet
    <3> QED BY <1>8, <2>2, <2>4, <2>5, <3>1 DEF CaughtUp
  <2>7. CASE f + 1 # p
    <3>1. b \in 1..Len(emitted) /\ f + 1 = emitted[b]
      BY <1>3, <2>1, <2>7 DEF n
    <3>2. f + 1 \in ToSet(emitted)
      BY <1>3, <3>1, LenProperties DEF ToSet
    <3>3. j \in On(u, f + 1)
      BY <1>8, <2>2, <2>7
    <3>4. log'[u][j] = log[u][j]
      BY <1>8, <2>2, <3>3
    <3> QED BY <2>4, <2>5, <2>6, <3>2, <3>3, <3>4 DEF Seams, SeamsAt
  <2>8. CASE f + 1 = p
    <3>1. slots[u] = Blue /\ j = Len(log[u]) + 1 /\ log'[u][j] = e(u)
      BY <1>1, <1>8, <2>8
    <3>2. f = frame /\ a = Len(emitted)
      <4>1. emitted # <<>> /\ emitted[Len(emitted)] = frame /\ Len(emitted) \in 1..Len(emitted)
        BY <1>3, <2>3, EmptySeq DEF InOrder
      <4>2. f <= frame
        BY <1>2, <1>3, <2>3, Emission
      <4>3. f = frame
        BY <1>1, <1>2, <2>2, <2>8, <4>2
      <4>4. \A x, y \in 1..Len(emitted) : emitted[x] = emitted[y] => x = y
        BY <1>2, <1>3, Emission
      <4> QED BY <2>3, <4>1, <4>3, <4>4
    <3>3. silence[u] = IF log[u][i].by = Blue THEN log[u][i].to ELSE Unset
      <4>1. emitted # <<>>
        BY <1>3, <2>3, EmptySeq
      <4> QED BY <2>4, <3>2, <4>1 DEF Silences, SilenceOf
    <3>4. SamplesAt(f) \in Nat /\ SamplesAt(p) \in Nat /\ Rate \div Fps \in Nat
      BY <1>1, <2>2, TimeFacts, Sizes
    <3>5. CASE log[u][i].by = Blue
      <4>1. silence[u] # Unset /\ e(u).from = SamplesAt(f)
        BY <1>6, <2>6, <3>3, <3>4, <3>5 DEF Unset
      <4> QED BY <2>6, <3>1, <3>5, <4>1 DEF Seam
    <3>6. CASE log[u][i].by # Blue
      <4>1. e(u).from = Higher(0, SamplesAt(p) - Rate \div Fps) /\ e(u).by = Blue
        BY <1>6, <3>3, <3>6
      <4>2. /\ SamplesAt(p) - Rate \div Fps - SamplesAt(f) <= UnitSamples
            /\ -UnitSamples <= SamplesAt(p) - Rate \div Fps - SamplesAt(f)
        BY <2>2, <2>8, FrameTakes
      <4>3. e(u).from - SamplesAt(f) \in (-UnitSamples)..UnitSamples
        BY <3>4, <4>1, <4>2, Sizes DEF Higher
      <4> QED BY <2>6, <3>1, <3>6, <4>1, <4>3 DEF Seam
    <3> QED BY <3>5, <3>6
  <2> QED BY <2>7, <2>8
<1> QED
  BY <1>9, <1>10, <1>11, <1>12, <1>13, <1>16, <1>17, <1>18, <1>19, <1>20, <1>21

LEMMA NextInv == IInv /\ [Next]_vars => IInv'
<1> SUFFICES ASSUME IInv, [Next]_vars PROVE IInv'
  OBVIOUS
<1>1. ASSUME NEW t \in elapsed..MaxElapsed, OnTimerTick(t) PROVE IInv'
  BY <1>1, OnTimerTickInv
<1>2. CASE Pulse
  BY <1>2, PulseInv
<1>3. ASSUME NEW map \in Mappings, UpdateViewMapping(map) PROVE IInv'
  BY <1>3, UpdateViewMappingInv
<1>4. CASE SetViewTrack
  BY <1>4, SetViewTrackInv
<1>5. ASSUME NEW w \in Workers, OnMasterPulse(w) PROVE IInv'
  BY <1>5, OnMasterPulseInv
<1>6. CASE UNCHANGED vars
  <2>1. UNCHANGED <<elapsed, frame, slots, burst, setting, remaps, emitted, disturbed, track,
                    pulses, cursor, silence, log>>
    BY <1>6 DEF vars, gui
  <2>2. TypeOK' /\ InOrder'
    BY <2>1 DEF IInv, TypeOK, InOrder
  <2> QED BY <2>1, <2>2, Kept DEF IInv
<1> QED
  BY <1>1, <1>2, <1>3, <1>4, <1>5, <1>6 DEF Next

LEMMA Inductive == Spec => []IInv
BY InitInv, NextInv, PTL DEF Spec

-----------------------------------------------------------------------------
(* The clock, the slots, the workers' tracks and queues, the cursors and    *)
(* the file's entries always have their types: what onTimerTick,            *)
(* writeBlueFrames, updateViewMapping and onMasterPulse leave behind.       *)
THEOREM TypeCorrect == Spec => []TypeOK
<1>1. IInv => TypeOK
  BY DEF IInv
<1> QED
  BY <1>1, Inductive, PTL

(* The tracks are constant frame rate: whatever the ticks are late by and   *)
(* however the views are remapped, a frame that was not posted at a remap   *)
(* and that every worker has handled is on every view exactly once.         *)
THEOREM EveryFrameOnce == Spec => []EveryFrameExactlyOnce
<1>1. IInv => EveryFrameExactlyOnce
  <2> SUFFICES ASSUME IInv, NEW f \in ToSet(emitted), NEW v \in Views, Quiet(f)
               PROVE  Cardinality(On(v, f)) = 1
    BY DEF EveryFrameExactlyOnce
  <2>1. TypeOK /\ InOrder /\ Posted /\ Once
    BY DEF IInv
  <2>2. PICK k \in 1..Len(emitted) : f = emitted[k]
    BY <2>1, LenProperties DEF ToSet, TypeOK
  <2>3. ~Outstanding(v, k)
    <3> SUFFICES ASSUME slots[v] # Blue, k > Done(slots[v]) PROVE FALSE
      BY DEF Outstanding
    <3>1. slots[v] \in Workers
      <4>1. slots \in [Views -> 0..NumSources]
        BY <2>1 DEF TypeOK, Mappings
      <4> QED BY <4>1, Sizes DEF Workers, Blue
    <3>2. k \in Done(slots[v]) + 1..Len(emitted)
      BY <2>1, <3>1, Counts
    <3>3. f \in ToSet(pulses[slots[v]])
      BY <2>1, <2>2, <3>1, <3>2, Pending
    <3> QED BY <3>1, <3>3 DEF Quiet, Handled
  <2>4. PICK i \in 1..Len(log[v]) : On(v, emitted[k]) = {i}
    BY <2>1, <2>2, <2>3 DEF Once, WrittenOnce, Quiet
  <2> QED BY <2>2, <2>4, FS_Singleton
<1> QED
  BY <1>1, Inductive, PTL

(* Sound never leaves its picture: every entry of the file ends with its    *)
(* frame or is a second of a backlog, and from a frame to the next one the  *)
(* sound of a view goes on where it stopped, whoever writes it.             *)
THEOREM SoundStaysWithPicture == Spec => []SoundFollowsPicture
<1>1. IInv => SoundFollowsPicture
  <2> SUFFICES ASSUME IInv PROVE SoundIsSeamless
    BY DEF SoundFollowsPicture, IInv
  <2>1. Seams
    BY DEF IInv
  <2> QED BY <2>1 DEF SoundIsSeamless, Quiet, Seams, SeamsAt
<1> QED
  BY <1>1, Inductive, PTL

-----------------------------------------------------------------------------
(* The way of a frame into the file.  MediaProofs proves about each part by *)
(* itself; its parts are those of MCMedia: they begin, move and promise the *)
(* same.                                                                    *)
Media == INSTANCE MediaProofs

LEMMA ChunksAreMedia ==
  /\ Chunks!ChunkAssumption => Media!Chunks!ChunkAssumption
  /\ Chunks!Init => Media!Chunks!Init
  /\ Chunks!Next => Media!Chunks!Next
  /\ Media!Chunks!MessagesComeOutWhole => Chunks!MessagesComeOutWhole
<1>1. Chunks!ChunkAssumption => Media!Chunks!ChunkAssumption
  BY DEF Chunks!ChunkAssumption, Media!Chunks!ChunkAssumption
<1>2. Chunks!Init => Media!Chunks!Init
  BY DEF Chunks!Init, Media!Chunks!Init, Chunks!Unset, Media!Chunks!Unset
<1>3. Chunks!Next => Media!Chunks!Next
  <2>1. \A f : Chunks!SumFunction(f) = Media!Chunks!SumFunction(f)
    BY DEF Chunks!SumFunction, Media!Chunks!SumFunction,
        Chunks!SumFunctionOnSet, Media!Chunks!SumFunctionOnSet,
        Chunks!FoldFunctionOnSet, Media!Chunks!FoldFunctionOnSet,
        Chunks!MapThenFoldSet, Media!Chunks!MapThenFoldSet
  <2>2. \A c : Chunks!UnderWay(out, c) = Media!Chunks!UnderWay(out, c)
    BY <2>1 DEF Chunks!UnderWay, Media!Chunks!UnderWay
  <2>3. \A c : Chunks!Held(c) = Media!Chunks!Held(c)
    BY <2>1 DEF Chunks!Held, Media!Chunks!Held
  <2>4. ASSUME NEW c, NEW l, NEW t, NEW f, NEW n, Chunks!BeginMessage(c, l, t, f, n)
        PROVE  Media!Chunks!BeginMessage(c, l, t, f, n)
    BY <2>4 DEF Chunks!BeginMessage, Media!Chunks!BeginMessage, Chunks!SendOf,
        Media!Chunks!SendOf, Chunks!Emit, Media!Chunks!Emit, Chunks!Payload,
        Media!Chunks!Payload, Chunks!Min, Media!Chunks!Min, Chunks!Field,
        Media!Chunks!Field, Chunks!ExtendedUnit, Media!Chunks!ExtendedUnit,
        Chunks!Formats, Media!Chunks!Formats, Chunks!Known,
        Media!Chunks!Known, Chunks!parserVars, Media!Chunks!parserVars
  <2>5. \A c, n : Chunks!ContinueMessage(c, n) => Media!Chunks!ContinueMessage(c, n)
    BY DEF Chunks!ContinueMessage, Media!Chunks!ContinueMessage, Chunks!SendOf,
        Media!Chunks!SendOf, Chunks!Emit, Media!Chunks!Emit, Chunks!Payload,
        Media!Chunks!Payload, Chunks!Min, Media!Chunks!Min,
        Chunks!ExtendedUnit, Media!Chunks!ExtendedUnit, Chunks!parserVars,
        Media!Chunks!parserVars
  <2>6. ASSUME NEW c, Chunks!SendAbort(c) PROVE Media!Chunks!SendAbort(c)
    BY <2>6 DEF Chunks!SendAbort, Media!Chunks!SendAbort, Chunks!Emit,
        Media!Chunks!Emit, Chunks!parserVars, Media!Chunks!parserVars
  <2>7. ASSUME NEW c, Chunks!BreakProtocol(c) PROVE Media!Chunks!BreakProtocol(c)
    BY <2>7 DEF Chunks!BreakProtocol, Media!Chunks!BreakProtocol, Chunks!Emit,
        Media!Chunks!Emit, Chunks!Known, Media!Chunks!Known,
        Chunks!parserVars, Media!Chunks!parserVars
  <2>8. ASSUME NEW n, Chunks!SendChunkSize(n) PROVE Media!Chunks!SendChunkSize(n)
    BY <2>8 DEF Chunks!SendChunkSize, Media!Chunks!SendChunkSize, Chunks!Emit,
        Media!Chunks!Emit, Chunks!parserVars, Media!Chunks!parserVars
  <2>9. ASSUME NEW h, NEW n, Chunks!ParseFragment(h, n) PROVE Media!Chunks!ParseFragment(h, n)
    BY <2>9, Zenon DEF Chunks!ParseFragment, Media!Chunks!ParseFragment, Chunks!NewHeader,
        Media!Chunks!NewHeader, Chunks!Consume, Media!Chunks!Consume,
        Chunks!Fail, Media!Chunks!Fail, Chunks!Min, Media!Chunks!Min
  <2>10. \A h : Chunks!SkipAborted(h) => Media!Chunks!SkipAborted(h)
    BY DEF Chunks!SkipAborted, Media!Chunks!SkipAborted, Chunks!Consume,
        Media!Chunks!Consume, Chunks!Min, Media!Chunks!Min
  <2>11. Chunks!ParseChunk => Media!Chunks!ParseChunk
    <3>1. \A h : Chunks!OutOfStep(h) <=> Media!Chunks!OutOfStep(h)
      BY DEF Chunks!OutOfStep, Media!Chunks!OutOfStep, Chunks!Known,
        Media!Chunks!Known
    <3>2. Chunks!Fail => Media!Chunks!Fail
      BY DEF Chunks!Fail, Media!Chunks!Fail
    <3> QED
      BY <2>3, <2>9, <2>10, <3>1, <3>2 DEF Chunks!ParseChunk, Media!Chunks!ParseChunk, Chunks!serverVars,
        Media!Chunks!serverVars
  <2>12. /\ Chunks!ParseChunkSize => Media!Chunks!ParseChunkSize
         /\ Chunks!ParseAbort => Media!Chunks!ParseAbort
    BY DEF Chunks!ParseChunkSize, Media!Chunks!ParseChunkSize,
        Chunks!ParseAbort, Media!Chunks!ParseAbort, Chunks!Consume,
        Media!Chunks!Consume, Chunks!serverVars, Media!Chunks!serverVars,
        Chunks!Abort, Media!Chunks!Abort
  <2> QED
    BY <2>2, <2>4, <2>5, <2>6, <2>7, <2>8, <2>11, <2>12 DEF Chunks!Next, Media!Chunks!Next
<1>4. Media!Chunks!MessagesComeOutWhole => Chunks!MessagesComeOutWhole
  BY DEF Chunks!MessagesComeOutWhole, Media!Chunks!MessagesComeOutWhole,
      Chunks!Faithful, Media!Chunks!Faithful, Chunks!Payload, Media!Chunks!Payload
<1> QED BY <1>1, <1>2, <1>3, <1>4

LEMMA EncodeIsMedia ==
  /\ Encode!EncoderAssumption => Media!Encode!EncoderAssumption
  /\ Encode!Init => Media!Encode!Init
  /\ Encode!Next => Media!Encode!Next
  /\ Media!Encode!PacketsKeepTheirTicks => Encode!PacketsKeepTheirTicks
<1>1. Encode!EncoderAssumption => Media!Encode!EncoderAssumption
  BY DEF Encode!EncoderAssumption, Media!Encode!EncoderAssumption
<1>2. Encode!Init => Media!Encode!Init
  BY DEF Encode!Init, Media!Encode!Init
<1>3. Encode!Next => Media!Encode!Next
  BY DEF Encode!Next, Media!Encode!Next, Encode!Encode, Media!Encode!Encode,
      Encode!BuildInputSample, Media!Encode!BuildInputSample, Encode!Bounded,
      Media!Encode!Bounded, Encode!transformVars, Media!Encode!transformVars,
      Encode!historyVars, Media!Encode!historyVars, Encode!Initialize,
      Media!Encode!Initialize, Encode!Configure, Media!Encode!Configure,
      Encode!CreateTransform, Media!Encode!CreateTransform, Encode!AskForInput,
      Media!Encode!AskForInput, Encode!codeVars, Media!Encode!codeVars,
      Encode!FinishFrame, Media!Encode!FinishFrame, Encode!Flush,
      Media!Encode!Flush, Encode!Drained, Media!Encode!Drained, Encode!Thread,
      Media!Encode!Thread, Encode!SubmitSync, Media!Encode!SubmitSync,
      Encode!ProcessInput, Media!Encode!ProcessInput, Encode!TakeInput, Media!Encode!TakeInput,
      Encode!RefuseInput, Media!Encode!RefuseInput, Encode!Stamp,
      Media!Encode!Stamp, Encode!TicksOfCall, Media!Encode!TicksOfCall,
      Encode!UseCredit, Media!Encode!UseCredit, Encode!DrainReadyEvents,
      Media!Encode!DrainReadyEvents, Encode!HandleEvent, Media!Encode!HandleEvent,
      Encode!ProcessOutputAsync, Media!Encode!ProcessOutputAsync, Encode!Emit,
      Media!Encode!Emit, Encode!Forgotten, Media!Encode!Forgotten,
      Encode!ResolveTicks, Media!Encode!ResolveTicks, Encode!WaitForRequest,
      Media!Encode!WaitForRequest, Encode!DrainOutput, Media!Encode!DrainOutput,
      Encode!FlushEvents, Media!Encode!FlushEvents, Encode!Cardinality,
      Media!Encode!Cardinality, Cardinality
<1>4. Media!Encode!PacketsKeepTheirTicks => Encode!PacketsKeepTheirTicks
  BY DEF Encode!PacketsKeepTheirTicks, Media!Encode!PacketsKeepTheirTicks,
      Encode!Cardinality, Media!Encode!Cardinality, Cardinality
<1> QED BY <1>1, <1>2, <1>3, <1>4

LEMMA TsIsMedia ==
  /\ Ts!DemuxAssumption => Media!Ts!DemuxAssumption
  /\ Ts!Init => Media!Ts!Init
  /\ Ts!Next => Media!Ts!Next
  /\ Media!Ts!WholePackets => Ts!WholePackets
<1>1. Ts!DemuxAssumption => Media!Ts!DemuxAssumption
  BY DEF Ts!DemuxAssumption, Media!Ts!DemuxAssumption
<1>2. Ts!Init => Media!Ts!Init
  BY DEF Ts!Init, Media!Ts!Init
<1>3. Ts!Next => Media!Ts!Next
  <2>1. \A st, k : Ts!Accept(st, k) = Media!Ts!Accept(st, k)
    BY DEF Ts!Accept, Media!Ts!Accept, Ts!Streams, Media!Ts!Streams, Ts!Gap, Media!Ts!Gap
  <2>2. \A st, k : Ts!Push(st, k) = Media!Ts!Push(st, k)
    BY DEF Ts!Push, Media!Ts!Push, Ts!Whole, Media!Ts!Whole
  <2>3. \A S : Ts!Flat(S) = Media!Ts!Flat(S)
    BY DEF Ts!Flat, Media!Ts!Flat
  <2>4. Ts!Streams = Media!Ts!Streams
    BY DEF Ts!Streams, Media!Ts!Streams
  <2>5. \A k : Ts!Receive(k) => Media!Ts!Receive(k)
    BY <2>1, <2>2, <2>3, <2>4 DEF Ts!Receive, Media!Ts!Receive
  <2>6. \A p, s, f : Ts!Packet(p, s, f) = Media!Ts!Packet(p, s, f)
    BY DEF Ts!Packet, Media!Ts!Packet
  <2>7. \A p, s : (Ts!Sent(p, s) => Media!Ts!Sent(p, s)) /\ (Ts!Lose(p, s) => Media!Ts!Lose(p, s))
    BY DEF Ts!Sent, Media!Ts!Sent, Ts!Lose, Media!Ts!Lose
  <2>8. \A p : Ts!NextUnit(p) = Media!Ts!NextUnit(p)
    BY DEF Ts!NextUnit, Media!Ts!NextUnit
  <2>9. \A p, s, f : Ts!Deliver(p, s, f) => Media!Ts!Deliver(p, s, f)
    BY <2>5, <2>6, <2>7 DEF Ts!Deliver, Media!Ts!Deliver
  <2>10. \A p : Ts!Send(p) => Media!Ts!Send(p)
    BY <2>7, <2>8, <2>9 DEF Ts!Send, Media!Ts!Send
  <2>11. \A p : Ts!Repeat(p) => Media!Ts!Repeat(p)
    BY <2>5, <2>6 DEF Ts!Repeat, Media!Ts!Repeat, Ts!senderVars, Media!Ts!senderVars
  <2>12. Ts!LearnStreams => Media!Ts!LearnStreams
    BY DEF Ts!LearnStreams, Media!Ts!LearnStreams, Ts!senderVars, Media!Ts!senderVars
  <2> QED BY <2>10, <2>11, <2>12 DEF Ts!Next, Media!Ts!Next
<1>4. Media!Ts!WholePackets => Ts!WholePackets
  BY DEF Ts!WholePackets, Media!Ts!WholePackets
<1> QED BY <1>1, <1>2, <1>3, <1>4

LEMMA VideoIsMedia ==
  /\ Video!DecoderAssumption => Media!Video!DecoderAssumption
  /\ Video!Init => Media!Video!Init
  /\ Video!Next => Media!Video!Next
  /\ Media!Video!TransformIsServed => Video!TransformIsServed
<1>1. Video!DecoderAssumption => Media!Video!DecoderAssumption
  BY DEF Video!DecoderAssumption, Media!Video!DecoderAssumption
<1>2. Video!Init => Media!Video!Init
  BY DEF Video!Init, Media!Video!Init, Video!NoKey, Media!Video!NoKey
<1>3. Video!Next => Media!Video!Next
  BY DEF Video!Next, Media!Video!Next, Video!Thread, Media!Video!Thread,
      Video!SubmitSync, Media!Video!SubmitSync, Video!ProcessInput,
      Media!Video!ProcessInput, Video!TakeInput, Media!Video!TakeInput,
      Video!RefuseInput, Media!Video!RefuseInput, Video!UseCredit, Media!Video!UseCredit,
      Video!WaitForRequest, Media!Video!WaitForRequest, Video!ProcessOutput,
      Media!Video!ProcessOutput, Video!DrainSync, Media!Video!DrainSync,
      Video!DecodeReturns, Media!Video!DecodeReturns, Video!transformVars,
      Media!Video!transformVars, Video!DrainEvent, Media!Video!DrainEvent,
      Video!Decode, Media!Video!Decode, Video!EnsureSession,
      Media!Video!EnsureSession, Video!CreateD3D, Media!Video!CreateD3D,
      Video!CreateTransform, Media!Video!CreateTransform, Video!Reset,
      Media!Video!Reset, Video!ConfigureTypes, Media!Video!ConfigureTypes,
      Video!Suits, Media!Video!Suits, Video!NoKey, Media!Video!NoKey,
      Video!FinishUnit, Media!Video!FinishUnit, Video!AskForInput,
      Media!Video!AskForInput, Video!Room, Media!Video!Room, Video!ResetDecoder,
      Media!Video!ResetDecoder
<1>4. Media!Video!TransformIsServed => Video!TransformIsServed
  BY DEF Video!TransformIsServed, Media!Video!TransformIsServed,
      Video!Cardinality, Media!Video!Cardinality, Cardinality
<1> QED BY <1>1, <1>2, <1>3, <1>4

LEMMA AacIsMedia ==
  /\ Aac!Init => Media!Aac!Init
  /\ Aac!Next => Media!Aac!Next
  /\ Media!Aac!SoundKeepsItsLayout => Aac!SoundKeepsItsLayout
<1>1. Aac!Init => Media!Aac!Init
  BY DEF Aac!Init, Media!Aac!Init, Aac!None, Media!Aac!None
<1>2. Aac!Next => Media!Aac!Next
  BY DEF Aac!Next, Media!Aac!Next, Aac!ResetAac, Media!Aac!ResetAac,
      Aac!DecodeFails, Media!Aac!DecodeFails, Aac!Teardown, Media!Aac!Teardown,
      Aac!None, Media!Aac!None, Aac!DecodeAdtsFrame, Media!Aac!DecodeAdtsFrame,
      Aac!ProcessFrame, Media!Aac!ProcessFrame, Aac!Resampled,
      Media!Aac!Resampled, Aac!StoreNegotiated, Media!Aac!StoreNegotiated,
      Aac!Ensure, Media!Aac!Ensure, Aac!Built, Media!Aac!Built, Aac!Live,
      Media!Aac!Live
<1>3. Media!Aac!SoundKeepsItsLayout => Aac!SoundKeepsItsLayout
  BY DEF Aac!SoundKeepsItsLayout, Media!Aac!SoundKeepsItsLayout
<1> QED BY <1>1, <1>2, <1>3

(* What the parts keep while one of them moves.                             *)
MediaInv ==
  /\ Media!ChunkInv /\ Media!EncodeInv /\ Media!TsInv /\ Media!VideoInv /\ Media!AacInv

LEMMA MediaBegins == MCInit => MediaInv
<1> SUFFICES ASSUME MCInit PROVE MediaInv OBVIOUS
<1>1. Media!ChunkInv
  BY MCAssumption, ChunksAreMedia, Media!ChunkStart DEF MCInit, MCAssumption
<1>2. Media!EncodeInv
  BY MCAssumption, EncodeIsMedia, Media!EncodeStart DEF MCInit, MCAssumption
<1>3. Media!TsInv
  BY MCAssumption, TsIsMedia, Media!TsStart DEF MCInit, MCAssumption
<1>4. Media!VideoInv
  BY VideoIsMedia, Media!VideoStart DEF MCInit
<1>5. Media!AacInv
  BY AacIsMedia, Media!AacStart DEF MCInit
<1> QED BY <1>1, <1>2, <1>3, <1>4, <1>5 DEF MediaInv

LEMMA MediaMoves == MediaInv /\ [MCNext]_mcVars => MediaInv'
<1> SUFFICES ASSUME MediaInv, [MCNext]_mcVars PROVE MediaInv' OBVIOUS
<1>1. Media!ChunkInv'
  <2>1. [Chunks!Next]_chunksOwn BY DEF MCNext, mcVars
  <2>2. [Media!Chunks!Next]_Media!chunksOwn
    BY <2>1, ChunksAreMedia DEF chunksOwn, Media!chunksOwn
  <2> QED BY <2>2, MCAssumption, ChunksAreMedia, Media!ChunkStep DEF MCAssumption, MediaInv
<1>2. Media!EncodeInv'
  <2>1. [Encode!Next]_encodeOwn BY DEF MCNext, mcVars
  <2>2. [Media!Encode!Next]_Media!encodeOwn
    BY <2>1, EncodeIsMedia DEF encodeOwn, Media!encodeOwn
  <2> QED BY <2>2, MCAssumption, EncodeIsMedia, Media!EncodeStep DEF MCAssumption, MediaInv
<1>3. Media!TsInv'
  <2>1. [Ts!Next]_tsOwn BY DEF MCNext, mcVars
  <2>2. [Media!Ts!Next]_Media!tsOwn
    BY <2>1, TsIsMedia DEF tsOwn, Media!tsOwn
  <2> QED BY <2>2, MCAssumption, TsIsMedia, Media!TsStep DEF MCAssumption, MediaInv
<1>4. Media!VideoInv'
  <2>1. [Video!Next]_videoOwn BY DEF MCNext, mcVars
  <2>2. [Media!Video!Next]_Media!videoOwn
    BY <2>1, VideoIsMedia DEF videoOwn, Media!videoOwn
  <2> QED BY <2>2, MCAssumption, VideoIsMedia, Media!VideoStep DEF MCAssumption, MediaInv
<1>5. Media!AacInv'
  <2>1. [Aac!Next]_aacOwn BY DEF MCNext, mcVars
  <2>2. [Media!Aac!Next]_Media!aacOwn
    BY <2>1, AacIsMedia DEF aacOwn, Media!aacOwn
  <2> QED BY <2>2, Media!AacStep DEF MediaInv
<1> QED BY <1>1, <1>2, <1>3, <1>4, <1>5 DEF MediaInv

(* A message comes out of the RTMP chunks, a packet out of the transport    *)
(* stream, a frame out of the decoders and the encoder whole and once, in   *)
(* its order, with its own time and in its own layout, or not at all:       *)
(* NativeRtmpChunkReader, NativeTsParser, and the three transforms as they  *)
(* are driven by decode() and encode().                                     *)
THEOREM MediaIsWhole == MCSpec => []MediaComesOutWhole
<1>1. MediaInv => MediaComesOutWhole
  <2> SUFFICES ASSUME MediaInv PROVE MediaComesOutWhole OBVIOUS
  <2>1. Chunks!MessagesComeOutWhole BY ChunksAreMedia, Media!ChunkTruth DEF MediaInv
  <2>2. Encode!PacketsKeepTheirTicks BY EncodeIsMedia, Media!EncodeTruth DEF MediaInv
  <2>3. Ts!WholePackets
    BY MCAssumption, TsIsMedia, Media!TsTruth DEF MediaInv, MCAssumption
  <2>4. Video!TransformIsServed BY VideoIsMedia, Media!VideoTruth DEF MediaInv
  <2>5. Aac!SoundKeepsItsLayout BY AacIsMedia, Media!AacTruth DEF MediaInv
  <2> QED BY <2>1, <2>2, <2>3, <2>4, <2>5 DEF MediaComesOutWhole
<1> QED BY <1>1, MediaBegins, MediaMoves, PTL DEF MCSpec
=============================================================================
