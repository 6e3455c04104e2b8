----------------------------- MODULE StudioProofs -----------------------------
(***************************************************************************)
(* TLAPS proofs about MCStudio, for any number of sources, views, feeds    *)
(* and clients.  The slot map is an assignment (one view per source,       *)
(* enabled sources only), it is a maximal one, and every track has the     *)
(* worker its view promises, whoever edits the list during a recording,    *)
(* but for sources added since its start and workers a removal shifted.    *)
(* Telemetry at the playhead, the indicators and the playback worker, the  *)
(* control clients, the recording session and the PTP client each keep an  *)
(* invariant of their own, which a step of another part leaves alone.      *)
(***************************************************************************)
EXTENDS MCStudio, FiniteSetTheorems, SequenceTheorems, WellFoundedInduction, TLAPS

(* The rank of an element of a finite set of naturals.                      *)
LEMMA RankBounded ==
  ASSUME NEW S, S \subseteq Nat, IsFiniteSet(S), NEW x \in S
  PROVE  RankIn(S, x) \in Nat /\ RankIn(S, x) \in 0..(Cardinality(S) - 1)
<1> DEFINE B == {y \in S : y < x}
<1>1. B \in SUBSET S /\ B # S
  BY x \notin B
<1>2. Cardinality(B) \in Nat /\ Cardinality(S) \in Nat
  BY <1>1, FS_Subset, FS_CardinalityType
<1>3. Cardinality(B) <= Cardinality(S) /\ Cardinality(B) # Cardinality(S)
  BY <1>1, FS_Subset
<1> QED
  BY <1>2, <1>3 DEF RankIn

(* A larger element has a larger rank ...                                   *)
LEMMA RankStrict ==
  ASSUME NEW S, S \subseteq Nat, IsFiniteSet(S), NEW x \in S, NEW y \in S, x < y
  PROVE  RankIn(S, x) < RankIn(S, y)
<1> DEFINE B == {z \in S : z < x}
           C == {z \in S : z < y}
<1>1. B \in SUBSET C /\ B # C
  <2>1. x \in C /\ x \notin B
    OBVIOUS
  <2>2. ASSUME NEW z \in B PROVE z \in C
    OBVIOUS
  <2> QED BY <2>1, <2>2
<1>2. IsFiniteSet(C)
  BY FS_Subset
<1>3. Cardinality(B) \in Nat /\ Cardinality(C) \in Nat
  BY <1>1, <1>2, FS_Subset, FS_CardinalityType
<1>4. Cardinality(B) <= Cardinality(C) /\ Cardinality(C) # Cardinality(B)
  BY <1>1, <1>2, FS_Subset
<1> QED
  BY <1>3, <1>4 DEF RankIn

(* ... so the rank tells the elements apart.                                *)
LEMMA RankDistinct ==
  ASSUME NEW S, S \subseteq Nat, IsFiniteSet(S), NEW x \in S, NEW y \in S,
         RankIn(S, x) = RankIn(S, y)
  PROVE  x = y
<1>1. RankIn(S, x) \in Nat /\ RankIn(S, y) \in Nat
  BY RankBounded
<1>2. ASSUME x < y PROVE FALSE
  <2>1. RankIn(S, x) < RankIn(S, y)
    BY <1>2, RankStrict
  <2> QED BY <1>1, <2>1
<1>3. ASSUME y < x PROVE FALSE
  <2>1. RankIn(S, y) < RankIn(S, x)
    BY <1>3, RankStrict
  <2> QED BY <1>1, <2>1
<1> QED
  BY <1>2, <1>3

(* And every rank is taken.                                                 *)
LEMMA RankOnto ==
  ASSUME NEW S, S \subseteq Nat, IsFiniteSet(S), NEW k \in 0..(Cardinality(S) - 1)
  PROVE  \E x \in S : RankIn(S, x) = k
<1> DEFINE T == 0..(Cardinality(S) - 1)
           r == [x \in S |-> RankIn(S, x)]
<1>0. Cardinality(S) \in Nat
  BY FS_CardinalityType
<1>1. IsFiniteSet(T) /\ Cardinality(T) = Cardinality(S)
  BY <1>0, FS_Interval
<1>2. r \in [S -> T]
  BY RankBounded
<1>3. r \in Injection(S, T)
  BY <1>2, RankDistinct DEF Injection, IsInjective
<1>4. r \in Surjection(S, T)
  BY <1>1, <1>3, FS_Injection
<1>5. PICK x \in S : r[x] = k
  BY <1>4 DEF Surjection
<1> QED
  BY <1>5

-----------------------------------------------------------------------------
(* An assignment: enabled sources only, no source twice.                    *)
Fits(map, on) ==
  \A v \in DOMAIN map : map[v] # 0 =>
      /\ map[v] \in DOMAIN on /\ on[map[v]]
      /\ \A u \in DOMAIN map : map[u] = map[v] => u = v

Full(map, on) == FreeViews(map) = {} \/ Waiting(map, on) = {}

(* What Fill makes of an assignment: a maximal assignment that keeps it.    *)
LEMMA FillFits ==
  ASSUME NEW n \in Nat, NEW m \in Nat, NEW on \in [1..m -> BOOLEAN],
         NEW map \in [1..n -> 0..m], Fits(map, on)
  PROVE  /\ Fill(map, on) \in [1..n -> 0..m]
         /\ Fits(Fill(map, on), on)
         /\ Full(Fill(map, on), on)
<1> DEFINE W == Waiting(map, on)
           F == FreeViews(map)
           next(v) == {s \in W : RankIn(W, s) = RankIn(F, v)}
           f == Fill(map, on)
<1>1. W \subseteq 1..m /\ W \subseteq Nat /\ IsFiniteSet(W)
  <2>1. W \in SUBSET (1..m)
    BY DEF Waiting
  <2> QED BY <2>1, FS_Interval, FS_Subset
<1>2. F \subseteq 1..n /\ F \subseteq Nat /\ IsFiniteSet(F)
  <2>1. F \in SUBSET (1..n)
    BY DEF FreeViews
  <2> QED BY <2>1, FS_Interval, FS_Subset
<1>3. DOMAIN f = 1..n
  BY DEF Fill
<1>4. ASSUME NEW v \in 1..n
      PROVE  f[v] = IF map[v] # 0 \/ next(v) = {} THEN map[v] ELSE CHOOSE s \in next(v) : TRUE
  BY <1>4 DEF Fill
<1> HIDE DEF W, F, f
<1>5. ASSUME NEW v \in 1..n, map[v] # 0 PROVE f[v] = map[v]
  BY <1>4, <1>5
<1>6. ASSUME NEW v \in 1..n, map[v] = 0
      PROVE  \/ f[v] = 0 /\ next(v) = {}
             \/ f[v] \in W /\ RankIn(W, f[v]) = RankIn(F, v)
  BY <1>4, <1>6
<1>7. f \in [1..n -> 0..m]
  <2>1. ASSUME NEW v \in 1..n PROVE f[v] \in 0..m
    <3>1. CASE map[v] # 0
      BY <1>5, <3>1
    <3>2. CASE map[v] = 0
      <4>1. 0 \in 0..m /\ W \subseteq 0..m
        BY <1>1
      <4> QED BY <1>6, <3>2, <4>1
    <3> QED BY <3>1, <3>2
  <2>2. f = [v \in 1..n |-> f[v]]
    BY DEF f, Fill
  <2> QED BY <2>1, <2>2
<1>8. ASSUME NEW v \in 1..n, f[v] # 0 PROVE f[v] \in 1..m /\ on[f[v]]
  <2>1. CASE map[v] # 0
    BY <1>5, <2>1 DEF Fits
  <2>2. CASE map[v] = 0
    BY <1>6, <1>8, <2>2 DEF W, Waiting
  <2> QED BY <2>1, <2>2
<1>9. ASSUME NEW v \in 1..n, NEW u \in 1..n, f[v] # 0, f[u] = f[v] PROVE u = v
  <2>1. CASE map[v] # 0 /\ map[u] # 0
    BY <1>5, <1>9, <2>1 DEF Fits
  <2>2. CASE map[v] # 0 /\ map[u] = 0
    <3>1. f[u] \in W /\ f[u] = map[v]
      BY <1>5, <1>6, <1>9, <2>2
    <3> QED BY <3>1 DEF W, Waiting
  <2>3. CASE map[v] = 0 /\ map[u] # 0
    <3>1. f[v] \in W /\ f[v] = map[u]
      BY <1>5, <1>6, <1>9, <2>3
    <3> QED BY <3>1 DEF W, Waiting
  <2>4. CASE map[v] = 0 /\ map[u] = 0
    <3>1. u \in F /\ v \in F
      BY <2>4 DEF F, FreeViews
    <3>2. RankIn(F, u) = RankIn(F, v)
      BY <1>6, <1>9, <2>4
    <3> QED BY <1>2, <3>1, <3>2, RankDistinct
  <2> QED BY <2>1, <2>2, <2>3, <2>4
<1>10. Fits(f, on)
  BY <1>3, <1>8, <1>9 DEF Fits
<1>11. ASSUME NEW v \in FreeViews(f), NEW s \in Waiting(f, on) PROVE FALSE
  <2>1. v \in 1..n /\ f[v] = 0 /\ s \in 1..m /\ on[s] /\ \A u \in 1..n : f[u] # s
    BY <1>3, <1>11 DEF FreeViews, Waiting
  <2>2. map[v] = 0 /\ v \in F
    BY <1>5, <2>1 DEF F, FreeViews
  <2>3. s \in W
    BY <1>5, <2>1 DEF W, Waiting
  <2>4. next(v) = {}
    BY <1>1, <1>6, <2>1, <2>2
  <2>5. RankIn(F, v) \in 0..(Cardinality(F) - 1) /\ RankIn(W, s) \in 0..(Cardinality(W) - 1)
    BY <1>1, <1>2, <2>2, <2>3, RankBounded
  <2>6. Cardinality(W) \in Nat /\ Cardinality(F) \in Nat
    BY <1>1, <1>2, FS_CardinalityType
  <2>7. RankIn(F, v) \notin 0..(Cardinality(W) - 1)
    <3>1. IsFiniteSet(W) /\ W \subseteq Nat
      BY <1>1
    <3>2. SUFFICES ASSUME RankIn(F, v) \in 0..(Cardinality(W) - 1) PROVE FALSE
      OBVIOUS
    <3>3. PICK x \in W : RankIn(W, x) = RankIn(F, v)
      BY <3>1, <3>2, RankOnto
    <3> QED BY <2>4, <3>3
  <2>8. RankIn(W, s) \in 0..(Cardinality(F) - 1)
    BY <2>5, <2>6, <2>7
  <2>9. PICK u \in F : RankIn(F, u) = RankIn(W, s)
    BY <1>2, <2>8, RankOnto
  <2>10. u \in 1..n /\ map[u] = 0
    BY <2>9 DEF F, FreeViews
  <2>11. s \in next(u)
    BY <2>3, <2>9
  <2>12. f[u] \in W /\ RankIn(W, f[u]) = RankIn(W, s)
    BY <1>6, <2>9, <2>10, <2>11
  <2>13. f[u] = s
    BY <1>1, <2>3, <2>12, RankDistinct
  <2> QED BY <2>1, <2>10, <2>13
<1>12. Full(f, on)
  BY <1>11 DEF Full
<1> QED
  BY <1>7, <1>10, <1>12 DEF f

(* rebuildSlotMap, from any map that shows no source twice.                 *)
LEMMA RebuildFits ==
  ASSUME NEW n \in Nat, NEW m \in Nat, NEW on \in [1..m -> BOOLEAN], NEW map,
         \A u, v \in DOMAIN map : map[u] # 0 /\ map[u] = map[v] => u = v
  PROVE  /\ RebuildSlotMap(map, n, on) \in [1..n -> 0..m]
         /\ Fits(RebuildSlotMap(map, n, on), on)
         /\ Full(RebuildSlotMap(map, n, on), on)
<1> DEFINE k == Kept(map, n, on)
<1>1. DOMAIN k = 1..n
  BY DEF Kept
<1>2. ASSUME NEW v \in 1..n
      PROVE  \/ k[v] = 0
             \/ v \in DOMAIN map /\ k[v] = map[v] /\ map[v] \in 1..m /\ on[map[v]]
  BY DEF Kept
<1>3. k \in [1..n -> 0..m]
  <2>1. ASSUME NEW v \in 1..n PROVE k[v] \in 0..m
    BY <1>2
  <2>2. k = [v \in 1..n |-> k[v]]
    BY DEF Kept
  <2> QED BY <2>1, <2>2
<1> HIDE DEF k
<1>4. Fits(k, on)
  BY <1>1, <1>2 DEF Fits
<1> QED
  BY <1>3, <1>4, FillFits DEF k, RebuildSlotMap

(* Removing one element shortens a sequence by one.                         *)
LEMMA RemoveAtType ==
  ASSUME NEW S, NEW s \in Seq(S), NEW i \in DOMAIN s
  PROVE  RemoveAt(s, i) \in Seq(S) /\ Len(RemoveAt(s, i)) = Len(s) - 1
BY DEF RemoveAt

-----------------------------------------------------------------------------
(* The user interface's half of the invariant, and the engine's.            *)
SlotsInv == Fits(slots, enabled) /\ Full(slots, enabled)

EngineInv ==
  /\ ~recording => workers = <<>>
  /\ recording => layout = Len(slots)
  /\ tracks = [w \in DOMAIN workers |-> TrackOf(slots, w)]
  /\ \A w \in DOMAIN workers \ shifted : w \in DOMAIN sources /\ workers[w] = sources[w]

IInv == TypeOK /\ SlotsInv

(* The empty list is assigned to the blue views.                             *)
LEMMA InitIInv == Init => IInv
<1> SUFFICES ASSUME Init PROVE IInv
  OBVIOUS
<1>1. PICK n \in 1..MaxViews : slots = [v \in 1..n |-> 0]
  BY DEF Init
<1>2. Len(slots) = n /\ slots \in [1..n -> 0..0]
  BY <1>1, RoutingAssumption
<1>3. TypeOK
  <2>1. /\ created \in 0..MaxSources /\ sources \in Seq(1..MaxSources) /\ Len(sources) = 0
        /\ enabled \in Seq(BOOLEAN) /\ Len(enabled) = 0
        /\ workers \in Seq(1..MaxSources) /\ layout \in 0..MaxViews
        /\ Len(tracks) = Len(workers) /\ shifted \subseteq DOMAIN workers
    BY RoutingAssumption DEF Init
  <2>2. recording \in BOOLEAN /\ player \in BOOLEAN
    BY Zenon DEF Init
  <2> QED BY <1>2, <2>1, <2>2 DEF TypeOK
<1>4. Fits(slots, enabled)
  BY <1>1 DEF Fits
<1>5. Waiting(slots, enabled) = {}
  BY DEF Init, Waiting
<1> QED
  BY <1>3, <1>4, <1>5 DEF IInv, SlotsInv, Full

(* Whatever syncActiveStreams is called with, it leaves a maximal assignment. *)
LEMMA SyncStep ==
  ASSUME IInv, NEW n \in 1..MaxViews, enabled' \in Seq(BOOLEAN),
         SyncActiveStreams(enabled', n)
  PROVE  /\ Len(slots') = n
         /\ slots' \in [1..n -> 0..Len(enabled')]
         /\ SlotsInv'
         /\ Len(tracks') = Len(workers)
         /\ player' \in BOOLEAN
<1>1. enabled' \in [1..Len(enabled') -> BOOLEAN] /\ Len(enabled') \in Nat
  OBVIOUS
<1>2. n \in Nat
  BY RoutingAssumption
<1>3. \A u, v \in DOMAIN slots : slots[u] # 0 /\ slots[u] = slots[v] => u = v
  BY DEF IInv, SlotsInv, Fits
<1>4. slots' = RebuildSlotMap(slots, n, enabled')
  BY DEF SyncActiveStreams
<1>5. /\ slots' \in [1..n -> 0..Len(enabled')]
      /\ Fits(slots', enabled') /\ Full(slots', enabled')
  BY <1>1, <1>2, <1>3, <1>4, RebuildFits
<1>6. Len(slots') = n
  BY <1>2, <1>5
<1>7. SlotsInv'
  BY <1>5 DEF SlotsInv
<1>8. Len(tracks') = Len(workers)
  BY DEF SyncActiveStreams, UpdateViewMapping, IInv, TypeOK
<1> QED
  BY <1>5, <1>6, <1>7, <1>8 DEF SyncActiveStreams

(* Both halves of toggleSourceEnabled keep a maximal assignment.            *)
LEMMA ToggleStep ==
  ASSUME IInv, NEW i \in DOMAIN sources, ToggleSourceEnabled(i)
  PROVE  IInv' /\ Len(slots') = Len(slots)
<1> DEFINE n == Len(slots)
           m == Len(sources)
<1>1. /\ n \in Nat /\ m \in Nat /\ m = Len(enabled)
      /\ slots \in [1..n -> 0..m] /\ i \in 1..m
      /\ enabled \in [1..m -> BOOLEAN] /\ enabled' \in [1..m -> BOOLEAN]
      /\ enabled' \in Seq(BOOLEAN) /\ Len(enabled') = m
  BY RoutingAssumption DEF IInv, TypeOK, ToggleSourceEnabled
<1>2. /\ enabled'[i] = ~enabled[i]
      /\ \A s \in 1..m : s # i => enabled'[s] = enabled[s]
  BY <1>1 DEF ToggleSourceEnabled
<1>3. Fits(slots, enabled) /\ Full(slots, enabled)
  BY DEF IInv, SlotsInv
<1> HIDE DEF n, m
<1>4. slots' \in [1..n -> 0..m] /\ Fits(slots', enabled') /\ Full(slots', enabled')
  <2>1. CASE enabled[i]
    <3> DEFINE c == ClearSlot(slots, i)
    <3>1. slots' = Fill(c, enabled')
      BY <2>1 DEF ToggleSourceEnabled
    <3>2. c \in [1..n -> 0..m]
      BY <1>1 DEF ClearSlot
    <3>3. \A v \in 1..n : c[v] # 0 => c[v] = slots[v] /\ c[v] # i
      BY <1>1 DEF ClearSlot
    <3>4. Fits(c, enabled')
      <4> HIDE DEF c
      <4> QED BY <1>1, <1>2, <1>3, <3>2, <3>3 DEF Fits
    <3> HIDE DEF c
    <3> QED BY <1>1, <3>1, <3>2, <3>4, FillFits
  <2>2. CASE ~enabled[i]
    <3>1. slots' = PlaceFirstFree(slots, i)
      BY <2>2 DEF ToggleSourceEnabled
    <3>2. \A v \in 1..n : slots[v] # i
      BY <1>1, <1>3, <2>2 DEF Fits
    <3>3. slots' \in [1..n -> 0..m]
      BY <1>1, <3>1 DEF PlaceFirstFree
    <3>4. \A v \in 1..n : \/ slots'[v] = slots[v]
                         \/ /\ slots'[v] = i /\ slots[v] = 0
                            /\ \A u \in FreeViews(slots) : v <= u
      BY <1>1, <3>1 DEF PlaceFirstFree
    <3>5. Fits(slots', enabled')
      <4>1. ASSUME NEW v \in 1..n, slots'[v] # 0
            PROVE  slots'[v] \in 1..m /\ enabled'[slots'[v]]
        BY <1>1, <1>2, <1>3, <2>2, <3>4, <4>1 DEF Fits
      <4>2. ASSUME NEW v \in 1..n, NEW u \in 1..n, slots'[v] # 0, slots'[u] = slots'[v]
            PROVE  u = v
        <5>1. CASE slots'[v] = i
          <6>1. v \in FreeViews(slots) /\ u \in FreeViews(slots)
            BY <1>1, <3>2, <3>4, <4>2, <5>1 DEF FreeViews
          <6>2. v <= u /\ u <= v
            BY <3>2, <3>4, <4>2, <5>1, <6>1
          <6> QED BY <6>2
        <5>2. CASE slots'[v] # i
          <6>1. slots[v] = slots'[v] /\ slots[u] = slots'[u]
            BY <3>4, <4>2, <5>2
          <6> QED BY <1>1, <1>3, <4>2, <6>1 DEF Fits
        <5> QED BY <5>1, <5>2
      <4> QED BY <1>1, <3>3, <4>1, <4>2 DEF Fits
    <3>6. Full(slots', enabled')
      <4>1. CASE Waiting(slots, enabled) = {}
        <5>1. CASE FreeViews(slots) = {}
          <6>1. FreeViews(slots') = {}
            BY <1>1, <3>3, <3>4, <5>1 DEF FreeViews
          <6> QED BY <6>1 DEF Full
        <5>2. CASE FreeViews(slots) # {}
          <6>1. PICK v \in FreeViews(slots) : \A u \in FreeViews(slots) : v <= u
            <7>1. FreeViews(slots) \subseteq Nat
              BY <1>1 DEF FreeViews
            <7>2. FreeViews(slots) \in SUBSET (1..n)
              BY <1>1 DEF FreeViews
            <7>8. IsFiniteSet(1..n)
              BY <1>1, FS_Interval
            <7>3. IsFiniteSet(FreeViews(slots))
              BY <7>2, <7>8, FS_Subset
            <7>4. Cardinality(FreeViews(slots)) \in Nat /\ Cardinality(FreeViews(slots)) # 0
              BY <5>2, <7>3, FS_CardinalityType, FS_EmptySet
            <7>5. PICK v \in FreeViews(slots) : RankIn(FreeViews(slots), v) = 0
              BY <7>1, <7>3, <7>4, RankOnto
            <7>6. ASSUME NEW u \in FreeViews(slots), u < v PROVE FALSE
              <8>1. RankIn(FreeViews(slots), u) < RankIn(FreeViews(slots), v)
                BY <7>1, <7>3, <7>6, RankStrict
              <8>2. RankIn(FreeViews(slots), u) \in Nat
                BY <7>1, <7>3, RankBounded
              <8> QED BY <7>5, <8>1, <8>2
            <7> QED BY <7>1, <7>6
          <6>2. v \in 1..n /\ slots'[v] = i
            BY <1>1, <3>1, <6>1 DEF FreeViews, PlaceFirstFree
          <6>3. ASSUME NEW s \in Waiting(slots', enabled') PROVE FALSE
            <7>1. s \in 1..m /\ enabled'[s] /\ \A w \in 1..n : slots'[w] # s
              BY <1>1, <3>3 DEF Waiting
            <7>2. s # i /\ enabled[s]
              BY <1>2, <6>2, <7>1
            <7>3. \A w \in 1..n : slots[w] # s
              BY <1>1, <3>4, <7>1
            <7>4. s \in Waiting(slots, enabled)
              BY <1>1, <7>1, <7>2, <7>3 DEF Waiting
            <7> QED BY <4>1, <7>4
          <6> QED BY <6>3 DEF Full
        <5> QED BY <5>1, <5>2
      <4>2. CASE FreeViews(slots) = {}
        <5>1. FreeViews(slots') = {}
          BY <1>1, <3>3, <3>4, <4>2 DEF FreeViews
        <5> QED BY <5>1 DEF Full
      <4> QED BY <1>3, <4>1, <4>2 DEF Full
    <3> QED BY <3>3, <3>5, <3>6
  <2> QED BY <1>1, <2>1, <2>2
<1>5. Len(slots') = n
  BY <1>1, <1>4
<1>6. Len(tracks') = Len(workers')
  BY DEF ToggleSourceEnabled, UpdateViewMapping, IInv, TypeOK
<1>7. player' \in BOOLEAN
  BY Zenon DEF ToggleSourceEnabled, PlayerAfterToggle, IInv, TypeOK
<1>8. TypeOK'
  BY <1>1, <1>4, <1>5, <1>6, <1>7 DEF ToggleSourceEnabled, IInv, TypeOK, n, m
<1> QED
  BY <1>4, <1>5, <1>8 DEF IInv, SlotsInv, n

(* Every operation of the list keeps the assignment maximal.                *)
LEMMA NextStep == IInv /\ [Next]_vars => IInv'
<1> SUFFICES ASSUME IInv, [Next]_vars PROVE IInv'
  OBVIOUS
<1> DEFINE Editing == /\ enabled' \in Seq(BOOLEAN) /\ sources' \in Seq(1..MaxSources)
                      /\ Len(enabled') = Len(sources') /\ created' \in 0..MaxSources
<1>1. ASSUME NEW n \in 1..MaxViews, Editing, SyncActiveStreams(enabled', n),
             shifted' \subseteq DOMAIN workers, UNCHANGED <<recording, workers, layout>>
      PROVE  IInv'
  <2>1. /\ Len(slots') = n /\ slots' \in [1..n -> 0..Len(enabled')]
        /\ SlotsInv' /\ Len(tracks') = Len(workers) /\ player' \in BOOLEAN
    BY <1>1, SyncStep
  <2>2. TypeOK'
    BY <1>1, <2>1 DEF IInv, TypeOK
  <2> QED BY <2>1, <2>2 DEF IInv
<1>2. Len(slots) \in 1..MaxViews
  BY DEF IInv, TypeOK
<1>3. CASE AddStream
  <2>1. Editing
    BY <1>3, RoutingAssumption DEF AddStream, IInv, TypeOK
  <2>2. shifted' \subseteq DOMAIN workers
    BY <1>3 DEF AddStream, IInv, TypeOK
  <2> QED BY <1>1, <1>2, <1>3, <2>1, <2>2 DEF AddStream
<1>4. ASSUME NEW i \in DOMAIN sources, RemoveStream(i) PROVE IInv'
  <2>1. enabled' \in Seq(BOOLEAN) /\ Len(enabled') = Len(enabled) - 1
    BY <1>4, RemoveAtType DEF RemoveStream, IInv, TypeOK
  <2>2. sources' \in Seq(1..MaxSources) /\ Len(sources') = Len(sources) - 1
    BY <1>4, RemoveAtType DEF RemoveStream, IInv, TypeOK
  <2>3. Editing
    BY <1>4, <2>1, <2>2 DEF RemoveStream, IInv, TypeOK
  <2>4. shifted' \subseteq DOMAIN workers
    BY <1>4 DEF RemoveStream, IInv, TypeOK
  <2> QED BY <1>1, <1>2, <1>4, <2>3, <2>4 DEF RemoveStream
<1>5. ASSUME NEW i \in DOMAIN sources, ToggleSourceEnabled(i) PROVE IInv'
  BY <1>5, ToggleStep
<1>6. ASSUME NEW i \in DOMAIN sources, UpdateUrl(i) PROVE IInv'
  <2>1. workers' \in Seq(1..MaxSources) /\ Len(workers') = Len(workers)
    <3> DEFINE Ids == 1..MaxSources
    <3>0. sources \in Seq(Ids) /\ workers \in Seq(Ids)
      BY DEF IInv, TypeOK
    <3> HIDE DEF Ids
    <3>1. sources[i] \in Ids /\ workers \in Seq(Ids)
      BY <1>6, <3>0
    <3>2. CASE recording /\ i \in DOMAIN workers
      <4>1. workers' = [workers EXCEPT ![i] = sources[i]]
        BY <1>6, <3>2 DEF UpdateUrl, UpdateSourceUrl
      <4>2. workers' \in Seq(Ids) /\ Len(workers') = Len(workers)
        <5>1. Len(workers) \in Nat /\ workers \in [1..Len(workers) -> Ids]
          BY <3>1
        <5>2. workers' \in [1..Len(workers) -> Ids]
          BY <3>1, <4>1, <5>1
        <5> QED BY <5>1, <5>2
      <4> QED BY <4>2 DEF Ids
    <3>3. CASE ~(recording /\ i \in DOMAIN workers)
      BY <1>6, <3>1, <3>3 DEF UpdateUrl, UpdateSourceUrl, Ids
    <3> QED BY <3>2, <3>3
  <2>2. UNCHANGED <<sources, enabled, slots, created, recording, tracks, layout, player>>
    BY <1>6 DEF UpdateUrl, ui
  <2>3. shifted' \subseteq DOMAIN workers'
    <3>1. shifted' \subseteq shifted /\ shifted \subseteq DOMAIN workers
      BY <1>6 DEF UpdateUrl, IInv, TypeOK
    <3>2. DOMAIN workers' = DOMAIN workers
      BY <2>1 DEF IInv, TypeOK
    <3> QED BY <3>1, <3>2
  <2> QED BY <2>1, <2>2, <2>3 DEF IInv, TypeOK, SlotsInv
<1>7. ASSUME NEW n \in 1..MaxViews, SetMultiviewCount(n) PROVE IInv'
  <2>1. Editing
    BY <1>7 DEF SetMultiviewCount, IInv, TypeOK
  <2>2. shifted' \subseteq DOMAIN workers
    BY <1>7 DEF SetMultiviewCount, IInv, TypeOK
  <2> QED BY <1>1, <1>7, <2>1, <2>2 DEF SetMultiviewCount
<1>8. ASSUME NEW k \in 0..2, ApplyImportPreview(k) PROVE IInv'
  <2>1. Editing
    BY <1>8, RoutingAssumption DEF ApplyImportPreview, IInv, TypeOK
  <2>2. shifted' \subseteq DOMAIN workers
    BY <1>8 DEF ApplyImportPreview, IInv, TypeOK
  <2> QED BY <1>1, <1>2, <1>8, <2>1, <2>2 DEF ApplyImportPreview
<1>9. CASE StartRecording
  <2>1. UNCHANGED <<sources, enabled, slots, created>>
    BY <1>9 DEF StartRecording, ui
  <2>2. workers' \in Seq(1..MaxSources) /\ Len(tracks') = Len(workers')
    BY <1>9 DEF StartRecording, IInv, TypeOK
  <2>3. layout' \in 0..MaxViews
    BY <1>2, <1>9, RoutingAssumption DEF StartRecording
  <2>4. recording' \in BOOLEAN /\ player' \in BOOLEAN
    BY <1>9, Zenon DEF StartRecording
  <2>5. shifted' \subseteq DOMAIN workers'
    BY <1>9 DEF StartRecording
  <2> QED BY <2>1, <2>2, <2>3, <2>4, <2>5 DEF IInv, TypeOK, SlotsInv
<1>10. CASE StopRecording
  <2>1. UNCHANGED <<sources, enabled, slots, created>>
    BY <1>10 DEF StopRecording, ui
  <2>2. workers' \in Seq(1..MaxSources) /\ Len(tracks') = Len(workers') /\ layout' \in 0..MaxViews
    BY <1>10, RoutingAssumption DEF StopRecording
  <2>3. recording' \in BOOLEAN /\ player' \in BOOLEAN
    BY <1>10, Zenon DEF StopRecording
  <2>4. shifted' \subseteq DOMAIN workers'
    BY <1>10 DEF StopRecording
  <2> QED BY <2>1, <2>2, <2>3, <2>4 DEF IInv, TypeOK, SlotsInv
<1>11. CASE UNCHANGED vars
  BY <1>11 DEF vars, IInv, TypeOK, SlotsInv
<1> QED
  BY <1>3, <1>4, <1>5, <1>6, <1>7, <1>8, <1>9, <1>10, <1>11 DEF Next

(* The list, the map and the mapping fit each other in every reachable      *)
(* state, and the map is an assignment nothing can be added to.             *)
THEOREM Invariance == Spec => []IInv
<1>1. Init => IInv
  BY InitIInv
<1>2. IInv /\ [Next]_vars => IInv'
  BY NextStep
<1> QED
  BY <1>1, <1>2, PTL DEF Spec

(* No source is shown in two views, no view shows a disabled source and no  *)
(* enabled source waits while a view is blue, for any number of sources and *)
(* views and whoever edits the list.                                        *)
THEOREM MaximalAssignment == Spec => []SlotMapIsMaximal
<1>1. IInv => OneViewPerSource
  BY DEF IInv, SlotsInv, Fits, OneViewPerSource, Views
<1>2. IInv => NoSourceWaitsForAFreeView
  BY DEF IInv, SlotsInv, Full, NoSourceWaitsForAFreeView
<1> QED
  BY <1>1, <1>2, Invariance, PTL DEF SlotMapIsMaximal

-----------------------------------------------------------------------------
(* An operation on the list during a recording reaches the tracks through   *)
(* the map, and the sources in front of a removed one keep their index.     *)
LEMMA SyncKeepsTracks ==
  ASSUME NEW on, NEW n, SyncActiveStreams(on, n), workers' = workers
  PROVE  tracks' = [w \in DOMAIN workers' |-> TrackOf(slots', w)]
BY DEF SyncActiveStreams, UpdateViewMapping

LEMMA RemoveAtKeepsFront ==
  ASSUME NEW S, NEW s \in Seq(S), NEW i \in DOMAIN s, NEW w \in DOMAIN s, w < i
  PROVE  w \in DOMAIN RemoveAt(s, i) /\ RemoveAt(s, i)[w] = s[w]
BY DEF RemoveAt

(* The engine: each worker writes the track the map gives its index, and    *)
(* those that no removal has shifted capture the source at their index.     *)
LEMMA EngineStep ==
  ASSUME IInv, EngineInv, [Next]_vars
  PROVE  EngineInv'
<1> DEFINE Ids == 1..MaxSources
<1>0. /\ sources \in Seq(Ids) /\ workers \in Seq(Ids) /\ shifted \subseteq DOMAIN workers
      /\ \A w \in DOMAIN workers \ shifted : w \in DOMAIN sources /\ workers[w] = sources[w]
      /\ DOMAIN workers \subseteq Nat
  <2>1. sources \in Seq(Ids) /\ workers \in Seq(Ids)
    BY DEF IInv, TypeOK
  <2>2. shifted \subseteq DOMAIN workers
    BY DEF IInv, TypeOK
  <2>3. \A w \in DOMAIN workers \ shifted : w \in DOMAIN sources /\ workers[w] = sources[w]
    BY DEF EngineInv
  <2> HIDE DEF Ids
  <2>4. DOMAIN workers \subseteq Nat
    BY <2>1
  <2> QED BY <2>1, <2>2, <2>3, <2>4
<1> HIDE DEF Ids
<1>1. CASE AddStream
  <2>1. /\ workers' = workers /\ recording' = recording /\ layout' = layout /\ shifted' = shifted
        /\ sources' = Append(sources, created + 1)
        /\ SyncActiveStreams(enabled', Len(slots))
    BY <1>1 DEF AddStream
  <2>2. tracks' = [w \in DOMAIN workers' |-> TrackOf(slots', w)]
    BY <2>1, SyncKeepsTracks
  <2>3. \A w \in DOMAIN sources : w \in DOMAIN sources' /\ sources'[w] = sources[w]
    BY <1>0, <2>1
  <2>4. \A w \in DOMAIN workers' \ shifted' : w \in DOMAIN sources' /\ workers'[w] = sources'[w]
    BY <1>0, <2>1, <2>3
  <2>5. Len(slots') = Len(slots)
    BY <1>1, NextStep, SyncStep DEF AddStream, IInv, TypeOK, Next
  <2> QED BY <2>1, <2>2, <2>4, <2>5 DEF EngineInv
<1>2. ASSUME NEW i \in DOMAIN sources, RemoveStream(i) PROVE EngineInv'
  <2>1. /\ workers' = workers /\ recording' = recording /\ layout' = layout
        /\ shifted' = shifted \cup {w \in DOMAIN workers : w >= i}
        /\ sources' = RemoveAt(sources, i)
        /\ SyncActiveStreams(enabled', Len(slots))
    BY <1>2 DEF RemoveStream
  <2>2. tracks' = [w \in DOMAIN workers' |-> TrackOf(slots', w)]
    BY <2>1, SyncKeepsTracks
  <2>3. ASSUME NEW w \in DOMAIN workers' \ shifted'
        PROVE  w \in DOMAIN sources' /\ workers'[w] = sources'[w]
    <3>1. w \in DOMAIN workers \ shifted /\ ~(w >= i) /\ w \in Nat
      BY <1>0, <2>1, <2>3
    <3>2. w \in DOMAIN sources /\ workers[w] = sources[w]
      BY <1>0, <3>1
    <3>3. i \in Nat
      BY <1>0, <1>2
    <3>4. w < i
      BY <3>1, <3>3
    <3> QED BY <1>0, <1>2, <2>1, <3>2, <3>4, RemoveAtKeepsFront
  <2>4. enabled' \in Seq(BOOLEAN)
    BY <1>2, RemoveAtType DEF RemoveStream, IInv, TypeOK
  <2>5. Len(slots') = Len(slots)
    BY <2>1, <2>4, SyncStep DEF IInv, TypeOK
  <2> QED BY <2>1, <2>2, <2>3, <2>5 DEF EngineInv
<1>3. ASSUME NEW i \in DOMAIN sources, ToggleSourceEnabled(i) PROVE EngineInv'
  <2>1. /\ UNCHANGED <<sources, recording, workers, layout, shifted>>
        /\ tracks' = [w \in DOMAIN workers |-> TrackOf(slots', w)]
    BY <1>3 DEF ToggleSourceEnabled, UpdateViewMapping
  <2>2. Len(slots') = Len(slots)
    BY <1>3, ToggleStep
  <2> QED BY <2>1, <2>2 DEF EngineInv
<1>4. ASSUME NEW i \in DOMAIN sources, UpdateUrl(i) PROVE EngineInv'
  <2>1. /\ UNCHANGED <<sources, slots, recording, tracks, layout>>
        /\ shifted' = shifted \ {i}
    BY <1>4 DEF UpdateUrl, ui
  <2>2. CASE recording /\ i \in DOMAIN workers
    <3>1. workers' = [workers EXCEPT ![i] = sources[i]]
      BY <1>4, <2>2 DEF UpdateUrl, UpdateSourceUrl
    <3>2. DOMAIN workers' = DOMAIN workers /\ workers'[i] = sources[i]
          /\ \A w \in DOMAIN workers : w # i => workers'[w] = workers[w]
      BY <1>0, <2>2, <3>1
    <3>3. \A w \in DOMAIN workers' \ shifted' : w \in DOMAIN sources' /\ workers'[w] = sources'[w]
      BY <1>0, <1>4, <2>1, <3>2
    <3> QED BY <2>1, <2>2, <3>2, <3>3 DEF EngineInv
  <2>3. CASE ~(recording /\ i \in DOMAIN workers)
    <3>1. workers' = workers
      BY <1>4, <2>3 DEF UpdateUrl, UpdateSourceUrl
    <3>2. i \notin DOMAIN workers
      BY <2>3 DEF EngineInv
    <3>3. \A w \in DOMAIN workers' \ shifted' : w \in DOMAIN sources' /\ workers'[w] = sources'[w]
      BY <1>0, <2>1, <3>1, <3>2
    <3> QED BY <2>1, <3>1, <3>3 DEF EngineInv
  <2> QED BY <2>2, <2>3
<1>5. CASE \/ \E n \in 1..MaxViews : SetMultiviewCount(n)
           \/ \E k \in 0..2 : ApplyImportPreview(k)
  <2>1. ~recording /\ ~recording' /\ workers' = workers
    BY <1>5 DEF SetMultiviewCount, MayResize, ApplyImportPreview
  <2>2. workers = <<>>
    BY <2>1 DEF EngineInv
  <2>3. PICK on, n : SyncActiveStreams(on, n)
    BY <1>5 DEF SetMultiviewCount, ApplyImportPreview
  <2>4. tracks' = [w \in DOMAIN workers' |-> TrackOf(slots', w)]
    BY <2>1, <2>3, SyncKeepsTracks
  <2> QED BY <2>1, <2>2, <2>4 DEF EngineInv
<1>6. CASE StartRecording
  BY <1>6 DEF StartRecording, EngineInv, ui
<1>7. CASE StopRecording
  BY <1>7 DEF StopRecording, EngineInv
<1>8. CASE UNCHANGED vars
  BY <1>8 DEF vars, EngineInv
<1> QED
  BY <1>1, <1>2, <1>3, <1>4, <1>5, <1>6, <1>7, <1>8 DEF Next

(* What the engine's half of the invariant says about the file.             *)
LEMMA EngineMeansRouting ==
  ASSUME IInv, EngineInv
  PROVE  EveryTrackHasOneWriter /\ ViewRecordsItsSource
<1> SUFFICES ASSUME recording PROVE EveryTrackHasOneWriter /\ ViewRecordsItsSource
  BY DEF EveryTrackHasOneWriter, ViewRecordsItsSource
<1> DEFINE n == Len(slots)
           k == Len(workers)
           m == Len(sources)
<1>1. /\ n \in Nat /\ m \in Nat /\ k \in Nat /\ slots \in [1..n -> 0..m]
      /\ DOMAIN sources = 1..m /\ DOMAIN workers = 1..k /\ Fits(slots, enabled)
  BY RoutingAssumption DEF IInv, TypeOK, SlotsInv
<1>2. layout = n /\ tracks = [w \in 1..k |-> TrackOf(slots, w)]
  BY <1>1 DEF EngineInv
<1> HIDE DEF n, m, k
<1>3. ASSUME NEW v \in 1..n, NEW w \in 1..k PROVE tracks[w] = v <=> slots[v] = w
  <2> DEFINE mine == {u \in DOMAIN slots : slots[u] = w}
  <2>1. tracks[w] = IF mine = {} THEN 0 ELSE CHOOSE u \in mine : \A x \in mine : x <= u
    BY <1>2 DEF TrackOf
  <2>2. ASSUME slots[v] = w PROVE tracks[w] = v
    <3>1. mine = {v}
      BY <1>1, <1>3, <2>2 DEF Fits
    <3> HIDE DEF mine
    <3>2. tracks[w] \in {v}
      BY <1>3, <2>1, <3>1
    <3> QED BY <3>2
  <2>3. ASSUME slots[v] # w PROVE tracks[w] # v
    <3>1. v \notin mine
      BY <2>3
    <3>2. CASE mine = {}
      BY <1>3, <2>1, <3>2
    <3>3. CASE mine # {}
      <4>1. PICK u \in mine : TRUE
        BY <3>3
      <4>2. u \in 1..n /\ slots[u] = w
        BY <1>1, <4>1
      <4>3. mine = {u}
        BY <1>1, <1>3, <4>2 DEF Fits
      <4> HIDE DEF mine
      <4>4. tracks[w] \in {u}
        BY <2>1, <4>2, <4>3
      <4> QED BY <3>1, <4>3, <4>4
    <3> QED BY <3>2, <3>3
  <2> QED BY <2>2, <2>3
<1>4. ASSUME NEW v \in 1..n
      PROVE  Cardinality(WritersOf(v)) = IF HasNoWorker(v) THEN 0 ELSE 1
  <2>0. v \in Views /\ DOMAIN tracks = 1..k /\ (HasNoWorker(v) <=> slots[v] > k)
    BY <1>1, <1>2 DEF Views, HasNoWorker, k
  <2>1. CASE slots[v] = 0
    <3>1. \A w \in 1..k : tracks[w] # v
      BY <1>3, <2>1
    <3>2. WritersOf(v) = {0}
      BY <2>0, <2>1, <3>1 DEF WritersOf
    <3>3. ~HasNoWorker(v)
      BY <1>1, <2>0, <2>1
    <3> QED BY <3>2, <3>3, FS_Singleton
  <2>2. CASE slots[v] \in 1..k
    <3>1. \A w \in 1..k : tracks[w] = v <=> slots[v] = w
      BY <1>3
    <3>2. WritersOf(v) = {slots[v]}
      BY <1>1, <2>0, <2>2, <3>1 DEF WritersOf
    <3>3. ~HasNoWorker(v)
      BY <1>1, <2>0, <2>2
    <3> QED BY <3>2, <3>3, FS_Singleton
  <2>3. CASE slots[v] > k
    <3>1. \A w \in 1..k : tracks[w] # v
      BY <1>1, <1>3, <2>3
    <3>2. WritersOf(v) = {}
      BY <1>1, <2>0, <2>3, <3>1 DEF WritersOf
    <3>3. HasNoWorker(v)
      BY <2>0, <2>3
    <3> QED BY <3>2, <3>3, FS_EmptySet
  <2> QED BY <1>1, <2>1, <2>2, <2>3
<1>5. EveryTrackHasOneWriter
  BY <1>2, <1>4 DEF EveryTrackHasOneWriter
<1>6. ASSUME NEW v \in Views, slots[v] \in DOMAIN workers \ shifted
      PROVE  \E w \in DOMAIN tracks : tracks[w] = v /\ workers[w] = Shown(v)
  <2>1. v \in 1..n /\ slots[v] \in 1..k /\ slots[v] # 0
    BY <1>1, <1>6 DEF Views
  <2>2. tracks[slots[v]] = v
    BY <1>3, <2>1
  <2>3. workers[slots[v]] = sources[slots[v]]
    BY <1>6 DEF EngineInv
  <2> QED BY <1>2, <2>1, <2>2, <2>3 DEF Shown
<1>7. ViewRecordsItsSource
  BY <1>6 DEF ViewRecordsItsSource
<1> QED
  BY <1>5, <1>7

(* No recording, no workers.                                                *)
LEMMA InitEngine == Init => EngineInv
BY DEF Init, EngineInv

(* The engine's half of the invariant holds in every reachable state.       *)
THEOREM EngineFollows == Spec => [](IInv /\ EngineInv)
<1>1. Init => IInv /\ EngineInv
  BY InitIInv, InitEngine
<1>2. IInv /\ EngineInv /\ [Next]_vars => IInv' /\ EngineInv'
  BY NextStep, EngineStep
<1> QED
  BY <1>1, <1>2, PTL DEF Spec

(* Whoever edits the list while a recording runs, no track has two writers, *)
(* and it has one unless its view shows a source added since the start, for *)
(* any number of sources and views.                                         *)
THEOREM TracksAreWritten == Spec => []EveryTrackHasOneWriter
<1>1. IInv /\ EngineInv => EveryTrackHasOneWriter
  BY EngineMeansRouting
<1> QED
  BY <1>1, EngineFollows, PTL

(* What a track records is the source its view shows, but for the workers   *)
(* that a removal has shifted and whose URL was not set since.              *)
THEOREM TracksAreTrue == Spec => []ViewRecordsItsSource
<1>1. IInv /\ EngineInv => ViewRecordsItsSource
  BY EngineMeansRouting
<1> QED
  BY <1>1, EngineFollows, PTL

-----------------------------------------------------------------------------
(* The least and the largest element of a set of integers: Min and Max are  *)
(* choices, that there is something to choose is that < is well-founded.    *)
LEMMA LeastNatural ==
  ASSUME NEW T, T \subseteq Nat, T # {}
  PROVE  \E x \in T : \A y \in T : x <= y
<1>1. PICK x \in T : \A y \in T : ~(<<y, x>> \in OpToRel(<, Nat))
  BY NatLessThanWellFounded, WFMin
<1>2. \A y \in T : ~(y < x)
  BY <1>1 DEF OpToRel
<1> QED BY <1>2

LEMMA LargestNatural ==
  ASSUME NEW T, T \subseteq Nat, T # {}, NEW n \in Nat, \A x \in T : x <= n
  PROVE  /\ Max(T) \in T /\ \A x \in T : x <= Max(T)
         /\ Shows!Max(T) = Max(T)
<1> DEFINE Rests == {n - x : x \in T}
<1>1. Rests \subseteq Nat /\ Rests # {}
  <2>1. ASSUME NEW x \in T PROVE n - x \in Nat OBVIOUS
  <2> QED BY <2>1
<1>2. PICK d \in Rests : \A e \in Rests : d <= e
  BY <1>1, LeastNatural
<1>3. PICK m \in T : d = n - m
  OBVIOUS
<1>4. \A x \in T : m >= x
  BY <1>2, <1>3
<1>5. Max(T) \in T /\ \A x \in T : Max(T) >= x
  BY <1>4 DEF Max
<1>6. Shows!Max(T) = Max(T) BY DEF Shows!Max, Max
<1> QED BY <1>5, <1>6

-----------------------------------------------------------------------------
(* Telemetry.  What the client has read is a sequence of events, because    *)
(* the places of the events in the buffer are finitely many.                *)
LEMMA ShowsCardinality == \A S : Shows!Cardinality(S) = Cardinality(S)
BY DEF Shows!Cardinality, Cardinality

LEMMA PickedCount ==
  ASSUME NEW s, NEW n \in Nat, NEW places, places \subseteq 1 .. n
  PROVE  \E m \in Nat : DOMAIN Shows!Picked(s, places) = 1 .. m
<1>1. IsFiniteSet(places) /\ Cardinality(places) \in Nat
  <2>1. IsFiniteSet(1 .. n) BY FS_Interval
  <2> QED BY <2>1, FS_Subset, FS_CardinalityType
<1>2. DOMAIN Shows!Picked(s, places) = 1 .. Cardinality(places)
  BY ShowsCardinality DEF Shows!Picked
<1> QED BY <1>1, <1>2

LEMMA OwnRange ==
  ASSUME NEW f, NEW n \in Nat, f = [k \in 1 .. n |-> f[k]]
  PROVE  f \in Seq(Range(f)) /\ Len(f) = n
<1>1. \A k \in 1 .. n : f[k] \in Range(f) BY DEF Range
<1> DEFINE R == Range(f)
<1> HIDE DEF R
<1>2. [k \in 1 .. n |-> f[k]] \in Seq(R) BY <1>1 DEF R
<1>3. [k \in 1 .. n |-> f[k]] \in [1 .. n -> R] BY <1>1 DEF R
<1>4. Len(f) = n BY <1>2, <1>3, LenProperties
<1> QED BY <1>2, <1>4 DEF R

LEMMA JoinedRange ==
  ASSUME NEW s, NEW t, s \in Seq(Range(s)), t \in Seq(Range(t))
  PROVE  s \o t \in Seq(Range(s \o t)) /\ Len(s \o t) = Len(s) + Len(t)
         /\ \A k \in 1 .. Len(s) : (s \o t)[k] = s[k]
<1> DEFINE R == Range(s) \cup Range(t)
<1>1. s \in Seq(R) /\ t \in Seq(R)
  BY SeqMonotonic
<1> HIDE DEF R
<1>2. s \o t \in Seq(R)
  BY <1>1, ConcatProperties
<1>3. Len(s \o t) = Len(s) + Len(t) /\ \A k \in 1 .. Len(s) : (s \o t)[k] = s[k]
  BY <1>1, ConcatProperties, LenProperties
<1> QED BY <1>2, <1>3, SeqOfRange

ShowsInv ==
  /\ stream \in Seq(Range(stream)) /\ buffer \in Seq(Range(buffer)) /\ log \in Seq(Range(log))
  /\ written \in 0 .. Len(log) /\ logging \in BOOLEAN /\ loaded \in BOOLEAN
  /\ ~logging => request = "none"
  /\ (logging \/ heard # <<>>) => heard = log
  /\ loaded => \E n \in 0 .. Len(log) : timeline = SubSeq(log, 1, n)
  /\ (loaded /\ ~logging /\ heard # <<>>) => timeline = log

LEMMA ShowsStart == Shows!Init => ShowsInv
<1> SUFFICES ASSUME Shows!Init PROVE ShowsInv OBVIOUS
<1>1. <<>> \in Seq(Range(<<>>)) /\ Len(<<>>) = 0
  BY SeqOfRange, EmptySeq
<1>2. 0 \in 0 .. Len(<<>>) BY <1>1
<1> QED BY <1>1, <1>2 DEF Shows!Init, ShowsInv

(* What is read off the wire leaves sequences.                              *)
LEMMA PushedParts ==
  ASSUME ShowsInv, NEW n \in 1 .. Len(stream)
  PROVE  LET pushed == Shows!Push(SubSeq(stream, 1, n))
         IN /\ SubSeq(stream, n + 1, Len(stream)) \in Seq(Range(SubSeq(stream, n + 1, Len(stream))))
            /\ pushed.buffer \in Seq(Range(pushed.buffer))
            /\ \E m \in Nat : DOMAIN pushed.events = 1 .. m
<1> DEFINE chunk == SubSeq(stream, 1, n)
           after == SubSeq(stream, n + 1, Len(stream))
           parts == buffer \o chunk
           first == Shows!Begin(parts, Len(parts) + 1)
           blocks == Shows!Blocks(parts)
<1>1. stream \in Seq(Range(stream)) /\ Len(stream) \in Nat /\ n \in Nat /\ n <= Len(stream)
  BY LenProperties DEF ShowsInv
<1>2. chunk \in Seq(Range(stream)) /\ after \in Seq(Range(stream))
  BY <1>1, SubSeqProperties
<1>3. chunk \in Seq(Range(chunk)) /\ after \in Seq(Range(after))
  BY <1>2, SeqOfRange
<1> HIDE DEF chunk, after
<1>4. parts \in Seq(Range(parts))
  BY <1>3, JoinedRange DEF ShowsInv
<1> HIDE DEF parts
<1>5. Len(parts) \in Nat /\ DOMAIN parts = 1 .. Len(parts)
  BY <1>4, LenProperties
<1>6. first \in 1 .. Len(parts) + 1
  <2> DEFINE S == {0} \cup {i \in Shows!Ends(parts) : i < Len(parts) + 1}
  <2>1. S \subseteq Nat /\ S # {} /\ \A x \in S : x <= Len(parts)
    BY <1>5 DEF Shows!Ends
  <2>2. Max(S) \in S /\ Shows!Max(S) = Max(S)
    BY <2>1, <1>5, LargestNatural
  <2>3. first = 1 + Max(S)
    BY <2>2 DEF Shows!Begin
  <2> QED BY <2>1, <2>2, <2>3, <1>5
<1>7. Shows!Rest(parts) \in Seq(Range(Shows!Rest(parts)))
  <2>1. SubSeq(parts, first, Len(parts)) \in Seq(Range(parts))
    BY <1>4, <1>5, <1>6, SubSeqProperties
  <2> QED BY <2>1, SeqOfRange DEF Shows!Rest
<1>8. PICK m \in Nat : DOMAIN blocks = 1 .. m
  <2>1. Shows!Ends(parts) \subseteq 1 .. Len(parts)
    BY <1>5 DEF Shows!Ends
  <2> QED BY <2>1, <1>5, PickedCount DEF Shows!Blocks
<1> HIDE DEF blocks
<1> DEFINE heads == [k \in DOMAIN blocks |-> Head(blocks[k])]
           good == {k \in DOMAIN blocks : Shows!Parsed(blocks[k])}
<1>9. \E j \in Nat : DOMAIN Shows!Picked(heads, good) = 1 .. j
  BY <1>8, PickedCount
<1>10. \E j \in Nat : DOMAIN <<>> = 1 .. j /\ <<>> \in Seq(Range(<<>>))
  <2>1. DOMAIN <<>> = 1 .. 0 OBVIOUS
  <2>2. <<>> \in Seq(Range(<<>>)) BY SeqOfRange, EmptySeq
  <2> QED BY <2>1, <2>2
<1>11. Shows!Push(chunk) = IF Len(parts) > MaxBuffer THEN [buffer |-> <<>>, events |-> <<>>]
         ELSE [buffer |-> Shows!Rest(parts), events |-> Shows!Picked(heads, good)]
  BY DEF Shows!Push, parts, blocks
<1> DEFINE pushed == Shows!Push(chunk)
<1>12. pushed.buffer \in Seq(Range(pushed.buffer)) /\ \E j \in Nat : DOMAIN pushed.events = 1 .. j
  <2> HIDE DEF heads, good
  <2>1. CASE Len(parts) > MaxBuffer
    <3>1. pushed.buffer = <<>> /\ pushed.events = <<>> BY <1>11, <2>1
    <3> QED BY <3>1, <1>10
  <2>2. CASE ~(Len(parts) > MaxBuffer)
    <3>1. /\ pushed.buffer = Shows!Rest(parts)
          /\ pushed.events = Shows!Picked(heads, good)
      BY <1>11, <2>2
    <3> QED BY <3>1, <1>7, <1>9
  <2> QED BY <2>1, <2>2
<1> QED BY <1>3, <1>12 DEF chunk, after

LEMMA ShowsStep == ShowsInv /\ [Shows!Next]_Shows!vars => ShowsInv'
<1> SUFFICES ASSUME ShowsInv, [Shows!Next]_Shows!vars PROVE ShowsInv' OBVIOUS
<1> USE DEF ShowsInv, Shows!clientVars, Shows!fileVars, Shows!shownVars
<1>a. /\ <<>> \in Seq(Range(<<>>)) /\ Len(<<>>) = 0
      /\ Len(log) \in Nat
  BY SeqOfRange, EmptySeq, LenProperties
<1>1. CASE \E f \in Feeds \cup {Shows!Unusable, Shows!Unknown}, l \in Lengths : Shows!ServerSends(f, l)
  <2> PICK f \in Feeds \cup {Shows!Unusable, Shows!Unknown}, l \in Lengths : Shows!ServerSends(f, l)
    BY <1>1
  <2> DEFINE event == [p \in 1 .. l |-> [id |-> sent + 1, feed |-> f, part |-> p, last |-> p = l]]
  <2>1. l \in Nat BY MCAssumption DEF Shows!TelemetryAssumption
  <2>2. event \in Seq(Range(event)) BY <2>1, OwnRange
  <2>3. stream' = stream \o event BY DEF Shows!ServerSends
  <2> HIDE DEF event
  <2>4. stream' \in Seq(Range(stream')) BY <2>2, <2>3, JoinedRange
  <2> QED BY <2>4 DEF Shows!ServerSends
<1>2. CASE Shows!Tick BY <1>2 DEF Shows!Tick
<1>3. CASE Shows!MuxerWrites BY <1>3, <1>a DEF Shows!MuxerWrites
<1>4. CASE Shows!OnReadyRead
  <2> PICK n \in 1 .. Len(stream) :
        LET pushed == Shows!Push(SubSeq(stream, 1, n))
        IN /\ stream' = SubSeq(stream, n + 1, Len(stream))
           /\ buffer' = pushed.buffer
           /\ Shows!Record(pushed.events)
    BY <1>4 DEF Shows!OnReadyRead
  <2> DEFINE pushed == Shows!Push(SubSeq(stream, 1, n))
  <2>1. /\ stream' \in Seq(Range(stream')) /\ buffer' \in Seq(Range(buffer'))
        /\ \E m \in Nat : DOMAIN pushed.events = 1 .. m
    BY PushedParts
  <2>2. UNCHANGED <<logging, sessionTime, written, sent>> /\ request # "none" /\ request' = "connected"
    BY <1>4 DEF Shows!OnReadyRead
  <2> DEFINE events == pushed.events
             known == Shows!Picked(events, {k \in DOMAIN events : events[k].feed \in Feeds})
             entries == [k \in DOMAIN known |-> [feed |-> known[k].feed,
                           at |-> sessionTime + Delay[known[k].feed], value |-> known[k].id]]
  <2>3. \/ /\ logging /\ log' = log \o entries /\ heard' = heard \o entries
           /\ Shows!Load(log, written)
        \/ UNCHANGED <<log, heard, timeline, loaded>>
    BY DEF Shows!Record
  <2>4. CASE UNCHANGED <<log, heard, timeline, loaded>>
    BY <2>1, <2>2, <2>4
  <2>5. CASE /\ logging /\ log' = log \o entries /\ heard' = heard \o entries
             /\ Shows!Load(log, written)
    <3>1. PICK m \in Nat : DOMAIN known = 1 .. m
      BY <2>1, PickedCount
    <3> HIDE DEF known
    <3>2. entries \in Seq(Range(entries)) BY <3>1, OwnRange
    <3> HIDE DEF entries
    <3>3. /\ log \o entries \in Seq(Range(log \o entries))
          /\ Len(log \o entries) = Len(log) + Len(entries) /\ Len(entries) \in Nat
          /\ \A k \in 1 .. Len(log) : (log \o entries)[k] = log[k]
      BY <3>2, JoinedRange, LenProperties
    <3>4. log' \in Seq(Range(log')) /\ Len(log') \in Nat /\ Len(log') >= Len(log)
      BY <3>3, <2>5, <1>a
    <3>5. written \in 0 .. Len(log)' /\ written \in Nat /\ written <= Len(log)
      BY <3>4, <1>a
    <3>6. SubSeq(log, 1, written) = SubSeq(log', 1, written)
      <4> DEFINE R == Range(log) \cup Range(log')
      <4>1. \A k \in 1 .. written : log'[k] = log[k] /\ log[k] \in R /\ log'[k] \in R
        BY <3>3, <3>5, <2>5, <1>a DEF Range
      <4> HIDE DEF R
      <4>2. /\ SubSeq(log, 1, written) \in Seq(R) /\ SubSeq(log', 1, written) \in Seq(R)
            /\ Len(SubSeq(log, 1, written)) = Len(SubSeq(log', 1, written))
            /\ Len(SubSeq(log, 1, written)) = written
            /\ \A k \in 1 .. written : SubSeq(log, 1, written)[k] = log[k]
            /\ \A k \in 1 .. written : SubSeq(log', 1, written)[k] = log'[k]
        BY <4>1, <3>5, SubSeqProperties
      <4> QED BY <4>1, <4>2, SeqEqual
    <3>7. loaded' => \E k \in 0 .. Len(log)' : timeline' = SubSeq(log', 1, k)
      BY <2>5, <3>5, <3>6 DEF Shows!Load
    <3>8. heard' = log' /\ logging' BY <2>2, <2>5
    <3>9. loaded' \in BOOLEAN BY <2>5 DEF Shows!Load
    <3> QED BY <2>1, <2>2, <3>4, <3>5, <3>7, <3>8, <3>9
  <2> QED BY <2>3, <2>4, <2>5
<1>5. CASE Shows!OnMetaDataChanged BY <1>5 DEF Shows!OnMetaDataChanged
<1>6. CASE Shows!OnFinished BY <1>6, <1>a DEF Shows!OnFinished
<1>7. CASE Shows!Start
  <2>1. CASE UNCHANGED <<request, stream, buffer, logging, sessionTime, log, written, newest, sent>>
    BY <1>7, <2>1 DEF Shows!Start
  <2>2. CASE /\ logging' = TRUE /\ log' = <<>> /\ written' = 0
             /\ stream' = <<>> /\ buffer' = <<>> /\ heard' = <<>> /\ loaded' = FALSE
    <3>1. 0 \in 0 .. Len(log)' BY <1>a, <2>2
    <3> QED BY <2>2, <1>a, <3>1
  <2> QED BY <1>7, <2>1, <2>2 DEF Shows!Start
<1>8. CASE Shows!Stop
  <2>1. SubSeq(log, 1, Len(log)) = log BY SubSeqFull
  <2>2. /\ logging /\ logging' = FALSE /\ request' = "none" /\ stream' = <<>>
        /\ written' = Len(log) /\ UNCHANGED <<buffer, log, heard>>
        /\ Shows!Load(log, Len(log))
    BY <1>8 DEF Shows!Stop
  <2>3. loaded' \in BOOLEAN /\ (loaded' => timeline' = log)
    BY <2>1, <2>2 DEF Shows!Load
  <2>4. Len(log) \in 0 .. Len(log) BY <1>a
  <2> QED BY <1>a, <2>1, <2>2, <2>3, <2>4
<1>9. CASE Shows!ApplyImport BY <1>9 DEF Shows!ApplyImport
<1>10. CASE UNCHANGED Shows!vars BY <1>10 DEF Shows!vars
<1> QED
  BY <1>1, <1>2, <1>3, <1>4, <1>5, <1>6, <1>7, <1>8, <1>9, <1>10 DEF Shows!Next

(* A file that lags behind shows no feed that the pending events do not.    *)
LEMMA PrefixShowsLess ==
  ASSUME NEW s, s \in Seq(Range(s)), NEW n \in 0 .. Len(s), NEW p
  PROVE  DOMAIN Shows!StateAt(SubSeq(s, 1, n), p) \subseteq DOMAIN Shows!StateAt(s, p)
<1> DEFINE file == SubSeq(s, 1, n)
<1>1. Len(s) \in Nat /\ DOMAIN s = 1 .. Len(s) /\ n \in Nat /\ n <= Len(s)
  BY LenProperties
<1>2. \A k \in 1 .. n : s[k] \in Range(s) BY <1>1 DEF Range
<1>3. file \in Seq(Range(s)) /\ Len(file) = n /\ \A k \in 1 .. n : file[k] = s[k]
  BY <1>1, <1>2, SubSeqProperties
<1>4. DOMAIN file = 1 .. n BY <1>3, LenProperties
<1> HIDE DEF file
<1>5. ASSUME NEW f, {k \in DOMAIN file : file[k].feed = f /\ file[k].at <= p} # {}
      PROVE  {k \in DOMAIN s : s[k].feed = f /\ s[k].at <= p} # {}
  BY <1>1, <1>3, <1>4, <1>5
<1>6. DOMAIN Shows!StateAt(file, p)
        = {f \in Feeds : {k \in DOMAIN file : file[k].feed = f /\ file[k].at <= p} # {}}
  BY DEF Shows!StateAt
<1>7. DOMAIN Shows!StateAt(s, p)
        = {f \in Feeds : {k \in DOMAIN s : s[k].feed = f /\ s[k].at <= p} # {}}
  BY DEF Shows!StateAt
<1> QED BY <1>5, <1>6, <1>7 DEF file

LEMMA OverLess ==
  ASSUME NEW s, NEW p, NEW g, DOMAIN g \subseteq DOMAIN Shows!StateAt(s, p)
  PROVE  Shows!Overlay(g, Shows!StateAt(s, p)) = Shows!StateAt(s, p)
<1> DEFINE f == Shows!StateAt(s, p)
<1>1. f = [x \in DOMAIN f |-> f[x]] BY DEF Shows!StateAt
<1> HIDE DEF f
<1>2. DOMAIN f \cup DOMAIN g = DOMAIN f BY DEF f
<1>3. Shows!Overlay(g, f) = [x \in DOMAIN f |-> f[x]] BY <1>2 DEF Shows!Overlay, Shows!Over
<1> QED BY <1>1, <1>3 DEF f

LEMMA ShowsTruth == ShowsInv => Shows!ShownIsLatest
<1> SUFFICES ASSUME ShowsInv, heard # <<>>, NEW p PROVE Shows!Shown(p) = Shows!StateAt(log, p)
  BY DEF Shows!ShownIsLatest
<1> DEFINE file == IF loaded THEN Shows!StateAt(timeline, p) ELSE Shows!NoState
           truth == Shows!StateAt(log, p)
           both == Shows!Overlay(file, truth)
<1>1. heard = log BY DEF ShowsInv
<1>2. DOMAIN file \subseteq DOMAIN truth
  <2>1. CASE loaded
    <3>1. PICK n \in 0 .. Len(log) : timeline = SubSeq(log, 1, n) BY <2>1 DEF ShowsInv
    <3>2. DOMAIN Shows!StateAt(timeline, p) \subseteq DOMAIN truth
      BY <3>1, PrefixShowsLess DEF ShowsInv
    <3> QED BY <2>1, <3>2
  <2>2. CASE ~loaded
    <3>1. file = Shows!NoState /\ DOMAIN Shows!NoState = {} BY <2>2 DEF Shows!NoState
    <3> QED BY <3>1
  <2> QED BY <2>1, <2>2
<1>3. both = truth BY <1>2, OverLess
<1>4. CASE logging /\ DOMAIN both # {}
  BY <1>1, <1>3, <1>4 DEF Shows!Shown
<1>5. CASE ~logging /\ loaded
  <2>1. file = truth BY <1>5 DEF ShowsInv
  <2>2. Shows!Shown(p) = file BY <1>5 DEF Shows!Shown
  <2> QED BY <2>1, <2>2
<1>6. CASE ~loaded /\ (~logging \/ DOMAIN both = {})
  BY <1>1, <1>6 DEF Shows!Shown
<1>7. CASE loaded /\ logging /\ DOMAIN both = {}
  <2>1. DOMAIN file = {} /\ DOMAIN truth = {} BY <1>2, <1>3, <1>7
  <2>2. file = [x \in DOMAIN file |-> file[x]] /\ truth = [x \in DOMAIN truth |-> truth[x]]
    BY <1>7 DEF Shows!StateAt
  <2> HIDE DEF file, truth
  <2>3. file = truth BY <2>1, <2>2
  <2>4. Shows!Shown(p) = file
    <3>1. ~(logging /\ DOMAIN Shows!Overlay(file, Shows!StateAt(heard, p)) # {})
      BY <1>1, <1>7 DEF truth
    <3> QED BY <3>1, <1>7 DEF Shows!Shown, file
  <2> QED BY <2>3, <2>4 DEF truth
<1> QED BY <1>4, <1>5, <1>6, <1>7 DEF ShowsInv

-----------------------------------------------------------------------------
(* The signals of the capture threads.  Place 0 stands for what the         *)
(* indicators show, the places of the queue for what they will be told.     *)
Says(i, p, up) ==
  IF p = 0 THEN i \in DOMAIN lamps /\ lamps[i] = up
  ELSE posted[p].kind = "connection" /\ posted[p].source = i /\ posted[p].up = up
Counted(i, p) ==
  IF p = 0 THEN i \in DOMAIN health /\ health[i].seen
  ELSE posted[p].kind = "stats" /\ posted[p].source = i
SocketAt(i, p) == IF p = 0 THEN health[i].last ELSE posted[p].socket

Ups(i) == {p \in 0 .. Len(posted) : Says(i, p, TRUE)}
Downs(i) == {p \in 0 .. Len(posted) : Says(i, p, FALSE)}
Counts(i) == {p \in 0 .. Len(posted) : Counted(i, p)}

Signals ==
  [kind : {"connection"}, source : Nat \ {0}, up : BOOLEAN]
    \cup [kind : {"stats"}, source : Nat \ {0}, socket : Nat]
Entries == [seen : BOOLEAN, last : Nat, judged : Nat \X Nat]
StudioTypes ==
  /\ posted \in Seq(Signals) /\ links \in Seq([up : BOOLEAN, socket : Nat])
  /\ lamps \in Seq(BOOLEAN) /\ health \in Seq(Entries)
  /\ listed \in Nat /\ onAir \in BOOLEAN /\ again \in BOOLEAN /\ (~onAir => links = <<>>)

(* Between two connections of a source it is reported lost, ...             *)
Alternates(i) ==
  /\ \A p \in Ups(i), q \in Ups(i) : p < q => \E r \in Downs(i) : p < r /\ r < q
  /\ (i \in DOMAIN links /\ ~links[i].up) => \A p \in Ups(i) : \E r \in Downs(i) : p < r

(* ... between the statistics of two sockets it is reported connected, ...  *)
StaysApart(i) ==
  /\ \A p \in Counts(i), q \in Counts(i) :
       p < q => SocketAt(i, p) = SocketAt(i, q) \/ \E r \in Ups(i) : p < r /\ r < q
  /\ (i \in DOMAIN links /\ links[i].up) =>
       \A p \in Counts(i) : SocketAt(i, p) = links[i].socket \/ \E r \in Ups(i) : p < r

(* ... and the last that is said of a link is how it is.                    *)
LastWord(i) ==
  (onAir /\ ~again /\ i \in DOMAIN links) =>
    /\ i \in DOMAIN lamps
    /\ \E p \in (IF links[i].up THEN Ups(i) ELSE Downs(i)) : \A q \in Ups(i) \cup Downs(i) : q <= p

StudioInv ==
  /\ StudioTypes /\ \A i \in Nat : Alternates(i) /\ StaysApart(i) /\ LastWord(i)
  /\ Studio!HealthIsOfOneSocket /\ Studio!PlaybackIsSafe /\ Studio!PreviewIsOfUrl

LEMMA LinkFacts ==
  ASSUME StudioTypes
  PROVE  \A i \in DOMAIN links : /\ i \in Nat \ {0} /\ links[i].up \in BOOLEAN /\ links[i].socket \in Nat
                                /\ links[i] = [up |-> links[i].up, socket |-> links[i].socket]
<1>1. links \in Seq([up : BOOLEAN, socket : Nat]) BY DEF StudioTypes
<1>2. DOMAIN links = 1 .. Len(links) /\ Len(links) \in Nat BY <1>1, LenProperties
<1>3. \A i \in 1 .. Len(links) : links[i] \in [up : BOOLEAN, socket : Nat] BY <1>1, ElementOfSeq
<1> QED BY <1>2, <1>3

LEMMA StudioTruth == StudioInv => Studio!IndicatorsSettle
<1> SUFFICES ASSUME StudioInv, onAir, posted = <<>>, ~again, NEW i \in DOMAIN links
             PROVE  i \in DOMAIN lamps /\ lamps[i] = links[i].up
  BY DEF Studio!IndicatorsSettle
<1>1. Len(posted) = 0 BY EmptySeq
<1>2. i \in Nat /\ links[i].up \in BOOLEAN BY LinkFacts DEF StudioInv
<1>3. \A p \in 0 .. Len(posted) : p = 0 BY <1>1
<1> QED BY <1>2, <1>3 DEF StudioInv, LastWord, Says, Ups, Downs

LEMMA StudioStart == Studio!Init => StudioInv
<1> SUFFICES ASSUME Studio!Init PROVE StudioInv OBVIOUS
<1> USE DEF Studio!Init
<1>1. /\ <<>> \in Seq(Signals) /\ <<>> \in Seq([up : BOOLEAN, socket : Nat])
      /\ <<>> \in Seq(BOOLEAN) /\ <<>> \in Seq(Entries)
      /\ Len(<<>>) = 0 /\ DOMAIN <<>> = {}
  BY EmptySeq
<1>2. StudioTypes BY <1>1 DEF StudioTypes
<1>3. \A i \in Nat : Alternates(i) /\ StaysApart(i) /\ LastWord(i)
  <2>1. \A i : Ups(i) = {} /\ Counts(i) = {}
    BY <1>1 DEF Says, Counted, Ups, Counts
  <2>2. DOMAIN links = {} BY <1>1
  <2> QED BY <2>1, <2>2 DEF Alternates, StaysApart, LastWord
<1>4. Studio!HealthIsOfOneSocket BY <1>1 DEF Studio!HealthIsOfOneSocket
<1>5. Studio!PlaybackIsSafe BY DEF Studio!PlaybackIsSafe, Studio!NoWorker
<1>6. Studio!PreviewIsOfUrl BY DEF Studio!PreviewIsOfUrl
<1> QED BY <1>2, <1>3, <1>4, <1>5, <1>6 DEF StudioInv
-----------------------------------------------------------------------------
(* A step that takes back what is shown, and perhaps the links, keeps all.  *)
LEMMA StudioQuieter ==
  ASSUME StudioTypes, NEW i \in Nat, Alternates(i), StaysApart(i), UNCHANGED posted,
         links' = links \/ links' = <<>>,
         Says(i, 0, TRUE)' => Says(i, 0, TRUE),
         Counted(i, 0)' => Counted(i, 0) /\ SocketAt(i, 0)' = SocketAt(i, 0)
  PROVE  Alternates(i)' /\ StaysApart(i)'
<1>1. Len(posted) \in Nat BY LenProperties DEF StudioTypes
<1>2. /\ Ups(i)' \subseteq Ups(i) /\ Ups(i) \subseteq Ups(i)' \cup {0}
      /\ Downs(i) \subseteq Downs(i)' \cup {0}
      /\ Counts(i)' \subseteq Counts(i)
      /\ \A p \in Counts(i)' : SocketAt(i, p)' = SocketAt(i, p)
  BY DEF Says, Counted, SocketAt, Ups, Downs, Counts
<1>3. i \in DOMAIN links' => i \in DOMAIN links /\ links'[i] = links[i]
  <2>1. DOMAIN <<>> = {} OBVIOUS
  <2> QED BY <2>1
<1>4. Ups(i) \subseteq Nat /\ Downs(i) \subseteq Nat /\ Counts(i) \subseteq Nat
  <2>1. 0 .. Len(posted) \subseteq Nat BY <1>1
  <2> QED BY <2>1 DEF Ups, Downs, Counts
<1>5. Alternates(i)' BY <1>2, <1>3, <1>4 DEF Alternates
<1>6. StaysApart(i)' BY <1>2, <1>3, <1>4 DEF StaysApart
<1> QED BY <1>5, <1>6

(* A signal is put behind the others.                                       *)
LEMMA StudioAppended ==
  ASSUME StudioTypes, NEW e \in Signals, posted' = Append(posted, e), UNCHANGED <<lamps, health>>,
         NEW i \in Nat, NEW n \in Nat, n = Len(posted) + 1
  PROVE  /\ posted' \in Seq(Signals)
         /\ Ups(i) \subseteq 0 .. n - 1 /\ Downs(i) \subseteq 0 .. n - 1 /\ Counts(i) \subseteq 0 .. n - 1
         /\ (e.kind = "connection" /\ e.source = i /\ e.up) =>
              Ups(i)' = Ups(i) \cup {n} /\ Downs(i)' = Downs(i) /\ Counts(i)' = Counts(i)
         /\ (e.kind = "connection" /\ e.source = i /\ ~e.up) =>
              Ups(i)' = Ups(i) /\ Downs(i)' = Downs(i) \cup {n} /\ Counts(i)' = Counts(i)
         /\ (e.kind = "stats" /\ e.source = i) =>
              Ups(i)' = Ups(i) /\ Downs(i)' = Downs(i) /\ Counts(i)' = Counts(i) \cup {n}
              /\ SocketAt(i, n)' = e.socket
         /\ (e.source # i) =>
              Ups(i)' = Ups(i) /\ Downs(i)' = Downs(i) /\ Counts(i)' = Counts(i)
         /\ \A p \in Counts(i) : SocketAt(i, p)' = SocketAt(i, p)
<1>1. /\ n # 0 /\ posted' \in Seq(Signals) /\ Len(posted') = n
      /\ \A p \in 1 .. n - 1 : posted'[p] = posted[p]
      /\ posted'[n] = e /\ Len(posted) = n - 1
  BY AppendProperties, LenProperties DEF StudioTypes
<1>2. /\ 0 .. Len(posted') = 0 .. n - 1 \cup {n} /\ n \notin 0 .. n - 1
      /\ 0 .. Len(posted) = 0 .. n - 1
  BY <1>1
<1>3. ASSUME NEW p \in 0 .. n - 1
      PROVE  /\ Says(i, p, TRUE)' <=> Says(i, p, TRUE)
             /\ Says(i, p, FALSE)' <=> Says(i, p, FALSE)
             /\ Counted(i, p)' <=> Counted(i, p)
             /\ SocketAt(i, p)' = SocketAt(i, p)
  <2>1. CASE p = 0 BY <2>1 DEF Says, Counted, SocketAt
  <2>2. CASE p # 0
    <3>1. posted'[p] = posted[p] BY <1>1, <2>2
    <3> QED BY <2>2, <3>1 DEF Says, Counted, SocketAt
  <2> QED BY <2>1, <2>2
<1>4. /\ Says(i, n, TRUE)' <=> (e.kind = "connection" /\ e.source = i /\ e.up = TRUE)
      /\ Says(i, n, FALSE)' <=> (e.kind = "connection" /\ e.source = i /\ e.up = FALSE)
      /\ Counted(i, n)' <=> (e.kind = "stats" /\ e.source = i)
      /\ SocketAt(i, n)' = e.socket
  BY <1>1 DEF Says, Counted, SocketAt
<1>5. (e.kind = "connection" /\ e.up \in BOOLEAN) \/ e.kind = "stats" BY DEF Signals
<1>6. Ups(i)' = {p \in 0 .. n - 1 \cup {n} : Says(i, p, TRUE)'} BY <1>2 DEF Ups
<1>7. Downs(i)' = {p \in 0 .. n - 1 \cup {n} : Says(i, p, FALSE)'} BY <1>2 DEF Downs
<1>8. Counts(i)' = {p \in 0 .. n - 1 \cup {n} : Counted(i, p)'} BY <1>2 DEF Counts
<1>9. /\ Ups(i) = {p \in 0 .. n - 1 : Says(i, p, TRUE)}
      /\ Downs(i) = {p \in 0 .. n - 1 : Says(i, p, FALSE)}
      /\ Counts(i) = {p \in 0 .. n - 1 : Counted(i, p)}
  BY <1>2 DEF Ups, Downs, Counts
<1>10. Ups(i)' = Ups(i) \cup {p \in {n} : e.kind = "connection" /\ e.source = i /\ e.up = TRUE}
  BY <1>3, <1>4, <1>6, <1>9
<1>11. Downs(i)' = Downs(i) \cup {p \in {n} : e.kind = "connection" /\ e.source = i /\ e.up = FALSE}
  BY <1>3, <1>4, <1>7, <1>9
<1>12. Counts(i)' = Counts(i) \cup {p \in {n} : e.kind = "stats" /\ e.source = i}
  BY <1>3, <1>4, <1>8, <1>9
<1>13. \A p \in Counts(i) : SocketAt(i, p)' = SocketAt(i, p) BY <1>3, <1>9
<1>14. Ups(i) \subseteq 0 .. n - 1 /\ Downs(i) \subseteq 0 .. n - 1 /\ Counts(i) \subseteq 0 .. n - 1
  BY <1>9
<1>15. CASE e.kind = "connection"
  <2>1. Counts(i)' = Counts(i) BY <1>12, <1>15
  <2> QED BY <1>1, <1>5, <1>10, <1>11, <1>13, <1>14, <1>15, <2>1
<1>16. CASE e.kind = "stats"
  <2>1. Ups(i)' = Ups(i) /\ Downs(i)' = Downs(i) BY <1>10, <1>11, <1>16
  <2>2. e.source = i => Counts(i)' = Counts(i) \cup {n} /\ SocketAt(i, n)' = e.socket BY <1>4, <1>12, <1>16
  <2>3. e.source # i => Counts(i)' = Counts(i) BY <1>12
  <2> QED BY <1>1, <1>13, <1>14, <1>16, <2>1, <2>2, <2>3
<1> QED BY <1>5, <1>15, <1>16

LEMMA StudioLink ==
  ASSUME StudioInv, NEW i \in DOMAIN links, NEW up \in BOOLEAN, Studio!Link(i, up)
  PROVE  posted' \in Seq(Signals) /\ \A j \in Nat : Alternates(j)' /\ StaysApart(j)' /\ LastWord(j)'
<1>1. PICK n \in Nat : n = Len(posted) + 1 BY LenProperties DEF StudioInv, StudioTypes
<1> DEFINE e == [kind |-> "connection", source |-> i, up |-> up]
<1>2. i \in Nat \ {0} /\ links[i].up \in BOOLEAN /\ links[i].socket \in Nat BY LinkFacts DEF StudioInv
<1>3. e \in Signals /\ e.kind = "connection" /\ e.source = i /\ e.up = up BY <1>2 DEF Signals
<1>4. /\ links[i].up # up /\ posted' = Append(posted, e)
      /\ UNCHANGED <<lamps, health, onAir, again>>
      /\ links' = [links EXCEPT ![i] = [up |-> up, socket |-> @.socket + IF up THEN 1 ELSE 0]]
  BY DEF Studio!Link, Studio!Post, Studio!shownVars
<1>5. /\ DOMAIN links' = DOMAIN links
      /\ links'[i].up = up
      /\ \A j \in DOMAIN links : j # i => links'[j] = links[j]
  BY <1>4
<1> HIDE DEF e
<1>6. posted' \in Seq(Signals) BY <1>1, <1>2, <1>3, <1>4, StudioAppended DEF StudioInv
<1>7. ASSUME NEW j \in Nat PROVE Alternates(j)' /\ StaysApart(j)' /\ LastWord(j)'
  <2>1. /\ Ups(j) \subseteq 0 .. n - 1 /\ Downs(j) \subseteq 0 .. n - 1 /\ Counts(j) \subseteq 0 .. n - 1
        /\ (i = j /\ up) => Ups(j)' = Ups(j) \cup {n} /\ Downs(j)' = Downs(j)
        /\ (i = j /\ ~up) => Ups(j)' = Ups(j) /\ Downs(j)' = Downs(j) \cup {n}
        /\ (i # j) => Ups(j)' = Ups(j) /\ Downs(j)' = Downs(j)
        /\ Counts(j)' = Counts(j)
        /\ \A p \in Counts(j) : SocketAt(j, p)' = SocketAt(j, p)
    BY <1>1, <1>3, <1>4, StudioAppended DEF StudioInv
  <2>2. Alternates(j) /\ StaysApart(j) /\ LastWord(j) BY DEF StudioInv
  <2>3. CASE i # j
    <3>1. Alternates(j)' BY <1>4, <1>5, <2>1, <2>2, <2>3 DEF Alternates
    <3>2. StaysApart(j)' BY <1>4, <1>5, <2>1, <2>2, <2>3 DEF StaysApart
    <3>3. LastWord(j)' BY <1>4, <1>5, <2>1, <2>2, <2>3 DEF LastWord
    <3> QED BY <3>1, <3>2, <3>3
  <2>4. CASE i = j /\ up
    <3>1. ~links[j].up BY <1>2, <1>4, <2>4
    <3>2. \A p \in Ups(j) : p < n BY <2>1
    <3>3. Alternates(j)'
      <4>1. ASSUME NEW p \in Ups(j)', NEW q \in Ups(j)', p < q
            PROVE  \E r \in Downs(j)' : p < r /\ r < q
        <5>1. p \in Ups(j) BY <2>1, <2>4, <3>2, <4>1
        <5>2. CASE q \in Ups(j) BY <2>1, <2>2, <2>4, <4>1, <5>1, <5>2 DEF Alternates
        <5>3. CASE q = n
          <6>1. PICK r \in Downs(j) : p < r BY <2>2, <2>4, <3>1, <5>1 DEF Alternates
          <6> QED BY <2>1, <2>4, <5>3, <6>1
        <5> QED BY <2>1, <2>4, <5>2, <5>3
      <4> QED BY <1>5, <2>4, <4>1 DEF Alternates
    <3>4. StaysApart(j)'
      <4>1. \A p \in Counts(j) : p < n BY <2>1
      <4> QED BY <2>1, <2>2, <2>4, <4>1 DEF StaysApart
    <3>5. LastWord(j)' BY <1>4, <1>5, <2>1, <2>2, <2>4 DEF LastWord
    <3> QED BY <3>3, <3>4, <3>5
  <2>5. CASE i = j /\ ~up
    <3>2. \A p \in Ups(j) : p < n BY <2>1
    <3>3. Alternates(j)' BY <2>1, <2>2, <2>5, <3>2 DEF Alternates
    <3>4. StaysApart(j)' BY <1>5, <2>1, <2>2, <2>5 DEF StaysApart
    <3>5. LastWord(j)' BY <1>4, <1>5, <2>1, <2>2, <2>5 DEF LastWord
    <3> QED BY <3>3, <3>4, <3>5
  <2> QED BY <2>3, <2>4, <2>5
<1> QED BY <1>6, <1>7

LEMMA StudioReport ==
  ASSUME StudioInv, NEW i \in DOMAIN links, Studio!ReportStats(i)
  PROVE  posted' \in Seq(Signals) /\ \A j \in Nat : Alternates(j)' /\ StaysApart(j)' /\ LastWord(j)'
<1>1. PICK n \in Nat : n = Len(posted) + 1 BY LenProperties DEF StudioInv, StudioTypes
<1>2. i \in Nat \ {0} /\ links[i].up /\ links[i].socket \in Nat
  BY LinkFacts DEF StudioInv, Studio!ReportStats
<1>3. PICK e \in Signals : e = [kind |-> "stats", source |-> i, socket |-> links[i].socket]
  BY <1>2 DEF Signals
<1>4. posted' = Append(posted, e) /\ UNCHANGED <<lamps, health, onAir, again, links>>
  BY <1>3 DEF Studio!ReportStats, Studio!Post, Studio!shownVars
<1>5. e.kind = "stats" /\ e.source = i /\ e.socket = links[i].socket BY <1>3
<1>6. posted' \in Seq(Signals) BY <1>1, <1>2, <1>4, StudioAppended DEF StudioInv
<1>7. ASSUME NEW j \in Nat PROVE Alternates(j)' /\ StaysApart(j)' /\ LastWord(j)'
  <2>1. /\ Counts(j) \subseteq 0 .. n - 1
        /\ Ups(j)' = Ups(j) /\ Downs(j)' = Downs(j)
        /\ (i = j) => Counts(j)' = Counts(j) \cup {n} /\ SocketAt(j, n)' = links[i].socket
        /\ (i # j) => Counts(j)' = Counts(j)
        /\ \A p \in Counts(j) : SocketAt(j, p)' = SocketAt(j, p)
    BY <1>1, <1>4, <1>5, StudioAppended DEF StudioInv
  <2>2. Alternates(j) /\ StaysApart(j) /\ LastWord(j) BY DEF StudioInv
  <2>3. Alternates(j)' BY <1>4, <2>1, <2>2 DEF Alternates
  <2>4. LastWord(j)' BY <1>4, <2>1, <2>2 DEF LastWord
  <2>5. CASE i # j
    <3>1. StaysApart(j)' BY <1>4, <2>1, <2>2, <2>5 DEF StaysApart
    <3> QED BY <2>3, <2>4, <3>1
  <2>6. CASE i = j
    <3>1. ASSUME NEW p \in Counts(j)', NEW q \in Counts(j)', p < q
          PROVE  SocketAt(j, p)' = SocketAt(j, q)' \/ \E r \in Ups(j)' : p < r /\ r < q
      <4>1. \A r \in Ups(j) : r < n /\ r \in Nat BY <1>1 DEF Ups
      <4>2. p \in Counts(j) BY <2>1, <2>6, <3>1
      <4>3. CASE q \in Counts(j) BY <2>1, <2>2, <3>1, <4>2, <4>3 DEF StaysApart
      <4>4. CASE q = n BY <1>2, <2>1, <2>2, <2>6, <4>1, <4>2, <4>4 DEF StaysApart
      <4> QED BY <2>1, <2>6, <4>3, <4>4
    <3>2. StaysApart(j)' BY <1>4, <2>1, <2>2, <2>6, <3>1 DEF StaysApart
    <3> QED BY <2>3, <2>4, <3>2
  <2> QED BY <2>5, <2>6
<1> QED BY <1>6, <1>7

-----------------------------------------------------------------------------
(* The head of the queue is taken: what was said at p + 1 is said at p, and *)
(* place 0 takes the word of the head, or else keeps its own.               *)
LEMMA StudioShift ==
  ASSUME StudioTypes, NEW i \in Nat, NEW n \in Nat, Len(posted) = n + 1,
         Alternates(i), StaysApart(i), LastWord(i), UNCHANGED <<links, onAir, again>>,
         Ups(i)' \subseteq 0 .. n, Downs(i)' \subseteq 0 .. n, Counts(i)' \subseteq 0 .. n,
         \A p \in 1 .. n : /\ (p \in Ups(i)') <=> (p + 1 \in Ups(i))
                           /\ (p \in Downs(i)') <=> (p + 1 \in Downs(i))
                           /\ (p \in Counts(i)') <=> (p + 1 \in Counts(i))
                           /\ SocketAt(i, p)' = SocketAt(i, p + 1),
         (0 \in Ups(i)') <=> (1 \in Ups(i) \/ (0 \in Ups(i) /\ 1 \notin Downs(i))),
         (1 \in Downs(i) \/ (0 \in Downs(i) /\ 1 \notin Ups(i))) => 0 \in Downs(i)',
         0 \in Downs(i)' => (1 \in Downs(i) \/ 0 \in Downs(i) \/ i \notin DOMAIN lamps),
         (1 \in Ups(i) \/ 1 \in Counts(i)) => (0 \in Downs(i)' => (0 \in Downs(i) \/ i \notin DOMAIN lamps)),
         (0 \in Counts(i)') => (1 \in Counts(i) \/ (0 \in Counts(i) /\ 1 \notin Ups(i))),
         (0 \in Counts(i)') => SocketAt(i, 0)' = IF 1 \in Counts(i) THEN SocketAt(i, 1) ELSE SocketAt(i, 0),
         i \in DOMAIN lamps => i \in DOMAIN lamps',
         1 \in Ups(i) => 1 \notin Downs(i) /\ 1 \notin Counts(i),
         1 \in Downs(i) => 1 \notin Counts(i)
  PROVE  Alternates(i)' /\ StaysApart(i)' /\ LastWord(i)'
<1>1. Ups(i) \subseteq 0 .. n + 1 /\ Downs(i) \subseteq 0 .. n + 1 /\ Counts(i) \subseteq 0 .. n + 1
  BY DEF Ups, Downs, Counts
<1>2. \A r \in 2 .. n + 1 : /\ r \in Ups(i) => r - 1 \in Ups(i)'
                            /\ r \in Downs(i) => r - 1 \in Downs(i)'
  <2> SUFFICES ASSUME NEW r \in 2 .. n + 1
               PROVE  (r \in Ups(i) => r - 1 \in Ups(i)') /\ (r \in Downs(i) => r - 1 \in Downs(i)')
    OBVIOUS
  <2>1. r - 1 \in 1 .. n /\ (r - 1) + 1 = r OBVIOUS
  <2> QED BY <2>1
(* A word at p comes from one at p + 1, or from the one that was shown.     *)
<1>3. Alternates(i)'
  <2>1. ASSUME NEW p \in Ups(i)', NEW q \in Ups(i)', p < q
        PROVE  \E r \in Downs(i)' : p < r /\ r < q
    <3>1. p \in 0 .. n /\ q \in 1 .. n /\ q + 1 \in Ups(i) BY <2>1
    <3>2. \E s \in Ups(i) : s <= p + 1 /\ s < q + 1 /\ (s = p + 1 \/ (s = 0 /\ 1 \notin Downs(i) /\ p = 0))
      <4>1. CASE p = 0 BY <2>1, <3>1, <4>1
      <4>2. CASE p # 0
        <5>1. p \in 1 .. n /\ p + 1 < q + 1 BY <2>1, <3>1, <4>2
        <5>2. p + 1 \in Ups(i) BY <2>1, <5>1
        <5> QED BY <5>1, <5>2
      <4> QED BY <4>1, <4>2
    <3>5. PICK s \in Ups(i) : s <= p + 1 /\ s < q + 1 /\ (s = p + 1 \/ (s = 0 /\ 1 \notin Downs(i) /\ p = 0))
      BY <3>2
    <3>3. PICK r \in Downs(i) : s < r /\ r < q + 1 BY <3>1, <3>5 DEF Alternates
    <3>4. p + 1 < r /\ r \in 2 .. n + 1 BY <1>1, <3>1, <3>5, <3>3
    <3> QED BY <1>2, <3>1, <3>3, <3>4
  <2>2. ASSUME i \in DOMAIN links, ~links[i].up, NEW p \in Ups(i)'
        PROVE  \E r \in Downs(i)' : p < r
    <3>1. p \in 0 .. n OBVIOUS
    <3>2. PICK s \in Ups(i) : s = p + 1 \/ (s = 0 /\ 1 \notin Downs(i) /\ p = 0) BY <3>1
    <3>3. PICK r \in Downs(i) : s < r BY <2>2, <3>2 DEF Alternates
    <3>4. p + 1 < r /\ r \in 2 .. n + 1 BY <1>1, <3>1, <3>2, <3>3
    <3> QED BY <1>2, <3>1, <3>4
  <2> QED BY <2>1, <2>2 DEF Alternates
<1>4. StaysApart(i)'
  <2>1. ASSUME NEW p \in Counts(i)'
        PROVE  \E s \in Counts(i) : /\ s = p + 1 \/ (s = 0 /\ 1 \notin Ups(i) /\ p = 0)
                                    /\ SocketAt(i, s) = SocketAt(i, p)'
    <3>1. CASE p = 0 BY <3>1
    <3>2. CASE p # 0
      <4>1. p \in 1 .. n BY <3>2
      <4> QED BY <4>1
    <3> QED BY <3>1, <3>2
  <2>2. ASSUME NEW p \in Counts(i)', NEW q \in Counts(i)', p < q
        PROVE  SocketAt(i, p)' = SocketAt(i, q)' \/ \E r \in Ups(i)' : p < r /\ r < q
    <3>1. p \in 0 .. n /\ q \in 1 .. n /\ q + 1 \in Counts(i) /\ SocketAt(i, q)' = SocketAt(i, q + 1) BY <2>2
    <3>2. PICK s \in Counts(i) : /\ s = p + 1 \/ (s = 0 /\ 1 \notin Ups(i) /\ p = 0)
                                 /\ SocketAt(i, s) = SocketAt(i, p)'
      BY <2>1
    <3>3. s < q + 1 BY <2>2, <3>1, <3>2
    <3>4. SocketAt(i, s) = SocketAt(i, q + 1) \/ \E r \in Ups(i) : s < r /\ r < q + 1
      BY <3>1, <3>3 DEF StaysApart
    <3>5. ASSUME NEW r \in Ups(i), s < r, r < q + 1 PROVE \E t \in Ups(i)' : p < t /\ t < q
      <4>1. r \in 0 .. n + 1 BY <1>1
      <4>2. s \in 0 .. n + 1 BY <1>1
      <4>3. p + 1 < r
        <5>1. CASE s = p + 1 BY <3>5, <5>1
        <5>2. CASE s = 0 /\ 1 \notin Ups(i) /\ p = 0
          <6>1. r # 1 /\ r # 0 BY <3>5, <4>1, <5>2
          <6> QED BY <4>1, <5>2, <6>1
        <5> QED BY <3>2, <5>1, <5>2
      <4>4. r \in 2 .. n + 1 BY <3>1, <4>1, <4>3
      <4>5. r - 1 \in Ups(i)' BY <1>2, <4>4
      <4>6. p \in Int /\ q \in Int /\ r \in Int BY <3>1, <4>1
      <4>7. p < r - 1 /\ r - 1 < q BY <3>5, <4>3, <4>6
      <4> QED BY <4>5, <4>7
    <3> QED BY <3>1, <3>2, <3>4, <3>5
  <2>3. ASSUME i \in DOMAIN links, links[i].up, NEW p \in Counts(i)'
        PROVE  SocketAt(i, p)' = links[i].socket \/ \E r \in Ups(i)' : p < r
    <3>1. p \in 0 .. n OBVIOUS
    <3>2. PICK s \in Counts(i) : /\ s = p + 1 \/ (s = 0 /\ 1 \notin Ups(i) /\ p = 0)
                                 /\ SocketAt(i, s) = SocketAt(i, p)'
      BY <2>1
    <3>3. SocketAt(i, s) = links[i].socket \/ \E r \in Ups(i) : s < r BY <2>3 DEF StaysApart
    <3>4. ASSUME NEW r \in Ups(i), s < r PROVE \E t \in Ups(i)' : p < t
      <4>1. p + 1 < r /\ r \in 2 .. n + 1 BY <1>1, <3>1, <3>2, <3>4
      <4> QED BY <1>2, <3>1, <4>1
    <3> QED BY <3>2, <3>3, <3>4
  <2> QED BY <2>2, <2>3 DEF StaysApart
<1>5. LastWord(i)'
  <2> SUFFICES ASSUME onAir, ~again, i \in DOMAIN links
               PROVE  /\ i \in DOMAIN lamps'
                      /\ \E p \in (IF links[i].up THEN Ups(i)' ELSE Downs(i)') :
                           \A q \in Ups(i)' \cup Downs(i)' : q <= p
    BY DEF LastWord
  <2>1. PICK p \in (IF links[i].up THEN Ups(i) ELSE Downs(i)) : \A q \in Ups(i) \cup Downs(i) : q <= p
    BY DEF LastWord
  <2>2. i \in DOMAIN lamps BY DEF LastWord
  <2>3. p \in 0 .. n + 1 BY <1>1, <2>1
  <2>4. CASE p >= 2
    <3>1. p \in 2 .. n + 1 /\ p - 1 \in 1 .. n BY <2>3, <2>4
    <3>2. p - 1 \in (IF links[i].up THEN Ups(i)' ELSE Downs(i)') BY <1>2, <2>1, <3>1
    <3>3. ASSUME NEW q \in Ups(i)' \cup Downs(i)' PROVE q <= p - 1
      <4>1. q \in 0 .. n OBVIOUS
      <4>2. CASE q = 0 BY <3>1, <4>2
      <4>3. CASE q # 0
        <5>1. q \in 1 .. n BY <4>1, <4>3
        <5>2. q + 1 \in Ups(i) \cup Downs(i) BY <5>1
        <5> QED BY <2>1, <3>1, <5>1, <5>2
      <4> QED BY <4>2, <4>3
    <3> QED BY <2>2, <3>2, <3>3
  <2>5. CASE p \in {0, 1}
    <3>1. 0 \in (IF links[i].up THEN Ups(i)' ELSE Downs(i)') BY <2>1, <2>5
    <3>2. ASSUME NEW q \in Ups(i)' \cup Downs(i)' PROVE q <= 0
      <4>1. q \in 0 .. n OBVIOUS
      <4>3. CASE q # 0
        <5>1. q \in 1 .. n BY <4>1, <4>3
        <5>2. q + 1 \in Ups(i) \cup Downs(i) BY <5>1
        <5> QED BY <2>1, <2>5, <5>1, <5>2
      <4> QED BY <4>1, <4>3
    <3> QED BY <2>2, <3>1, <3>2
  <2> QED BY <2>3, <2>4, <2>5
<1> QED BY <1>3, <1>4, <1>5

LEMMA GrownList ==
  ASSUME NEW S, NEW list \in Seq(S), NEW n \in Nat, NEW d \in S
  PROVE  /\ Studio!Grown(list, n, d) \in Seq(S)
         /\ DOMAIN list \subseteq DOMAIN Studio!Grown(list, n, d)
         /\ n # 0 => n \in DOMAIN Studio!Grown(list, n, d)
         /\ \A i \in DOMAIN list : Studio!Grown(list, n, d)[i] = list[i]
         /\ \A i \in DOMAIN Studio!Grown(list, n, d) : i \notin DOMAIN list => Studio!Grown(list, n, d)[i] = d
<1>1. Len(list) \in Nat /\ DOMAIN list = 1 .. Len(list) BY LenProperties
<1>2. CASE n <= Len(list) BY <1>1, <1>2 DEF Studio!Grown
<1>3. CASE n > Len(list)
  <2> DEFINE more == [i \in 1 .. n - Len(list) |-> d]
             all == list \o more
  <2>1. n - Len(list) \in Nat BY <1>1, <1>3
  <2>2. more \in Seq(S) /\ Len(more) = n - Len(list) BY <2>1, IsASeq, LenProperties
  <2>3. \A i \in 1 .. Len(more) : more[i] = d BY <2>2
  <2>4. Studio!Grown(list, n, d) = all BY <1>1, <1>3 DEF Studio!Grown
  <2> HIDE DEF more
  <2>5. /\ all \in Seq(S) /\ Len(all) = Len(list) + Len(more)
        /\ \A i \in 1 .. Len(list) + Len(more) :
             all[i] = IF i <= Len(list) THEN list[i] ELSE more[i - Len(list)]
    BY <2>2, ConcatProperties
  <2> HIDE DEF all
  <2>6. DOMAIN all = 1 .. n BY <1>1, <2>2, <2>5, LenProperties
  <2>7. \A i \in 1 .. n : i > Len(list) => i - Len(list) \in 1 .. Len(more) BY <1>1, <2>2
  <2>8. \A i \in 1 .. Len(list) : all[i] = list[i] BY <1>1, <1>3, <2>2, <2>5
  <2>9. \A i \in 1 .. n : i > Len(list) => all[i] = d BY <1>1, <2>2, <2>3, <2>5, <2>7
  <2> QED BY <1>1, <1>3, <2>4, <2>5, <2>6, <2>8, <2>9
<1> QED BY <1>1, <1>2, <1>3

(* What the places say once the head h of n + 1 signals is taken.           *)
Taken(i, n, h) ==
  /\ Ups(i)' \subseteq 0 .. n /\ Downs(i)' \subseteq 0 .. n /\ Counts(i)' \subseteq 0 .. n
  /\ \A p \in 1 .. n : /\ (p \in Ups(i)') <=> (p + 1 \in Ups(i))
                       /\ (p \in Downs(i)') <=> (p + 1 \in Downs(i))
                       /\ (p \in Counts(i)') <=> (p + 1 \in Counts(i))
                       /\ SocketAt(i, p)' = SocketAt(i, p + 1)
  /\ (1 \in Ups(i)) <=> (h.kind = "connection" /\ h.source = i /\ h.up = TRUE)
  /\ (1 \in Downs(i)) <=> (h.kind = "connection" /\ h.source = i /\ h.up = FALSE)
  /\ (1 \in Counts(i)) <=> (h.kind = "stats" /\ h.source = i)
  /\ SocketAt(i, 1) = h.socket
  /\ (0 \in Ups(i)) <=> (i \in DOMAIN lamps /\ lamps[i] = TRUE)
  /\ (0 \in Downs(i)) <=> (i \in DOMAIN lamps /\ lamps[i] = FALSE)
  /\ (0 \in Counts(i)) <=> (i \in DOMAIN health /\ health[i].seen)
  /\ SocketAt(i, 0) = health[i].last
  /\ (0 \in Ups(i)') <=> (i \in DOMAIN lamps' /\ lamps'[i] = TRUE)
  /\ (0 \in Downs(i)') <=> (i \in DOMAIN lamps' /\ lamps'[i] = FALSE)
  /\ (0 \in Counts(i)') <=> (i \in DOMAIN health' /\ health'[i].seen)
  /\ SocketAt(i, 0)' = health'[i].last

LEMMA StudioTaken ==
  ASSUME StudioTypes, posted # <<>>, posted' = Tail(posted), NEW n \in Nat, Len(posted) = n + 1,
         NEW h, h = Head(posted)
  PROVE  h \in Signals /\ posted' \in Seq(Signals) /\ \A i \in Nat : Taken(i, n, h)
<1>1. /\ h \in Signals /\ posted' \in Seq(Signals) /\ Len(posted') = n
      /\ \A p \in 1 .. n : posted'[p] = posted[p + 1]
  BY HeadTailProperties DEF StudioTypes
<1>2. h = posted[1] OBVIOUS
<1> SUFFICES ASSUME NEW i \in Nat PROVE Taken(i, n, h) BY <1>1
<1>3. 1 \in 0 .. Len(posted) /\ 0 \in 0 .. Len(posted) /\ 0 \in 0 .. Len(posted') /\ 0 .. Len(posted') = 0 .. n
  BY <1>1
<1>4. Ups(i)' \subseteq 0 .. n /\ Downs(i)' \subseteq 0 .. n /\ Counts(i)' \subseteq 0 .. n
  BY <1>3 DEF Ups, Downs, Counts
<1>5. ASSUME NEW p \in 1 .. n
      PROVE  /\ (p \in Ups(i)') <=> (p + 1 \in Ups(i))
             /\ (p \in Downs(i)') <=> (p + 1 \in Downs(i))
             /\ (p \in Counts(i)') <=> (p + 1 \in Counts(i))
             /\ SocketAt(i, p)' = SocketAt(i, p + 1)
  <2>1. posted'[p] = posted[p + 1] /\ p # 0 /\ p + 1 # 0 BY <1>1
  <2>2. p \in 0 .. Len(posted') /\ p + 1 \in 0 .. Len(posted) BY <1>1
  <2>3. SocketAt(i, p)' = SocketAt(i, p + 1) BY <2>1 DEF SocketAt
  <2>4. (p \in Counts(i)') <=> (p + 1 \in Counts(i)) BY <2>1, <2>2 DEF Counts, Counted
  <2>5. (p \in Ups(i)') <=> (p + 1 \in Ups(i)) BY <2>1, <2>2 DEF Ups, Says
  <2>6. (p \in Downs(i)') <=> (p + 1 \in Downs(i)) BY <2>1, <2>2 DEF Downs, Says
  <2> QED BY <2>3, <2>4, <2>5, <2>6
<1>6. /\ (1 \in Ups(i)) <=> (h.kind = "connection" /\ h.source = i /\ h.up = TRUE)
      /\ (1 \in Downs(i)) <=> (h.kind = "connection" /\ h.source = i /\ h.up = FALSE)
      /\ (1 \in Counts(i)) <=> (h.kind = "stats" /\ h.source = i)
      /\ SocketAt(i, 1) = h.socket
  BY <1>2, <1>3 DEF Ups, Downs, Counts, Says, Counted, SocketAt
<1>7. /\ (0 \in Ups(i)) <=> (i \in DOMAIN lamps /\ lamps[i] = TRUE)
      /\ (0 \in Downs(i)) <=> (i \in DOMAIN lamps /\ lamps[i] = FALSE)
      /\ (0 \in Counts(i)) <=> (i \in DOMAIN health /\ health[i].seen)
      /\ SocketAt(i, 0) = health[i].last
  BY <1>3 DEF Ups, Downs, Counts, Says, Counted, SocketAt
<1>8. /\ (0 \in Ups(i)') <=> (i \in DOMAIN lamps' /\ lamps'[i] = TRUE)
      /\ (0 \in Downs(i)') <=> (i \in DOMAIN lamps' /\ lamps'[i] = FALSE)
      /\ (0 \in Counts(i)') <=> (i \in DOMAIN health' /\ health'[i].seen)
      /\ SocketAt(i, 0)' = health'[i].last
  BY <1>3 DEF Ups, Downs, Counts, Says, Counted, SocketAt
<1> QED BY <1>4, <1>5, <1>6, <1>7, <1>8 DEF Taken

LEMMA StudioConnection ==
  ASSUME StudioInv, Studio!Deliver, Head(posted).kind # "stats"
  PROVE  /\ posted' \in Seq(Signals) /\ lamps' \in Seq(BOOLEAN) /\ health' \in Seq(Entries)
         /\ \A i \in Nat : Alternates(i)' /\ StaysApart(i)' /\ LastWord(i)'
         /\ Studio!HealthIsOfOneSocket'
<1>1. StudioTypes /\ posted # <<>> /\ posted' = Tail(posted) /\ UNCHANGED <<links, onAir, again>>
  BY DEF StudioInv, Studio!Deliver
<1>2. PICK n \in Nat : Len(posted) = n + 1
  <2>1. Len(posted) \in Nat \ {0} BY <1>1, EmptySeq DEF StudioTypes
  <2>2. Len(posted) - 1 \in Nat /\ Len(posted) = (Len(posted) - 1) + 1 BY <2>1
  <2> QED BY <2>2
<1>3. PICK h : h = Head(posted) OBVIOUS
<1>4. h \in Signals /\ posted' \in Seq(Signals) /\ \A i \in Nat : Taken(i, n, h)
  BY <1>1, <1>2, <1>3, StudioTaken
<1>5. h.kind = "connection" /\ h.source \in Nat \ {0} /\ h.up \in BOOLEAN BY <1>3, <1>4 DEF Signals
<1>6. PICK c \in Nat \ {0} : c = h.source BY <1>5
<1>16. PICK f \in BOOLEAN : f = FALSE OBVIOUS
<1>17. PICK shown : shown = Studio!Grown(lamps, c, f) OBVIOUS
<1>7. /\ lamps' = [shown EXCEPT ![c] = h.up]
      /\ health' = IF h.up /\ ~shown[c] /\ c <= Len(health)
                   THEN [health EXCEPT ![c].seen = FALSE, ![c].judged = <<0, 0>>] ELSE health
  BY <1>3, <1>5, <1>6, <1>16, <1>17 DEF Studio!Deliver, Studio!OnConnectionChanged
<1>8. /\ shown \in Seq(BOOLEAN) /\ DOMAIN lamps \subseteq DOMAIN shown /\ c \in DOMAIN shown
      /\ \A i \in DOMAIN lamps : shown[i] = lamps[i]
      /\ \A i \in DOMAIN shown : i \notin DOMAIN lamps => shown[i] = FALSE
  <2>1. lamps \in Seq(BOOLEAN) /\ c \in Nat /\ c # 0 BY <1>1 DEF StudioTypes
  <2>2. shown \in Seq(BOOLEAN) BY <1>17, <2>1, GrownList
  <2>3. DOMAIN lamps \subseteq DOMAIN shown BY <1>17, <2>1, GrownList
  <2>4. c \in DOMAIN shown BY <1>17, <2>1, GrownList
  <2>5. \A i \in DOMAIN lamps : shown[i] = lamps[i] BY <1>17, <2>1, GrownList
  <2>6. \A i \in DOMAIN shown : i \notin DOMAIN lamps => shown[i] = f BY <1>17, <2>1, GrownList
  <2> QED BY <1>16, <2>2, <2>3, <2>4, <2>5, <2>6
<1>9. h.up => ~shown[c]
  <2>1. SUFFICES ASSUME h.up, shown[c] PROVE FALSE OBVIOUS
  <2>2. c \in DOMAIN lamps /\ lamps[c] BY <1>8, <2>1
  <2>3. 0 \in Ups(c) /\ 1 \in Ups(c) BY <1>1, <1>4, <1>5, <1>6, <2>1, <2>2 DEF Taken, StudioTypes
  <2>6. Alternates(c) BY DEF StudioInv
  <2>8. 0 .. Len(posted) \subseteq Int BY <1>2
  <2>4. Downs(c) \subseteq Int /\ Ups(c) \subseteq Int BY <2>8 DEF Downs, Ups
  <2>5. \A p \in Ups(c), q \in Ups(c) : q # p + 1 BY <2>4, <2>6 DEF Alternates
  <2>7. 1 = 0 + 1 OBVIOUS
  <2> QED BY <2>3, <2>5, <2>7
<1>10. /\ lamps' \in Seq(BOOLEAN) /\ DOMAIN lamps' = DOMAIN shown
       /\ lamps'[c] = h.up /\ \A i \in DOMAIN lamps' : i # c => lamps'[i] = shown[i]
  <2>1. DOMAIN shown = 1 .. Len(shown) BY <1>8, LenProperties
  <2>2. lamps' \in Seq(BOOLEAN) BY <1>5, <1>7, <1>8, <2>1, ExceptSeq
  <2> QED BY <1>7, <1>8, <2>2
<1>11. health \in Seq(Entries) /\ DOMAIN health = 1 .. Len(health) BY <1>1, LenProperties DEF StudioTypes
<1>12. \A i \in DOMAIN health : health[i] \in Entries BY <1>11, ElementOfSeq
<1>13. /\ health' \in Seq(Entries) /\ DOMAIN health' = DOMAIN health
       /\ \A i \in DOMAIN health :
            /\ health'[i].last = health[i].last
            /\ health'[i].seen => health[i].seen
            /\ i # c => health'[i].seen = health[i].seen
            /\ health'[i].judged = health[i].judged \/ health'[i].judged = <<0, 0>>
            /\ (i = c /\ h.up) => ~health'[i].seen
            /\ ~h.up => health'[i].seen = health[i].seen
  <2>1. CASE h.up /\ c <= Len(health)
    <3>1. c \in 1 .. Len(health) /\ health[c] \in Entries BY <1>11, <1>12, <2>1, LenProperties
    <3> DEFINE e == [health[c] EXCEPT !.seen = FALSE, !.judged = <<0, 0>>]
    <3>2. e \in Entries /\ e.last = health[c].last /\ e.seen = FALSE /\ e.judged = <<0, 0>>
      BY <3>1 DEF Entries
    <3>3. health' = [health EXCEPT ![c] = e] BY <1>7, <1>9, <2>1
    <3> HIDE DEF e
    <3>4. health' \in Seq(Entries) BY <1>11, <3>1, <3>2, <3>3, ExceptSeq
    <3> QED BY <1>11, <2>1, <3>1, <3>2, <3>3, <3>4
  <2>2. CASE ~(h.up /\ c <= Len(health))
    <3>1. health' = health BY <1>7, <2>2
    <3>2. h.up => c \notin DOMAIN health BY <1>11, <2>2
    <3> QED BY <1>11, <3>1, <3>2
  <2> QED BY <2>1, <2>2
<1>14. ASSUME NEW i \in Nat PROVE Alternates(i)' /\ StaysApart(i)' /\ LastWord(i)'
  <2>1. Taken(i, n, h) /\ Alternates(i) /\ StaysApart(i) /\ LastWord(i) BY <1>4 DEF StudioInv
  <2>2. i \in DOMAIN lamps => i \in DOMAIN lamps' BY <1>8, <1>10
  <2>3. lamps \in Seq(BOOLEAN) /\ \A j \in DOMAIN lamps : lamps[j] \in BOOLEAN
    BY <1>1, LenProperties, ElementOfSeq DEF StudioTypes
  <2>4. (0 \in Ups(i)') <=> (1 \in Ups(i) \/ (0 \in Ups(i) /\ 1 \notin Downs(i)))
    BY <1>5, <1>6, <1>8, <1>10, <2>1, <2>3 DEF Taken
  <2>5. /\ (1 \in Downs(i) \/ (0 \in Downs(i) /\ 1 \notin Ups(i))) => 0 \in Downs(i)'
        /\ 0 \in Downs(i)' => (1 \in Downs(i) \/ 0 \in Downs(i) \/ i \notin DOMAIN lamps)
        /\ (1 \in Ups(i) \/ 1 \in Counts(i)) => (0 \in Downs(i)' => (0 \in Downs(i) \/ i \notin DOMAIN lamps))
    BY <1>5, <1>6, <1>8, <1>10, <2>1, <2>3 DEF Taken
  <2>6. 1 \notin Counts(i) BY <1>5, <2>1 DEF Taken
  <2>7. (0 \in Counts(i)') => 0 \in Counts(i) /\ 1 \notin Ups(i) /\ SocketAt(i, 0)' = SocketAt(i, 0)
    BY <1>5, <1>6, <1>13, <2>1 DEF Taken
  <2>8. 1 \in Ups(i) => 1 \notin Downs(i) BY <2>1 DEF Taken
  <2> QED BY <1>1, <1>2, <2>1, <2>2, <2>4, <2>5, <2>6, <2>7, <2>8, StudioShift DEF Taken
<1>15. Studio!HealthIsOfOneSocket'
  BY <1>13 DEF StudioInv, Studio!HealthIsOfOneSocket
<1> QED BY <1>4, <1>10, <1>13, <1>14, <1>15

LEMMA StudioStatistics ==
  ASSUME StudioInv, Studio!Deliver, Head(posted).kind = "stats"
  PROVE  /\ posted' \in Seq(Signals) /\ lamps' \in Seq(BOOLEAN) /\ health' \in Seq(Entries)
         /\ \A i \in Nat : Alternates(i)' /\ StaysApart(i)' /\ LastWord(i)'
         /\ Studio!HealthIsOfOneSocket'
<1>1. StudioTypes /\ posted # <<>> /\ posted' = Tail(posted) /\ UNCHANGED <<links, onAir, again>>
  BY DEF StudioInv, Studio!Deliver
<1>2. PICK n \in Nat : Len(posted) = n + 1
  <2>1. Len(posted) \in Nat \ {0} BY <1>1, EmptySeq DEF StudioTypes
  <2>2. Len(posted) - 1 \in Nat /\ Len(posted) = (Len(posted) - 1) + 1 BY <2>1
  <2> QED BY <2>2
<1>3. PICK h : h = Head(posted) OBVIOUS
<1>4. h \in Signals /\ posted' \in Seq(Signals) /\ \A i \in Nat : Taken(i, n, h)
  BY <1>1, <1>2, <1>3, StudioTaken
<1>5. h.kind = "stats" /\ h.source \in Nat \ {0} /\ h.socket \in Nat BY <1>3, <1>4 DEF Signals
<1>6. PICK c \in Nat \ {0} : c = h.source BY <1>5
<1>7. PICK known : known = Studio!Grown(health, c, Studio!NoEntry) OBVIOUS
<1>8. /\ lamps' = lamps
      /\ health' = [known EXCEPT ![c] =
                      [seen |-> TRUE, last |-> h.socket,
                       judged |-> IF known[c].seen THEN <<known[c].last, h.socket>> ELSE <<0, 0>>]]
  BY <1>3, <1>5, <1>6, <1>7 DEF Studio!Deliver, Studio!OnStatsUpdated
<1>9. health \in Seq(Entries) /\ DOMAIN health = 1 .. Len(health) BY <1>1, LenProperties DEF StudioTypes
<1>10. PICK none \in Entries : none = Studio!NoEntry /\ ~none.seen /\ none.judged = <<0, 0>>
  <2>1. Studio!NoEntry \in Entries BY DEF Entries, Studio!NoEntry
  <2>2. ~Studio!NoEntry.seen /\ Studio!NoEntry.judged = <<0, 0>> BY DEF Studio!NoEntry
  <2> QED BY <2>1, <2>2
<1>11. /\ known \in Seq(Entries) /\ DOMAIN health \subseteq DOMAIN known /\ c \in DOMAIN known
       /\ \A i \in DOMAIN health : known[i] = health[i]
       /\ \A i \in DOMAIN known : i \notin DOMAIN health => known[i] = none
  <2>1. c \in Nat /\ c # 0 OBVIOUS
  <2>7. known = Studio!Grown(health, c, none) BY <1>7, <1>10
  <2>8. health \in Seq(Entries) BY <1>9
  <2>2. known \in Seq(Entries) BY <2>1, <2>7, <2>8, GrownList
  <2>3. DOMAIN health \subseteq DOMAIN known BY <2>1, <2>7, <2>8, GrownList
  <2>4. c \in DOMAIN known BY <2>1, <2>7, <2>8, GrownList
  <2>5. \A i \in DOMAIN health : known[i] = health[i] BY <2>1, <2>7, <2>8, GrownList
  <2>6. \A i \in DOMAIN known : i \notin DOMAIN health => known[i] = none
    BY <2>1, <2>7, <2>8, GrownList
  <2> QED BY <2>2, <2>3, <2>4, <2>5, <2>6
<1>12. known[c].seen => known[c].last = h.socket
  <2>1. SUFFICES ASSUME known[c].seen PROVE known[c].last = h.socket OBVIOUS
  <2>2. c \in DOMAIN health /\ health[c].seen /\ known[c] = health[c] BY <1>10, <1>11, <2>1
  <2>3. 0 \in Counts(c) /\ 1 \in Counts(c) /\ SocketAt(c, 0) = health[c].last /\ SocketAt(c, 1) = h.socket
    BY <1>4, <1>5, <1>6, <2>2 DEF Taken
  <2>4. StaysApart(c) BY DEF StudioInv
  <2>5. 0 .. Len(posted) \subseteq Int BY <1>2
  <2>6. Ups(c) \subseteq Int /\ Counts(c) \subseteq Int BY <2>5 DEF Ups, Counts
  <2>7. \A p \in Counts(c), q \in Counts(c) : q = p + 1 => SocketAt(c, p) = SocketAt(c, q)
    BY <2>4, <2>6 DEF StaysApart
  <2>8. 1 = 0 + 1 OBVIOUS
  <2> QED BY <2>2, <2>3, <2>7, <2>8
<1>13. DOMAIN known = 1 .. Len(known) /\ \A i \in DOMAIN known : known[i] \in Entries
  BY <1>11, LenProperties, ElementOfSeq
<1>18. PICK j \in Nat \X Nat : /\ j = IF known[c].seen THEN <<known[c].last, h.socket>> ELSE <<0, 0>>
                              /\ j[1] = j[2]
  <2>1. CASE known[c].seen
    <3>1. <<known[c].last, h.socket>> = <<h.socket, h.socket>> BY <1>12, <2>1
    <3>2. <<h.socket, h.socket>> \in Nat \X Nat BY <1>5
    <3>3. <<h.socket, h.socket>>[1] = <<h.socket, h.socket>>[2] OBVIOUS
    <3> QED BY <2>1, <3>1, <3>2, <3>3
  <2>2. CASE ~known[c].seen
    <3>1. <<0, 0>> \in Nat \X Nat OBVIOUS
    <3> QED BY <2>2, <3>1
  <2> QED BY <2>1, <2>2
<1>14. PICK e \in Entries : /\ e = [seen |-> TRUE, last |-> h.socket, judged |-> j]
                            /\ e.seen /\ e.last = h.socket /\ e.judged = j
  <2> DEFINE e == [seen |-> TRUE, last |-> h.socket, judged |-> j]
  <2>1. e \in Entries BY <1>5 DEF Entries
  <2>2. e.seen /\ e.last = h.socket /\ e.judged = j OBVIOUS
  <2> QED BY <2>1, <2>2
<1>15. /\ health' \in Seq(Entries) /\ DOMAIN health' = DOMAIN known
       /\ health'[c] = e /\ \A i \in DOMAIN known : i # c => health'[i] = known[i]
  <2>1. health' = [known EXCEPT ![c] = e] BY <1>8, <1>14, <1>18
  <2>2. health' \in Seq(Entries) BY <1>11, <1>13, <2>1, ExceptSeq
  <2> QED BY <1>11, <2>1, <2>2
<1>16. ASSUME NEW i \in Nat PROVE Alternates(i)' /\ StaysApart(i)' /\ LastWord(i)'
  <2>1. Taken(i, n, h) /\ Alternates(i) /\ StaysApart(i) /\ LastWord(i) BY <1>4 DEF StudioInv
  <2>2. i \in DOMAIN lamps => i \in DOMAIN lamps' BY <1>8
  <2>3. 1 \notin Ups(i) /\ 1 \notin Downs(i) BY <1>5, <2>1 DEF Taken
  <2>4. (0 \in Ups(i)') <=> (1 \in Ups(i) \/ (0 \in Ups(i) /\ 1 \notin Downs(i)))
    BY <1>8, <2>1, <2>3 DEF Taken
  <2>5. /\ (1 \in Downs(i) \/ (0 \in Downs(i) /\ 1 \notin Ups(i))) => 0 \in Downs(i)'
        /\ 0 \in Downs(i)' => (1 \in Downs(i) \/ 0 \in Downs(i) \/ i \notin DOMAIN lamps)
        /\ (1 \in Ups(i) \/ 1 \in Counts(i)) => (0 \in Downs(i)' => (0 \in Downs(i) \/ i \notin DOMAIN lamps))
    BY <1>8, <2>1, <2>3 DEF Taken
  <2>6. (0 \in Counts(i)') => /\ 1 \in Counts(i) \/ 0 \in Counts(i)
                             /\ SocketAt(i, 0)' = IF 1 \in Counts(i) THEN SocketAt(i, 1) ELSE SocketAt(i, 0)
    <3>1. CASE i = c
      <4>1. 1 \in Counts(i) /\ SocketAt(i, 1) = h.socket BY <1>5, <1>6, <2>1, <3>1 DEF Taken
      <4>2. SocketAt(i, 0)' = h.socket BY <1>14, <1>15, <2>1, <3>1 DEF Taken
      <4> QED BY <4>1, <4>2
    <3>2. CASE i # c
      <4>1. 1 \notin Counts(i) BY <1>6, <2>1, <3>2 DEF Taken
      <4>2. SUFFICES ASSUME 0 \in Counts(i)'
                     PROVE  0 \in Counts(i) /\ SocketAt(i, 0)' = SocketAt(i, 0)
        BY <4>1
      <4>3. i \in DOMAIN known /\ known[i].seen /\ health'[i] = known[i] BY <1>15, <2>1, <3>2, <4>2 DEF Taken
      <4>4. i \in DOMAIN health /\ known[i] = health[i] BY <1>10, <1>11, <4>3
      <4> QED BY <2>1, <4>3, <4>4 DEF Taken
    <3> QED BY <3>1, <3>2
  <2> QED BY <1>1, <1>2, <2>1, <2>2, <2>3, <2>4, <2>5, <2>6, StudioShift DEF Taken
<1>17. Studio!HealthIsOfOneSocket'
  <2>1. \A i \in DOMAIN known : i # c => known[i].judged[1] = known[i].judged[2]
    BY <1>10, <1>11 DEF StudioInv, Studio!HealthIsOfOneSocket
  <2> QED BY <1>14, <1>15, <1>18, <2>1 DEF Studio!HealthIsOfOneSocket
<1> QED BY <1>1, <1>4, <1>8, <1>15, <1>16, <1>17 DEF StudioTypes

-----------------------------------------------------------------------------
LEMMA StudioCleared ==
  ASSUME NEW n \in Nat
  PROVE  /\ [i \in 1 .. n |-> FALSE] \in Seq(BOOLEAN)
         /\ [i \in 1 .. n |-> Studio!NoEntry] \in Seq(Entries)
         /\ Studio!Down(n) \in Seq([up : BOOLEAN, socket : Nat])
         /\ \A i \in 1 .. n : ~Studio!Down(n)[i].up
         /\ DOMAIN Studio!Down(n) = 1 .. n
<1>1. Studio!NoEntry \in Entries
  <2>1. <<0, 0>> \in Nat \X Nat OBVIOUS
  <2> QED BY <2>1 DEF Entries, Studio!NoEntry
<1>2. [up |-> FALSE, socket |-> 0] \in [up : BOOLEAN, socket : Nat] OBVIOUS
<1>3. [i \in 1 .. n |-> FALSE] \in Seq(BOOLEAN) BY IsASeq
<1>4. [i \in 1 .. n |-> Studio!NoEntry] \in Seq(Entries) BY <1>1, IsASeq
<1>5. Studio!Down(n) \in Seq([up : BOOLEAN, socket : Nat]) BY <1>2, IsASeq DEF Studio!Down
<1>6. DOMAIN Studio!Down(n) = 1 .. n /\ \A i \in 1 .. n : ~Studio!Down(n)[i].up BY DEF Studio!Down
<1> QED BY <1>3, <1>4, <1>5, <1>6

(* A start is told nothing before, ...                                      *)
LEMMA StudioStarts ==
  ASSUME StudioInv, Studio!StartRecording
  PROVE  StudioTypes' /\ \A i \in Nat : Alternates(i)' /\ StaysApart(i)' /\ LastWord(i)'
<1>1. /\ posted = <<>> /\ posted' = <<>> /\ onAir' = TRUE /\ again' = onAir /\ listed' = listed
      /\ links' = IF onAir THEN links ELSE Studio!Down(listed)
      /\ lamps' = [i \in 1 .. listed |-> FALSE]
      /\ health' = [i \in 1 .. listed |-> Studio!NoEntry]
  BY DEF Studio!StartRecording
<1>2. StudioTypes /\ listed \in Nat BY DEF StudioInv, StudioTypes
<1>3. StudioTypes'
  <2>1. posted' \in Seq(Signals) /\ listed' \in Nat /\ onAir' = TRUE /\ again' \in BOOLEAN
    BY <1>1, <1>2 DEF StudioTypes
  <2>2. lamps' \in Seq(BOOLEAN) BY <1>1, <1>2, StudioCleared
  <2>3. health' \in Seq(Entries) BY <1>1, <1>2, StudioCleared
  <2>4. links' \in Seq([up : BOOLEAN, socket : Nat])
    <3>1. CASE onAir BY <1>1, <1>2, <3>1 DEF StudioTypes
    <3>2. CASE ~onAir BY <1>1, <1>2, <3>2, StudioCleared
    <3> QED BY <3>1, <3>2
  <2> QED BY <2>1, <2>2, <2>3, <2>4 DEF StudioTypes
<1>4. ASSUME NEW i \in Nat PROVE Alternates(i)' /\ StaysApart(i)' /\ LastWord(i)'
  <2>1. Len(posted') = 0 /\ 0 .. Len(posted') = {0}
    <3>1. Len(posted') = 0 BY <1>1, EmptySeq
    <3> QED BY <3>1
  <2>2. \A j : j \in DOMAIN lamps' <=> j \in 1 .. listed BY <1>1
  <2>3. \A j \in 1 .. listed : lamps'[j] = FALSE /\ health'[j].seen = FALSE BY <1>1 DEF Studio!NoEntry
  <2>4. DOMAIN health' = 1 .. listed BY <1>1
  <2>5. Ups(i)' = {} BY <2>1, <2>2, <2>3 DEF Ups, Says
  <2>6. Counts(i)' = {} BY <2>1, <2>3, <2>4 DEF Counts, Counted
  <2>7. i \in 1 .. listed => 0 \in Downs(i)' BY <2>1, <2>2, <2>3 DEF Downs, Says
  <2>8. Downs(i)' \subseteq {0} BY <2>1 DEF Downs
  <2>9. Alternates(i)' BY <2>5 DEF Alternates
  <2>10. StaysApart(i)' BY <2>6 DEF StaysApart
  <2>11. LastWord(i)'
    <3>1. CASE onAir BY <1>1, <3>1 DEF LastWord
    <3>2. CASE ~onAir
      <4>1. \A j \in DOMAIN links' : j \in 1 .. listed /\ ~links'[j].up BY <1>1, <1>2, <3>2, StudioCleared
      <4> QED BY <2>2, <2>5, <2>7, <2>8, <4>1 DEF LastWord
    <3> QED BY <1>2, <3>1, <3>2 DEF StudioTypes
  <2> QED BY <2>9, <2>10, <2>11
<1> QED BY <1>3, <1>4

(* ... a stop and the import of a project only take back what is shown, ... *)
LEMMA StudioStops ==
  ASSUME StudioInv, Studio!StopRecording \/ Studio!ApplyImportPreview
  PROVE  StudioTypes' /\ \A i \in Nat : Alternates(i)' /\ StaysApart(i)' /\ LastWord(i)'
<1>1. StudioTypes /\ UNCHANGED <<posted, again>> /\ onAir' = FALSE /\ (links' = <<>> \/ (links' = links /\ ~onAir))
  BY DEF StudioInv, Studio!StopRecording, Studio!ApplyImportPreview, Studio!linkVars
<1>2. /\ listed' \in Nat /\ lamps' \in Seq(BOOLEAN) /\ health' \in Seq(Entries)
      /\ \A i \in DOMAIN lamps' : lamps'[i] = FALSE
      /\ health' = health \/ \A i \in DOMAIN health' : health'[i].seen = FALSE
  <2>1. CASE Studio!StopRecording
    <3>1. /\ listed' = listed /\ lamps' = [i \in DOMAIN lamps |-> FALSE]
          /\ health' = IF lamps = <<>> THEN health ELSE [i \in DOMAIN lamps |-> Studio!NoEntry]
      BY <2>1 DEF Studio!StopRecording
    <3>2. PICK n \in Nat : DOMAIN lamps = 1 .. n BY <1>1, LenProperties DEF StudioTypes
    <3>3. lamps' \in Seq(BOOLEAN) BY <3>1, <3>2, StudioCleared
    <3>4. health' \in Seq(Entries) BY <1>1, <3>1, <3>2, StudioCleared DEF StudioTypes
    <3> QED BY <1>1, <3>1, <3>3, <3>4 DEF StudioTypes, Studio!NoEntry
  <2>2. CASE Studio!ApplyImportPreview
    <3>1. PICK n \in 1 .. MaxListed : /\ listed' = n /\ lamps' = [i \in 1 .. n |-> FALSE]
                                      /\ health' = [i \in 1 .. n |-> Studio!NoEntry]
      BY <2>2 DEF Studio!ApplyImportPreview
    <3>2. n \in Nat BY MCAssumption DEF Studio!StudioAssumption
    <3>3. lamps' \in Seq(BOOLEAN) BY <3>1, <3>2, StudioCleared
    <3>4. health' \in Seq(Entries) BY <3>1, <3>2, StudioCleared
    <3> QED BY <3>1, <3>2, <3>3, <3>4 DEF Studio!NoEntry
  <2> QED BY <2>1, <2>2
<1>3. StudioTypes'
  <2>1. <<>> \in Seq([up : BOOLEAN, socket : Nat]) BY EmptySeq
  <2>2. links' \in Seq([up : BOOLEAN, socket : Nat]) /\ links' = <<>> BY <1>1, <2>1 DEF StudioTypes
  <2> QED BY <1>1, <1>2, <2>2 DEF StudioTypes
<1>4. ASSUME NEW i \in Nat PROVE Alternates(i)' /\ StaysApart(i)' /\ LastWord(i)'
  <2>1. Alternates(i) /\ StaysApart(i) BY DEF StudioInv
  <2>2. ~Says(i, 0, TRUE)' BY <1>2 DEF Says
  <2>3. Counted(i, 0)' => Counted(i, 0) /\ SocketAt(i, 0)' = SocketAt(i, 0)
    BY <1>2 DEF Counted, SocketAt
  <2>4. Alternates(i)' /\ StaysApart(i)' BY <1>1, <2>1, <2>2, <2>3, StudioQuieter
  <2>5. LastWord(i)' BY <1>1 DEF LastWord
  <2> QED BY <2>4, <2>5
<1> QED BY <1>3, <1>4

(* ... and the other calls of the operator touch neither signals nor what   *)
(* is shown of them.                                                        *)
StudioSilent ==
  \/ Studio!SetStreamUrls \/ Studio!AddOrRemoveStream \/ Studio!SetMultiviewCount
  \/ \E u \in Urls : Studio!SetImportSettingsUrl(u)
  \/ Studio!ReadImportSettings \/ Studio!Finished

LEMMA StudioUntouched ==
  ASSUME StudioInv, listed' \in Nat, UNCHANGED <<posted, links, lamps, health, onAir, again>>
  PROVE  StudioTypes' /\ (\A i \in Nat : Alternates(i)' /\ StaysApart(i)' /\ LastWord(i)')
         /\ Studio!HealthIsOfOneSocket'
<1>1. StudioTypes' BY DEF StudioInv, StudioTypes
<1>2. ASSUME NEW i \in Nat PROVE Alternates(i)' /\ StaysApart(i)' /\ LastWord(i)'
  <2>1. Ups(i)' = Ups(i) /\ Downs(i)' = Downs(i) BY DEF Ups, Downs, Says
  <2>2. Counts(i)' = Counts(i) /\ \A p : SocketAt(i, p)' = SocketAt(i, p) BY DEF Counts, Counted, SocketAt
  <2>3. Alternates(i) /\ StaysApart(i) /\ LastWord(i) BY DEF StudioInv
  <2>4. Alternates(i)' BY <2>1, <2>3 DEF Alternates
  <2>5. StaysApart(i)' BY <2>1, <2>2, <2>3 DEF StaysApart
  <2>6. LastWord(i)' BY <2>1, <2>3 DEF LastWord
  <2> QED BY <2>4, <2>5, <2>6
<1>3. Studio!HealthIsOfOneSocket' BY DEF StudioInv, Studio!HealthIsOfOneSocket
<1> QED BY <1>1, <1>2, <1>3

LEMMA StudioSilence ==
  ASSUME StudioInv, StudioSilent
  PROVE  listed' \in Nat /\ UNCHANGED <<posted, links, lamps, health, onAir, again>>
<1>1. listed \in Nat BY DEF StudioInv, StudioTypes
<1>2. MaxListed \in Nat BY MCAssumption DEF Studio!StudioAssumption
<1>3. CASE Studio!SetStreamUrls
  BY <1>2, <1>3 DEF Studio!SetStreamUrls, Studio!linkVars, Studio!shownVars
<1>4. CASE Studio!AddOrRemoveStream
  BY <1>2, <1>4 DEF Studio!AddOrRemoveStream, Studio!linkVars, Studio!shownVars
<1>5. CASE Studio!SetMultiviewCount
  BY <1>1, <1>5 DEF Studio!SetMultiviewCount, Studio!linkVars, Studio!shownVars
<1>6. CASE (\E u \in Urls : Studio!SetImportSettingsUrl(u)) \/ Studio!ReadImportSettings \/ Studio!Finished
  <2>1. UNCHANGED Studio!rest
    BY <1>6 DEF Studio!SetImportSettingsUrl, Studio!ReadImportSettings, Studio!Finished
  <2> QED BY <1>1, <2>1 DEF Studio!rest, Studio!linkVars, Studio!shownVars
<1> QED BY <1>3, <1>4, <1>5, <1>6 DEF StudioSilent

(* The worker is stopped before its providers go, and a preview lasts as    *)
(* long as its URL.                                                         *)
LEMMA StudioSafe ==
  ASSUME StudioInv, Studio!Next
  PROVE  Studio!PlaybackIsSafe' /\ Studio!PreviewIsOfUrl'
<1> USE DEF Studio!PlaybackIsSafe, Studio!PreviewIsOfUrl
<1>1. Studio!PlaybackIsSafe /\ Studio!PreviewIsOfUrl BY DEF StudioInv
<1>2. CASE Studio!StartRecording
  BY <1>1, <1>2 DEF Studio!StartRecording, Studio!RestartPlaybackWorker, Studio!importVars
<1>3. CASE Studio!StopRecording
  BY <1>1, <1>3 DEF Studio!StopRecording, Studio!importVars
<1>4. CASE Studio!SetStreamUrls
  BY <1>1, <1>4 DEF Studio!SetStreamUrls, Studio!RestartPlaybackWorker, Studio!RefreshProviders,
                    Studio!NoWorker, Studio!importVars
<1>5. CASE Studio!AddOrRemoveStream
  BY <1>1, <1>5 DEF Studio!AddOrRemoveStream, Studio!RefreshProviders, Studio!NoWorker, Studio!importVars
<1>6. CASE Studio!SetMultiviewCount
  BY <1>1, <1>6 DEF Studio!SetMultiviewCount, Studio!RefreshProviders, Studio!NoWorker, Studio!importVars
<1>7. CASE \E i \in DOMAIN links : Studio!Link(i, TRUE) \/ Studio!Link(i, FALSE) \/ Studio!ReportStats(i)
  <2>1. ASSUME NEW i \in DOMAIN links, NEW up, Studio!Link(i, up) \/ Studio!ReportStats(i)
        PROVE  UNCHANGED <<onAir, worker, edited, pending, url>>
    BY <2>1 DEF Studio!Link, Studio!ReportStats, Studio!importVars
  <2>2. UNCHANGED <<onAir, worker, edited, pending, url>> BY <1>7, <2>1
  <2> QED BY <1>1, <2>2
<1>8. CASE Studio!Deliver BY <1>1, <1>8 DEF Studio!Deliver, Studio!importVars
<1>9. CASE (\E u \in Urls : Studio!SetImportSettingsUrl(u)) \/ Studio!ReadImportSettings \/ Studio!Finished
  BY <1>1, <1>9 DEF Studio!SetImportSettingsUrl, Studio!ReadImportSettings, Studio!Finished, Studio!rest
<1>10. CASE Studio!ApplyImportPreview
  BY <1>1, <1>10 DEF Studio!ApplyImportPreview, Studio!RefreshProviders, Studio!NoWorker
<1> QED BY <1>2, <1>3, <1>4, <1>5, <1>6, <1>7, <1>8, <1>9, <1>10 DEF Studio!Next

LEMMA StudioStep == StudioInv /\ [Studio!Next]_studioOwn => StudioInv'
<1> SUFFICES ASSUME StudioInv, [Studio!Next]_studioOwn PROVE StudioInv' OBVIOUS
<1>1. CASE UNCHANGED studioOwn
  <2>1. /\ listed' \in Nat /\ UNCHANGED <<posted, links, lamps, health, onAir, again>>
        /\ UNCHANGED <<worker, edited, pending, url>>
    BY <1>1 DEF studioOwn, StudioInv, StudioTypes
  <2>2. Studio!PlaybackIsSafe' /\ Studio!PreviewIsOfUrl'
    BY <2>1 DEF StudioInv, Studio!PlaybackIsSafe, Studio!PreviewIsOfUrl
  <2> QED BY <2>1, <2>2, StudioUntouched DEF StudioInv
<1>2. CASE Studio!Next
  <2>1. Studio!PlaybackIsSafe' /\ Studio!PreviewIsOfUrl' BY <1>2, StudioSafe
  <2>2. CASE StudioSilent BY <2>1, <2>2, StudioSilence, StudioUntouched DEF StudioInv
  <2>3. CASE Studio!StartRecording \/ Studio!StopRecording \/ Studio!ApplyImportPreview
    <3>1. StudioTypes' /\ \A i \in Nat : Alternates(i)' /\ StaysApart(i)' /\ LastWord(i)'
      BY <2>3, StudioStarts, StudioStops
    <3>2. Studio!HealthIsOfOneSocket'
      <4>1. health' = health \/ \A i \in DOMAIN health' : health'[i] = Studio!NoEntry
        BY <2>3 DEF Studio!StartRecording, Studio!StopRecording, Studio!ApplyImportPreview
      <4> QED BY <4>1 DEF StudioInv, Studio!HealthIsOfOneSocket, Studio!NoEntry
    <3> QED BY <2>1, <3>1, <3>2 DEF StudioInv
  <2>4. ASSUME NEW i \in DOMAIN links, Studio!Link(i, TRUE) \/ Studio!Link(i, FALSE) \/ Studio!ReportStats(i)
        PROVE  StudioInv'
    <3>1. posted' \in Seq(Signals) /\ \A j \in Nat : Alternates(j)' /\ StaysApart(j)' /\ LastWord(j)'
      <4>1. TRUE \in BOOLEAN /\ FALSE \in BOOLEAN OBVIOUS
      <4> QED BY <2>4, <4>1, StudioLink, StudioReport
    <3>2. UNCHANGED <<lamps, health, onAir, again, listed>>
      BY <2>4 DEF Studio!Link, Studio!ReportStats, Studio!shownVars
    <3>3. links' \in Seq([up : BOOLEAN, socket : Nat]) /\ onAir
      <4>1. /\ links \in Seq([up : BOOLEAN, socket : Nat]) /\ DOMAIN links = 1 .. Len(links)
            /\ links[i].socket \in Nat /\ links # <<>>
        BY LinkFacts, LenProperties DEF StudioInv, StudioTypes
      <4>2. onAir BY <4>1 DEF StudioInv, StudioTypes
      <4>3. ASSUME NEW up \in BOOLEAN, Studio!Link(i, up)
            PROVE  links' \in Seq([up : BOOLEAN, socket : Nat])
        <5> DEFINE e == [up |-> up, socket |-> links[i].socket + IF up THEN 1 ELSE 0]
        <5>1. e \in [up : BOOLEAN, socket : Nat] BY <4>1
        <5>2. links' = [links EXCEPT ![i] = e] BY <4>3 DEF Studio!Link
        <5> HIDE DEF e
        <5> QED BY <4>1, <5>1, <5>2, ExceptSeq
      <4>4. Studio!ReportStats(i) => links' = links BY DEF Studio!ReportStats
      <4> QED BY <2>4, <4>1, <4>2, <4>3, <4>4
    <3>4. Studio!HealthIsOfOneSocket' BY <3>2 DEF StudioInv, Studio!HealthIsOfOneSocket
    <3> QED BY <2>1, <3>1, <3>2, <3>3, <3>4 DEF StudioInv, StudioTypes
  <2>5. CASE Studio!Deliver
    <3>1. /\ posted' \in Seq(Signals) /\ lamps' \in Seq(BOOLEAN) /\ health' \in Seq(Entries)
          /\ \A i \in Nat : Alternates(i)' /\ StaysApart(i)' /\ LastWord(i)'
          /\ Studio!HealthIsOfOneSocket'
      BY <2>5, StudioConnection, StudioStatistics
    <3>2. UNCHANGED <<links, onAir, again, listed>> BY <2>5 DEF Studio!Deliver
    <3> QED BY <2>1, <3>1, <3>2 DEF StudioInv, StudioTypes
  <2> QED BY <1>2, <2>2, <2>3, <2>4, <2>5 DEF Studio!Next, StudioSilent
<1> QED BY <1>1, <1>2

-----------------------------------------------------------------------------
(* The last message of a queue that is of one of some kinds.                *)
LastOf(s, K, m) ==
  \E p \in DOMAIN s : s[p] = m /\ m.kind \in K /\ \A q \in DOMAIN s : s[q].kind \in K => q <= p
Silent(s, K) == \A q \in DOMAIN s : s[q].kind \notin K

LEMMA LastOfJoined ==
  ASSUME NEW S, NEW a \in Seq(S), NEW b \in Seq(S), NEW K
  PROVE  /\ a \o b \in Seq(S)
         /\ \A m : LastOf(b, K, m) => LastOf(a \o b, K, m)
         /\ \A m : Silent(b, K) /\ LastOf(a, K, m) => LastOf(a \o b, K, m)
         /\ Silent(a, K) /\ Silent(b, K) => Silent(a \o b, K)
<1>1. PICK n \in Nat : n = Len(a) BY LenProperties
<1>2. PICK k \in Nat : k = Len(b) BY LenProperties
<1>3. PICK c : c = a \o b OBVIOUS
<1>4. /\ c \in Seq(S) /\ DOMAIN c = 1 .. n + k /\ DOMAIN a = 1 .. n /\ DOMAIN b = 1 .. k
      /\ \A i \in 1 .. n + k : c[i] = IF i <= n THEN a[i] ELSE b[i - n]
  BY <1>1, <1>2, <1>3, ConcatProperties, LenProperties
<1>5. ASSUME NEW m, LastOf(b, K, m) PROVE LastOf(c, K, m)
  <2>1. PICK p \in 1 .. k : b[p] = m /\ m.kind \in K /\ \A q \in 1 .. k : b[q].kind \in K => q <= p
    BY <1>4, <1>5 DEF LastOf
  <2>2. n + p \in 1 .. n + k /\ (n + p) - n = p /\ ~(n + p <= n) OBVIOUS
  <2>3. c[n + p] = m BY <1>4, <2>1, <2>2
  <2>4. ASSUME NEW q \in 1 .. n + k, c[q].kind \in K PROVE q <= n + p
    <3>1. CASE q <= n BY <3>1
    <3>2. CASE ~(q <= n)
      <4>1. q - n \in 1 .. k /\ c[q] = b[q - n] BY <1>4, <3>2
      <4> QED BY <2>1, <2>4, <4>1
    <3> QED BY <3>1, <3>2
  <2> QED BY <1>4, <2>1, <2>2, <2>3, <2>4 DEF LastOf
<1>6. ASSUME NEW m, Silent(b, K), LastOf(a, K, m) PROVE LastOf(c, K, m)
  <2>1. PICK p \in 1 .. n : a[p] = m /\ m.kind \in K /\ \A q \in 1 .. n : a[q].kind \in K => q <= p
    BY <1>4, <1>6 DEF LastOf
  <2>2. p \in 1 .. n + k /\ p <= n OBVIOUS
  <2>3. c[p] = m BY <1>4, <2>1, <2>2
  <2>4. ASSUME NEW q \in 1 .. n + k, c[q].kind \in K PROVE q <= p
    <3>1. CASE q <= n
      <4>1. q \in 1 .. n /\ c[q] = a[q] BY <1>4, <3>1
      <4> QED BY <2>1, <2>4, <4>1
    <3>2. CASE ~(q <= n)
      <4>1. q - n \in 1 .. k BY <3>2
      <4>2. c[q] = b[q - n] BY <1>4, <3>2
      <4> QED BY <1>4, <1>6, <2>4, <4>1, <4>2 DEF Silent
    <3> QED BY <3>1, <3>2
  <2> QED BY <1>4, <2>1, <2>2, <2>3, <2>4 DEF LastOf
<1>7. ASSUME Silent(a, K), Silent(b, K) PROVE Silent(c, K)
  <2>1. ASSUME NEW q \in 1 .. n + k PROVE c[q].kind \notin K
    <3>1. CASE q <= n
      <4>1. q \in 1 .. n /\ c[q] = a[q] BY <1>4, <3>1
      <4> QED BY <1>4, <1>7, <4>1 DEF Silent
    <3>2. CASE ~(q <= n)
      <4>1. q - n \in 1 .. k /\ c[q] = b[q - n] BY <1>4, <3>2
      <4> QED BY <1>4, <1>7, <4>1 DEF Silent
    <3> QED BY <3>1, <3>2
  <2> QED BY <1>4, <2>1 DEF Silent
<1> QED BY <1>3, <1>4, <1>5, <1>6, <1>7

LEMMA LastOfTail ==
  ASSUME NEW S, NEW s \in Seq(S), s # <<>>, NEW K
  PROVE  /\ Head(s) \in S /\ Tail(s) \in Seq(S)
         /\ Silent(s, K) => Silent(Tail(s), K) /\ Head(s).kind \notin K
         /\ \A m : LastOf(s, K, m) => \/ LastOf(Tail(s), K, m)
                                      \/ Silent(Tail(s), K) /\ m = Head(s) /\ m.kind \in K
<1>1. Len(s) \in Nat \ {0} BY EmptySeq
<1>2. PICK n \in Nat : Len(s) = n + 1
  <2>1. Len(s) - 1 \in Nat /\ Len(s) = (Len(s) - 1) + 1 BY <1>1
  <2> QED BY <2>1
<1>3. PICK t \in Seq(S) : t = Tail(s) BY HeadTailProperties
<1>4. /\ Head(s) \in S /\ DOMAIN t = 1 .. n /\ DOMAIN s = 1 .. n + 1
      /\ \A i \in 1 .. n : t[i] = s[i + 1]
  BY <1>2, <1>3, HeadTailProperties, LenProperties
<1>5. Head(s) = s[1] OBVIOUS
<1>6. \A i \in 1 .. n : i + 1 \in 1 .. n + 1 OBVIOUS
<1>7. ASSUME Silent(s, K) PROVE Silent(t, K) /\ Head(s).kind \notin K
  <2>1. 1 \in 1 .. n + 1 OBVIOUS
  <2> QED BY <1>4, <1>5, <1>6, <1>7, <2>1 DEF Silent
<1>8. ASSUME NEW m, LastOf(s, K, m)
      PROVE  LastOf(t, K, m) \/ (Silent(t, K) /\ m = Head(s) /\ m.kind \in K)
  <2>1. PICK p \in 1 .. n + 1 : s[p] = m /\ m.kind \in K /\ \A q \in 1 .. n + 1 : s[q].kind \in K => q <= p
    BY <1>4, <1>8 DEF LastOf
  <2>2. CASE p = 1
    <3>1. ASSUME NEW q \in 1 .. n PROVE t[q].kind \notin K
      <4>1. q + 1 \in 1 .. n + 1 /\ t[q] = s[q + 1] /\ ~(q + 1 <= p) BY <1>4, <2>2
      <4> QED BY <2>1, <4>1
    <3> QED BY <1>4, <1>5, <2>1, <2>2, <3>1 DEF Silent
  <2>3. CASE p # 1
    <3>1. p - 1 \in 1 .. n /\ (p - 1) + 1 = p BY <2>3
    <3>2. t[p - 1] = m BY <1>4, <2>1, <3>1
    <3>3. ASSUME NEW q \in 1 .. n, t[q].kind \in K PROVE q <= p - 1
      <4>1. q + 1 \in 1 .. n + 1 /\ s[q + 1].kind \in K BY <1>4, <3>3
      <4>2. q + 1 <= p BY <2>1, <4>1
      <4> QED BY <4>2
    <3> QED BY <1>4, <2>1, <3>1, <3>2, <3>3 DEF LastOf
  <2> QED BY <2>2, <2>3
<1> QED BY <1>3, <1>4, <1>7, <1>8

LEMMA LastOfOne ==
  ASSUME NEW m, NEW K
  PROVE  /\ m.kind \in K => LastOf(<<m>>, K, m)
         /\ m.kind \notin K => Silent(<<m>>, K)
         /\ Silent(<<>>, K)
<1>1. DOMAIN <<m>> = {1} /\ <<m>>[1] = m OBVIOUS
<1>2. DOMAIN <<>> = {} OBVIOUS
<1>3. 1 <= 1 OBVIOUS
<1> QED BY <1>1, <1>2, <1>3 DEF LastOf, Silent

-----------------------------------------------------------------------------
(* The control clients.  What is sent to them, and what they send.          *)
Transports == [playing : BOOLEAN, speed : Int, live : BOOLEAN, pos : Int]
Versions == [Control!Paths -> Nat]
Messages ==
  [kind : {"transport"}, value : Transports]
    \cup [kind : {"snapshot"}, value : [transport : Transports, others : Versions]]
    \cup [kind : Control!Paths, value : Nat]
    \cup [kind : {"ack"}, value : Nat]
Orders == {Control!Numbered(k, n) : k \in Control!Commands, n \in Nat \ {0}}

ControlTypes ==
  /\ transport \in Transports /\ others \in Versions /\ timer \in BOOLEAN
  /\ sockets \subseteq Clients
  /\ inbox \in [Clients -> Seq(Messages)] /\ outbox \in [Clients -> Seq(Orders)]
  /\ mirror \in [Clients -> [transport : Transports, others : Versions]]
  /\ believes \in [Clients -> [id : Nat, granted : BOOLEAN]]
  /\ resume \in BOOLEAN /\ surface \in [held : BOOLEAN, resume : BOOLEAN]
  /\ commanded \in Nat

TransportKinds == {"transport", "snapshot"}
OfTransport(m) == IF m.kind = "snapshot" THEN m.value.transport ELSE m.value
OfPath(m, k) == IF m.kind = "snapshot" THEN m.value.others[k] ELSE m.value

Agrees(v, t, due) ==
  /\ v.playing = t.playing /\ v.speed = t.speed /\ v.live = t.live
  /\ due \/ v.pos = t.pos

(* The last a client was sent of the transport, or what it shows where      *)
(* nothing of it is under way, is what is; and so for each other part.      *)
TransportKnown(c) ==
  \/ \E m \in Messages : LastOf(inbox[c], TransportKinds, m) /\ Agrees(OfTransport(m), transport, timer)
  \/ Silent(inbox[c], TransportKinds) /\ Agrees(mirror[c].transport, transport, timer)
PathKnown(c, k) ==
  \/ \E m \in Messages : LastOf(inbox[c], {k, "snapshot"}, m) /\ OfPath(m, k) = others[k]
  \/ Silent(inbox[c], {k, "snapshot"}) /\ mirror[c].others[k] = others[k]

(* A hold that is granted, or about to be read as granted, is held, and     *)
(* nothing on the way to the server says otherwise.                         *)
Granted(c) ==
  \/ believes[c].granted
  \/ \E p \in DOMAIN inbox[c] :
       inbox[c][p].kind = "ack" /\ inbox[c][p].value = believes[c].id /\ believes[c].id > 0
Holds(c) ==
  /\ believes[c].id <= commanded
  /\ \A p \in DOMAIN inbox[c] : inbox[c][p].kind = "ack" => inbox[c][p].value <= commanded
  /\ \A p \in DOMAIN outbox[c] : outbox[c][p].id <= commanded
  /\ \A p, q \in DOMAIN outbox[c] : p < q => outbox[c][p].id < outbox[c][q].id
  /\ believes[c].id > 0 =>
       \A p \in DOMAIN outbox[c] :
         /\ outbox[c][p].name = "holdSpeed" => outbox[c][p].id <= believes[c].id
         /\ outbox[c][p].id = believes[c].id => outbox[c][p].name = "holdSpeed" /\ outbox[c][p].on
  /\ Granted(c) => /\ holder = c
                   /\ \A p \in DOMAIN outbox[c] : outbox[c][p].name # "holdSpeed"
Absent(c) == inbox[c] = <<>> /\ outbox[c] = <<>> /\ believes[c] = Control!NoHold

ControlInv ==
  /\ ControlTypes
  /\ \A c \in sockets : TransportKnown(c) /\ \A k \in Control!Paths : PathKnown(c, k)
  /\ \A c \in Clients : Holds(c) /\ (c \notin sockets => Absent(c))
  /\ holder # Control!None => holder \in sockets

LEMMA ControlTruth == ControlInv => Control!HoldBelongsToClient /\ Control!MirrorsAgree
<1> SUFFICES ASSUME ControlInv PROVE Control!HoldBelongsToClient /\ Control!MirrorsAgree OBVIOUS
<1>1. Control!HoldBelongsToClient
  BY DEF ControlInv, ControlTypes, Holds, Granted, Control!HoldBelongsToClient
<1>2. ASSUME NEW c \in sockets, inbox[c] = <<>>
      PROVE  /\ mirror[c].others = others
             /\ \A f \in {"playing", "speed", "live"} : mirror[c].transport[f] = transport[f]
             /\ timer \/ mirror[c].transport.pos = transport.pos
  <2>1. DOMAIN inbox[c] = {} BY <1>2
  <2>2. \A K, m : ~LastOf(inbox[c], K, m) BY <2>1 DEF LastOf
  <2>3. Agrees(mirror[c].transport, transport, timer) BY <2>2 DEF ControlInv, TransportKnown
  <2>4. \A k \in Control!Paths : mirror[c].others[k] = others[k] BY <2>2 DEF ControlInv, PathKnown
  <2>5. mirror[c].others \in Versions /\ others \in Versions BY DEF ControlInv, ControlTypes
  <2>6. mirror[c].others = others BY <2>4, <2>5 DEF Versions
  <2> QED BY <2>3, <2>6 DEF Agrees
<1> QED BY <1>1, <1>2 DEF Control!MirrorsAgree

LEMMA ControlStart == Control!Init => ControlInv
<1> SUFFICES ASSUME Control!Init PROVE ControlInv OBVIOUS
<1> USE DEF Control!Init
<1>1. DOMAIN <<>> = {} /\ <<>> \in Seq(Messages) /\ <<>> \in Seq(Orders) BY EmptySeq
<1>2. Control!Stopped \in Transports BY DEF Transports, Control!Stopped
<1>3. Control!Fresh \in Versions BY DEF Versions, Control!Fresh
<1>4. Control!NoHold \in [id : Nat, granted : BOOLEAN] BY DEF Control!NoHold
<1>5. ControlTypes BY <1>1, <1>2, <1>3, <1>4 DEF ControlTypes
<1>6. ASSUME NEW c \in Clients PROVE Holds(c) /\ Absent(c)
  BY <1>1, <1>6 DEF Holds, Absent, Granted, Control!NoHold
<1> QED BY <1>5, <1>6 DEF ControlInv

-----------------------------------------------------------------------------
(* What a call does to the transport, and has published of it.              *)
RunTypes == [t : Transports, timer : BOOLEAN, out : Seq(Messages)]
Runs(run) ==
  /\ run \in RunTypes /\ \A p \in DOMAIN run.out : run.out[p].kind = "transport"
  /\ \/ \E m \in Messages : LastOf(run.out, TransportKinds, m) /\ Agrees(OfTransport(m), run.t, run.timer)
     \/ run.out = <<>> /\ Agrees(transport, run.t, run.timer) /\ (timer => run.timer)

LEMMA TransportFields ==
  ASSUME NEW t \in Transports
  PROVE  /\ \A b \in BOOLEAN : [t EXCEPT !["playing"] = b] \in Transports
         /\ \A b \in BOOLEAN : [t EXCEPT !["live"] = b] \in Transports
         /\ \A n \in Int : [t EXCEPT !["speed"] = n] \in Transports
         /\ \A n \in Int : [t EXCEPT !.pos = n] \in Transports
BY DEF Transports

LEMMA RunBegins == ControlTypes => Runs(Control!Run)
<1> SUFFICES ASSUME ControlTypes PROVE Runs(Control!Run) OBVIOUS
<1>1. <<>> \in Seq(Messages) /\ DOMAIN <<>> = {} BY EmptySeq
<1>2. Control!Run \in RunTypes BY <1>1 DEF ControlTypes, Control!Run, RunTypes
<1>3. Control!Run.out = <<>> /\ Agrees(transport, Control!Run.t, Control!Run.timer) /\ (timer => Control!Run.timer)
  BY DEF Control!Run, Agrees
<1> QED BY <1>1, <1>2, <1>3 DEF Runs

LEMMA RunMoves ==
  ASSUME NEW run, Runs(run), NEW n \in Int
  PROVE  Runs(Control!Move(run, n)) /\ Control!Move(run, n).t.playing = run.t.playing
<1>1. run.t \in Transports /\ run.out \in Seq(Messages) /\ run \in RunTypes BY DEF Runs, RunTypes
<1>2. PICK t \in Transports : t = [run.t EXCEPT !.pos = n] BY <1>1, TransportFields
<1>3. Control!Move(run, n) = [t |-> t, timer |-> TRUE, out |-> run.out]
  <2>1. Control!Move(run, n) = [run EXCEPT !.t = t, !.timer = TRUE] BY <1>1, <1>2 DEF Control!Move, RunTypes
  <2>2. run = [t |-> run.t, timer |-> run.timer, out |-> run.out] BY <1>1 DEF RunTypes
  <2> QED BY <2>1, <2>2
<1>4. t.playing = run.t.playing /\ t.speed = run.t.speed /\ t.live = run.t.live BY <1>1, <1>2 DEF Transports
<1>5. PICK next : next = Control!Move(run, n) OBVIOUS
<1>6. next \in RunTypes /\ next.t = t /\ next.timer = TRUE /\ next.out = run.out
  BY <1>1, <1>3, <1>5 DEF RunTypes
<1>7. CASE run.out = <<>> /\ Agrees(transport, run.t, run.timer) /\ (timer => run.timer)
  <2>1. Agrees(transport, next.t, next.timer) BY <1>4, <1>6, <1>7 DEF Agrees
  <2> QED BY <1>4, <1>5, <1>6, <1>7, <2>1 DEF Runs
<1>8. CASE \E m \in Messages : LastOf(run.out, TransportKinds, m) /\ Agrees(OfTransport(m), run.t, run.timer)
  <2>1. PICK m \in Messages : LastOf(run.out, TransportKinds, m) /\ Agrees(OfTransport(m), run.t, run.timer)
    BY <1>8
  <2>2. Agrees(OfTransport(m), next.t, next.timer) BY <1>4, <1>6, <2>1 DEF Agrees
  <2> QED BY <1>4, <1>5, <1>6, <2>1, <2>2 DEF Runs
<1> QED BY <1>7, <1>8 DEF Runs

LEMMA RunSets ==
  ASSUME NEW run, Runs(run), NEW field, NEW value, [run.t EXCEPT ![field] = value] \in Transports
  PROVE  Runs(Control!Set(run, field, value))
<1>1. CASE run.t[field] = value BY <1>1 DEF Control!Set
<1>2. CASE run.t[field] # value
  <2>1. run.out \in Seq(Messages) BY DEF Runs, RunTypes
  <2>2. PICK t \in Transports : t = [run.t EXCEPT ![field] = value] OBVIOUS
  <2>3. PICK m : m = Control!TransportMessage(t) OBVIOUS
  <2>4. m \in Messages /\ m.kind = "transport" /\ m.value = t
    BY <2>3 DEF Messages, Control!TransportMessage
  <2>5. PICK more : more = Append(run.out, m) OBVIOUS
  <2>6. Control!Set(run, field, value) = [t |-> t, timer |-> FALSE, out |-> more]
    BY <1>2, <2>2, <2>3, <2>5 DEF Control!Set
  <2>7. PICK next : next = Control!Set(run, field, value) OBVIOUS
  <2>8. /\ more \in Seq(Messages) /\ DOMAIN more = DOMAIN run.out \cup {Len(run.out) + 1}
        /\ \A p \in DOMAIN run.out : more[p] = run.out[p]
        /\ more[Len(run.out) + 1] = m /\ \A p \in DOMAIN more : p <= Len(run.out) + 1
    <3>1. more \in Seq(Messages) /\ Len(more) = Len(run.out) + 1
      BY <2>1, <2>4, <2>5, AppendProperties
    <3>2. \A p \in 1 .. Len(run.out) : more[p] = run.out[p] BY <2>1, <2>4, <2>5, AppendProperties
    <3>3. more[Len(run.out) + 1] = m BY <2>1, <2>4, <2>5, AppendProperties
    <3>4. DOMAIN more = 1 .. Len(run.out) + 1 /\ DOMAIN run.out = 1 .. Len(run.out) /\ Len(run.out) \in Nat
      BY <2>1, <3>1, LenProperties
    <3> QED BY <3>1, <3>2, <3>3, <3>4
  <2>9. next \in RunTypes /\ next.t = t /\ next.timer = FALSE /\ next.out = more
    BY <2>6, <2>7, <2>8 DEF RunTypes
  <2>10. LastOf(more, TransportKinds, m) BY <2>4, <2>8 DEF LastOf, TransportKinds
  <2>11. \A p \in DOMAIN more : more[p].kind = "transport" BY <2>4, <2>8 DEF Runs
  <2>12. Agrees(OfTransport(m), next.t, next.timer) BY <2>4, <2>9 DEF Agrees, OfTransport
  <2> QED BY <2>4, <2>7, <2>9, <2>10, <2>11, <2>12 DEF Runs
<1> QED BY <1>1, <1>2

LEMMA RunSetsFields ==
  ASSUME NEW run, Runs(run)
  PROVE  /\ \A b \in BOOLEAN : Runs(Control!Playing(run, b)) /\ Runs(Control!Live(run, b))
         /\ \A n \in Int : Runs(Control!Speed(run, n))
         /\ run.t.playing \in BOOLEAN
<1>1. run.t \in Transports BY DEF Runs, RunTypes
<1>2. \A b \in BOOLEAN : Runs(Control!Playing(run, b))
  BY <1>1, TransportFields, RunSets DEF Control!Playing
<1>3. \A b \in BOOLEAN : Runs(Control!Live(run, b))
  BY <1>1, TransportFields, RunSets DEF Control!Live
<1>4. \A n \in Int : Runs(Control!Speed(run, n))
  BY <1>1, TransportFields, RunSets DEF Control!Speed
<1> QED BY <1>1, <1>2, <1>3, <1>4 DEF Transports

LEMMA EffectRuns ==
  ASSUME ControlTypes
  PROVE  /\ \A command : Runs(Control!Effect(command))
         /\ Runs(Control!LetGo) /\ Runs(Control!Playing(Control!Speed(Control!Run, 2), TRUE))
         /\ \A c : Runs(Control!ReleaseHold(c))
<1>1. Runs(Control!Run) BY RunBegins
<1>2. PICK run : run = Control!Run OBVIOUS
<1>3. Runs(run) BY <1>1, <1>2
<1>4. 1 \in Int /\ 2 \in Int /\ -5 \in Int /\ 0 \in Int /\ MaxPos \in Int /\ TRUE \in BOOLEAN /\ FALSE \in BOOLEAN
  BY MCAssumption DEF Control!ControlAssumption
<1>5. resume \in BOOLEAN /\ surface.resume \in BOOLEAN BY DEF ControlTypes
<1>6. Runs(Control!PlayPause(run))
  <2>1. PICK off : off = Control!Live(run, FALSE) OBVIOUS
  <2>2. Runs(off) BY <1>3, <1>4, <2>1, RunSetsFields
  <2>3. PICK fast : fast = IF ~off.t.playing /\ off.t.speed = 0 THEN Control!Speed(off, 1) ELSE off OBVIOUS
  <2>4. Runs(fast) BY <1>4, <2>2, <2>3, RunSetsFields
  <2>5. PICK on \in BOOLEAN : on = ~off.t.playing BY <2>2, RunSetsFields
  <2>6. Control!PlayPause(run) = Control!Playing(fast, on) BY <2>1, <2>3, <2>5 DEF Control!PlayPause
  <2> QED BY <2>4, <2>5, <2>6, RunSetsFields
<1>7. Runs(Control!GoLive(run))
  BY <1>3, <1>4, RunSetsFields, RunMoves DEF Control!GoLive
<1>8. Runs(Control!Seek(run)) BY <1>3, <1>4, RunSetsFields, RunMoves DEF Control!Seek
<1>9. Runs(Control!ToggleRecording(run))
  BY <1>3, <1>4, RunSetsFields, RunMoves DEF Control!ToggleRecording
<1>10. Runs(Control!Press(run)) BY <1>3, <1>4, RunSetsFields DEF Control!Press
<1>11. Runs(Control!Release(run)) BY <1>3, <1>4, <1>5, RunSetsFields DEF Control!Release
<1>12. \A command : Runs(Control!Effect(command))
  <2> SUFFICES ASSUME NEW command PROVE Runs(Control!Effect(command)) OBVIOUS
  <2>1. Control!Effect(command) \in
          {Control!PlayPause(run), Control!GoLive(run), Control!Seek(run), Control!ToggleRecording(run),
           Control!Press(run), Control!Release(run), run}
    BY <1>2 DEF Control!Effect
  <2> QED BY <1>3, <1>6, <1>7, <1>8, <1>9, <1>10, <1>11, <2>1
<1>13. Runs(Control!LetGo) BY <1>2, <1>3, <1>4, <1>5, RunSetsFields DEF Control!LetGo
<1>14. Runs(Control!Playing(Control!Speed(run, 2), TRUE)) BY <1>3, <1>4, RunSetsFields
<1>15. \A c : Runs(Control!ReleaseHold(c)) BY <1>1, <1>13 DEF Control!ReleaseHold
<1> QED BY <1>2, <1>12, <1>13, <1>14, <1>15

-----------------------------------------------------------------------------
(* Messages that tell of all that a step changes.                           *)
Reports(more) ==
  /\ \/ \E m \in Messages : LastOf(more, TransportKinds, m) /\ Agrees(OfTransport(m), transport', timer')
     \/ Silent(more, TransportKinds) /\ Agrees(transport, transport', timer') /\ (timer => timer')
  /\ \A k \in Control!Paths :
       \/ \E m \in Messages : LastOf(more, {k, "snapshot"}, m) /\ OfPath(m, k) = others'[k]
       \/ Silent(more, {k, "snapshot"}) /\ others'[k] = others[k]

LEMMA ReportsReach ==
  ASSUME ControlTypes, NEW c \in Clients, TransportKnown(c), \A k \in Control!Paths : PathKnown(c, k),
         NEW more \in Seq(Messages), Reports(more),
         inbox'[c] = inbox[c] \o more, mirror'[c] = mirror[c]
  PROVE  TransportKnown(c)' /\ \A k \in Control!Paths : PathKnown(c, k)'
<1>1. inbox[c] \in Seq(Messages) BY DEF ControlTypes
<1>2. TransportKnown(c)'
  <2>1. CASE \E m \in Messages : LastOf(more, TransportKinds, m) /\ Agrees(OfTransport(m), transport', timer')
    BY <1>1, <2>1, LastOfJoined DEF TransportKnown
  <2>2. CASE Silent(more, TransportKinds) /\ Agrees(transport, transport', timer') /\ (timer => timer')
    <3>1. \A v : Agrees(v, transport, timer) => Agrees(v, transport', timer')
      BY <2>2 DEF Agrees
    <3> QED BY <1>1, <2>2, <3>1, LastOfJoined DEF TransportKnown
  <2> QED BY <2>1, <2>2 DEF Reports
<1>3. ASSUME NEW k \in Control!Paths PROVE PathKnown(c, k)'
  <2>1. CASE \E m \in Messages : LastOf(more, {k, "snapshot"}, m) /\ OfPath(m, k) = others'[k]
    BY <1>1, <2>1, LastOfJoined DEF PathKnown
  <2>2. CASE Silent(more, {k, "snapshot"}) /\ others'[k] = others[k]
    BY <1>1, <2>2, LastOfJoined DEF PathKnown
  <2> QED BY <2>1, <2>2 DEF Reports
<1> QED BY <1>2, <1>3

(* A run's own messages report it where nothing else changes, ...           *)
LEMMA RunReports ==
  ASSUME NEW run, Runs(run), transport' = run.t, timer' = run.timer, others' = others
  PROVE  run.out \in Seq(Messages) /\ Reports(run.out)
<1>1. run.out \in Seq(Messages) BY DEF Runs, RunTypes
<1>2. ASSUME NEW k \in Control!Paths PROVE Silent(run.out, {k, "snapshot"})
  BY DEF Runs, Silent, Control!Paths
<1>3. Silent(<<>>, TransportKinds) BY LastOfOne
<1>4. CASE run.out = <<>> /\ Agrees(transport, run.t, run.timer) /\ (timer => run.timer)
  BY <1>1, <1>2, <1>3, <1>4 DEF Reports
<1>5. CASE \E m \in Messages : LastOf(run.out, TransportKinds, m) /\ Agrees(OfTransport(m), run.t, run.timer)
  BY <1>1, <1>2, <1>5 DEF Reports
<1> QED BY <1>4, <1>5 DEF Runs

(* ... an acknowledgement adds nothing, ...                                 *)
LEMMA AcksSilent ==
  ASSUME NEW more \in Seq(Messages), Reports(more), NEW extra \in Seq(Messages),
         \A p \in DOMAIN extra : extra[p].kind = "ack"
  PROVE  more \o extra \in Seq(Messages) /\ Reports(more \o extra)
<1>1. Silent(extra, TransportKinds) BY DEF Silent, TransportKinds
<1>2. \A k \in Control!Paths : Silent(extra, {k, "snapshot"}) BY DEF Silent, Control!Paths
<1> QED BY <1>1, <1>2, LastOfJoined DEF Reports

(* ... and a part that changed is told in a message of its own.             *)
Touches == Control!Paths \cup {Control!None}

LEMMA PublishReports ==
  ASSUME ControlTypes, NEW run, Runs(run), NEW path \in Touches,
         transport' = run.t, timer' = run.timer, others' = Control!Bump(path),
         NEW all, all = run.out \o Control!News(path, run.t, Control!Bump(path))
  PROVE  /\ others' \in Versions
         /\ all \in Seq(Messages) /\ Reports(all)
         /\ \A p \in DOMAIN all : all[p].kind # "ack"
<1>1. run.out \in Seq(Messages) /\ \A p \in DOMAIN run.out : run.out[p].kind = "transport"
  BY DEF Runs, RunTypes
<1>2. others' \in Versions
  BY DEF ControlTypes, Versions, Control!Bump
<1>3. CASE path = Control!None
  <2>1. Control!News(path, run.t, Control!Bump(path)) = <<>> BY <1>3 DEF Control!News
  <2>2. all = run.out BY <1>1, <2>1, ConcatEmptySeq
  <2>3. others' = others BY <1>3 DEF ControlTypes, Versions, Control!Bump, Control!Paths, Control!None
  <2>4. Reports(all) BY <2>2, <2>3, RunReports
  <2> QED BY <1>1, <1>2, <2>2, <2>4
<1>4. CASE path # Control!None
  <2>1. PICK p \in Control!Paths : path = p BY <1>4 DEF Touches
  <2>2. PICK m : m = Control!Published(p, run.t, others') OBVIOUS
  <2>3. Control!News(path, run.t, Control!Bump(path)) = <<m>> BY <1>4, <2>1, <2>2 DEF Control!News
  <2>4. PICK told : told = <<m>> OBVIOUS
  <2>5. all = run.out \o told BY <2>3, <2>4
  <2>6. m \in Messages /\ m.kind # "ack" /\ m.kind = IF p = "rest" THEN "snapshot" ELSE p
    <3>1. run.t \in Transports BY DEF Runs, RunTypes
    <3>2. others'[p] \in Nat BY <1>2 DEF Versions
    <3>3. CASE p = "rest"
      <4>1. m = [kind |-> "snapshot", value |-> [transport |-> run.t, others |-> others']]
        BY <2>2, <3>3 DEF Control!Published, Control!SnapshotMessage, Control!State
      <4> QED BY <1>2, <3>1, <3>3, <4>1 DEF Messages
    <3>4. CASE p # "rest"
      <4>1. m = [kind |-> p, value |-> others'[p]]
        BY <2>2, <3>4 DEF Control!Published, Control!PathMessage
      <4> QED BY <3>2, <3>4, <4>1 DEF Messages, Control!Paths
    <3> QED BY <3>3, <3>4
  <2>7. told \in Seq(Messages) /\ DOMAIN told = {1} /\ told[1] = m BY <2>4, <2>6
  <2>8. all \in Seq(Messages) BY <1>1, <2>5, <2>7, LastOfJoined
  <2>13. ASSUME NEW K
         PROVE  /\ Silent(run.out, K) /\ Silent(told, K) => Silent(all, K)
                /\ \A n : LastOf(told, K, n) => LastOf(all, K, n)
                /\ \A n : Silent(told, K) /\ LastOf(run.out, K, n) => LastOf(all, K, n)
    <3>1. told \in Seq(Messages) BY <2>7
    <3>2. PICK out \in Seq(Messages) : out = run.out BY <1>1
    <3>3. Silent(out, K) /\ Silent(told, K) => Silent(out \o told, K) BY <3>1, LastOfJoined
    <3>4. \A n : LastOf(told, K, n) => LastOf(out \o told, K, n) BY <3>1, LastOfJoined
    <3>5. \A n : Silent(told, K) /\ LastOf(out, K, n) => LastOf(out \o told, K, n) BY <3>1, LastOfJoined
    <3> QED BY <2>5, <3>2, <3>3, <3>4, <3>5
  <2>9. \A q \in DOMAIN all : all[q].kind # "ack"
    <3>1. Silent(run.out, {"ack"}) BY <1>1 DEF Silent
    <3>2. Silent(told, {"ack"})
      <4>1. m.kind # "ack" BY <2>6
      <4>2. \A q \in DOMAIN told : told[q] = m BY <2>7
      <4> QED BY <4>1, <4>2 DEF Silent
    <3>3. Silent(all, {"ack"}) BY <2>13, <3>1, <3>2
    <3> QED BY <3>3 DEF Silent
  <2>10. ASSUME NEW k \in Control!Paths
         PROVE  \/ \E n \in Messages : LastOf(all, {k, "snapshot"}, n) /\ OfPath(n, k) = others'[k]
                \/ Silent(all, {k, "snapshot"}) /\ others'[k] = others[k]
    <3>1. Silent(run.out, {k, "snapshot"}) BY <1>1 DEF Silent, Control!Paths
    <3>2. CASE m.kind \in {k, "snapshot"}
      <4>1. LastOf(told, {k, "snapshot"}, m)
        <5> DEFINE K == {k, "snapshot"}
        <5>1. m.kind \in K BY <3>2
        <5> HIDE DEF K
        <5>2. LastOf(told, K, m) BY <2>4, <5>1, LastOfOne
        <5> QED BY <5>2 DEF K
      <4>2. LastOf(all, {k, "snapshot"}, m) BY <2>13, <4>1
      <4>3. OfPath(m, k) = others'[k]
        <5>1. CASE p = "rest"
          <6>1. m.value.others = others' /\ m.kind = "snapshot"
            BY <2>2, <5>1 DEF Control!Published, Control!SnapshotMessage, Control!State
          <6> QED BY <6>1 DEF OfPath
        <5>2. CASE p # "rest"
          <6>1. m.value = others'[p] /\ m.kind = p
            BY <2>2, <5>2 DEF Control!Published, Control!PathMessage
          <6>2. p = k /\ p # "snapshot" BY <3>2, <6>1 DEF Control!Paths
          <6> QED BY <6>1, <6>2 DEF OfPath
        <5> QED BY <5>1, <5>2
      <4> QED BY <2>6, <4>2, <4>3
    <3>3. CASE m.kind \notin {k, "snapshot"}
      <4>1. Silent(told, {k, "snapshot"})
        <5> DEFINE K == {k, "snapshot"}
        <5>1. m.kind \notin K BY <3>3
        <5> HIDE DEF K
        <5>2. Silent(told, K) BY <2>4, <5>1, LastOfOne
        <5> QED BY <5>2 DEF K
      <4>2. Silent(all, {k, "snapshot"}) BY <2>13, <3>1, <4>1
      <4>3. p # k BY <2>6, <3>3
      <4>4. others'[k] = others[k] BY <2>1, <4>3 DEF Control!Bump
      <4> QED BY <4>2, <4>4
    <3> QED BY <3>2, <3>3
  <2>11. \/ \E n \in Messages : LastOf(all, TransportKinds, n) /\ Agrees(OfTransport(n), transport', timer')
         \/ Silent(all, TransportKinds) /\ Agrees(transport, transport', timer') /\ (timer => timer')
    <3>1. CASE p = "rest"
      <4>1. m.value.transport = run.t /\ m.kind = "snapshot"
        BY <2>2, <3>1 DEF Control!Published, Control!SnapshotMessage, Control!State
      <4>2. Agrees(OfTransport(m), transport', timer') BY <4>1 DEF Agrees, OfTransport
      <4>3. LastOf(told, TransportKinds, m) BY <2>4, <4>1, LastOfOne DEF TransportKinds
      <4>4. LastOf(all, TransportKinds, m) BY <2>13, <4>3
      <4> QED BY <2>6, <4>2, <4>4
    <3>2. CASE p # "rest"
      <4>1. m.kind \notin TransportKinds BY <2>6, <3>2 DEF TransportKinds, Control!Paths
      <4>2. Silent(told, TransportKinds) BY <2>4, <4>1, LastOfOne
      <4>3. CASE \E n \in Messages : LastOf(run.out, TransportKinds, n) /\ Agrees(OfTransport(n), run.t, run.timer)
        BY <2>13, <4>2, <4>3
      <4>4. CASE run.out = <<>> /\ Agrees(transport, run.t, run.timer) /\ (timer => run.timer)
        <5>1. Silent(run.out, TransportKinds) BY <4>4, LastOfOne
        <5>2. Silent(all, TransportKinds) BY <2>13, <4>2, <5>1
        <5> QED BY <4>4, <5>2
      <4> QED BY <4>3, <4>4 DEF Runs
    <3> QED BY <3>1, <3>2
  <2>12. Reports(all) BY <2>10, <2>11 DEF Reports
  <2> QED BY <1>2, <2>8, <2>9, <2>12
<1> QED BY <1>3, <1>4

-----------------------------------------------------------------------------
(* A publication reaches every client, with what is added for one of them.  *)
Extras == {x \in [Clients -> Seq(Messages)] :
             \A c \in Clients : /\ \A p \in DOMAIN x[c] : x[c][p].kind = "ack"
                                /\ c \notin sockets => x[c] = <<>>}
(* What a client is sent that is an acknowledgement was sent before, or is  *)
(* added now.                                                               *)
AcksFrom(c, x) ==
  \A p \in DOMAIN inbox'[c] :
    inbox'[c][p].kind = "ack" => \/ \E q \in DOMAIN inbox[c] : inbox'[c][p] = inbox[c][q]
                                 \/ \E q \in DOMAIN x : inbox'[c][p] = x[q]

LEMMA Joined ==
  ASSUME NEW S, NEW a \in Seq(S), NEW b \in Seq(S)
  PROVE  /\ a \o b \in Seq(S)
         /\ \A p \in DOMAIN (a \o b) : \/ \E q \in DOMAIN a : (a \o b)[p] = a[q]
                                       \/ \E q \in DOMAIN b : (a \o b)[p] = b[q]
<1>1. PICK n \in Nat : n = Len(a) BY LenProperties
<1>2. PICK k \in Nat : k = Len(b) BY LenProperties
<1>3. PICK c : c = a \o b OBVIOUS
<1>4. /\ c \in Seq(S) /\ DOMAIN c = 1 .. n + k /\ DOMAIN a = 1 .. n /\ DOMAIN b = 1 .. k
      /\ \A i \in 1 .. n + k : c[i] = IF i <= n THEN a[i] ELSE b[i - n]
  BY <1>1, <1>2, <1>3, ConcatProperties, LenProperties
<1>5. ASSUME NEW p \in 1 .. n + k
      PROVE  (\E q \in 1 .. n : c[p] = a[q]) \/ (\E q \in 1 .. k : c[p] = b[q])
  <2>1. CASE p <= n
    <3>1. p \in 1 .. n /\ c[p] = a[p] BY <1>4, <2>1
    <3> QED BY <3>1
  <2>2. CASE ~(p <= n)
    <3>1. p - n \in 1 .. k BY <2>2
    <3>2. c[p] = b[p - n] BY <1>4, <2>2
    <3> QED BY <3>1, <3>2
  <2> QED BY <2>1, <2>2
<1> QED BY <1>3, <1>4, <1>5

LEMMA ControlPublishes ==
  ASSUME ControlInv, NEW run, Runs(run), NEW path \in Touches, NEW extra \in Extras,
         Control!Publish(run, path, extra), UNCHANGED mirror
  PROVE  /\ transport' \in Transports /\ others' \in Versions /\ timer' \in BOOLEAN
         /\ inbox' \in [Clients -> Seq(Messages)]
         /\ \A c \in Clients : /\ c \in sockets => TransportKnown(c)' /\ \A k \in Control!Paths : PathKnown(c, k)'
                               /\ c \notin sockets => inbox'[c] = inbox[c]
                               /\ AcksFrom(c, extra[c])
<1>1. PICK all : all = run.out \o Control!News(path, run.t, Control!Bump(path))
  OBVIOUS
<1>2. transport' = run.t /\ timer' = run.timer /\ others' = Control!Bump(path)
  BY DEF Control!Publish
<1>3. /\ others' \in Versions /\ all \in Seq(Messages) /\ Reports(all)
      /\ \A p \in DOMAIN all : all[p].kind # "ack"
  BY <1>1, <1>2, PublishReports DEF ControlInv
<1>4. transport' \in Transports /\ timer' \in BOOLEAN BY <1>2 DEF Runs, RunTypes
<1>5. inbox' = [c \in Clients |-> Control!Send(inbox, sockets, all)[c] \o extra[c]]
  BY <1>1 DEF Control!Publish
<1>6. ASSUME NEW c \in Clients
      PROVE  /\ inbox[c] \in Seq(Messages) /\ extra[c] \in Seq(Messages)
             /\ \A p \in DOMAIN extra[c] : extra[c][p].kind = "ack"
             /\ c \notin sockets => inbox'[c] = inbox[c] \o <<>> /\ extra[c] = <<>>
             /\ c \in sockets => inbox'[c] = (inbox[c] \o all) \o extra[c]
  BY <1>5 DEF ControlInv, ControlTypes, Extras, Control!Send
<1>7. ASSUME NEW c \in Clients, c \notin sockets
      PROVE  inbox'[c] = inbox[c] /\ inbox'[c] \in Seq(Messages) /\ AcksFrom(c, extra[c])
  <2>1. inbox'[c] = inbox[c] BY <1>6, <1>7, ConcatEmptySeq
  <2> QED BY <1>6, <2>1 DEF AcksFrom
<1>8. ASSUME NEW c \in Clients, c \in sockets
      PROVE  /\ inbox'[c] \in Seq(Messages) /\ AcksFrom(c, extra[c])
             /\ TransportKnown(c)' /\ \A k \in Control!Paths : PathKnown(c, k)'
  <2>1. PICK x \in Seq(Messages) : x = extra[c] BY <1>6
  <2> DEFINE more == all \o x
  <2>2. more \in Seq(Messages) /\ Reports(more)
    <3>1. \A p \in DOMAIN x : x[p].kind = "ack" BY <1>6, <2>1
    <3> QED BY <1>3, <3>1, AcksSilent
  <2>3. inbox'[c] = inbox[c] \o more
    <3>1. inbox'[c] = (inbox[c] \o all) \o x BY <1>6, <1>8, <2>1
    <3>2. PICK old \in Seq(Messages) : old = inbox[c] BY <1>6
    <3>4. all \in Seq(Messages) BY <1>3
    <3>3. (old \o all) \o x = old \o (all \o x) BY <3>4, ConcatAssociative
    <3> QED BY <3>1, <3>2, <3>3
  <2>4. TransportKnown(c)' /\ \A k \in Control!Paths : PathKnown(c, k)'
    BY <1>8, <2>2, <2>3, ReportsReach DEF ControlInv
  <2>5. inbox'[c] \in Seq(Messages) BY <1>6, <2>2, <2>3, Joined
  <2>6. AcksFrom(c, extra[c])
    <3> SUFFICES ASSUME NEW p \in DOMAIN inbox'[c], inbox'[c][p].kind = "ack"
                 PROVE  \/ \E q \in DOMAIN inbox[c] : inbox'[c][p] = inbox[c][q]
                        \/ \E q \in DOMAIN extra[c] : inbox'[c][p] = extra[c][q]
      BY DEF AcksFrom
    <3>7. inbox'[c][p].kind = "ack" OBVIOUS
    <3>3. PICK tail \in Seq(Messages) : tail = more BY <2>2
    <3>4. PICK old \in Seq(Messages) : old = inbox[c] BY <1>6
    <3>5. p \in DOMAIN (old \o tail) /\ inbox'[c] = old \o tail BY <2>3, <3>3, <3>4
    <3>6. \/ \E q \in DOMAIN old : (old \o tail)[p] = old[q]
          \/ \E q \in DOMAIN tail : (old \o tail)[p] = tail[q]
      BY <3>5, Joined
    <3>1. \/ \E q \in DOMAIN inbox[c] : inbox'[c][p] = inbox[c][q]
          \/ \E q \in DOMAIN more : inbox'[c][p] = more[q]
      BY <3>3, <3>4, <3>5, <3>6
    <3>2. ASSUME NEW q \in DOMAIN more, inbox'[c][p] = more[q]
          PROVE  \E r \in DOMAIN extra[c] : inbox'[c][p] = extra[c][r]
      <4>1. PICK head \in Seq(Messages) : head = all BY <1>3
      <4>4. q \in DOMAIN (head \o x) BY <4>1
      <4>2. (\E r \in DOMAIN head : (head \o x)[q] = head[r]) \/ (\E r \in DOMAIN x : (head \o x)[q] = x[r])
        BY <4>4, Joined
      <4>3. more[q].kind = "ack" BY <3>2, <3>7
      <4> QED BY <1>3, <2>1, <3>2, <4>1, <4>2, <4>3
    <3> QED BY <3>1, <3>2
  <2> QED BY <2>4, <2>5, <2>6
<1>9. inbox' \in [Clients -> Seq(Messages)] BY <1>5, <1>7, <1>8
<1> QED BY <1>3, <1>4, <1>7, <1>8, <1>9

-----------------------------------------------------------------------------
(* A client that is sent no grant keeps what it may believe, ...            *)
LEMMA HoldsKept ==
  ASSUME ControlInv, NEW c \in Clients, commanded' \in Nat, commanded <= commanded',
         believes'[c] = believes[c], outbox'[c] = outbox[c], holder = c => holder' = c,
         \A p \in DOMAIN inbox'[c] :
           inbox'[c][p].kind = "ack" => \E q \in DOMAIN inbox[c] : inbox'[c][p] = inbox[c][q]
  PROVE  Holds(c)'
<1>1. Holds(c) /\ believes[c].id \in Nat /\ commanded \in Nat BY DEF ControlInv, ControlTypes
<1>2. \A p \in DOMAIN inbox[c] : inbox[c][p].kind = "ack" => inbox[c][p].value \in Nat
  <2>1. inbox[c] \in Seq(Messages) BY DEF ControlInv, ControlTypes
  <2>2. \A p \in DOMAIN inbox[c] : inbox[c][p] \in Messages BY <2>1, LenProperties, ElementOfSeq
  <2> QED BY <2>2 DEF Messages, Control!Paths
<1>3. \A p \in DOMAIN outbox[c] : outbox[c][p].id \in Nat
  <2>1. outbox[c] \in Seq(Orders) BY DEF ControlInv, ControlTypes
  <2>2. \A p \in DOMAIN outbox[c] : outbox[c][p] \in Orders BY <2>1, LenProperties, ElementOfSeq
  <2> QED BY <2>2 DEF Orders, Control!Numbered
<1>4. Granted(c)' => Granted(c) BY DEF Granted
<1>5. believes'[c].id <= commanded' BY <1>1 DEF Holds
<1>6. \A p \in DOMAIN inbox'[c] : inbox'[c][p].kind = "ack" => inbox'[c][p].value <= commanded'
  BY <1>1, <1>2 DEF Holds
<1>7. \A p \in DOMAIN outbox'[c] : outbox'[c][p].id <= commanded' BY <1>1, <1>3 DEF Holds
<1> QED BY <1>1, <1>4, <1>5, <1>6, <1>7 DEF Holds

(* ... and one whose order is taken is granted what it now holds.           *)
LEMMA HoldsTaken ==
  ASSUME ControlInv, NEW c \in Clients, outbox[c] # <<>>, outbox'[c] = Tail(outbox[c]),
         UNCHANGED commanded, believes'[c] = believes[c],
         Head(outbox[c]).name # "holdSpeed" => (holder = c => holder' = c),
         NEW x, AcksFrom(c, x), \A q \in DOMAIN x : x[q].value \in {0, Head(outbox[c]).id},
         \A q \in DOMAIN x : (/\ x[q].value # 0 /\ Head(outbox[c]).name = "holdSpeed"
                              /\ Head(outbox[c]).on) => holder' = c
  PROVE  Holds(c)'
<1>1. Holds(c) /\ believes[c].id \in Nat /\ commanded \in Nat BY DEF ControlInv, ControlTypes
<1>2. \A p \in DOMAIN inbox[c] : inbox[c][p].kind = "ack" => inbox[c][p].value \in Nat
  <2>1. inbox[c] \in Seq(Messages) BY DEF ControlInv, ControlTypes
  <2>2. \A p \in DOMAIN inbox[c] : inbox[c][p] \in Messages BY <2>1, LenProperties, ElementOfSeq
  <2> QED BY <2>2 DEF Messages, Control!Paths
<1>3. outbox[c] \in Seq(Orders) BY DEF ControlInv, ControlTypes
<1>4. \A p \in DOMAIN outbox[c] : outbox[c][p].id \in Nat \ {0}
  <2>2. \A p \in DOMAIN outbox[c] : outbox[c][p] \in Orders BY <1>3, LenProperties, ElementOfSeq
  <2> QED BY <2>2 DEF Orders, Control!Numbered
<1>5. PICK n \in Nat : Len(outbox[c]) = n + 1
  <2>1. Len(outbox[c]) \in Nat \ {0} BY <1>3, EmptySeq
  <2>2. Len(outbox[c]) - 1 \in Nat /\ Len(outbox[c]) = (Len(outbox[c]) - 1) + 1 BY <2>1
  <2> QED BY <2>2
<1>6. PICK h : h = Head(outbox[c]) OBVIOUS
<1>7. /\ DOMAIN outbox[c] = 1 .. n + 1 /\ DOMAIN outbox'[c] = 1 .. n
      /\ \A p \in 1 .. n : outbox'[c][p] = outbox[c][p + 1]
  BY <1>3, <1>5, HeadTailProperties, LenProperties
<1>8. h = outbox[c][1] /\ h.id \in Nat \ {0} /\ 1 \in 1 .. n + 1
  <2>1. 1 \in 1 .. n + 1 OBVIOUS
  <2>2. h = outbox[c][1] BY <1>6
  <2> QED BY <1>4, <1>7, <2>1, <2>2
<1>9. \A p \in 1 .. n : p + 1 \in 1 .. n + 1 /\ 1 < p + 1 OBVIOUS
<1>10. \A p \in 1 .. n : outbox'[c][p].id <= commanded'
  BY <1>1, <1>7, <1>9 DEF Holds
<1>11. \A p, q \in 1 .. n : p < q => outbox'[c][p].id < outbox'[c][q].id
  <2> SUFFICES ASSUME NEW p \in 1 .. n, NEW q \in 1 .. n, p < q PROVE outbox'[c][p].id < outbox'[c][q].id
    OBVIOUS
  <2>1. p + 1 < q + 1 /\ p + 1 \in 1 .. n + 1 /\ q + 1 \in 1 .. n + 1 BY <1>9
  <2>2. \A a, b \in 1 .. n + 1 : a < b => outbox[c][a].id < outbox[c][b].id BY <1>1, <1>7 DEF Holds
  <2>3. outbox[c][p + 1].id < outbox[c][q + 1].id BY <2>1, <2>2
  <2>4. outbox'[c][p] = outbox[c][p + 1] /\ outbox'[c][q] = outbox[c][q + 1] BY <1>7
  <2> QED BY <2>3, <2>4
<1>12. ASSUME believes[c].id > 0, NEW p \in 1 .. n
       PROVE  /\ outbox'[c][p].name = "holdSpeed" => outbox'[c][p].id <= believes[c].id
              /\ outbox'[c][p].id = believes[c].id => outbox'[c][p].name = "holdSpeed" /\ outbox'[c][p].on
  BY <1>1, <1>7, <1>9, <1>12 DEF Holds
<1>13. \A p \in DOMAIN inbox'[c] : inbox'[c][p].kind = "ack" => inbox'[c][p].value <= commanded'
  <2> SUFFICES ASSUME NEW p \in DOMAIN inbox'[c], inbox'[c][p].kind = "ack"
               PROVE  inbox'[c][p].value <= commanded
    OBVIOUS
  <2>1. CASE \E q \in DOMAIN inbox[c] : inbox'[c][p] = inbox[c][q] BY <1>1, <2>1 DEF Holds
  <2>2. CASE \E q \in DOMAIN x : inbox'[c][p] = x[q]
    <3>1. h.id <= commanded BY <1>1, <1>7, <1>8 DEF Holds
    <3>2. inbox'[c][p].value \in {0, h.id} BY <1>6, <2>2
    <3> QED BY <1>1, <1>8, <3>1, <3>2
  <2> QED BY <2>1, <2>2 DEF AcksFrom
<1>14. ASSUME Granted(c)'
       PROVE  holder' = c /\ \A p \in 1 .. n : outbox'[c][p].name # "holdSpeed"
  <2>1. CASE Granted(c)
    <3>1. holder = c /\ \A p \in 1 .. n + 1 : outbox[c][p].name # "holdSpeed" BY <1>1, <1>7, <2>1 DEF Holds
    <3>2. holder' = c BY <1>6, <1>8, <3>1
    <3> QED BY <1>7, <1>9, <3>1, <3>2
  <2>2. CASE ~Granted(c)
    <3>1. PICK p \in DOMAIN inbox'[c] : /\ inbox'[c][p].kind = "ack" /\ inbox'[c][p].value = believes[c].id
                                        /\ believes[c].id > 0
      BY <1>14, <2>2 DEF Granted
    <3>2. ~\E q \in DOMAIN inbox[c] : inbox'[c][p] = inbox[c][q] BY <2>2, <3>1 DEF Granted
    <3>3. PICK q \in DOMAIN x : inbox'[c][p] = x[q] BY <3>1, <3>2 DEF AcksFrom
    <3>4. x[q].value = h.id /\ h.id = believes[c].id /\ x[q].value # 0 BY <1>1, <1>6, <3>1, <3>3
    <3>5. h.name = "holdSpeed" /\ h.on BY <1>1, <1>7, <1>8, <3>1, <3>4 DEF Holds
    <3>6. holder' = c BY <1>6, <3>4, <3>5
    <3>7. \A r \in 1 .. n : outbox[c][r + 1].id > believes[c].id
      <4> SUFFICES ASSUME NEW r \in 1 .. n PROVE outbox[c][r + 1].id > believes[c].id OBVIOUS
      <4>1. outbox[c][1].id < outbox[c][r + 1].id BY <1>1, <1>7, <1>8, <1>9 DEF Holds
      <4>2. outbox[c][r + 1].id \in Nat BY <1>4, <1>7, <1>9
      <4> QED BY <1>1, <1>8, <3>4, <4>1, <4>2
    <3>8. ASSUME NEW r \in 1 .. n, outbox'[c][r].name = "holdSpeed" PROVE FALSE
      <4>1. outbox'[c][r].id <= believes[c].id BY <1>12, <3>1, <3>8
      <4>2. outbox[c][r + 1].id \in Nat /\ outbox'[c][r] = outbox[c][r + 1] BY <1>4, <1>7, <1>9
      <4>3. outbox[c][r + 1].id > believes[c].id BY <3>7
      <4>4. believes[c].id \in Nat /\ outbox[c][r + 1].id \in Nat BY <1>1, <4>2
      <4>5. outbox[c][r + 1].id <= believes[c].id BY <4>1, <4>2
      <4> QED BY <4>3, <4>4, <4>5
    <3> QED BY <3>6, <3>8
  <2> QED BY <2>1, <2>2
<1> QED BY <1>1, <1>7, <1>10, <1>11, <1>12, <1>13, <1>14 DEF Holds

LEMMA OrderFacts ==
  /\ \A k \in Control!Commands : k.on \in BOOLEAN
  /\ \A k \in Control!Commands, n \in Nat \ {0} : /\ Control!Numbered(k, n) \in Orders
                                                  /\ Control!Numbered(k, n).name = k.name
                                                  /\ Control!Numbered(k, n).on = k.on
                                                  /\ Control!Numbered(k, n).id = n
  /\ \A o \in Orders : o.id \in Nat \ {0} /\ o.on \in BOOLEAN
<1>1. \A k \in Control!Commands : k.on \in BOOLEAN
  <2>1. \A k \in Control!Commands : \E name, args : \/ k = Control!Command(name, args, TRUE)
                                                    \/ k = Control!Command(name, args, FALSE)
    BY DEF Control!Commands
  <2>2. \A name, args, on : Control!Command(name, args, on).on = on BY DEF Control!Command
  <2>3. ASSUME NEW k \in Control!Commands PROVE k.on = TRUE \/ k.on = FALSE BY <2>1, <2>2
  <2> QED BY <2>3
<1>2. \A k \in Control!Commands, n \in Nat \ {0} : /\ Control!Numbered(k, n) \in Orders
                                                   /\ Control!Numbered(k, n).name = k.name
                                                   /\ Control!Numbered(k, n).on = k.on
                                                   /\ Control!Numbered(k, n).id = n
  BY DEF Orders, Control!Numbered
<1>3. ASSUME NEW o \in Orders PROVE o.id \in Nat \ {0} /\ o.on \in BOOLEAN
  <2>1. PICK k \in Control!Commands, n \in Nat \ {0} : o = Control!Numbered(k, n) BY DEF Orders
  <2> QED BY <1>1, <1>2, <2>1
<1> QED BY <1>1, <1>2, <1>3

LEMMA TouchedFew == \A command : Control!Touched(command) \in Touches
BY DEF Control!Touched, Control!Paths, Touches

LEMMA AckIsExtra ==
  ASSUME NEW c \in Clients, NEW ok, NEW o \in Orders
  PROVE  /\ Control!Ack(c, ok, o) \in Extras
         /\ \A d \in Clients : d # c => Control!Ack(c, ok, o)[d] = <<>>
         /\ \A q \in DOMAIN Control!Ack(c, ok, o)[c] : Control!Ack(c, ok, o)[c][q].value = IF ok THEN o.id ELSE 0
<1>1. PICK m : m = [kind |-> "ack", value |-> IF ok THEN o.id ELSE 0] OBVIOUS
<1>2. m \in Messages /\ m.kind = "ack" /\ m.value = IF ok THEN o.id ELSE 0
  <2>1. o.id \in Nat BY OrderFacts
  <2> QED BY <1>1, <2>1 DEF Messages
<1>3. PICK x : x = Control!Ack(c, ok, o) OBVIOUS
<1>4. x = [d \in Clients |-> IF d = c /\ c \in sockets THEN <<m>> ELSE <<>>]
  BY <1>1, <1>3 DEF Control!Ack
<1>5. <<m>> \in Seq(Messages) /\ <<>> \in Seq(Messages) /\ DOMAIN <<m>> = {1} /\ <<m>>[1] = m /\ DOMAIN <<>> = {}
  BY <1>2, EmptySeq
<1>6. \A d \in Clients : x[d] = <<>> \/ (x[d] = <<m>> /\ d = c /\ d \in sockets) BY <1>4
<1>7. \A d \in Clients : x[d] \in Seq(Messages) /\ \A p \in DOMAIN x[d] : x[d][p] = m
  BY <1>5, <1>6
<1>8. x \in [Clients -> Seq(Messages)] BY <1>4, <1>7
<1>9. x \in Extras BY <1>2, <1>6, <1>7, <1>8 DEF Extras
<1>10. \A q \in DOMAIN x[c] : x[c][q].value = IF ok THEN o.id ELSE 0 BY <1>2, <1>7
<1> QED BY <1>3, <1>6, <1>9, <1>10

(* What an order of a client comes to.                                      *)
Handles(c, run, path, ok) ==
  /\ Control!Publish(run, path, Control!Ack(c, ok, Head(outbox[c])))
  /\ resume' \in BOOLEAN /\ surface' \in [held : BOOLEAN, resume : BOOLEAN]
  /\ holder' \in {holder, Control!None, c}
  /\ \A d \in Clients : d # c /\ holder = d => holder' = d
  /\ Head(outbox[c]).name # "holdSpeed" => holder' = holder
  /\ (ok /\ Head(outbox[c]).name = "holdSpeed" /\ Head(outbox[c]).on) => holder' = c

LEMMA DispatchTypes ==
  ASSUME ControlTypes, NEW o, o.on \in BOOLEAN, Control!Dispatch(o)
  PROVE  surface' \in [held : BOOLEAN, resume : BOOLEAN]
<1>1. transport.playing \in BOOLEAN /\ surface \in [held : BOOLEAN, resume : BOOLEAN]
  BY DEF ControlTypes, Transports
<1>2. CASE o.name = "dispatch" /\ o.on # surface.held
  <2>1. surface' = [held |-> o.on, resume |-> IF o.on THEN transport.playing ELSE FALSE]
    BY <1>2 DEF Control!Dispatch, Control!Hold
  <2>2. (IF o.on THEN transport.playing ELSE FALSE) \in BOOLEAN BY <1>1
  <2> QED BY <2>1, <2>2
<1>3. CASE ~(o.name = "dispatch" /\ o.on # surface.held)
  <2>1. surface' = surface BY <1>3 DEF Control!Dispatch
  <2> QED BY <1>1, <2>1
<1> QED BY <1>2, <1>3

LEMMA OrderHandled ==
  ASSUME ControlInv, NEW c \in Clients, Control!HandleTextMessage(c)
  PROVE  \E run, ok : \E path \in Touches : Runs(run) /\ ok \in BOOLEAN /\ Handles(c, run, path, ok)
<1>1. ControlTypes /\ Control!None \in Touches BY DEF ControlInv, Touches
<1>2. PICK o : o = Head(outbox[c]) OBVIOUS
<1>3. o \in Orders /\ o.on \in BOOLEAN
  <2>1. outbox[c] # <<>> /\ outbox[c] \in Seq(Orders) BY <1>1 DEF Control!HandleTextMessage, ControlTypes
  <2> QED BY <1>2, <2>1, HeadTailProperties, OrderFacts
<1>4. CASE ~Control!Valid(o)
  <2>1. Control!Publish(Control!Run, Control!None, Control!Ack(c, FALSE, o)) /\ UNCHANGED <<holder, resume, surface>>
    BY <1>2, <1>4 DEF Control!HandleTextMessage
  <2>2. Handles(c, Control!Run, Control!None, FALSE) BY <1>1, <1>2, <2>1 DEF Handles, ControlTypes
  <2> QED BY <1>1, <2>2, RunBegins
<1>5. CASE Control!Valid(o) /\ o.name # "holdSpeed"
  <2>1. /\ Control!Publish(Control!Effect(o), Control!Touched(o), Control!Ack(c, TRUE, o))
        /\ Control!Dispatch(o) /\ UNCHANGED <<holder, resume>>
    BY <1>2, <1>5 DEF Control!HandleTextMessage
  <2>2. surface' \in [held : BOOLEAN, resume : BOOLEAN] BY <1>1, <1>3, <2>1, DispatchTypes
  <2>3. Handles(c, Control!Effect(o), Control!Touched(o), TRUE)
    BY <1>1, <1>2, <1>5, <2>1, <2>2 DEF Handles, ControlTypes
  <2> QED BY <1>1, <2>3, EffectRuns, TouchedFew
<1>6. CASE Control!Valid(o) /\ o.name = "holdSpeed"
  <2>1. Control!HoldSpeed(c, o) /\ UNCHANGED surface BY <1>2, <1>6 DEF Control!HandleTextMessage
  <2>2. CASE ~o.on
    <3>1. /\ Control!Publish(Control!ReleaseHold(c), Control!None, Control!Ack(c, TRUE, o))
          /\ holder' = Control!HolderAfter(c) /\ resume' = (holder # c /\ resume)
      BY <2>1, <2>2 DEF Control!HoldSpeed
    <3>2. /\ holder' \in {holder, Control!None, c}
          /\ \A d \in Clients : d # c /\ holder = d => holder' = d
      BY <3>1 DEF Control!HolderAfter
    <3>3. resume' \in BOOLEAN BY <3>1
    <3>4. Handles(c, Control!ReleaseHold(c), Control!None, TRUE)
      BY <1>1, <1>2, <1>6, <2>1, <2>2, <3>1, <3>2, <3>3 DEF Handles, ControlTypes
    <3> QED BY <1>1, <3>4, EffectRuns
  <2>3. CASE o.on /\ holder \notin {Control!None, c}
    <3>1. Control!Publish(Control!Run, Control!None, Control!Ack(c, FALSE, o)) /\ UNCHANGED <<holder, resume>>
      BY <2>1, <2>3 DEF Control!HoldSpeed
    <3>2. Handles(c, Control!Run, Control!None, FALSE) BY <1>1, <1>2, <2>1, <3>1 DEF Handles, ControlTypes
    <3> QED BY <1>1, <3>2, RunBegins
  <2>4. CASE o.on /\ holder \in {Control!None, c}
    <3>1. /\ Control!Publish(Control!Playing(Control!Speed(Control!Run, 2), TRUE), Control!None, Control!Ack(c, TRUE, o))
          /\ holder' = c /\ resume' = IF holder = Control!None THEN transport.playing ELSE resume
      BY <2>1, <2>4 DEF Control!HoldSpeed
    <3>2. resume' \in BOOLEAN BY <1>1, <3>1 DEF ControlTypes, Transports
    <3>3. \A d \in Clients : d # Control!None BY MCAssumption DEF Control!ControlAssumption
    <3>4. Handles(c, Control!Playing(Control!Speed(Control!Run, 2), TRUE), Control!None, TRUE)
      BY <1>1, <1>2, <1>6, <2>1, <2>4, <3>1, <3>2, <3>3 DEF Handles, ControlTypes
    <3> QED BY <1>1, <3>4, EffectRuns
  <2> QED BY <2>2, <2>3, <2>4
<1> QED BY <1>4, <1>5, <1>6

LEMMA ControlHandles ==
  ASSUME ControlInv, NEW c \in Clients, Control!HandleTextMessage(c)
  PROVE  ControlInv'
<1>1. PICK run, ok : \E path \in Touches : Runs(run) /\ ok \in BOOLEAN /\ Handles(c, run, path, ok)
  BY OrderHandled
<1>2. PICK path \in Touches : Runs(run) /\ ok \in BOOLEAN /\ Handles(c, run, path, ok) BY <1>1
<1>3. /\ c \in sockets /\ outbox[c] # <<>> /\ outbox' = [outbox EXCEPT ![c] = Tail(@)]
      /\ UNCHANGED <<sockets, mirror, believes, commanded>>
  BY DEF Control!HandleTextMessage
<1>4. ControlTypes BY DEF ControlInv
<1>5. PICK o : o = Head(outbox[c]) OBVIOUS
<1>6. o \in Orders /\ o.id \in Nat \ {0} /\ Tail(outbox[c]) \in Seq(Orders)
  <2>1. outbox[c] \in Seq(Orders) BY <1>4 DEF ControlTypes
  <2> QED BY <1>3, <1>5, <2>1, HeadTailProperties, OrderFacts
<1>7. PICK extra : extra = Control!Ack(c, ok, o) OBVIOUS
<1>8. /\ extra \in Extras /\ \A d \in Clients : d # c => extra[d] = <<>>
      /\ \A q \in DOMAIN extra[c] : extra[c][q].value = IF ok THEN o.id ELSE 0
  BY <1>6, <1>7, AckIsExtra
<1>9. Control!Publish(run, path, extra) BY <1>2, <1>5, <1>7 DEF Handles
<1>10. /\ transport' \in Transports /\ others' \in Versions /\ timer' \in BOOLEAN
       /\ inbox' \in [Clients -> Seq(Messages)]
       /\ \A d \in Clients : /\ d \in sockets => TransportKnown(d)' /\ \A k \in Control!Paths : PathKnown(d, k)'
                             /\ d \notin sockets => inbox'[d] = inbox[d]
                             /\ AcksFrom(d, extra[d])
  BY <1>2, <1>3, <1>8, <1>9, ControlPublishes
<1>11. outbox' \in [Clients -> Seq(Orders)] BY <1>3, <1>4, <1>6 DEF ControlTypes
<1>12. ControlTypes' BY <1>2, <1>3, <1>4, <1>10, <1>11 DEF ControlTypes, Handles
<1>13. ASSUME NEW d \in Clients PROVE Holds(d)'
  <2>1. commanded \in Nat BY <1>4 DEF ControlTypes
  <2>2. CASE d # c
    <3>1. outbox'[d] = outbox[d] /\ believes'[d] = believes[d] /\ (holder = d => holder' = d)
      BY <1>2, <1>3, <1>4, <2>2 DEF ControlTypes, Handles
    <3>2. \A p \in DOMAIN inbox'[d] :
            inbox'[d][p].kind = "ack" => \E q \in DOMAIN inbox[d] : inbox'[d][p] = inbox[d][q]
      BY <1>8, <1>10, <2>2 DEF AcksFrom
    <3> QED BY <1>3, <2>1, <3>1, <3>2, HoldsKept
  <2>3. CASE d = c
    <3>1. outbox'[c] = Tail(outbox[c]) BY <1>3, <1>4 DEF ControlTypes
    <3>2. PICK x : x = extra[c] OBVIOUS
    <3>3. AcksFrom(c, extra[c]) BY <1>10
    <3>4. \A q \in DOMAIN extra[c] : extra[c][q].value \in {0, Head(outbox[c]).id} BY <1>5, <1>8
    <3>5. \A q \in DOMAIN extra[c] : (/\ extra[c][q].value # 0 /\ Head(outbox[c]).name = "holdSpeed"
                                      /\ Head(outbox[c]).on) => holder' = c
      BY <1>2, <1>5, <1>8 DEF Handles
    <3>6. Head(outbox[c]).name # "holdSpeed" => (holder = c => holder' = c) BY <1>2 DEF Handles
    <3> QED BY <1>3, <2>3, <3>1, <3>3, <3>4, <3>5, <3>6, HoldsTaken
  <2> QED BY <2>2, <2>3
<1>14. \A d \in Clients : d \notin sockets' => Absent(d)'
  BY <1>3, <1>4, <1>10 DEF ControlInv, Absent, ControlTypes
<1>15. holder' # Control!None => holder' \in sockets' BY <1>2, <1>3 DEF Handles, ControlInv
<1>16. \A d \in sockets' : TransportKnown(d)' /\ \A k \in Control!Paths : PathKnown(d, k)'
  BY <1>3, <1>4, <1>10 DEF ControlTypes
<1> QED BY <1>12, <1>13, <1>14, <1>15, <1>16 DEF ControlInv

-----------------------------------------------------------------------------
(* What is published of itself is told to all and asked for by none: the    *)
(* surface, the transport's timer and the timecode.                         *)
LEMMA ControlUnasked ==
  ASSUME ControlInv, NEW run, Runs(run), Control!Publish(run, Control!None, Control!NoAck),
         surface' \in [held : BOOLEAN, resume : BOOLEAN],
         UNCHANGED <<sockets, outbox, mirror, believes, holder, resume, commanded>>
  PROVE  ControlInv'
<1>1. ControlTypes /\ Control!None \in Touches BY DEF ControlInv, Touches
<1>2. PICK extra \in Extras : extra = Control!NoAck /\ \A d \in Clients : extra[d] = <<>>
  <2>1. <<>> \in Seq(Messages) /\ DOMAIN <<>> = {} BY EmptySeq
  <2>2. \A d \in Clients : Control!NoAck[d] = <<>> BY DEF Control!NoAck
  <2>3. Control!NoAck \in [Clients -> Seq(Messages)] BY <2>1 DEF Control!NoAck
  <2>4. Control!NoAck \in Extras BY <2>1, <2>2, <2>3 DEF Extras
  <2> QED BY <2>2, <2>4
<1>3. Control!Publish(run, Control!None, extra) BY <1>2
<1>4. /\ transport' \in Transports /\ others' \in Versions /\ timer' \in BOOLEAN
      /\ inbox' \in [Clients -> Seq(Messages)]
      /\ \A d \in Clients : /\ d \in sockets => TransportKnown(d)' /\ \A k \in Control!Paths : PathKnown(d, k)'
                            /\ d \notin sockets => inbox'[d] = inbox[d]
                            /\ AcksFrom(d, extra[d])
  BY <1>1, <1>3, ControlPublishes
<1>5. ControlTypes' BY <1>1, <1>4 DEF ControlTypes
<1>6. ASSUME NEW d \in Clients PROVE Holds(d)'
  <2>1. \A p \in DOMAIN inbox'[d] :
          inbox'[d][p].kind = "ack" => \E q \in DOMAIN inbox[d] : inbox'[d][p] = inbox[d][q]
    BY <1>2, <1>4 DEF AcksFrom
  <2>2. commanded \in Nat BY <1>1 DEF ControlTypes
  <2>3. believes'[d] = believes[d] /\ outbox'[d] = outbox[d] /\ (holder = d => holder' = d) OBVIOUS
  <2>4. commanded' \in Nat /\ commanded <= commanded' BY <2>2
  <2> QED BY <2>1, <2>3, <2>4, HoldsKept
<1>7. \A d \in Clients : d \notin sockets' => Absent(d)' BY <1>4 DEF ControlInv, Absent
<1>8. \A d \in sockets' : TransportKnown(d)' /\ \A k \in Control!Paths : PathKnown(d, k)'
  BY <1>1, <1>4 DEF ControlTypes
<1>9. holder' # Control!None => holder' \in sockets' BY DEF ControlInv
<1> QED BY <1>5, <1>6, <1>7, <1>8, <1>9 DEF ControlInv

LEMMA ControlActs ==
  ASSUME ControlInv, Control!Tick \/ Control!PublishTimecode \/ \E command \in Control!Commands : Control!SurfaceActs(command)
  PROVE  ControlInv'
<1>1. ControlTypes BY DEF ControlInv
<1>2. CASE Control!Tick
  <2>1. transport.pos \in Int /\ FALSE \in BOOLEAN /\ 0 \in Int /\ Runs(Control!Run)
    BY <1>1, RunBegins DEF ControlTypes, Transports
  <2>2. Runs(Control!Move(Control!Run, transport.pos + 1)) /\ Runs(Control!Move(Control!Run, transport.pos - 1))
    BY <2>1, RunMoves
  <2>3. Runs(Control!Playing(Control!Run, FALSE)) BY <2>1, RunSetsFields
  <2>4. Runs(Control!Move(Control!Playing(Control!Run, FALSE), 0)) BY <2>1, <2>3, RunMoves
  <2>5. \E run : Runs(run) /\ Control!Publish(run, Control!None, Control!NoAck) BY <1>2, <2>2, <2>4 DEF Control!Tick
  <2>6. UNCHANGED <<sockets, outbox, mirror, believes, holder, resume, surface, commanded>> BY <1>2 DEF Control!Tick
  <2> QED BY <1>1, <2>5, <2>6, ControlUnasked DEF ControlTypes
<1>3. ASSUME NEW command \in Control!Commands, Control!SurfaceActs(command)
      PROVE  ControlInv'
  <2>1. Control!Publish(Control!Effect(command), Control!None, Control!NoAck) /\ Control!Dispatch(command)
    BY <1>3 DEF Control!SurfaceActs
  <2>2. surface' \in [held : BOOLEAN, resume : BOOLEAN] BY <1>1, <2>1, OrderFacts, DispatchTypes
  <2>3. UNCHANGED <<sockets, outbox, mirror, believes, holder, resume, commanded>> BY <1>3 DEF Control!SurfaceActs
  <2>4. Runs(Control!Effect(command)) BY <1>1, EffectRuns
  <2> QED BY <2>1, <2>2, <2>3, <2>4, ControlUnasked
<1>4. CASE Control!PublishTimecode
  <2>1. PICK m : m = Control!TransportMessage(transport) OBVIOUS
  <2>2. m \in Messages /\ m.kind = "transport" /\ m.value = transport
    BY <1>1, <2>1 DEF ControlTypes, Messages, Control!TransportMessage
  <2>3. PICK out : out = <<m>> OBVIOUS
  <2>4. out \in Seq(Messages) /\ DOMAIN out = {1} /\ out[1] = m BY <2>2, <2>3
  <2>5. PICK run : run = [t |-> transport, timer |-> FALSE, out |-> out] OBVIOUS
  <2>6. Runs(run)
    <3>1. run \in RunTypes /\ run.out = out /\ run.t = transport /\ run.timer = FALSE
      BY <1>1, <2>4, <2>5 DEF RunTypes, ControlTypes
    <3>2. LastOf(out, TransportKinds, m) BY <2>2, <2>3, LastOfOne DEF TransportKinds
    <3>3. Agrees(OfTransport(m), transport, FALSE) BY <2>2 DEF Agrees, OfTransport
    <3> QED BY <2>2, <2>4, <3>1, <3>2, <3>3 DEF Runs
  <2>7. Control!Publish(run, Control!None, Control!NoAck)
    <3>1. transport' = run.t /\ timer' = run.timer /\ others' = others
          /\ inbox' = Control!Send(inbox, sockets, out)
      BY <1>4, <2>1, <2>3, <2>5 DEF Control!PublishTimecode
    <3>2. others' = Control!Bump(Control!None)
      BY <1>1, <3>1 DEF Control!Bump, ControlTypes, Versions, Control!Paths, Control!None
    <3>3. Control!News(Control!None, run.t, Control!Bump(Control!None)) = <<>> BY DEF Control!News
    <3>4. run.out \o Control!News(Control!None, run.t, Control!Bump(Control!None)) = out
      BY <2>4, <2>5, <3>3, ConcatEmptySeq
    <3>5. \A c \in Clients : Control!Send(inbox, sockets, out)[c] \in Seq(Messages)
      <4> SUFFICES ASSUME NEW c \in Clients PROVE Control!Send(inbox, sockets, out)[c] \in Seq(Messages) OBVIOUS
      <4>1. PICK old \in Seq(Messages) : old = inbox[c] BY <1>1 DEF ControlTypes
      <4>2. old \o out \in Seq(Messages) BY <2>4, ConcatProperties
      <4> QED BY <4>1, <4>2 DEF Control!Send
    <3>6. \A c \in Clients : Control!Send(inbox, sockets, out)[c] \o Control!NoAck[c]
                             = Control!Send(inbox, sockets, out)[c]
      BY <3>5, ConcatEmptySeq DEF Control!NoAck
    <3>7. inbox' = [c \in Clients |-> Control!Send(inbox, sockets, out)[c]] BY <3>1 DEF Control!Send
    <3>8. inbox' = [c \in Clients |-> Control!Send(inbox, sockets, out)[c] \o Control!NoAck[c]]
      BY <3>6, <3>7
    <3> QED BY <3>1, <3>2, <3>4, <3>8 DEF Control!Publish
  <2>8. UNCHANGED <<sockets, outbox, mirror, believes, holder, resume, surface, commanded>>
    BY <1>4 DEF Control!PublishTimecode
  <2> QED BY <1>1, <2>6, <2>7, <2>8, ControlUnasked DEF ControlTypes
<1> QED BY <1>2, <1>3, <1>4
-----------------------------------------------------------------------------
(* A client that leaves, comes, sends and reads.                            *)
LEMMA ControlLosesClient ==
  ASSUME ControlInv, NEW c \in Clients, Control!HandleSocketDisconnected(c)
  PROVE  ControlInv'
<1>1. ControlTypes /\ commanded \in Nat BY DEF ControlInv, ControlTypes
<1>2. PICK run : run = Control!ReleaseHold(c) OBVIOUS
<1>3. Runs(run) BY <1>1, <1>2, EffectRuns
<1>4. /\ c \in sockets /\ transport' = run.t /\ timer' = run.timer
      /\ inbox' = [Control!Send(inbox, sockets \ {c}, run.out) EXCEPT ![c] = <<>>]
      /\ holder' = Control!HolderAfter(c) /\ resume' = (holder # c /\ resume)
      /\ sockets' = sockets \ {c}
      /\ outbox' = [outbox EXCEPT ![c] = <<>>]
      /\ believes' = [believes EXCEPT ![c] = Control!NoHold]
      /\ UNCHANGED <<others, mirror, surface, commanded>>
  BY <1>2 DEF Control!HandleSocketDisconnected
<1>5. run.t \in Transports /\ run.timer \in BOOLEAN BY <1>3 DEF Runs, RunTypes
<1>6. PICK out \in Seq(Messages) : /\ out = run.out /\ Reports(run.out)
                                   /\ \A p \in DOMAIN out : out[p].kind = "transport"
  BY <1>3, <1>4, RunReports DEF Runs
<1>7. \A d \in Clients : /\ inbox[d] \in Seq(Messages)
                         /\ d = c => inbox'[d] = <<>> /\ outbox'[d] = <<>> /\ believes'[d] = Control!NoHold
                         /\ d # c => outbox'[d] = outbox[d] /\ believes'[d] = believes[d]
                         /\ d # c /\ d \in sockets => inbox'[d] = inbox[d] \o out
                         /\ d \notin sockets => inbox'[d] = inbox[d]
  BY <1>1, <1>4, <1>6 DEF ControlTypes, Control!Send
<1>8. \A d \in Clients : inbox'[d] \in Seq(Messages)
  <2> SUFFICES ASSUME NEW d \in Clients PROVE inbox'[d] \in Seq(Messages) OBVIOUS
  <2>1. PICK old \in Seq(Messages) : old = inbox[d] BY <1>7
  <2>2. old \o out \in Seq(Messages) BY ConcatProperties
  <2>3. <<>> \in Seq(Messages) BY EmptySeq
  <2> QED BY <1>7, <2>1, <2>2, <2>3
<1>9. ControlTypes'
  <2>1. <<>> \in Seq(Orders) BY EmptySeq
  <2>2. Control!NoHold \in [id : Nat, granted : BOOLEAN] BY DEF Control!NoHold
  <2>3. inbox' \in [Clients -> Seq(Messages)] BY <1>4, <1>8 DEF Control!Send
  <2>4. outbox' \in [Clients -> Seq(Orders)] BY <1>1, <1>4, <2>1 DEF ControlTypes
  <2>5. believes' \in [Clients -> [id : Nat, granted : BOOLEAN]] BY <1>1, <1>4, <2>2 DEF ControlTypes
  <2>6. resume' \in BOOLEAN BY <1>4
  <2> QED BY <1>1, <1>4, <1>5, <2>3, <2>4, <2>5, <2>6 DEF ControlTypes
<1>10. ASSUME NEW d \in Clients, d \in sockets, d # c
       PROVE  TransportKnown(d)' /\ \A k \in Control!Paths : PathKnown(d, k)'
  <2>1. inbox'[d] = inbox[d] \o run.out /\ mirror'[d] = mirror[d] BY <1>4, <1>6, <1>7, <1>10
  <2>2. run.out \in Seq(Messages) /\ Reports(run.out) BY <1>6
  <2>3. TransportKnown(d) /\ \A k \in Control!Paths : PathKnown(d, k) BY <1>10 DEF ControlInv
  <2> QED BY <1>1, <2>1, <2>2, <2>3, ReportsReach
<1>11. ASSUME NEW d \in Clients PROVE Holds(d)'
  <2>1. CASE d = c
    <3>1. inbox'[d] = <<>> /\ outbox'[d] = <<>> /\ believes'[d] = [id |-> 0, granted |-> FALSE]
      BY <1>7, <2>1 DEF Control!NoHold
    <3>2. DOMAIN <<>> = {} OBVIOUS
    <3> QED BY <1>1, <1>4, <3>1, <3>2 DEF Holds, Granted
  <2>2. CASE d # c
    <3>1. holder = d => holder' = d BY <1>4, <2>2 DEF Control!HolderAfter
    <3>2. \A p \in DOMAIN inbox'[d] :
            inbox'[d][p].kind = "ack" => \E q \in DOMAIN inbox[d] : inbox'[d][p] = inbox[d][q]
      <4>1. CASE d \notin sockets BY <1>7, <4>1
      <4>2. CASE d \in sockets
        <5>1. PICK old \in Seq(Messages) : old = inbox[d] BY <1>7
        <5>2. inbox'[d] = old \o out BY <1>7, <2>2, <4>2, <5>1
        <5>3. \A p \in DOMAIN (old \o out) : \/ \E q \in DOMAIN old : (old \o out)[p] = old[q]
                                             \/ \E q \in DOMAIN out : (old \o out)[p] = out[q]
          BY Joined
        <5> SUFFICES ASSUME NEW p \in DOMAIN inbox'[d], inbox'[d][p].kind = "ack"
                     PROVE  \E q \in DOMAIN inbox[d] : inbox'[d][p] = inbox[d][q]
          OBVIOUS
        <5>4. \A q \in DOMAIN out : out[q].kind # "ack" BY <1>6
        <5> QED BY <5>1, <5>2, <5>3, <5>4
      <4> QED BY <4>1, <4>2
    <3>3. commanded' \in Nat /\ commanded <= commanded' BY <1>1, <1>4
    <3>4. outbox'[d] = outbox[d] /\ believes'[d] = believes[d] BY <1>7, <2>2
    <3> QED BY <3>1, <3>2, <3>3, <3>4, HoldsKept
  <2> QED BY <2>1, <2>2
<1>12. \A d \in Clients : d \notin sockets' => Absent(d)'
  BY <1>4, <1>7 DEF ControlInv, Absent
<1>13. holder' # Control!None => holder' \in sockets'
  BY <1>4 DEF ControlInv, Control!HolderAfter
<1>14. \A d \in sockets' : TransportKnown(d)' /\ \A k \in Control!Paths : PathKnown(d, k)'
  BY <1>1, <1>4, <1>10 DEF ControlTypes
<1> QED BY <1>9, <1>11, <1>12, <1>13, <1>14 DEF ControlInv

LEMMA ControlGreetsClient ==
  ASSUME ControlInv, NEW c \in Clients, Control!HandleNewConnection(c)
  PROVE  ControlInv'
<1>1. ControlTypes /\ commanded \in Nat BY DEF ControlInv, ControlTypes
<1>2. PICK m, n : m = Control!SnapshotMessage(transport, others) /\ n = Control!TransportMessage(transport)
  OBVIOUS
<1>3. /\ m \in Messages /\ m.kind = "snapshot" /\ m.value.transport = transport /\ m.value.others = others
      /\ n \in Messages /\ n.kind = "transport" /\ n.value = transport
  BY <1>1, <1>2
  DEF ControlTypes, Messages, Control!SnapshotMessage, Control!TransportMessage, Control!State
<1>4. PICK greeting : greeting = <<m, n>> OBVIOUS
<1>5. /\ greeting \in Seq(Messages) /\ DOMAIN greeting = {1, 2}
      /\ greeting[1] = m /\ greeting[2] = n /\ 1 <= 2 /\ 2 <= 2 /\ 1 <= 1
  BY <1>3, <1>4
<1>6. /\ c \notin sockets /\ sockets' = sockets \cup {c}
      /\ inbox' = [inbox EXCEPT ![c] = greeting]
      /\ UNCHANGED <<transport, others, timer, outbox, mirror, believes, holder, resume, surface, commanded>>
  BY <1>2, <1>4 DEF Control!HandleNewConnection
<1>7. ControlTypes' BY <1>1, <1>5, <1>6 DEF ControlTypes
<1>8. inbox'[c] = greeting /\ \A d \in Clients : d # c => inbox'[d] = inbox[d]
  BY <1>1, <1>6 DEF ControlTypes
<1>9. TransportKnown(c)'
  <2>1. LastOf(greeting, TransportKinds, n) BY <1>3, <1>5 DEF LastOf, TransportKinds
  <2>2. Agrees(OfTransport(n), transport, timer) BY <1>3 DEF Agrees, OfTransport
  <2> QED BY <1>3, <1>6, <1>8, <2>1, <2>2 DEF TransportKnown
<1>10. ASSUME NEW k \in Control!Paths PROVE PathKnown(c, k)'
  <2>1. "transport" \notin {k, "snapshot"} BY DEF Control!Paths
  <2>2. LastOf(greeting, {k, "snapshot"}, m) BY <1>3, <1>5, <2>1 DEF LastOf
  <2>3. OfPath(m, k) = others[k] BY <1>3 DEF OfPath
  <2> QED BY <1>3, <1>6, <1>8, <2>2, <2>3 DEF PathKnown
<1>11. ASSUME NEW d \in Clients, d \in sockets
       PROVE  TransportKnown(d)' /\ \A k \in Control!Paths : PathKnown(d, k)'
  <2>1. inbox'[d] = inbox[d] BY <1>6, <1>8, <1>11
  <2>2. TransportKnown(d) /\ \A k \in Control!Paths : PathKnown(d, k) BY <1>11 DEF ControlInv
  <2>3. UNCHANGED <<transport, others, timer, mirror>> BY <1>6
  <2>4. TransportKnown(d)' BY <2>1, <2>2, <2>3 DEF TransportKnown
  <2>5. \A k \in Control!Paths : PathKnown(d, k)' BY <2>1, <2>2, <2>3 DEF PathKnown
  <2> QED BY <2>4, <2>5
<1>12. ASSUME NEW d \in Clients PROVE Holds(d)'
  <2>1. \A p \in DOMAIN inbox'[d] :
          inbox'[d][p].kind = "ack" => \E q \in DOMAIN inbox[d] : inbox'[d][p] = inbox[d][q]
    <3>1. CASE d = c BY <1>3, <1>5, <1>8, <3>1
    <3>2. CASE d # c BY <1>8, <3>2
    <3> QED BY <3>1, <3>2
  <2> QED BY <1>1, <1>6, <2>1, HoldsKept
<1>13. \A d \in Clients : d \notin sockets' => Absent(d)' BY <1>6, <1>8 DEF ControlInv, Absent
<1>14. holder' # Control!None => holder' \in sockets' BY <1>6 DEF ControlInv
<1>15. \A d \in sockets' : TransportKnown(d)' /\ \A k \in Control!Paths : PathKnown(d, k)'
  BY <1>1, <1>6, <1>9, <1>10, <1>11 DEF ControlTypes
<1> QED BY <1>7, <1>12, <1>13, <1>14, <1>15 DEF ControlInv

LEMMA ControlHearsClient ==
  ASSUME ControlInv, NEW c \in Clients, NEW k \in Control!Commands, Control!ClientSends(c, k)
  PROVE  ControlInv'
<1>1. ControlTypes /\ commanded \in Nat BY DEF ControlInv, ControlTypes
<1>2. PICK next \in Nat \ {0} : next = commanded + 1 BY <1>1
<1>3. PICK o : o = Control!Numbered(k, next) OBVIOUS
<1>4. o \in Orders /\ o.id = next /\ o.name = k.name /\ o.on = k.on /\ k.on \in BOOLEAN
  BY <1>2, <1>3, OrderFacts
<1>5. /\ c \in sockets /\ commanded' = next /\ outbox' = [outbox EXCEPT ![c] = Append(@, o)]
      /\ UNCHANGED <<transport, others, timer, sockets, inbox, mirror, holder, resume, surface>>
  BY <1>2, <1>3 DEF Control!ClientSends
<1>6. /\ k.name # "holdSpeed" => believes' = believes
      /\ k.name = "holdSpeed" =>
           believes' = [believes EXCEPT ![c] = [id |-> IF k.on THEN next ELSE 0, granted |-> FALSE]]
  <2>1. PICK n : n = Control!NoHold OBVIOUS
  <2>2. n = [id |-> 0, granted |-> FALSE] BY <2>1 DEF Control!NoHold
  <2>3. \A i : [n EXCEPT !.id = i] = [id |-> i, granted |-> FALSE]
    <3> SUFFICES ASSUME NEW i PROVE [n EXCEPT !.id = i] = [id |-> i, granted |-> FALSE] OBVIOUS
    <3>1. n \in [id : {0}, granted : {FALSE}] BY <2>2
    <3>2. PICK x : x = [n EXCEPT !.id = i] OBVIOUS
    <3>3. x \in [id : {i}, granted : {FALSE}] BY <3>1, <3>2
    <3>4. x = [id |-> i, granted |-> FALSE] BY <3>3
    <3> QED BY <3>2, <3>4
  <2>4. believes' = IF k.name # "holdSpeed" THEN believes
                    ELSE [believes EXCEPT ![c] = [n EXCEPT !.id = IF k.on THEN next ELSE 0]]
    BY <1>2, <2>1 DEF Control!ClientSends
  <2> QED BY <2>3, <2>4
<1>7. PICK s \in Seq(Orders) : s = outbox[c] BY <1>1 DEF ControlTypes
<1>8. PICK n \in Nat : n = Len(s) BY LenProperties
<1>9. PICK more \in Seq(Orders) : more = Append(s, o) BY <1>4, AppendProperties
<1>10. /\ DOMAIN s = 1 .. n /\ DOMAIN more = 1 .. n + 1 /\ more[n + 1] = o
       /\ \A p \in 1 .. n : more[p] = s[p]
  BY <1>4, <1>8, <1>9, AppendProperties, LenProperties
<1>11. outbox'[c] = more /\ \A d \in Clients : d # c => outbox'[d] = outbox[d] /\ believes'[d] = believes[d]
  BY <1>1, <1>5, <1>6, <1>7, <1>9 DEF ControlTypes
<1>12. ControlTypes'
  <2>1. outbox' \in [Clients -> Seq(Orders)] BY <1>1, <1>5, <1>7, <1>9 DEF ControlTypes
  <2>2. believes' \in [Clients -> [id : Nat, granted : BOOLEAN]]
    <3>1. CASE k.name # "holdSpeed" BY <1>1, <1>6, <3>1 DEF ControlTypes
    <3>2. CASE k.name = "holdSpeed"
      <4>1. [id |-> IF k.on THEN next ELSE 0, granted |-> FALSE] \in [id : Nat, granted : BOOLEAN] OBVIOUS
      <4> QED BY <1>1, <1>6, <3>2, <4>1 DEF ControlTypes
    <3> QED BY <3>1, <3>2
  <2> QED BY <1>1, <1>5, <2>1, <2>2 DEF ControlTypes
<1>13. Holds(c) /\ believes[c].id \in Nat /\ believes[c].granted \in BOOLEAN
  BY <1>1 DEF ControlInv, ControlTypes
<1>14. \A p \in 1 .. n : s[p] \in Orders /\ s[p].id \in Nat \ {0}
  BY <1>7, <1>10, ElementOfSeq, LenProperties, OrderFacts
<1>15. \A p \in 1 .. n : s[p].id <= commanded /\ s[p].id < next
  <2> SUFFICES ASSUME NEW p \in 1 .. n PROVE s[p].id <= commanded /\ s[p].id < next OBVIOUS
  <2>1. s[p].id <= commanded BY <1>7, <1>10, <1>13 DEF Holds
  <2> QED BY <1>1, <1>2, <1>14, <2>1
<1>16. \A p \in DOMAIN inbox[c] : inbox[c][p].kind = "ack" => inbox[c][p].value \in Nat
  <2>1. inbox[c] \in Seq(Messages) BY <1>1 DEF ControlTypes
  <2>2. \A p \in DOMAIN inbox[c] : inbox[c][p] \in Messages BY <2>1, LenProperties, ElementOfSeq
  <2> QED BY <2>2 DEF Messages, Control!Paths
<1>17. \A p \in DOMAIN inbox[c] : inbox[c][p].kind = "ack" =>
         inbox[c][p].value <= commanded /\ inbox[c][p].value < next
  <2> SUFFICES ASSUME NEW p \in DOMAIN inbox[c], inbox[c][p].kind = "ack"
               PROVE  inbox[c][p].value <= commanded /\ inbox[c][p].value < next
    OBVIOUS
  <2>1. inbox[c][p].value <= commanded BY <1>13 DEF Holds
  <2> QED BY <1>1, <1>2, <1>16, <2>1
<1>18. \A p \in 1 .. n + 1 : more[p].id <= next
  <2> SUFFICES ASSUME NEW p \in 1 .. n + 1 PROVE more[p].id <= next OBVIOUS
  <2>1. CASE p \in 1 .. n BY <1>2, <1>10, <1>14, <1>15, <2>1
  <2>2. CASE p = n + 1 BY <1>2, <1>4, <1>10, <2>2
  <2> QED BY <2>1, <2>2
<1>19. \A p, q \in 1 .. n + 1 : p < q => more[p].id < more[q].id
  <2> SUFFICES ASSUME NEW p \in 1 .. n + 1, NEW q \in 1 .. n + 1, p < q PROVE more[p].id < more[q].id
    OBVIOUS
  <2>1. p \in 1 .. n /\ more[p] = s[p] BY <1>10
  <2>2. CASE q \in 1 .. n
    <3>1. s[p].id < s[q].id BY <1>7, <1>10, <1>13, <2>1, <2>2 DEF Holds
    <3> QED BY <1>10, <2>1, <2>2, <3>1
  <2>3. CASE q = n + 1
    <3>1. more[q].id = next BY <1>4, <1>10, <2>3
    <3>2. s[p].id < next BY <1>15, <2>1
    <3> QED BY <2>1, <3>1, <3>2
  <2> QED BY <2>2, <2>3
<1>20. Holds(c)'
  <2>1. CASE k.name # "holdSpeed"
    <3>1. believes'[c] = believes[c] BY <1>6, <2>1
    <3>2. Granted(c)' => Granted(c) BY <1>5, <3>1 DEF Granted
    <3>3. believes[c].id <= commanded /\ believes[c].id < next BY <1>1, <1>2, <1>13 DEF Holds
    <3>4. ASSUME believes[c].id > 0, NEW p \in 1 .. n + 1
          PROVE  /\ more[p].name = "holdSpeed" => more[p].id <= believes[c].id
                 /\ more[p].id = believes[c].id => more[p].name = "holdSpeed" /\ more[p].on
      <4>1. CASE p \in 1 .. n BY <1>7, <1>10, <1>13, <3>4, <4>1 DEF Holds
      <4>2. CASE p = n + 1
        <5>1. more[p].name # "holdSpeed" BY <1>4, <1>10, <2>1, <4>2
        <5>2. more[p].id = next BY <1>4, <1>10, <4>2
        <5>3. more[p].id # believes[c].id BY <1>13, <3>3, <5>2
        <5> QED BY <5>1, <5>3
      <4> QED BY <4>1, <4>2
    <3>5. ASSUME Granted(c)' PROVE holder' = c /\ \A p \in 1 .. n + 1 : more[p].name # "holdSpeed"
      <4>1. holder = c /\ \A p \in 1 .. n : s[p].name # "holdSpeed"
        BY <1>7, <1>10, <1>13, <3>2, <3>5 DEF Holds
      <4>2. more[n + 1].name # "holdSpeed" BY <1>4, <1>10, <2>1
      <4> QED BY <1>5, <1>10, <4>1, <4>2
    <3>6. believes'[c].id <= commanded' BY <1>2, <1>5, <1>13, <3>1, <3>3
    <3>7. \A p \in DOMAIN inbox'[c] : inbox'[c][p].kind = "ack" => inbox'[c][p].value <= commanded'
      <4> SUFFICES ASSUME NEW p \in DOMAIN inbox[c], inbox[c][p].kind = "ack"
                   PROVE  inbox[c][p].value <= next
        BY <1>5
      <4> QED BY <1>2, <1>16, <1>17
    <3> QED BY <1>5, <1>10, <1>11, <1>18, <1>19, <3>1, <3>4, <3>5, <3>6, <3>7 DEF Holds
  <2>2. CASE k.name = "holdSpeed"
    <3>1. believes'[c].id = (IF k.on THEN next ELSE 0) /\ believes'[c].granted = FALSE
      BY <1>1, <1>6, <2>2 DEF ControlTypes
    <3>2. ~Granted(c)'
      <4> SUFFICES ASSUME NEW p \in DOMAIN inbox[c], inbox[c][p].kind = "ack",
                          inbox[c][p].value = believes'[c].id, believes'[c].id > 0
                   PROVE  FALSE
        BY <1>5, <3>1 DEF Granted
      <4>1. believes'[c].id = next BY <3>1
      <4>2. inbox[c][p].value < next BY <1>17
      <4> QED BY <1>2, <4>1, <4>2
    <3>3. ASSUME believes'[c].id > 0, NEW p \in 1 .. n + 1
          PROVE  /\ more[p].name = "holdSpeed" => more[p].id <= believes'[c].id
                 /\ more[p].id = believes'[c].id => more[p].name = "holdSpeed" /\ more[p].on
      <4>1. k.on /\ believes'[c].id = next BY <1>2, <1>4, <3>1, <3>3
      <4>2. more[p].id <= next BY <1>18
      <4>3. CASE p \in 1 .. n
        <5>1. more[p].id # next BY <1>2, <1>10, <1>14, <1>15, <4>3
        <5> QED BY <4>1, <4>2, <5>1
      <4>4. CASE p = n + 1
        <5>1. more[p] = o BY <1>10, <4>4
        <5> QED BY <1>4, <2>2, <4>1, <4>2, <5>1
      <4> QED BY <4>3, <4>4
    <3>4. believes'[c].id <= commanded' BY <1>2, <1>5, <3>1
    <3>7. \A p \in DOMAIN inbox'[c] : inbox'[c][p].kind = "ack" => inbox'[c][p].value <= commanded'
      <4> SUFFICES ASSUME NEW p \in DOMAIN inbox[c], inbox[c][p].kind = "ack"
                   PROVE  inbox[c][p].value <= next
        BY <1>5
      <4> QED BY <1>2, <1>16, <1>17
    <3> QED BY <1>5, <1>10, <1>11, <1>18, <1>19, <3>2, <3>3, <3>4, <3>7 DEF Holds
  <2> QED BY <2>1, <2>2
<1>21. ASSUME NEW d \in Clients PROVE Holds(d)'
  <2>1. CASE d = c BY <1>20, <2>1
  <2>2. CASE d # c
    <3>1. commanded' \in Nat /\ commanded <= commanded' BY <1>1, <1>2, <1>5
    <3>2. inbox'[d] = inbox[d] /\ (holder = d => holder' = d) BY <1>5
    <3> QED BY <1>11, <2>2, <3>1, <3>2, HoldsKept
  <2> QED BY <2>1, <2>2
<1>22. \A d \in Clients : d \notin sockets' => Absent(d)' BY <1>5, <1>11 DEF ControlInv, Absent
<1>23. holder' # Control!None => holder' \in sockets' BY <1>5 DEF ControlInv
<1>24. \A d \in sockets' : TransportKnown(d)' /\ \A p \in Control!Paths : PathKnown(d, p)'
  BY <1>5 DEF ControlInv, TransportKnown, PathKnown
<1> QED BY <1>12, <1>21, <1>22, <1>23, <1>24 DEF ControlInv

LEMMA ControlToldClient ==
  ASSUME ControlInv, NEW c \in Clients, Control!ClientReads(c)
  PROVE  ControlInv'
<1>1. ControlTypes /\ commanded \in Nat BY DEF ControlInv, ControlTypes
<1>2. PICK m : m = Head(inbox[c]) OBVIOUS
<1>3. PICK s \in Seq(Messages) : s = inbox[c] BY <1>1 DEF ControlTypes
<1>4. s # <<>> /\ m = Head(s) BY <1>2, <1>3 DEF Control!ClientReads
<1>5. PICK t \in Seq(Messages) : t = Tail(s) BY <1>4, HeadTailProperties
<1>6. m \in Messages BY <1>4, HeadTailProperties
<1>7. /\ mirror' = [mirror EXCEPT ![c] =
             CASE m.kind = "snapshot" -> m.value
               [] m.kind = "transport" -> [mirror[c] EXCEPT !.transport = m.value]
               [] m.kind \in Control!Paths -> [mirror[c] EXCEPT !.others[m.kind] = m.value]
               [] OTHER -> mirror[c]]
      /\ believes' = IF m.kind = "ack" /\ m.value > 0 /\ m.value = believes[c].id
                     THEN [believes EXCEPT ![c].granted = TRUE] ELSE believes
      /\ inbox' = [inbox EXCEPT ![c] = t]
      /\ UNCHANGED <<transport, others, timer, sockets, outbox, holder, resume, surface, commanded>>
  BY <1>2, <1>3, <1>5 DEF Control!ClientReads
<1>8. PICK v : v = mirror'[c] OBVIOUS
<1>9. v \in [transport : Transports, others : Versions] /\ mirror' = [mirror EXCEPT ![c] = v]
      /\ (m.kind \in TransportKinds => v.transport = OfTransport(m))
      /\ (m.kind \notin TransportKinds => v.transport = mirror[c].transport)
      /\ \A k \in Control!Paths : /\ m.kind \in {k, "snapshot"} => v.others[k] = OfPath(m, k)
                                  /\ m.kind \notin {k, "snapshot"} => v.others[k] = mirror[c].others[k]
  <2>1. PICK old \in [transport : Transports, others : Versions] : old = mirror[c]
    BY <1>1 DEF ControlTypes
  <2>2. old = [transport |-> old.transport, others |-> old.others] /\ old.transport \in Transports
        /\ old.others \in Versions
    OBVIOUS
  <2>3. mirror' = [mirror EXCEPT ![c] = v]
    <3>1. v = CASE m.kind = "snapshot" -> m.value
               [] m.kind = "transport" -> [old EXCEPT !.transport = m.value]
               [] m.kind \in Control!Paths -> [old EXCEPT !.others[m.kind] = m.value]
               [] OTHER -> old
      BY <1>1, <1>7, <1>8, <2>1 DEF ControlTypes
    <3> QED BY <1>7, <2>1, <3>1
  <2>4. v = CASE m.kind = "snapshot" -> m.value
               [] m.kind = "transport" -> [old EXCEPT !.transport = m.value]
               [] m.kind \in Control!Paths -> [old EXCEPT !.others[m.kind] = m.value]
               [] OTHER -> old
    BY <1>1, <1>7, <1>8, <2>1 DEF ControlTypes
  <2>5. CASE m.kind = "snapshot"
    <3>1. v = m.value BY <2>4, <2>5 DEF Control!Paths
    <3>2. m.value \in [transport : Transports, others : Versions] BY <1>6, <2>5 DEF Messages, Control!Paths
    <3> QED BY <2>3, <2>5, <3>1, <3>2 DEF TransportKinds, OfTransport, OfPath
  <2>6. CASE m.kind = "transport"
    <3>1. v = [old EXCEPT !.transport = m.value] BY <2>4, <2>6 DEF Control!Paths
    <3>2. m.value \in Transports BY <1>6, <2>6 DEF Messages, Control!Paths
    <3>3. v = [transport |-> m.value, others |-> old.others] BY <2>2, <3>1
    <3>4. \A k \in Control!Paths : m.kind \notin {k, "snapshot"} BY <2>6 DEF Control!Paths
    <3> QED BY <2>1, <2>2, <2>3, <2>6, <3>2, <3>3, <3>4 DEF TransportKinds, OfTransport
  <2>7. CASE m.kind \in Control!Paths
    <3>0. m.kind \notin {"snapshot", "transport", "ack"} BY <2>7 DEF Control!Paths
    <3>1. v = [old EXCEPT !.others[m.kind] = m.value] BY <2>4, <2>7, <3>0
    <3>2. m.value \in Nat BY <1>6, <2>7, <3>0 DEF Messages
    <3>3. PICK w : w = [old.others EXCEPT ![m.kind] = m.value] OBVIOUS
    <3>4. w \in Versions /\ w[m.kind] = m.value /\ \A k \in Control!Paths : k # m.kind => w[k] = old.others[k]
      BY <2>2, <2>7, <3>2, <3>3 DEF Versions
    <3>5. v = [old EXCEPT !.others = w] BY <3>1, <3>3
    <3>6. v = [transport |-> old.transport, others |-> w] BY <2>2, <3>5
    <3>7. v.transport = mirror[c].transport /\ m.kind \notin TransportKinds
      BY <2>1, <3>0, <3>6 DEF TransportKinds
    <3>8. v \in [transport : Transports, others : Versions] BY <2>2, <3>4, <3>6
    <3>9. ASSUME NEW k \in Control!Paths
          PROVE  /\ m.kind \in {k, "snapshot"} => v.others[k] = OfPath(m, k)
                 /\ m.kind \notin {k, "snapshot"} => v.others[k] = mirror[c].others[k]
      <4>1. CASE m.kind = k
        <5>1. v.others[k] = m.value BY <3>4, <3>6, <4>1
        <5>2. OfPath(m, k) = m.value BY <3>0 DEF OfPath
        <5> QED BY <4>1, <5>1, <5>2
      <4>2. CASE m.kind # k
        <5>1. v.others[k] = mirror[c].others[k] BY <2>1, <3>4, <3>6, <4>2
        <5> QED BY <3>0, <4>2, <5>1
      <4> QED BY <4>1, <4>2
    <3> QED BY <2>3, <3>7, <3>8, <3>9
  <2>8. CASE m.kind = "ack"
    <3>1. m.kind \notin TransportKinds /\ \A k \in Control!Paths : m.kind \notin {k, "snapshot"}
      BY <2>8 DEF TransportKinds, Control!Paths
    <3>2. v = old BY <2>4, <2>8 DEF Control!Paths
    <3> QED BY <2>1, <2>3, <3>1, <3>2
  <2>9. m.kind = "snapshot" \/ m.kind = "transport" \/ m.kind \in Control!Paths \/ m.kind = "ack"
    BY <1>6 DEF Messages
  <2> QED BY <2>5, <2>6, <2>7, <2>8, <2>9
<1>10. inbox'[c] = t /\ \A d \in Clients : d # c => inbox'[d] = inbox[d] /\ mirror'[d] = mirror[d]
                                                    /\ believes'[d] = believes[d]
  BY <1>1, <1>7 DEF ControlTypes
<1>11. believes'[c].id = believes[c].id /\ believes' \in [Clients -> [id : Nat, granted : BOOLEAN]]
       /\ (believes'[c].granted => believes[c].granted \/ (m.kind = "ack" /\ m.value = believes[c].id /\ m.value > 0))
  <2>1. PICK b \in [id : Nat, granted : BOOLEAN] : b = believes[c] BY <1>1 DEF ControlTypes
  <2>2. [b EXCEPT !.granted = TRUE] = [id |-> b.id, granted |-> TRUE]
    <3>1. PICK x : x = [b EXCEPT !.granted = TRUE] OBVIOUS
    <3>2. x \in [id : {b.id}, granted : {TRUE}] BY <2>1, <3>1
    <3>3. x = [id |-> b.id, granted |-> TRUE] BY <3>2
    <3> QED BY <3>1, <3>3
  <2>3. believes' = believes \/ (/\ believes' = [believes EXCEPT ![c] = [id |-> b.id, granted |-> TRUE]]
                                 /\ m.kind = "ack" /\ m.value = believes[c].id /\ m.value > 0)
    BY <1>7, <2>1, <2>2
  <2>4. [id |-> b.id, granted |-> TRUE] \in [id : Nat, granted : BOOLEAN] OBVIOUS
  <2>5. CASE believes' = believes BY <1>1, <2>5 DEF ControlTypes
  <2>6. CASE /\ believes' = [believes EXCEPT ![c] = [id |-> b.id, granted |-> TRUE]]
             /\ m.kind = "ack" /\ m.value = believes[c].id /\ m.value > 0
    <3>1. believes'[c] = [id |-> b.id, granted |-> TRUE] BY <1>1, <2>6 DEF ControlTypes
    <3>2. believes' \in [Clients -> [id : Nat, granted : BOOLEAN]] BY <1>1, <2>4, <2>6 DEF ControlTypes
    <3> QED BY <2>1, <2>6, <3>1, <3>2
  <2> QED BY <2>3, <2>5, <2>6
<1>12. ControlTypes'
  <2>1. inbox' \in [Clients -> Seq(Messages)] BY <1>1, <1>7 DEF ControlTypes
  <2>2. mirror' \in [Clients -> [transport : Transports, others : Versions]] BY <1>1, <1>9 DEF ControlTypes
  <2> QED BY <1>1, <1>7, <1>11, <2>1, <2>2 DEF ControlTypes
<1>13. PICK n \in Nat : Len(s) = n + 1
  <2>1. Len(s) \in Nat \ {0} BY <1>4, EmptySeq
  <2>2. Len(s) - 1 \in Nat /\ Len(s) = (Len(s) - 1) + 1 BY <2>1
  <2> QED BY <2>2
<1>14. DOMAIN s = 1 .. n + 1 /\ DOMAIN t = 1 .. n /\ \A p \in 1 .. n : t[p] = s[p + 1] /\ p + 1 \in 1 .. n + 1
  BY <1>4, <1>5, <1>13, HeadTailProperties, LenProperties
<1>15. m = s[1] /\ 1 \in 1 .. n + 1 BY <1>4
<1>16. Holds(c)'
  <2>1. Holds(c) BY DEF ControlInv
  <2>2. Granted(c)' => Granted(c)
    <3>1. CASE believes'[c].granted BY <1>3, <1>11, <1>14, <1>15, <3>1 DEF Granted
    <3>2. ASSUME NEW p \in 1 .. n, t[p].kind = "ack", t[p].value = believes[c].id, believes[c].id > 0
          PROVE  Granted(c)
      BY <1>3, <1>14, <3>2 DEF Granted
    <3> QED BY <1>10, <1>11, <1>14, <3>1, <3>2 DEF Granted
  <2>3. \A p \in 1 .. n : t[p].kind = "ack" => t[p].value <= commanded
    BY <1>3, <1>14, <2>1 DEF Holds
  <2> QED BY <1>7, <1>10, <1>11, <1>14, <2>1, <2>2, <2>3 DEF Holds
<1>17. ASSUME NEW d \in Clients PROVE Holds(d)'
  <2>1. CASE d = c BY <1>16, <2>1
  <2>2. CASE d # c
    <3>1. commanded' \in Nat /\ commanded <= commanded' BY <1>1, <1>7
    <3>2. outbox'[d] = outbox[d] /\ (holder = d => holder' = d) BY <1>7
    <3> QED BY <1>10, <2>2, <3>1, <3>2, HoldsKept
  <2> QED BY <2>1, <2>2
<1>18. \A d \in Clients : d \notin sockets' => Absent(d)'
  <2>1. inbox[c] # <<>> BY <1>3, <1>4
  <2> QED BY <1>7, <1>10, <2>1 DEF ControlInv, Absent
<1>19. holder' # Control!None => holder' \in sockets' BY <1>7 DEF ControlInv
<1>20. ASSUME c \in sockets PROVE TransportKnown(c)' /\ \A k \in Control!Paths : PathKnown(c, k)'
  <2>1. TransportKnown(c)'
    <3>1. CASE Silent(s, TransportKinds) /\ Agrees(mirror[c].transport, transport, timer)
      <4>1. Silent(t, TransportKinds) /\ m.kind \notin TransportKinds BY <1>4, <1>5, <3>1, LastOfTail
      <4>2. v.transport = mirror[c].transport BY <1>9, <4>1
      <4> QED BY <1>7, <1>8, <1>10, <3>1, <4>1, <4>2 DEF TransportKnown
    <3>2. ASSUME NEW x \in Messages, LastOf(s, TransportKinds, x), Agrees(OfTransport(x), transport, timer)
          PROVE  TransportKnown(c)'
      <4>1. LastOf(t, TransportKinds, x) \/ (Silent(t, TransportKinds) /\ x = m /\ x.kind \in TransportKinds)
        BY <1>4, <1>5, <3>2, LastOfTail
      <4>2. CASE LastOf(t, TransportKinds, x) BY <1>7, <1>10, <3>2, <4>2 DEF TransportKnown
      <4>3. CASE Silent(t, TransportKinds) /\ x = m /\ x.kind \in TransportKinds
        <5>1. v.transport = OfTransport(x) BY <1>9, <4>3
        <5> QED BY <1>7, <1>8, <1>10, <3>2, <4>3, <5>1 DEF TransportKnown
      <4> QED BY <4>1, <4>2, <4>3
    <3> QED BY <1>3, <1>20, <3>1, <3>2 DEF ControlInv, TransportKnown
  <2>2. ASSUME NEW k \in Control!Paths PROVE PathKnown(c, k)'
    <3> DEFINE K == {k, "snapshot"}
    <3>0. /\ m.kind \in K => v.others[k] = OfPath(m, k)
          /\ m.kind \notin K => v.others[k] = mirror[c].others[k]
      BY <1>9
    <3>1. \/ \E x \in Messages : LastOf(s, K, x) /\ OfPath(x, k) = others[k]
          \/ Silent(s, K) /\ mirror[c].others[k] = others[k]
      BY <1>3, <1>20 DEF ControlInv, PathKnown
    <3>2. SUFFICES \/ \E x \in Messages : LastOf(t, K, x) /\ OfPath(x, k) = others[k]
                   \/ Silent(t, K) /\ v.others[k] = others[k]
      BY <1>7, <1>8, <1>10 DEF PathKnown
    <3> HIDE DEF K
    <3>3. CASE Silent(s, K) /\ mirror[c].others[k] = others[k]
      <4>1. Silent(t, K) /\ m.kind \notin K BY <1>4, <1>5, <3>3, LastOfTail
      <4> QED BY <3>0, <3>3, <4>1
    <3>4. ASSUME NEW x \in Messages, LastOf(s, K, x), OfPath(x, k) = others[k]
          PROVE  \/ \E y \in Messages : LastOf(t, K, y) /\ OfPath(y, k) = others[k]
                 \/ Silent(t, K) /\ v.others[k] = others[k]
      <4>1. LastOf(t, K, x) \/ (Silent(t, K) /\ x = m /\ x.kind \in K)
        BY <1>4, <1>5, <3>4, LastOfTail
      <4>2. CASE LastOf(t, K, x) BY <3>4, <4>2
      <4>3. CASE Silent(t, K) /\ x = m /\ x.kind \in K BY <3>0, <3>4, <4>3
      <4> QED BY <4>1, <4>2, <4>3
    <3> QED BY <3>1, <3>3, <3>4
  <2> QED BY <2>1, <2>2
<1>21. ASSUME NEW d \in Clients, d \in sockets, d # c
       PROVE  TransportKnown(d)' /\ \A k \in Control!Paths : PathKnown(d, k)'
  <2>1. TransportKnown(d) /\ \A k \in Control!Paths : PathKnown(d, k) BY <1>21 DEF ControlInv
  <2>2. UNCHANGED <<transport, others, timer>> /\ inbox'[d] = inbox[d] /\ mirror'[d] = mirror[d]
    BY <1>7, <1>10, <1>21
  <2>3. TransportKnown(d)' BY <2>1, <2>2 DEF TransportKnown
  <2>4. \A k \in Control!Paths : PathKnown(d, k)' BY <2>1, <2>2 DEF PathKnown
  <2> QED BY <2>3, <2>4
<1>22. \A d \in sockets' : TransportKnown(d)' /\ \A k \in Control!Paths : PathKnown(d, k)'
  BY <1>1, <1>7, <1>20, <1>21 DEF ControlTypes
<1> QED BY <1>12, <1>17, <1>18, <1>19, <1>22 DEF ControlInv

LEMMA ControlStep == ControlInv /\ [Control!Next]_controlOwn => ControlInv'
<1> SUFFICES ASSUME ControlInv, [Control!Next]_controlOwn PROVE ControlInv' OBVIOUS
<1>1. CASE UNCHANGED controlOwn
  <2>1. UNCHANGED <<transport, others, timer, sockets, inbox, outbox, mirror, believes, holder, resume,
                    surface, commanded>>
    BY <1>1 DEF controlOwn
  <2>2. ControlTypes' BY <2>1 DEF ControlInv, ControlTypes
  <2>3. \A d \in sockets' : TransportKnown(d)' /\ \A k \in Control!Paths : PathKnown(d, k)'
    BY <2>1 DEF ControlInv, TransportKnown, PathKnown
  <2>4. \A d \in Clients : Holds(d)' /\ (d \notin sockets' => Absent(d)')
    BY <2>1 DEF ControlInv, Holds, Granted, Absent
  <2>5. holder' # Control!None => holder' \in sockets' BY <2>1 DEF ControlInv
  <2> QED BY <2>2, <2>3, <2>4, <2>5 DEF ControlInv
<1>2. ASSUME NEW c \in Clients, Control!HandleNewConnection(c) PROVE ControlInv'
  BY <1>2, ControlGreetsClient
<1>3. ASSUME NEW c \in Clients, Control!HandleSocketDisconnected(c) PROVE ControlInv'
  BY <1>3, ControlLosesClient
<1>4. ASSUME NEW c \in Clients, Control!HandleTextMessage(c) PROVE ControlInv'
  BY <1>4, ControlHandles
<1>5. ASSUME NEW c \in Clients, Control!ClientReads(c) PROVE ControlInv'
  BY <1>5, ControlToldClient
<1>6. ASSUME NEW c \in Clients, NEW k \in Control!Commands, Control!ClientSends(c, k) PROVE ControlInv'
  BY <1>6, ControlHearsClient
<1>7. CASE Control!Tick \/ Control!PublishTimecode \/ \E k \in Control!Commands : Control!SurfaceActs(k)
  BY <1>7, ControlActs
<1> QED BY <1>1, <1>2, <1>3, <1>4, <1>5, <1>6, <1>7 DEF Control!Next

-----------------------------------------------------------------------------
(* The recording session.  A source that is gone has its loss under way,    *)
(* behind everything it has reported.                                       *)
SessionReports ==
  [kind : {"connection"}, source : Sources, connected : BOOLEAN]
    \cup [kind : {"stats"}, source : Sources, stats : [quality : Nat, offset : Int]]
    \cup [kind : {"timecode"}, source : Sources, at : Int]
SessionTypes ==
  /\ queue \in Seq(SessionReports) /\ taping \in BOOLEAN
  /\ connected \in [Sources -> BOOLEAN] /\ hasStats \in [Sources -> BOOLEAN]
  /\ stats \in [Sources -> [quality : Nat, offset : Int]]
  /\ phase \in [Sources -> [quality : Nat, offset : Int]]
  /\ timecode \in [Sources -> Int]
  /\ ~taping => \A s \in Sources : ~connected[s]

LossAt(s, p) == queue[p].kind = "connection" /\ queue[p].source = s /\ queue[p].connected = FALSE
Losses(s) == {p \in 1 .. Len(queue) : LossAt(s, p)}
CountAt(s, p) == queue[p].kind = "stats" /\ queue[p].source = s
Stats(s) == {p \in 1 .. Len(queue) : CountAt(s, p)}

LossFollows(s) ==
  ~connected[s] =>
    /\ \A p \in Stats(s) : \E q \in Losses(s) : p < q
    /\ hasStats[s] => Losses(s) # {}

TracksKept ==
  /\ taping => muxer = <<TRUE, feeds>> /\ \A t \in telemetry :
       t.track \in DOMAIN feeds /\ feeds[t.track] = t.feed
  /\ ~taping => ~clock /\ ~timing /\ ~blue /\ muxer = <<FALSE, <<>>>>

SessionInv ==
  /\ SessionTypes /\ TracksKept /\ \A s \in Sources : LossFollows(s)
  /\ reference # Session!None => reference \in Sources /\ hasStats[reference]
  /\ taping => applied = trim

(* The session invariant carries what the run checks.                       *)
LEMMA SessionTruth == SessionInv => Session!ReferenceIsLive /\ Session!TelemetryOnOwnTrack
<1> SUFFICES ASSUME SessionInv PROVE Session!ReferenceIsLive /\ Session!TelemetryOnOwnTrack
  OBVIOUS
<1>1. ASSUME taping, queue = <<>>, NEW s \in Sources, hasStats[s]
      PROVE  connected[s] /\ applied[s] = trim[s]
  <2>1. Len(queue) = 0 BY <1>1, EmptySeq
  <2>2. Losses(s) = {} BY <2>1 DEF Losses
  <2>3. connected[s] BY <1>1, <2>2 DEF SessionInv, LossFollows
  <2> QED BY <1>1, <2>3 DEF SessionInv
<1>2. Session!ReferenceIsLive BY <1>1 DEF Session!ReferenceIsLive, SessionInv
<1>3. ASSUME taping, NEW t \in telemetry PROVE t.track \in DOMAIN muxer[2] /\ muxer[2][t.track] = t.feed
  <2>1. muxer = <<TRUE, feeds>> /\ t.track \in DOMAIN feeds /\ feeds[t.track] = t.feed
    BY <1>3 DEF SessionInv, TracksKept
  <2>2. muxer[2] = feeds BY <2>1
  <2> QED BY <2>1, <2>2
<1>4. ASSUME ~taping PROVE ~clock /\ ~timing /\ ~blue /\ ~muxer[1]
  <2>1. muxer = <<FALSE, <<>>>> /\ ~clock /\ ~timing /\ ~blue BY <1>4 DEF SessionInv, TracksKept
  <2>2. PICK f \in BOOLEAN : f = FALSE OBVIOUS
  <2>3. muxer = <<f, <<>>>> BY <2>1, <2>2
  <2>4. muxer[1] = f BY <2>3
  <2> QED BY <2>1, <2>2, <2>4
<1>5. Session!TelemetryOnOwnTrack BY <1>3, <1>4 DEF Session!TelemetryOnOwnTrack
<1> QED BY <1>2, <1>5

(* At the start nobody is connected and nothing is under way.               *)
LEMMA SessionStart == Session!Init => SessionInv
<1> SUFFICES ASSUME Session!Init PROVE SessionInv OBVIOUS
<1> USE DEF Session!Init
<1>1. <<>> \in Seq(SessionReports) /\ Len(<<>>) = 0 BY EmptySeq
<1>2. SessionTypes
  <2>1. taping \in BOOLEAN /\ queue \in Seq(SessionReports) BY <1>1
  <2>2. connected \in [Sources -> BOOLEAN] /\ hasStats \in [Sources -> BOOLEAN] OBVIOUS
  <2>3. Session!NoStats \in [quality : Nat, offset : Int] BY DEF Session!NoStats
  <2>4. /\ stats \in [Sources -> [quality : Nat, offset : Int]]
        /\ phase \in [Sources -> [quality : Nat, offset : Int]]
    BY <2>3
  <2>5. timecode \in [Sources -> Int] BY DEF Session!None
  <2>6. \A s \in Sources : ~connected[s] OBVIOUS
  <2> QED BY <2>1, <2>2, <2>4, <2>5, <2>6 DEF SessionTypes
<1>3. \A s \in Sources : LossFollows(s)
  <2>1. \A s \in Sources : Stats(s) = {} /\ hasStats[s] = FALSE BY <1>1 DEF Stats
  <2> QED BY <2>1 DEF LossFollows
<1>4. TracksKept BY DEF TracksKept
<1> QED BY <1>2, <1>3, <1>4 DEF SessionInv

-----------------------------------------------------------------------------
(* What a report does to the queue: everything else stays where it is.      *)
LEMMA ReportQueued ==
  ASSUME SessionTypes, NEW e \in SessionReports, queue' = Append(queue, e)
  PROVE  /\ queue' \in Seq(SessionReports)
         /\ \A s : /\ Losses(s) \subseteq Losses(s)'
                   /\ Stats(s)' \subseteq Stats(s) \cup (IF e.kind = "stats" /\ e.source = s THEN {Len(queue) + 1} ELSE {})
                   /\ (e.kind = "connection" /\ e.source = s /\ e.connected = FALSE) =>
                        Len(queue) + 1 \in Losses(s)'
                   /\ Stats(s) \subseteq 1 .. Len(queue)
<1>1. queue \in Seq(SessionReports) /\ Len(queue) \in Nat BY LenProperties DEF SessionTypes
<1>2. /\ queue' \in Seq(SessionReports) /\ Len(queue') = Len(queue) + 1
      /\ \A p \in 1 .. Len(queue) : queue'[p] = queue[p]
      /\ queue'[Len(queue) + 1] = e
  BY <1>1, AppendProperties
<1>3. ASSUME NEW s
      PROVE  /\ Losses(s) \subseteq Losses(s)'
             /\ Stats(s)' \subseteq Stats(s) \cup (IF e.kind = "stats" /\ e.source = s THEN {Len(queue) + 1} ELSE {})
             /\ (e.kind = "connection" /\ e.source = s /\ e.connected = FALSE) =>
                  Len(queue) + 1 \in Losses(s)'
             /\ Stats(s) \subseteq 1 .. Len(queue)
  <2>1. Losses(s) \subseteq Losses(s)' BY <1>1, <1>2 DEF Losses, LossAt
  <2>2. \A p \in 1 .. Len(queue) + 1 : p \in 1 .. Len(queue) \/ p = Len(queue) + 1 BY <1>1
  <2>3. Stats(s)' \subseteq Stats(s) \cup (IF e.kind = "stats" /\ e.source = s THEN {Len(queue) + 1} ELSE {})
    BY <1>1, <1>2, <2>2 DEF Stats, CountAt
  <2>4. Len(queue) + 1 \in 1 .. Len(queue') BY <1>1, <1>2
  <2>5. (e.kind = "connection" /\ e.source = s /\ e.connected = FALSE) => Len(queue) + 1 \in Losses(s)'
    BY <1>2, <2>4 DEF Losses, LossAt
  <2> QED BY <2>1, <2>3, <2>5 DEF Stats
<1> QED BY <1>2, <1>3

(* A finite set of naturals has a largest element.                          *)
LEMMA FiniteLargest ==
  ASSUME NEW T, T \subseteq Nat, T # {}, IsFiniteSet(T)
  PROVE  \E x \in T : \A y \in T : y <= x
<1>1. Cardinality(T) \in Nat /\ Cardinality(T) # 0 BY FS_CardinalityType, FS_EmptySet
<1>2. Cardinality(T) - 1 \in 0 .. Cardinality(T) - 1 BY <1>1
<1>3. PICK x \in T : RankIn(T, x) = Cardinality(T) - 1 BY <1>2, RankOnto
<1>4. ASSUME NEW y \in T, y > x PROVE FALSE
  <2>1. RankIn(T, x) < RankIn(T, y) BY <1>4, RankStrict
  <2>2. RankIn(T, y) \in 0 .. Cardinality(T) - 1 BY RankBounded
  <2> QED BY <1>1, <1>3, <2>1, <2>2
<1> QED BY <1>4

-----------------------------------------------------------------------------
(* The reference is one of those that have reported.                        *)
LEMMA ReferenceReports ==
  ASSUME NEW has, NEW st \in [Sources -> [quality : Nat, offset : Int]],
         Session!Reference(has, st) # Session!None
  PROVE  Session!Reference(has, st) \in Sources /\ has[Session!Reference(has, st)]
<1> DEFINE Live == {s \in Sources : has[s]}
           Best == {s \in Live : \A o \in Live : st[o].quality <= st[s].quality}
           Clocks == {st[s].quality : s \in Live}
<1>1. Sources \subseteq Nat /\ IsFiniteSet(Sources)
  BY MCAssumption DEF Session!SessionAssumption, Session!IsFiniteSet, IsFiniteSet
<1>2. Live # {} /\ Session!Reference(has, st) = Session!Min(Best) BY DEF Session!Reference
<1>3. Clocks \subseteq Nat /\ Clocks # {} BY <1>2
<1>4. IsFiniteSet(Live) BY <1>1, FS_Subset
<1>5. IsFiniteSet(Clocks)
  <2> DEFINE f == [s \in Live |-> st[s].quality]
  <2>1. f \in Surjection(Live, Clocks) BY DEF Surjection
  <2> HIDE DEF f, Clocks, Live
  <2> QED BY <1>4, <2>1, FS_Surjection
<1>6. PICK c \in Clocks : \A d \in Clocks : d <= c BY <1>3, <1>5, FiniteLargest
<1>7. Best # {} BY <1>6
<1>8. PICK m \in Best : \A o \in Best : m <= o BY <1>1, <1>7, LeastNatural
<1>9. Session!Min(Best) \in Best BY <1>8 DEF Session!Min
<1> QED BY <1>2, <1>9

(* Whoever becomes the reference, the trims that are due are the trims that *)
(* are applied.                                                             *)
LEMMA RecomputeKeeps ==
  ASSUME NEW has, NEW st \in [Sources -> [quality : Nat, offset : Int]],
         Session!Recompute(has, st), taping => applied = trim
  PROVE  /\ hasStats' = has /\ stats' = st
         /\ reference' # Session!None => reference' \in Sources /\ has[reference']
         /\ taping => applied' = trim'
<1>1. /\ hasStats' = has /\ stats' = st /\ reference' = Session!Reference(has, st)
  BY DEF Session!Recompute
<1>2. ASSUME taping PROVE applied' = trim'
  <2>1. CASE Session!Reference(has, st) = Session!None
    BY <1>2, <2>1 DEF Session!Recompute
  <2>2. CASE Session!Reference(has, st) # Session!None
    <3>1. PICK next : /\ trim' = [s \in Sources |-> next[s]]
                      /\ applied' = [s \in Sources |-> IF next[s] # trim[s] THEN next[s] ELSE applied[s]]
      BY <1>2, <2>2 DEF Session!Recompute
    <3> QED BY <1>2, <3>1
  <2> QED BY <2>1, <2>2
<1> QED BY <1>1, <1>2, ReferenceReports

-----------------------------------------------------------------------------
(* What a step of the capture threads or of the operator keeps.             *)
LEMMA SessionQuiet ==
  ASSUME SessionInv, UNCHANGED <<queue, connected, hasStats>>
  PROVE  \A s \in Sources : LossFollows(s)'
BY DEF SessionInv, LossFollows, Losses, LossAt, Stats, CountAt

(* A report of a source that is there, ...                                  *)
LEMMA SourceReports ==
  ASSUME SessionInv, NEW e \in SessionReports, queue' = Append(queue, e), UNCHANGED <<connected, hasStats>>,
         connected[e.source]
  PROVE  queue' \in Seq(SessionReports) /\ \A s \in Sources : LossFollows(s)'
<1>1. SessionTypes BY DEF SessionInv
<1>2. queue' \in Seq(SessionReports) BY <1>1, ReportQueued
<1>3. ASSUME NEW s \in Sources PROVE LossFollows(s)'
  <2>1. SUFFICES ASSUME ~connected[s]
                 PROVE  /\ \A p \in Stats(s)' : \E q \in Losses(s)' : p < q
                        /\ hasStats[s] => Losses(s)' # {}
    BY DEF LossFollows
  <2>2. Losses(s) \subseteq Losses(s)' /\ Stats(s)' \subseteq Stats(s)
    <3>1. e.source # s BY <2>1
    <3> QED BY <1>1, <3>1, ReportQueued
  <2>3. LossFollows(s) BY DEF SessionInv
  <2> QED BY <2>1, <2>2, <2>3 DEF LossFollows
<1> QED BY <1>2, <1>3

(* ... and its connection or loss.                                          *)
LEMMA SourceConnects ==
  ASSUME SessionInv, NEW s \in Sources, NEW c \in BOOLEAN, queue' = Append(queue, Session!Told(s, c)),
         connected' = [connected EXCEPT ![s] = c], UNCHANGED hasStats
  PROVE  queue' \in Seq(SessionReports) /\ \A o \in Sources : LossFollows(o)'
<1> DEFINE e == Session!Told(s, c)
<1>1. SessionTypes BY DEF SessionInv
<1>2. e \in SessionReports /\ e.kind = "connection" /\ e.source = s /\ e.connected = c
  BY DEF SessionReports, Session!Told
<1> HIDE DEF e
<1>3. queue' = Append(queue, e) BY DEF e
<1>4. queue' \in Seq(SessionReports) BY <1>1, <1>2, <1>3, ReportQueued
<1>5. ASSUME NEW o \in Sources PROVE LossFollows(o)'
  <2>1. SUFFICES ASSUME ~connected'[o]
                 PROVE  /\ \A p \in Stats(o)' : \E q \in Losses(o)' : p < q
                        /\ hasStats[o] => Losses(o)' # {}
    BY DEF LossFollows
  <2>2. Losses(o) \subseteq Losses(o)' /\ Stats(o)' \subseteq Stats(o) /\ Stats(o) \subseteq 1 .. Len(queue)
    BY <1>1, <1>2, <1>3, ReportQueued
  <2>3. CASE o = s
    <3>1. c = FALSE BY <1>1, <2>1, <2>3 DEF SessionTypes
    <3>2. Len(queue) + 1 \in Losses(o)' BY <1>1, <1>2, <1>3, <2>3, <3>1, ReportQueued
    <3>3. Len(queue) \in Nat BY <1>1, LenProperties DEF SessionTypes
    <3>4. \A p \in Stats(o)' : p < Len(queue) + 1 BY <2>2, <3>3
    <3> QED BY <3>2, <3>4
  <2>4. CASE o # s
    <3>1. ~connected[o] BY <1>1, <2>1, <2>4 DEF SessionTypes
    <3>2. LossFollows(o) BY DEF SessionInv
    <3> QED BY <2>2, <3>1, <3>2 DEF LossFollows
  <2> QED BY <2>3, <2>4
<1> QED BY <1>4, <1>5

(* The session counts with its own instance of FiniteSets.                  *)
LEMMA SessionCardinality == \A S : Session!Cardinality(S) = Cardinality(S)
BY DEF Session!Cardinality, Cardinality

(* All that are connected report their loss when the workers are joined.    *)
LEMMA AllLeave ==
  ASSUME SessionInv, UNCHANGED hasStats,
         queue' = queue \o [k \in DOMAIN Session!Leaving |-> Session!Told(Session!Leaving[k], FALSE)]
  PROVE  queue' \in Seq(SessionReports) /\ \A s \in Sources : LossFollows(s)'
<1> DEFINE Gone == {s \in Sources : connected[s]}
           n == Cardinality(Gone)
           leaving == Session!Leaving
           more == [k \in 1 .. n |-> Session!Told(leaving[k], FALSE)]
<1>1. SessionTypes BY DEF SessionInv
<1>2. Sources \subseteq Nat /\ IsFiniteSet(Sources)
  BY MCAssumption DEF Session!SessionAssumption, Session!IsFiniteSet, IsFiniteSet
<1>3. Gone \subseteq Nat /\ IsFiniteSet(Gone) /\ n \in Nat BY <1>2, FS_Subset, FS_CardinalityType
<1>4. leaving = [k \in 1 .. n |-> CHOOSE s \in Gone : Session!Cardinality({o \in Gone : o < s}) = k - 1]
  BY SessionCardinality DEF Session!Leaving
<1> HIDE DEF leaving, Gone, n
<1>5. \A k \in 1 .. n : leaving[k] \in Gone /\ RankIn(Gone, leaving[k]) = k - 1
  <2> SUFFICES ASSUME NEW k \in 1 .. n PROVE leaving[k] \in Gone /\ RankIn(Gone, leaving[k]) = k - 1
    OBVIOUS
  <2>1. k - 1 \in 0 .. Cardinality(Gone) - 1 BY <1>3 DEF n
  <2>2. \E s \in Gone : RankIn(Gone, s) = k - 1 BY <1>3, <2>1, RankOnto
  <2>3. \E s \in Gone : Session!Cardinality({o \in Gone : o < s}) = k - 1
    BY <2>2, SessionCardinality DEF RankIn
  <2>4. leaving[k] = CHOOSE s \in Gone : Session!Cardinality({o \in Gone : o < s}) = k - 1 BY <1>4
  <2>5. leaving[k] \in Gone /\ Session!Cardinality({o \in Gone : o < leaving[k]}) = k - 1
    BY <2>3, <2>4
  <2> QED BY <2>5, SessionCardinality DEF RankIn
<1>6. \A s \in Gone : \E k \in 1 .. n : leaving[k] = s
  <2> SUFFICES ASSUME NEW s \in Gone PROVE \E k \in 1 .. n : leaving[k] = s OBVIOUS
  <2>1. RankIn(Gone, s) \in 0 .. n - 1 BY <1>3, RankBounded DEF n
  <2>2. RankIn(Gone, s) + 1 \in 1 .. n BY <1>3, <2>1
  <2>3. leaving[RankIn(Gone, s) + 1] \in Gone
        /\ RankIn(Gone, leaving[RankIn(Gone, s) + 1]) = RankIn(Gone, s)
    BY <1>5, <2>1, <2>2
  <2> QED BY <1>3, <2>2, <2>3, RankDistinct
<1>7. \A k \in 1 .. n : more[k] \in SessionReports /\ more[k].kind = "connection"
                        /\ more[k].source = leaving[k] /\ more[k].connected = FALSE
  BY <1>5 DEF SessionReports, Session!Told, Gone
<1>8. more \in Seq(SessionReports) /\ Len(more) = n
  <2>1. more \in [1 .. n -> SessionReports] BY <1>7
  <2> HIDE DEF more
  <2> QED BY <1>3, <2>1, SeqDef, LenProperties
<1>9. queue' = queue \o more
  <2>1. DOMAIN leaving = 1 .. n BY <1>4
  <2> QED BY <2>1 DEF leaving
<1> HIDE DEF more
<1>10. queue \in Seq(SessionReports) /\ Len(queue) \in Nat BY <1>1, LenProperties DEF SessionTypes
<1>11. /\ queue' \in Seq(SessionReports) /\ Len(queue') = Len(queue) + n
       /\ \A p \in 1 .. Len(queue) + n :
            queue'[p] = IF p <= Len(queue) THEN queue[p] ELSE more[p - Len(queue)]
  <2> DEFINE all == queue \o more
  <2>1. /\ all \in Seq(SessionReports) /\ Len(all) = Len(queue) + Len(more)
        /\ \A p \in 1 .. Len(queue) + Len(more) :
             all[p] = IF p <= Len(queue) THEN queue[p] ELSE more[p - Len(queue)]
    BY <1>8, <1>10, ConcatProperties
  <2>2. queue' = all BY <1>9
  <2> HIDE DEF all
  <2> QED BY <1>8, <2>1, <2>2
<1>12. \A p \in 1 .. Len(queue) : p \in 1 .. Len(queue) + n /\ queue'[p] = queue[p] BY <1>3, <1>10, <1>11
<1>13. \A k \in 1 .. n : Len(queue) + k \in 1 .. Len(queue) + n /\ queue'[Len(queue) + k] = more[k]
  <2> SUFFICES ASSUME NEW k \in 1 .. n
               PROVE  Len(queue) + k \in 1 .. Len(queue) + n /\ queue'[Len(queue) + k] = more[k]
    OBVIOUS
  <2>1. Len(queue) + k \in 1 .. Len(queue) + n /\ ~(Len(queue) + k <= Len(queue))
        /\ (Len(queue) + k) - Len(queue) = k
    BY <1>3, <1>10
  <2> QED BY <1>11, <2>1
<1>14. ASSUME NEW s \in Sources PROVE LossFollows(s)'
  <2>1. Losses(s) \subseteq Losses(s)' BY <1>11, <1>12 DEF Losses, LossAt
  <2>2. Stats(s)' \subseteq Stats(s)
    <3> SUFFICES ASSUME NEW p \in Stats(s)' PROVE p \in Stats(s) OBVIOUS
    <3>1. p \in 1 .. Len(queue) + n /\ queue'[p].kind = "stats" /\ queue'[p].source = s
      BY <1>11 DEF Stats, CountAt
    <3>2. CASE p <= Len(queue)
      <4>1. p \in 1 .. Len(queue) BY <1>10, <3>1, <3>2
      <4> QED BY <1>12, <3>1, <4>1 DEF Stats, CountAt
    <3>3. CASE ~(p <= Len(queue))
      <4>1. p - Len(queue) \in 1 .. n BY <1>3, <1>10, <3>1, <3>3
      <4>2. queue'[p].kind = "connection" BY <1>7, <1>11, <3>1, <3>3, <4>1
      <4> QED BY <3>1, <4>2
    <3> QED BY <3>2, <3>3
  <2>3. CASE connected[s]
    <3>1. PICK k \in 1 .. n : leaving[k] = s BY <1>6, <2>3 DEF Gone
    <3>0. PICK m \in Nat : m = Len(queue) + k BY <1>10
    <3>2. LossAt(s, m)'
      <4>1. queue'[m] = more[k] BY <1>13, <3>0
      <4>2. more[k].kind = "connection" /\ more[k].source = s /\ more[k].connected = FALSE
        BY <1>7, <3>1
      <4> QED BY <4>1, <4>2 DEF LossAt
    <3>4. m \in Losses(s)'
      <4>1. m \in 1 .. Len(queue') BY <1>11, <1>13, <3>0
      <4> QED BY <3>2, <4>1 DEF Losses
    <3>3. \A p \in Stats(s)' : p < m
      <4>1. Stats(s) \subseteq 1 .. Len(queue) BY DEF Stats
      <4> QED BY <1>10, <2>2, <3>0, <4>1
    <3> QED BY <3>3, <3>4 DEF LossFollows
  <2>4. CASE ~connected[s]
    <3>1. LossFollows(s) BY DEF SessionInv
    <3> QED BY <2>1, <2>2, <2>4, <3>1 DEF LossFollows
  <2> QED BY <2>3, <2>4
<1> QED BY <1>11, <1>14

-----------------------------------------------------------------------------
(* The main thread takes a report: those behind it move up.                 *)
LEMMA ReportTaken ==
  ASSUME SessionTypes, queue # <<>>, queue' = Tail(queue)
  PROVE  /\ Head(queue) \in SessionReports /\ queue' \in Seq(SessionReports)
         /\ \A s : /\ \A p \in Stats(s)' : p + 1 \in Stats(s)
                   /\ \A q \in Losses(s) : q # 1 => q - 1 \in Losses(s)'
                   /\ 1 \in Losses(s) => LossAt(s, 1) /\ queue[1] = Head(queue)
                   /\ Head(queue).kind = "stats" /\ Head(queue).source = s => 1 \in Stats(s)
                   /\ Losses(s) \subseteq Nat /\ Stats(s)' \subseteq Nat
<1>1. queue \in Seq(SessionReports) BY DEF SessionTypes
<1>2. /\ Len(queue) \in Nat \ {0} /\ Head(queue) = queue[1] /\ Head(queue) \in SessionReports
      /\ queue' \in Seq(SessionReports) /\ Len(queue') = Len(queue) - 1
      /\ \A p \in 1 .. Len(queue) - 1 : queue'[p] = queue[p + 1]
  <2>1. Len(queue) \in Nat \ {0} BY <1>1, EmptySeq, LenProperties
  <2> QED BY <1>1, <2>1, HeadTailProperties
<1>3. ASSUME NEW s PROVE \A p \in Stats(s)' : p + 1 \in Stats(s)
  <2> SUFFICES ASSUME NEW p \in Stats(s)' PROVE p + 1 \in Stats(s) OBVIOUS
  <2>1. p \in 1 .. Len(queue') /\ queue'[p].kind = "stats" /\ queue'[p].source = s BY DEF Stats, CountAt
  <2>2. p \in 1 .. Len(queue) - 1 /\ p + 1 \in 1 .. Len(queue) BY <1>2, <2>1
  <2> QED BY <1>2, <2>1, <2>2 DEF Stats, CountAt
<1>4. ASSUME NEW s, NEW q \in Losses(s), q # 1 PROVE q - 1 \in Losses(s)'
  <2>1. q \in 1 .. Len(queue) /\ LossAt(s, q) BY DEF Losses
  <2>2. PICK p \in Nat : p = q - 1 BY <1>4, <2>1
  <2>3. p \in 1 .. Len(queue') /\ p + 1 = q /\ queue'[p] = queue[q] BY <1>2, <1>4, <2>1, <2>2
  <2>4. LossAt(s, p)' BY <2>1, <2>3 DEF LossAt
  <2>5. p \in Losses(s)' BY <2>3, <2>4 DEF Losses
  <2> QED BY <2>2, <2>5
<1>5. 1 \in 1 .. Len(queue) BY <1>2
<1>6. \A s : /\ 1 \in Losses(s) => LossAt(s, 1) /\ queue[1] = Head(queue)
             /\ Head(queue).kind = "stats" /\ Head(queue).source = s => 1 \in Stats(s)
             /\ Losses(s) \subseteq Nat /\ Stats(s)' \subseteq Nat
  BY <1>2, <1>5 DEF Losses, Stats, CountAt
<1> QED BY <1>2, <1>3, <1>4, <1>6

(* A report delivered: a loss clears the statistics of its source, and the  *)
(* statistics of a source that is gone have their loss behind them.         *)
LEMMA SessionDelivers == SessionInv /\ Session!Deliver => SessionInv'
<1> SUFFICES ASSUME SessionInv, Session!Deliver PROVE SessionInv' OBVIOUS
<1> DEFINE e == Head(queue)
<1>1. SessionTypes /\ queue # <<>> /\ queue' = Tail(queue) BY DEF SessionInv, Session!Deliver
<1>2. UNCHANGED <<taping, clock, timing, blue, muxer, feeds, telemetry, connected, phase, timecode>>
  BY DEF Session!Deliver, Session!lifeVars, Session!sourceVars
<1>3. \/ e.kind = "stats" /\ Session!OnStats(e)
      \/ e.kind = "connection" /\ Session!OnConnection(e)
      \/ e.kind = "timecode" /\ Session!OnTimecode(e)
  BY DEF Session!Deliver
<1>4. e \in SessionReports /\ queue' \in Seq(SessionReports) BY <1>1, ReportTaken
<1> HIDE DEF e
<1>5. /\ e.source \in Sources
      /\ e.kind = "stats" => e.stats \in [quality : Nat, offset : Int]
      /\ e.kind = "connection" => e.connected \in BOOLEAN
  BY <1>4 DEF SessionReports
<1>6. taping => applied = trim BY DEF SessionInv
<1>7. /\ hasStats' = IF e.kind = "stats" THEN [hasStats EXCEPT ![e.source] = TRUE]
                     ELSE IF e.kind = "connection" /\ e.connected = FALSE
                          THEN [hasStats EXCEPT ![e.source] = FALSE] ELSE hasStats
      /\ stats' \in [Sources -> [quality : Nat, offset : Int]]
      /\ reference' # Session!None => reference' \in Sources /\ hasStats'[reference']
      /\ taping => applied' = trim'
  <2>1. CASE e.kind = "stats"
    <3> DEFINE has == [hasStats EXCEPT ![e.source] = TRUE]
               st == [stats EXCEPT ![e.source] = e.stats]
    <3>1. st \in [Sources -> [quality : Nat, offset : Int]] BY <1>1, <1>5, <2>1 DEF SessionTypes
    <3>2. Session!Recompute(has, st) BY <1>3, <2>1 DEF Session!OnStats
    <3> HIDE DEF has, st
    <3>3. /\ hasStats' = has /\ stats' = st
          /\ reference' # Session!None => reference' \in Sources /\ has[reference']
          /\ taping => applied' = trim'
      BY <1>6, <3>1, <3>2, RecomputeKeeps
    <3> QED BY <2>1, <3>1, <3>3 DEF has
  <2>2. CASE e.kind = "connection" /\ e.connected = FALSE
    <3> DEFINE has == [hasStats EXCEPT ![e.source] = FALSE]
    <3>1. stats \in [Sources -> [quality : Nat, offset : Int]] BY <1>1 DEF SessionTypes
    <3>2. Session!Recompute(has, stats) BY <1>3, <2>2 DEF Session!OnConnection
    <3> HIDE DEF has
    <3>3. /\ hasStats' = has /\ stats' = stats
          /\ reference' # Session!None => reference' \in Sources /\ has[reference']
          /\ taping => applied' = trim'
      BY <1>6, <3>1, <3>2, RecomputeKeeps
    <3> QED BY <2>2, <3>1, <3>3 DEF has
  <2>3. CASE e.kind = "timecode" \/ (e.kind = "connection" /\ e.connected # FALSE)
    <3>1. UNCHANGED <<hasStats, stats, reference, trim, applied>>
      BY <1>3, <1>5, <2>3 DEF Session!OnTimecode, Session!OnConnection, Session!phaseVars
    <3> QED BY <1>1, <1>6, <2>3, <3>1 DEF SessionInv, SessionTypes
  <2> QED BY <1>3, <2>1, <2>2, <2>3
<1>8. hasStats' \in [Sources -> BOOLEAN] BY <1>1, <1>7 DEF SessionTypes
<1>9. SessionTypes' BY <1>1, <1>2, <1>4, <1>7, <1>8 DEF SessionTypes
<1>10. TracksKept' BY <1>2 DEF SessionInv, TracksKept
<1>11. ASSUME NEW s \in Sources PROVE LossFollows(s)'
  <2>1. SUFFICES ASSUME ~connected[s]
                 PROVE  /\ \A p \in Stats(s)' : \E q \in Losses(s)' : p < q
                        /\ hasStats'[s] => Losses(s)' # {}
    BY <1>2 DEF LossFollows
  <2>2. /\ \A p \in Stats(s)' : p + 1 \in Stats(s)
        /\ \A q \in Losses(s) : q # 1 => q - 1 \in Losses(s)'
        /\ 1 \in Losses(s) => LossAt(s, 1) /\ queue[1] = e
        /\ e.kind = "stats" /\ e.source = s => 1 \in Stats(s)
        /\ Losses(s) \subseteq Nat /\ Stats(s)' \subseteq Nat
    BY <1>1, ReportTaken DEF e
  <2>3. LossFollows(s) BY DEF SessionInv
  <2>4. ASSUME NEW p \in Stats(s)' PROVE \E q \in Losses(s)' : p < q
    <3>1. PICK q \in Losses(s) : p + 1 < q BY <2>1, <2>2, <2>3 DEF LossFollows
    <3>2. q # 1 /\ p < q - 1 BY <2>2, <3>1
    <3> QED BY <2>2, <3>2
  <2>5. ASSUME hasStats'[s] PROVE Losses(s)' # {}
    <3>1. CASE e.kind = "stats" /\ e.source = s
      <4>1. PICK q \in Losses(s) : 1 < q BY <2>1, <2>2, <2>3, <3>1 DEF LossFollows
      <4> QED BY <2>2, <4>1
    <3>2. CASE ~(e.kind = "stats" /\ e.source = s)
      <4>1. hasStats[s] /\ ~(e.kind = "connection" /\ e.connected = FALSE /\ e.source = s)
        BY <1>1, <1>7, <2>5, <3>2 DEF SessionTypes
      <4>2. PICK q \in Losses(s) : TRUE BY <2>1, <2>3, <4>1 DEF LossFollows
      <4>3. q # 1 BY <2>2, <4>1, <4>2 DEF LossAt
      <4> QED BY <2>2, <4>3
    <3> QED BY <3>1, <3>2
  <2> QED BY <2>4, <2>5
<1> QED BY <1>2, <1>7, <1>9, <1>10, <1>11 DEF SessionInv

-----------------------------------------------------------------------------
(* A telemetry event is recorded on the track its feed has had since the    *)
(* recording started.                                                       *)
LEMMA TracksRecorded ==
  ASSUME SessionInv, NEW f \in Feeds, Session!RecordTelemetryEvent(f)
  PROVE  TracksKept'
<1>1. PICK i \in DOMAIN feeds : feeds[i] = f BY DEF Session!RecordTelemetryEvent
<1>2. Session!TrackOf(feeds, f) \in DOMAIN feeds /\ feeds[Session!TrackOf(feeds, f)] = f
  BY <1>1 DEF Session!TrackOf
<1>3. /\ taping /\ UNCHANGED <<taping, muxer, feeds>>
      /\ telemetry' = {[feed |-> f, track |-> Session!TrackOf(feeds, f)]}
  BY DEF Session!RecordTelemetryEvent, Session!lifeVars
<1>4. muxer = <<TRUE, feeds>> BY <1>3 DEF SessionInv, TracksKept
<1>5. ASSUME NEW t \in telemetry' PROVE t.track \in DOMAIN feeds /\ feeds[t.track] = t.feed
  BY <1>2, <1>3
<1> QED BY <1>3, <1>4, <1>5 DEF TracksKept

(* Every step of the session keeps its invariant.                           *)
LEMMA SessionStep == SessionInv /\ [Session!Next]_sessionOwn => SessionInv'
<1> SUFFICES ASSUME SessionInv, [Session!Next]_sessionOwn PROVE SessionInv' OBVIOUS
<1> USE DEF Session!lifeVars, Session!phaseVars, Session!sourceVars
<1>1. SessionTypes /\ TracksKept /\ (taping => applied = trim)
      /\ (reference # Session!None => reference \in Sources /\ hasStats[reference])
  BY DEF SessionInv
<1>2. CASE UNCHANGED sessionOwn
  <2>1. UNCHANGED <<queue, taping, connected, hasStats, stats, phase, timecode, muxer, feeds, telemetry,
                    clock, timing, blue, reference, applied, trim>>
    BY <1>2 DEF sessionOwn
  <2>2. \A s \in Sources : LossFollows(s)' BY <2>1, SessionQuiet
  <2> QED BY <1>1, <2>1, <2>2 DEF SessionInv, SessionTypes, TracksKept
<1>3. ASSUME NEW f \in Session!FeedLists, Session!SetTelemetryFeeds(f) PROVE SessionInv'
  <2>1. /\ UNCHANGED <<queue, taping, connected, hasStats, stats, phase, timecode, muxer, telemetry,
                       clock, timing, blue, reference, applied, trim>>
        /\ ~taping
    BY <1>3 DEF Session!SetTelemetryFeeds
  <2>2. \A s \in Sources : LossFollows(s)' BY <2>1, SessionQuiet
  <2> QED BY <1>1, <2>1, <2>2 DEF SessionInv, SessionTypes, TracksKept
<1>4. ASSUME NEW f \in Feeds, Session!RecordTelemetryEvent(f) PROVE SessionInv'
  <2>1. UNCHANGED <<queue, taping, connected, hasStats, stats, phase, timecode, muxer,
                    clock, timing, blue, reference, applied, trim>>
    BY <1>4 DEF Session!RecordTelemetryEvent
  <2>2. \A s \in Sources : LossFollows(s)' BY <2>1, SessionQuiet
  <2>3. TracksKept' BY <1>4, TracksRecorded
  <2> QED BY <1>1, <2>1, <2>2, <2>3 DEF SessionInv, SessionTypes
<1>5. ASSUME Session!FreshEvidence, UNCHANGED <<queue, phase, timecode>>, TracksKept', taping' \in BOOLEAN,
             connected' \in [Sources -> BOOLEAN], \A s \in Sources : ~connected'[s],
             taping' => applied' = [s \in Sources |-> 0], UNCHANGED connected
      PROVE SessionInv'
  <2>1. /\ hasStats' = [s \in Sources |-> FALSE] /\ reference' = Session!None
        /\ stats' = [s \in Sources |-> Session!NoStats] /\ trim' = [s \in Sources |-> 0]
    BY <1>5 DEF Session!FreshEvidence
  <2>2. hasStats' \in [Sources -> BOOLEAN] BY <2>1
  <2>3. stats' \in [Sources -> [quality : Nat, offset : Int]] BY <2>1 DEF Session!NoStats
  <2>4. SessionTypes' BY <1>1, <1>5, <2>2, <2>3 DEF SessionTypes
  <2>5. ASSUME NEW s \in Sources PROVE LossFollows(s)'
    <3>1. LossFollows(s) BY DEF SessionInv
    <3>2. ~connected[s] BY <1>5
    <3>3. ~hasStats'[s] BY <2>1
    <3> QED BY <1>5, <3>1, <3>2, <3>3 DEF LossFollows, Losses, LossAt, Stats, CountAt
  <2> QED BY <1>5, <2>1, <2>4, <2>5 DEF SessionInv
<1>6. CASE Session!StartRecording
  <2>1. /\ ~taping /\ Session!FreshEvidence /\ UNCHANGED <<queue, phase, timecode, feeds>> /\ taping' = TRUE
        /\ connected' = [s \in Sources |-> FALSE] /\ applied' = [s \in Sources |-> 0]
        /\ muxer' = <<TRUE, feeds>> /\ telemetry' = {}
    BY <1>6 DEF Session!StartRecording
  <2>2. connected = connected' BY <1>1, <2>1 DEF SessionTypes
  <2>3. TracksKept' BY <2>1 DEF TracksKept
  <2>4. taping' \in BOOLEAN /\ connected' \in [Sources -> BOOLEAN] /\ \A s \in Sources : ~connected'[s]
    BY <2>1
  <2> QED BY <1>5, <2>1, <2>2, <2>3, <2>4
<1>7. CASE Session!StartFails
  <2>1. /\ ~taping /\ Session!FreshEvidence /\ UNCHANGED <<queue, phase, timecode, feeds, taping, connected,
                                                          clock, timing, telemetry>>
        /\ muxer' = <<FALSE, <<>>>> /\ blue' = FALSE
    BY <1>7 DEF Session!StartFails, Session!SetupBlue
  <2>2. TracksKept' BY <1>1, <2>1 DEF TracksKept
  <2>3. taping' \in BOOLEAN /\ connected' \in [Sources -> BOOLEAN] /\ \A s \in Sources : ~connected'[s]
    BY <1>1, <2>1 DEF SessionTypes
  <2> QED BY <1>5, <2>1, <2>2, <2>3
<1>8. CASE Session!StopRecording
  <2>1. /\ taping' = FALSE /\ clock' = FALSE /\ timing' = FALSE /\ blue' = FALSE /\ muxer' = <<FALSE, <<>>>>
        /\ connected' = [s \in Sources |-> FALSE]
        /\ UNCHANGED <<hasStats, stats, reference, phase, timecode>>
        /\ queue' = queue \o [k \in DOMAIN Session!Leaving |-> Session!Told(Session!Leaving[k], FALSE)]
    BY <1>8 DEF Session!StopRecording, Session!SetupBlue
  <2>2. queue' \in Seq(SessionReports) /\ \A s \in Sources : LossFollows(s)' BY <2>1, AllLeave
  <2>3. taping' \in BOOLEAN /\ connected' \in [Sources -> BOOLEAN] /\ \A s \in Sources : ~connected'[s]
    BY <2>1
  <2>4. SessionTypes' BY <1>1, <2>1, <2>2, <2>3 DEF SessionTypes
  <2>5. TracksKept' BY <2>1 DEF TracksKept
  <2> QED BY <1>1, <2>1, <2>2, <2>4, <2>5 DEF SessionInv
<1>9. ASSUME NEW s \in Sources, NEW c \in BOOLEAN, Session!Connect(s, c) PROVE SessionInv'
  <2>1. /\ taping /\ connected' = [connected EXCEPT ![s] = c]
        /\ queue' = Append(queue, Session!Told(s, c))
        /\ UNCHANGED <<taping, clock, timing, blue, muxer, feeds, telemetry, hasStats, stats, reference,
                       trim, applied>>
    BY <1>9 DEF Session!Connect
  <2>2. queue' \in Seq(SessionReports) /\ \A o \in Sources : LossFollows(o)' BY <2>1, SourceConnects
  <2>3. PICK q \in Qualities, o \in Offsets :
          phase' = IF c THEN [phase EXCEPT ![s] = [quality |-> q, offset |-> o]] ELSE phase
    BY <1>9 DEF Session!Connect
  <2>4. Qualities \subseteq Nat /\ Offsets \subseteq Int /\ Sources \subseteq Nat
    BY MCAssumption DEF Session!SessionAssumption
  <2>5. phase' \in [Sources -> [quality : Nat, offset : Int]] BY <1>1, <2>3, <2>4 DEF SessionTypes
  <2>6. PICK t \in Nat :
          timecode' = [timecode EXCEPT ![s] = IF c THEN (IF t = 0 THEN Session!None ELSE s) ELSE @]
    BY <1>9 DEF Session!Connect
  <2>7. timecode' \in [Sources -> Int] BY <1>1, <2>4, <2>6 DEF SessionTypes, Session!None
  <2>8. connected' \in [Sources -> BOOLEAN] BY <1>1, <2>1 DEF SessionTypes
  <2>9. SessionTypes' BY <1>1, <2>1, <2>2, <2>5, <2>7, <2>8 DEF SessionTypes
  <2>10. TracksKept' BY <1>1, <2>1 DEF TracksKept
  <2> QED BY <1>1, <2>1, <2>2, <2>9, <2>10 DEF SessionInv
<1>10. ASSUME NEW s \in Sources, Session!Report(s) \/ Session!FrameTimecode(s) PROVE SessionInv'
  <2>1. /\ connected[s]
        /\ UNCHANGED <<taping, clock, timing, blue, muxer, feeds, telemetry, hasStats, stats, reference,
                       trim, applied, connected, phase, timecode>>
    BY <1>10 DEF Session!Report, Session!FrameTimecode
  <2>2. PICK e \in SessionReports : e.source = s /\ queue' = Append(queue, e)
    <3>1. CASE Session!Report(s)
      <4>1. [kind |-> "stats", source |-> s, stats |-> phase[s]] \in SessionReports
        BY <1>1 DEF SessionTypes, SessionReports
      <4> QED BY <3>1, <4>1 DEF Session!Report
    <3>2. CASE Session!FrameTimecode(s)
      <4>1. [kind |-> "timecode", source |-> s, at |-> timecode[s]] \in SessionReports
        BY <1>1 DEF SessionTypes, SessionReports
      <4> QED BY <3>2, <4>1 DEF Session!FrameTimecode
    <3> QED BY <1>10, <3>1, <3>2
  <2>3. queue' \in Seq(SessionReports) /\ \A o \in Sources : LossFollows(o)' BY <2>1, <2>2, SourceReports
  <2>4. SessionTypes' BY <1>1, <2>1, <2>3 DEF SessionTypes
  <2>5. TracksKept' BY <1>1, <2>1 DEF TracksKept
  <2> QED BY <1>1, <2>1, <2>3, <2>4, <2>5 DEF SessionInv
<1>11. CASE Session!Deliver BY <1>11, SessionDelivers
<1> QED BY <1>2, <1>3, <1>4, <1>6, <1>7, <1>8, <1>9, <1>10, <1>11 DEF Session!Next

-----------------------------------------------------------------------------
(* The mean of a window.  The partial sums are a recursive function, which  *)
(* is a choice: that there is one, and what it is bounded by, is shown by a *)
(* least counterexample.                                                    *)
LEMMA SumExists ==
  ASSUME NEW w, NEW n \in Nat
  PROVE  \E f : f = [i \in 0 .. n |-> IF i = 0 THEN 0 ELSE f[i - 1] + (w[i] - w[1])]
<1> DEFINE Sum(f, k) == f = [i \in 0 .. k |-> IF i = 0 THEN 0 ELSE f[i - 1] + (w[i] - w[1])]
           Bad == {k \in Nat : ~ \E f : Sum(f, k)}
<1>1. SUFFICES ASSUME Bad # {} PROVE FALSE
  OBVIOUS
<1>2. PICK x \in Bad : \A y \in Bad : x <= y BY <1>1, LeastNatural
<1>3. CASE x = 0
  <2>1. Sum([i \in 0 .. 0 |-> 0], 0) OBVIOUS
  <2> QED BY <1>2, <1>3, <2>1
<1>4. CASE x # 0
  <2>1. x - 1 \in Nat /\ x - 1 \notin Bad
    <3>1. Bad \subseteq Nat OBVIOUS
    <3> HIDE DEF Bad
    <3> QED BY <1>2, <1>4, <3>1
  <2>2. PICK f : Sum(f, x - 1) BY <2>1
  <2> DEFINE g == [i \in 0 .. x |-> IF i = 0 THEN 0 ELSE f[i - 1] + (w[i] - w[1])]
  <2>3. \A j \in 0 .. x - 1 : f[j] = IF j = 0 THEN 0 ELSE f[j - 1] + (w[j] - w[1]) BY <2>2
  <2>4. \A j \in 0 .. x - 1 : g[j] = f[j]
    <3> SUFFICES ASSUME NEW j \in 0 .. x - 1 PROVE g[j] = f[j] OBVIOUS
    <3>1. j \in 0 .. x BY <2>1
    <3> QED BY <2>3, <3>1
  <2>5. \A i \in 0 .. x : g[i] = IF i = 0 THEN 0 ELSE g[i - 1] + (w[i] - w[1])
    <3> SUFFICES ASSUME NEW i \in 0 .. x
                 PROVE  g[i] = IF i = 0 THEN 0 ELSE g[i - 1] + (w[i] - w[1])
      OBVIOUS
    <3>1. CASE i = 0 BY <3>1
    <3>2. CASE i # 0
      <4>1. i - 1 \in 0 .. x - 1 BY <2>1, <3>2
      <4>2. g[i] = f[i - 1] + (w[i] - w[1]) BY <3>2
      <4> QED BY <2>4, <3>2, <4>1, <4>2
    <3> QED BY <3>1, <3>2
  <2>6. Sum(g, x)
    <3>1. g = [i \in 0 .. x |-> g[i]] OBVIOUS
    <3> HIDE DEF g
    <3> QED BY <2>5, <3>1
  <2> QED BY <1>2, <2>6
<1> QED BY <1>3, <1>4

(* One summand more, ...                                                    *)
LEMMA OneMoreTime ==
  ASSUME NEW x \in Int, NEW c \in Int
  PROVE  x * c = (x - 1) * c + c /\ (x - 1) * c \in Int
OBVIOUS

(* ... so a sum of n lies between n times the bounds, ...                   *)
LEMMA SumBounded ==
  ASSUME NEW w, NEW n \in Nat, NEW c \in Int, NEW d \in Int,
         \A i \in 1 .. n : w[i] - w[1] \in Int /\ c <= w[i] - w[1] /\ w[i] - w[1] <= d,
         NEW f, f = [i \in 0 .. n |-> IF i = 0 THEN 0 ELSE f[i - 1] + (w[i] - w[1])]
  PROVE  f[n] \in Int /\ n * c <= f[n] /\ f[n] <= n * d
<1> DEFINE Good(k) == f[k] \in Int /\ k * c <= f[k] /\ f[k] <= k * d
           Bad == {k \in 0 .. n : ~Good(k)}
<1>1. SUFFICES ASSUME Bad # {} PROVE FALSE
  <2>1. n \in 0 .. n OBVIOUS
  <2>2. Bad = {} => Good(n) BY <2>1
  <2> QED BY <2>2
<1>2. PICK x \in Bad : \A y \in Bad : x <= y
  <2>1. Bad \subseteq Nat OBVIOUS
  <2> HIDE DEF Bad
  <2> QED BY <1>1, <2>1, LeastNatural
<1>3. \A j \in 0 .. n : f[j] = IF j = 0 THEN 0 ELSE f[j - 1] + (w[j] - w[1]) OBVIOUS
<1>4. Good(x)
  <2>1. CASE x = 0
    <3>1. f[0] = 0 BY <1>3
    <3> QED BY <2>1, <3>1
  <2>2. CASE x # 0
    <3>1. x - 1 \in 0 .. n /\ x - 1 \notin Bad /\ x \in 1 .. n BY <1>2, <2>2
    <3>2. Good(x - 1) BY <3>1
    <3>3. f[x] = f[x - 1] + (w[x] - w[1]) BY <1>3, <3>1
    <3>4. PICK v \in Int : v = w[x] - w[1] /\ c <= v /\ v <= d BY <3>1
    <3>5. PICK u \in Int : u = f[x - 1] /\ (x - 1) * c <= u /\ u <= (x - 1) * d BY <3>2
    <3>6. x \in Int BY <3>1
    <3>7. /\ x * c = (x - 1) * c + c /\ (x - 1) * c \in Int
          /\ x * d = (x - 1) * d + d /\ (x - 1) * d \in Int
      BY <3>6, OneMoreTime
    <3>8. f[x] = u + v BY <3>3, <3>4, <3>5
    <3>9. PICK a \in Int, b \in Int : a = (x - 1) * c /\ b = (x - 1) * d BY <3>7
    <3>10. a + c <= u + v /\ u + v <= b + d BY <3>4, <3>5, <3>9
    <3> QED BY <3>7, <3>8, <3>9, <3>10
  <2> QED BY <2>1, <2>2
<1> QED BY <1>2, <1>4

(* ... and dividing by n gives the bounds back.                             *)
LEMMA Quotient ==
  ASSUME NEW a \in Int, NEW n \in Nat \ {0}, NEW lo \in Int, NEW hi \in Int, n * lo <= a, a <= n * hi
  PROVE  a \div n \in Int /\ lo <= a \div n /\ a \div n <= hi
<1> DEFINE q == a \div n
           r == a % n
<1>1. q \in Int /\ r \in 0 .. n - 1 /\ a = n * q + r OBVIOUS
<1> HIDE DEF q, r
<1>2. ASSUME q < lo PROVE FALSE
  <2>1. q + 1 <= lo BY <1>1, <1>2
  <2>2. n * (q + 1) <= n * lo BY <1>1, <2>1
  <2>3. n * (q + 1) = n * q + n BY <1>1
  <2> QED BY <1>1, <2>2, <2>3
<1>3. ASSUME q > hi PROVE FALSE
  <2>1. hi + 1 <= q BY <1>1, <1>3
  <2>2. n * (hi + 1) <= n * q BY <1>1, <2>1
  <2>3. n * (hi + 1) = n * hi + n BY <1>1
  <2> QED BY <1>1, <2>2, <2>3
<1> QED BY <1>1, <1>2, <1>3 DEF q

(* The mean lies between the smallest and the largest element.              *)
LEMMA MeanBetween ==
  ASSUME NEW w \in Seq(Int), Len(w) > 0, NEW lo \in Int, NEW hi \in Int,
         \A i \in DOMAIN w : lo <= w[i] /\ w[i] <= hi
  PROVE  Ptp!Mean(w) \in Int /\ lo <= Ptp!Mean(w) /\ Ptp!Mean(w) <= hi
<1> DEFINE sum == CHOOSE f : f = [i \in 0 .. Len(w) |-> IF i = 0 THEN 0 ELSE f[i - 1] + (w[i] - w[1])]
<1>1. Len(w) \in Nat \ {0} /\ DOMAIN w = 1 .. Len(w) /\ \A i \in 1 .. Len(w) : w[i] \in Int
  BY LenProperties, ElementOfSeq
<1>2. Ptp!Mean(w) = w[1] + (sum[Len(w)] \div Len(w)) BY DEF Ptp!Mean
<1>3. sum = [i \in 0 .. Len(w) |-> IF i = 0 THEN 0 ELSE sum[i - 1] + (w[i] - w[1])]
  BY <1>1, SumExists
<1> HIDE DEF sum
<1>4. w[1] \in Int /\ lo - w[1] \in Int /\ hi - w[1] \in Int BY <1>1
<1>5. PICK c \in Int, d \in Int : c = lo - w[1] /\ d = hi - w[1] BY <1>4
<1>6. PICK n \in Nat \ {0} : n = Len(w) BY <1>1
<1>7. \A i \in 1 .. n : w[i] - w[1] \in Int /\ c <= w[i] - w[1] /\ w[i] - w[1] <= d
  <2> SUFFICES ASSUME NEW i \in 1 .. n PROVE w[i] - w[1] \in Int /\ c <= w[i] - w[1] /\ w[i] - w[1] <= d
    OBVIOUS
  <2>1. w[i] \in Int /\ lo <= w[i] /\ w[i] <= hi BY <1>1, <1>6
  <2> QED BY <1>4, <1>5, <2>1
<1>8. sum[n] \in Int /\ n * c <= sum[n] /\ sum[n] <= n * d
  <2>1. sum = [i \in 0 .. n |-> IF i = 0 THEN 0 ELSE sum[i - 1] + (w[i] - w[1])] BY <1>3, <1>6
  <2> QED BY <1>7, <2>1, SumBounded
<1>9. sum[n] \div n \in Int /\ c <= sum[n] \div n /\ sum[n] \div n <= d
  BY <1>8, Quotient
<1> QED BY <1>2, <1>4, <1>5, <1>6, <1>9

-----------------------------------------------------------------------------
(* The PTP reference. A round is put together from answers to one Sync, ... *)
Rounds ==
  /\ client \in [t1 : Nat, t2 : Nat, t3 : Nat, t4 : Nat] /\ round \in Nat
  /\ wire \subseteq {"followUp", "delayResp"}
  /\ client.t1 \in {0, round} /\ client.t2 \in {0, round} /\ client.t3 = client.t2
  /\ client.t4 \in {0, round}
  /\ client.t2 = 0 => client.t1 = 0 /\ client.t4 = 0 /\ wire = {}
  /\ client.t4 > 0 => "delayResp" \notin wire
  /\ client.t1 > 0 => "followUp" \notin wire
  /\ client.t1 = 0 /\ ("delayResp" \in wire \/ client.t4 > 0) => "followUp" \in wire

(* ... the window ends in what the grandmaster says since it changed over,  *)
(* or it is full, and has refused all of that so far, ...                   *)
Followed == \A i \in DOMAIN window : Len(window) - i < steady => window[i] = -lead
Refused ==
  /\ servoLock /\ Len(window) = MinExchanges
  /\ 1 <= steady /\ steady <= rejects /\ Ptp!Outlier(-lead)
JudgeTypes ==
  /\ window \in Seq(Int) /\ Len(window) <= MinExchanges /\ \A i \in DOMAIN window : -window[i] \in Leads
  /\ lead \in Leads /\ servoLock \in BOOLEAN /\ rejects \in 0 .. MinExchanges - 1
  /\ clean \in 0 .. Ptp!Long /\ steady \in 0 .. Ptp!Long
Judged ==
  /\ servoLock => Len(window) >= 1 /\ (Len(window) = MinExchanges \/ steady < MinExchanges + Len(window))
  /\ ~servoLock => Len(window) < MinExchanges
  /\ Refused \/ (Followed /\ (rejects = 0 \/ steady = 0 \/ (rejects = 1 /\ clean = 0 /\ steady = Ptp!Long)))

(* ... and what is published follows the servo, one step at a time.         *)
Published ==
  /\ now \in Nat /\ now <= MaxNow /\ epoch \in Nat \cup {Ptp!None} /\ locked \in BOOLEAN
  /\ loop \in {"exchange", "offset", "epoch", "locked", "unlock", "forget"}
  /\ loop \in {"unlock", "forget"} => ~servoLock
  /\ loop = "forget" => ~locked
  /\ loop \in {"exchange", "offset", "epoch"} /\ epoch # Ptp!None => servoLock
  /\ loop = "exchange" => (locked <=> servoLock) /\ (servoLock => epoch # Ptp!None)
  /\ loop = "locked" => (servoLock <=> epoch # Ptp!None)
  /\ loop \in {"exchange", "epoch", "locked"} /\ servoLock => offset = Ptp!Mean(window)

PtpInv == Rounds /\ JudgeTypes /\ Judged /\ Published

(* What is assumed of the parameters.                                       *)
LEMMA PtpParameters ==
  /\ MinExchanges \in Nat /\ MinExchanges >= 2 /\ Guard \in Nat /\ Spike \in Nat /\ Spike > Guard
  /\ MaxNow \in Nat /\ Leads \subseteq Nat /\ Leads # {} /\ \A a \in Leads : a > MaxNow
  /\ Ptp!Long = 2 * MinExchanges /\ Ptp!None = -1
  /\ LossThreshold \in Nat \ {0}
BY MCAssumption DEF Ptp!PtpAssumption, Ptp!Long, Ptp!None

(* The window is never so short that one delayed exchange fills it.         *)
LEMMA LeastWindow == MinExchanges \in Nat /\ MinExchanges >= 2 /\ Ptp!Long = 2 * MinExchanges
BY PtpParameters

(* The spread of a window.                                                  *)
LEMMA Spread ==
  ASSUME NEW w \in Seq(Int), Len(w) > 0, \A i \in DOMAIN w : -w[i] \in Nat,
         NEW values, values = {w[i] : i \in DOMAIN w}
  PROVE  /\ Ptp!Max(values) \in values /\ \A v \in values : v <= Ptp!Max(values)
         /\ Ptp!Min(values) \in values /\ \A v \in values : Ptp!Min(values) <= v
<1> DEFINE Negative == {-v : v \in values}
<1>1. Len(w) \in Nat \ {0} /\ DOMAIN w = 1 .. Len(w) /\ \A i \in 1 .. Len(w) : w[i] \in Int
  BY LenProperties, ElementOfSeq
<1>2. values \subseteq Int /\ values # {} /\ Negative \subseteq Nat BY <1>1
<1>3. Negative # {} BY <1>2
<1>4. IsFiniteSet(Negative)
  <2> DEFINE f == [i \in 1 .. Len(w) |-> -w[i]]
  <2>1. f \in Surjection(1 .. Len(w), Negative) BY <1>1 DEF Surjection
  <2>2. IsFiniteSet(1 .. Len(w)) BY <1>1, FS_Interval
  <2> HIDE DEF f, Negative
  <2> QED BY <2>1, <2>2, FS_Surjection
<1>5. PICK a \in Negative : \A b \in Negative : a <= b BY <1>2, <1>3, LeastNatural
<1>6. PICK c \in Negative : \A b \in Negative : b <= c BY <1>2, <1>3, <1>4, FiniteLargest
<1>7. PICK h \in values : a = -h OBVIOUS
<1>8. PICK l \in values : c = -l OBVIOUS
<1>9. \A v \in values : v <= h /\ l <= v
  <2> SUFFICES ASSUME NEW v \in values PROVE v <= h /\ l <= v OBVIOUS
  <2>1. -v \in Negative OBVIOUS
  <2>2. a <= -v /\ -v <= c BY <1>5, <1>6, <2>1
  <2> QED BY <1>2, <1>7, <1>8, <2>2
<1>10. Ptp!Max(values) \in values /\ \A v \in values : v <= Ptp!Max(values)
  <2>1. \A v \in values : h >= v BY <1>2, <1>9
  <2>2. Ptp!Max(values) \in values /\ \A v \in values : Ptp!Max(values) >= v BY <2>1 DEF Ptp!Max
  <2> QED BY <1>2, <2>2
<1>11. Ptp!Min(values) \in values /\ \A v \in values : Ptp!Min(values) <= v
  BY <1>9 DEF Ptp!Min
<1> QED BY <1>10, <1>11

(* All that is in the window lies below every clock the program has.        *)
LEMMA WindowFacts ==
  ASSUME JudgeTypes
  PROVE  /\ Len(window) \in Nat /\ DOMAIN window = 1 .. Len(window)
         /\ \A i \in 1 .. Len(window) : window[i] \in Int /\ -window[i] \in Nat /\ window[i] < -MaxNow
         /\ lead \in Nat /\ lead > MaxNow
<1>1. window \in Seq(Int) /\ (\A i \in DOMAIN window : -window[i] \in Leads) /\ lead \in Leads BY DEF JudgeTypes
<1>2. /\ Len(window) \in Nat /\ DOMAIN window = 1 .. Len(window)
      /\ \A i \in 1 .. Len(window) : window[i] \in Int
  BY <1>1, LenProperties, ElementOfSeq
<1>3. \A i \in 1 .. Len(window) : -window[i] \in Leads BY <1>1, <1>2
<1>4. \A i \in 1 .. Len(window) : -window[i] > MaxNow /\ -window[i] \in Nat BY <1>3, PtpParameters
<1> QED BY <1>1, <1>2, <1>4, PtpParameters

(* What is in the window is not refused, ...                                *)
LEMMA KnownAccepted ==
  ASSUME JudgeTypes, NEW j \in DOMAIN window
  PROVE  ~Ptp!Outlier(window[j])
<1> DEFINE values == {window[i] : i \in DOMAIN window}
           hi == Ptp!Max(values)
           lo == Ptp!Min(values)
<1>1. /\ Len(window) \in Nat /\ DOMAIN window = 1 .. Len(window) /\ window \in Seq(Int)
      /\ \A i \in 1 .. Len(window) : window[i] \in Int /\ -window[i] \in Nat
  BY WindowFacts DEF JudgeTypes
<1>2. Len(window) > 0 BY <1>1
<1>3. /\ hi \in values /\ \A v \in values : v <= hi
      /\ lo \in values /\ \A v \in values : lo <= v
  <2>1. \A i \in DOMAIN window : -window[i] \in Nat BY <1>1
  <2> QED BY <1>1, <1>2, <2>1, Spread
<1>4. values \subseteq Int BY <1>1
<1>5. \A i \in DOMAIN window : window[i] \in values OBVIOUS
<1>6. SUFFICES ASSUME Ptp!Outlier(window[j]) PROVE FALSE OBVIOUS
<1>7. Ptp!Distance(window[j], Ptp!Mean(window)) > hi - lo + Guard
  BY <1>6 DEF Ptp!Outlier
<1> HIDE DEF values, hi, lo
<1>8. lo \in Int /\ hi \in Int BY <1>3, <1>4
<1>9. \A i \in DOMAIN window : lo <= window[i] /\ window[i] <= hi BY <1>3, <1>5
<1>10. Ptp!Mean(window) \in Int /\ lo <= Ptp!Mean(window) /\ Ptp!Mean(window) <= hi
  BY <1>1, <1>2, <1>8, <1>9, MeanBetween
<1>11. window[j] \in Int /\ lo <= window[j] /\ window[j] <= hi BY <1>1, <1>9
<1> QED BY <1>7, <1>8, <1>10, <1>11, PtpParameters DEF Ptp!Distance

(* ... and a delayed exchange is, by a window of which all are the same.    *)
LEMMA SpikeRefused ==
  ASSUME JudgeTypes, servoLock, Len(window) = MinExchanges, \A i \in DOMAIN window : window[i] = -lead
  PROVE  Ptp!Outlier(Spike - lead)
<1> DEFINE values == {window[i] : i \in DOMAIN window}
<1>1. /\ Len(window) \in Nat /\ DOMAIN window = 1 .. Len(window) /\ window \in Seq(Int) /\ lead \in Nat
  BY WindowFacts DEF JudgeTypes
<1>2. PICK v \in Int : v = -lead BY <1>1
<1>3. Len(window) > 0 /\ 1 \in DOMAIN window BY <1>1, PtpParameters
<1>4. values = {v} BY <1>2, <1>3
<1>5. Ptp!Max({v}) = v /\ Ptp!Min({v}) = v BY DEF Ptp!Max, Ptp!Min
<1>6. Ptp!Mean(window) = v
  <2>1. \A i \in DOMAIN window : v <= window[i] /\ window[i] <= v BY <1>2
  <2>2. Ptp!Mean(window) \in Int /\ v <= Ptp!Mean(window) /\ Ptp!Mean(window) <= v
    BY <1>1, <1>3, <2>1, MeanBetween
  <2> QED BY <2>2
<1>7. Ptp!Distance(Spike - lead, v) = Spike
  BY <1>1, <1>2, PtpParameters DEF Ptp!Distance
<1>8. Ptp!Distance(Spike - lead, Ptp!Mean(window)) > Ptp!Max(values) - Ptp!Min(values) + Guard
  <2>1. Ptp!Max(values) = v /\ Ptp!Min(values) = v BY <1>4, <1>5
  <2>2. Ptp!Distance(Spike - lead, Ptp!Mean(window)) = Spike BY <1>6, <1>7
  <2> HIDE DEF values
  <2> QED BY <2>1, <2>2, PtpParameters
<1>9. Len(window) >= MinExchanges BY <1>1
<1> QED BY <1>8, <1>9 DEF Ptp!Outlier

-----------------------------------------------------------------------------
(* The invariant carries what the run checks.                               *)
LEMMA PtpTruth == PtpInv => Ptp!ServoJudgesWell
<1> SUFFICES ASSUME PtpInv PROVE Ptp!ServoJudgesWell OBVIOUS
<1>1. \A i \in DOMAIN window : -window[i] \in Leads BY DEF PtpInv, JudgeTypes
<1>2. JudgeTypes /\ Judged BY DEF PtpInv
<1>3. Len(window) \in Nat /\ DOMAIN window = 1 .. Len(window) BY <1>2, WindowFacts
<1>4. ASSUME servoLock, steady = Ptp!Long, NEW i \in DOMAIN window PROVE window[i] = -lead
  <2>1. Followed BY <1>2, <1>4, PtpParameters DEF Judged, Refused, JudgeTypes
  <2>2. Len(window) - i < steady BY <1>2, <1>3, <1>4, PtpParameters DEF JudgeTypes
  <2> QED BY <2>1, <2>2 DEF Followed
<1>5. ASSUME loop = "exchange", locked PROVE Len(window) >= 1 /\ offset = Ptp!Mean(window)
  BY <1>2, <1>5 DEF PtpInv, Published, Judged
<1>6. ASSUME loop = "exchange" PROVE locked <=> epoch # Ptp!None
  BY <1>6 DEF PtpInv, Published
<1>7. ASSUME Ptp!Complete, NEW t \in DOMAIN client PROVE client[t] = round
  <2>1. client \in [t1 : Nat, t2 : Nat, t3 : Nat, t4 : Nat] BY DEF PtpInv, Rounds
  <2>2. DOMAIN client = {"t1", "t2", "t3", "t4"} BY <2>1
  <2>3. client.t1 > 0 /\ client.t2 > 0 /\ client.t4 > 0 BY <1>7, <2>2 DEF Ptp!Complete
  <2>4. client.t1 = round /\ client.t2 = round /\ client.t3 = round /\ client.t4 = round
    BY <2>1, <2>3 DEF PtpInv, Rounds
  <2> QED BY <2>2, <2>4
<1> QED BY <1>1, <1>4, <1>5, <1>6, <1>7 DEF Ptp!ServoJudgesWell

(* At the start there is no round, no window and no lock.                   *)
LEMMA PtpStart == Ptp!Init => PtpInv
<1> SUFFICES ASSUME Ptp!Init PROVE PtpInv OBVIOUS
<1> USE DEF Ptp!Init
<1>1. <<>> \in Seq(Int) /\ Len(<<>>) = 0 /\ DOMAIN <<>> = {} BY EmptySeq
<1>2. Rounds BY DEF Rounds, Ptp!NoRound
<1>3. servoLock \in BOOLEAN /\ locked \in BOOLEAN /\ ~servoLock /\ ~locked BY Zenon
<1>4. JudgeTypes BY <1>1, <1>3, PtpParameters DEF JudgeTypes
<1>5. Followed BY <1>1 DEF Followed
<1>6. Judged BY <1>1, <1>3, <1>5, PtpParameters DEF Judged
<1>7. Published BY <1>3, PtpParameters DEF Published
<1> QED BY <1>2, <1>4, <1>6, <1>7 DEF PtpInv

-----------------------------------------------------------------------------
(* The answers to a Sync.                                                   *)
LEMMA RoundBegins ==
  ASSUME Rounds, NEW o \in BOOLEAN, Ptp!ProcessSync(o) PROVE Rounds'
<1>1. /\ wire = {} /\ ~Ptp!Complete /\ round' = round + 1
      /\ client' = [client EXCEPT !.t2 = round + 1, !.t3 = round + 1, !.t1 = IF o THEN round + 1 ELSE 0]
      /\ wire' = {"delayResp"} \cup (IF o THEN {} ELSE {"followUp"})
  BY DEF Ptp!ProcessSync
<1>2. client \in [t1 : Nat, t2 : Nat, t3 : Nat, t4 : Nat] /\ round \in Nat BY DEF Rounds
<1>3. client.t4 = 0
  <2>1. SUFFICES ASSUME client.t4 > 0 PROVE FALSE BY <1>2
  <2>2. client.t1 > 0 /\ client.t2 > 0 /\ client.t3 > 0 BY <1>1, <1>2, <2>1 DEF Rounds
  <2>3. DOMAIN client = {"t1", "t2", "t3", "t4"} BY <1>2
  <2>4. \A t \in DOMAIN client : client[t] > 0 BY <2>1, <2>2, <2>3
  <2> QED BY <1>1, <2>4 DEF Ptp!Complete
<1>4. PICK n \in Nat : n = (IF o THEN round + 1 ELSE 0) BY <1>2
<1>5. /\ client' \in [t1 : Nat, t2 : Nat, t3 : Nat, t4 : Nat]
      /\ client'.t1 = n /\ client'.t2 = round + 1 /\ client'.t3 = round + 1 /\ client'.t4 = 0
  <2>1. client' = [client EXCEPT !.t2 = round + 1, !.t3 = round + 1, !.t1 = n] BY <1>1, <1>4
  <2> DEFINE Four == [t1 : Nat, t2 : Nat, t3 : Nat, t4 : Nat]
  <2>2. PICK a : a = [client EXCEPT !.t2 = round + 1] OBVIOUS
  <2>3. a \in Four /\ a.t2 = round + 1 /\ a.t4 = client.t4 BY <1>2, <2>2
  <2>4. PICK b : b = [a EXCEPT !.t3 = round + 1] OBVIOUS
  <2>5. b \in Four /\ b.t3 = round + 1 /\ b.t2 = round + 1 /\ b.t4 = client.t4 BY <1>2, <2>3, <2>4
  <2>6. PICK c : c = [b EXCEPT !.t1 = n] OBVIOUS
  <2>7. c \in Four /\ c.t1 = n /\ c.t3 = round + 1 /\ c.t2 = round + 1 /\ c.t4 = client.t4
    BY <2>5, <2>6
  <2>8. client' = c BY <2>1, <2>2, <2>4, <2>6
  <2> QED BY <1>3, <2>7, <2>8
<1>6. CASE o BY <1>1, <1>2, <1>4, <1>5, <1>6 DEF Rounds
<1>7. CASE ~o BY <1>1, <1>2, <1>4, <1>5, <1>7 DEF Rounds
<1> QED BY <1>6, <1>7

(* An answer fills in the round it belongs to.                              *)
LEMMA RoundGoesOn ==
  ASSUME Rounds, NEW m \in {"followUp", "delayResp"}, Ptp!ProcessGeneral(m) PROVE Rounds'
<1>1. /\ m \in wire /\ wire' = wire \ {m} /\ round' = round
      /\ client' = IF m = "followUp"
                   THEN (IF client.t2 > 0 THEN [client EXCEPT !.t1 = round] ELSE client)
                   ELSE [client EXCEPT !.t4 = round]
  BY DEF Ptp!ProcessGeneral
<1>2. client \in [t1 : Nat, t2 : Nat, t3 : Nat, t4 : Nat] /\ round \in Nat BY DEF Rounds
<1>3. client.t2 = round /\ round > 0 /\ client.t3 = round BY <1>1, <1>2 DEF Rounds
<1>4. CASE m = "followUp"
  <2>1. client' = [client EXCEPT !.t1 = round] BY <1>1, <1>3, <1>4
  <2>2. /\ client' \in [t1 : Nat, t2 : Nat, t3 : Nat, t4 : Nat] /\ client'.t1 = round
        /\ client'.t2 = client.t2 /\ client'.t3 = client.t3 /\ client'.t4 = client.t4
    BY <1>2, <2>1
  <2> QED BY <1>1, <1>2, <1>3, <1>4, <2>2 DEF Rounds
<1>5. CASE m = "delayResp"
  <2>1. client' = [client EXCEPT !.t4 = round] BY <1>1, <1>5
  <2>2. /\ client' \in [t1 : Nat, t2 : Nat, t3 : Nat, t4 : Nat] /\ client'.t4 = round
        /\ client'.t2 = client.t2 /\ client'.t3 = client.t3 /\ client'.t1 = client.t1
    BY <1>2, <2>1
  <2> QED BY <1>1, <1>2, <1>3, <1>5, <2>2 DEF Rounds
<1> QED BY <1>4, <1>5

-----------------------------------------------------------------------------
(* An exchange is judged.                                                   *)
Moved(w, p, i) == \E j \in 1 .. Len(w) : j = i + (Len(w) + 1 - Len(p)) /\ p[i] = w[j]

(* The window after a push: the new entry is the last, the others move.     *)
LEMMA PushedWindow ==
  ASSUME NEW w \in Seq(Int), Len(w) <= MinExchanges, NEW x \in Int, NEW p, p = Ptp!Pushed(w, x)
  PROVE  /\ p \in Seq(Int) /\ Len(p) \in Nat \ {0}
         /\ Len(p) = IF Len(w) < MinExchanges THEN Len(w) + 1 ELSE MinExchanges
         /\ p[Len(p)] = x
         /\ \A i \in 1 .. Len(p) - 1 : Moved(w, p, i)
<1>1. Len(w) \in Nat BY LenProperties
<1>2. CASE Len(w) < MinExchanges
  <2> USE DEF Moved
  <2>1. p = Append(w, x) BY <1>2 DEF Ptp!Pushed
  <2>2. /\ p \in Seq(Int) /\ Len(p) = Len(w) + 1 /\ p[Len(w) + 1] = x
        /\ \A i \in 1 .. Len(w) : p[i] = w[i]
    BY <2>1, AppendProperties
  <2> QED BY <1>1, <1>2, <2>2
<1>3. CASE ~(Len(w) < MinExchanges)
  <2> USE DEF Moved
  <2> DEFINE t == Tail(w)
  <2>1. p = Append(t, x) BY <1>3 DEF Ptp!Pushed
  <2>2. w # <<>> BY <1>1, <1>3, LeastWindow, EmptySeq
  <2>3. /\ t \in Seq(Int) /\ Len(t) = Len(w) - 1 /\ \A i \in 1 .. Len(w) - 1 : t[i] = w[i + 1]
    BY <2>2, HeadTailProperties
  <2> HIDE DEF t
  <2>4. /\ p \in Seq(Int) /\ Len(p) = Len(t) + 1 /\ p[Len(t) + 1] = x
        /\ \A i \in 1 .. Len(t) : p[i] = t[i]
    BY <2>1, <2>3, AppendProperties
  <2>6. Len(w) = MinExchanges BY <1>1, <1>3, LeastWindow
  <2>7. Len(p) = Len(w) BY <1>1, <2>3, <2>4
  <2>8. ASSUME NEW i \in 1 .. Len(p) - 1
        PROVE  i + 1 = i + (Len(w) + 1 - Len(p)) /\ i + 1 \in 1 .. Len(w) /\ p[i] = w[i + 1]
    <3>1. Len(t) \in Nat /\ Len(p) = Len(t) + 1 /\ Len(w) = Len(t) + 1 BY <1>1, <2>3, <2>4
    <3>2. i \in 1 .. Len(t) /\ i \in 1 .. Len(w) - 1 BY <3>1
    <3>3. p[i] = t[i] /\ t[i] = w[i + 1] BY <2>3, <2>4, <3>2
    <3>4. i + 1 = i + (Len(w) + 1 - Len(p)) /\ i + 1 \in 1 .. Len(w) BY <1>1, <3>1, <3>2
    <3> QED BY <3>3, <3>4
  <2> QED BY <1>1, <1>3, <2>4, <2>6, <2>7, <2>8, LeastWindow
<1> QED BY <1>2, <1>3

(* The window takes what the grandmaster says.                              *)
LEMMA TimeTaken ==
  ASSUME JudgeTypes, NEW w \in Seq(Int), Len(w) <= MinExchanges,
         \A i \in DOMAIN w : -w[i] \in Leads, \A i \in DOMAIN w : Len(w) - i < steady => w[i] = -lead,
         window' = Ptp!Pushed(w, -lead), steady' \in 0 .. Ptp!Long, steady' <= steady + 1, UNCHANGED lead
  PROVE  /\ window' \in Seq(Int) /\ Len(window') <= MinExchanges /\ \A i \in DOMAIN window' : -window'[i] \in Leads
         /\ Len(window') = IF Len(w) < MinExchanges THEN Len(w) + 1 ELSE MinExchanges
         /\ Followed'
<1>0. DOMAIN w = 1 .. Len(w) BY LenProperties
<1>1. Len(w) \in Nat /\ lead \in Leads /\ steady \in Nat /\ steady' \in Nat
  BY LenProperties, LeastWindow DEF JudgeTypes
<1>2. -lead \in Int /\ lead \in Nat /\ -(-lead) = lead BY <1>1, PtpParameters
<1>9. PICK x \in Int : x = -lead BY <1>2
<1>7. PICK p : p = Ptp!Pushed(w, x) OBVIOUS
<1>3. /\ p \in Seq(Int) /\ Len(p) \in Nat \ {0}
      /\ Len(p) = IF Len(w) < MinExchanges THEN Len(w) + 1 ELSE MinExchanges
      /\ p[Len(p)] = x
      /\ \A i \in 1 .. Len(p) - 1 : Moved(w, p, i)
  <2>1. Len(w) <= MinExchanges OBVIOUS
  <2>2. p \in Seq(Int) /\ Len(p) \in Nat \ {0} BY <1>7, <2>1, PushedWindow
  <2>3. Len(p) = IF Len(w) < MinExchanges THEN Len(w) + 1 ELSE MinExchanges BY <1>7, <2>1, PushedWindow
  <2>4. p[Len(p)] = x BY <1>7, <2>1, PushedWindow
  <2>5. \A i \in 1 .. Len(p) - 1 : Moved(w, p, i) BY <1>7, <2>1, PushedWindow
  <2> QED BY <2>2, <2>3, <2>4, <2>5
<1>4. window' = p BY <1>7, <1>9
<1>5. ASSUME NEW i \in 1 .. Len(p) PROVE -p[i] \in Leads /\ (Len(p) - i < steady' => p[i] = -lead)
  <2>1. CASE i = Len(p) BY <1>1, <1>2, <1>3, <1>9, <2>1
  <2>2. CASE i # Len(p)
    <3>1. i \in 1 .. Len(p) - 1 BY <1>3, <2>2
    <3>2. PICK j \in 1 .. Len(w) : j = i + (Len(w) + 1 - Len(p)) /\ p[i] = w[j]
      BY <1>3, <3>1 DEF Moved
    <3>3. Len(p) - i < steady' => Len(w) - j < steady BY <1>1, <1>3, <3>2
    <3>4. j \in DOMAIN w BY <1>0, <3>2
    <3>5. -w[j] \in Leads /\ (Len(w) - j < steady => w[j] = -lead) BY <3>4
    <3> QED BY <3>2, <3>3, <3>5
  <2> QED BY <2>1, <2>2
<1>6. Len(p) <= MinExchanges BY <1>1, <1>3, LeastWindow
<1>8. DOMAIN p = 1 .. Len(p) BY <1>3, LenProperties
<1> QED BY <1>3, <1>4, <1>5, <1>6, <1>8 DEF Followed

(* A delayed exchange is refused, or so rare that the window outlasts it.   *)
LEMMA SpikeJudged ==
  ASSUME JudgeTypes, Judged, Ptp!Exchange(Spike)
  PROVE  JudgeTypes' /\ Judged' /\ (servoLock => servoLock')
<1>1. /\ servoLock /\ clean = Ptp!Long /\ steady = Ptp!Long /\ Ptp!Observe(Spike - lead)
      /\ clean' = 0 /\ steady' = steady /\ lead' = lead
  BY PtpParameters DEF Ptp!Exchange, Ptp!UpTo
<1>2. Len(window) \in Nat BY WindowFacts
<1>10. DOMAIN window = 1 .. Len(window) BY WindowFacts
<1>3. Followed /\ rejects = 0 /\ Len(window) = MinExchanges
  BY <1>1, <1>2, LeastWindow DEF JudgeTypes, Judged, Refused
<1>4. \A i \in DOMAIN window : window[i] = -lead
  <2>1. \A i \in DOMAIN window : Len(window) - i < steady BY <1>1, <1>2, <1>3, <1>10, LeastWindow
  <2> QED BY <1>3, <2>1 DEF Followed
<1>5. Ptp!Outlier(Spike - lead) BY <1>1, <1>3, <1>4, SpikeRefused
<1>6. rejects' = 1 /\ UNCHANGED <<window, servoLock>>
  <2>1. rejects + 1 = 1 /\ rejects + 1 < MinExchanges BY <1>3, LeastWindow
  <2> QED BY <1>1, <1>5, <2>1 DEF Ptp!Observe
<1>7. JudgeTypes' BY <1>1, <1>6, LeastWindow DEF JudgeTypes
<1>8. Followed' BY <1>1, <1>3, <1>6 DEF Followed
<1>9. Judged' BY <1>1, <1>3, <1>6, <1>8, LeastWindow DEF Judged, JudgeTypes
<1> QED BY <1>6, <1>7, <1>9

(* What the grandmaster says is taken, or refused until a whole window of   *)
(* refusals starts the window again.                                        *)
LEMMA TimeJudged ==
  ASSUME JudgeTypes, Judged, Ptp!Exchange(0)
  PROVE  JudgeTypes' /\ Judged' /\ (servoLock => servoLock')
<1>1. lead' = lead /\ lead \in Nat /\ 0 - lead = -lead /\ -(-lead) = lead /\ lead \in Leads
  BY PtpParameters DEF Ptp!Exchange, JudgeTypes
<1>2. Ptp!Observe(-lead) /\ clean' = Ptp!UpTo(clean) /\ steady' = Ptp!UpTo(steady)
  BY <1>1, LeastWindow DEF Ptp!Exchange
<1>3. /\ clean' \in 0 .. Ptp!Long /\ steady' \in 0 .. Ptp!Long /\ steady' <= steady + 1 /\ steady' >= 1
      /\ steady \in Nat /\ rejects \in Nat /\ rejects < MinExchanges
  BY <1>2, LeastWindow DEF JudgeTypes, Ptp!UpTo
<1>4. Len(window) \in Nat /\ window \in Seq(Int) /\ Len(window) <= MinExchanges
  BY WindowFacts DEF JudgeTypes
<1>5. ASSUME Followed, steady >= 1, Ptp!Outlier(-lead) PROVE FALSE
  <2>1. Len(window) >= MinExchanges BY <1>5 DEF Ptp!Outlier
  <2>2. Len(window) \in DOMAIN window
    <3>1. Len(window) \in 1 .. Len(window) BY <1>4, <2>1, LeastWindow
    <3>2. DOMAIN window = 1 .. Len(window) BY WindowFacts
    <3> QED BY <3>1, <3>2
  <2>3. window[Len(window)] = -lead BY <1>3, <1>4, <1>5, <2>2 DEF Followed
  <2>4. ~Ptp!Outlier(window[Len(window)]) BY <2>2, KnownAccepted
  <2> QED BY <1>5, <2>3, <2>4
<1>6. CASE Ptp!Outlier(-lead) /\ rejects + 1 < MinExchanges
  <2>1. rejects' = rejects + 1 /\ UNCHANGED <<window, servoLock>> BY <1>2, <1>6 DEF Ptp!Observe
  <2>2. rejects' \in 0 .. MinExchanges - 1 BY <1>3, <1>6, <2>1, LeastWindow
  <2>8. JudgeTypes' BY <1>1, <1>3, <2>1, <2>2 DEF JudgeTypes
  <2>3. steady <= rejects BY <1>3, <1>5, <1>6 DEF Judged, Refused
  <2>4. servoLock /\ Len(window) = MinExchanges BY <1>4, <1>6, LeastWindow DEF Ptp!Outlier
  <2>5. Ptp!Outlier(-lead)' BY <1>1, <1>6, <2>1 DEF Ptp!Outlier
  <2>6. Refused' BY <1>3, <2>1, <2>3, <2>4, <2>5 DEF Refused
  <2>7. Judged' BY <1>3, <1>4, <2>1, <2>4, <2>6, LeastWindow DEF Judged
  <2> QED BY <2>1, <2>7, <2>8
<1>7. CASE Ptp!Outlier(-lead) /\ ~(rejects + 1 < MinExchanges)
  <2>1. window' = Ptp!Pushed(<<>>, -lead) /\ rejects' = 0 BY <1>2, <1>7 DEF Ptp!Observe
  <2>2. servoLock /\ servoLock' /\ servoLock' \in BOOLEAN
    <3>1. servoLock BY <1>7 DEF Ptp!Outlier
    <3>2. servoLock' = (servoLock \/ Len(window) + 1 >= MinExchanges) BY <1>2, <1>7 DEF Ptp!Observe
    <3> QED BY <3>1, <3>2, Zenon
  <2>3. steady <= rejects BY <1>3, <1>5, <1>7 DEF Judged, Refused
  <2>4. <<>> \in Seq(Int) /\ Len(<<>>) = 0 /\ DOMAIN <<>> = {} BY EmptySeq
  <2>5. PICK w \in Seq(Int) : w = <<>> BY <2>4
  <2>6. /\ window' \in Seq(Int) /\ Len(window') <= MinExchanges /\ \A i \in DOMAIN window' : -window'[i] \in Leads
        /\ Len(window') = 1 /\ Followed'
    <3>1. Len(w) = 0 /\ DOMAIN w = {} BY <2>4, <2>5
    <3>2. window' = Ptp!Pushed(w, -lead) BY <2>1, <2>5
    <3>3. Len(w) <= MinExchanges /\ Len(w) < MinExchanges BY <3>1, LeastWindow
    <3>4. /\ \A i \in DOMAIN w : -w[i] \in Leads
          /\ \A i \in DOMAIN w : Len(w) - i < steady => w[i] = -lead
      BY <3>1
    <3>5. /\ window' \in Seq(Int) /\ Len(window') <= MinExchanges /\ \A i \in DOMAIN window' : -window'[i] \in Leads
          /\ Len(window') = (IF Len(w) < MinExchanges THEN Len(w) + 1 ELSE MinExchanges) /\ Followed'
      BY <1>1, <1>3, <3>2, <3>3, <3>4, TimeTaken
    <3> QED BY <3>1, <3>3, <3>5
  <2>7. JudgeTypes' BY <1>1, <1>3, <2>1, <2>2, <2>6, LeastWindow DEF JudgeTypes
  <2>8. steady' < MinExchanges + Len(window')
    <3>1. Len(window') = 1 BY <2>6
    <3> QED BY <1>3, <2>3, <3>1, LeastWindow
  <2>9. Len(window') = 1 /\ Followed' BY <2>6
  <2>11. rejects' = 0 BY <2>1
  <2>10. Judged'
    <3>1. servoLock' => Len(window') >= 1 /\ (Len(window') = MinExchanges \/ steady' < MinExchanges + Len(window'))
      BY <2>8, <2>9
    <3>2. ~servoLock' => Len(window') < MinExchanges BY <2>2
    <3> QED BY <2>9, <2>11, <3>1, <3>2 DEF Judged
  <2> QED BY <2>2, <2>7, <2>10
<1>8. CASE ~Ptp!Outlier(-lead)
  <2>1. window' = Ptp!Pushed(window, -lead) /\ rejects' = 0 BY <1>2, <1>8 DEF Ptp!Observe
  <2>2. servoLock' = (servoLock \/ Len(window) + 1 >= MinExchanges) BY <1>2, <1>8 DEF Ptp!Observe
  <2>3. servoLock' \in BOOLEAN BY <2>2
  <2>4. Followed BY <1>8 DEF Judged, Refused
  <2>5. /\ window' \in Seq(Int) /\ Len(window') <= MinExchanges /\ \A i \in DOMAIN window' : -window'[i] \in Leads
        /\ Len(window') = IF Len(window) < MinExchanges THEN Len(window) + 1 ELSE MinExchanges
        /\ Followed'
    <3>1. /\ \A i \in DOMAIN window : -window[i] \in Leads
          /\ \A i \in DOMAIN window : Len(window) - i < steady => window[i] = -lead
      BY <2>4 DEF JudgeTypes, Followed
    <3> QED BY <1>1, <1>3, <1>4, <2>1, <3>1, TimeTaken
  <2>6. JudgeTypes' BY <1>1, <1>3, <2>1, <2>3, <2>5, LeastWindow DEF JudgeTypes
  <2>7. servoLock' => Len(window') >= 1 /\ (Len(window') = MinExchanges \/ steady' < MinExchanges + Len(window'))
    <3>1. CASE Len(window) < MinExchanges
      <4>0. Len(window') = Len(window) + 1 BY <2>5, <3>1
      <4>1. CASE servoLock
        <5>1. steady < MinExchanges + Len(window) BY <1>4, <3>1, <4>1, LeastWindow DEF Judged
        <5>2. steady' \in Nat BY <1>3, LeastWindow
        <5> QED BY <1>3, <1>4, <4>0, <5>1, <5>2, LeastWindow
      <4>2. CASE ~servoLock
        <5>1. servoLock' => Len(window) + 1 >= MinExchanges BY <2>2, <4>2
        <5> QED BY <1>4, <3>1, <4>0, <5>1, LeastWindow
      <4> QED BY <4>1, <4>2
    <3>2. CASE ~(Len(window) < MinExchanges) BY <1>4, <2>5, <3>2, LeastWindow
    <3> QED BY <3>1, <3>2
  <2>8. ~servoLock' => Len(window') < MinExchanges
    <3>1. ~servoLock' => ~(Len(window) + 1 >= MinExchanges) BY <2>2
    <3> QED BY <1>4, <2>5, <3>1, LeastWindow
  <2>9. Judged' BY <2>1, <2>5, <2>7, <2>8 DEF Judged
  <2>10. servoLock => servoLock' BY <2>2
  <2> QED BY <2>6, <2>9, <2>10
<1> QED BY <1>6, <1>7, <1>8

-----------------------------------------------------------------------------
(* What is published, one step after the other.                             *)
LEMMA MeanNegative ==
  ASSUME JudgeTypes, Len(window) >= 1
  PROVE  Ptp!Mean(window) \in Int /\ Ptp!Mean(window) < 0
<1>1. Len(window) \in Nat /\ window \in Seq(Int) BY WindowFacts DEF JudgeTypes
<1>2. \A i \in 1 .. Len(window) : -window[i] \in Nat /\ window[i] < 0
  BY WindowFacts, PtpParameters
<1>3. DOMAIN window = 1 .. Len(window) BY WindowFacts
<1> DEFINE values == {window[i] : i \in DOMAIN window}
           hi == Ptp!Max(values)
           lo == Ptp!Min(values)
<1>4. Len(window) > 0 BY <1>1
<1>5. /\ hi \in values /\ \A v \in values : v <= hi
      /\ lo \in values /\ \A v \in values : lo <= v
  <2>1. \A i \in DOMAIN window : -window[i] \in Nat BY <1>2, <1>3
  <2> QED BY <1>1, <1>4, <2>1, Spread
<1>6. \A v \in values : v \in Int /\ v < 0 BY <1>2, <1>3, WindowFacts
<1>7. \A i \in DOMAIN window : window[i] \in values OBVIOUS
<1> HIDE DEF values, hi, lo
<1>8. lo \in Int /\ hi \in Int /\ hi < 0 BY <1>5, <1>6
<1>9. \A i \in DOMAIN window : lo <= window[i] /\ window[i] <= hi BY <1>5, <1>7
<1>10. Ptp!Mean(window) \in Int /\ lo <= Ptp!Mean(window) /\ Ptp!Mean(window) <= hi
  BY <1>1, <1>4, <1>8, <1>9, MeanBetween
<1> QED BY <1>8, <1>10

(* A step that leaves the servo alone.                                      *)
LEMMA JudgedQuiet ==
  ASSUME JudgeTypes, Judged, UNCHANGED <<window, rejects, servoLock, lead, clean, steady>>
  PROVE  JudgeTypes' /\ Judged'
<1>1. JudgeTypes' BY DEF JudgeTypes
<1>2. Followed => Followed' BY DEF Followed
<1>3. Ptp!Outlier(-lead) => Ptp!Outlier(-lead)' BY DEF Ptp!Outlier
<1>4. Refused => Refused' BY <1>3 DEF Refused
<1> QED BY <1>1, <1>2, <1>4 DEF Judged

(* The loop publishes offset, epoch and lock in this order, and takes them  *)
(* back in the reverse one.                                                 *)
LEMMA PublishedNext ==
  ASSUME PtpInv, Ptp!PublishOffset \/ Ptp!CaptureEpoch \/ Ptp!PublishLock \/ Ptp!Unlock \/ Ptp!ForgetEpoch
  PROVE  PtpInv'
<1> USE DEF Ptp!worldVars, Ptp!servoVars
<1>1. UNCHANGED <<now, lead, round, wire, clean, steady, client, window, rejects, servoLock>>
  BY DEF Ptp!PublishOffset, Ptp!CaptureEpoch, Ptp!PublishLock, Ptp!Unlock, Ptp!ForgetEpoch
<1>2. Rounds' BY <1>1 DEF PtpInv, Rounds
<1>3. JudgeTypes' /\ Judged' BY <1>1, JudgedQuiet DEF PtpInv
<1>4. servoLock \in BOOLEAN /\ (servoLock => Len(window) >= 1) BY DEF PtpInv, JudgeTypes, Judged
<1>5. Published BY DEF PtpInv
<1>6. CASE Ptp!PublishOffset
  <2>1. /\ loop = "offset" /\ loop' = "epoch" /\ UNCHANGED <<epoch, locked>>
        /\ offset' = IF servoLock THEN Ptp!Mean(window) ELSE 0
    BY <1>6 DEF Ptp!PublishOffset
  <2> QED BY <1>1, <1>2, <1>3, <1>5, <2>1 DEF PtpInv, Published
<1>7. CASE Ptp!CaptureEpoch
  <2>1. /\ loop = "epoch" /\ loop' = "locked" /\ UNCHANGED <<offset, locked>>
        /\ epoch' = IF servoLock /\ epoch < 0 THEN now - Ptp!Mean(window) ELSE epoch
    BY <1>7 DEF Ptp!CaptureEpoch
  <2>2. epoch' \in Nat \cup {Ptp!None} /\ (servoLock <=> epoch' # Ptp!None)
    <3>1. CASE servoLock /\ epoch < 0
      <4>1. PICK m \in Int : m = Ptp!Mean(window) /\ m < 0
        BY <1>4, <3>1, MeanNegative DEF PtpInv
      <4>2. now - m \in Nat BY <1>5, <4>1 DEF Published
      <4>3. epoch' = now - m BY <2>1, <3>1, <4>1
      <4> QED BY <3>1, <4>2, <4>3, PtpParameters
    <3>2. CASE ~(servoLock /\ epoch < 0)
      <4>1. epoch' = epoch BY <2>1, <3>2
      <4>2. epoch \in Nat \cup {-1} /\ Ptp!None = -1 /\ (epoch # Ptp!None => servoLock)
        BY <1>5, <2>1, PtpParameters DEF Published
      <4>3. servoLock => epoch # Ptp!None BY <3>2, <4>2
      <4> QED BY <4>1, <4>2, <4>3
    <3> QED BY <3>1, <3>2
  <2> QED BY <1>1, <1>2, <1>3, <1>5, <2>1, <2>2 DEF PtpInv, Published
<1>8. CASE Ptp!PublishLock
  <2>1. loop = "locked" /\ loop' = "exchange" /\ UNCHANGED <<offset, epoch>>
    BY <1>8 DEF Ptp!PublishLock
  <2>2. locked' = servoLock BY <1>8 DEF Ptp!PublishLock
  <2>3. locked' \in BOOLEAN /\ (locked' <=> servoLock) BY <1>4, <2>2
  <2> QED BY <1>1, <1>2, <1>3, <1>5, <2>1, <2>3 DEF PtpInv, Published
<1>9. CASE Ptp!Unlock
  <2>1. loop = "unlock" /\ loop' = "forget" /\ UNCHANGED <<offset, epoch>> /\ ~locked' /\ locked' \in BOOLEAN
    BY <1>9 DEF Ptp!Unlock
  <2> QED BY <1>1, <1>2, <1>3, <1>5, <2>1 DEF PtpInv, Published
<1>10. CASE Ptp!ForgetEpoch
  <2>1. loop = "forget" /\ loop' = "exchange" /\ UNCHANGED <<offset, locked>> /\ epoch' = Ptp!None
    BY <1>10 DEF Ptp!ForgetEpoch
  <2> QED BY <1>1, <1>2, <1>3, <1>5, <2>1 DEF PtpInv, Published
<1> QED BY <1>6, <1>7, <1>8, <1>9, <1>10

(* The answers that were lost.                                              *)
LEMMA ExchangeLost == PtpInv /\ Ptp!NoExchange => PtpInv'
<1> SUFFICES ASSUME PtpInv, Ptp!NoExchange PROVE PtpInv' OBVIOUS
<1> USE DEF Ptp!servoVars
<1>1. /\ loop = "exchange" /\ client.t4 = 0 /\ wire' = {}
      /\ UNCHANGED <<now, lead, round, clean, steady, client, epoch, locked>>
  BY DEF Ptp!NoExchange
<1>2. Rounds' BY <1>1 DEF PtpInv, Rounds
<1>3. CASE lost + 1 < LossThreshold
  <2>1. UNCHANGED <<window, rejects, servoLock, offset, loop>> BY <1>3 DEF Ptp!NoExchange
  <2>2. JudgeTypes' /\ Judged' BY <1>1, <2>1, JudgedQuiet DEF PtpInv
  <2> QED BY <1>1, <1>2, <2>1, <2>2 DEF PtpInv, Published
<1>4. CASE ~(lost + 1 < LossThreshold)
  <2>1. window' = <<>> /\ rejects' = 0 /\ loop' = "unlock" BY <1>4 DEF Ptp!NoExchange
  <2>2. ~servoLock' /\ servoLock' \in BOOLEAN BY <1>4 DEF Ptp!NoExchange
  <2>3. <<>> \in Seq(Int) /\ Len(<<>>) = 0 /\ DOMAIN <<>> = {} BY EmptySeq
  <2>4. window' \in Seq(Int) /\ Len(window') = 0 /\ DOMAIN window' = {} BY <2>1, <2>3
  <2>5. JudgeTypes' BY <1>1, <2>1, <2>2, <2>4, LeastWindow DEF PtpInv, JudgeTypes
  <2>6. Followed' BY <2>4 DEF Followed
  <2>7. Judged' BY <2>1, <2>2, <2>4, <2>6, LeastWindow DEF Judged
  <2>8. Published' BY <1>1, <2>1, <2>2 DEF PtpInv, Published
  <2> QED BY <1>2, <2>5, <2>7, <2>8 DEF PtpInv
<1> QED BY <1>3, <1>4

(* Every step of the PTP client keeps its invariant.                        *)
LEMMA PtpStep == PtpInv /\ [Ptp!Next]_ptpOwn => PtpInv'
<1> SUFFICES ASSUME PtpInv, [Ptp!Next]_ptpOwn PROVE PtpInv' OBVIOUS
<1> USE DEF Ptp!servoVars, Ptp!publicVars, Ptp!worldVars
<1>1. Rounds /\ JudgeTypes /\ Judged /\ Published BY DEF PtpInv
<1>2. CASE UNCHANGED ptpOwn
  <2>1. UNCHANGED <<now, lead, round, wire, clean, steady, client, window, rejects, servoLock, loop,
                    offset, epoch, locked>>
    BY <1>2 DEF ptpOwn
  <2>2. JudgeTypes' /\ Judged' BY <1>1, <2>1, JudgedQuiet
  <2> QED BY <1>1, <2>1, <2>2 DEF PtpInv, Rounds, Published
<1>3. ASSUME Rounds', UNCHANGED <<now, lead, clean, steady, window, rejects, servoLock, loop, offset, epoch, locked>>
      PROVE  PtpInv'
  <2>1. JudgeTypes' /\ Judged' BY <1>1, <1>3, JudgedQuiet
  <2> QED BY <1>1, <1>3, <2>1 DEF PtpInv, Published
<1>4. ASSUME NEW o \in BOOLEAN, Ptp!ProcessSync(o) PROVE PtpInv'
  BY <1>1, <1>3, <1>4, RoundBegins DEF Ptp!ProcessSync
<1>5. ASSUME NEW m \in {"followUp", "delayResp"}, Ptp!ProcessGeneral(m) PROVE PtpInv'
  BY <1>1, <1>3, <1>5, RoundGoesOn DEF Ptp!ProcessGeneral
<1>6. ASSUME NEW error \in {0, Spike}, Ptp!Exchange(error), JudgeTypes', Judged', servoLock => servoLock'
      PROVE  PtpInv'
  <2>1. /\ loop = "exchange" /\ loop' = "offset" /\ client' = Ptp!NoRound
        /\ UNCHANGED <<now, round, wire, offset, epoch, locked>>
    BY <1>6 DEF Ptp!Exchange
  <2>2. wire = {}
    <3>1. client \in [t1 : Nat, t2 : Nat, t3 : Nat, t4 : Nat] BY <1>1 DEF Rounds
    <3>2. DOMAIN client = {"t1", "t2", "t3", "t4"} BY <3>1
    <3>3. client.t1 > 0 /\ client.t4 > 0 BY <1>6, <3>2 DEF Ptp!Exchange, Ptp!Complete
    <3> QED BY <1>1, <3>3 DEF Rounds
  <2>3. Rounds' BY <1>1, <2>1, <2>2 DEF Rounds, Ptp!NoRound
  <2>4. Published' BY <1>1, <1>6, <2>1 DEF Published
  <2> QED BY <1>6, <2>3, <2>4 DEF PtpInv
<1>7. CASE Ptp!Exchange(0) BY <1>1, <1>6, <1>7, TimeJudged
<1>8. CASE Ptp!Exchange(Spike) BY <1>1, <1>6, <1>8, SpikeJudged
<1>9. CASE Ptp!NoExchange BY <1>9, ExchangeLost
<1>10. CASE Ptp!PublishOffset \/ Ptp!CaptureEpoch \/ Ptp!PublishLock \/ Ptp!Unlock \/ Ptp!ForgetEpoch
  BY <1>10, PublishedNext
<1>11. CASE Ptp!Tick
  <2>1. /\ now' = now + 1 /\ now < MaxNow
        /\ UNCHANGED <<lead, round, wire, clean, steady, client, window, rejects, servoLock, loop,
                       offset, epoch, locked>>
    BY <1>11 DEF Ptp!Tick
  <2>2. JudgeTypes' /\ Judged' BY <1>1, <2>1, JudgedQuiet
  <2>3. now' \in Nat /\ now' <= MaxNow BY <1>1, <2>1, PtpParameters DEF Published
  <2> QED BY <1>1, <2>1, <2>2, <2>3 DEF PtpInv, Rounds, Published
<1>12. CASE Ptp!ChangeOver
  <2>1. /\ steady' = 0 /\ lead' \in Leads
        /\ UNCHANGED <<now, round, wire, clean, client, window, rejects, servoLock, loop, offset, epoch, locked>>
    BY <1>12 DEF Ptp!ChangeOver
  <2>2. JudgeTypes' BY <1>1, <2>1, LeastWindow DEF JudgeTypes
  <2>3. Len(window) \in Nat /\ DOMAIN window = 1 .. Len(window) BY <1>1, WindowFacts
  <2>4. Followed' BY <2>1, <2>3 DEF Followed
  <2>5. servoLock => Len(window) >= 1 /\ steady' < MinExchanges + Len(window)
    <3>1. Len(window) \in Nat BY <2>3
    <3>2. servoLock => Len(window) >= 1 BY <1>1 DEF Judged
    <3> QED BY <2>1, <3>1, <3>2, LeastWindow
  <2>6. Judged' BY <1>1, <2>1, <2>4, <2>5 DEF Judged
  <2> QED BY <1>1, <2>1, <2>2, <2>6 DEF PtpInv, Rounds, Published
<1> QED BY <1>2, <1>4, <1>5, <1>7, <1>8, <1>9, <1>10, <1>11, <1>12 DEF Ptp!Next

-----------------------------------------------------------------------------
(* What the parts keep.  A part is changed by its own actions only.         *)
PartsInv == ShowsInv /\ StudioInv /\ ControlInv /\ SessionInv /\ PtpInv

LEMMA PartsStart == MCInit => PartsInv
BY ShowsStart, StudioStart, ControlStart, SessionStart, PtpStart DEF MCInit, PartsInv

LEMMA PartsStep == PartsInv /\ [MCNext]_mcVars => PartsInv'
<1> SUFFICES ASSUME PartsInv, [MCNext]_mcVars PROVE PartsInv'
  OBVIOUS
<1>1. UNCHANGED mcVars => UNCHANGED <<showsOwn, studioOwn, controlOwn, sessionOwn, ptpOwn>>
  BY DEF mcVars
<1>2. Shows!Next \/ UNCHANGED showsOwn
  BY <1>1 DEF MCNext
<1>3. Studio!Next \/ UNCHANGED studioOwn
  BY <1>1 DEF MCNext
<1>4. Control!Next \/ UNCHANGED controlOwn
  BY <1>1 DEF MCNext
<1>5. Session!Next \/ UNCHANGED sessionOwn
  BY <1>1 DEF MCNext
<1>6. Ptp!Next \/ UNCHANGED ptpOwn
  BY <1>1 DEF MCNext
<1>7. UNCHANGED showsOwn => UNCHANGED Shows!vars
  BY DEF showsOwn, Shows!vars, Shows!clientVars, Shows!fileVars, Shows!shownVars
<1>8. ShowsInv'
  BY <1>2, <1>7, ShowsStep DEF PartsInv
<1>9. StudioInv'
  BY <1>3, StudioStep DEF PartsInv
<1>10. ControlInv'
  BY <1>4, ControlStep DEF PartsInv
<1>11. SessionInv'
  BY <1>5, SessionStep DEF PartsInv
<1>12. PtpInv'
  BY <1>6, PtpStep DEF PartsInv
<1> QED
  BY <1>8, <1>9, <1>10, <1>11, <1>12 DEF PartsInv

(* Whatever is answered late, dropped, imported or connected again:         *)
(* playback runs on providers that exist, the indicators come to show the   *)
(* links as they are, each link's health is of one socket and a preview of  *)
(* the URL that is shown; and the telemetry shown is the last that took     *)
(* effect at the playhead.                                                  *)
THEOREM ShownIsTrue == MCSpec => []StudioIsConsistent
<1>1. MCInit => PartsInv
  BY PartsStart
<1>2. PartsInv /\ [MCNext]_mcVars => PartsInv'
  BY PartsStep
<1>3. PartsInv => StudioIsConsistent
  BY ShowsTruth, StudioTruth DEF PartsInv, StudioInv, StudioIsConsistent
<1> QED
  BY <1>1, <1>2, <1>3, PTL DEF MCSpec

(* Whoever connects, leaves or sends what at any time: a client that was    *)
(* told it holds the speed holds it, and one that has read all it was sent  *)
(* shows what is.                                                           *)
THEOREM ClientsAreTold == MCSpec => []ClientsKnow
<1>1. MCInit => PartsInv
  BY PartsStart
<1>2. PartsInv /\ [MCNext]_mcVars => PartsInv'
  BY PartsStep
<1>3. PartsInv => ClientsKnow
  BY ControlTruth DEF PartsInv, ClientsKnow
<1> QED
  BY <1>1, <1>2, <1>3, PTL DEF MCSpec

(* In whatever order the sources come, go and report, and whatever the      *)
(* network loses, delays or doubles: once the reports are in, every source  *)
(* that measures is one that is there, with the trim that is shown;         *)
(* telemetry goes to the track of its own feed; and a PTP client that is    *)
(* locked follows the grandmaster, whose time one delayed exchange does not *)
(* move.                                                                    *)
THEOREM LivingAreTrusted == MCSpec => []SessionTrustsTheLiving
<1>1. MCInit => PartsInv
  BY PartsStart
<1>2. PartsInv /\ [MCNext]_mcVars => PartsInv'
  BY PartsStep
<1>3. PartsInv => SessionTrustsTheLiving
  BY SessionTruth, PtpTruth DEF PartsInv, SessionTrustsTheLiving
<1> QED
  BY <1>1, <1>2, <1>3, PTL DEF MCSpec
=============================================================================
