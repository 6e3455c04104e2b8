---------------------------- MODULE MediaProofs -----------------------------
(***************************************************************************)
(* TLAPS proofs about the way of a frame into the file, for any chunk      *)
(* sizes, message lengths, losses, parameter sets, layouts and depths: the *)
(* RTMP chunk layer, the encoder, the transport stream parser, the video   *)
(* decoder and the AAC decoder, each by itself, with the variables MCMedia *)
(* gives it.  What a proof asks of the constants is a hypothesis of it.    *)
(***************************************************************************)
EXTENDS Integers, SequenceTheorems, FiniteSetTheorems, WellFoundedInduction,
        NaturalsInduction, TLAPS

-----------------------------------------------------------------------------
(* The head of one sequence becomes the end of another.                     *)
LEMMA HeadMovesOn ==
  ASSUME NEW S, NEW a \in Seq(S), NEW b \in Seq(S), b # <<>>
  PROVE  /\ Head(b) \in S /\ Tail(b) \in Seq(S) /\ Append(a, Head(b)) \in Seq(S)
         /\ Append(a, Head(b)) \o Tail(b) = a \o b
<1>1. Head(b) \in S /\ Tail(b) \in Seq(S) BY HeadTailProperties
<1>2. <<Head(b)>> \in Seq(S) BY <1>1
<1>3. Append(a, Head(b)) \in Seq(S) /\ Append(a, Head(b)) = a \o <<Head(b)>>
  BY <1>1, AppendProperties, AppendIsConcat
<1>4. <<Head(b)>> \o Tail(b) = b
  <2>1. Len(b) \in Nat \ {0} BY EmptySeq
  <2>2. 1 \in 1 .. Len(b) /\ Len(b) \in 1 .. Len(b) BY <2>1
  <2>3. SubSeq(b, 1, Len(b)) = <<b[1]>> \o SubSeq(b, 2, Len(b)) BY <2>2, SubSeqRecursiveFirst
  <2>4. Tail(b) = SubSeq(b, 2, Len(b)) BY TailIsSubSeq
  <2>5. Head(b) = b[1] BY HeadTailProperties
  <2> QED BY <2>3, <2>4, <2>5, SubSeqFull
<1>5. (a \o <<Head(b)>>) \o Tail(b) = a \o (<<Head(b)>> \o Tail(b)) BY <1>1, <1>2, ConcatAssociative
<1> QED BY <1>1, <1>3, <1>4, <1>5

LEMMA EndGoesOn ==
  ASSUME NEW S, NEW a \in Seq(S), NEW b \in Seq(S), NEW x \in S
  PROVE  Append(a \o b, x) = a \o Append(b, x) /\ Append(b, x) \in Seq(S) /\ a \o b \in Seq(S)
<1>1. a \o b \in Seq(S) /\ <<x>> \in Seq(S) BY ConcatProperties
<1>2. Append(a \o b, x) = (a \o b) \o <<x>> /\ Append(b, x) = b \o <<x>> BY <1>1, AppendIsConcat
<1>3. (a \o b) \o <<x>> = a \o (b \o <<x>>) BY <1>1, ConcatAssociative
<1> QED BY <1>1, <1>2, <1>3, AppendProperties

Longer(a, b, x) == Append(a \o b, x) = a \o Append(b, x)

LEMMA LongerEnd == ASSUME NEW S, NEW a \in Seq(S), NEW b \in Seq(S), NEW x \in S PROVE Longer(a, b, x)
<1>1. Append(a \o b, x) = a \o Append(b, x) /\ Append(b, x) \in Seq(S) /\ a \o b \in Seq(S)
  BY EndGoesOn, Zenon
<1> QED BY <1>1 DEF Longer

(* How often something is in a sequence.                                    *)
Count(s, x) == Cardinality({i \in DOMAIN s : s[i] = x})

LEMMA CountOfAppend ==
  ASSUME NEW S, NEW s \in Seq(S), NEW e \in S, NEW x
  PROVE  Count(s, x) \in Nat /\ Count(Append(s, e), x) = Count(s, x) + IF e = x THEN 1 ELSE 0
<1> DEFINE t == Append(s, e)
           A == {i \in DOMAIN s : s[i] = x}
           B == {i \in DOMAIN t : t[i] = x}
           n == Len(s)
<1>1. /\ n \in Nat /\ DOMAIN s = 1 .. n /\ t \in Seq(S) /\ Len(t) = n + 1
      /\ \A i \in 1 .. n : t[i] = s[i]
      /\ t[n + 1] = e
  BY AppendProperties, LenProperties
<1>2. DOMAIN t = 1 .. n + 1 BY <1>1, LenProperties
<1> HIDE DEF t, n
<1>3. A \subseteq 1 .. n BY <1>1
<1>5. B = IF e = x THEN A \cup {n + 1} ELSE A BY <1>1, <1>2
<1>6. n + 1 \notin A BY <1>1, <1>3
<1> HIDE DEF A, B
<1>4. IsFiniteSet(A)
  <2>1. n \in Nat BY <1>1
  <2>2. IsFiniteSet(1 .. n) BY <2>1, FS_Interval
  <2> QED BY <1>3, <2>2, FS_Subset
<1>7. Cardinality(A) \in Nat BY <1>4, FS_CardinalityType
<1>8. Cardinality(A \cup {n + 1}) = Cardinality(A) + 1 BY <1>4, <1>6, FS_AddElement
<1>9. Cardinality(B) = Cardinality(A) + IF e = x THEN 1 ELSE 0 BY <1>5, <1>7, <1>8
<1> QED BY <1>7, <1>9 DEF Count, t, A, B

LEMMA OneMore ==
  ASSUME NEW S, NEW s \in Seq(S), NEW e \in S
  PROVE  Count(Append(s, e), e) = Count(s, e) + 1
BY CountOfAppend

LEMMA NoneMore ==
  ASSUME NEW S, NEW s \in Seq(S), NEW e \in S, NEW x, e # x
  PROVE  Count(Append(s, e), x) = Count(s, x)
<1>1. Count(s, x) \in Nat /\ Count(Append(s, e), x) = Count(s, x) + IF e = x THEN 1 ELSE 0
  BY CountOfAppend
<1> QED BY <1>1

LEMMA CountOfTail ==
  ASSUME NEW S, NEW s \in Seq(S), s # <<>>, NEW x
  PROVE  /\ Count(s, x) \in Nat /\ Count(Tail(s), x) \in Nat
         /\ Count(s, x) = Count(Tail(s), x) + IF Head(s) = x THEN 1 ELSE 0
<1> DEFINE t == Tail(s)
           n == Len(t)
           A == {i \in DOMAIN t : t[i] = x}
           M == {i + 1 : i \in A}
           B == {i \in DOMAIN s : s[i] = x}
<1>1. /\ t \in Seq(S) /\ Len(s) = n + 1 /\ n \in Nat /\ DOMAIN s = 1 .. n + 1 /\ Head(s) = s[1]
      /\ \A i \in 1 .. n : t[i] = s[i + 1]
  <2>1. Len(s) \in Nat \ {0} BY EmptySeq
  <2>2. t \in Seq(S) /\ Len(t) = Len(s) - 1 /\ Head(s) = s[1] /\ \A i \in 1 .. Len(t) : t[i] = s[i + 1]
    BY HeadTailProperties
  <2> QED BY <2>1, <2>2, LenProperties
<1>2. DOMAIN t = 1 .. n BY <1>1, LenProperties
<1> HIDE DEF t, n
<1>3. A \subseteq 1 .. n BY <1>2
<1>4. IsFiniteSet(A) BY <1>1, <1>3, FS_Interval, FS_Subset
<1>5. Cardinality(M) = Cardinality(A) /\ IsFiniteSet(M)
  <2> DEFINE f == [i \in A |-> i + 1]
  <2>1. f \in Surjection(A, M) BY DEF Surjection
  <2>2. f \in Injection(A, M) BY <1>1, <1>3 DEF Injection, IsInjective
  <2>3. f \in Bijection(A, M) BY <2>1, <2>2 DEF Bijection
  <2>4. ExistsBijection(A, M) BY <2>3 DEF ExistsBijection
  <2> HIDE DEF f, A, M
  <2> QED BY <1>4, <2>4, FS_Bijection, FS_SameCardinalityBij
<1>6. B = IF Head(s) = x THEN M \cup {1} ELSE M
  <2>1. \A i \in 1 .. n + 1 : i = 1 \/ (i - 1 \in 1 .. n /\ (i - 1) + 1 = i) BY <1>1
  <2>2. ASSUME NEW i \in 1 .. n + 1, i # 1 PROVE s[i] = x <=> i \in M
    <3>1. i - 1 \in 1 .. n /\ (i - 1) + 1 = i BY <2>1, <2>2
    <3>2. t[i - 1] = s[i] BY <1>1, <3>1
    <3>3. s[i] = x => i \in M BY <1>2, <3>1, <3>2
    <3>4. ASSUME NEW j \in A, i = j + 1 PROVE s[i] = x BY <1>1, <1>3, <3>4
    <3> QED BY <3>3, <3>4
  <2>3. M \subseteq 1 .. n + 1 BY <1>1, <1>3
  <2>4. 1 \notin M BY <1>1, <1>3
  <2>5. 1 \in 1 .. n + 1 BY <1>1
  <2> HIDE DEF M
  <2>6. \A i : i \in B <=> i \in 1 .. n + 1 /\ s[i] = x BY <1>1
  <2> HIDE DEF B
  <2>7. s[1] = x => B = M \cup {1} BY <2>2, <2>3, <2>5, <2>6
  <2>8. s[1] # x => B = M BY <2>2, <2>3, <2>4, <2>6
  <2> QED BY <1>1, <2>7, <2>8
<1>7. 1 \notin M BY <1>1, <1>3
<1>8. Cardinality(A) \in Nat BY <1>4, FS_CardinalityType
<1>9. Cardinality(M \cup {1}) = Cardinality(M) + 1 BY <1>5, <1>7, FS_AddElement
<1> HIDE DEF A, M, B
<1>10. Cardinality(B) = Cardinality(A) + IF Head(s) = x THEN 1 ELSE 0 BY <1>5, <1>6, <1>8, <1>9
<1>11. Cardinality(B) \in Nat BY <1>8, <1>10
<1> QED BY <1>8, <1>10, <1>11 DEF Count, t, A, B

LEMMA NothingCounts == \A x : Count(<<>>, x) = 0
<1> SUFFICES ASSUME NEW x PROVE Count(<<>>, x) = 0 OBVIOUS
<1>1. {i \in DOMAIN <<>> : <<>>[i] = x} = {} OBVIOUS
<1> QED BY <1>1, FS_EmptySet DEF Count

LEMMA CountType == ASSUME NEW S, NEW s \in Seq(S), NEW x PROVE Count(s, x) \in Nat
<1>1. CASE s = <<>> BY <1>1, NothingCounts
<1>2. CASE s # <<>> BY <1>2, CountOfTail
<1> QED BY <1>1, <1>2

(* A set of numbers has a least one.                                        *)
LEMMA LeastNatural ==
  ASSUME NEW T, T \subseteq Nat, T # {}
  PROVE  \E x \in T : \A y \in T : x <= y
<1>1. PICK x \in T : \A y \in T : ~(<<y, x>> \in OpToRel(<, Nat))
  BY NatLessThanWellFounded, WFMin
<1>2. \A y \in T : ~(y < x)
  BY <1>1 DEF OpToRel
<1> QED BY <1>2

-----------------------------------------------------------------------------
(* The chunk layer.  Between what the parser has read and what the server   *)
(* has sent lie the chunks in the buffer: at every boundary of a chunk the  *)
(* server was in some state, and the parser that gets there is in the state *)
(* that matches it.                                                         *)
CONSTANTS Csids, ChunkSizes, Lengths, Steps, Extended, FirstSize, MaxMessage, MaxHeld,
          MaxMessages, MaxControl, MaxBuffer
VARIABLES out, history, outSize, messages, completed, broken, excess, buffer, inSize, headers, assembly,
          aborted, delivered, error
Chunks == INSTANCE RtmpChunks
chunksOwn ==
  <<out, history, outSize, messages, completed, broken, excess, buffer, inSize, headers, assembly,
    aborted, delivered, error>>

PayloadUnit == [unit : {"payload"}, id : Nat, at : Nat]
HeaderUnit == [unit : {"header"}, csid : Csids, fmt : 0 .. 3, length : Nat, field : Nat]
StreamUnit ==
  PayloadUnit \cup HeaderUnit \cup [unit : {"extended"}, value : Nat] \cup [unit : {"size"}, value : Nat \ {0}]
  \cup [unit : {"abort"}, csid : Csids]
Sending == [id : Nat, at : Nat, length : Nat, time : Nat, dead : BOOLEAN]
Past == [length : Nat, time : Nat, value : Nat, ext : BOOLEAN, delta : Nat]
ReadHeader == [length : Nat, time : Nat, delta : Nat, isDelta : BOOLEAN, ext : BOOLEAN]
Message == [csid : Csids, time : Nat, id : Nat, length : Nat]
Delivery == [csid : Csids, time : Nat, payload : Seq(PayloadUnit)]

ChunkTypes ==
  /\ out \in [Csids -> SUBSET Sending] /\ history \in [Csids -> Past \cup {Chunks!Unset}]
  /\ outSize \in Nat \ {0} /\ messages \in [all : Nat, control : Nat] /\ completed \in Seq(Message)
  /\ broken \in BOOLEAN /\ excess \in BOOLEAN
  /\ buffer \in Seq(StreamUnit) /\ inSize \in Nat \ {0} /\ headers \in [Csids -> ReadHeader \cup {Chunks!Unset}]
  /\ assembly \in [Csids -> SUBSET [header : ReadHeader, payload : Seq(PayloadUnit)]]
  /\ aborted \in [Csids -> Nat] /\ delivered \in Seq(Delivery) /\ error \in BOOLEAN

(* The state of the server at a boundary.                                   *)
ServerNow ==
  [out |-> out, history |-> history, outSize |-> outSize, done |-> Len(completed), excess |-> excess]
StreamSound(o, h) ==
  /\ o \subseteq Sending /\ h \in Past \cup {Chunks!Unset} /\ \A m, n \in o : m = n
  /\ \A m \in o : /\ m.at < m.length /\ h \in Past
                  /\ ~m.dead => m.time = h.time /\ m.length = h.length
Sound(w, z) ==
  /\ w.outSize \in Nat \ {0} /\ w.done \in Nat /\ w.done <= Len(z)
  /\ \A c \in Csids : StreamSound(w.out[c], w.history[c])

(* What the parser keeps of a chunk stream, when it has read all the server *)
(* sent until it was in this state.                                         *)
Matches(o, h, hd, as, ab) ==
  /\ h = Chunks!Unset => hd = Chunks!Unset
  /\ h \in Past => /\ hd \in ReadHeader /\ hd.length = h.length /\ hd.time = h.time /\ hd.delta = h.delta
                   /\ hd.ext <=> h.ext
                   /\ ~hd.isDelta => h.delta = 0
  /\ o = {} => as = {} /\ ab = 0
  /\ \A m \in o :
       /\ m.dead => as = {} /\ ab = m.length - m.at
       /\ ~m.dead => as = {[header |-> hd, payload |-> Chunks!Payload(m.id, 0, m.at)]} /\ ab = 0
Matched(w) ==
  /\ inSize = w.outSize /\ Len(delivered) = w.done /\ ~w.excess
  /\ \A c \in Csids : Matches(w.out[c], w.history[c], headers[c], assembly[c], aborted[c])

(* The chunks that lie between two boundaries k and j of the buffer b.      *)
Chunk(b, k, j, ext, id, at, n) ==
  \E p \in {1, 2} :
    /\ p = 2 <=> ext
    /\ j = k + p + n
    /\ \A i \in 1 .. n : b[k + p + i] = [unit |-> "payload", id |-> id, at |-> at + i - 1]
Lesser(a, b) == IF a <= b THEN a ELSE b
Apart(w, v, c) == \A d \in Csids : d # c => v.out[d] = w.out[d] /\ v.history[d] = w.history[d]
SentPart(w, v, z, c, id, at, length, time, n) ==
  /\ at + n < length => /\ v.done = w.done
                        /\ v.out[c] = {[id |-> id, at |-> at + n, length |-> length, time |-> time, dead |-> FALSE]}
  /\ ~(at + n < length) => /\ v.out[c] = {} /\ v.done = w.done + 1
                           /\ z[v.done] = [csid |-> c, time |-> time, id |-> id, length |-> length]
  /\ v.excess <=> \/ w.excess \/ length > MaxMessage
                  \/ at + n < length /\ Chunks!UnderWay(v.out, c) + (at + n) > MaxHeld
(* The header of a new message.                                             *)
Opens(u, x, h, q, c, fmt, length, step) ==
  /\ u \in HeaderUnit /\ u.csid = c /\ u.fmt = fmt /\ (fmt \in {0, 1} => u.length = length)
  /\ h = Chunks!Unset => fmt = 0
  /\ fmt \in {2, 3} => length = h.length
  /\ fmt = 3 => step = h.delta
  /\ q \in Past /\ q.length = length /\ q.time = step + (IF h \in Past THEN h.time ELSE 0)
  /\ q.delta = IF fmt = 0 THEN 0 ELSE step
  /\ fmt = 3 => (q.ext <=> h.ext)
  /\ fmt # 3 => /\ q.ext <=> q.value >= Extended
                /\ q.value = IF fmt = 0 THEN q.time ELSE step
                /\ u.field = Lesser(q.value, Extended)
                /\ q.ext => x = [unit |-> "extended", value |-> q.value]
Begins(w, v, b, z, k, j) ==
  \E c \in Csids, fmt \in 0 .. 3, id \in Nat, length \in Nat, step \in Nat, n \in Nat :
    /\ \A m \in w.out[c] : m.dead
    /\ fmt = 3 => w.out[c] = {}
    /\ Opens(b[k + 1], b[k + 2], w.history[c], v.history[c], c, fmt, length, step)
    /\ n = Lesser(w.outSize, length) /\ Chunk(b, k, j, v.history[c].ext, id, 0, n)
    /\ SentPart(w, v, z, c, id, 0, length, v.history[c].time, n)
    /\ v.outSize = w.outSize /\ Apart(w, v, c)
Continues(w, v, b, z, k, j) ==
  \E c \in Csids, n \in Nat : \E m \in w.out[c] :
    /\ b[k + 1] = [unit |-> "header", csid |-> c, fmt |-> 3, length |-> 0, field |-> 0]
    /\ n = Lesser(w.outSize, m.length - m.at) /\ Chunk(b, k, j, w.history[c].ext, m.id, m.at, n)
    /\ ~m.dead => SentPart(w, v, z, c, m.id, m.at, m.length, m.time, n)
    /\ m.dead => /\ v.done = w.done /\ v.excess = w.excess
                 /\ v.out[c] = IF m.at + n < m.length THEN {[m EXCEPT !.at = @ + n]} ELSE {}
    /\ v.outSize = w.outSize /\ v.history[c] = w.history[c] /\ Apart(w, v, c)
Resizes(w, v, b, k, j) ==
  /\ b[k + 1] = [unit |-> "size", value |-> v.outSize] /\ j = k + 1 /\ v.done = w.done /\ v.excess = w.excess
  /\ \A c \in Csids : v.out[c] = w.out[c] /\ v.history[c] = w.history[c]
Aborts(w, v, b, k, j) ==
  \E c \in Csids : \E m \in w.out[c] :
    /\ b[k + 1] = [unit |-> "abort", csid |-> c] /\ j = k + 1
    /\ ~m.dead /\ v.out[c] = {[m EXCEPT !.dead = TRUE]} /\ v.history[c] = w.history[c]
    /\ v.outSize = w.outSize /\ v.done = w.done /\ v.excess = w.excess /\ Apart(w, v, c)
Linked(w, v, b, z, k, j) ==
  Begins(w, v, b, z, k, j) \/ Continues(w, v, b, z, k, j) \/ Resizes(w, v, b, k, j) \/ Aborts(w, v, b, k, j)

(* The boundaries in a buffer, up to one the server has reached.            *)
Bounds(W, b, z, end) ==
  /\ DOMAIN W \subseteq 0 .. end /\ 0 \in DOMAIN W /\ end \in DOMAIN W
  /\ \A k \in DOMAIN W : Sound(W[k], z) /\ (W[k].excess => W[end].excess)
  /\ \A k \in DOMAIN W : k # end => \E j \in DOMAIN W : k < j /\ Linked(W[k], W[j], b, z, k, j)
(* What a server that breaks the protocol sends last.                       *)
Illegal(w, u) ==
  /\ u \in HeaderUnit
  /\ \/ u.fmt = 0 /\ \E m \in w.out[u.csid] : ~m.dead
     \/ u.fmt = 1 /\ w.history[u.csid] = Chunks!Unset
InStep(end) ==
  \E W : W = [k \in DOMAIN W |-> W[k]] /\ Bounds(W, buffer, completed, end) /\ W[end] = ServerNow /\ Matched(W[0])
Delivered ==
  /\ Len(delivered) <= Len(completed)
  /\ \A i \in 1 .. Len(delivered) : Chunks!Faithful(completed[i], delivered[i])
ChunkInv ==
  /\ ChunkTypes /\ Delivered /\ Sound(ServerNow, completed)
  /\ error => (broken \/ excess) /\ buffer # <<>>
  /\ broken /\ ~error => /\ buffer # <<>> /\ InStep(Len(buffer) - 1)
                         /\ Illegal(ServerNow, buffer[Len(buffer)])
  /\ ~broken /\ ~error => InStep(Len(buffer))

-----------------------------------------------------------------------------
LEMMA LesserIs == ASSUME NEW a \in Int, NEW b \in Int PROVE Chunks!Min({a, b}) = Lesser(a, b)
BY DEF Chunks!Min, Lesser

IsPayload(s, id, at, n) ==
  /\ s \in Seq(PayloadUnit) /\ Len(s) = n
  /\ \A i \in 1 .. n : s[i] = [unit |-> "payload", id |-> id, at |-> at + i - 1]

LEMMA PayloadIs ==
  ASSUME NEW id \in Nat, NEW at \in Nat, NEW n \in Nat
  PROVE  IsPayload(Chunks!Payload(id, at, n), id, at, n)
<1>1. \A i \in 1 .. n : [unit |-> "payload", id |-> id, at |-> at + i - 1] \in PayloadUnit
  BY DEF PayloadUnit
<1>2. [i \in 1 .. n |-> [unit |-> "payload", id |-> id, at |-> at + i - 1]] \in Seq(PayloadUnit)
  BY <1>1
<1> DEFINE f == [i \in 1 .. n |-> [unit |-> "payload", id |-> id, at |-> at + i - 1]]
<1>3. Chunks!Payload(id, at, n) = f BY DEF Chunks!Payload
<1>4. DOMAIN f = 1 .. n /\ \A i \in 1 .. n : f[i] = [unit |-> "payload", id |-> id, at |-> at + i - 1] OBVIOUS
<1> HIDE DEF f
<1>5. Len(f) = n BY <1>2, <1>4, LenProperties DEF f
<1> QED BY <1>2, <1>3, <1>4, <1>5 DEF f, IsPayload

(* A payload and its next piece are a longer payload.                       *)
GoesOn(id, a, n, s) == Chunks!Payload(id, 0, a) \o s = Chunks!Payload(id, 0, a + n)

LEMMA PayloadGrows ==
  ASSUME NEW id \in Nat, NEW a \in Nat, NEW n \in Nat, NEW s, IsPayload(s, id, a, n)
  PROVE  GoesOn(id, a, n, s)
<1> DEFINE t == Chunks!Payload(id, 0, a)
           r == Chunks!Payload(id, 0, a + n)
<1>1. t \in Seq(PayloadUnit) /\ Len(t) = a /\ \A i \in 1 .. a : t[i] = [unit |-> "payload", id |-> id, at |-> 0 + i - 1]
  <2>1. IsPayload(t, id, 0, a) BY PayloadIs
  <2> QED BY <2>1 DEF IsPayload
<1>2. /\ r \in Seq(PayloadUnit) /\ Len(r) = a + n
      /\ \A i \in 1 .. a + n : r[i] = [unit |-> "payload", id |-> id, at |-> 0 + i - 1]
  <2>1. PICK e \in Nat : e = a + n OBVIOUS
  <2>2. IsPayload(Chunks!Payload(id, 0, e), id, 0, e) BY PayloadIs
  <2> QED BY <2>1, <2>2 DEF IsPayload
<1>6. /\ s \in Seq(PayloadUnit) /\ Len(s) = n
      /\ \A i \in 1 .. n : s[i] = [unit |-> "payload", id |-> id, at |-> a + i - 1]
  BY DEF IsPayload
<1> HIDE DEF t, r
<1>3. /\ t \o s \in Seq(PayloadUnit) /\ Len(t \o s) = a + n
      /\ \A i \in 1 .. a + n : (t \o s)[i] = IF i <= a THEN t[i] ELSE s[i - a]
  BY <1>1, <1>6, ConcatProperties
<1>4. \A i \in 1 .. a + n : (t \o s)[i] = r[i]
  <2> SUFFICES ASSUME NEW i \in 1 .. a + n PROVE (t \o s)[i] = r[i] OBVIOUS
  <2>1. CASE i <= a
    <3>1. i \in 1 .. a BY <2>1
    <3> QED BY <1>1, <1>2, <1>3, <2>1, <3>1
  <2>2. CASE ~(i <= a)
    <3>1. i - a \in 1 .. n /\ a + (i - a) - 1 = 0 + i - 1 BY <2>2
    <3>2. s[i - a] = [unit |-> "payload", id |-> id, at |-> a + (i - a) - 1] BY <1>6, <3>1
    <3> QED BY <1>2, <1>3, <2>2, <3>1, <3>2
  <2> QED BY <2>1, <2>2
<1>5. t \o s = r BY <1>2, <1>3, <1>4, SeqEqual
<1> QED BY <1>5 DEF t, r, GoesOn

(* A chunk is the same chunk wherever it lies in the buffer.                *)
LEMMA ChunkElsewhere ==
  ASSUME NEW b, NEW b2, NEW k \in Nat, NEW j \in Nat, NEW k2 \in Nat, NEW j2 \in Nat, j - k = j2 - k2,
         \A i \in 1 .. j - k : b2[k2 + i] = b[k + i],
         NEW ext, NEW id, NEW at, NEW n \in Nat, Chunk(b, k, j, ext, id, at, n)
  PROVE  Chunk(b2, k2, j2, ext, id, at, n)
<1>1. PICK p \in {1, 2} : /\ p = 2 <=> ext
                          /\ j = k + p + n
                          /\ \A i \in 1 .. n : b[k + p + i] = [unit |-> "payload", id |-> id, at |-> at + i - 1]
  BY DEF Chunk
<1>2. j2 = k2 + p + n BY <1>1
<1>3. ASSUME NEW i \in 1 .. n PROVE b2[k2 + p + i] = [unit |-> "payload", id |-> id, at |-> at + i - 1]
  <2>1. p + i \in 1 .. j - k /\ k2 + (p + i) = k2 + p + i /\ k + (p + i) = k + p + i BY <1>1
  <2>2. b2[k2 + (p + i)] = b[k + (p + i)] BY <2>1
  <2> QED BY <1>1, <2>1, <2>2
<1> QED BY <1>1, <1>2, <1>3 DEF Chunk

LEMMA SentStays ==
  ASSUME NEW w, NEW v, NEW z, NEW z2, \A i \in 1 .. Len(z) : z2[i] = z[i], v.done \in Nat, w.done \in Nat,
         v.done <= Len(z), Len(z) \in Nat, NEW c, NEW id, NEW at \in Nat, NEW length \in Nat, NEW time, NEW n \in Nat,
         SentPart(w, v, z, c, id, at, length, time, n)
  PROVE  SentPart(w, v, z2, c, id, at, length, time, n)
<1>1. ASSUME ~(at + n < length) PROVE z2[v.done] = z[v.done]
  <2>1. v.done = w.done + 1 BY <1>1 DEF SentPart
  <2> QED BY <2>1
<1> QED BY <1>1 DEF SentPart

LEMMA LinkedElsewhere ==
  ASSUME NEW b, NEW b2, NEW k \in Nat, NEW j \in Nat, NEW k2 \in Nat, NEW j2 \in Nat, k < j, j - k = j2 - k2,
         \A i \in 1 .. j - k : b2[k2 + i] = b[k + i],
         NEW z, NEW z2, \A i \in 1 .. Len(z) : z2[i] = z[i], Len(z) \in Nat,
         NEW w, NEW v, Sound(w, z), Sound(v, z), Linked(w, v, b, z, k, j)
  PROVE  Linked(w, v, b2, z2, k2, j2)
<1>1. v.done \in Nat /\ w.done \in Nat /\ v.done <= Len(z) BY DEF Sound
<1>2. b2[k2 + 1] = b[k + 1]
  <2>1. 1 \in 1 .. j - k OBVIOUS
  <2> QED BY <2>1
<1>3. CASE Begins(w, v, b, z, k, j)
  <2>1. PICK c \in Csids, fmt \in 0 .. 3, id \in Nat, length \in Nat, step \in Nat, n \in Nat :
        /\ \A m \in w.out[c] : m.dead
        /\ fmt = 3 => w.out[c] = {}
        /\ Opens(b[k + 1], b[k + 2], w.history[c], v.history[c], c, fmt, length, step)
        /\ n = Lesser(w.outSize, length) /\ Chunk(b, k, j, v.history[c].ext, id, 0, n)
        /\ SentPart(w, v, z, c, id, 0, length, v.history[c].time, n)
        /\ v.outSize = w.outSize /\ Apart(w, v, c)
    BY <1>3 DEF Begins
  <2>2. Chunk(b2, k2, j2, v.history[c].ext, id, 0, n)
    <3>1. PICK e : e = v.history[c].ext OBVIOUS
    <3>2. Chunk(b, k, j, e, id, 0, n) BY <2>1, <3>1
    <3>3. Chunk(b2, k2, j2, e, id, 0, n) BY <3>2, ChunkElsewhere
    <3> QED BY <3>1, <3>3
  <2>3. SentPart(w, v, z2, c, id, 0, length, v.history[c].time, n)
    <3>1. PICK e : e = v.history[c].time OBVIOUS
    <3>2. SentPart(w, v, z, c, id, 0, length, e, n) /\ 0 \in Nat BY <2>1, <3>1
    <3>3. SentPart(w, v, z2, c, id, 0, length, e, n) BY <1>1, <3>2, SentStays
    <3> QED BY <3>1, <3>3
  <2>4. v.history[c].ext => b2[k2 + 2] = b[k + 2]
    <3>1. v.history[c].ext => j >= k + 2 BY <2>1 DEF Chunk
    <3>2. j >= k + 2 => 2 \in 1 .. j - k OBVIOUS
    <3> QED BY <3>1, <3>2
  <2>5. Opens(b2[k2 + 1], b2[k2 + 2], w.history[c], v.history[c], c, fmt, length, step)
    BY <1>2, <2>1, <2>4 DEF Opens
  <2>6. Begins(w, v, b2, z2, k2, j2) BY <2>1, <2>2, <2>3, <2>5 DEF Begins
  <2> QED BY <2>6 DEF Linked
<1>4. CASE Continues(w, v, b, z, k, j)
  <2>1. PICK c \in Csids, n \in Nat : \E m \in w.out[c] :
        /\ b[k + 1] = [unit |-> "header", csid |-> c, fmt |-> 3, length |-> 0, field |-> 0]
        /\ n = Lesser(w.outSize, m.length - m.at) /\ Chunk(b, k, j, w.history[c].ext, m.id, m.at, n)
        /\ ~m.dead => SentPart(w, v, z, c, m.id, m.at, m.length, m.time, n)
        /\ m.dead => /\ v.done = w.done /\ v.excess = w.excess
                     /\ v.out[c] = IF m.at + n < m.length THEN {[m EXCEPT !.at = @ + n]} ELSE {}
        /\ v.outSize = w.outSize /\ v.history[c] = w.history[c] /\ Apart(w, v, c)
    BY <1>4 DEF Continues
  <2>2. PICK m \in w.out[c] :
        /\ b[k + 1] = [unit |-> "header", csid |-> c, fmt |-> 3, length |-> 0, field |-> 0]
        /\ n = Lesser(w.outSize, m.length - m.at) /\ Chunk(b, k, j, w.history[c].ext, m.id, m.at, n)
        /\ ~m.dead => SentPart(w, v, z, c, m.id, m.at, m.length, m.time, n)
        /\ m.dead => /\ v.done = w.done /\ v.excess = w.excess
                     /\ v.out[c] = IF m.at + n < m.length THEN {[m EXCEPT !.at = @ + n]} ELSE {}
        /\ v.outSize = w.outSize /\ v.history[c] = w.history[c] /\ Apart(w, v, c)
    BY <2>1
  <2>3. Chunk(b2, k2, j2, w.history[c].ext, m.id, m.at, n)
    <3>1. PICK e : e = w.history[c].ext OBVIOUS
    <3>2. PICK i, at : i = m.id /\ at = m.at OBVIOUS
    <3>3. Chunk(b, k, j, e, i, at, n) BY <2>2, <3>1, <3>2
    <3>4. Chunk(b2, k2, j2, e, i, at, n) BY <3>3, ChunkElsewhere
    <3> QED BY <3>1, <3>2, <3>4
  <2>4. m.at \in Nat /\ m.length \in Nat BY DEF Sound, StreamSound, Sending
  <2>5. ~m.dead => SentPart(w, v, z2, c, m.id, m.at, m.length, m.time, n)
    BY <1>1, <2>2, <2>4, SentStays
  <2>6. Continues(w, v, b2, z2, k2, j2) BY <1>2, <2>2, <2>3, <2>5 DEF Continues
  <2> QED BY <2>6 DEF Linked
<1>5. CASE Resizes(w, v, b, k, j)
  <2>1. j2 = k2 + 1 BY <1>5 DEF Resizes
  <2>2. Resizes(w, v, b2, k2, j2) BY <1>2, <1>5, <2>1 DEF Resizes
  <2> QED BY <2>2 DEF Linked
<1>6. CASE Aborts(w, v, b, k, j)
  <2>1. j2 = k2 + 1 BY <1>6 DEF Aborts
  <2>2. Aborts(w, v, b2, k2, j2) BY <1>2, <1>6, <2>1 DEF Aborts
  <2> QED BY <2>2 DEF Linked
<1> QED BY <1>3, <1>4, <1>5, <1>6 DEF Linked

LEMMA SoundStays ==
  ASSUME NEW w, NEW z, NEW z2, Len(z) \in Nat, Len(z2) \in Nat, Len(z) <= Len(z2), Sound(w, z) PROVE Sound(w, z2)
<1>1. w.done \in Nat /\ w.done <= Len(z) BY DEF Sound
<1>2. w.done <= Len(z2) BY <1>1
<1> QED BY <1>2 DEF Sound

Extends(b, b2) == Len(b) \in Nat /\ Len(b2) \in Nat /\ Len(b) <= Len(b2) /\ \A i \in 1 .. Len(b) : b2[i] = b[i]

(* The server sends one chunk more: one boundary more.                      *)
LEMMA BoundaryAdded ==
  ASSUME NEW W, NEW b, NEW b2, NEW z, NEW z2, NEW v, NEW end \in Nat, NEW end2 \in Nat,
         Bounds(W, b, z, end), end = Len(b), Extends(b, b2), Extends(z, z2), end < end2, Sound(v, z2),
         Linked(W[end], v, b2, z2, end, end2)
  PROVE  \E X : X = [k \in DOMAIN X |-> X[k]] /\ Bounds(X, b2, z2, end2) /\ X[0] = W[0] /\ X[end2] = v
<1> DEFINE D == DOMAIN W \cup {end2}
           Y == [k \in D |-> IF k = end2 THEN v ELSE W[k]]
<1>1. PICK X : X = Y OBVIOUS
<1>2. X = [k \in DOMAIN X |-> X[k]] /\ DOMAIN X = D BY <1>1
<1>3. /\ DOMAIN W \subseteq 0 .. end /\ 0 \in DOMAIN W /\ end \in DOMAIN W
      /\ \A k \in DOMAIN W : Sound(W[k], z) /\ (W[k].excess => W[end].excess)
      /\ \A k \in DOMAIN W : k # end => \E j \in DOMAIN W : k < j /\ Linked(W[k], W[j], b, z, k, j)
  BY DEF Bounds
<1>4. X[end2] = v /\ \A k \in DOMAIN W : X[k] = W[k] /\ k \in 0 .. end /\ k # end2
  <2>1. X[end2] = v BY <1>1
  <2>2. ASSUME NEW k \in DOMAIN W PROVE X[k] = W[k] /\ k \in 0 .. end /\ k # end2
    <3>1. k \in 0 .. end BY <1>3
    <3>2. k # end2 BY <3>1
    <3> QED BY <1>1, <3>1, <3>2
  <2> QED BY <2>1, <2>2
<1>5. Len(z) \in Nat /\ Len(z2) \in Nat /\ Len(z) <= Len(z2) /\ \A i \in 1 .. Len(z) : z2[i] = z[i]
  BY DEF Extends
<1>6. \A i \in 1 .. end : b2[i] = b[i] BY DEF Extends
<1>7. DOMAIN X \subseteq 0 .. end2 /\ 0 \in DOMAIN X /\ end2 \in DOMAIN X BY <1>2, <1>3
<1>12. W[end].excess => v.excess
  <2>1. PICK w : w = W[end] OBVIOUS
  <2>2. Linked(w, v, b2, z2, end, end2) BY <2>1
  <2>3. CASE Begins(w, v, b2, z2, end, end2) BY <2>1, <2>3 DEF Begins, SentPart
  <2>4. CASE Continues(w, v, b2, z2, end, end2)
    <3>1. PICK c \in Csids, n \in Nat : \E m \in w.out[c] :
            /\ ~m.dead => SentPart(w, v, z2, c, m.id, m.at, m.length, m.time, n)
            /\ m.dead => v.excess = w.excess
      BY <2>4 DEF Continues
    <3> QED BY <2>1, <3>1 DEF SentPart
  <2>5. CASE Resizes(w, v, b2, end, end2) BY <2>1, <2>5 DEF Resizes
  <2>6. CASE Aborts(w, v, b2, end, end2) BY <2>1, <2>6 DEF Aborts
  <2> QED BY <2>2, <2>3, <2>4, <2>5, <2>6 DEF Linked
<1>8. ASSUME NEW k \in DOMAIN X PROVE Sound(X[k], z2) /\ (X[k].excess => X[end2].excess)
  <2>1. CASE k = end2 BY <1>4, <2>1
  <2>2. CASE k \in DOMAIN W
    <3>1. Sound(W[k], z2) BY <1>3, <1>5, <2>2, SoundStays
    <3>2. W[k].excess => v.excess BY <1>3, <1>12, <2>2
    <3> QED BY <1>4, <2>2, <3>1, <3>2
  <2> QED BY <1>2, <2>1, <2>2
<1>9. ASSUME NEW k \in DOMAIN X, k # end2 PROVE \E j \in DOMAIN X : k < j /\ Linked(X[k], X[j], b2, z2, k, j)
  <2>1. k \in DOMAIN W BY <1>2, <1>9
  <2>2. CASE k = end
    <3>1. k < end2 /\ Linked(X[k], X[end2], b2, z2, k, end2) BY <1>4, <2>1, <2>2
    <3> QED BY <1>7, <3>1
  <2>3. CASE k # end
    <3>1. PICK j \in DOMAIN W : k < j /\ Linked(W[k], W[j], b, z, k, j) BY <1>3, <2>1, <2>3
    <3>2. k \in Nat /\ j \in Nat /\ j \in 0 .. end /\ X[k] = W[k] /\ X[j] = W[j] BY <1>4, <2>1
    <3>3. \A i \in 1 .. j - k : b2[k + i] = b[k + i] BY <1>6, <3>1, <3>2
    <3>4. PICK wk, wj : wk = W[k] /\ wj = W[j] OBVIOUS
    <3>5. Sound(wk, z) /\ Sound(wj, z) /\ Linked(wk, wj, b, z, k, j) BY <1>3, <2>1, <3>1, <3>4
    <3>6. Linked(wk, wj, b2, z2, k, j)
      <4> HIDE DEF D, Y
      <4>1. Len(z) \in Nat /\ \A i \in 1 .. Len(z) : z2[i] = z[i] BY <1>5
      <4>2. j - k = j - k /\ k < j BY <3>1
      <4> QED BY <3>2, <3>3, <3>5, <4>1, <4>2, LinkedElsewhere
    <3>7. j \in DOMAIN X BY <1>2
    <3> QED BY <3>1, <3>2, <3>4, <3>6, <3>7
  <2> QED BY <2>2, <2>3
<1> HIDE DEF D, Y
<1>10. Bounds(X, b2, z2, end2) BY <1>7, <1>8, <1>9 DEF Bounds
<1>11. X[0] = W[0] BY <1>3, <1>4
<1> QED BY <1>2, <1>4, <1>10, <1>11

(* The parser reads one chunk: the boundaries after it move to the front.   *)
MovesTo(W, m, end, b, z, e) ==
  \E X : X = [k \in DOMAIN X |-> X[k]] /\ Bounds(X, b, z, e) /\ X[0] = W[m] /\ X[e] = W[end]

LEMMA BoundaryReached ==
  ASSUME NEW W, NEW b, NEW b2, NEW z, NEW end \in Nat, NEW m \in DOMAIN W, NEW e \in Nat, e = end - m,
         Bounds(W, b, z, end), Len(z) \in Nat, \A i \in 1 .. end - m : b2[i] = b[m + i]
  PROVE  MovesTo(W, m, end, b2, z, e)
<1>3. /\ DOMAIN W \subseteq 0 .. end /\ 0 \in DOMAIN W /\ end \in DOMAIN W
      /\ \A k \in DOMAIN W : Sound(W[k], z) /\ (W[k].excess => W[end].excess)
      /\ \A k \in DOMAIN W : k # end => \E j \in DOMAIN W : k < j /\ Linked(W[k], W[j], b, z, k, j)
  BY DEF Bounds
<1>1. m \in 0 .. end BY <1>3
<1> DEFINE D == {k \in 0 .. e : m + k \in DOMAIN W}
           Y == [k \in D |-> W[m + k]]
<1>2. PICK X : X = Y OBVIOUS
<1>4. X = [k \in DOMAIN X |-> X[k]] /\ DOMAIN X = D /\ \A k \in D : X[k] = W[m + k] BY <1>2
<1>5. 0 \in D /\ e \in D /\ D \subseteq 0 .. e BY <1>1, <1>3
<1>6. X[0] = W[m] /\ X[e] = W[end]
  <2>1. m + 0 = m /\ m + e = end BY <1>1
  <2> HIDE DEF D
  <2>2. X[0] = W[m + 0] /\ X[e] = W[m + e] BY <1>4, <1>5
  <2> QED BY <2>1, <2>2
<1>7. ASSUME NEW k \in D PROVE Sound(X[k], z) /\ (X[k].excess => X[e].excess)
  <2>1. k \in D /\ m + k \in DOMAIN W /\ X[k] = W[m + k] BY <1>4
  <2> QED BY <1>3, <1>6, <2>1
<1>8. ASSUME NEW k \in D, k # e PROVE \E j \in D : k < j /\ Linked(X[k], X[j], b2, z, k, j)
  <2>1. m + k \in DOMAIN W /\ m + k # end /\ k \in 0 .. e BY <1>1, <1>8
  <2>2. PICK l \in DOMAIN W : m + k < l /\ Linked(W[m + k], W[l], b, z, m + k, l) BY <1>3, <2>1
  <2>3. PICK j \in Nat : j = l - m /\ l = m + j /\ j \in 0 .. e /\ k < j
    <3>1. l \in 0 .. end BY <1>3
    <3>2. k \in Nat /\ m \in Nat /\ l \in Nat /\ m + k < l /\ l <= end BY <1>1, <2>1, <2>2, <3>1
    <3>3. l - m \in Nat /\ l = m + (l - m) /\ l - m \in 0 .. e /\ k < l - m BY <3>2
    <3> QED BY <3>3
  <2>4. j \in D BY <2>3
  <2>5. X[k] = W[m + k] /\ X[j] = W[l] BY <1>4, <2>3, <2>4
  <2>6. PICK wk, wj, k1 : wk = X[k] /\ wj = X[j] /\ k1 = m + k OBVIOUS
  <2>7. Sound(wk, z) /\ Sound(wj, z) /\ Linked(wk, wj, b, z, k1, l)
    BY <1>7, <1>8, <2>2, <2>4, <2>5, <2>6
  <2>8. k1 \in Nat /\ l \in Nat /\ k \in Nat /\ k1 < l /\ l - k1 = j - k
    BY <1>1, <1>3, <2>1, <2>2, <2>3, <2>6
  <2>9. ASSUME NEW i \in 1 .. l - k1 PROVE b2[k + i] = b[k1 + i]
    <3>2. k \in Nat /\ m \in Nat /\ k1 = m + k /\ i \in Nat /\ 1 <= i /\ i <= j - k /\ j <= e /\ j \in Nat
      BY <1>1, <2>1, <2>3, <2>6, <2>8, <2>9
    <3>1. k + i \in 1 .. end - m /\ m + (k + i) = k1 + i BY <3>2
    <3> QED BY <3>1
  <2> HIDE DEF D, Y
  <2>10. Linked(wk, wj, b2, z, k, j) BY <2>3, <2>7, <2>8, <2>9, LinkedElsewhere
  <2> QED BY <2>3, <2>4, <2>6, <2>10
<1> HIDE DEF D, Y
<1>9. Bounds(X, b2, z, e) BY <1>4, <1>5, <1>7, <1>8 DEF Bounds
<1> QED BY <1>4, <1>6, <1>9 DEF MovesTo

LEMMA NowIs ==
  /\ ServerNow.excess = excess /\ ServerNow'.excess = excess'
  /\ ServerNow.out = out /\ ServerNow.history = history /\ ServerNow.outSize = outSize /\ ServerNow.done = Len(completed)
  /\ ServerNow'.out = out' /\ ServerNow'.history = history' /\ ServerNow'.outSize = outSize'
  /\ ServerNow'.done = Len(completed')
BY DEF ServerNow

(* What one chunk puts into the stream.                                     *)
Units(h, ext, value, id, at, n, u) == u = (<<h>> \o Chunks!ExtendedUnit(ext, value)) \o Chunks!Payload(id, at, n)
Joined(b, u, b2) == b2 = b \o u

LEMMA UnitsAre ==
  ASSUME NEW h \in StreamUnit, NEW ext \in BOOLEAN, NEW value \in Nat, NEW id \in Nat, NEW at \in Nat, NEW n \in Nat,
         NEW u, Units(h, ext, value, id, at, n, u)
  PROVE  /\ u \in Seq(StreamUnit) /\ u[1] = h /\ (ext => u[2] = [unit |-> "extended", value |-> value])
         /\ Len(u) \in Nat /\ Len(u) > 0 /\ Chunk(u, 0, Len(u), ext, id, at, n)
<1> DEFINE x == [unit |-> "extended", value |-> value]
           head == <<h>> \o Chunks!ExtendedUnit(ext, value)
           pay == Chunks!Payload(id, at, n)
<1>1. IsPayload(pay, id, at, n) BY PayloadIs
<1>2. pay \in Seq(StreamUnit) /\ Len(pay) = n /\ \A i \in 1 .. n : pay[i] = [unit |-> "payload", id |-> id, at |-> at + i - 1]
  <2>1. pay \in Seq(PayloadUnit) /\ Len(pay) = n BY <1>1 DEF IsPayload
  <2>2. PayloadUnit \subseteq StreamUnit BY DEF StreamUnit
  <2>3. \A i \in 1 .. n : pay[i] = [unit |-> "payload", id |-> id, at |-> at + i - 1]
    BY <1>1 DEF IsPayload
  <2> HIDE DEF pay
  <2>4. pay \in Seq(StreamUnit) BY <2>1, <2>2
  <2> QED BY <2>1, <2>3, <2>4
<1>3. x \in StreamUnit BY DEF StreamUnit
<1>4. /\ <<h>> \in Seq(StreamUnit) /\ Len(<<h>>) = 1 /\ <<h>>[1] = h
      /\ <<x>> \in Seq(StreamUnit) /\ Len(<<x>>) = 1 /\ <<x>>[1] = x /\ <<>> \in Seq(StreamUnit) /\ Len(<<>>) = 0
  BY <1>3
<1> HIDE DEF x, pay
<1>5. PICK p \in {1, 2} : /\ p = 2 <=> ext
                          /\ head \in Seq(StreamUnit) /\ Len(head) = p /\ head[1] = h
                          /\ ext => head[2] = x
  <2>1. CASE ext
    <3>1. head = <<h>> \o <<x>> BY <2>1 DEF Chunks!ExtendedUnit, x
    <3>2. PICK a, b : a = <<h>> /\ b = <<x>> OBVIOUS
    <3>3. /\ a \o b \in Seq(StreamUnit) /\ Len(a \o b) = 2
          /\ \A i \in 1 .. 2 : (a \o b)[i] = IF i <= 1 THEN a[i] ELSE b[i - 1]
      <4>1. a \in Seq(StreamUnit) /\ b \in Seq(StreamUnit) /\ Len(a) = 1 /\ Len(b) = 1 BY <1>4, <3>2
      <4> HIDE DEF head
      <4>2. /\ a \o b \in Seq(StreamUnit) /\ Len(a \o b) = Len(a) + Len(b)
            /\ \A i \in 1 .. Len(a) + Len(b) : (a \o b)[i] = IF i <= Len(a) THEN a[i] ELSE b[i - Len(a)]
        BY <4>1, ConcatProperties
      <4> QED BY <4>1, <4>2
    <3>4. (a \o b)[1] = a[1] /\ (a \o b)[2] = b[1] BY <3>3
    <3> QED BY <1>4, <2>1, <3>1, <3>2, <3>3, <3>4
  <2>2. CASE ~ext
    <3>1. head = <<h>> \o <<>> BY <2>2 DEF Chunks!ExtendedUnit
    <3>3. PICK a : a = <<h>> OBVIOUS
    <3>4. a \in Seq(StreamUnit) BY <1>4, <3>3
    <3>5. a \o <<>> = a BY <3>4, ConcatEmptySeq
    <3>2. head = <<h>> BY <3>1, <3>3, <3>5
    <3>6. head \in Seq(StreamUnit) /\ Len(head) = 1 /\ head[1] = h BY <1>4, <3>2
    <3> HIDE DEF head
    <3> QED BY <2>2, <3>6
  <2> QED BY <2>1, <2>2
<1>6. u = head \o pay BY DEF pay, Units
<1> HIDE DEF head
<1>7. /\ u \in Seq(StreamUnit) /\ Len(u) = p + n
      /\ \A i \in 1 .. p + n : u[i] = IF i <= p THEN head[i] ELSE pay[i - p]
  <2>1. head \in Seq(StreamUnit) /\ Len(head) = p /\ pay \in Seq(StreamUnit) /\ Len(pay) = n
    BY <1>2, <1>5
  <2>2. /\ head \o pay \in Seq(StreamUnit) /\ Len(head \o pay) = Len(head) + Len(pay)
        /\ \A i \in 1 .. Len(head) + Len(pay) :
             (head \o pay)[i] = IF i <= Len(head) THEN head[i] ELSE pay[i - Len(head)]
    BY <2>1, ConcatProperties
  <2> QED BY <1>6, <2>1, <2>2
<1>8. u[1] = h /\ (ext => u[2] = x)
  <2>1. 1 \in 1 .. p + n /\ 1 <= p /\ (p = 2 => 2 \in 1 .. p + n /\ 2 <= p) BY <1>5
  <2> QED BY <1>5, <1>7, <2>1
<1>9. \A i \in 1 .. n : u[0 + p + i] = [unit |-> "payload", id |-> id, at |-> at + i - 1]
  <2> SUFFICES ASSUME NEW i \in 1 .. n PROVE u[0 + p + i] = [unit |-> "payload", id |-> id, at |-> at + i - 1] OBVIOUS
  <2>1. p \in Nat /\ i \in Nat /\ 1 <= i /\ i <= n BY <1>5
  <2>2. 0 + p + i \in 1 .. p + n /\ ~(0 + p + i <= p) /\ 0 + p + i - p = i BY <2>1
  <2>3. PICK q : q = 0 + p + i OBVIOUS
  <2>5. q \in 1 .. p + n /\ ~(q <= p) /\ q - p = i BY <2>2, <2>3
  <2>6. u[q] = IF q <= p THEN head[q] ELSE pay[q - p] BY <1>7, <2>5
  <2>4. u[q] = pay[i] BY <2>5, <2>6
  <2> QED BY <1>2, <2>3, <2>4
<1>10. Chunk(u, 0, Len(u), ext, id, at, n)
  <2>1. Len(u) = 0 + p + n BY <1>5, <1>7
  <2> QED BY <1>5, <1>9, <2>1 DEF Chunk
<1> QED BY <1>5, <1>7, <1>8, <1>10 DEF x

LEMMA EmitIs ==
  ASSUME NEW b \in Seq(StreamUnit), NEW u \in Seq(StreamUnit), NEW b2, Joined(b, u, b2)
  PROVE  /\ b2 \in Seq(StreamUnit) /\ Len(b2) = Len(b) + Len(u) /\ Extends(b, b2)
         /\ \A i \in 1 .. Len(u) : b2[Len(b) + i] = u[i]
<1>1. /\ b2 \in Seq(StreamUnit) /\ Len(b2) = Len(b) + Len(u) /\ Len(b) \in Nat /\ Len(u) \in Nat
      /\ \A i \in 1 .. Len(b) + Len(u) : b2[i] = IF i <= Len(b) THEN b[i] ELSE u[i - Len(b)]
  BY ConcatProperties, LenProperties DEF Joined
<1>2. ASSUME NEW i \in 1 .. Len(b) PROVE b2[i] = b[i]
  <2>1. i \in 1 .. Len(b) + Len(u) /\ i <= Len(b) BY <1>1
  <2> QED BY <1>1, <2>1
<1>3. ASSUME NEW i \in 1 .. Len(u) PROVE b2[Len(b) + i] = u[i]
  <2>1. Len(b) + i \in 1 .. Len(b) + Len(u) /\ ~(Len(b) + i <= Len(b)) /\ Len(b) + i - Len(b) = i
    BY <1>1
  <2> QED BY <1>1, <2>1
<1>4. Len(b) <= Len(b2) BY <1>1
<1> QED BY <1>1, <1>2, <1>3, <1>4 DEF Extends

Sends(c, id, at, length, time, head, n) ==
  /\ n = Lesser(outSize, length - at) /\ at + n <= length /\ (at < length => n > 0)
  /\ ~broken /\ ~error /\ buffer' = buffer \o (head \o Chunks!Payload(id, at, n))
  /\ SentPart(ServerNow, ServerNow', completed', c, id, at, length, time, n)
  /\ out' \in [Csids -> SUBSET Sending] /\ \A d \in Csids : d # c => out'[d] = out[d]
  /\ completed' \in Seq(Message) /\ Extends(completed, completed') /\ excess' \in BOOLEAN
  /\ out'[c] = {} \/ (/\ at + n < length
                      /\ out'[c] = {[id |-> id, at |-> at + n, length |-> length, time |-> time, dead |-> FALSE]})

(* What the other chunk streams have under way.                             *)
LEMMA UnderWayOfOthers ==
  ASSUME NEW c, NEW o, NEW o2, \A d \in Csids : d # c => o2[d] = o[d]
  PROVE  Chunks!UnderWay(o2, c) = Chunks!UnderWay(o, c)
<1> DEFINE at(x) == IF \E m \in x : ~m.dead THEN (CHOOSE m \in x : TRUE).at ELSE 0
           f == [d \in Csids \ {c} |-> at(o2[d])]
           g == [d \in Csids \ {c} |-> at(o[d])]
<1>1. Chunks!UnderWay(o2, c) = Chunks!SumFunction(f) /\ Chunks!UnderWay(o, c) = Chunks!SumFunction(g)
  BY DEF Chunks!UnderWay
<1> HIDE DEF at
<1>2. ASSUME NEW d \in Csids \ {c} PROVE f[d] = g[d]
  <2>1. o2[d] = o[d] OBVIOUS
  <2> QED BY <2>1
<1>3. f = g BY <1>2
<1> HIDE DEF f, g
<1> QED BY <1>1, <1>3

LEMMA SentIs ==
  ASSUME ChunkTypes, NEW c \in Csids, NEW id \in Nat, NEW at \in Nat, NEW length \in Nat, NEW time \in Nat,
         at <= length, NEW head, Chunks!SendOf(c, id, at, length, time, head, Chunks!UnderWay(out, c))
  PROVE  \E n \in Nat : Sends(c, id, at, length, time, head, n)
<1>1. /\ outSize \in Nat \ {0} /\ length - at \in Nat /\ out \in [Csids -> SUBSET Sending] /\ completed \in Seq(Message)
      /\ Len(completed) \in Nat
  BY DEF ChunkTypes
<1>2. PICK n : n = Lesser(outSize, length - at) OBVIOUS
<1>3. n \in Nat /\ at + n <= length /\ (at < length => n > 0) BY <1>1, <1>2 DEF Lesser
<1>4. Chunks!Min({outSize, length - at}) = n BY <1>1, <1>2, LesserIs
<1>5. ~broken /\ ~error /\ buffer' = buffer \o (head \o Chunks!Payload(id, at, n))
  BY <1>4 DEF Chunks!SendOf, Chunks!Emit
<1> DEFINE m == [id |-> id, at |-> at + n, length |-> length, time |-> time, dead |-> FALSE]
           r == [csid |-> c, time |-> time, id |-> id, length |-> length]
<1>6. /\ at + n < length => out' = [out EXCEPT ![c] = {m}] /\ completed' = completed
      /\ ~(at + n < length) => out' = [out EXCEPT ![c] = {}] /\ completed' = Append(completed, r)
  BY <1>4 DEF Chunks!SendOf
<1>10. excess' = \/ excess \/ length > MaxMessage
                 \/ at + n < length /\ Chunks!UnderWay(out, c) + (at + n) > MaxHeld
  BY <1>4 DEF Chunks!SendOf
<1>11. excess' \in BOOLEAN BY <1>10, Zenon
<1>13. Chunks!UnderWay(out', c) = Chunks!UnderWay(out, c)
  <2>1. PICK o2 : o2 = out' OBVIOUS
  <2>2. \A d \in Csids : d # c => o2[d] = out[d] BY <1>1, <1>6, <2>1
  <2>3. Chunks!UnderWay(o2, c) = Chunks!UnderWay(out, c) BY <2>2, UnderWayOfOthers
  <2> QED BY <2>1, <2>3
<1>12. ServerNow'.excess <=> \/ ServerNow.excess \/ length > MaxMessage
                             \/ at + n < length /\ Chunks!UnderWay(ServerNow'.out, c) + (at + n) > MaxHeld
  BY <1>10, <1>13, NowIs, Zenon
<1>7. m \in Sending /\ r \in Message
  <2>1. at + n \in Nat BY <1>3
  <2> QED BY <2>1 DEF Sending, Message
<1> HIDE DEF m, r
<1>8. CASE at + n < length
  <2>1. out' = [out EXCEPT ![c] = {m}] /\ completed' = completed BY <1>6, <1>8
  <2>2. out' \in [Csids -> SUBSET Sending] /\ out'[c] = {m} /\ \A d \in Csids : d # c => out'[d] = out[d]
    BY <1>1, <1>7, <2>1
  <2>3. completed' \in Seq(Message) /\ Extends(completed, completed') BY <1>1, <2>1 DEF Extends
  <2>4. SentPart(ServerNow, ServerNow', completed', c, id, at, length, time, n)
    <3>1. ServerNow'.done = ServerNow.done BY <2>1, NowIs
    <3>2. ServerNow'.out[c] = {m} BY <2>2, NowIs
    <3> QED BY <1>8, <1>12, <3>1, <3>2 DEF SentPart, m
  <2> QED BY <1>2, <1>3, <1>5, <1>8, <1>11, <2>2, <2>3, <2>4 DEF m, Sends
<1>9. CASE ~(at + n < length)
  <2>1. out' = [out EXCEPT ![c] = {}] /\ completed' = Append(completed, r) BY <1>6, <1>9
  <2>2. out' \in [Csids -> SUBSET Sending] /\ out'[c] = {} /\ \A d \in Csids : d # c => out'[d] = out[d]
    BY <1>1, <2>1
  <2>3. /\ completed' \in Seq(Message) /\ Len(completed') = Len(completed) + 1
        /\ \A i \in 1 .. Len(completed) : completed'[i] = completed[i]
        /\ completed'[Len(completed) + 1] = r
    BY <1>1, <1>7, <2>1, AppendProperties
  <2>4. Extends(completed, completed')
    <3>1. Len(completed') \in Nat /\ Len(completed) <= Len(completed') BY <1>1, <2>3
    <3> QED BY <1>1, <2>3, <3>1 DEF Extends
  <2>5. SentPart(ServerNow, ServerNow', completed', c, id, at, length, time, n)
    <3>1. ServerNow'.done = ServerNow.done + 1 BY <2>3, NowIs
    <3>2. ServerNow'.out[c] = {} BY <2>2, NowIs
    <3>3. completed'[ServerNow'.done] = r BY <2>3, NowIs
    <3> QED BY <1>9, <1>12, <3>1, <3>2, <3>3 DEF SentPart, r
  <2> QED BY <1>2, <1>3, <1>5, <1>9, <1>11, <2>2, <2>3, <2>4, <2>5 DEF Sends
<1> QED BY <1>8, <1>9

(* The server has sent a chunk.                                             *)
LEMMA ServerGrows ==
  ASSUME ChunkInv, ~broken, ~error, broken' = broken, Extends(buffer, buffer'), Len(buffer) < Len(buffer'),
         Extends(completed, completed'), Sound(ServerNow', completed'), ChunkTypes',
         Linked(ServerNow, ServerNow', buffer', completed', Len(buffer), Len(buffer')),
         UNCHANGED <<inSize, headers, assembly, aborted, delivered, error>>
  PROVE  ChunkInv'
<1>1. ChunkTypes /\ Delivered /\ InStep(Len(buffer)) /\ ~error BY DEF ChunkInv
<1>2. PICK W : /\ Bounds(W, buffer, completed, Len(buffer)) /\ W[Len(buffer)] = ServerNow /\ Matched(W[0])
  BY <1>1 DEF InStep
<1>3. PICK v, e, e2, b, b2, z, z2 :
        /\ v = ServerNow' /\ e = Len(buffer) /\ e2 = Len(buffer')
        /\ b = buffer /\ b2 = buffer' /\ z = completed /\ z2 = completed'
  OBVIOUS
<1>4. /\ Bounds(W, b, z, e) /\ e = Len(b) /\ Extends(b, b2) /\ Extends(z, z2) /\ e < e2 /\ Sound(v, z2)
      /\ Linked(W[e], v, b2, z2, e, e2)
  BY <1>2, <1>3
<1>5. e \in Nat /\ e2 \in Nat BY <1>3 DEF Extends
<1>6. PICK X : X = [k \in DOMAIN X |-> X[k]] /\ Bounds(X, b2, z2, e2) /\ X[0] = W[0] /\ X[e2] = v
  BY <1>4, <1>5, BoundaryAdded
<1>7. Matched(X[0])' BY <1>2, <1>6 DEF Matched
<1>8. InStep(Len(buffer))' BY <1>3, <1>6, <1>7 DEF InStep
<1>9. Delivered'
  <2>1. Len(delivered) <= Len(completed) /\ Len(delivered) \in Nat BY <1>1 DEF Delivered, ChunkTypes
  <2>2. /\ Len(completed) \in Nat /\ Len(completed') \in Nat /\ Len(completed) <= Len(completed')
        /\ \A i \in 1 .. Len(completed) : completed'[i] = completed[i]
    BY DEF Extends
  <2>3. Len(delivered') <= Len(completed') BY <2>1, <2>2
  <2>4. ASSUME NEW i \in 1 .. Len(delivered') PROVE Chunks!Faithful(completed'[i], delivered'[i])
    <3>1. i \in 1 .. Len(delivered) /\ i \in 1 .. Len(completed) BY <2>1, <2>2
    <3>2. Chunks!Faithful(completed[i], delivered[i]) BY <1>1, <3>1 DEF Delivered
    <3>3. completed'[i] = completed[i] /\ delivered'[i] = delivered[i] BY <2>2, <3>1
    <3> QED BY <3>2, <3>3
  <2> QED BY <2>3, <2>4 DEF Delivered
<1>10. ~error' /\ ~broken' BY <1>1
<1> QED BY <1>8, <1>9, <1>10 DEF ChunkInv

Carries(b, b2, h, ext, value, id, at, n) ==
  b2 = b \o ((<<h>> \o Chunks!ExtendedUnit(ext, value)) \o Chunks!Payload(id, at, n))

LEMMA ChunkLies ==
  ASSUME NEW b \in Seq(StreamUnit), NEW b2, NEW h \in StreamUnit, NEW ext \in BOOLEAN, NEW value \in Nat,
         NEW id \in Nat, NEW at \in Nat, NEW n \in Nat, Carries(b, b2, h, ext, value, id, at, n)
  PROVE  /\ b2 \in Seq(StreamUnit) /\ Extends(b, b2) /\ Len(b) < Len(b2) /\ b2[Len(b) + 1] = h
         /\ ext => b2[Len(b) + 2] = [unit |-> "extended", value |-> value]
         /\ Chunk(b2, Len(b), Len(b2), ext, id, at, n)
<1>1. PICK u : u = (<<h>> \o Chunks!ExtendedUnit(ext, value)) \o Chunks!Payload(id, at, n) OBVIOUS
<1>2. /\ u \in Seq(StreamUnit) /\ u[1] = h /\ (ext => u[2] = [unit |-> "extended", value |-> value])
      /\ Len(u) \in Nat /\ Len(u) > 0 /\ Chunk(u, 0, Len(u), ext, id, at, n)
  <2>1. Units(h, ext, value, id, at, n, u) BY <1>1 DEF Units
  <2> QED BY <2>1, UnitsAre
<1>3. Joined(b, u, b2) BY <1>1 DEF Carries, Joined
<1>4. /\ b2 \in Seq(StreamUnit) /\ Len(b2) = Len(b) + Len(u) /\ Extends(b, b2)
      /\ \A i \in 1 .. Len(u) : b2[Len(b) + i] = u[i]
  BY <1>2, <1>3, EmitIs
<1>5. Len(b) \in Nat /\ Len(b) < Len(b2) BY <1>2, <1>4 DEF Extends
<1>6. b2[Len(b) + 1] = h
  <2>1. 1 \in 1 .. Len(u) BY <1>2
  <2> QED BY <1>2, <1>4, <2>1
<1>7. ASSUME ext PROVE b2[Len(b) + 2] = [unit |-> "extended", value |-> value]
  <2>1. Len(u) >= 2 BY <1>2, <1>7 DEF Chunk
  <2>2. 2 \in 1 .. Len(u) BY <1>2, <2>1
  <2> QED BY <1>2, <1>4, <1>7, <2>2
<1>8. PICK k, l, e : k = Len(b) /\ l = Len(u) /\ e = Len(b2) OBVIOUS
<1>9. k \in Nat /\ l \in Nat /\ e \in Nat /\ l - 0 = e - k BY <1>2, <1>4, <1>5, <1>8
<1>10. \A i \in 1 .. l - 0 : b2[k + i] = u[0 + i] BY <1>4, <1>8, <1>9
<1>11. Chunk(u, 0, l, ext, id, at, n) BY <1>2, <1>8
<1>12. Chunk(b2, k, e, ext, id, at, n) BY <1>9, <1>10, <1>11, ChunkElsewhere
<1> QED BY <1>4, <1>5, <1>6, <1>7, <1>8, <1>12

LEMMA KnownIs == ASSUME NEW h \in Past \cup {Chunks!Unset} PROVE (Chunks!Known(h) <=> h \in Past) /\ Chunks!Unset \notin Past
BY DEF Chunks!Known, Chunks!Unset, Past

(* What a message being sent leaves behind.                                 *)
LEMMA SentSound ==
  ASSUME Sound(ServerNow, completed), NEW c \in Csids, outSize' \in Nat \ {0}, Len(completed') \in Nat,
         \A d \in Csids : d # c => out'[d] = out[d] /\ history'[d] = history[d],
         StreamSound(out'[c], history'[c])
  PROVE  Sound(ServerNow', completed')
<1>1. \A d \in Csids : StreamSound(out[d], history[d]) BY NowIs DEF Sound
<1>2. ASSUME NEW d \in Csids PROVE StreamSound(ServerNow'.out[d], ServerNow'.history[d])
  <2>1. StreamSound(out'[d], history'[d])
    <3>1. CASE d = c BY <3>1
    <3>2. CASE d # c BY <1>1, <3>2
    <3> QED BY <3>1, <3>2
  <2> QED BY <2>1, NowIs
<1>3. ServerNow'.outSize \in Nat \ {0} /\ ServerNow'.done \in Nat /\ ServerNow'.done <= Len(completed')
  BY NowIs
<1> QED BY <1>2, <1>3 DEF Sound

(* The server begins a message.                                             *)
LEMMA MessageBegun ==
  ASSUME Chunks!ChunkAssumption, ChunkInv, NEW c \in Csids, NEW length \in Lengths, NEW step \in Steps, NEW fmt \in 0 .. 3,
         Chunks!BeginMessage(c, length, step, fmt, Chunks!UnderWay(out, c))
  PROVE  ChunkInv'
<1>1. ChunkTypes /\ Sound(ServerNow, completed) BY DEF ChunkInv
<1>2. length \in Nat /\ step \in Nat /\ Extended \in Nat \ {0} BY DEF Chunks!ChunkAssumption
<1> DEFINE h0 == history[c]
<1>3. h0 \in Past \cup {Chunks!Unset} BY <1>1 DEF ChunkTypes
<1>4. (Chunks!Known(h0) <=> h0 \in Past) /\ Chunks!Unset \notin Past
  <2> HIDE DEF h0
  <2> QED BY <1>3, KnownIs
<1>5. PICK time : time = IF Chunks!Known(h0) THEN h0.time + step ELSE step OBVIOUS
<1>6. PICK value : value = IF fmt = 0 THEN time ELSE IF fmt = 3 THEN h0.value ELSE step OBVIOUS
<1>7. PICK ext : ext = IF fmt = 3 THEN h0.ext ELSE value >= Extended OBVIOUS
<1>8. PICK id : id = messages.all + 1 OBVIOUS
<1> DEFINE h == [unit |-> "header", csid |-> c, fmt |-> fmt, length |-> length, field |-> Chunks!Field(value)]
           q == [length |-> length, time |-> time, value |-> value, ext |-> ext,
                 delta |-> IF fmt = 0 THEN 0 ELSE step]
           head == <<h>> \o Chunks!ExtendedUnit(ext, value)
<1>9. /\ fmt \in Chunks!Formats(c, length, step) /\ (fmt = 3 => out[c] = {})
      /\ (out[c] = {} \/ \A m \in out[c] : m.dead)
      /\ Chunks!SendOf(c, id, 0, length, time, head, Chunks!UnderWay(out, c))
      /\ history' = [history EXCEPT ![c] = q] /\ messages' = [messages EXCEPT !.all = @ + 1]
      /\ UNCHANGED <<outSize, broken, Chunks!parserVars>>
  BY <1>5, <1>6, <1>7, <1>8 DEF Chunks!BeginMessage
<1>10. /\ fmt # 0 => h0 \in Past
       /\ fmt \in {2, 3} => length = h0.length
       /\ fmt = 3 => step = h0.delta
  BY <1>4, <1>9 DEF Chunks!Formats
<1>11. time \in Nat /\ time = step + (IF h0 \in Past THEN h0.time ELSE 0)
  <2>1. h0 \in Past => h0.time \in Nat BY DEF Past
  <2> HIDE DEF h0
  <2> QED BY <1>2, <1>4, <1>5, <2>1
<1>12. value \in Nat
  <2>1. h0 \in Past => h0.value \in Nat BY DEF Past
  <2> HIDE DEF h0
  <2> QED BY <1>2, <1>6, <1>10, <1>11, <2>1
<1>13. ext \in BOOLEAN
  <2>1. h0 \in Past => h0.ext \in BOOLEAN BY DEF Past
  <2> HIDE DEF h0
  <2>2. CASE fmt = 3 BY <1>7, <1>10, <2>1, <2>2
  <2>3. CASE fmt # 3
    <3>1. ext = (value >= Extended) BY <1>7, <2>3
    <3>2. (value >= Extended) \in BOOLEAN OBVIOUS
    <3> QED BY <3>1, <3>2, Zenon
  <2> QED BY <2>2, <2>3
<1>14. id \in Nat /\ messages' \in [all : Nat, control : Nat]
  <2>1. messages \in [all : Nat, control : Nat] BY <1>1 DEF ChunkTypes
  <2>2. messages.all \in Nat BY <2>1
  <2> HIDE DEF q, head, h0
  <2>3. messages' \in [all : Nat, control : Nat] BY <1>9, <2>1, <2>2
  <2> QED BY <1>8, <2>2, <2>3
<1>15. q \in Past
  <2>1. (IF fmt = 0 THEN 0 ELSE step) \in Nat BY <1>2
  <2> QED BY <1>2, <1>11, <1>12, <1>13, <2>1 DEF Past
<1>16. Chunks!Field(value) = Lesser(value, Extended) /\ Chunks!Field(value) \in Nat
  <2>1. Chunks!Field(value) = Lesser(value, Extended) BY <1>2, <1>12, LesserIs DEF Chunks!Field
  <2> QED BY <1>2, <1>12, <2>1 DEF Lesser
<1>17. h \in HeaderUnit BY <1>2, <1>16 DEF HeaderUnit
<1>18. h \in StreamUnit BY <1>17 DEF StreamUnit
<1> HIDE DEF h
<1>19. PICK n \in Nat :
         /\ n = Lesser(outSize, length - 0) /\ 0 + n <= length /\ (0 < length => n > 0)
         /\ ~broken /\ ~error /\ buffer' = buffer \o (head \o Chunks!Payload(id, 0, n))
         /\ SentPart(ServerNow, ServerNow', completed', c, id, 0, length, time, n)
         /\ out' \in [Csids -> SUBSET Sending] /\ \A d \in Csids : d # c => out'[d] = out[d]
         /\ completed' \in Seq(Message) /\ Extends(completed, completed') /\ excess' \in BOOLEAN
         /\ out'[c] = {} \/ (/\ 0 + n < length
                             /\ out'[c] = {[id |-> id, at |-> 0 + n, length |-> length, time |-> time, dead |-> FALSE]})
  <2>1. PICK hd : hd = head OBVIOUS
  <2>2. Chunks!SendOf(c, id, 0, length, time, hd, Chunks!UnderWay(out, c)) BY <1>9, <2>1
  <2>3. 0 \in Nat /\ 0 <= length BY <1>2
  <2> HIDE DEF head, h0, q
  <2>4. PICK n \in Nat : Sends(c, id, 0, length, time, hd, n)
    BY <1>1, <1>2, <1>11, <1>14, <2>2, <2>3, SentIs
  <2> QED BY <2>1, <2>4 DEF Sends
<1>20. PICK b, b2 : b = buffer /\ b2 = buffer' OBVIOUS
<1>21. b \in Seq(StreamUnit) BY <1>1, <1>20 DEF ChunkTypes
<1>22. Carries(b, b2, h, ext, value, id, 0, n) BY <1>19, <1>20 DEF Carries
<1>23. /\ b2 \in Seq(StreamUnit) /\ Extends(b, b2) /\ Len(b) < Len(b2) /\ b2[Len(b) + 1] = h
       /\ ext => b2[Len(b) + 2] = [unit |-> "extended", value |-> value]
       /\ Chunk(b2, Len(b), Len(b2), ext, id, 0, n)
  <2> HIDE DEF head, h0, q
  <2>1. PICK x, e, v, i : x = h /\ e = ext /\ v = value /\ i = id OBVIOUS
  <2>2. x \in StreamUnit BY <1>18, <2>1
  <2>3. e \in BOOLEAN BY <1>13, <2>1, Zenon
  <2>4. v \in Nat BY <1>12, <2>1
  <2>5. i \in Nat /\ 0 \in Nat BY <1>14, <2>1
  <2>6. Carries(b, b2, x, e, v, i, 0, n) BY <1>22, <2>1
  <2>7. /\ b2 \in Seq(StreamUnit) /\ Extends(b, b2) /\ Len(b) < Len(b2) /\ b2[Len(b) + 1] = x
        /\ e => b2[Len(b) + 2] = [unit |-> "extended", value |-> v]
        /\ Chunk(b2, Len(b), Len(b2), e, i, 0, n)
    BY <1>21, <2>2, <2>3, <2>4, <2>5, <2>6, ChunkLies
  <2> QED BY <2>1, <2>7
<1>24. history' \in [Csids -> Past \cup {Chunks!Unset}] /\ history'[c] = q /\ \A d \in Csids : d # c => history'[d] = history[d]
  <2>1. history \in [Csids -> Past \cup {Chunks!Unset}] BY <1>1 DEF ChunkTypes
  <2> HIDE DEF q
  <2> QED BY <1>9, <1>15, <2>1
<1>25. ChunkTypes'
  <2>1. outSize' \in Nat \ {0} /\ broken' \in BOOLEAN /\ buffer' \in Seq(StreamUnit)
    BY <1>1, <1>9, <1>20, <1>23 DEF ChunkTypes
  <2>2. UNCHANGED <<inSize, headers, assembly, aborted, delivered, error>>
    BY <1>9 DEF Chunks!parserVars
  <2> QED BY <1>1, <1>14, <1>19, <1>24, <2>1, <2>2 DEF ChunkTypes
<1>26. q.length = length /\ q.time = time /\ q.value = value /\ q.ext = ext /\ q.delta = IF fmt = 0 THEN 0 ELSE step
  OBVIOUS
<1> HIDE DEF q
<1>27. StreamSound(out'[c], history'[c])
  <2>1. CASE out'[c] = {} BY <1>15, <1>24, <2>1 DEF StreamSound
  <2>2. CASE /\ 0 + n < length
             /\ out'[c] = {[id |-> id, at |-> 0 + n, length |-> length, time |-> time, dead |-> FALSE]}
    <3>1. PICK m : m = [id |-> id, at |-> 0 + n, length |-> length, time |-> time, dead |-> FALSE] OBVIOUS
    <3>2. m.at = 0 + n /\ m.length = length /\ m.time = time BY <3>1
    <3>3. m \in Sending
      <4>1. out'[c] \in SUBSET Sending BY <1>19
      <4> QED BY <2>2, <3>1, <4>1
    <3>4. out'[c] = {m} BY <2>2, <3>1
    <3> QED BY <1>15, <1>24, <1>26, <2>2, <3>2, <3>3, <3>4 DEF StreamSound
  <2> QED BY <1>19, <2>1, <2>2
<1>28. Sound(ServerNow', completed')
  <2>1. outSize' \in Nat \ {0} /\ Len(completed') \in Nat BY <1>19, <1>25 DEF ChunkTypes, Extends
  <2> QED BY <1>1, <1>19, <1>24, <1>27, <2>1, SentSound
<1>29. Linked(ServerNow, ServerNow', buffer', completed', Len(buffer), Len(buffer'))
  <2>1. PICK w, v, z, k, j : w = ServerNow /\ v = ServerNow' /\ z = completed' /\ k = Len(buffer) /\ j = Len(buffer') OBVIOUS
  <2>2. \A m \in w.out[c] : m.dead BY <1>9, <2>1, NowIs
  <2>3. fmt = 3 => w.out[c] = {} BY <1>9, <2>1, NowIs
  <2>4. w.history[c] = h0 /\ v.history[c] = q BY <1>24, <2>1, NowIs
  <2>5. Opens(b2[k + 1], b2[k + 2], h0, q, c, fmt, length, step)
    <3>1. h.csid = c /\ h.fmt = fmt /\ h.length = length /\ h.field = Lesser(value, Extended)
      BY <1>16 DEF h
    <3>2. b2[k + 1] = h /\ (ext => b2[k + 2] = [unit |-> "extended", value |-> value])
      BY <1>20, <1>23, <2>1
    <3>3. h0 = Chunks!Unset => fmt = 0 BY <1>4, <1>10
    <3>4. fmt = 3 => ext = h0.ext BY <1>7
    <3>5. fmt # 3 => ext = (value >= Extended) /\ value = IF fmt = 0 THEN time ELSE step
      BY <1>6, <1>7
    <3> HIDE DEF h0
    <3> QED BY <1>10, <1>11, <1>15, <1>17, <1>26, <3>1, <3>2, <3>3, <3>4, <3>5 DEF Opens
  <2>6. n = Lesser(w.outSize, length) BY <1>2, <1>19, <2>1, NowIs
  <2>7. Chunk(b2, k, j, q.ext, id, 0, n) BY <1>20, <1>23, <1>26, <2>1
  <2>8. SentPart(w, v, z, c, id, 0, length, q.time, n) BY <1>19, <1>26, <2>1
  <2>9. v.outSize = w.outSize /\ Apart(w, v, c) BY <1>9, <1>19, <1>24, <2>1, NowIs DEF Apart
  <2> HIDE DEF h0
  <2>10. Begins(w, v, b2, z, k, j)
    BY <1>2, <1>14, <2>2, <2>3, <2>4, <2>5, <2>6, <2>7, <2>8, <2>9 DEF Begins
  <2> QED BY <1>20, <2>1, <2>10 DEF Linked
<1>30. UNCHANGED <<inSize, headers, assembly, aborted, delivered, error>>
  BY <1>9 DEF Chunks!parserVars
<1> HIDE DEF h0, head
<1>31. Extends(buffer, buffer') /\ Len(buffer) < Len(buffer') /\ broken' = broken
  BY <1>9, <1>20, <1>23
<1> QED BY <1>19, <1>25, <1>28, <1>29, <1>30, <1>31, ServerGrows

(* The server goes on with a message, an aborted one included.              *)
LEMMA MessageContinued ==
  ASSUME ChunkInv, NEW c \in Csids, Chunks!ContinueMessage(c, Chunks!UnderWay(out, c))
  PROVE  ChunkInv'
<1>1. ChunkTypes /\ Sound(ServerNow, completed) BY DEF ChunkInv
<1> DEFINE h == [unit |-> "header", csid |-> c, fmt |-> 3, length |-> 0, field |-> 0]
           head == <<h>> \o Chunks!ExtendedUnit(history[c].ext, history[c].value)
<1>2. PICK m \in out[c] :
        IF m.dead
        THEN /\ Chunks!Emit(head \o Chunks!Payload(m.id, m.at, Chunks!Min({outSize, m.length - m.at})))
             /\ out' = [out EXCEPT ![c] =
                  IF m.at + Chunks!Min({outSize, m.length - m.at}) < m.length
                  THEN {[m EXCEPT !.at = @ + Chunks!Min({outSize, m.length - m.at})]} ELSE {}]
             /\ UNCHANGED <<completed, excess>>
        ELSE Chunks!SendOf(c, m.id, m.at, m.length, m.time, head, Chunks!UnderWay(out, c))
  BY DEF Chunks!ContinueMessage
<1>3. UNCHANGED <<history, outSize, messages, broken, Chunks!parserVars>>
  BY DEF Chunks!ContinueMessage
<1>4. StreamSound(out[c], history[c]) BY <1>1, NowIs DEF Sound
<1>5. m \in Sending /\ history[c] \in Past /\ m.at < m.length /\ out[c] = {m}
  BY <1>4 DEF StreamSound
<1>6. m.id \in Nat /\ m.at \in Nat /\ m.length \in Nat /\ m.time \in Nat /\ m.dead \in BOOLEAN
  BY <1>5 DEF Sending
<1>7. PICK ext, value : ext = history[c].ext /\ value = history[c].value OBVIOUS
<1>8. ext \in BOOLEAN /\ value \in Nat
  <2>1. ext \in BOOLEAN
    <3>1. history[c].ext \in BOOLEAN BY <1>5 DEF Past
    <3> QED BY <1>7, <3>1, Zenon
  <2>2. value \in Nat BY <1>5, <1>7 DEF Past
  <2> QED BY <2>1, <2>2
<1>9. outSize \in Nat \ {0} /\ buffer \in Seq(StreamUnit) /\ completed \in Seq(Message) /\ out \in [Csids -> SUBSET Sending]
  BY <1>1 DEF ChunkTypes
<1>10. h \in StreamUnit
  <2>1. h \in HeaderUnit BY DEF HeaderUnit
  <2> QED BY <2>1 DEF StreamUnit
<1>11. PICK id, at, length, time : id = m.id /\ at = m.at /\ length = m.length /\ time = m.time OBVIOUS
<1>12. id \in Nat /\ at \in Nat /\ length \in Nat /\ time \in Nat /\ at < length /\ length - at \in Nat
  <2>1. at \in Nat /\ length \in Nat /\ at < length BY <1>5, <1>6, <1>11
  <2> QED BY <1>6, <1>11, <2>1
<1>13. PICK n : n = Lesser(outSize, length - at) OBVIOUS
<1>14. n \in Nat /\ n > 0 /\ at + n <= length
  <2>1. n = IF outSize <= length - at THEN outSize ELSE length - at BY <1>13 DEF Lesser
  <2>2. CASE outSize <= length - at BY <1>9, <1>12, <2>1, <2>2
  <2>3. CASE ~(outSize <= length - at) BY <1>9, <1>12, <2>1, <2>3
  <2> QED BY <2>2, <2>3
<1>15. Chunks!Min({outSize, length - at}) = n BY <1>9, <1>12, <1>13, LesserIs
<1>16. history' = history /\ outSize' = outSize /\ messages' = messages /\ broken' = broken
       /\ UNCHANGED <<inSize, headers, assembly, aborted, delivered, error>>
  BY <1>3 DEF Chunks!parserVars
<1>17. /\ ~broken /\ ~error /\ excess' \in BOOLEAN /\ buffer' = buffer \o (head \o Chunks!Payload(id, at, n))
       /\ out' \in [Csids -> SUBSET Sending] /\ \A d \in Csids : d # c => out'[d] = out[d]
       /\ completed' \in Seq(Message) /\ Extends(completed, completed')
       /\ ~m.dead => SentPart(ServerNow, ServerNow', completed', c, id, at, length, time, n)
       /\ m.dead => /\ completed' = completed /\ excess' = excess
                    /\ out'[c] = IF at + n < length THEN {[m EXCEPT !.at = @ + n]} ELSE {}
       /\ StreamSound(out'[c], history[c])
  <2>1. CASE m.dead
    <3>1. /\ Chunks!Emit(head \o Chunks!Payload(id, at, n))
          /\ out' = [out EXCEPT ![c] = IF at + n < length THEN {[m EXCEPT !.at = @ + n]} ELSE {}]
          /\ completed' = completed /\ excess' = excess
      BY <1>2, <1>11, <1>15, <2>1
    <3>2. PICK m2 : m2 = [m EXCEPT !.at = @ + n] OBVIOUS
    <3>3. m2 \in Sending /\ m2.at = at + n /\ m2.length = length
      <4>1. at + n \in Nat BY <1>12, <1>14
      <4> QED BY <1>5, <1>11, <3>2, <4>1 DEF Sending
    <3>9. m2.dead = TRUE
      <4>1. m2.dead = m.dead BY <1>5, <3>2 DEF Sending
      <4>2. m.dead = TRUE BY <1>6, <2>1, Zenon
      <4> QED BY <4>1, <4>2, Zenon
    <3>4. PICK o : o = IF at + n < length THEN {m2} ELSE {} OBVIOUS
    <3>5. out' = [out EXCEPT ![c] = o] /\ o \subseteq Sending
      <4>1. out' = [out EXCEPT ![c] = IF at + n < length THEN {m2} ELSE {}] BY <3>1, <3>2
      <4>2. o \subseteq Sending BY <3>3, <3>4
      <4> HIDE DEF head
      <4> QED BY <3>4, <4>1, <4>2
    <3>6. out' \in [Csids -> SUBSET Sending] /\ out'[c] = o /\ \A d \in Csids : d # c => out'[d] = out[d]
      BY <1>9, <3>5
    <3>7. StreamSound(o, history[c])
      <4>1. \A x \in o : x = m2 /\ at + n < length BY <3>4
      <4> QED BY <1>5, <3>3, <3>5, <3>9, <4>1 DEF StreamSound
    <3>8. Extends(completed, completed') BY <1>9, <3>1 DEF Extends
    <3>10. ~broken /\ ~error /\ buffer' = buffer \o (head \o Chunks!Payload(id, at, n))
      BY <3>1 DEF Chunks!Emit
    <3>11. excess' \in BOOLEAN BY <1>1, <3>1 DEF ChunkTypes
    <3> HIDE DEF head
    <3> QED BY <1>9, <2>1, <3>1, <3>2, <3>4, <3>6, <3>7, <3>8, <3>10, <3>11
  <2>2. CASE ~m.dead
    <3>1. PICK hd : hd = head OBVIOUS
    <3>2. Chunks!SendOf(c, id, at, length, time, hd, Chunks!UnderWay(out, c)) BY <1>2, <1>11, <2>2, <3>1
    <3>3. at <= length BY <1>12
    <3> HIDE DEF head, h
    <3>4. PICK n2 \in Nat : Sends(c, id, at, length, time, hd, n2)
      BY <1>1, <1>12, <3>2, <3>3, SentIs
    <3>5. n2 = n BY <1>13, <3>4 DEF Sends
    <3>6. Sends(c, id, at, length, time, hd, n) BY <3>4, <3>5
    <3>7. StreamSound(out'[c], history[c])
      <4>1. CASE out'[c] = {} BY <1>5, <4>1 DEF StreamSound
      <4>2. CASE /\ at + n < length
                 /\ out'[c] = {[id |-> id, at |-> at + n, length |-> length, time |-> time, dead |-> FALSE]}
        <5>1. PICK x : x = [id |-> id, at |-> at + n, length |-> length, time |-> time, dead |-> FALSE] OBVIOUS
        <5>2. x.at = at + n /\ x.length = length /\ x.time = time BY <5>1
        <5>3. out'[c] = {x} BY <4>2, <5>1
        <5>4. x \in Sending
          <6>1. out'[c] \in SUBSET Sending BY <3>6 DEF Sends
          <6> QED BY <5>3, <6>1
        <5>5. time = history[c].time /\ length = history[c].length
          BY <1>4, <1>11, <2>2 DEF StreamSound
        <5> QED BY <1>5, <4>2, <5>2, <5>3, <5>4, <5>5 DEF StreamSound
      <4> QED BY <3>6, <4>1, <4>2 DEF Sends
    <3> QED BY <2>2, <3>1, <3>6, <3>7 DEF Sends
  <2> QED BY <2>1, <2>2
<1>20. PICK b, b2 : b = buffer /\ b2 = buffer' OBVIOUS
<1>22. Carries(b, b2, h, ext, value, id, at, n) BY <1>7, <1>17, <1>20 DEF Carries
<1>23. /\ b2 \in Seq(StreamUnit) /\ Extends(b, b2) /\ Len(b) < Len(b2) /\ b2[Len(b) + 1] = h
       /\ Chunk(b2, Len(b), Len(b2), ext, id, at, n)
  <2>1. b \in Seq(StreamUnit) BY <1>9, <1>20
  <2>2. id \in Nat /\ at \in Nat /\ n \in Nat BY <1>12, <1>14
  <2>3. PICK x : x = h OBVIOUS
  <2>4. x \in StreamUnit /\ Carries(b, b2, x, ext, value, id, at, n) BY <1>10, <1>22, <2>3
  <2> HIDE DEF head, h
  <2>5. /\ b2 \in Seq(StreamUnit) /\ Extends(b, b2) /\ Len(b) < Len(b2) /\ b2[Len(b) + 1] = x
        /\ ext => b2[Len(b) + 2] = [unit |-> "extended", value |-> value]
        /\ Chunk(b2, Len(b), Len(b2), ext, id, at, n)
    BY <1>8, <2>1, <2>2, <2>4, ChunkLies
  <2> QED BY <2>3, <2>5
<1>25. ChunkTypes'
  <2>1. buffer' \in Seq(StreamUnit) BY <1>20, <1>23
  <2> HIDE DEF head, h
  <2> QED BY <1>1, <1>16, <1>17, <2>1 DEF ChunkTypes
<1>28. Sound(ServerNow', completed')
  <2>1. outSize' \in Nat \ {0} /\ Len(completed') \in Nat BY <1>9, <1>16, <1>17 DEF Extends
  <2>2. \A d \in Csids : d # c => out'[d] = out[d] /\ history'[d] = history[d] BY <1>16, <1>17
  <2>3. StreamSound(out'[c], history'[c]) BY <1>16, <1>17
  <2> QED BY <1>1, <2>1, <2>2, <2>3, SentSound
<1>29. Linked(ServerNow, ServerNow', buffer', completed', Len(buffer), Len(buffer'))
  <2>1. PICK w, v, z, k, j : w = ServerNow /\ v = ServerNow' /\ z = completed' /\ k = Len(buffer) /\ j = Len(buffer') OBVIOUS
  <2>2. m \in w.out[c] /\ v.outSize = w.outSize /\ v.history[c] = w.history[c] BY <1>16, <2>1, NowIs
  <2>3. b2[k + 1] = [unit |-> "header", csid |-> c, fmt |-> 3, length |-> 0, field |-> 0]
    BY <1>20, <1>23, <2>1
  <2>4. n = Lesser(w.outSize, m.length - m.at) BY <1>11, <1>13, <2>1, NowIs
  <2>5. w.history[c].ext = ext BY <1>7, <2>1, NowIs
  <2>6. Chunk(b2, k, j, w.history[c].ext, m.id, m.at, n) BY <1>11, <1>20, <1>23, <2>1, <2>5
  <2>7. ~m.dead => SentPart(w, v, z, c, m.id, m.at, m.length, m.time, n) BY <1>11, <1>17, <2>1
  <2>8. m.dead => v.done = w.done /\ v.excess = w.excess BY <1>17, <2>1, NowIs
  <2>9. m.dead => v.out[c] = IF m.at + n < m.length THEN {[m EXCEPT !.at = @ + n]} ELSE {}
    BY <1>11, <1>17, <2>1, NowIs
  <2>10. Apart(w, v, c) BY <1>16, <1>17, <2>1, NowIs DEF Apart
  <2>11. Continues(w, v, b2, z, k, j)
    BY <1>14, <2>2, <2>3, <2>4, <2>6, <2>7, <2>8, <2>9, <2>10 DEF Continues
  <2> QED BY <1>20, <2>1, <2>11 DEF Linked
<1> HIDE DEF head, h
<1>31. Extends(buffer, buffer') /\ Len(buffer) < Len(buffer') BY <1>20, <1>23
<1> QED BY <1>16, <1>17, <1>25, <1>28, <1>29, <1>31, ServerGrows

LEMMA UnitSent ==
  ASSUME ChunkTypes, NEW u \in StreamUnit, Chunks!Emit(<<u>>)
  PROVE  /\ ~broken /\ ~error /\ buffer' \in Seq(StreamUnit) /\ Extends(buffer, buffer') /\ Len(buffer') = Len(buffer) + 1
         /\ buffer'[Len(buffer) + 1] = u
<1>1. buffer \in Seq(StreamUnit) BY DEF ChunkTypes
<1>2. PICK x, b, b2 : x = <<u>> /\ b = buffer /\ b2 = buffer' OBVIOUS
<1>3. x \in Seq(StreamUnit) /\ Len(x) = 1 /\ x[1] = u BY <1>2
<1>4. Joined(b, x, b2) BY <1>2 DEF Chunks!Emit, Joined
<1>5. /\ b2 \in Seq(StreamUnit) /\ Len(b2) = Len(b) + Len(x) /\ Extends(b, b2)
      /\ \A i \in 1 .. Len(x) : b2[Len(b) + i] = x[i]
  <2>1. b \in Seq(StreamUnit) BY <1>1, <1>2
  <2>2. x \in Seq(StreamUnit) BY <1>3
  <2> QED BY <1>4, <2>1, <2>2, EmitIs
<1>6. b2[Len(b) + 1] = u
  <2>1. 1 \in 1 .. Len(x) BY <1>3
  <2> QED BY <1>3, <1>5, <2>1
<1>7. ~broken /\ ~error BY DEF Chunks!Emit
<1> QED BY <1>2, <1>3, <1>5, <1>6, <1>7

LEMMA SizeSent ==
  ASSUME Chunks!ChunkAssumption, ChunkInv, NEW n \in ChunkSizes, Chunks!SendChunkSize(n)
  PROVE  ChunkInv'
<1>1. ChunkTypes /\ Sound(ServerNow, completed) BY DEF ChunkInv
<1>2. n \in Nat \ {0} BY DEF Chunks!ChunkAssumption
<1>3. PICK u : u = [unit |-> "size", value |-> n] OBVIOUS
<1>4. u \in StreamUnit BY <1>2, <1>3 DEF StreamUnit
<1>5. Chunks!Emit(<<u>>) BY <1>3 DEF Chunks!SendChunkSize
<1>6. /\ ~broken /\ ~error /\ buffer' \in Seq(StreamUnit) /\ Extends(buffer, buffer') /\ Len(buffer') = Len(buffer) + 1
      /\ buffer'[Len(buffer) + 1] = u
  BY <1>1, <1>4, <1>5, UnitSent
<1>7. /\ outSize' = n /\ messages' = [messages EXCEPT !.control = @ + 1]
      /\ UNCHANGED <<out, history, completed, broken, excess, inSize, headers, assembly, aborted, delivered, error>>
  BY DEF Chunks!SendChunkSize, Chunks!parserVars
<1>8. messages' \in [all : Nat, control : Nat]
  <2>1. messages \in [all : Nat, control : Nat] BY <1>1 DEF ChunkTypes
  <2>2. messages.control \in Nat BY <2>1
  <2> QED BY <1>7, <2>1, <2>2
<1>9. ChunkTypes' BY <1>1, <1>2, <1>6, <1>7, <1>8 DEF ChunkTypes
<1>10. Extends(completed, completed') BY <1>1, <1>7, LenProperties DEF ChunkTypes, Extends
<1>11. Sound(ServerNow', completed')
  <2>1. Len(completed') \in Nat BY <1>10 DEF Extends
  <2>2. ServerNow'.done \in Nat /\ ServerNow'.done <= Len(completed') /\ ServerNow'.outSize \in Nat \ {0}
    BY <1>2, <1>7, <2>1, NowIs
  <2>3. \A d \in Csids : StreamSound(out[d], history[d]) BY <1>1, NowIs DEF Sound
  <2>4. \A d \in Csids : StreamSound(ServerNow'.out[d], ServerNow'.history[d]) BY <1>7, <2>3, NowIs
  <2> QED BY <2>2, <2>4 DEF Sound
<1>12. Linked(ServerNow, ServerNow', buffer', completed', Len(buffer), Len(buffer'))
  <2>1. PICK w, v, z, k, j, b2 : w = ServerNow /\ v = ServerNow' /\ z = completed' /\ k = Len(buffer) /\ j = Len(buffer') /\ b2 = buffer'
    OBVIOUS
  <2>2. b2[k + 1] = [unit |-> "size", value |-> v.outSize] /\ j = k + 1
    BY <1>3, <1>6, <1>7, <2>1, NowIs
  <2>3. v.done = w.done /\ v.excess = w.excess /\ v.out = w.out /\ v.history = w.history BY <1>7, <2>1, NowIs
  <2>4. Resizes(w, v, b2, k, j) BY <2>2, <2>3 DEF Resizes
  <2> QED BY <2>1, <2>4 DEF Linked
<1>13. Len(buffer) < Len(buffer') BY <1>6 DEF Extends
<1> QED BY <1>6, <1>7, <1>9, <1>10, <1>11, <1>12, <1>13, ServerGrows

LEMMA AbortSent ==
  ASSUME ChunkInv, NEW c \in Csids, Chunks!SendAbort(c)
  PROVE  ChunkInv'
<1>1. ChunkTypes /\ Sound(ServerNow, completed) BY DEF ChunkInv
<1>2. PICK m \in out[c] : ~m.dead /\ out' = [out EXCEPT ![c] = {[m EXCEPT !.dead = TRUE]}]
  BY DEF Chunks!SendAbort
<1>3. PICK u : u = [unit |-> "abort", csid |-> c] OBVIOUS
<1>4. u \in StreamUnit BY <1>3 DEF StreamUnit
<1>5. Chunks!Emit(<<u>>) BY <1>3 DEF Chunks!SendAbort
<1>6. /\ ~broken /\ ~error /\ buffer' \in Seq(StreamUnit) /\ Extends(buffer, buffer') /\ Len(buffer') = Len(buffer) + 1
      /\ buffer'[Len(buffer) + 1] = u
  BY <1>1, <1>4, <1>5, UnitSent
<1>7. /\ messages' = [messages EXCEPT !.control = @ + 1]
      /\ UNCHANGED <<history, outSize, completed, broken, excess, inSize, headers, assembly, aborted, delivered, error>>
  BY DEF Chunks!SendAbort, Chunks!parserVars
<1>8. messages' \in [all : Nat, control : Nat]
  <2>1. messages \in [all : Nat, control : Nat] BY <1>1 DEF ChunkTypes
  <2>2. messages.control \in Nat BY <2>1
  <2> QED BY <1>7, <2>1, <2>2
<1>14. StreamSound(out[c], history[c]) BY <1>1, NowIs DEF Sound
<1>15. PICK m2 : m2 = [m EXCEPT !.dead = TRUE] OBVIOUS
<1>16. m \in Sending /\ history[c] \in Past /\ m.at < m.length BY <1>14 DEF StreamSound
<1>17. m2 \in Sending /\ m2.at = m.at /\ m2.length = m.length /\ m2.dead = TRUE
  BY <1>15, <1>16 DEF Sending
<1>18. out \in [Csids -> SUBSET Sending] BY <1>1 DEF ChunkTypes
<1>19. out' \in [Csids -> SUBSET Sending] /\ out'[c] = {m2} /\ \A d \in Csids : d # c => out'[d] = out[d]
  <2>1. out' = [out EXCEPT ![c] = {m2}] BY <1>2, <1>15
  <2> QED BY <1>17, <1>18, <2>1
<1>20. StreamSound(out'[c], history'[c])
  <2>1. history'[c] = history[c] BY <1>7
  <2> QED BY <1>16, <1>17, <1>19, <2>1 DEF StreamSound
<1>9. ChunkTypes' BY <1>1, <1>6, <1>7, <1>8, <1>19 DEF ChunkTypes
<1>10. Extends(completed, completed') BY <1>1, <1>7, LenProperties DEF ChunkTypes, Extends
<1>11. Sound(ServerNow', completed')
  <2>1. outSize' \in Nat \ {0} /\ Len(completed') \in Nat BY <1>9, <1>10 DEF ChunkTypes, Extends
  <2> QED BY <1>1, <1>7, <1>19, <1>20, <2>1, SentSound
<1>12. Linked(ServerNow, ServerNow', buffer', completed', Len(buffer), Len(buffer'))
  <2>1. PICK w, v, z, k, j, b2 : w = ServerNow /\ v = ServerNow' /\ z = completed' /\ k = Len(buffer) /\ j = Len(buffer') /\ b2 = buffer'
    OBVIOUS
  <2>2. b2[k + 1] = [unit |-> "abort", csid |-> c] /\ j = k + 1 BY <1>3, <1>6, <2>1
  <2>3. m \in w.out[c] /\ v.out[c] = {[m EXCEPT !.dead = TRUE]} BY <1>15, <1>19, <2>1, NowIs
  <2>5. v.done = w.done /\ v.excess = w.excess /\ v.outSize = w.outSize /\ v.history = w.history BY <1>7, <2>1, NowIs
  <2>6. Apart(w, v, c) BY <1>19, <2>1, <2>5, NowIs DEF Apart
  <2>4. Aborts(w, v, b2, k, j) BY <1>2, <2>2, <2>3, <2>5, <2>6 DEF Aborts
  <2> QED BY <2>1, <2>4 DEF Linked
<1>13. Len(buffer) < Len(buffer') BY <1>6 DEF Extends
<1> QED BY <1>6, <1>7, <1>9, <1>10, <1>11, <1>12, <1>13, ServerGrows

LEMMA ProtocolBroken ==
  ASSUME ChunkInv, NEW c \in Csids, Chunks!BreakProtocol(c)
  PROVE  ChunkInv'
<1>1. PICK fmt \in {0, 1} :
        /\ IF fmt = 0 THEN \E m \in out[c] : ~m.dead ELSE ~Chunks!Known(history[c])
        /\ Chunks!Emit(<<[unit |-> "header", csid |-> c, fmt |-> fmt, length |-> 1, field |-> 0]>>)
  BY DEF Chunks!BreakProtocol
<1>2. PICK u : u = [unit |-> "header", csid |-> c, fmt |-> fmt, length |-> 1, field |-> 0] OBVIOUS
<1>3. u \in HeaderUnit /\ u.csid = c /\ u.fmt = fmt BY <1>2 DEF HeaderUnit
<1>4. u \in StreamUnit BY <1>3 DEF StreamUnit
<1>5. ChunkTypes BY DEF ChunkInv
<1>6. /\ ~broken /\ ~error /\ buffer' \in Seq(StreamUnit) /\ Extends(buffer, buffer') /\ Len(buffer') = Len(buffer) + 1
      /\ buffer'[Len(buffer) + 1] = u
  <2>1. Chunks!Emit(<<u>>) BY <1>1, <1>2
  <2> QED BY <1>4, <1>5, <2>1, UnitSent
<1>7. /\ broken' = TRUE
      /\ UNCHANGED <<out, history, outSize, messages, completed, excess, inSize, headers, assembly, aborted, delivered, error>>
  BY DEF Chunks!BreakProtocol, Chunks!parserVars
<1>8. Delivered /\ Sound(ServerNow, completed) /\ ~error /\ InStep(Len(buffer)) BY <1>6 DEF ChunkInv
<1>9. ServerNow' = ServerNow BY <1>7 DEF ServerNow
<1>10. ChunkTypes' BY <1>5, <1>6, <1>7 DEF ChunkTypes
<1>11. Delivered' BY <1>7, <1>8 DEF Delivered
<1>12. PICK W : Bounds(W, buffer, completed, Len(buffer)) /\ W[Len(buffer)] = ServerNow /\ Matched(W[0])
  BY <1>8 DEF InStep
<1>13. PICK e, b, b2, z : e = Len(buffer) /\ b = buffer /\ b2 = buffer' /\ z = completed OBVIOUS
<1>14. e \in Nat /\ Len(z) \in Nat /\ \A i \in 1 .. e : b2[i] = b[i]
  BY <1>5, <1>6, <1>13, LenProperties DEF Extends, ChunkTypes
<1>15. PICK X : X = [k \in DOMAIN X |-> X[k]] /\ Bounds(X, b2, z, e) /\ X[0] = W[0] /\ X[e] = W[e]
  <2>1. Bounds(W, b, z, e) BY <1>12, <1>13
  <2>2. 0 \in DOMAIN W /\ e = e - 0 BY <1>14, <2>1 DEF Bounds
  <2>3. \A i \in 1 .. e - 0 : b2[i] = b[0 + i] BY <1>14
  <2>4. PICK o : o = 0 OBVIOUS
  <2>5. o \in DOMAIN W /\ e = e - o /\ \A i \in 1 .. e - o : b2[i] = b[o + i] BY <2>2, <2>3, <2>4
  <2>6. MovesTo(W, o, e, b2, z, e)
    <3>1. e \in Nat /\ Len(z) \in Nat BY <1>14
    <3> QED BY <2>1, <2>5, <3>1, BoundaryReached
  <2> QED BY <2>4, <2>6 DEF MovesTo
<1>16. InStep(Len(buffer) - 1)'
  <2>1. Len(buffer') - 1 = e BY <1>6, <1>13, <1>14
  <2>2. Matched(X[0])' BY <1>7, <1>12, <1>15 DEF Matched
  <2>3. Bounds(X, buffer', completed', Len(buffer') - 1) /\ X[Len(buffer') - 1] = ServerNow'
    BY <1>7, <1>9, <1>12, <1>13, <1>15, <2>1
  <2> QED BY <1>15, <2>2, <2>3 DEF InStep
<1>17. Illegal(ServerNow, buffer[Len(buffer)])'
  <2>1. Illegal(ServerNow', u)
    <3>1. ServerNow'.out[c] = out[c] /\ ServerNow'.history[c] = history[c] BY <1>7, NowIs
    <3>2. history[c] \in Past \cup {Chunks!Unset} BY <1>5 DEF ChunkTypes
    <3>3. ~Chunks!Known(history[c]) => history[c] = Chunks!Unset BY <3>2, KnownIs
    <3>4. CASE fmt = 0 BY <1>1, <1>3, <3>1, <3>4 DEF Illegal
    <3>5. CASE fmt = 1 BY <1>1, <1>3, <3>1, <3>3, <3>5 DEF Illegal
    <3> QED BY <3>4, <3>5
  <2>2. buffer'[Len(buffer')] = u BY <1>6
  <2> QED BY <2>1, <2>2
<1>18. buffer' # <<>>
  <2>1. Len(buffer') > 0 BY <1>6, <1>13, <1>14
  <2> QED BY <2>1
<1>19. Sound(ServerNow, completed)' BY <1>7, <1>8, <1>9
<1>20. ~error' /\ broken' BY <1>7, <1>8
<1> QED BY <1>10, <1>11, <1>16, <1>17, <1>18, <1>19, <1>20 DEF ChunkInv

-----------------------------------------------------------------------------
(* The parser has the chunk between the boundaries 0 and j before it.       *)
Reading(W, end, j) ==
  /\ Bounds(W, buffer, completed, end) /\ W[end] = ServerNow /\ Matched(W[0])
  /\ end = (IF broken THEN Len(buffer) - 1 ELSE Len(buffer))
  /\ j \in DOMAIN W /\ 0 < j /\ Linked(W[0], W[j], buffer, completed, 0, j)

LEMMA HeadIs == ASSUME NEW S, NEW s \in Seq(S), s # <<>> PROVE Head(s) = s[1] /\ Len(s) \in Nat /\ Len(s) > 0 /\ s[1] \in S
<1>1. Len(s) \in Nat /\ Len(s) > 0 BY EmptySeq, LenProperties
<1>2. 1 \in 1 .. Len(s) BY <1>1
<1>3. s[1] \in S BY <1>2, ElementOfSeq
<1> QED BY <1>1, <1>3

LEMMA NextChunk ==
  ASSUME ChunkInv, ~error, buffer # <<>>
  PROVE  \/ Illegal(ServerNow, Head(buffer)) /\ Matched(ServerNow) /\ broken
         \/ \E W, end, j : Reading(W, end, j)
<1>1. buffer \in Seq(StreamUnit) BY DEF ChunkInv, ChunkTypes
<1>2. Head(buffer) = buffer[1] /\ Len(buffer) \in Nat /\ Len(buffer) > 0 BY <1>1, HeadIs
<1>3. PICK end : end = IF broken THEN Len(buffer) - 1 ELSE Len(buffer) OBVIOUS
<1>4. InStep(end) /\ (broken => Illegal(ServerNow, buffer[Len(buffer)]))
  <2>1. CASE broken BY <1>3, <2>1 DEF ChunkInv
  <2>2. CASE ~broken BY <1>3, <2>2 DEF ChunkInv
  <2> QED BY <2>1, <2>2
<1>5. PICK W : Bounds(W, buffer, completed, end) /\ W[end] = ServerNow /\ Matched(W[0])
  BY <1>4 DEF InStep
<1>6. CASE end = 0
  <2>1. broken /\ Len(buffer) = 1 BY <1>2, <1>3, <1>6
  <2>2. Illegal(ServerNow, Head(buffer)) BY <1>2, <1>4, <2>1
  <2>3. Matched(ServerNow) BY <1>5, <1>6
  <2> QED BY <2>1, <2>2, <2>3
<1>7. CASE end # 0
  <2>1. 0 \in DOMAIN W /\ \A k \in DOMAIN W : k # end => \E j \in DOMAIN W : k < j /\ Linked(W[k], W[j], buffer, completed, k, j)
    BY <1>5 DEF Bounds
  <2>2. PICK j \in DOMAIN W : 0 < j /\ Linked(W[0], W[j], buffer, completed, 0, j) BY <1>7, <2>1
  <2>3. Reading(W, end, j) BY <1>3, <1>5, <2>2 DEF Reading
  <2> QED BY <2>3
<1> QED BY <1>6, <1>7

LEMMA ReadingIs ==
  ASSUME ChunkInv, NEW W, NEW end, NEW j, Reading(W, end, j)
  PROVE  /\ end \in Nat /\ j \in Nat /\ 0 < j /\ j <= end /\ end <= Len(buffer) /\ Len(buffer) \in Nat
         /\ Sound(W[0], completed) /\ Sound(W[j], completed)
         /\ buffer \in Seq(StreamUnit) /\ Head(buffer) = buffer[1] /\ buffer[1] \in StreamUnit
<1>1. buffer \in Seq(StreamUnit) /\ Len(buffer) \in Nat BY LenProperties DEF ChunkInv, ChunkTypes
<1>2. j \in DOMAIN W /\ 0 < j /\ 0 \in DOMAIN W BY DEF Reading, Bounds
<1>3. Sound(W[0], completed) /\ Sound(W[j], completed) BY <1>2 DEF Reading, Bounds
<1>4. j \in 0 .. end BY <1>2 DEF Reading, Bounds
<1>5. end = (IF broken THEN Len(buffer) - 1 ELSE Len(buffer)) BY DEF Reading
<1>6. end \in Int BY <1>1, <1>5
<1>7. end \in Nat /\ j \in Nat /\ j <= end /\ end <= Len(buffer) BY <1>1, <1>2, <1>4, <1>5, <1>6
<1>8. Len(buffer) > 0 BY <1>1, <1>2, <1>7
<1>9. buffer # <<>> BY <1>8
<1>10. Head(buffer) = buffer[1] /\ buffer[1] \in StreamUnit BY <1>1, <1>9, HeadIs
<1> QED BY <1>1, <1>2, <1>3, <1>7, <1>10

LEMMA Consumed ==
  ASSUME NEW S, NEW b \in Seq(S), NEW j \in Nat, j <= Len(b), NEW b2, b2 = SubSeq(b, j + 1, Len(b))
  PROVE  b2 \in Seq(S) /\ Len(b2) = Len(b) - j /\ \A i \in 1 .. Len(b) - j : b2[i] = b[j + i]
<1>1. PICK n \in Nat : n = Len(b) BY LenProperties
<1>2. \A i \in j + 1 .. n : b[i] \in S
  <2> TAKE i \in j + 1 .. n
  <2>1. i \in 1 .. Len(b) BY <1>1
  <2> QED BY <2>1, ElementOfSeq
<1>3. PICK a : a = j + 1 OBVIOUS
<1>4. /\ SubSeq(b, a, n) \in Seq(S) /\ Len(SubSeq(b, a, n)) = n - j
      /\ \A i \in 1 .. n - j : SubSeq(b, a, n)[i] = b[j + i]
  <2>1. /\ SubSeq(b, j + 1, n) \in Seq(S)
        /\ Len(SubSeq(b, j + 1, n)) = (IF j + 1 <= n THEN n - (j + 1) + 1 ELSE 0)
        /\ \A i \in 1 .. n - (j + 1) + 1 : SubSeq(b, j + 1, n)[i] = b[(j + 1) + i - 1]
    BY <1>1, <1>2, SubSeqProperties
  <2>2. (IF j + 1 <= n THEN n - (j + 1) + 1 ELSE 0) = n - j /\ n - (j + 1) + 1 = n - j BY <1>1
  <2>3. \A i \in 1 .. n - j : (j + 1) + i - 1 = j + i OBVIOUS
  <2>4. \A i \in 1 .. n - j : SubSeq(b, j + 1, n)[i] = b[j + i] BY <2>1, <2>2, <2>3
  <2> QED BY <1>3, <2>1, <2>2, <2>4
<1> QED BY <1>1, <1>3, <1>4

(* The parser has taken a chunk.                                            *)
LEMMA ChunkDone ==
  ASSUME ChunkInv, ~error, NEW W, NEW end, NEW j, Reading(W, end, j), Chunks!Consume(j),
         UNCHANGED Chunks!serverVars, ~error', Matched(W[j])', Delivered',
         inSize' \in Nat \ {0}, headers' \in [Csids -> ReadHeader \cup {Chunks!Unset}],
         assembly' \in [Csids -> SUBSET [header : ReadHeader, payload : Seq(PayloadUnit)]],
         aborted' \in [Csids -> Nat], delivered' \in Seq(Delivery), error' \in BOOLEAN
  PROVE  ChunkInv'
<1>1. /\ end \in Nat /\ j \in Nat /\ 0 < j /\ j <= end /\ end <= Len(buffer) /\ Len(buffer) \in Nat
      /\ buffer \in Seq(StreamUnit)
  BY ReadingIs
<1>2. UNCHANGED <<out, history, outSize, messages, completed, broken, excess>> BY DEF Chunks!serverVars
<1>3. PICK b, b2, z, n : b = buffer /\ b2 = buffer' /\ z = completed /\ n = Len(buffer) OBVIOUS
<1>4. b2 \in Seq(StreamUnit) /\ Len(b2) = n - j /\ \A i \in 1 .. n - j : b2[i] = b[j + i]
  <2>1. b \in Seq(StreamUnit) /\ j <= Len(b) /\ b2 = SubSeq(b, j + 1, Len(b))
    BY <1>1, <1>3 DEF Chunks!Consume
  <2>2. b2 \in Seq(StreamUnit) /\ Len(b2) = Len(b) - j /\ \A i \in 1 .. Len(b) - j : b2[i] = b[j + i]
    BY <1>1, <2>1, Consumed
  <2> QED BY <1>3, <2>2
<1>5. PICK e \in Nat : e = end - j BY <1>1
<1>6. PICK X : X = [k \in DOMAIN X |-> X[k]] /\ Bounds(X, b2, z, e) /\ X[0] = W[j] /\ X[e] = W[end]
  <2>1. \A i \in 1 .. end - j : b2[i] = b[j + i]
    <3> TAKE i \in 1 .. end - j
    <3>1. i \in 1 .. n - j BY <1>1, <1>3
    <3> QED BY <1>4, <3>1
  <2>2. Bounds(W, b, z, end) /\ j \in DOMAIN W BY <1>3 DEF Reading
  <2>3. Len(z) \in Nat BY <1>3, LenProperties DEF ChunkInv, ChunkTypes
  <2>4. MovesTo(W, j, end, b2, z, e) BY <1>1, <1>5, <2>1, <2>2, <2>3, BoundaryReached
  <2> QED BY <2>4 DEF MovesTo
<1>7. ServerNow' = ServerNow BY <1>2 DEF ServerNow
<1>8. ChunkTypes'
  <2>1. ChunkTypes BY DEF ChunkInv
  <2> QED BY <1>2, <1>3, <1>4, <2>1 DEF ChunkTypes
<1>9. InStep(e)'
  <2>1. X[e] = ServerNow' /\ Bounds(X, buffer', completed', e)
    <3>1. W[end] = ServerNow BY DEF Reading
    <3> QED BY <1>2, <1>3, <1>6, <1>7, <3>1
  <2>2. Matched(X[0])' BY <1>6 DEF Matched
  <2> QED BY <1>6, <2>1, <2>2 DEF InStep
<1>10. Sound(ServerNow', completed')
  <2>1. Sound(ServerNow, completed) BY DEF ChunkInv
  <2> QED BY <1>2, <1>7, <2>1
<1>11. CASE broken
  <2>1. end = n - 1 /\ broken' BY <1>2, <1>3, <1>11 DEF Reading
  <2>2. Len(b2) = e + 1 BY <1>1, <1>3, <1>4, <1>5, <2>1
  <2>3. buffer' # <<>> /\ e = Len(buffer') - 1
    <3>1. Len(b2) > 0 /\ e = Len(b2) - 1 BY <2>2
    <3> QED BY <1>3, <3>1
  <2>4. Illegal(ServerNow', buffer'[Len(buffer')])
    <3>1. e + 1 \in 1 .. n - j /\ j + (e + 1) = n BY <1>1, <1>3, <1>5, <2>1
    <3>2. b2[e + 1] = b[j + (e + 1)] BY <1>4, <3>1
    <3>3. b2[Len(b2)] = b[n] BY <2>2, <3>1, <3>2
    <3>4. Illegal(ServerNow, b[n]) BY <1>3, <1>11 DEF ChunkInv
    <3> QED BY <1>3, <1>7, <3>3, <3>4
  <2>5. InStep(Len(buffer) - 1)' BY <1>9, <2>3 DEF InStep
  <2> QED BY <1>8, <1>10, <2>1, <2>3, <2>4, <2>5 DEF ChunkInv
<1>12. CASE ~broken
  <2>1. end = n /\ ~broken' BY <1>2, <1>3, <1>12 DEF Reading
  <2>2. e = Len(buffer') BY <1>3, <1>4, <1>5, <2>1
  <2>3. InStep(Len(buffer))' BY <1>9, <2>2 DEF InStep
  <2> QED BY <1>8, <1>10, <2>1, <2>3 DEF ChunkInv
<1> QED BY <1>11, <1>12

(* The payload of a chunk, cut out of the buffer.                           *)
LEMMA SliceIs ==
  ASSUME NEW b \in Seq(StreamUnit), NEW p \in {1, 2}, NEW n \in Nat, NEW id \in Nat, NEW at \in Nat,
         \A i \in 1 .. n : b[0 + p + i] = [unit |-> "payload", id |-> id, at |-> at + i - 1]
  PROVE  IsPayload(SubSeq(b, p + 1, p + n), id, at, n)
<1>1. \A i \in 1 .. n : [unit |-> "payload", id |-> id, at |-> at + i - 1] \in PayloadUnit
  BY DEF PayloadUnit
<1>2. \A i \in p + 1 .. p + n : b[i] \in PayloadUnit
  <2> TAKE i \in p + 1 .. p + n
  <2>1. PICK q \in 1 .. n : q = i - p /\ i = 0 + p + q
    <3>1. i - p \in 1 .. n /\ i = 0 + p + (i - p) OBVIOUS
    <3> QED BY <3>1
  <2> QED BY <1>1, <2>1
<1>3. PICK a \in Int, e \in Int : a = p + 1 /\ e = p + n OBVIOUS
<1>4. SubSeq(b, a, e) \in Seq(PayloadUnit) /\ Len(SubSeq(b, a, e)) = (IF a <= e THEN e - a + 1 ELSE 0)
      /\ \A i \in 1 .. e - a + 1 : SubSeq(b, a, e)[i] = b[a + i - 1]
  <2>1. \A i \in a .. e : b[i] \in PayloadUnit BY <1>2, <1>3
  <2> QED BY <2>1, SubSeqProperties
<1>5. e - a + 1 = n /\ (IF a <= e THEN e - a + 1 ELSE 0) = n BY <1>3
<1>6. PICK s : s = SubSeq(b, a, e) OBVIOUS
<1>7. ASSUME NEW i \in 1 .. n PROVE s[i] = [unit |-> "payload", id |-> id, at |-> at + i - 1]
  <2>1. a + i - 1 = 0 + p + i BY <1>3
  <2>2. s[i] = b[a + i - 1] BY <1>4, <1>5, <1>6
  <2> QED BY <2>1, <2>2
<1>8. IsPayload(s, id, at, n) BY <1>4, <1>5, <1>6, <1>7 DEF IsPayload
<1> QED BY <1>3, <1>6, <1>8

Reads(q, hd) ==
  /\ q \in Past /\ hd \in ReadHeader /\ hd.length = q.length /\ hd.time = q.time /\ hd.delta = q.delta
  /\ hd.ext <=> q.ext
  /\ ~hd.isDelta => q.delta = 0
Takes(c, hd, id, at, length, n) ==
  /\ headers' = [headers EXCEPT ![c] = hd]
  /\ assembly' = [assembly EXCEPT ![c] =
       IF at + n = length THEN {} ELSE {[header |-> hd, payload |-> Chunks!Payload(id, 0, at + n)]}]
  /\ aborted' = [aborted EXCEPT ![c] = 0]
  /\ delivered' = IF at + n = length
                  THEN Append(delivered, [csid |-> c, time |-> hd.time, payload |-> Chunks!Payload(id, 0, at + n)])
                  ELSE delivered
  /\ inSize' = inSize /\ error' = error

(* A chunk of a message has been taken, the first or another.               *)
LEMMA FragmentTaken ==
  ASSUME ChunkInv, ~error, NEW W, NEW end, NEW j, Reading(W, end, j), Chunks!Consume(j), UNCHANGED Chunks!serverVars,
         NEW c \in Csids, NEW hd, NEW id \in Nat, NEW at \in Nat, NEW length \in Nat, NEW n \in Nat, at + n <= length,
         Takes(c, hd, id, at, length, n), Reads(W[j].history[c], hd), hd.length = length,
         SentPart(W[0], W[j], completed, c, id, at, length, hd.time, n), ~W[j].excess, W[j].outSize = W[0].outSize,
         Apart(W[0], W[j], c)
  PROVE  ChunkInv'
<1>1. PICK w, v : w = W[0] /\ v = W[j] OBVIOUS
<1>2. Sound(w, completed) /\ Sound(v, completed) BY <1>1, ReadingIs
<1>3. Matched(w) BY <1>1 DEF Reading
<1>4. ChunkTypes /\ Delivered BY DEF ChunkInv
<1>5. PICK p : p = Chunks!Payload(id, 0, at + n) OBVIOUS
<1>6. p \in Seq(PayloadUnit)
  <2>1. PICK l \in Nat : l = at + n OBVIOUS
  <2>2. 0 \in Nat OBVIOUS
  <2>3. IsPayload(Chunks!Payload(id, 0, l), id, 0, l) BY <2>2, PayloadIs
  <2> QED BY <1>5, <2>1, <2>3 DEF IsPayload
<1>7. hd \in ReadHeader /\ hd.time \in Nat BY DEF Reads, ReadHeader
<1>8. headers' \in [Csids -> ReadHeader \cup {Chunks!Unset}] /\ headers'[c] = hd /\ \A d \in Csids : d # c => headers'[d] = headers[d]
  <2>1. headers \in [Csids -> ReadHeader \cup {Chunks!Unset}] BY <1>4 DEF ChunkTypes
  <2>2. headers' = [headers EXCEPT ![c] = hd] BY DEF Takes
  <2> QED BY <1>7, <2>1, <2>2
<1>9. PICK as : as = IF at + n = length THEN {} ELSE {[header |-> hd, payload |-> p]} OBVIOUS
<1>10. /\ assembly' \in [Csids -> SUBSET [header : ReadHeader, payload : Seq(PayloadUnit)]]
       /\ assembly'[c] = as /\ \A d \in Csids : d # c => assembly'[d] = assembly[d]
  <2>1. assembly \in [Csids -> SUBSET [header : ReadHeader, payload : Seq(PayloadUnit)]]
    BY <1>4 DEF ChunkTypes
  <2>2. assembly' = [assembly EXCEPT ![c] = as] BY <1>5, <1>9 DEF Takes
  <2>3. as \subseteq [header : ReadHeader, payload : Seq(PayloadUnit)]
    <3>1. [header |-> hd, payload |-> p] \in [header : ReadHeader, payload : Seq(PayloadUnit)]
      BY <1>6, <1>7
    <3> QED BY <1>9, <3>1
  <2> QED BY <2>1, <2>2, <2>3
<1>11. aborted' \in [Csids -> Nat] /\ aborted'[c] = 0 /\ \A d \in Csids : d # c => aborted'[d] = aborted[d]
  <2>1. aborted \in [Csids -> Nat] BY <1>4 DEF ChunkTypes
  <2>2. aborted' = [aborted EXCEPT ![c] = 0] BY DEF Takes
  <2> QED BY <2>1, <2>2
<1>12. delivered \in Seq(Delivery) /\ Len(delivered) \in Nat /\ Len(delivered) = w.done
  BY <1>3, <1>4, LenProperties DEF ChunkTypes, Matched
<1>13. v.done \in Nat /\ v.done <= Len(completed) /\ w.done \in Nat /\ Len(completed) \in Nat
  BY <1>2, <1>4, LenProperties DEF Sound, ChunkTypes
<1>14. UNCHANGED <<out, history, outSize, messages, completed, broken, excess>> BY DEF Chunks!serverVars
<1>15. /\ delivered' \in Seq(Delivery) /\ Len(delivered') = v.done /\ Delivered'
       /\ Matches(v.out[c], v.history[c], hd, as, 0)
  <2>1. CASE at + n = length
    <3>1. PICK d : d = [csid |-> c, time |-> hd.time, payload |-> p] OBVIOUS
    <3>2. d \in Delivery BY <1>6, <1>7, <3>1 DEF Delivery
    <3>3. delivered' = Append(delivered, d) BY <1>5, <2>1, <3>1 DEF Takes
    <3>4. /\ delivered' \in Seq(Delivery) /\ Len(delivered') = Len(delivered) + 1
          /\ \A i \in 1 .. Len(delivered) : delivered'[i] = delivered[i]
          /\ delivered'[Len(delivered) + 1] = d
      BY <1>12, <3>2, <3>3, AppendProperties
    <3>5. v.out[c] = {} /\ v.done = w.done + 1 /\ completed[v.done] = [csid |-> c, time |-> hd.time, id |-> id, length |-> length]
      <4>1. ~(at + n < length) BY <2>1
      <4> QED BY <1>1, <4>1 DEF SentPart
    <3>6. Chunks!Faithful(completed[v.done], d) BY <1>5, <2>1, <3>1, <3>5 DEF Chunks!Faithful
    <3>7. Delivered'
      <4>1. Len(delivered') <= Len(completed') BY <1>12, <1>13, <1>14, <3>4, <3>5
      <4>2. ASSUME NEW i \in 1 .. Len(delivered') PROVE Chunks!Faithful(completed'[i], delivered'[i])
        <5>1. CASE i = v.done BY <1>12, <1>14, <3>4, <3>5, <3>6, <5>1
        <5>2. CASE i # v.done
          <6>1. i \in 1 .. Len(delivered) BY <1>12, <1>13, <3>4, <3>5, <5>2
          <6>2. Chunks!Faithful(completed[i], delivered[i]) BY <1>4, <6>1 DEF Delivered
          <6> QED BY <1>14, <3>4, <6>1, <6>2
        <5> QED BY <5>1, <5>2
      <4> QED BY <4>1, <4>2 DEF Delivered
    <3>8. as = {} BY <1>9, <2>1
    <3>9. Matches(v.out[c], v.history[c], hd, as, 0)
      <4>1. v.history[c] # Chunks!Unset BY <1>1, KnownIs DEF Reads
      <4> QED BY <1>1, <3>5, <3>8, <4>1 DEF Matches, Reads
    <3> QED BY <1>12, <3>4, <3>5, <3>7, <3>9
  <2>2. CASE at + n # length
    <3>1. at + n < length BY <2>2
    <3>2. delivered' = delivered /\ as = {[header |-> hd, payload |-> p]} BY <1>9, <2>2 DEF Takes
    <3>3. v.done = w.done /\ v.out[c] = {[id |-> id, at |-> at + n, length |-> length, time |-> hd.time, dead |-> FALSE]}
      BY <1>1, <3>1 DEF SentPart
    <3>4. Delivered' BY <1>4, <1>14, <3>2 DEF Delivered
    <3>5. PICK m : m = [id |-> id, at |-> at + n, length |-> length, time |-> hd.time, dead |-> FALSE] OBVIOUS
    <3>6. m.id = id /\ m.at = at + n BY <3>5
    <3>7. ~m.dead BY <3>5
    <3>8. v.out[c] = {m} BY <3>3, <3>5
    <3>9. Matches(v.out[c], v.history[c], hd, as, 0)
      <4>1. v.history[c] # Chunks!Unset BY <1>1, KnownIs DEF Reads
      <4>2. as = {[header |-> hd, payload |-> Chunks!Payload(m.id, 0, m.at)]} BY <1>5, <3>2, <3>6
      <4> QED BY <1>1, <3>7, <3>8, <4>1, <4>2 DEF Matches, Reads
    <3> QED BY <1>12, <3>2, <3>3, <3>4, <3>9
  <2> QED BY <2>1, <2>2
<1>16. Matched(v)'
  <2>1. inSize' = v.outSize BY <1>1, <1>3 DEF Matched, Takes
  <2>2. ASSUME NEW d \in Csids PROVE Matches(v.out[d], v.history[d], headers'[d], assembly'[d], aborted'[d])
    <3>1. CASE d = c BY <1>8, <1>10, <1>11, <1>15, <3>1
    <3>2. CASE d # c
      <4>1. Matches(w.out[d], w.history[d], headers[d], assembly[d], aborted[d]) BY <1>3 DEF Matched
      <4>2. v.out[d] = w.out[d] /\ v.history[d] = w.history[d] BY <1>1, <3>2 DEF Apart
      <4> QED BY <1>8, <1>10, <1>11, <3>2, <4>1, <4>2
    <3> QED BY <3>1, <3>2
  <2> QED BY <1>1, <1>15, <2>1, <2>2 DEF Matched
<1>17. Matched(W[j])' BY <1>1, <1>16 DEF Matched
<1>18. inSize' \in Nat \ {0} /\ error' \in BOOLEAN /\ ~error' BY <1>4 DEF ChunkTypes, Takes
<1> QED BY <1>8, <1>10, <1>11, <1>15, <1>17, <1>18, ChunkDone

(* What the parser makes of the chunk before it.                            *)
HasExt(h) == IF h.fmt = 3 THEN headers[h.csid].ext ELSE h.field = Extended
ExtValue(h) ==
  IF HasExt(h) /\ Len(buffer) >= 2 /\ buffer[2].unit = "extended" THEN buffer[2].value ELSE -1
StandsFor(h) == Chunks!NewHeader(h, headers[h.csid], ExtValue(h), h.fmt # 3 \/ assembly[h.csid] = {})
GoesInto(h) ==
  IF h.fmt # 3 \/ assembly[h.csid] = {} THEN [header |-> StandsFor(h), payload |-> <<>>]
                                        ELSE CHOOSE x \in assembly[h.csid] : TRUE
Parsed(h, a, p, n, pay) ==
  /\ Chunks!Consume(p + n) /\ headers' = [headers EXCEPT ![h.csid] = StandsFor(h)]
  /\ assembly' = [assembly EXCEPT ![h.csid] =
       IF Len(pay) = a.header.length THEN {} ELSE {[header |-> a.header, payload |-> pay]}]
  /\ aborted' = [aborted EXCEPT ![h.csid] = IF h.fmt = 3 THEN @ ELSE 0]
  /\ delivered' = IF Len(pay) = a.header.length
                  THEN Append(delivered, [csid |-> h.csid, time |-> a.header.time, payload |-> pay])
                  ELSE delivered
  /\ inSize' = inSize /\ error' = error

(* A message that is too long, and too much that is unfinished.             *)
Overlong(h) == StandsFor(h).length > MaxMessage
Overfull(h, a, pay) == Len(pay) # a.header.length /\ Chunks!Held(h.csid) + Len(pay) > MaxHeld

LEMMA FragmentIs ==
  ASSUME NEW h, Chunks!ParseFragment(h, Chunks!Held(h.csid)), NEW a, a = GoesInto(h),
         NEW p, p = 1 + (IF HasExt(h) THEN 1 ELSE 0),
         NEW n, n = Chunks!Min({inSize, a.header.length - Len(a.payload)}),
         NEW pay, pay = a.payload \o SubSeq(buffer, p + 1, p + n)
  PROVE  IF Overlong(h) \/ Overfull(h, a, pay) THEN Chunks!Fail ELSE Parsed(h, a, p, n, pay)
<1>1. IF Overlong(h) THEN Chunks!Fail ELSE IF Overfull(h, a, pay) THEN Chunks!Fail ELSE Parsed(h, a, p, n, pay)
  BY DEF Chunks!ParseFragment, HasExt, ExtValue, StandsFor, GoesInto, Parsed, Overlong, Overfull
<1> QED BY <1>1

(* What the parser keeps is what the server has under way.                  *)
LEMMA HeldIs ==
  ASSUME ChunkTypes, NEW w, NEW v, NEW z, Sound(w, z), Matched(w), NEW c \in Csids, Apart(w, v, c)
  PROVE  Chunks!Held(c) = Chunks!UnderWay(v.out, c)
<1> DEFINE f == [d \in Csids \ {c} |-> IF assembly[d] = {} THEN 0 ELSE Len((CHOOSE a \in assembly[d] : TRUE).payload)]
           g == [d \in Csids \ {c} |-> IF \E x \in v.out[d] : ~x.dead THEN (CHOOSE x \in v.out[d] : TRUE).at ELSE 0]
<1>1. ASSUME NEW d \in Csids \ {c} PROVE f[d] = g[d]
  <2>1. v.out[d] = w.out[d] BY DEF Apart
  <2>2. Matches(w.out[d], w.history[d], headers[d], assembly[d], aborted[d]) BY DEF Matched
  <2>3. StreamSound(w.out[d], w.history[d]) BY DEF Sound
  <2>4. CASE w.out[d] = {} BY <2>1, <2>2, <2>4 DEF Matches
  <2>5. ASSUME NEW x \in w.out[d] PROVE f[d] = g[d]
    <3>1. w.out[d] = {x} /\ x \in Sending BY <2>3 DEF StreamSound
    <3>2. (CHOOSE y \in {x} : TRUE) = x OBVIOUS
    <3>3. CASE x.dead
      <4>1. assembly[d] = {} BY <2>2, <3>3 DEF Matches
      <4> QED BY <2>1, <3>1, <3>3, <4>1
    <3>4. CASE ~x.dead
      <4>1. PICK s : s = [header |-> headers[d], payload |-> Chunks!Payload(x.id, 0, x.at)] OBVIOUS
      <4>2. assembly[d] = {s} BY <2>2, <3>4, <4>1 DEF Matches
      <4>3. Len(s.payload) = x.at
        <5>1. PICK i \in Nat, n \in Nat : i = x.id /\ n = x.at BY <3>1 DEF Sending
        <5>2. IsPayload(Chunks!Payload(i, 0, n), i, 0, n)
          <6>1. 0 \in Nat OBVIOUS
          <6> QED BY <6>1, PayloadIs
        <5> QED BY <4>1, <5>1, <5>2 DEF IsPayload
      <4>4. (CHOOSE y \in {s} : TRUE) = s OBVIOUS
      <4>5. f[d] = Len(s.payload) BY <4>2, <4>4
      <4>6. g[d] = x.at BY <2>1, <3>1, <3>2, <3>4
      <4> QED BY <4>3, <4>5, <4>6
    <3> QED BY <3>3, <3>4
  <2> QED BY <2>4, <2>5
<1>2. f = g BY <1>1
<1>3. Chunks!Held(c) = Chunks!SumFunction(f) /\ Chunks!UnderWay(v.out, c) = Chunks!SumFunction(g)
  BY DEF Chunks!Held, Chunks!UnderWay
<1> HIDE DEF f, g
<1> QED BY <1>2, <1>3

(* The parser gives up.                                                     *)
LEMMA ParserFails ==
  ASSUME ChunkInv, buffer # <<>>, broken \/ excess, Chunks!Fail, UNCHANGED Chunks!serverVars
  PROVE  ChunkInv'
<1>7. /\ error' = TRUE /\ UNCHANGED <<buffer, inSize, headers, assembly, aborted, delivered>>
      /\ UNCHANGED <<out, history, outSize, messages, completed, broken, excess>>
  BY DEF Chunks!Fail, Chunks!serverVars
<1>8. ChunkTypes /\ Delivered /\ Sound(ServerNow, completed) BY DEF ChunkInv
<1>9. ServerNow' = ServerNow BY <1>7 DEF ServerNow
<1>10. ChunkTypes' BY <1>7, <1>8 DEF ChunkTypes
<1>11. Delivered' BY <1>7, <1>8 DEF Delivered
<1>12. Sound(ServerNow', completed') BY <1>7, <1>8, <1>9
<1>13. error' /\ (broken' \/ excess') /\ buffer' # <<>> BY <1>7
<1> QED BY <1>10, <1>11, <1>12, <1>13 DEF ChunkInv

(* What goes beyond the parser's limits stays so.                           *)
LEMMA ExcessStays ==
  ASSUME NEW W, NEW end, NEW j, Reading(W, end, j), W[j].excess PROVE excess
BY NowIs DEF Reading, Bounds

(* The header of a new message is what the server meant by it.              *)
ValueRead(h, q, e) == h.fmt # 3 /\ q.ext => e = q.value
IsHeader(hd, h, hd0, e) == hd = Chunks!NewHeader(h, hd0, e, TRUE)

HeaderCase(hd, h, x, h0, q, hd0, e, c, fmt, length, step) ==
  /\ c \in Csids /\ fmt \in 0 .. 3 /\ length \in Nat /\ step \in Nat /\ h0 \in Past \cup {Chunks!Unset}
  /\ Opens(h, x, h0, q, c, fmt, length, step) /\ (fmt # 0 => Reads(h0, hd0))
  /\ ValueRead(h, q, e) /\ IsHeader(hd, h, hd0, e)

LEMMA HeaderRead ==
  ASSUME Extended \in Nat, NEW hd, NEW h, NEW x, NEW h0, NEW q, NEW hd0, NEW e, NEW c, NEW fmt, NEW length, NEW step,
         HeaderCase(hd, h, x, h0, q, hd0, e, c, fmt, length, step)
  PROVE  Reads(q, hd) /\ hd.length = length
<1>0. /\ c \in Csids /\ fmt \in 0 .. 3 /\ length \in Nat /\ step \in Nat /\ h0 \in Past \cup {Chunks!Unset}
      /\ Opens(h, x, h0, q, c, fmt, length, step) /\ (fmt # 0 => Reads(h0, hd0))
      /\ ValueRead(h, q, e) /\ IsHeader(hd, h, hd0, e)
  BY DEF HeaderCase
<1>1. h \in HeaderUnit /\ h.fmt = fmt /\ (fmt \in {0, 1} => h.length = length) /\ q \in Past /\ q.length = length
  BY <1>0 DEF Opens
<1>2. h.length \in Nat /\ h.field \in Nat BY <1>1 DEF HeaderUnit
<1>3. q.value \in Nat /\ q.time \in Nat /\ q.delta \in Nat BY <1>1 DEF Past
<1>4. q.ext \in BOOLEAN BY <1>1 DEF Past
<1>5. fmt # 3 => (h.field = Extended <=> q.ext)
  <2>1. fmt # 3 => (q.ext <=> q.value >= Extended) /\ h.field = Lesser(q.value, Extended)
    BY <1>0 DEF Opens
  <2> QED BY <1>3, <2>1 DEF Lesser
<1>6. fmt # 3 => (IF h.field = Extended THEN e ELSE h.field) = q.value
  <2>1. fmt # 3 => (q.ext <=> q.value >= Extended) /\ h.field = Lesser(q.value, Extended)
    BY <1>0 DEF Opens
  <2> QED BY <1>0, <1>1, <1>3, <1>5, <2>1 DEF Lesser, ValueRead
<1>7. PICK value : value = IF h.field = Extended THEN e ELSE h.field OBVIOUS
<1>8. hd = Chunks!NewHeader(h, hd0, e, TRUE) BY <1>0 DEF IsHeader
<1>9. CASE fmt = 0
  <2>1. hd = [length |-> h.length, time |-> value, delta |-> 0, isDelta |-> FALSE, ext |-> h.field = Extended]
    BY <1>1, <1>7, <1>8, <1>9 DEF Chunks!NewHeader
  <2>2. value = q.time /\ q.delta = 0 BY <1>0, <1>6, <1>7, <1>9 DEF Opens
  <2>3. hd \in ReadHeader BY <1>2, <1>3, <2>1, <2>2 DEF ReadHeader
  <2>4. hd.length = length /\ hd.time = q.time /\ hd.delta = q.delta BY <1>1, <1>9, <2>1, <2>2
  <2>5. hd.ext <=> q.ext
    <3>1. hd.ext = (h.field = Extended) BY <2>1
    <3>2. h.field = Extended <=> q.ext BY <1>5, <1>9
    <3> QED BY <3>1, <3>2, Zenon
  <2> QED BY <1>1, <1>5, <1>8, <2>2, <2>3, <2>4, <2>5 DEF Reads
<1>10. CASE fmt \in {1, 2}
  <2>1. hd = [length |-> IF h.fmt = 1 THEN h.length ELSE hd0.length,
              time |-> hd0.time + value, delta |-> value, isDelta |-> TRUE, ext |-> h.field = Extended]
    BY <1>1, <1>7, <1>8, <1>10 DEF Chunks!NewHeader
  <2>2. Reads(h0, hd0) /\ h0 \in Past BY <1>0, <1>10 DEF Reads
  <2>3. hd0.length = h0.length /\ hd0.time = h0.time /\ h0.time \in Nat BY <2>2 DEF Reads, Past
  <2>4. value = step /\ q.delta = step /\ q.time = step + h0.time /\ (fmt = 2 => length = h0.length)
    <3>1. value = q.value /\ q.value = step BY <1>0, <1>6, <1>7, <1>10 DEF Opens
    <3>2. q.delta = step /\ q.time = step + h0.time /\ (fmt = 2 => length = h0.length)
      BY <1>0, <1>10, <2>2 DEF Opens
    <3> QED BY <3>1, <3>2
  <2>5. (IF h.fmt = 1 THEN h.length ELSE hd0.length) = length BY <1>1, <1>10, <2>3, <2>4
  <2>6. hd0.time + value = q.time BY <1>0, <2>3, <2>4
  <2>7. hd = [length |-> length, time |-> q.time, delta |-> q.delta, isDelta |-> TRUE, ext |-> h.field = Extended]
    BY <2>1, <2>4, <2>5, <2>6
  <2>8. hd \in ReadHeader BY <1>0, <1>3, <2>7 DEF ReadHeader
  <2>9. hd.length = length /\ hd.time = q.time /\ hd.delta = q.delta BY <2>7
  <2>10. hd.isDelta BY <2>7
  <2>11. hd.ext <=> q.ext
    <3>1. hd.ext = (h.field = Extended) BY <2>7
    <3>2. h.field = Extended <=> q.ext BY <1>5, <1>10
    <3> QED BY <3>1, <3>2, Zenon
  <2> QED BY <1>1, <1>5, <1>8, <2>8, <2>9, <2>10, <2>11 DEF Reads
<1>11. CASE fmt = 3
  <2>1. hd = [hd0 EXCEPT !.time = IF TRUE /\ hd0.isDelta THEN @ + hd0.delta ELSE @]
    BY <1>1, <1>8, <1>11 DEF Chunks!NewHeader
  <2>2. Reads(h0, hd0) /\ h0 \in Past BY <1>0, <1>11 DEF Reads
  <2>3. /\ hd0 \in ReadHeader /\ hd0.length = h0.length /\ hd0.time = h0.time /\ hd0.delta = h0.delta
        /\ hd0.ext <=> h0.ext
        /\ ~hd0.isDelta => h0.delta = 0
    BY <2>2 DEF Reads
  <2>4. h0.time \in Nat /\ h0.delta \in Nat BY <2>2 DEF Past
  <2>5. step = h0.delta /\ q.time = step + h0.time /\ length = h0.length /\ (q.ext <=> h0.ext) /\ q.delta = step
    BY <1>0, <1>11, <2>2 DEF Opens
  <2>6. (IF TRUE /\ hd0.isDelta THEN hd0.time + hd0.delta ELSE hd0.time) = q.time
    BY <2>3, <2>4, <2>5
  <2>7. hd = [hd0 EXCEPT !.time = q.time] BY <2>1, <2>6
  <2>8. hd \in ReadHeader BY <1>3, <2>3, <2>7 DEF ReadHeader
  <2>9. hd.length = hd0.length /\ hd.time = q.time /\ hd.delta = hd0.delta
    BY <2>3, <2>7 DEF ReadHeader
  <2>10. hd.ext = hd0.ext /\ hd.isDelta = hd0.isDelta BY <2>3, <2>7 DEF ReadHeader
  <2>11. (hd.ext <=> q.ext) /\ (~hd.isDelta => q.delta = 0)
    <3>1. q.delta = h0.delta BY <2>5
    <3> QED BY <2>3, <2>5, <2>10, <3>1, Zenon
  <2>12. hd.length = length /\ hd.delta = q.delta BY <2>3, <2>5, <2>9
  <2> QED BY <1>1, <1>8, <1>11, <2>8, <2>9, <2>11, <2>12 DEF Reads
<1>12. fmt = 0 \/ fmt \in {1, 2} \/ fmt = 3 BY <1>0
<1> QED BY <1>9, <1>10, <1>11, <1>12

(* The first chunk of a message has been read.                              *)
LEMMA MessageStarts ==
  ASSUME Chunks!ChunkAssumption, ChunkInv, ~error, NEW W, NEW end, NEW j, Reading(W, end, j),
         Begins(W[0], W[j], buffer, completed, 0, j), Chunks!ParseChunk
  PROVE  ChunkInv'
<1>1. PICK w, v, b, z : w = W[0] /\ v = W[j] /\ b = buffer /\ z = completed OBVIOUS
<1>2. Begins(w, v, b, z, 0, j) BY <1>1
<1>3. PICK c \in Csids, fmt \in 0 .. 3, id \in Nat, length \in Nat, step \in Nat, n \in Nat :
        /\ \A m \in w.out[c] : m.dead
        /\ fmt = 3 => w.out[c] = {}
        /\ Opens(b[0 + 1], b[0 + 2], w.history[c], v.history[c], c, fmt, length, step)
        /\ n = Lesser(w.outSize, length) /\ Chunk(b, 0, j, v.history[c].ext, id, 0, n)
        /\ SentPart(w, v, z, c, id, 0, length, v.history[c].time, n)
        /\ v.outSize = w.outSize /\ Apart(w, v, c)
  BY <1>2 DEF Begins
<1>4. PICK h, x, h0, q, hd0 : h = b[1] /\ x = b[2] /\ h0 = w.history[c] /\ q = v.history[c] /\ hd0 = headers[c] OBVIOUS
<1>5. Opens(h, x, h0, q, c, fmt, length, step)
  <2>1. 0 + 1 = 1 /\ 0 + 2 = 2 OBVIOUS
  <2> QED BY <1>3, <1>4, <2>1
<1>6. /\ end \in Nat /\ j \in Nat /\ 0 < j /\ j <= end /\ end <= Len(buffer) /\ Len(buffer) \in Nat
      /\ Sound(w, z) /\ Sound(v, z) /\ buffer \in Seq(StreamUnit) /\ Head(buffer) = h
  BY <1>1, <1>4, ReadingIs
<1>7. Matched(w) BY <1>1 DEF Reading
<1>8. Matches(w.out[c], h0, hd0, assembly[c], aborted[c]) /\ inSize = w.outSize
  BY <1>4, <1>7 DEF Matched
<1>9. h0 \in Past \cup {Chunks!Unset} /\ w.out[c] \subseteq Sending
  BY <1>4, <1>6 DEF Sound, StreamSound
<1>10. assembly[c] = {} /\ (fmt = 3 => aborted[c] = 0) BY <1>3, <1>8 DEF Matches
<1>11. h \in HeaderUnit /\ h.csid = c /\ h.fmt = fmt /\ h.unit = "header"
  BY <1>5 DEF Opens, HeaderUnit
<1>12. fmt # 0 => Reads(h0, hd0) /\ hd0 \in ReadHeader
  <2>1. fmt # 0 => h0 # Chunks!Unset BY <1>5 DEF Opens
  <2> QED BY <1>8, <1>9, <2>1 DEF Matches, Reads
<1>13. fmt # 0 => Chunks!Known(headers[h.csid]) BY <1>4, <1>11, <1>12 DEF Chunks!Known, ReadHeader
<1>14. ~Chunks!OutOfStep(h) BY <1>10, <1>11, <1>13 DEF Chunks!OutOfStep
<1>15. Chunks!ParseFragment(h, Chunks!Held(h.csid)) /\ UNCHANGED Chunks!serverVars
  <2>1. IF Chunks!OutOfStep(h) THEN Chunks!Fail
        ELSE IF h.fmt = 3 /\ aborted[h.csid] > 0 THEN Chunks!SkipAborted(h) ELSE Chunks!ParseFragment(h, Chunks!Held(h.csid))
    BY <1>6 DEF Chunks!ParseChunk
  <2>2. ~(h.fmt = 3 /\ aborted[h.csid] > 0) BY <1>10, <1>11
  <2>3. UNCHANGED Chunks!serverVars BY DEF Chunks!ParseChunk
  <2> QED BY <1>14, <2>1, <2>2, <2>3
<1>16. PICK p \in {1, 2} : /\ p = 2 <=> q.ext
                           /\ j = 0 + p + n
                           /\ \A i \in 1 .. n : b[0 + p + i] = [unit |-> "payload", id |-> id, at |-> 0 + i - 1]
  <2>1. Chunk(b, 0, j, q.ext, id, 0, n) BY <1>3, <1>4
  <2> QED BY <2>1 DEF Chunk
<1>17. PICK e : e = ExtValue(h) OBVIOUS
<1>18. HasExt(h) <=> q.ext
  <2>1. CASE fmt = 3
    <3>1. HasExt(h) = hd0.ext BY <1>4, <1>11, <2>1 DEF HasExt
    <3>2. (hd0.ext <=> h0.ext) /\ (q.ext <=> h0.ext) BY <1>5, <1>12, <2>1 DEF Reads, Opens
    <3> QED BY <3>1, <3>2, Zenon
  <2>2. CASE fmt # 3
    <3>1. HasExt(h) = (h.field = Extended) BY <1>11, <2>2 DEF HasExt
    <3>2. (q.ext <=> q.value >= Extended) /\ h.field = Lesser(q.value, Extended) /\ q \in Past
      BY <1>5, <2>2 DEF Opens
    <3>3. Extended \in Nat /\ q.value \in Nat BY <3>2 DEF Chunks!ChunkAssumption, Past
    <3>4. h.field = Extended <=> q.ext BY <3>2, <3>3 DEF Lesser
    <3> QED BY <3>1, <3>4, Zenon
  <2> QED BY <2>1, <2>2
<1>19. h.fmt # 3 /\ q.ext => e = q.value
  <2> SUFFICES ASSUME h.fmt # 3, q.ext PROVE e = q.value OBVIOUS
  <2>1. x = [unit |-> "extended", value |-> q.value] BY <1>5, <1>11 DEF Opens
  <2>2. x.unit = "extended" /\ x.value = q.value BY <2>1
  <2>3. Len(buffer) >= 2 BY <1>6, <1>16
  <2>4. HasExt(h) BY <1>18
  <2>5. buffer[2].unit = "extended" /\ buffer[2].value = q.value BY <1>1, <1>4, <2>2
  <2> QED BY <1>17, <2>3, <2>4, <2>5 DEF ExtValue
<1>20. PICK hd : hd = StandsFor(h) OBVIOUS
<1>21. Reads(q, hd) /\ hd.length = length
  <2>2. h.fmt # 3 \/ assembly[h.csid] = {} BY <1>10, <1>11
  <2>3. Extended \in Nat BY DEF Chunks!ChunkAssumption
  <2>4. IsHeader(hd, h, hd0, e)
    <3>1. hd = Chunks!NewHeader(h, headers[h.csid], e, h.fmt # 3 \/ assembly[h.csid] = {})
      BY <1>17, <1>20 DEF StandsFor
    <3>2. Chunks!NewHeader(h, headers[h.csid], e, h.fmt # 3 \/ assembly[h.csid] = {}) = Chunks!NewHeader(h, hd0, e, TRUE)
      BY <1>4, <1>11, <2>2 DEF Chunks!NewHeader
    <3> QED BY <3>1, <3>2 DEF IsHeader
  <2>5. ValueRead(h, q, e) BY <1>19 DEF ValueRead
  <2>6. fmt # 0 => Reads(h0, hd0) BY <1>12
  <2>7. h0 \in Past \cup {Chunks!Unset} BY <1>9
  <2>8. HeaderCase(hd, h, x, h0, q, hd0, e, c, fmt, length, step)
    BY <1>5, <2>4, <2>5, <2>6, <2>7 DEF HeaderCase
  <2> QED BY <2>3, <2>8, HeaderRead
<1>22. PICK a : a = [header |-> hd, payload |-> <<>>] OBVIOUS
<1>23. a = GoesInto(h) BY <1>10, <1>11, <1>20, <1>22 DEF GoesInto
<1>24. p = 1 + (IF HasExt(h) THEN 1 ELSE 0) BY <1>16, <1>18
<1>25. n = Chunks!Min({inSize, a.header.length - Len(a.payload)})
  <2>1. a.header = hd /\ a.payload = <<>> BY <1>22
  <2>2. a.header.length - Len(a.payload) = length BY <1>21, <2>1
  <2>3. inSize \in Int BY <1>6, <1>8 DEF Sound
  <2>4. Chunks!Min({inSize, length}) = Lesser(inSize, length) BY <2>3, LesserIs
  <2> QED BY <1>3, <1>8, <2>2, <2>4
<1>26. PICK s : s = SubSeq(b, p + 1, p + n) OBVIOUS
<1>27. IsPayload(s, id, 0, n)
  <2>1. b \in Seq(StreamUnit) /\ 0 \in Nat BY <1>1, <1>6
  <2>2. IsPayload(SubSeq(b, p + 1, p + n), id, 0, n) BY <1>16, <2>1, SliceIs
  <2> QED BY <1>26, <2>2
<1>28. PICK pay : pay = a.payload \o SubSeq(buffer, p + 1, p + n) OBVIOUS
<1>29. pay = s
  <2>1. s \in Seq(PayloadUnit) BY <1>27 DEF IsPayload
  <2>2. <<>> \o s = s BY <2>1, ConcatEmptySeq
  <2> QED BY <1>1, <1>22, <1>26, <1>28, <2>2
<1>30. s = Chunks!Payload(id, 0, 0 + n)
  <2>1. s \in Seq(PayloadUnit) /\ Len(s) = n /\ \A i \in 1 .. n : s[i] = [unit |-> "payload", id |-> id, at |-> 0 + i - 1]
    BY <1>27 DEF IsPayload
  <2>2. IsPayload(Chunks!Payload(id, 0, n), id, 0, n)
    <3>1. 0 \in Nat OBVIOUS
    <3> QED BY <3>1, PayloadIs
  <2>3. PICK r : r = Chunks!Payload(id, 0, n) OBVIOUS
  <2>4. r \in Seq(PayloadUnit) /\ Len(r) = n /\ \A i \in 1 .. n : r[i] = [unit |-> "payload", id |-> id, at |-> 0 + i - 1]
    BY <2>2, <2>3 DEF IsPayload
  <2>5. s = r BY <2>1, <2>4, SeqEqual
  <2> QED BY <2>3, <2>5
<1>38. IF Overlong(h) \/ Overfull(h, a, pay) THEN Chunks!Fail ELSE Parsed(h, a, p, n, pay)
  BY <1>15, <1>23, <1>24, <1>25, <1>28, FragmentIs
<1>39. Overlong(h) \/ Overfull(h, a, pay) <=> v.excess
  <2>1. a.header.length = length /\ Len(pay) = n BY <1>21, <1>22, <1>27, <1>29 DEF IsPayload
  <2>2. Overlong(h) <=> length > MaxMessage BY <1>20, <1>21 DEF Overlong
  <2>3. v.excess <=> length > MaxMessage \/ (0 + n < length /\ Chunks!UnderWay(v.out, c) + (0 + n) > MaxHeld)
    BY <1>3, <1>7 DEF SentPart, Matched
  <2>4. n \in Nat /\ length \in Nat /\ n <= length
    <3>1. w.outSize \in Nat BY <1>6 DEF Sound
    <3> QED BY <1>3, <3>1 DEF Lesser
  <2>5. CASE n = length BY <2>1, <2>2, <2>3, <2>5 DEF Overfull
  <2>6. CASE n # length
    <3>1. 0 + n < length /\ 0 + n = n BY <2>4, <2>6
    <3>2. Chunks!Held(c) = Chunks!UnderWay(v.out, c)
      <4>1. ChunkTypes /\ Apart(w, v, c) BY <1>3 DEF ChunkInv
      <4>2. Sound(w, z) /\ Matched(w) BY <1>6, <1>7
      <4> QED BY <4>1, <4>2, HeldIs
    <3>3. Overfull(h, a, pay) <=> Chunks!UnderWay(v.out, c) + (0 + n) > MaxHeld
      BY <1>11, <2>1, <2>6, <3>1, <3>2 DEF Overfull
    <3> QED BY <2>2, <2>3, <3>1, <3>3
  <2> QED BY <2>5, <2>6
<1>40. CASE v.excess
  <2>1. excess BY <1>1, <1>40, ExcessStays
  <2>2. buffer # <<>> BY DEF Chunks!ParseChunk
  <2> QED BY <1>15, <1>38, <1>39, <1>40, <2>1, <2>2, ParserFails
<1> SUFFICES ASSUME ~v.excess PROVE ChunkInv' BY <1>40
<1>31. Parsed(h, a, p, n, pay) BY <1>38, <1>39
<1>32. Takes(c, hd, id, 0, length, n)
  <2>1. a.header = hd /\ a.header.length = length BY <1>21, <1>22
  <2>2. Len(pay) = n BY <1>27, <1>29 DEF IsPayload
  <2>3. pay = Chunks!Payload(id, 0, 0 + n) BY <1>29, <1>30
  <2>4. 0 + n = n OBVIOUS
  <2>5. (IF h.fmt = 3 THEN aborted[c] ELSE 0) = 0 BY <1>10, <1>11
  <2>6. headers' = [headers EXCEPT ![c] = hd] /\ inSize' = inSize /\ error' = error
    BY <1>11, <1>20, <1>31 DEF Parsed
  <2>7. aborted' = [aborted EXCEPT ![c] = 0]
    <3>1. aborted' = [aborted EXCEPT ![c] = IF h.fmt = 3 THEN aborted[c] ELSE 0]
      BY <1>11, <1>31 DEF Parsed
    <3> QED BY <2>5, <3>1
  <2>8. assembly' = [assembly EXCEPT ![c] =
          IF n = length THEN {} ELSE {[header |-> hd, payload |-> pay]}]
    BY <1>11, <1>31, <2>1, <2>2 DEF Parsed
  <2>9. delivered' = IF n = length
                  THEN Append(delivered, [csid |-> c, time |-> hd.time, payload |-> pay]) ELSE delivered
    BY <1>11, <1>31, <2>1, <2>2 DEF Parsed
  <2> QED BY <2>3, <2>4, <2>6, <2>7, <2>8, <2>9 DEF Takes
<1>33. Chunks!Consume(j)
  <2>1. j = p + n BY <1>16
  <2> QED BY <1>31, <2>1 DEF Parsed
<1>34. 0 + n <= length /\ 0 \in Nat
  <2>1. w.outSize \in Nat BY <1>6 DEF Sound
  <2> QED BY <1>3, <2>1 DEF Lesser
<1>35. SentPart(W[0], W[j], completed, c, id, 0, length, hd.time, n)
  <2>1. hd.time = v.history[c].time BY <1>4, <1>21 DEF Reads
  <2> QED BY <1>1, <1>3, <2>1
<1>36. Reads(W[j].history[c], hd) BY <1>1, <1>4, <1>21
<1>37. W[j].outSize = W[0].outSize /\ Apart(W[0], W[j], c) /\ ~W[j].excess BY <1>1, <1>3
<1> QED BY <1>15, <1>21, <1>32, <1>33, <1>34, <1>35, <1>36, <1>37, FragmentTaken

(* A further chunk has been read, of a message being put together or of an  *)
(* aborted one.                                                             *)
LEMMA MessageGoesOn ==
  ASSUME ChunkInv, ~error, NEW W, NEW end, NEW j, Reading(W, end, j),
         Continues(W[0], W[j], buffer, completed, 0, j), Chunks!ParseChunk
  PROVE  ChunkInv'
<1>1. PICK w, v, b, z : w = W[0] /\ v = W[j] /\ b = buffer /\ z = completed OBVIOUS
<1>2. Continues(w, v, b, z, 0, j) BY <1>1
<1>3. PICK c \in Csids, n \in Nat : \E m \in w.out[c] :
        /\ b[0 + 1] = [unit |-> "header", csid |-> c, fmt |-> 3, length |-> 0, field |-> 0]
        /\ n = Lesser(w.outSize, m.length - m.at) /\ Chunk(b, 0, j, w.history[c].ext, m.id, m.at, n)
        /\ ~m.dead => SentPart(w, v, z, c, m.id, m.at, m.length, m.time, n)
        /\ m.dead => /\ v.done = w.done /\ v.excess = w.excess
                     /\ v.out[c] = IF m.at + n < m.length THEN {[m EXCEPT !.at = @ + n]} ELSE {}
        /\ v.outSize = w.outSize /\ v.history[c] = w.history[c] /\ Apart(w, v, c)
  BY <1>2 DEF Continues
<1>4. PICK m \in w.out[c] :
        /\ b[0 + 1] = [unit |-> "header", csid |-> c, fmt |-> 3, length |-> 0, field |-> 0]
        /\ n = Lesser(w.outSize, m.length - m.at) /\ Chunk(b, 0, j, w.history[c].ext, m.id, m.at, n)
        /\ ~m.dead => SentPart(w, v, z, c, m.id, m.at, m.length, m.time, n)
        /\ m.dead => /\ v.done = w.done /\ v.excess = w.excess
                     /\ v.out[c] = IF m.at + n < m.length THEN {[m EXCEPT !.at = @ + n]} ELSE {}
        /\ v.outSize = w.outSize /\ v.history[c] = w.history[c] /\ Apart(w, v, c)
  BY <1>3
<1>5. PICK h, q, hd, id, at, length :
        /\ h = b[1] /\ q = w.history[c] /\ hd = headers[c] /\ id = m.id /\ at = m.at /\ length = m.length
  OBVIOUS
<1>6. /\ end \in Nat /\ j \in Nat /\ 0 < j /\ j <= end /\ end <= Len(buffer) /\ Len(buffer) \in Nat
      /\ Sound(w, z) /\ Sound(v, z) /\ buffer \in Seq(StreamUnit) /\ Head(buffer) = h
  BY <1>1, <1>5, ReadingIs
<1>7. Matched(w) BY <1>1 DEF Reading
<1>8. Matches(w.out[c], q, hd, assembly[c], aborted[c]) /\ inSize = w.outSize
  BY <1>5, <1>7 DEF Matched
<1>9. StreamSound(w.out[c], q) BY <1>5, <1>6 DEF Sound
<1>10. /\ m \in Sending /\ q \in Past /\ at < length /\ w.out[c] = {m}
       /\ ~m.dead => m.time = q.time /\ length = q.length
  BY <1>5, <1>9 DEF StreamSound
<1>11. id \in Nat /\ at \in Nat /\ length \in Nat /\ m.dead \in BOOLEAN /\ length - at \in Nat
  <2>1. id \in Nat /\ at \in Nat /\ length \in Nat /\ m.dead \in BOOLEAN BY <1>5, <1>10 DEF Sending
  <2> QED BY <1>10, <2>1
<1>12. h.unit = "header" /\ h.csid = c /\ h.fmt = 3
  <2>1. 0 + 1 = 1 OBVIOUS
  <2>2. h = [unit |-> "header", csid |-> c, fmt |-> 3, length |-> 0, field |-> 0]
    BY <1>4, <1>5, <2>1
  <2> QED BY <2>2
<1>13. Reads(q, hd) /\ hd \in ReadHeader BY <1>8, <1>10 DEF Matches, Reads
<1>14. ~Chunks!OutOfStep(h)
  <2>1. Chunks!Known(headers[h.csid]) BY <1>5, <1>12, <1>13 DEF Chunks!Known, ReadHeader
  <2> QED BY <1>12, <2>1 DEF Chunks!OutOfStep
<1>15. PICK p \in {1, 2} : /\ p = 2 <=> q.ext
                           /\ j = 0 + p + n
                           /\ \A i \in 1 .. n : b[0 + p + i] = [unit |-> "payload", id |-> id, at |-> at + i - 1]
  <2>1. Chunk(b, 0, j, q.ext, id, at, n) BY <1>4, <1>5
  <2> QED BY <2>1 DEF Chunk
<1>16. UNCHANGED Chunks!serverVars BY DEF Chunks!ParseChunk
<1>17. inSize \in Nat \ {0} BY <1>6, <1>8 DEF Sound
<1>18. n = Lesser(inSize, length - at) BY <1>4, <1>5, <1>8
<1>19. at + n <= length
  <2>1. n = IF inSize <= length - at THEN inSize ELSE length - at BY <1>18 DEF Lesser
  <2> QED BY <1>11, <1>17, <2>1
<1>20. Chunks!Min({inSize, length - at}) = n BY <1>11, <1>17, <1>18, LesserIs
<1>21. hd.ext <=> q.ext BY <1>13 DEF Reads
<1>22. CASE m.dead
  <2>1. assembly[c] = {} /\ aborted[c] = length - at
    <3>1. m \in w.out[c] OBVIOUS
    <3> QED BY <1>5, <1>8, <1>22, <3>1 DEF Matches
  <2>2. aborted[c] > 0 BY <1>10, <1>11, <2>1
  <2>3. Chunks!SkipAborted(h) BY <1>6, <1>12, <1>14, <2>2 DEF Chunks!ParseChunk
  <2>4. Chunks!Min({inSize, aborted[h.csid]}) = n BY <1>12, <1>20, <2>1
  <2>5. 1 + (IF headers[h.csid].ext THEN 1 ELSE 0) + n = j
    <3>1. headers[h.csid].ext <=> q.ext BY <1>5, <1>12, <1>21
    <3> QED BY <1>15, <3>1
  <2>6. /\ Chunks!Consume(j) /\ aborted' = [aborted EXCEPT ![c] = @ - n]
        /\ UNCHANGED <<inSize, headers, assembly, delivered, error>>
    BY <1>12, <2>3, <2>4, <2>5 DEF Chunks!SkipAborted
  <2>7. ChunkTypes /\ Delivered BY DEF ChunkInv
  <2>8. aborted' \in [Csids -> Nat] /\ aborted'[c] = length - at - n /\ \A d \in Csids : d # c => aborted'[d] = aborted[d]
    <3>1. PICK r \in Nat : r = length - at - n BY <1>11, <1>19
    <3>2. aborted \in [Csids -> Nat] BY <2>7 DEF ChunkTypes
    <3>3. aborted' = [aborted EXCEPT ![c] = r] BY <2>1, <2>6, <3>1
    <3> QED BY <3>1, <3>2, <3>3
  <2>9. Matches(v.out[c], q, hd, {}, length - at - n)
    <3>1. q # Chunks!Unset BY <1>10, KnownIs
    <3>2. CASE at + n < length
      <4>1. PICK m2 : m2 = [m EXCEPT !.at = @ + n] OBVIOUS
      <4>2. m2.at = at + n /\ m2.length = length /\ m2.dead = m.dead
        BY <1>5, <1>10, <4>1 DEF Sending
      <4>3. v.out[c] = {m2} BY <1>4, <1>5, <1>22, <3>2, <4>1
      <4>4. length - at - n = length - (at + n) BY <1>11
      <4> QED BY <1>13, <1>22, <3>1, <4>2, <4>3, <4>4 DEF Matches, Reads
    <3>3. CASE ~(at + n < length)
      <4>1. v.out[c] = {} BY <1>4, <1>5, <1>22, <3>3
      <4>2. length - at - n = 0 BY <1>11, <1>19, <3>3
      <4> QED BY <1>13, <3>1, <4>1, <4>2 DEF Matches, Reads
    <3> QED BY <3>2, <3>3
  <2>10. Matched(v)'
    <3>1. inSize' = v.outSize /\ Len(delivered') = v.done /\ ~v.excess BY <1>4, <1>7, <1>22, <2>6 DEF Matched
    <3>2. ASSUME NEW d \in Csids PROVE Matches(v.out[d], v.history[d], headers'[d], assembly'[d], aborted'[d])
      <4>1. CASE d = c BY <1>4, <1>5, <2>1, <2>6, <2>8, <2>9, <4>1
      <4>2. CASE d # c
        <5>1. Matches(w.out[d], w.history[d], headers[d], assembly[d], aborted[d])
          BY <1>7 DEF Matched
        <5>2. v.out[d] = w.out[d] /\ v.history[d] = w.history[d] BY <1>4, <4>2 DEF Apart
        <5> QED BY <2>6, <2>8, <4>2, <5>1, <5>2
      <4> QED BY <4>1, <4>2
    <3> QED BY <3>1, <3>2 DEF Matched
  <2>11. Matched(W[j])' BY <1>1, <2>10 DEF Matched
  <2>12. Delivered' BY <1>16, <2>6, <2>7 DEF Delivered, Chunks!serverVars
  <2>13. /\ inSize' \in Nat \ {0} /\ headers' \in [Csids -> ReadHeader \cup {Chunks!Unset}]
         /\ assembly' \in [Csids -> SUBSET [header : ReadHeader, payload : Seq(PayloadUnit)]]
         /\ delivered' \in Seq(Delivery) /\ error' \in BOOLEAN /\ ~error'
    BY <2>6, <2>7 DEF ChunkTypes
  <2> QED BY <1>16, <2>6, <2>8, <2>11, <2>12, <2>13, ChunkDone
<1>23. CASE ~m.dead
  <2>1. PICK pre : pre = Chunks!Payload(id, 0, at) OBVIOUS
  <2>2. assembly[c] = {[header |-> hd, payload |-> pre]} /\ aborted[c] = 0
    <3>1. m \in w.out[c] OBVIOUS
    <3> QED BY <1>5, <1>8, <1>23, <2>1, <3>1 DEF Matches
  <2>3. Chunks!ParseFragment(h, Chunks!Held(h.csid)) BY <1>6, <1>12, <1>14, <2>2 DEF Chunks!ParseChunk
  <2>4. PICK a : a = [header |-> hd, payload |-> pre] OBVIOUS
  <2>5. a = GoesInto(h) /\ a.header = hd /\ a.payload = pre
    <3>1. assembly[h.csid] = {a} BY <1>12, <2>2, <2>4
    <3>2. (CHOOSE y \in {a} : TRUE) = a OBVIOUS
    <3> QED BY <1>12, <2>4, <3>1, <3>2 DEF GoesInto
  <2>6. pre \in Seq(PayloadUnit) /\ Len(pre) = at
    <3>1. IsPayload(Chunks!Payload(id, 0, at), id, 0, at)
      <4>1. 0 \in Nat OBVIOUS
      <4> QED BY <1>11, <4>1, PayloadIs
    <3> QED BY <2>1, <3>1 DEF IsPayload
  <2>7. hd.length = length BY <1>10, <1>13, <1>23 DEF Reads
  <2>8. HasExt(h) <=> q.ext
    <3>1. HasExt(h) = hd.ext BY <1>5, <1>12 DEF HasExt
    <3> QED BY <1>21, <3>1, Zenon
  <2>9. p = 1 + (IF HasExt(h) THEN 1 ELSE 0) BY <1>15, <2>8
  <2>10. n = Chunks!Min({inSize, a.header.length - Len(a.payload)}) BY <1>20, <2>5, <2>6, <2>7
  <2>11. PICK s : s = SubSeq(b, p + 1, p + n) OBVIOUS
  <2>12. IsPayload(s, id, at, n)
    <3>1. b \in Seq(StreamUnit) BY <1>1, <1>6
    <3>2. IsPayload(SubSeq(b, p + 1, p + n), id, at, n) BY <1>11, <1>15, <3>1, SliceIs
    <3> QED BY <2>11, <3>2
  <2>13. PICK pay : pay = a.payload \o SubSeq(buffer, p + 1, p + n) OBVIOUS
  <2>14. pay = Chunks!Payload(id, 0, at + n)
    <3>1. Chunks!Payload(id, 0, at) \o s = Chunks!Payload(id, 0, at + n)
      <4>1. id \in Nat /\ at \in Nat BY <1>11
      <4>2. GoesOn(id, at, n, s) BY <2>12, <4>1, PayloadGrows
      <4> QED BY <4>2 DEF GoesOn
    <3>2. b = buffer BY <1>1
    <3>3. pay = pre \o s BY <2>5, <2>11, <2>13, <3>2
    <3> QED BY <2>1, <3>1, <3>3
  <2>16. Len(pay) = at + n
    <3>1. PICK l \in Nat : l = at + n BY <1>11
    <3>2. IsPayload(Chunks!Payload(id, 0, l), id, 0, l)
      <4>1. 0 \in Nat OBVIOUS
      <4> QED BY <1>11, <4>1, PayloadIs
    <3> QED BY <2>14, <3>1, <3>2 DEF IsPayload
  <2>24. IF Overlong(h) \/ Overfull(h, a, pay) THEN Chunks!Fail ELSE Parsed(h, a, p, n, pay)
    BY <2>3, <2>5, <2>9, <2>10, <2>13, FragmentIs
  <2>17. StandsFor(h) = hd
    <3>1. ~(h.fmt # 3 \/ assembly[h.csid] = {}) BY <1>12, <2>2
    <3>2. StandsFor(h) = [hd EXCEPT !.time = @] BY <1>5, <1>12, <3>1 DEF StandsFor, Chunks!NewHeader
    <3>3. [hd EXCEPT !.time = @] = hd BY <1>13 DEF ReadHeader
    <3> QED BY <3>2, <3>3
  <2>25. Overlong(h) \/ Overfull(h, a, pay) <=> v.excess
    <3>1. a.header.length = length BY <2>5, <2>7
    <3>2. Overlong(h) <=> length > MaxMessage BY <2>7, <2>17 DEF Overlong
    <3>3. SentPart(w, v, z, c, id, at, length, m.time, n) BY <1>4, <1>5, <1>23
    <3>4. v.excess <=> length > MaxMessage \/ (at + n < length /\ Chunks!UnderWay(v.out, c) + (at + n) > MaxHeld)
      BY <1>7, <3>3 DEF SentPart, Matched
    <3>5. at + n \in Nat
      <4>1. n \in Nat OBVIOUS
      <4> QED BY <1>11, <4>1
    <3>6. CASE at + n = length BY <2>16, <3>1, <3>2, <3>4, <3>6 DEF Overfull
    <3>7. CASE at + n # length
      <4>1. at + n < length BY <1>11, <1>19, <3>5, <3>7
      <4>2. Chunks!Held(c) = Chunks!UnderWay(v.out, c)
        <5>1. ChunkTypes /\ Apart(w, v, c) BY <1>4 DEF ChunkInv
        <5> QED BY <1>6, <1>7, <5>1, HeldIs
      <4>3. Overfull(h, a, pay) <=> Chunks!UnderWay(v.out, c) + (at + n) > MaxHeld
        BY <1>12, <2>16, <3>1, <3>7, <4>2 DEF Overfull
      <4> QED BY <3>2, <3>4, <4>1, <4>3
    <3> QED BY <3>6, <3>7
  <2>26. CASE v.excess
    <3>1. excess BY <1>1, <2>26, ExcessStays
    <3>2. buffer # <<>> BY DEF Chunks!ParseChunk
    <3> QED BY <1>16, <2>24, <2>25, <2>26, <3>1, <3>2, ParserFails
  <2> SUFFICES ASSUME ~v.excess PROVE ChunkInv' BY <2>26
  <2>15. Parsed(h, a, p, n, pay) BY <2>24, <2>25
  <2>18. Takes(c, hd, id, at, length, n)
    <3>1. headers' = [headers EXCEPT ![c] = hd] /\ inSize' = inSize /\ error' = error
      BY <1>12, <2>15, <2>17 DEF Parsed
    <3>2. aborted' = [aborted EXCEPT ![c] = 0]
      <4>1. aborted' = [aborted EXCEPT ![c] = aborted[c]] BY <1>12, <2>15 DEF Parsed
      <4> QED BY <2>2, <4>1
    <3>3. assembly' = [assembly EXCEPT ![c] =
            IF at + n = length THEN {} ELSE {[header |-> hd, payload |-> pay]}]
      BY <1>12, <2>5, <2>7, <2>15, <2>16 DEF Parsed
    <3>4. delivered' = IF at + n = length
                    THEN Append(delivered, [csid |-> c, time |-> hd.time, payload |-> pay]) ELSE delivered
      BY <1>12, <2>5, <2>7, <2>15, <2>16 DEF Parsed
    <3> QED BY <2>14, <3>1, <3>2, <3>3, <3>4 DEF Takes
  <2>19. Chunks!Consume(j)
    <3>1. j = p + n BY <1>15
    <3> QED BY <2>15, <3>1 DEF Parsed
  <2>20. SentPart(W[0], W[j], completed, c, id, at, length, hd.time, n)
    <3>1. hd.time = m.time BY <1>10, <1>13, <1>23 DEF Reads
    <3> QED BY <1>1, <1>4, <1>5, <1>23, <3>1
  <2>21. Reads(W[j].history[c], hd) BY <1>1, <1>4, <1>5, <1>13
  <2>22. W[j].outSize = W[0].outSize /\ Apart(W[0], W[j], c) /\ ~W[j].excess BY <1>1, <1>4
  <2>23. id \in Nat /\ at \in Nat /\ length \in Nat /\ at + n <= length BY <1>11, <1>19
  <2> QED BY <1>16, <2>7, <2>18, <2>19, <2>20, <2>21, <2>22, <2>23, FragmentTaken
<1> QED BY <1>22, <1>23

LEMMA SizeRead ==
  ASSUME ChunkInv, ~error, NEW W, NEW end, NEW j, Reading(W, end, j),
         Resizes(W[0], W[j], buffer, 0, j), Chunks!ParseChunkSize
  PROVE  ChunkInv'
<1>1. PICK w, v : w = W[0] /\ v = W[j] OBVIOUS
<1>2. /\ buffer[0 + 1] = [unit |-> "size", value |-> v.outSize] /\ j = 0 + 1 /\ v.done = w.done
      /\ v.excess = w.excess
      /\ \A c \in Csids : v.out[c] = w.out[c] /\ v.history[c] = w.history[c]
  BY <1>1 DEF Resizes
<1>3. Sound(v, completed) /\ Head(buffer) = buffer[1] BY <1>1, ReadingIs
<1>4. Matched(w) BY <1>1 DEF Reading
<1>5. Head(buffer).value = v.outSize
  <2>1. 0 + 1 = 1 OBVIOUS
  <2> QED BY <1>2, <1>3, <2>1
<1>6. /\ inSize' = v.outSize /\ Chunks!Consume(j)
      /\ UNCHANGED <<Chunks!serverVars, headers, assembly, aborted, delivered, error>>
  <2>1. j = 1 BY <1>2
  <2> QED BY <1>5, <2>1 DEF Chunks!ParseChunkSize
<1>7. ChunkTypes /\ Delivered BY DEF ChunkInv
<1>8. Matched(W[j])'
  <2>1. Matched(v)'
    <3>1. Len(delivered') = v.done /\ ~v.excess BY <1>2, <1>4, <1>6 DEF Matched
    <3>2. ASSUME NEW d \in Csids PROVE Matches(v.out[d], v.history[d], headers'[d], assembly'[d], aborted'[d])
      <4>1. Matches(w.out[d], w.history[d], headers[d], assembly[d], aborted[d]) BY <1>4 DEF Matched
      <4> QED BY <1>2, <1>6, <4>1
    <3> QED BY <1>6, <3>1, <3>2 DEF Matched
  <2> QED BY <1>1, <2>1 DEF Matched
<1>9. Delivered' BY <1>6, <1>7 DEF Delivered, Chunks!serverVars
<1>10. inSize' \in Nat \ {0} BY <1>3, <1>6 DEF Sound
<1>11. /\ headers' \in [Csids -> ReadHeader \cup {Chunks!Unset}]
       /\ assembly' \in [Csids -> SUBSET [header : ReadHeader, payload : Seq(PayloadUnit)]]
       /\ aborted' \in [Csids -> Nat] /\ delivered' \in Seq(Delivery) /\ error' \in BOOLEAN /\ ~error'
  BY <1>6, <1>7 DEF ChunkTypes
<1> QED BY <1>6, <1>8, <1>9, <1>10, <1>11, ChunkDone

LEMMA AbortRead ==
  ASSUME ChunkInv, ~error, NEW W, NEW end, NEW j, Reading(W, end, j),
         Aborts(W[0], W[j], buffer, 0, j), Chunks!ParseAbort
  PROVE  ChunkInv'
<1>1. PICK w, v : w = W[0] /\ v = W[j] OBVIOUS
<1>2. Aborts(w, v, buffer, 0, j) BY <1>1
<1>3. PICK c \in Csids : \E m \in w.out[c] :
        /\ buffer[0 + 1] = [unit |-> "abort", csid |-> c] /\ j = 0 + 1
        /\ ~m.dead /\ v.out[c] = {[m EXCEPT !.dead = TRUE]} /\ v.history[c] = w.history[c]
        /\ v.outSize = w.outSize /\ v.done = w.done /\ v.excess = w.excess /\ Apart(w, v, c)
  BY <1>2 DEF Aborts
<1>4. PICK m \in w.out[c] :
        /\ buffer[0 + 1] = [unit |-> "abort", csid |-> c] /\ j = 0 + 1
        /\ ~m.dead /\ v.out[c] = {[m EXCEPT !.dead = TRUE]} /\ v.history[c] = w.history[c]
        /\ v.outSize = w.outSize /\ v.done = w.done /\ v.excess = w.excess /\ Apart(w, v, c)
  BY <1>3
<1>5. Sound(w, completed) /\ Head(buffer) = buffer[1] BY <1>1, ReadingIs
<1>6. Matched(w) BY <1>1 DEF Reading
<1>7. Head(buffer).csid = c /\ j = 1
  <2>1. 0 + 1 = 1 OBVIOUS
  <2> QED BY <1>4, <1>5, <2>1
<1>8. PICK q, hd, pre : q = w.history[c] /\ hd = headers[c] /\ pre = Chunks!Payload(m.id, 0, m.at) OBVIOUS
<1>9. Matches(w.out[c], q, hd, assembly[c], aborted[c]) BY <1>6, <1>8 DEF Matched
<1>10. /\ m \in Sending /\ q \in Past /\ m.at < m.length /\ m.length = q.length
  <2>1. StreamSound(w.out[c], q) BY <1>5, <1>8 DEF Sound
  <2> QED BY <1>4, <2>1 DEF StreamSound
<1>11. m.id \in Nat /\ m.at \in Nat /\ m.length \in Nat BY <1>10 DEF Sending
<1>12. assembly[c] = {[header |-> hd, payload |-> pre]} BY <1>4, <1>8, <1>9 DEF Matches
<1>13. hd.length = m.length BY <1>9, <1>10 DEF Matches
<1>14. Len(pre) = m.at
  <2>1. PICK id \in Nat, at \in Nat : id = m.id /\ at = m.at BY <1>11
  <2>2. IsPayload(Chunks!Payload(id, 0, at), id, 0, at)
    <3>1. 0 \in Nat OBVIOUS
    <3> QED BY <3>1, PayloadIs
  <2> QED BY <1>8, <2>1, <2>2 DEF IsPayload
<1>15. PICK r \in Nat : r = m.length - m.at BY <1>10, <1>11
<1>16. PICK a : a = [header |-> hd, payload |-> pre] OBVIOUS
<1>17. assembly[c] = {a} /\ a.header.length - Len(a.payload) = r /\ (CHOOSE x \in {a} : TRUE) = a
  BY <1>12, <1>13, <1>14, <1>15, <1>16
<1>18. /\ aborted' = [aborted EXCEPT ![c] = r] /\ assembly' = [assembly EXCEPT ![c] = {}] /\ Chunks!Consume(j)
       /\ UNCHANGED <<Chunks!serverVars, inSize, headers, delivered, error>>
  <2>1. Chunks!Abort(c) /\ Chunks!Consume(j) /\ UNCHANGED <<Chunks!serverVars, inSize, headers, delivered, error>>
    BY <1>7 DEF Chunks!ParseAbort
  <2>2. (IF assembly[c] = {} THEN aborted[c]
         ELSE LET x == CHOOSE y \in assembly[c] : TRUE IN x.header.length - Len(x.payload)) = r
    BY <1>17
  <2>3. aborted' = [aborted EXCEPT ![c] = IF assembly[c] = {} THEN aborted[c]
                      ELSE LET x == CHOOSE y \in assembly[c] : TRUE IN x.header.length - Len(x.payload)]
    BY <2>1 DEF Chunks!Abort
  <2>4. assembly' = [assembly EXCEPT ![c] = {}] BY <2>1 DEF Chunks!Abort
  <2> QED BY <2>1, <2>2, <2>3, <2>4
<1>19. ChunkTypes /\ Delivered BY DEF ChunkInv
<1>20. aborted' \in [Csids -> Nat] /\ aborted'[c] = r /\ \A d \in Csids : d # c => aborted'[d] = aborted[d]
  <2>1. aborted \in [Csids -> Nat] BY <1>19 DEF ChunkTypes
  <2> QED BY <1>18, <2>1
<1>21. /\ assembly' \in [Csids -> SUBSET [header : ReadHeader, payload : Seq(PayloadUnit)]]
       /\ assembly'[c] = {} /\ \A d \in Csids : d # c => assembly'[d] = assembly[d]
  <2>1. assembly \in [Csids -> SUBSET [header : ReadHeader, payload : Seq(PayloadUnit)]]
    BY <1>19 DEF ChunkTypes
  <2> QED BY <1>18, <2>1
<1>22. Matches(v.out[c], q, hd, {}, r)
  <2>1. PICK m2 : m2 = [m EXCEPT !.dead = TRUE] OBVIOUS
  <2>2. m2.at = m.at /\ m2.length = m.length BY <1>10, <2>1 DEF Sending
  <2>3. m2.dead BY <1>10, <2>1 DEF Sending
  <2>4. v.out[c] = {m2} BY <1>4, <2>1
  <2>5. q # Chunks!Unset BY <1>10, KnownIs
  <2>6. r = m2.length - m2.at BY <1>15, <2>2
  <2> QED BY <1>9, <2>3, <2>4, <2>5, <2>6 DEF Matches
<1>23. Matched(v)'
  <2>1. inSize' = v.outSize /\ Len(delivered') = v.done /\ ~v.excess BY <1>4, <1>6, <1>18 DEF Matched
  <2>2. ASSUME NEW d \in Csids PROVE Matches(v.out[d], v.history[d], headers'[d], assembly'[d], aborted'[d])
    <3>1. CASE d = c BY <1>4, <1>8, <1>18, <1>20, <1>21, <1>22, <3>1
    <3>2. CASE d # c
      <4>1. Matches(w.out[d], w.history[d], headers[d], assembly[d], aborted[d]) BY <1>6 DEF Matched
      <4>2. v.out[d] = w.out[d] /\ v.history[d] = w.history[d] BY <1>4, <3>2 DEF Apart
      <4> QED BY <1>18, <1>20, <1>21, <3>2, <4>1, <4>2
    <3> QED BY <3>1, <3>2
  <2> QED BY <2>1, <2>2 DEF Matched
<1>24. Matched(W[j])' BY <1>1, <1>23 DEF Matched
<1>25. Delivered' BY <1>18, <1>19 DEF Delivered, Chunks!serverVars
<1>26. /\ inSize' \in Nat \ {0} /\ headers' \in [Csids -> ReadHeader \cup {Chunks!Unset}]
       /\ delivered' \in Seq(Delivery) /\ error' \in BOOLEAN /\ ~error'
  BY <1>18, <1>19 DEF ChunkTypes
<1> QED BY <1>18, <1>20, <1>21, <1>24, <1>25, <1>26, ChunkDone

(* The parser meets what breaks the protocol.                               *)
LEMMA BreachRead ==
  ASSUME ChunkInv, ~error, broken, Illegal(ServerNow, Head(buffer)), Matched(ServerNow), buffer # <<>>, Chunks!ParseChunk
  PROVE  ChunkInv'
<1>1. PICK h : h = Head(buffer) OBVIOUS
<1>2. h \in HeaderUnit /\ h.csid \in Csids /\ h.unit = "header" BY <1>1 DEF Illegal, HeaderUnit
<1>3. PICK c \in Csids : c = h.csid BY <1>2
<1>4. Matches(out[c], history[c], headers[c], assembly[c], aborted[c]) BY NowIs DEF Matched
<1>5. Chunks!OutOfStep(h)
  <2>1. CASE h.fmt = 0 /\ \E m \in out[c] : ~m.dead
    <3>1. assembly[c] # {} BY <1>4, <2>1 DEF Matches
    <3> QED BY <1>3, <2>1, <3>1 DEF Chunks!OutOfStep
  <2>2. CASE h.fmt = 1 /\ history[c] = Chunks!Unset
    <3>1. headers[c] = Chunks!Unset BY <1>4, <2>2 DEF Matches
    <3>2. ~Chunks!Known(headers[c]) BY <3>1 DEF Chunks!Known, Chunks!Unset
    <3> QED BY <1>3, <2>2, <3>2 DEF Chunks!OutOfStep
  <2>3. \/ h.fmt = 0 /\ \E m \in out[c] : ~m.dead
        \/ h.fmt = 1 /\ history[c] = Chunks!Unset
    BY <1>1, <1>3, NowIs DEF Illegal
  <2> QED BY <2>1, <2>2, <2>3
<1>6. Chunks!Fail /\ UNCHANGED Chunks!serverVars BY <1>1, <1>5 DEF Chunks!ParseChunk
<1> QED BY <1>6, ParserFails

(* What lies before the parser tells what it does with it.                  *)
LEMMA UnitBefore ==
  ASSUME ChunkInv, NEW W, NEW end, NEW j, Reading(W, end, j)
  PROVE  /\ Begins(W[0], W[j], buffer, completed, 0, j) => Head(buffer).unit = "header"
         /\ Continues(W[0], W[j], buffer, completed, 0, j) => Head(buffer).unit = "header"
         /\ Resizes(W[0], W[j], buffer, 0, j) => Head(buffer).unit = "size"
         /\ Aborts(W[0], W[j], buffer, 0, j) => Head(buffer).unit = "abort"
<1>1. Head(buffer) = buffer[0 + 1]
  <2>1. 0 + 1 = 1 OBVIOUS
  <2> QED BY <2>1, ReadingIs
<1>2. Begins(W[0], W[j], buffer, completed, 0, j) => buffer[0 + 1] \in HeaderUnit
  BY DEF Begins, Opens
<1>3. Continues(W[0], W[j], buffer, completed, 0, j) => buffer[0 + 1].unit = "header"
  BY DEF Continues
<1>4. Resizes(W[0], W[j], buffer, 0, j) => buffer[0 + 1].unit = "size" BY DEF Resizes
<1>5. Aborts(W[0], W[j], buffer, 0, j) => buffer[0 + 1].unit = "abort" BY DEF Aborts
<1>6. \A h \in HeaderUnit : h.unit = "header" BY DEF HeaderUnit
<1> QED BY <1>1, <1>2, <1>3, <1>4, <1>5, <1>6

LEMMA ParserStep ==
  ASSUME Chunks!ChunkAssumption, ChunkInv, Chunks!ParseChunk \/ Chunks!ParseChunkSize \/ Chunks!ParseAbort
  PROVE  ChunkInv'
<1>1. ~error /\ buffer # <<>> BY DEF Chunks!ParseChunk, Chunks!ParseChunkSize, Chunks!ParseAbort
<1>2. /\ Chunks!ParseChunk => Head(buffer).unit \notin {"size", "abort"}
      /\ Chunks!ParseChunkSize => Head(buffer).unit = "size"
      /\ Chunks!ParseAbort => Head(buffer).unit = "abort"
  BY DEF Chunks!ParseChunk, Chunks!ParseChunkSize, Chunks!ParseAbort
<1>3. CASE Illegal(ServerNow, Head(buffer)) /\ Matched(ServerNow) /\ broken
  <2>1. Head(buffer).unit = "header" BY <1>3 DEF Illegal, HeaderUnit
  <2>2. Chunks!ParseChunk BY <1>2, <2>1
  <2> QED BY <1>1, <1>3, <2>2, BreachRead
<1>4. ASSUME NEW W, NEW end, NEW j, Reading(W, end, j) PROVE ChunkInv'
  <2>1. Linked(W[0], W[j], buffer, completed, 0, j) BY <1>4 DEF Reading
  <2>2. /\ Begins(W[0], W[j], buffer, completed, 0, j) => Head(buffer).unit = "header"
        /\ Continues(W[0], W[j], buffer, completed, 0, j) => Head(buffer).unit = "header"
        /\ Resizes(W[0], W[j], buffer, 0, j) => Head(buffer).unit = "size"
        /\ Aborts(W[0], W[j], buffer, 0, j) => Head(buffer).unit = "abort"
    BY <1>4, UnitBefore
  <2>3. CASE Begins(W[0], W[j], buffer, completed, 0, j)
    <3>1. Chunks!ParseChunk BY <1>2, <2>2, <2>3
    <3> QED BY <1>1, <1>4, <2>3, <3>1, MessageStarts
  <2>4. CASE Continues(W[0], W[j], buffer, completed, 0, j)
    <3>1. Chunks!ParseChunk BY <1>2, <2>2, <2>4
    <3> QED BY <1>1, <1>4, <2>4, <3>1, MessageGoesOn
  <2>5. CASE Resizes(W[0], W[j], buffer, 0, j)
    <3>1. Chunks!ParseChunkSize BY <1>2, <2>2, <2>5
    <3> QED BY <1>1, <1>4, <2>5, <3>1, SizeRead
  <2>6. CASE Aborts(W[0], W[j], buffer, 0, j)
    <3>1. Chunks!ParseAbort BY <1>2, <2>2, <2>6
    <3> QED BY <1>1, <1>4, <2>6, <3>1, AbortRead
  <2> QED BY <2>1, <2>3, <2>4, <2>5, <2>6 DEF Linked
<1> QED BY <1>1, <1>3, <1>4, NextChunk

LEMMA ChunkStart == Chunks!ChunkAssumption /\ Chunks!Init => ChunkInv
<1> SUFFICES ASSUME Chunks!ChunkAssumption, Chunks!Init PROVE ChunkInv OBVIOUS
<1>1. /\ out = [c \in Csids |-> {}] /\ history = [c \in Csids |-> Chunks!Unset]
      /\ outSize = FirstSize /\ messages = [all |-> 0, control |-> 0] /\ completed = <<>>
      /\ broken = FALSE /\ excess = FALSE /\ buffer = <<>> /\ inSize = FirstSize
      /\ headers = [c \in Csids |-> Chunks!Unset]
      /\ assembly = [c \in Csids |-> {}] /\ aborted = [c \in Csids |-> 0]
      /\ delivered = <<>> /\ error = FALSE
  BY DEF Chunks!Init
<1>2. FirstSize \in Nat \ {0} BY DEF Chunks!ChunkAssumption
<1>3. ChunkTypes
  <2>1. completed \in Seq(Message) /\ buffer \in Seq(StreamUnit) /\ delivered \in Seq(Delivery)
    BY <1>1
  <2>2. out \in [Csids -> SUBSET Sending] /\ history \in [Csids -> Past \cup {Chunks!Unset}] BY <1>1
  <2>3. /\ headers \in [Csids -> ReadHeader \cup {Chunks!Unset}] /\ aborted \in [Csids -> Nat]
        /\ assembly \in [Csids -> SUBSET [header : ReadHeader, payload : Seq(PayloadUnit)]]
    BY <1>1
  <2>4. messages \in [all : Nat, control : Nat] BY <1>1
  <2>5. outSize \in Nat \ {0} /\ inSize \in Nat \ {0} /\ broken \in BOOLEAN /\ excess \in BOOLEAN /\ error \in BOOLEAN
    BY <1>1, <1>2
  <2> QED BY <2>1, <2>2, <2>3, <2>4, <2>5 DEF ChunkTypes
<1>4. Len(delivered) = 0 /\ Len(completed) = 0 /\ Len(buffer) = 0 BY <1>1
<1>5. Delivered BY <1>4 DEF Delivered
<1>6. Sound(ServerNow, completed)
  <2>1. \A c \in Csids : StreamSound(out[c], history[c]) BY <1>1 DEF StreamSound
  <2> QED BY <1>1, <1>2, <1>4, <2>1, NowIs DEF Sound
<1>7. Matched(ServerNow)
  <2>1. \A c \in Csids : Matches(out[c], history[c], headers[c], assembly[c], aborted[c])
    BY <1>1, KnownIs DEF Matches
  <2> QED BY <1>1, <1>4, <2>1, NowIs DEF Matched
<1>8. InStep(Len(buffer))
  <2>1. PICK v : v = ServerNow OBVIOUS
  <2>2. PICK W : W = [k \in {0} |-> v] OBVIOUS
  <2>3. W = [k \in DOMAIN W |-> W[k]] /\ DOMAIN W = {0} /\ W[0] = v BY <2>2
  <2>4. Bounds(W, buffer, completed, 0)
    <3>1. Sound(W[0], completed) BY <1>6, <2>1, <2>3
    <3> QED BY <2>3, <3>1 DEF Bounds
  <2>5. Matched(W[0]) BY <1>7, <2>1, <2>3
  <2> QED BY <1>4, <2>1, <2>3, <2>4, <2>5 DEF InStep
<1> QED BY <1>1, <1>3, <1>5, <1>6, <1>8 DEF ChunkInv

LEMMA ChunkTruth == ChunkInv => Chunks!MessagesComeOutWhole
<1> SUFFICES ASSUME ChunkInv PROVE Chunks!MessagesComeOutWhole OBVIOUS
<1>1. error => broken \/ excess BY DEF ChunkInv
<1>2. Len(delivered) <= Len(completed) /\ \A i \in 1 .. Len(delivered) : Chunks!Faithful(completed[i], delivered[i])
  BY DEF ChunkInv, Delivered
<1>3. ASSUME buffer = <<>> PROVE ~excess /\ Len(delivered) = Len(completed)
  <2>1. ~error /\ ~broken BY <1>3 DEF ChunkInv
  <2>2. Len(buffer) = 0 BY <1>3
  <2>3. InStep(0) BY <2>1, <2>2 DEF ChunkInv
  <2>4. Matched(ServerNow) BY <2>3 DEF InStep
  <2> QED BY <2>4, NowIs DEF Matched
<1> QED BY <1>1, <1>2, <1>3 DEF Chunks!MessagesComeOutWhole

LEMMA ChunkStep == Chunks!ChunkAssumption /\ ChunkInv /\ [Chunks!Next]_chunksOwn => ChunkInv'
<1> SUFFICES ASSUME Chunks!ChunkAssumption, ChunkInv, [Chunks!Next]_chunksOwn PROVE ChunkInv' OBVIOUS
<1>1. CASE UNCHANGED chunksOwn
  <2>1. UNCHANGED <<out, history, outSize, messages, completed, broken, excess, buffer, inSize, headers, assembly,
                    aborted, delivered, error>>
    BY <1>1 DEF chunksOwn
  <2>2. ChunkTypes' = ChunkTypes BY <2>1 DEF ChunkTypes
  <2>3. Delivered' = Delivered BY <2>1 DEF Delivered
  <2>4. ServerNow' = ServerNow BY <2>1 DEF ServerNow
  <2>6. ASSUME NEW e, InStep(e) PROVE InStep(e)'
    <3>1. PICK W : W = [k \in DOMAIN W |-> W[k]] /\ Bounds(W, buffer, completed, e) /\ W[e] = ServerNow /\ Matched(W[0])
      BY <2>6 DEF InStep
    <3>2. Matched(W[0])' BY <2>1, <3>1 DEF Matched
    <3>3. Bounds(W, buffer', completed', e) /\ W[e] = ServerNow' BY <2>1, <2>4, <3>1
    <3> QED BY <3>1, <3>2, <3>3 DEF InStep
  <2>7. InStep(Len(buffer) - 1) => InStep(Len(buffer) - 1)'
    <3>1. PICK e : e = Len(buffer) - 1 OBVIOUS
    <3>2. InStep(e) => InStep(e)' BY <2>6
    <3>3. e = Len(buffer') - 1 BY <2>1, <3>1
    <3> QED BY <3>1, <3>2, <3>3 DEF InStep
  <2>8. InStep(Len(buffer)) => InStep(Len(buffer))'
    <3>1. PICK e : e = Len(buffer) OBVIOUS
    <3>2. InStep(e) => InStep(e)' BY <2>6
    <3>3. e = Len(buffer') BY <2>1, <3>1
    <3> QED BY <3>1, <3>2, <3>3 DEF InStep
  <2> QED BY <2>1, <2>2, <2>3, <2>4, <2>7, <2>8 DEF ChunkInv
<1>2. CASE Chunks!Next
  <2>1. CASE \E c \in Csids : \E l \in Lengths, t \in Steps, f \in 0 .. 3 :
            Chunks!BeginMessage(c, l, t, f, Chunks!UnderWay(out, c))
    BY <2>1, MessageBegun
  <2>2. CASE \E c \in Csids : Chunks!ContinueMessage(c, Chunks!UnderWay(out, c)) BY <2>2, MessageContinued
  <2>3. CASE \E c \in Csids : Chunks!SendAbort(c) BY <2>3, AbortSent
  <2>4. CASE \E c \in Csids : Chunks!BreakProtocol(c) BY <2>4, ProtocolBroken
  <2>5. CASE \E n \in ChunkSizes : Chunks!SendChunkSize(n) BY <2>5, SizeSent
  <2>6. CASE Chunks!ParseChunk \/ Chunks!ParseChunkSize \/ Chunks!ParseAbort BY <2>6, ParserStep
  <2> QED BY <1>2, <2>1, <2>2, <2>3, <2>4, <2>5, <2>6 DEF Chunks!Next
<1> QED BY <1>1, <1>2

-----------------------------------------------------------------------------
(* The encoder.  Frames are in line from the packets that are out to the    *)
(* one submitted, each of those the transform holds has its ticks in the    *)
(* table, and the table has room for what may still be added.               *)
CONSTANTS Depth, MaxInFlight, MaxPictures, MaxMishaps, MaxChanges
VARIABLES stage, streaming, encAsync, encCredits, nextTime, ticksOf, avcc, pictures, packets, gone,
          encWasted, encEvents, encAsked, coding, coded, draining, encChanges, mishaps
Encode == INSTANCE VideoEncoder WITH
  pc <- stage, isAsync <- encAsync, credits <- encCredits, frames <- pictures,
  events <- encEvents, asked <- encAsked, inside <- coding, ready <- coded,
  changes <- encChanges, wasted <- encWasted, MaxFrames <- MaxPictures
encodeOwn ==
  <<stage, streaming, encAsync, encCredits, nextTime, ticksOf, avcc, pictures, packets, gone,
    encWasted, encEvents, encAsked, coding, coded, draining, encChanges, mishaps>>

Of(s) == {s[i] : i \in DOMAIN s}
RisingUp(s) == \A i, j \in DOMAIN s : i < j => s[i] < s[j]
Frame == [at : Nat, ticks : Nat]
Live == Of(coding) \cup Of(coded)
Below == IF stage = "submit" THEN nextTime - 1 ELSE nextTime

EncodeTypes ==
  /\ stage \in {"none", "idle", "submit", "drain", "flush", "flushed"}
  /\ streaming \in BOOLEAN /\ encAsync \in BOOLEAN /\ draining \in BOOLEAN
  /\ encCredits \in Nat /\ nextTime \in Nat /\ encAsked \in Nat /\ encWasted \in Nat /\ encChanges \in Nat /\ mishaps \in Nat
  /\ ticksOf \subseteq Frame /\ IsFiniteSet(ticksOf) /\ pictures \subseteq Frame /\ packets \in Seq(Frame)
  /\ coding \in Seq(Nat) /\ coded \in Seq(Nat) /\ encEvents \in Seq({"need", "output", "drained"})
InLine ==
  /\ RisingUp(coding) /\ RisingUp(coded) /\ \A d \in Of(coded), c \in Of(coding) : d < c
  /\ \A i \in DOMAIN packets : i > 1 => packets[i - 1].at < packets[i].at
  /\ \A p \in Of(packets) : p \in pictures /\ p.at < Below /\ \A x \in Live : p.at < x
  /\ \A x \in Live : x < Below
EntriesKept ==
  /\ \A e, f \in ticksOf : e.at = f.at => e = f
  /\ \A e \in ticksOf : e.at < nextTime
  /\ \A x \in Live : \E e \in ticksOf : e.at = x /\ e \in pictures
  /\ stage = "submit" => \E e \in ticksOf : e.at = nextTime - 1
Accounted == {f.at : f \in pictures} = {p.at : p \in Of(packets)} \cup gone \cup Live
Lost == {e \in ticksOf : e.at \notin Live /\ e.at < Below}
Roomy ==
  /\ Cardinality(ticksOf) <= MaxInFlight /\ Cardinality(Lost) <= mishaps /\ mishaps <= MaxMishaps
  /\ ~encAsync => coded = <<>> /\ (stage \in {"idle", "submit"} => Len(coding) < Depth)
  /\ encAsync =>
       /\ encAsked = encCredits + Count(encEvents, "need") + encWasted
       /\ Len(coded) = Count(encEvents, "output")
       /\ Len(coding) + Len(coded) + encAsked <= Depth
Ending ==
  /\ draining <=> stage \in {"flush", "flushed"}
  /\ stage = "flushed" => Live = {}
  /\ "drained" \in Of(encEvents) => Live = {} /\ draining
  /\ stage = "none" => /\ ~streaming /\ ~encAsync /\ ticksOf = {} /\ Live = {} /\ encAsked = 0 /\ encCredits = 0 /\ encWasted = 0
                       /\ encEvents = <<>> /\ nextTime = 0
EncodeInv == EncodeTypes /\ InLine /\ EntriesKept /\ Accounted /\ Roomy /\ Ending

LEMMA EncodeCardinality == \A S : Encode!Cardinality(S) = Cardinality(S)
BY DEF Encode!Cardinality, Cardinality

LEMMA EncodeTruth == EncodeInv => Encode!PacketsKeepTheirTicks
<1> SUFFICES ASSUME EncodeInv PROVE Encode!PacketsKeepTheirTicks OBVIOUS
<1>1. ASSUME NEW i \in DOMAIN packets PROVE packets[i] \in pictures /\ (i > 1 => packets[i - 1].at < packets[i].at)
  BY <1>1 DEF EncodeInv, InLine, Of
<1>2. stage = "flushed" => {f.at : f \in pictures} = {packets[i].at : i \in DOMAIN packets} \cup gone
  BY DEF EncodeInv, Accounted, Ending, Of
<1>3. Encode!Cardinality(ticksOf) <= MaxInFlight BY EncodeCardinality DEF EncodeInv, Roomy
<1> QED BY <1>1, <1>2, <1>3 DEF Encode!PacketsKeepTheirTicks

LEMMA OfAppend ==
  ASSUME NEW S, NEW s \in Seq(S), NEW y \in S
  PROVE  /\ Append(s, y) \in Seq(S) /\ Len(Append(s, y)) = Len(s) + 1
         /\ Of(Append(s, y)) = Of(s) \cup {y}
<1> DEFINE t == Append(s, y)
<1>1. /\ t \in Seq(S) /\ Len(t) = Len(s) + 1 /\ Len(s) \in Nat /\ DOMAIN s = 1 .. Len(s)
      /\ \A i \in 1 .. Len(s) : t[i] = s[i]
      /\ t[Len(s) + 1] = y
  BY AppendProperties, LenProperties
<1>2. DOMAIN t = 1 .. Len(s) + 1 BY <1>1, LenProperties
<1> HIDE DEF t
<1>3. \A i \in 1 .. Len(s) + 1 : i \in 1 .. Len(s) \/ i = Len(s) + 1 BY <1>1
<1>4. 1 .. Len(s) \subseteq 1 .. Len(s) + 1 /\ Len(s) + 1 \in 1 .. Len(s) + 1 BY <1>1
<1>5. ASSUME NEW v PROVE v \in Of(t) <=> v \in Of(s) \cup {y}
  <2>1. v \in Of(t) => v \in Of(s) \cup {y} BY <1>1, <1>2, <1>3 DEF Of
  <2>2. v \in Of(s) => v \in Of(t) BY <1>1, <1>2, <1>4 DEF Of
  <2>3. y \in Of(t) BY <1>1, <1>2, <1>4 DEF Of
  <2> QED BY <2>1, <2>2, <2>3
<1>6. Of(t) = Of(s) \cup {y} BY <1>5
<1> QED BY <1>1, <1>6 DEF t

LEMMA RisingAppend ==
  ASSUME NEW s \in Seq(Nat), RisingUp(s), NEW y \in Nat, \A x \in Of(s) : x < y
  PROVE  RisingUp(Append(s, y))
<1> DEFINE t == Append(s, y)
<1>1. /\ t \in Seq(Nat) /\ Len(t) = Len(s) + 1 /\ Len(s) \in Nat /\ DOMAIN s = 1 .. Len(s)
      /\ \A i \in 1 .. Len(s) : t[i] = s[i]
      /\ t[Len(s) + 1] = y
  BY AppendProperties, LenProperties
<1>2. DOMAIN t = 1 .. Len(s) + 1 BY <1>1, LenProperties
<1> HIDE DEF t
<1>3. ASSUME NEW i \in DOMAIN t, NEW j \in DOMAIN t, i < j PROVE t[i] < t[j]
  <2>1. i \in 1 .. Len(s) /\ (j \in 1 .. Len(s) \/ j = Len(s) + 1) BY <1>1, <1>2, <1>3
  <2>2. CASE j \in 1 .. Len(s) BY <1>1, <1>3, <2>1, <2>2 DEF RisingUp
  <2>3. CASE j = Len(s) + 1
    <3>1. s[i] \in Of(s) BY <1>1, <2>1 DEF Of
    <3> QED BY <1>1, <2>1, <2>3, <3>1
  <2> QED BY <2>1, <2>2, <2>3
<1> QED BY <1>3 DEF t, RisingUp

LEMMA RisingTail ==
  ASSUME NEW s \in Seq(Nat), RisingUp(s), s # <<>>
  PROVE  /\ Head(s) \in Nat /\ Head(s) \in Of(s) /\ Tail(s) \in Seq(Nat) /\ Len(Tail(s)) = Len(s) - 1
         /\ RisingUp(Tail(s)) /\ Of(Tail(s)) = Of(s) \ {Head(s)}
         /\ \A x \in Of(s) : Head(s) <= x
<1> DEFINE t == Tail(s)
           n == Len(t)
<1>1. /\ t \in Seq(Nat) /\ Len(s) = n + 1 /\ n \in Nat /\ DOMAIN s = 1 .. n + 1 /\ Head(s) = s[1]
      /\ \A i \in 1 .. n : t[i] = s[i + 1]
  <2>1. Len(s) \in Nat \ {0} BY EmptySeq
  <2>2. t \in Seq(Nat) /\ Len(t) = Len(s) - 1 /\ Head(s) = s[1] /\ \A i \in 1 .. Len(t) : t[i] = s[i + 1]
    BY HeadTailProperties
  <2> QED BY <2>1, <2>2, LenProperties
<1>2. DOMAIN t = 1 .. n BY <1>1, LenProperties
<1>3. \A i \in 1 .. n + 1 : s[i] \in Nat BY <1>1, ElementOfSeq
<1> HIDE DEF t, n
<1>4. ASSUME NEW i \in DOMAIN t, NEW j \in DOMAIN t, i < j PROVE t[i] < t[j]
  <2>3. i \in 1 .. n /\ j \in 1 .. n /\ i < j BY <1>2, <1>4
  <2>4. n \in Nat /\ DOMAIN s = 1 .. n + 1 BY <1>1
  <2>5. i + 1 \in 1 .. n + 1 /\ j + 1 \in 1 .. n + 1 /\ i + 1 < j + 1 BY <2>3, <2>4
  <2>1. i + 1 \in DOMAIN s /\ j + 1 \in DOMAIN s /\ i + 1 < j + 1 BY <2>4, <2>5
  <2>2. s[i + 1] < s[j + 1] BY <2>1 DEF RisingUp
  <2> QED BY <1>1, <1>2, <2>2
<1>5. 1 \in DOMAIN s /\ Head(s) \in Nat /\ Head(s) \in Of(s)
  <2>1. 1 \in 1 .. n + 1 BY <1>1
  <2> QED BY <1>1, <1>3, <2>1 DEF Of
<1>6. ASSUME NEW x \in Of(s) PROVE x = Head(s) \/ (Head(s) < x /\ x \in Of(t))
  <2>1. PICK i \in DOMAIN s : x = s[i] BY <1>6 DEF Of
  <2>2. i = 1 \/ (1 < i /\ i - 1 \in 1 .. n /\ (i - 1) + 1 = i) BY <1>1
  <2>3. CASE i = 1 BY <1>1, <2>1, <2>3
  <2>4. CASE 1 < i /\ i - 1 \in 1 .. n /\ (i - 1) + 1 = i
    <3>1. s[1] < s[i] BY <1>5, <2>4 DEF RisingUp
    <3>2. x = t[i - 1] BY <1>1, <2>1, <2>4
    <3> QED BY <1>1, <1>2, <2>1, <2>4, <3>1, <3>2 DEF Of
  <2> QED BY <2>2, <2>3, <2>4
<1>7. ASSUME NEW x \in Of(t) PROVE x \in Of(s) /\ x # Head(s)
  <2>1. PICK i \in DOMAIN t : x = t[i] BY <1>7 DEF Of
  <2>2. i + 1 \in DOMAIN s /\ 1 < i + 1 /\ x = s[i + 1] BY <1>1, <1>2, <2>1
  <2>3. s[1] < s[i + 1] BY <1>5, <2>2 DEF RisingUp
  <2>4. s[1] \in Nat BY <1>3, <1>1
  <2> QED BY <1>1, <2>2, <2>3, <2>4 DEF Of
<1>8. Of(t) = Of(s) \ {Head(s)} BY <1>6, <1>7
<1>9. \A x \in Of(s) : Head(s) <= x
  <2>1. PICK h \in Nat : h = Head(s) BY <1>5
  <2>2. \A x \in Of(s) : x \in Nat BY <1>1, <1>3 DEF Of
  <2> QED BY <1>6, <2>1, <2>2
<1>10. RisingUp(t) BY <1>4 DEF RisingUp
<1>11. Len(t) = Len(s) - 1 BY <1>1 DEF n
<1> QED BY <1>1, <1>5, <1>8, <1>9, <1>10, <1>11 DEF t

LEMMA FewEntries ==
  ASSUME NEW q \in Seq(Nat), NEW T, \A e, f \in T : e.at = f.at => e = f, \A e \in T : e.at \in Of(q)
  PROVE  IsFiniteSet(T) /\ Cardinality(T) \in Nat /\ Cardinality(T) <= Len(q)
<1> DEFINE P == 1 .. Len(q)
           g == [e \in T |-> CHOOSE i \in P : q[i] = e.at]
<1>1. Len(q) \in Nat /\ DOMAIN q = P BY LenProperties
<1>2. IsFiniteSet(P) /\ Cardinality(P) = Len(q)
  <2>1. PICK n \in Nat : n = Len(q) BY <1>1
  <2>2. IsFiniteSet(1 .. n) /\ Cardinality(1 .. n) = IF 1 > n THEN 0 ELSE n - 1 + 1 BY FS_Interval
  <2> QED BY <2>1, <2>2
<1>3. ASSUME NEW e \in T PROVE g[e] \in P /\ q[g[e]] = e.at
  <2>1. \E i \in P : q[i] = e.at BY <1>1, <1>3 DEF Of
  <2> QED BY <2>1
<1>4. g \in [T -> P] BY <1>3
<1> HIDE DEF g, P
<1>5. \A e, f \in T : g[e] = g[f] => e = f BY <1>3
<1>6. g \in Injection(T, P) BY <1>4, <1>5 DEF Injection, IsInjective
<1>7. IsFiniteSet(T) /\ Cardinality(T) <= Cardinality(P) BY <1>2, <1>6, FS_Injection
<1> QED BY <1>2, <1>7, FS_CardinalityType

(* Nothing moves, but the frame submitted may be refused.                   *)
LEMMA LineStays ==
  ASSUME EncodeTypes, InLine, EntriesKept, Accounted,
         UNCHANGED <<nextTime, ticksOf, pictures, packets, gone, coding, coded>>,
         stage' = "submit" => stage = "submit"
  PROVE  InLine' /\ EntriesKept' /\ Accounted'
<1>1. nextTime \in Nat /\ ticksOf \subseteq Frame /\ packets \in Seq(Frame) /\ coding \in Seq(Nat) /\ coded \in Seq(Nat)
  BY DEF EncodeTypes
<1>2. Below \in Int /\ Below' \in Int /\ Below <= Below' BY <1>1 DEF Below
<1>3. Of(packets)' = Of(packets) /\ Of(coding)' = Of(coding) /\ Of(coded)' = Of(coded) /\ Live' = Live
  BY DEF Of, Live
<1>4. Live \subseteq Nat
  <2>1. \A i \in DOMAIN coding : coding[i] \in Nat BY <1>1, ElementOfSeq, LenProperties
  <2>2. \A i \in DOMAIN coded : coded[i] \in Nat BY <1>1, ElementOfSeq, LenProperties
  <2> QED BY <2>1, <2>2 DEF Live, Of
<1>5. \A p \in Of(packets) : p.at \in Nat
  <2>1. \A i \in DOMAIN packets : packets[i] \in Frame BY <1>1, ElementOfSeq, LenProperties
  <2> QED BY <2>1 DEF Of, Frame
<1>6. \A x \in Live : x < Below' BY <1>2, <1>4 DEF InLine
<1>7. \A p \in Of(packets) : p.at < Below' BY <1>2, <1>5 DEF InLine
<1>8. InLine'
  <2>1. RisingUp(coding') /\ RisingUp(coded') BY DEF InLine
  <2>2. \A d \in Of(coded)', c \in Of(coding)' : d < c BY <1>3 DEF InLine
  <2>3. \A i \in DOMAIN packets' : i > 1 => packets'[i - 1].at < packets'[i].at BY DEF InLine
  <2>4. \A p \in Of(packets)' : p \in pictures' /\ \A x \in Live' : p.at < x BY <1>3 DEF InLine
  <2>5. \A p \in Of(packets)' : p.at < Below' BY <1>3, <1>7
  <2>6. \A x \in Live' : x < Below' BY <1>3, <1>6
  <2> QED BY <2>1, <2>2, <2>3, <2>4, <2>5, <2>6 DEF InLine
<1>9. EntriesKept' BY <1>3 DEF EntriesKept
<1>10. Accounted' BY <1>3 DEF Accounted
<1> QED BY <1>8, <1>9, <1>10

LEMMA LiveIsNat == EncodeTypes => Live \subseteq Nat /\ \A p \in Of(packets) : p \in Frame /\ p.at \in Nat
<1> SUFFICES ASSUME EncodeTypes PROVE Live \subseteq Nat /\ \A p \in Of(packets) : p \in Frame /\ p.at \in Nat
  OBVIOUS
<1>1. packets \in Seq(Frame) /\ coding \in Seq(Nat) /\ coded \in Seq(Nat) BY DEF EncodeTypes
<1>2. \A i \in DOMAIN coding : coding[i] \in Nat BY <1>1, ElementOfSeq, LenProperties
<1>3. \A i \in DOMAIN coded : coded[i] \in Nat BY <1>1, ElementOfSeq, LenProperties
<1>4. \A i \in DOMAIN packets : packets[i] \in Frame BY <1>1, ElementOfSeq, LenProperties
<1> QED BY <1>2, <1>3, <1>4 DEF Live, Of, Frame

(* The transform takes the frame submitted.                                 *)
LEMMA TakesPicture ==
  ASSUME EncodeTypes, InLine, EntriesKept, Accounted, stage = "submit",
         Encode!TakeInput, UNCHANGED <<nextTime, ticksOf, packets, gone, coded>>
  PROVE  /\ coding' \in Seq(Nat) /\ pictures' \subseteq Frame /\ stage' = "drain"
         /\ Len(coding') = Len(coding) + 1 /\ Of(coding)' = Of(coding) \cup {nextTime - 1} /\ Below' = Below + 1
         /\ encAsked' = (IF encAsync THEN encAsked - 1 ELSE encAsked) /\ UNCHANGED <<encWasted, mishaps>>
         /\ InLine' /\ EntriesKept' /\ Accounted'
<1>1. /\ nextTime \in Nat /\ ticksOf \subseteq Frame /\ packets \in Seq(Frame) /\ coding \in Seq(Nat) /\ coded \in Seq(Nat)
      /\ pictures \subseteq Frame
  BY DEF EncodeTypes
<1>2. PICK n : n = nextTime - 1 OBVIOUS
<1>3. PICK e \in ticksOf : e.at = n BY <1>2 DEF EntriesKept
<1>4. e \in Frame /\ e.at \in Nat /\ e.ticks \in Nat /\ e = [at |-> e.at, ticks |-> e.ticks]
  BY <1>1, <1>3 DEF Frame
<1>5. n \in Nat BY <1>3, <1>4
<1>6. Encode!TicksOfCall = e.ticks
  <2>1. \E x \in ticksOf : x.at = n BY <1>3
  <2>2. (CHOOSE x \in ticksOf : x.at = n) = e BY <1>3, <2>1 DEF EntriesKept
  <2> QED BY <1>2, <2>2 DEF Encode!TicksOfCall, Encode!Stamp
<1>20. /\ encAsked' = (IF encAsync THEN encAsked - 1 ELSE encAsked) /\ stage' = "drain"
       /\ UNCHANGED <<encWasted, mishaps>>
  BY DEF Encode!TakeInput
<1>7. coding' = Append(coding, n) /\ pictures' = pictures \cup {e}
  <2>1. /\ coding' = Append(coding, Encode!Stamp)
        /\ pictures' = pictures \cup {[at |-> Encode!Stamp, ticks |-> Encode!TicksOfCall]}
    BY DEF Encode!TakeInput
  <2>2. Encode!Stamp = n BY <1>2 DEF Encode!Stamp
  <2>3. [at |-> Encode!Stamp, ticks |-> Encode!TicksOfCall] = e BY <1>3, <1>4, <1>6, <2>2
  <2> QED BY <2>1, <2>2, <2>3
<1>8. Below = n /\ Below' = n + 1 /\ n < n + 1 BY <1>1, <1>2, <1>5, <1>20 DEF Below
<1>9. Live \subseteq Nat /\ \A p \in Of(packets) : p \in Frame /\ p.at \in Nat BY LiveIsNat
<1>10. (\A x \in Live : x < n) /\ \A p \in Of(packets) : p.at < n
  <2>1. Below = n BY <1>8
  <2>2. (\A x \in Live : x < Below) /\ \A p \in Of(packets) : p.at < Below BY DEF InLine
  <2> QED BY <2>1, <2>2, Zenon
<1>11. coding' \in Seq(Nat) /\ Len(coding') = Len(coding) + 1 /\ Of(coding') = Of(coding) \cup {n}
  BY <1>1, <1>5, <1>7, OfAppend
<1>12. RisingUp(coding')
  <2>1. \A x \in Of(coding) : x < n BY <1>10 DEF Live
  <2> QED BY <1>1, <1>5, <1>7, <2>1, RisingAppend DEF InLine
<1>13. Of(packets)' = Of(packets) /\ Of(coded)' = Of(coded) BY DEF Of
<1>18. Of(coding)' = Of(coding) \cup {n} BY <1>11 DEF Of
<1>14. Live' = Live \cup {n} BY <1>13, <1>18 DEF Live
<1>15. InLine'
  <2>1. RisingUp(coded') BY DEF InLine
  <2>2. \A d \in Of(coded)', c \in Of(coding)' : d < c
    <3>1. \A d \in Of(coded), c \in Of(coding) : d < c BY DEF InLine
    <3>2. \A d \in Of(coded) : d < n BY <1>10 DEF Live
    <3> QED BY <1>13, <1>18, <3>1, <3>2
  <2>3. \A i \in DOMAIN packets' : i > 1 => packets'[i - 1].at < packets'[i].at BY DEF InLine
  <2>4. \A p \in Of(packets)' : p \in pictures' /\ \A x \in Live' : p.at < x
    BY <1>7, <1>10, <1>13, <1>14 DEF InLine
  <2>5. \A p \in Of(packets)' : p.at < Below' BY <1>5, <1>8, <1>9, <1>10, <1>13
  <2>6. \A x \in Live' : x < Below' BY <1>5, <1>8, <1>9, <1>10, <1>14
  <2> QED BY <1>12, <2>1, <2>2, <2>3, <2>4, <2>5, <2>6 DEF InLine
<1>16. EntriesKept'
  <2>1. \A x \in Live' : \E f \in ticksOf' : f.at = x /\ f \in pictures'
    <3>1. \A x \in Live : \E f \in ticksOf' : f.at = x /\ f \in pictures' BY <1>7 DEF EntriesKept
    <3>2. \E f \in ticksOf' : f.at = n /\ f \in pictures' BY <1>3, <1>7
    <3> QED BY <1>14, <3>1, <3>2
  <2> QED BY <2>1 DEF EntriesKept
<1>17. Accounted'
  <2>1. {f.at : f \in pictures'} = {f.at : f \in pictures} \cup {n} BY <1>3, <1>7
  <2> QED BY <1>13, <1>14, <2>1 DEF Accounted
<1>19. pictures' \subseteq Frame BY <1>1, <1>4, <1>7
<1> QED BY <1>2, <1>8, <1>11, <1>15, <1>16, <1>17, <1>18, <1>19, <1>20

(* The packet of the first frame in the line comes out.                     *)
LEMMA Emits ==
  ASSUME Encode!EncoderAssumption, EncodeTypes, InLine, EntriesKept, Accounted, Roomy, NEW x \in Live, \A y \in Live : x <= y,
         Encode!Emit(x), UNCHANGED <<stage, nextTime, pictures, gone>>,
         Live' = Live \ {x}, RisingUp(coding'), RisingUp(coded'),
         \A d \in Of(coded'), c \in Of(coding') : d < c
  PROVE  /\ packets' \in Seq(Frame) /\ ticksOf' \subseteq Frame /\ IsFiniteSet(ticksOf')
         /\ ticksOf' = {e \in ticksOf : e.at > x} /\ Cardinality(ticksOf') <= MaxInFlight
         /\ InLine' /\ EntriesKept' /\ Accounted'
<1>1. /\ nextTime \in Nat /\ ticksOf \subseteq Frame /\ packets \in Seq(Frame) /\ coding \in Seq(Nat) /\ coded \in Seq(Nat)
      /\ pictures \subseteq Frame /\ IsFiniteSet(ticksOf)
  BY DEF EncodeTypes
<1>2. PICK f \in ticksOf : f.at = x /\ f \in pictures BY DEF EntriesKept
<1>3. f \in Frame /\ f.at \in Nat /\ f = [at |-> x, ticks |-> f.ticks] BY <1>1, <1>2 DEF Frame
<1>4. Encode!ResolveTicks(x) = f.ticks
  <2>1. \E e \in ticksOf : e.at = x BY <1>2
  <2>2. (CHOOSE e \in ticksOf : e.at = x) = f BY <1>2, <2>1 DEF EntriesKept
  <2> QED BY <2>1, <2>2 DEF Encode!ResolveTicks
<1>5. packets' = Append(packets, f)
  <2>1. packets' = Append(packets, [at |-> x, ticks |-> Encode!ResolveTicks(x)]) BY DEF Encode!Emit
  <2>2. [at |-> x, ticks |-> Encode!ResolveTicks(x)] = f BY <1>3, <1>4
  <2> QED BY <2>1, <2>2
<1>6. ticksOf' = {e \in ticksOf : e.at > x}
  <2>1. \E e \in ticksOf : e.at = x BY <1>2
  <2> QED BY <2>1 DEF Encode!Emit, Encode!Forgotten
<1>7. ticksOf' \subseteq Frame /\ IsFiniteSet(ticksOf') /\ Cardinality(ticksOf') <= MaxInFlight
  <2>1. ticksOf' \in SUBSET ticksOf BY <1>6
  <2>2. IsFiniteSet(ticksOf') /\ Cardinality(ticksOf') <= Cardinality(ticksOf)
    BY <1>1, <2>1, FS_Subset
  <2>3. Cardinality(ticksOf') \in Nat /\ Cardinality(ticksOf) \in Nat
    BY <1>1, <2>2, FS_CardinalityType
  <2>4. Cardinality(ticksOf) <= MaxInFlight BY DEF Roomy
  <2>5. MaxInFlight \in Nat BY DEF Encode!EncoderAssumption
  <2> QED BY <1>1, <2>1, <2>2, <2>3, <2>4, <2>5
<1>8. packets' \in Seq(Frame) /\ Of(packets') = Of(packets) \cup {f} BY <1>1, <1>3, <1>5, OfAppend
<1>9. Of(packets)' = Of(packets) \cup {f} BY <1>8 DEF Of
<1>10. Live \subseteq Nat /\ \A p \in Of(packets) : p \in Frame /\ p.at \in Nat BY LiveIsNat
<1>11. \A p \in Of(packets) : p.at < x BY DEF InLine
<1>12. \A y \in Live : y # x => x < y BY <1>10
<1>13. Below' = Below BY DEF Below
<1>14. InLine'
  <2>1. \A i \in DOMAIN packets' : i > 1 => packets'[i - 1].at < packets'[i].at
    <3> DEFINE n == Len(packets)
    <3>1. /\ n \in Nat /\ DOMAIN packets = 1 .. n /\ DOMAIN packets' = 1 .. n + 1
          /\ \A i \in 1 .. n : packets'[i] = packets[i]
          /\ packets'[n + 1] = f
      BY <1>1, <1>3, <1>5, <1>8, AppendProperties, LenProperties
    <3> HIDE DEF n
    <3>2. \A i \in 1 .. n + 1 : i > 1 => i - 1 \in 1 .. n /\ (i \in 1 .. n \/ i = n + 1) BY <3>1
    <3>3. \A i \in 1 .. n : packets[i].at < f.at BY <1>2, <1>11, <3>1 DEF Of
    <3>4. \A i \in 1 .. n : i > 1 => packets[i - 1].at < packets[i].at BY <3>1 DEF InLine
    <3> SUFFICES ASSUME NEW i \in 1 .. n + 1, i > 1 PROVE packets'[i - 1].at < packets'[i].at
      BY <3>1
    <3>5. CASE i \in 1 .. n BY <3>1, <3>2, <3>4, <3>5
    <3>6. CASE i = n + 1 BY <3>1, <3>2, <3>3, <3>6
    <3> QED BY <3>2, <3>5, <3>6
  <2>2. \A p \in Of(packets)' : p \in pictures' /\ p.at < Below' /\ \A y \in Live' : p.at < y
    <3>1. \A p \in Of(packets) : p \in pictures' /\ p.at < Below' /\ \A y \in Live' : p.at < y
      BY <1>13 DEF InLine
    <3>2. f \in pictures' /\ f.at < Below' /\ \A y \in Live' : f.at < y
      BY <1>2, <1>12, <1>13 DEF InLine
    <3> QED BY <1>9, <3>1, <3>2
  <2>3. \A y \in Live' : y < Below' BY <1>13 DEF InLine
  <2>4. \A d \in Of(coded)', c \in Of(coding)' : d < c
    <3>1. Of(coded)' = Of(coded') /\ Of(coding)' = Of(coding') BY DEF Of
    <3> QED BY <3>1
  <2> QED BY <2>1, <2>2, <2>3, <2>4 DEF InLine
<1>15. EntriesKept'
  <2>1. \A e, g \in ticksOf' : e.at = g.at => e = g BY <1>6 DEF EntriesKept
  <2>2. \A e \in ticksOf' : e.at < nextTime' BY <1>6 DEF EntriesKept
  <2>3. \A y \in Live' : \E e \in ticksOf' : e.at = y /\ e \in pictures'
    <3> SUFFICES ASSUME NEW y \in Live, y # x PROVE \E e \in ticksOf' : e.at = y /\ e \in pictures
      OBVIOUS
    <3>1. PICK e \in ticksOf : e.at = y /\ e \in pictures BY DEF EntriesKept
    <3>2. e \in ticksOf' BY <1>6, <1>10, <1>12, <3>1
    <3> QED BY <3>1, <3>2
  <2>4. stage' = "submit" => \E e \in ticksOf' : e.at = nextTime' - 1
    <3> SUFFICES ASSUME stage = "submit" PROVE \E e \in ticksOf' : e.at = nextTime - 1
      OBVIOUS
    <3>1. PICK e \in ticksOf : e.at = nextTime - 1 BY DEF EntriesKept
    <3>2. x < nextTime - 1 BY DEF InLine, Below
    <3>3. e \in ticksOf' BY <1>1, <1>6, <1>10, <3>1, <3>2
    <3> QED BY <3>1, <3>3
  <2> QED BY <2>1, <2>2, <2>3, <2>4 DEF EntriesKept
<1>16. Accounted'
  <2>1. {p.at : p \in Of(packets)'} = {p.at : p \in Of(packets)} \cup {x} BY <1>2, <1>9
  <2> QED BY <2>1 DEF Accounted
<1> QED BY <1>6, <1>7, <1>8, <1>14, <1>15, <1>16

LEMMA FewTogether ==
  ASSUME NEW S, NEW T, IsFiniteSet(S), IsFiniteSet(T)
  PROVE  /\ IsFiniteSet(S \cup T) /\ Cardinality(S) \in Nat /\ Cardinality(T) \in Nat
         /\ Cardinality(S \cup T) \in Nat /\ Cardinality(S \cup T) <= Cardinality(S) + Cardinality(T)
<1>1. IsFiniteSet(S \cup T) /\ Cardinality(S \cup T) = Cardinality(S) + Cardinality(T) - Cardinality(S \cap T)
  BY FS_Union
<1>2. Cardinality(S) \in Nat /\ Cardinality(T) \in Nat /\ Cardinality(S \cap T) \in Nat
  BY FS_Intersection, FS_CardinalityType
<1>3. Cardinality(S \cup T) \in Nat BY <1>1, FS_CardinalityType
<1> QED BY <1>1, <1>2, <1>3

(* Entries without a frame become no more but with a mishap.                *)
LEMMA LostStay ==
  ASSUME EncodeTypes, Roomy, Lost' \subseteq Lost, mishaps' = mishaps
  PROVE  Cardinality(Lost') <= mishaps' /\ mishaps' <= MaxMishaps
<1>1. IsFiniteSet(ticksOf) /\ mishaps \in Nat /\ Cardinality(Lost) <= mishaps /\ mishaps <= MaxMishaps
  BY DEF EncodeTypes, Roomy
<1>2. Lost \in SUBSET ticksOf BY DEF Lost
<1>3. IsFiniteSet(Lost) /\ Cardinality(Lost) \in Nat BY <1>1, <1>2, FS_Subset, FS_CardinalityType
<1>4. IsFiniteSet(Lost') /\ Cardinality(Lost') <= Cardinality(Lost) BY <1>3, FS_Subset
<1>5. Cardinality(Lost') \in Nat BY <1>4, FS_CardinalityType
<1> QED BY <1>1, <1>3, <1>4, <1>5

LEMMA OneMoreLost ==
  ASSUME Encode!EncoderAssumption, EncodeTypes, Roomy, NEW s, Lost' \subseteq Lost \cup {s},
         mishaps < MaxMishaps, mishaps' = mishaps + 1
  PROVE  Cardinality(Lost') <= mishaps' /\ mishaps' <= MaxMishaps /\ mishaps' \in Nat
<1>1. IsFiniteSet(ticksOf) /\ mishaps \in Nat /\ Cardinality(Lost) <= mishaps /\ MaxMishaps \in Nat
  BY DEF EncodeTypes, Roomy, Encode!EncoderAssumption
<1>2. Lost \in SUBSET ticksOf BY DEF Lost
<1>3. IsFiniteSet(Lost) BY <1>1, <1>2, FS_Subset
<1>4. IsFiniteSet({s}) /\ Cardinality({s}) = 1 BY FS_Singleton
<1>5. /\ IsFiniteSet(Lost \cup {s}) /\ Cardinality(Lost) \in Nat /\ Cardinality(Lost \cup {s}) \in Nat
      /\ Cardinality(Lost \cup {s}) <= Cardinality(Lost) + 1
  BY <1>3, <1>4, FewTogether
<1>6. IsFiniteSet(Lost') /\ Cardinality(Lost') <= Cardinality(Lost \cup {s}) BY <1>5, FS_Subset
<1>7. Cardinality(Lost') \in Nat BY <1>6, FS_CardinalityType
<1> QED BY <1>1, <1>5, <1>6, <1>7

(* There is room for the frame submitted beside those the transform holds   *)
(* and those it skipped or refused.                                         *)
LEMMA RoomForOne ==
  ASSUME Encode!EncoderAssumption, EncodeInv, stage = "idle", NEW n \in Frame, n.at = nextTime,
         NEW T, T = Encode!Bounded(ticksOf \cup {n})
  PROVE  T = ticksOf \cup {n} /\ IsFiniteSet(T) /\ Cardinality(T) <= MaxInFlight
<1> DEFINE T1 == ticksOf \cup {n}
           A == {e \in ticksOf : e.at \in Of(coding)}
           B == {e \in ticksOf : e.at \in Of(coded)}
<1>1. /\ nextTime \in Nat /\ ticksOf \subseteq Frame /\ coding \in Seq(Nat) /\ coded \in Seq(Nat)
      /\ IsFiniteSet(ticksOf) /\ mishaps \in Nat /\ encAsked \in Nat /\ encAsync \in BOOLEAN
  BY DEF EncodeInv, EncodeTypes
<1>2. MaxInFlight \in Nat /\ Depth \in Nat \ {0} /\ MaxMishaps \in Nat /\ MaxInFlight > Depth + MaxMishaps
  BY DEF Encode!EncoderAssumption
<1>3. \A e \in ticksOf : e.at \in Nat /\ e.at < nextTime BY <1>1 DEF Frame, EncodeInv, EntriesKept
<1>4. n \notin ticksOf BY <1>1, <1>3
<1>5. IsFiniteSet(T1) /\ Cardinality(T1) = Cardinality(ticksOf) + 1 BY <1>1, <1>4, FS_AddElement
<1>6. T = IF Cardinality(T1) > MaxInFlight THEN T1 \ {CHOOSE e \in T1 : \A x \in T1 : e.at <= x.at} ELSE T1
  BY EncodeCardinality DEF Encode!Bounded
<1>7. Len(coding) \in Nat /\ Len(coded) \in Nat /\ Len(coding) + Len(coded) <= Depth
  <2>1. Len(coding) \in Nat /\ Len(coded) \in Nat BY <1>1
  <2>2. CASE encAsync
    <3>1. Len(coding) + Len(coded) + encAsked <= Depth BY <2>2 DEF EncodeInv, Roomy
    <3> QED BY <1>1, <1>2, <2>1, <3>1
  <2>3. CASE ~encAsync
    <3>1. coded = <<>> /\ Len(coding) < Depth BY <2>3 DEF EncodeInv, Roomy
    <3>2. Len(coded) = 0 BY <1>1, <3>1, EmptySeq
    <3> QED BY <1>2, <2>1, <3>1, <3>2
  <2> QED BY <2>2, <2>3
<1>8. IsFiniteSet(A) /\ Cardinality(A) \in Nat /\ Cardinality(A) <= Len(coding)
  <2>1. \A e, f \in A : e.at = f.at => e = f BY DEF EncodeInv, EntriesKept
  <2> QED BY <1>1, <2>1, FewEntries
<1>9. IsFiniteSet(B) /\ Cardinality(B) \in Nat /\ Cardinality(B) <= Len(coded)
  <2>1. \A e, f \in B : e.at = f.at => e = f BY DEF EncodeInv, EntriesKept
  <2> QED BY <1>1, <2>1, FewEntries
<1>10. Lost \in SUBSET ticksOf BY DEF Lost
<1>11. IsFiniteSet(Lost) /\ Cardinality(Lost) <= mishaps /\ mishaps <= MaxMishaps
  BY <1>1, <1>10, FS_Subset DEF EncodeInv, Roomy
<1>12. ticksOf = (A \cup B) \cup Lost BY <1>3 DEF Lost, Below, Live
<1> HIDE DEF A, B
<1>13. IsFiniteSet(A \cup B) /\ Cardinality(A \cup B) \in Nat /\ Cardinality(A \cup B) <= Cardinality(A) + Cardinality(B)
  BY <1>8, <1>9, FewTogether
<1>14. /\ Cardinality(ticksOf) \in Nat /\ Cardinality(Lost) \in Nat
       /\ Cardinality(ticksOf) <= Cardinality(A \cup B) + Cardinality(Lost)
  BY <1>11, <1>12, <1>13, FewTogether
<1>15. Cardinality(ticksOf) <= Depth + MaxMishaps
  BY <1>1, <1>2, <1>7, <1>8, <1>9, <1>11, <1>13, <1>14
<1>16. Cardinality(T1) <= MaxInFlight BY <1>2, <1>5, <1>14, <1>15
<1>17. Cardinality(T1) \in Nat BY <1>5, <1>14
<1>18. T = T1 BY <1>2, <1>6, <1>16, <1>17
<1> QED BY <1>5, <1>16, <1>18

LEMMA EncodeBegins ==
  ASSUME Encode!EncoderAssumption, EncodeInv, NEW gap \in {0, 1}, Encode!Encode(gap) PROVE EncodeInv'
<1> DEFINE n == [at |-> nextTime, ticks |-> 2 * nextTime + gap]
<1>1. /\ stage = "idle" /\ ~draining /\ nextTime' = nextTime + 1 /\ ticksOf' = Encode!Bounded(ticksOf \cup {n})
      /\ stage' = "submit"
      /\ UNCHANGED <<streaming, encAsync, encCredits, avcc, pictures, packets, gone, encWasted, mishaps,
                     encEvents, encAsked, coding, coded, draining, encChanges>>
  BY DEF Encode!Encode, Encode!BuildInputSample, Encode!historyVars, Encode!transformVars
<1>2. EncodeTypes /\ InLine /\ EntriesKept /\ Accounted /\ Roomy /\ Ending BY DEF EncodeInv
<1>3. /\ nextTime \in Nat /\ ticksOf \subseteq Frame /\ IsFiniteSet(ticksOf) BY <1>2 DEF EncodeTypes
<1>4. n \in Frame /\ n.at = nextTime BY <1>3 DEF Frame
<1> HIDE DEF n
<1>5. PICK T : T = Encode!Bounded(ticksOf \cup {n}) OBVIOUS
<1>6. T = ticksOf \cup {n} /\ IsFiniteSet(T) /\ Cardinality(T) <= MaxInFlight
  BY <1>1, <1>4, <1>5, RoomForOne
<1>7. ticksOf' = T BY <1>1, <1>5
<1>18. ticksOf' \subseteq Frame /\ IsFiniteSet(ticksOf') /\ nextTime' \in Nat BY <1>1, <1>3, <1>4, <1>6, <1>7
<1>8. EncodeTypes' BY <1>1, <1>2, <1>3, <1>18 DEF EncodeTypes
<1>9. Of(packets)' = Of(packets) /\ Of(coding)' = Of(coding) /\ Of(coded)' = Of(coded) /\ Of(encEvents)' = Of(encEvents)
  BY <1>1 DEF Of
<1>10. Live' = Live BY <1>9 DEF Live
<1>11. Below' = Below BY <1>1, <1>3 DEF Below
<1>12. InLine' BY <1>1, <1>2, <1>9, <1>10, <1>11 DEF InLine
<1>13. \A e \in ticksOf : e.at \in Nat /\ e.at < nextTime BY <1>2, <1>3 DEF Frame, EntriesKept
<1>14. EntriesKept'
  <2>1. \A e, f \in T : e.at = f.at => e = f BY <1>2, <1>3, <1>4, <1>6, <1>13 DEF EntriesKept
  <2>2. \A e \in T : e.at < nextTime' BY <1>1, <1>3, <1>4, <1>6, <1>13
  <2>3. \A x \in Live : \E e \in T : e.at = x /\ e \in pictures BY <1>2, <1>6 DEF EntriesKept
  <2>4. n.at = nextTime' - 1 BY <1>1, <1>3, <1>4
  <2> QED BY <1>1, <1>6, <1>7, <1>10, <2>1, <2>2, <2>3, <2>4 DEF EntriesKept
<1>15. Accounted' BY <1>1, <1>2, <1>9, <1>10 DEF Accounted
<1>16. Roomy'
  <2>1. Lost' \subseteq Lost
    <3> SUFFICES ASSUME NEW e \in T, e.at \notin Live, e.at < nextTime PROVE e \in Lost
      BY <1>1, <1>3, <1>7, <1>10, <1>11 DEF Lost, Below
    <3>1. e \in ticksOf BY <1>3, <1>4, <1>6
    <3> QED BY <1>1, <3>1 DEF Lost, Below
  <2>2. Cardinality(Lost') <= mishaps' /\ mishaps' <= MaxMishaps BY <1>1, <1>2, <2>1, LostStay
  <2>3. Cardinality(ticksOf') <= MaxInFlight BY <1>6, <1>7
  <2> QED BY <1>1, <1>2, <2>2, <2>3 DEF Roomy, Count
<1>17. Ending' BY <1>1, <1>2, <1>9, <1>10 DEF Ending
<1> QED BY <1>8, <1>12, <1>14, <1>15, <1>16, <1>17 DEF EncodeInv

EncoderEvents == {"need", "output", "drained"}

LEMMA NoneLive ==
  ASSUME NEW S, NEW s \in Seq(S)
  PROVE  /\ Of(s) = {} <=> s = <<>>
         /\ s = <<>> <=> Len(s) = 0
<1>1. s = <<>> <=> Len(s) = 0 BY EmptySeq
<1>2. Len(s) \in Nat /\ DOMAIN s = 1 .. Len(s) BY LenProperties
<1>3. ASSUME Len(s) # 0 PROVE Of(s) # {}
  <2>1. 1 \in DOMAIN s BY <1>2, <1>3
  <2> QED BY <2>1 DEF Of
<1>4. ASSUME Len(s) = 0 PROVE Of(s) = {} BY <1>2, <1>4 DEF Of
<1> QED BY <1>1, <1>3, <1>4

LEMMA EncodeStart == Encode!EncoderAssumption /\ Encode!Init => EncodeInv
<1> SUFFICES ASSUME Encode!EncoderAssumption, Encode!Init PROVE EncodeInv OBVIOUS
<1> USE DEF Encode!Init
<1>1. /\ coding \in Seq(Nat) /\ coded \in Seq(Nat) /\ packets \in Seq(Frame)
      /\ encEvents \in Seq({"need", "output", "drained"}) /\ IsFiniteSet(ticksOf) /\ Cardinality(ticksOf) = 0
  BY EmptySeq, FS_EmptySet
<1>2. streaming \in BOOLEAN /\ encAsync \in BOOLEAN /\ draining \in BOOLEAN BY Zenon
<1>3. EncodeTypes BY <1>1, <1>2 DEF EncodeTypes
<1>4. Of(coding) = {} /\ Of(coded) = {} /\ Of(packets) = {} /\ Of(encEvents) = {} /\ Live = {}
  BY <1>1, NoneLive DEF Live
<1>5. InLine
  <2>1. DOMAIN coding = {} /\ DOMAIN coded = {} /\ DOMAIN packets = {} BY <1>4 DEF Of
  <2> QED BY <1>4, <2>1 DEF InLine, RisingUp
<1>6. EntriesKept BY <1>4 DEF EntriesKept
<1>7. Accounted BY <1>4 DEF Accounted
<1>8. Roomy
  <2>1. MaxInFlight \in Nat /\ MaxMishaps \in Nat BY DEF Encode!EncoderAssumption
  <2>2. Lost = {} BY DEF Lost
  <2>3. Cardinality(Lost) <= mishaps /\ Cardinality(ticksOf) <= MaxInFlight
    BY <1>1, <2>1, <2>2, FS_EmptySet
  <2>4. encAsync = FALSE /\ stage = "none" /\ coded = <<>> /\ mishaps <= MaxMishaps BY <2>1
  <2> QED BY <2>3, <2>4 DEF Roomy
<1>9. Ending
  <2>1. stage = "none" /\ streaming = FALSE /\ encAsync = FALSE /\ draining = FALSE OBVIOUS
  <2> QED BY <1>4, <2>1 DEF Ending
<1> QED BY <1>3, <1>5, <1>6, <1>7, <1>8, <1>9 DEF EncodeInv

(* An encoder is made, told to end, ...                                     *)
LEMMA EncoderMade == Encode!EncoderAssumption /\ EncodeInv /\ Encode!Initialize => EncodeInv'
<1> SUFFICES ASSUME Encode!EncoderAssumption, EncodeInv, Encode!Initialize PROVE EncodeInv' OBVIOUS
<1>1. PICK async \in BOOLEAN : encAsync' = async BY DEF Encode!Initialize, Encode!CreateTransform
<1>2. /\ stage = "none" /\ stage' = "idle" /\ streaming' = TRUE /\ encChanges' \in Nat
      /\ UNCHANGED <<encCredits, nextTime, ticksOf, avcc, pictures, packets, gone, encWasted, mishaps, encEvents, encAsked,
                     coding, coded, draining>>
  <2>1. encChanges' \in Nat
    <3>1. PICK k \in 0 .. MaxChanges : encChanges' = k
      BY DEF Encode!Initialize, Encode!CreateTransform
    <3> QED BY <3>1
  <2> QED BY <2>1 DEF Encode!Initialize, Encode!Configure, Encode!historyVars
<1>3. EncodeTypes /\ InLine /\ EntriesKept /\ Accounted /\ Roomy /\ Ending BY DEF EncodeInv
<1>4. /\ coding \in Seq(Nat) /\ coded \in Seq(Nat) /\ encEvents \in Seq({"need", "output", "drained"})
      /\ mishaps \in Nat /\ draining \in BOOLEAN
  BY <1>3 DEF EncodeTypes
<1>5. /\ ticksOf = {} /\ Live = {} /\ encAsked = 0 /\ encCredits = 0 /\ encWasted = 0
      /\ encEvents = <<>> /\ ~draining /\ nextTime = 0
  BY <1>2, <1>3 DEF Ending
<1>6. coding = <<>> /\ coded = <<>> /\ Len(coding) = 0 /\ Len(coded) = 0 /\ Of(encEvents) = {}
  BY <1>4, <1>5, NoneLive DEF Live
<1>7. EncodeTypes'
  <2>1. encAsync' \in BOOLEAN /\ streaming' \in BOOLEAN /\ draining' \in BOOLEAN
    BY <1>1, <1>2, <1>4, Zenon
  <2> QED BY <1>2, <1>3, <2>1 DEF EncodeTypes
<1>8. InLine' /\ EntriesKept' /\ Accounted' BY <1>2, <1>3, LineStays
<1>9. Live' = {} /\ Of(encEvents)' = {} BY <1>2, <1>5, <1>6 DEF Live, Of
<1>10. Roomy'
  <2>1. Depth \in Nat \ {0} BY DEF Encode!EncoderAssumption
  <2>2. Lost' = {} BY <1>2, <1>5 DEF Lost
  <2>3. Cardinality(Lost') <= mishaps' BY <1>2, <1>4, <2>2, FS_EmptySet
  <2>4. Cardinality(ticksOf') <= MaxInFlight /\ mishaps' <= MaxMishaps BY <1>2, <1>3 DEF Roomy
  <2>5. Len(coding') = 0 /\ Len(coded') = 0 /\ encAsked' = 0 /\ encCredits' = 0 /\ encWasted' = 0 /\ coded' = <<>>
    BY <1>2, <1>5, <1>6
  <2>6. Count(encEvents', "need") = 0 /\ Count(encEvents', "output") = 0
    BY <1>2, <1>5, NothingCounts
  <2>8. encAsked' = encCredits' + Count(encEvents', "need") + encWasted' /\ Len(coding') + Len(coded') + encAsked' <= Depth
    BY <2>1, <2>5, <2>6
  <2> QED BY <1>9, <2>1, <2>3, <2>4, <2>5, <2>6, <2>8 DEF Roomy, Count
<1>11. Ending' BY <1>2, <1>5, <1>9 DEF Ending
<1> QED BY <1>7, <1>8, <1>10, <1>11 DEF EncodeInv

LEMMA FlushBegins == EncodeInv /\ Encode!Flush => EncodeInv'
<1> SUFFICES ASSUME EncodeInv, Encode!Flush PROVE EncodeInv' OBVIOUS
<1>2. /\ stage = "idle" /\ streaming /\ draining' = TRUE /\ stage' = "flush"
      /\ UNCHANGED <<streaming, encAsync, encCredits, nextTime, ticksOf, avcc, pictures, packets, gone, encWasted, mishaps,
                     encEvents, encAsked, coding, coded, encChanges>>
  BY DEF Encode!Flush, Encode!historyVars, Encode!codeVars
<1>3. EncodeTypes /\ InLine /\ EntriesKept /\ Accounted /\ Roomy /\ Ending BY DEF EncodeInv
<1>4. Of(coding)' = Of(coding) /\ Of(encEvents)' = Of(encEvents) /\ Live' = Live
  BY <1>2 DEF Live, Of
<1>5. Below' = Below /\ Lost' = Lost BY <1>2, <1>4 DEF Below, Lost
<1>6. draining' \in BOOLEAN BY <1>2, Zenon
<1>7. EncodeTypes' BY <1>2, <1>3, <1>6 DEF EncodeTypes
<1>8. InLine' /\ EntriesKept' /\ Accounted' BY <1>2, <1>3, LineStays
<1>9. Roomy' BY <1>2, <1>3, <1>4, <1>5 DEF Roomy, Count
<1>10. Ending' BY <1>2, <1>3, <1>4 DEF Ending
<1> QED BY <1>7, <1>8, <1>9, <1>10 DEF EncodeInv

LEMMA EventAdded ==
  ASSUME EncodeTypes, NEW e \in EncoderEvents, encEvents' = Append(encEvents, e)
  PROVE  /\ encEvents' \in Seq(EncoderEvents) /\ Of(encEvents)' = Of(encEvents) \cup {e}
         /\ Count(encEvents', e) = Count(encEvents, e) + 1
         /\ \A x : x # e => Count(encEvents', x) = Count(encEvents, x)
         /\ \A x : Count(encEvents, x) \in Nat
<1>1. encEvents \in Seq(EncoderEvents) BY DEF EncodeTypes, EncoderEvents
<1>2. Append(encEvents, e) \in Seq(EncoderEvents) /\ Of(Append(encEvents, e)) = Of(encEvents) \cup {e}
  BY <1>1, OfAppend
<1>3. Count(Append(encEvents, e), e) = Count(encEvents, e) + 1 BY <1>1, OneMore
<1>4. ASSUME NEW x, x # e PROVE Count(Append(encEvents, e), x) = Count(encEvents, x)
  BY <1>1, <1>4, NoneMore
<1>5. ASSUME NEW x PROVE Count(encEvents, x) \in Nat BY <1>1, CountType
<1>6. Of(encEvents)' = Of(Append(encEvents, e)) BY DEF Of
<1> QED BY <1>2, <1>3, <1>4, <1>5, <1>6

LEMMA EventTaken ==
  ASSUME EncodeTypes, encEvents # <<>>
  PROVE  /\ Tail(encEvents) \in Seq(EncoderEvents) /\ Of(Tail(encEvents)) \subseteq Of(encEvents)
         /\ Head(encEvents) \in Of(encEvents) /\ Head(encEvents) \in EncoderEvents
         /\ \A x : Count(encEvents, x) \in Nat /\ Count(Tail(encEvents), x) \in Nat
         /\ Count(encEvents, Head(encEvents)) = Count(Tail(encEvents), Head(encEvents)) + 1
         /\ \A x : x # Head(encEvents) => Count(encEvents, x) = Count(Tail(encEvents), x)
<1>1. encEvents \in Seq(EncoderEvents) BY DEF EncodeTypes, EncoderEvents
<1> DEFINE t == Tail(encEvents)
           h == Head(encEvents)
<1>2. /\ t \in Seq(EncoderEvents) /\ Len(t) = Len(encEvents) - 1 /\ h = encEvents[1] /\ h \in EncoderEvents
      /\ \A i \in 1 .. Len(t) : t[i] = encEvents[i + 1]
  BY <1>1, HeadTailProperties
<1>3. Len(encEvents) \in Nat \ {0} /\ DOMAIN encEvents = 1 .. Len(encEvents)
  BY <1>1, EmptySeq, LenProperties
<1>4. DOMAIN t = 1 .. Len(t) /\ Len(t) \in Nat BY <1>2, LenProperties
<1>5. ASSUME NEW x PROVE /\ Count(encEvents, x) \in Nat /\ Count(t, x) \in Nat
                         /\ Count(encEvents, x) = Count(t, x) + IF h = x THEN 1 ELSE 0
  BY <1>1, CountOfTail
<1> HIDE DEF t, h
<1>6. Of(t) \subseteq Of(encEvents)
  <2> SUFFICES ASSUME NEW i \in 1 .. Len(t) PROVE t[i] \in Of(encEvents) BY <1>4 DEF Of
  <2>1. i + 1 \in DOMAIN encEvents BY <1>2, <1>3
  <2> QED BY <1>2, <2>1 DEF Of
<1>7. h \in Of(encEvents)
  <2>1. 1 \in DOMAIN encEvents BY <1>3
  <2> QED BY <1>2, <2>1 DEF Of
<1>8. Count(encEvents, h) = Count(t, h) + 1 BY <1>5
<1>9. \A x : x # h => Count(encEvents, x) = Count(t, x) BY <1>5
<1>10. \A x : Count(encEvents, x) \in Nat /\ Count(t, x) \in Nat BY <1>5
<1> QED BY <1>2, <1>6, <1>7, <1>8, <1>9, <1>10 DEF t, h

(* An announced packet is fetched, or announced again in a new format.      *)
LEMMA OutputFetched ==
  ASSUME Encode!EncoderAssumption, EncodeInv, encAsync, encEvents # <<>>, Head(encEvents) = "output", Encode!ProcessOutputAsync,
         stage \in {"submit", "drain", "flush"},
         UNCHANGED <<stage, streaming, encAsync, encCredits, nextTime, pictures, gone, encWasted, mishaps, encAsked, coding,
                     draining>>
  PROVE  EncodeInv'
<1>1. EncodeTypes /\ InLine /\ EntriesKept /\ Accounted /\ Roomy /\ Ending BY DEF EncodeInv
<1>2. /\ coding \in Seq(Nat) /\ coded \in Seq(Nat) /\ encCredits \in Nat /\ encAsked \in Nat /\ encChanges \in Nat
      /\ ticksOf \subseteq Frame /\ IsFiniteSet(ticksOf) /\ packets \in Seq(Frame) /\ nextTime \in Nat
  BY <1>1 DEF EncodeTypes
<1> DEFINE t == Tail(encEvents)
<1>3. /\ t \in Seq(EncoderEvents) /\ Of(t) \subseteq Of(encEvents)
      /\ \A x : Count(encEvents, x) \in Nat /\ Count(t, x) \in Nat
      /\ Count(encEvents, "output") = Count(t, "output") + 1
      /\ Count(encEvents, "need") = Count(t, "need")
  <2>1. /\ t \in Seq(EncoderEvents) /\ Of(t) \subseteq Of(encEvents)
        /\ \A x : Count(encEvents, x) \in Nat /\ Count(t, x) \in Nat
        /\ Count(encEvents, Head(encEvents)) = Count(t, Head(encEvents)) + 1
        /\ \A x : x # Head(encEvents) => Count(encEvents, x) = Count(t, x)
    BY <1>1, EventTaken
  <2>2. "need" # Head(encEvents) OBVIOUS
  <2> HIDE DEF t
  <2>3. Count(encEvents, "need") = Count(t, "need") BY <2>1, <2>2
  <2>4. Count(encEvents, "output") = Count(t, "output") + 1 BY <2>1
  <2> QED BY <2>1, <2>3, <2>4
<1>4. encAsked = encCredits + Count(encEvents, "need") + encWasted /\ Len(coded) = Count(encEvents, "output")
  BY <1>1 DEF Roomy
<1>5. Len(coding) + Len(coded) + encAsked <= Depth
  BY <1>1 DEF Roomy
<1>6. encWasted \in Nat /\ UNCHANGED encWasted BY <1>1 DEF EncodeTypes
<1>7. Of(coding)' = Of(coding) /\ Below' = Below BY DEF Of, Below
<1>8. CASE encChanges > 0
  <2>1. encChanges' = encChanges - 1 /\ encEvents' = Append(t, "output") /\ UNCHANGED <<packets, ticksOf, coded>>
    BY <1>8 DEF Encode!ProcessOutputAsync
  <2> HIDE DEF t
  <2>2. "output" \in EncoderEvents /\ "need" # "output" BY DEF EncoderEvents
  <2>3. Append(t, "output") \in Seq(EncoderEvents) /\ Of(Append(t, "output")) = Of(t) \cup {"output"}
    BY <1>3, <2>2, OfAppend
  <2>4. Count(Append(t, "output"), "output") = Count(t, "output") + 1 BY <1>3, <2>2, OneMore
  <2>5. Count(Append(t, "output"), "need") = Count(t, "need") BY <1>3, <2>2, NoneMore
  <2>6. Count(encEvents', "output") = Count(encEvents, "output") /\ Count(encEvents', "need") = Count(encEvents, "need")
    BY <1>3, <2>1, <2>4, <2>5
  <2>7. encEvents' \in Seq({"need", "output", "drained"}) BY <2>1, <2>3 DEF EncoderEvents
  <2>8. encChanges' \in Nat BY <1>2, <1>8, <2>1
  <2>9. EncodeTypes' BY <1>1, <2>1, <2>7, <2>8 DEF EncodeTypes
  <2>10. InLine' /\ EntriesKept' /\ Accounted' BY <1>1, <2>1, LineStays
  <2>11. Live' = Live /\ Lost' = Lost BY <1>7, <2>1 DEF Live, Lost, Of
  <2>12. Roomy' BY <1>1, <1>4, <1>5, <2>1, <2>6, <2>11 DEF Roomy, Count
  <2>13. Of(encEvents)' = Of(t) \cup {"output"} BY <2>1, <2>3 DEF Of
  <2>14. "drained" \in Of(encEvents)' => "drained" \in Of(encEvents) BY <1>3, <2>13
  <2>15. Ending' BY <1>1, <2>11, <2>14 DEF Ending
  <2> QED BY <2>9, <2>10, <2>12, <2>15 DEF EncodeInv
<1>9. CASE ~(encChanges > 0)
  <2>1. Encode!Emit(Head(coded)) /\ coded' = Tail(coded) /\ encEvents' = t /\ UNCHANGED encChanges
    BY <1>9 DEF Encode!ProcessOutputAsync
  <2>2. coded # <<>>
    <3>1. Len(coded) # 0 BY <1>3, <1>4
    <3> QED BY <1>2, <3>1, EmptySeq
  <2> HIDE DEF t
  <2>3. PICK x : x = Head(coded) OBVIOUS
  <2>4. /\ x \in Nat /\ x \in Of(coded) /\ coded' \in Seq(Nat) /\ Len(coded') = Len(coded) - 1
        /\ RisingUp(coded') /\ Of(coded') = Of(coded) \ {x}
        /\ \A y \in Of(coded) : x <= y
    BY <1>1, <1>2, <2>1, <2>2, <2>3, RisingTail DEF InLine
  <2>5. Of(coded)' = Of(coded) \ {x} BY <2>4 DEF Of
  <2>6. \A d \in Of(coded), c \in Of(coding) : d < c BY <1>1 DEF InLine
  <2>7. Live' = Live \ {x}
    <3>1. x \notin Of(coding) BY <2>4, <2>6
    <3> QED BY <1>7, <2>5, <3>1 DEF Live
  <2>8. x \in Live /\ \A y \in Live : x <= y
    <3>1. Live \subseteq Nat BY <1>1, LiveIsNat
    <3>2. \A y \in Of(coding) : x < y BY <2>4, <2>6
    <3> QED BY <2>4, <3>1, <3>2 DEF Live
  <2>9. RisingUp(coding') /\ \A d \in Of(coded'), c \in Of(coding') : d < c
    <3>1. RisingUp(coding') BY <1>1 DEF InLine
    <3>2. Of(coding') = Of(coding) BY <1>7 DEF Of
    <3> QED BY <2>4, <2>6, <3>1, <3>2
  <2>10. Encode!Emit(x) BY <2>1, <2>3
  <2>11. /\ packets' \in Seq(Frame) /\ ticksOf' \subseteq Frame /\ IsFiniteSet(ticksOf')
         /\ ticksOf' = {e \in ticksOf : e.at > x} /\ Cardinality(ticksOf') <= MaxInFlight
         /\ InLine' /\ EntriesKept' /\ Accounted'
    BY <1>1, <2>4, <2>7, <2>8, <2>9, <2>10, Emits
  <2>12. encEvents' \in Seq({"need", "output", "drained"}) BY <1>3, <2>1 DEF EncoderEvents
  <2>13. EncodeTypes' BY <1>1, <1>2, <2>1, <2>4, <2>11, <2>12 DEF EncodeTypes
  <2>14. Len(coded') = Count(encEvents', "output") /\ encAsked' = encCredits' + Count(encEvents', "need") + encWasted'
    BY <1>2, <1>3, <1>4, <1>6, <2>1, <2>4
  <2>15. Len(coding') + Len(coded') + encAsked' <= Depth
    <3>1. Len(coding) \in Nat /\ Len(coded) \in Nat BY <1>2
    <3>2. Depth \in Nat BY DEF Encode!EncoderAssumption
    <3> QED BY <1>2, <1>5, <2>4, <3>1, <3>2
  <2>16. Roomy'
    <3>1. Lost' \subseteq Lost
      <4> SUFFICES ASSUME NEW e \in ticksOf', e.at \notin Live', e.at < Below' PROVE e \in Lost
        BY DEF Lost
      <4>1. e \in ticksOf /\ e.at > x /\ e.at \in Nat BY <1>2, <2>11 DEF Frame
      <4>2. e.at \notin Live BY <2>4, <2>7, <4>1
      <4> QED BY <1>7, <4>1, <4>2 DEF Lost
    <3>2. Cardinality(Lost') <= mishaps' /\ mishaps' <= MaxMishaps BY <1>1, <3>1, LostStay
    <3> QED BY <2>11, <2>14, <2>15, <3>2 DEF Roomy, Count
  <2>17. Of(encEvents)' \subseteq Of(encEvents) BY <1>3, <2>1 DEF Of
  <2>18. Ending' BY <1>1, <2>7, <2>17 DEF Ending
  <2> QED BY <2>11, <2>13, <2>16, <2>18 DEF EncodeInv
<1> QED BY <1>8, <1>9

(* A request is heard and kept as a credit.                                 *)
LEMMA RequestKept ==
  ASSUME EncodeInv, encAsync, encEvents # <<>>, Head(encEvents) = "need", encEvents' = Tail(encEvents),
         encCredits' = encCredits + 1,
         UNCHANGED <<stage, streaming, encAsync, nextTime, ticksOf, pictures, packets, gone, encWasted, mishaps, encAsked,
                     coding, coded, draining, encChanges>>
  PROVE  EncodeInv'
<1>1. EncodeTypes /\ InLine /\ EntriesKept /\ Accounted /\ Roomy /\ Ending BY DEF EncodeInv
<1>2. encCredits \in Nat BY <1>1 DEF EncodeTypes
<1>3. /\ encEvents' \in Seq(EncoderEvents) /\ Of(Tail(encEvents)) \subseteq Of(encEvents)
      /\ \A x : Count(encEvents, x) \in Nat /\ Count(encEvents', x) \in Nat
      /\ Count(encEvents, Head(encEvents)) = Count(encEvents', Head(encEvents)) + 1
      /\ \A x : x # Head(encEvents) => Count(encEvents, x) = Count(encEvents', x)
  BY <1>1, EventTaken
<1>4. Count(encEvents, "need") = Count(encEvents', "need") + 1 /\ Count(encEvents', "output") = Count(encEvents, "output")
  BY <1>3
<1>5. encAsked = encCredits + Count(encEvents, "need") + encWasted BY <1>1 DEF Roomy
<1>6. Count(encEvents', "need") \in Nat /\ encWasted \in Nat BY <1>1, <1>3 DEF EncodeTypes
<1>7. encCredits' \in Nat /\ encAsked' = encCredits' + Count(encEvents', "need") + encWasted'
  BY <1>2, <1>4, <1>5, <1>6
<1>8. encEvents' \in Seq({"need", "output", "drained"}) BY <1>3 DEF EncoderEvents
<1>9. EncodeTypes' BY <1>1, <1>7, <1>8 DEF EncodeTypes
<1>10. InLine' /\ EntriesKept' /\ Accounted' BY <1>1, LineStays
<1>11. Of(coding)' = Of(coding) /\ Below' = Below /\ Live' = Live BY DEF Of, Below, Live
<1>12. Lost' = Lost BY <1>11 DEF Lost
<1>14. Roomy' BY <1>1, <1>4, <1>7, <1>12 DEF Roomy, Count
<1>15. Of(encEvents)' \subseteq Of(encEvents) BY <1>3 DEF Of
<1>16. Ending'
  <2>1. encEvents # <<>> => stage # "none" BY <1>1 DEF Ending
  <2> QED BY <1>1, <1>11, <1>15, <2>1 DEF Ending
<1> QED BY <1>9, <1>10, <1>14, <1>16 DEF EncodeInv

(* The transform has a frame more to work on.                               *)
LEMMA PictureGiven ==
  ASSUME Encode!EncoderAssumption, EncodeInv, stage = "submit", Encode!TakeInput,
         UNCHANGED <<streaming, encAsync, nextTime, ticksOf, packets, gone, coded, draining, encChanges>>,
         encEvents' \in Seq({"need", "output", "drained"}), Of(encEvents)' \subseteq Of(encEvents),
         encCredits' \in Nat, Count(encEvents', "need") \in Nat,
         encAsync => /\ encCredits + Count(encEvents, "need") = encCredits' + Count(encEvents', "need") + 1
                     /\ Count(encEvents', "output") = Count(encEvents, "output")
  PROVE  EncodeInv'
<1>1. EncodeTypes /\ InLine /\ EntriesKept /\ Accounted /\ Roomy /\ Ending BY DEF EncodeInv
<1>2. /\ coding \in Seq(Nat) /\ coded \in Seq(Nat) /\ encCredits \in Nat /\ encAsked \in Nat /\ encWasted \in Nat
      /\ ticksOf \subseteq Frame /\ nextTime \in Nat /\ encAsync \in BOOLEAN
      /\ Len(coding) \in Nat /\ Len(coded) \in Nat
  BY <1>1 DEF EncodeTypes
<1>3. /\ coding' \in Seq(Nat) /\ pictures' \subseteq Frame /\ stage' = "drain"
      /\ Len(coding') = Len(coding) + 1 /\ Of(coding)' = Of(coding) \cup {nextTime - 1} /\ Below' = Below + 1
      /\ encAsked' = (IF encAsync THEN encAsked - 1 ELSE encAsked) /\ UNCHANGED <<encWasted, mishaps>>
      /\ InLine' /\ EntriesKept' /\ Accounted'
  BY <1>1, TakesPicture
<1>4. Below = nextTime - 1 /\ Below' = nextTime BY <1>2, <1>3 DEF Below
<1>5. \A e \in ticksOf : e.at \in Nat BY <1>2 DEF Frame
<1>6. ASSUME encAsync PROVE /\ encAsked' \in Nat /\ encAsked' = encAsked - 1
                            /\ encAsked' = encCredits' + Count(encEvents', "need") + encWasted'
  <2>1. encAsked = encCredits + Count(encEvents, "need") + encWasted BY <1>1, <1>6 DEF Roomy
  <2>2. encCredits + Count(encEvents, "need") = encCredits' + Count(encEvents', "need") + 1
    BY <1>6
  <2>3. encAsked' = encAsked - 1 /\ encWasted' = encWasted BY <1>3, <1>6
  <2>4. encCredits' \in Nat /\ Count(encEvents', "need") \in Nat OBVIOUS
  <2>5. PICK m \in Nat : m = encCredits' + Count(encEvents', "need") BY <2>4
  <2>6. encAsked = m + 1 + encWasted BY <2>1, <2>2, <2>5
  <2>7. PICK w \in Nat : w = encWasted BY <1>2
  <2>8. encAsked' = m + w /\ encWasted' = w BY <2>3, <2>6, <2>7
  <2> QED BY <2>3, <2>5, <2>8
<1>7. encAsked' \in Nat BY <1>2, <1>3, <1>6
<1>8. EncodeTypes' BY <1>1, <1>3, <1>7 DEF EncodeTypes
<1>9. Roomy'
  <2>1. Of(coded)' = Of(coded) BY DEF Of
  <2>2. Live' = Live \cup {nextTime - 1} BY <1>3, <2>1 DEF Live
  <2>3. Lost' \subseteq Lost
    <3> SUFFICES ASSUME NEW e \in ticksOf, e.at \notin Live', e.at < nextTime PROVE e \in Lost BY <1>4 DEF Lost
    <3>1. e.at \notin Live /\ e.at # nextTime - 1 BY <2>2
    <3>2. e.at < nextTime - 1 BY <1>2, <1>5, <3>1
    <3> QED BY <1>4, <3>1, <3>2 DEF Lost
  <2>4. Cardinality(Lost') <= mishaps' /\ mishaps' <= MaxMishaps BY <1>1, <1>3, <2>3, LostStay
  <2>5. ASSUME encAsync
        PROVE  Len(coded') = Count(encEvents', "output") /\ Len(coding') + Len(coded') + encAsked' <= Depth
    <3>1. Len(coded) = Count(encEvents, "output") /\ Len(coding) + Len(coded) + encAsked <= Depth
      BY <1>1, <2>5 DEF Roomy
    <3>2. Depth \in Nat BY DEF Encode!EncoderAssumption
    <3>3. Len(coded') = Count(encEvents', "output") BY <2>5, <3>1
    <3>4. Len(coding') + Len(coded') + encAsked' <= Depth BY <1>2, <1>3, <1>6, <2>5, <3>1, <3>2
    <3> QED BY <3>3, <3>4
  <2>6. Cardinality(ticksOf') <= MaxInFlight /\ (~encAsync => coded' = <<>>) BY <1>1 DEF Roomy
  <2> QED BY <1>3, <1>6, <2>4, <2>5, <2>6 DEF Roomy, Count
<1>10. Ending'
  <2>1. ~draining /\ stage' = "drain" /\ ~draining' BY <1>1, <1>3 DEF Ending
  <2>2. "drained" \notin Of(encEvents)' BY <1>1, <2>1 DEF Ending
  <2> QED BY <2>1, <2>2 DEF Ending
<1> QED BY <1>3, <1>8, <1>9, <1>10 DEF EncodeInv

(* The transform refuses the frame; its entry stays.                        *)
LEMMA PictureRefused ==
  ASSUME Encode!EncoderAssumption, EncodeInv, stage = "submit", Encode!RefuseInput,
         UNCHANGED <<streaming, encAsync, nextTime, ticksOf, packets, gone, coded, draining, encChanges>>,
         encEvents' \in Seq({"need", "output", "drained"}), Of(encEvents)' \subseteq Of(encEvents),
         encCredits' \in Nat, Count(encEvents', "need") \in Nat,
         encAsync => /\ encCredits + Count(encEvents, "need") = encCredits' + Count(encEvents', "need") + 1
                     /\ Count(encEvents', "output") = Count(encEvents, "output")
  PROVE  EncodeInv'
<1>1. EncodeTypes /\ InLine /\ EntriesKept /\ Accounted /\ Roomy /\ Ending BY DEF EncodeInv
<1>2. /\ coding \in Seq(Nat) /\ coded \in Seq(Nat) /\ encCredits \in Nat /\ encAsked \in Nat /\ encWasted \in Nat
      /\ ticksOf \subseteq Frame /\ nextTime \in Nat /\ encAsync \in BOOLEAN
      /\ Len(coding) \in Nat /\ Len(coded) \in Nat
  BY <1>1 DEF EncodeTypes
<1>3. /\ mishaps < MaxMishaps /\ mishaps' = mishaps + 1 /\ stage' = "idle" /\ UNCHANGED <<coding, pictures>>
      /\ \/ encAsked' = (IF encAsync THEN encAsked - 1 ELSE encAsked) /\ encWasted' = encWasted
         \/ encAsync /\ encWasted' = encWasted + 1 /\ encAsked' = encAsked
  BY DEF Encode!RefuseInput
<1>4. Of(coding)' = Of(coding) /\ Live' = Live BY <1>3 DEF Of, Live
<1>5. encAsked' \in Nat /\ encWasted' \in Nat
      /\ (encAsync => encAsked' <= encAsked /\ encAsked' = encCredits' + Count(encEvents', "need") + encWasted')
  <2>1. CASE encAsync
    <3>1. encAsked = encCredits + Count(encEvents, "need") + encWasted BY <1>1, <2>1 DEF Roomy
    <3>2. encCredits + Count(encEvents, "need") = encCredits' + Count(encEvents', "need") + 1 BY <2>1
    <3>3. PICK m \in Nat : m = encCredits' + Count(encEvents', "need") OBVIOUS
    <3>4. encAsked = m + 1 + encWasted BY <3>1, <3>2, <3>3
    <3>5. \/ encAsked' = encAsked - 1 /\ encWasted' = encWasted
          \/ encWasted' = encWasted + 1 /\ encAsked' = encAsked
      BY <1>3, <2>1
    <3>6. encAsked' \in Nat /\ encWasted' \in Nat /\ encAsked' <= encAsked /\ encAsked' = m + encWasted'
      BY <1>2, <3>4, <3>5
    <3> QED BY <3>3, <3>6
  <2>2. CASE ~encAsync BY <1>2, <1>3, <2>2
  <2> QED BY <2>1, <2>2
<1>6. InLine' /\ EntriesKept' /\ Accounted' BY <1>1, <1>3, LineStays
<1>7. PICK s \in ticksOf : s.at = nextTime - 1 BY <1>1 DEF EntriesKept
<1>8. Lost' \subseteq Lost \cup {s}
  <2>1. \A e \in ticksOf : e.at \in Nat /\ (e.at < nextTime => e.at < nextTime - 1 \/ e = s)
    <3>1. \A e \in ticksOf : e.at \in Nat BY <1>2 DEF Frame
    <3>2. \A e \in ticksOf : e.at = s.at => e = s BY <1>1 DEF EntriesKept
    <3> QED BY <1>2, <1>7, <3>1, <3>2
  <2>2. Below = nextTime - 1 /\ Below' = nextTime BY <1>3 DEF Below
  <2> QED BY <1>4, <2>1, <2>2 DEF Lost
<1>9. Cardinality(Lost') <= mishaps' /\ mishaps' <= MaxMishaps /\ mishaps' \in Nat BY <1>1, <1>3, <1>8, OneMoreLost
<1>10. EncodeTypes' BY <1>1, <1>3, <1>5, <1>9 DEF EncodeTypes
<1>11. Roomy'
  <2>1. ASSUME encAsync
        PROVE  Len(coded') = Count(encEvents', "output") /\ Len(coding') + Len(coded') + encAsked' <= Depth
    <3>1. Len(coded) = Count(encEvents, "output") /\ Len(coding) + Len(coded) + encAsked <= Depth
      BY <1>1, <2>1 DEF Roomy
    <3>2. Depth \in Nat BY DEF Encode!EncoderAssumption
    <3>3. Len(coded') = Count(encEvents', "output") BY <2>1, <3>1
    <3>5. Len(coding') = Len(coding) /\ Len(coded') = Len(coded) BY <1>3
    <3>6. encAsked' \in Nat /\ encAsked' <= encAsked BY <1>5, <2>1
    <3>4. Len(coding') + Len(coded') + encAsked' <= Depth BY <1>2, <3>1, <3>2, <3>5, <3>6
    <3> QED BY <3>3, <3>4
  <2>2. Cardinality(ticksOf') <= MaxInFlight /\ (~encAsync => coded' = <<>> /\ Len(coding') < Depth)
    BY <1>1, <1>3 DEF Roomy
  <2> QED BY <1>5, <1>9, <2>1, <2>2 DEF Roomy, Count
<1>12. Ending'
  <2>1. ~draining /\ stage' = "idle" /\ ~draining' BY <1>1, <1>3 DEF Ending
  <2>2. "drained" \notin Of(encEvents)' BY <1>1, <2>1 DEF Ending
  <2> QED BY <2>1, <2>2 DEF Ending
<1> QED BY <1>6, <1>10, <1>11, <1>12 DEF EncodeInv

LEMMA PictureSubmitted ==
  ASSUME Encode!EncoderAssumption, EncodeInv, Encode!SubmitSync \/ Encode!UseCredit \/ Encode!WaitForRequest
  PROVE  EncodeInv'
<1>1. EncodeTypes /\ Roomy BY DEF EncodeInv
<1>2. /\ encCredits \in Nat /\ encEvents \in Seq({"need", "output", "drained"})
      /\ \A x : Count(encEvents, x) \in Nat
  <2>1. encEvents \in Seq({"need", "output", "drained"}) BY <1>1 DEF EncodeTypes
  <2> QED BY <1>1, <2>1, CountType DEF EncodeTypes
<1>3. CASE Encode!SubmitSync
  <2>1. /\ stage = "submit" /\ ~encAsync /\ Encode!ProcessInput
        /\ UNCHANGED <<streaming, encAsync, encCredits, nextTime, ticksOf, avcc, packets, gone, encEvents, coded,
                       draining, encChanges>>
    BY <1>3 DEF Encode!SubmitSync, Encode!codeVars
  <2>2. Of(encEvents)' = Of(encEvents) /\ encEvents' \in Seq({"need", "output", "drained"}) /\ encCredits' \in Nat
    BY <1>2, <2>1 DEF Of
  <2>3. Count(encEvents', "need") \in Nat BY <1>2, <2>1
  <2>4. CASE Encode!TakeInput BY <2>1, <2>2, <2>3, <2>4, PictureGiven
  <2>5. CASE Encode!RefuseInput BY <2>1, <2>2, <2>3, <2>5, PictureRefused
  <2> QED BY <2>1, <2>4, <2>5 DEF Encode!ProcessInput
<1>4. CASE Encode!UseCredit
  <2>1. /\ stage = "submit" /\ encAsync /\ encCredits > 0 /\ encCredits' = encCredits - 1 /\ Encode!ProcessInput
        /\ UNCHANGED <<streaming, encAsync, nextTime, ticksOf, avcc, packets, gone, encEvents, coded, draining,
                       encChanges>>
    BY <1>4 DEF Encode!UseCredit
  <2>3. Of(encEvents)' = Of(encEvents) /\ encEvents' \in Seq({"need", "output", "drained"})
    BY <1>2, <2>1 DEF Of
  <2>4. /\ encCredits' \in Nat /\ Count(encEvents', "need") = Count(encEvents, "need")
        /\ Count(encEvents', "output") = Count(encEvents, "output")
    BY <1>2, <2>1
  <2>5. Count(encEvents, "need") \in Nat BY <1>2
  <2>6. encCredits + Count(encEvents, "need") = encCredits' + Count(encEvents', "need") + 1
    BY <1>2, <2>1, <2>4, <2>5
  <2>7. CASE Encode!TakeInput BY <2>1, <2>3, <2>4, <2>5, <2>6, <2>7, PictureGiven
  <2>8. CASE Encode!RefuseInput BY <2>1, <2>3, <2>4, <2>5, <2>6, <2>8, PictureRefused
  <2> QED BY <2>1, <2>7, <2>8 DEF Encode!ProcessInput
<1>5. CASE Encode!WaitForRequest
  <2>1. /\ stage = "submit" /\ encAsync /\ encCredits = 0 /\ encEvents # <<>>
        /\ UNCHANGED <<streaming, encAsync, encCredits, nextTime, gone, draining>>
    BY <1>5 DEF Encode!WaitForRequest
  <2>2. CASE Head(encEvents) = "need"
    <3>1. /\ encEvents' = Tail(encEvents) /\ Encode!ProcessInput
          /\ UNCHANGED <<packets, ticksOf, avcc, coded, encChanges>>
      BY <1>5, <2>2 DEF Encode!WaitForRequest
    <3>3. /\ Tail(encEvents) \in Seq(EncoderEvents) /\ Of(Tail(encEvents)) \subseteq Of(encEvents)
          /\ \A x : Count(encEvents, x) \in Nat /\ Count(Tail(encEvents), x) \in Nat
          /\ Count(encEvents, Head(encEvents)) = Count(Tail(encEvents), Head(encEvents)) + 1
          /\ \A x : x # Head(encEvents) => Count(encEvents, x) = Count(Tail(encEvents), x)
      BY <1>1, <2>1, EventTaken
    <3>4. /\ Count(encEvents, "need") = Count(encEvents', "need") + 1 /\ Count(encEvents', "need") \in Nat
          /\ Count(encEvents', "output") = Count(encEvents, "output")
      BY <2>2, <3>1, <3>3
    <3>5. Of(encEvents)' \subseteq Of(encEvents) BY <3>1, <3>3 DEF Of
    <3>6. encEvents' \in Seq({"need", "output", "drained"}) BY <3>1, <3>3 DEF EncoderEvents
    <3>7. encCredits' \in Nat /\ encCredits + Count(encEvents, "need") = encCredits' + Count(encEvents', "need") + 1
      BY <1>2, <2>1, <3>4
    <3>8. CASE Encode!TakeInput BY <2>1, <3>1, <3>4, <3>5, <3>6, <3>7, <3>8, PictureGiven
    <3>9. CASE Encode!RefuseInput BY <2>1, <3>1, <3>4, <3>5, <3>6, <3>7, <3>9, PictureRefused
    <3> QED BY <3>1, <3>8, <3>9 DEF Encode!ProcessInput
  <2>3. CASE Head(encEvents) = "output"
    <3>1. Encode!ProcessOutputAsync /\ UNCHANGED <<stage, pictures, encWasted, mishaps, encAsked, coding>>
      BY <1>5, <2>3 DEF Encode!WaitForRequest
    <3> QED BY <2>1, <2>3, <3>1, OutputFetched
  <2> QED BY <1>5, <2>2, <2>3 DEF Encode!WaitForRequest
<1> QED BY <1>3, <1>4, <1>5

(* Packets are fetched from a synchronous transform, ...                    *)
LEMMA OutputDrained == Encode!EncoderAssumption /\ EncodeInv /\ Encode!DrainOutput => EncodeInv'
<1> SUFFICES ASSUME Encode!EncoderAssumption, EncodeInv, Encode!DrainOutput PROVE EncodeInv' OBVIOUS
<1>1. EncodeTypes /\ InLine /\ EntriesKept /\ Accounted /\ Roomy /\ Ending BY DEF EncodeInv
<1>2. /\ stage \in {"drain", "flush"} /\ ~encAsync
      /\ UNCHANGED <<streaming, encAsync, encCredits, nextTime, pictures, gone, encWasted, mishaps, encEvents, encAsked,
                     coded, draining>>
  BY DEF Encode!DrainOutput
<1>3. /\ coding \in Seq(Nat) /\ coded \in Seq(Nat) /\ encChanges \in Nat /\ ticksOf \subseteq Frame
      /\ IsFiniteSet(ticksOf) /\ mishaps \in Nat /\ Len(coding) \in Nat
  BY <1>1 DEF EncodeTypes
<1>4. coded = <<>> /\ Cardinality(Lost) <= mishaps /\ mishaps <= MaxMishaps /\ Cardinality(ticksOf) <= MaxInFlight
  BY <1>1, <1>2 DEF Roomy
<1>5. Of(encEvents)' = Of(encEvents) /\ Of(coded)' = Of(coded) BY <1>2 DEF Of
<1>6. CASE encChanges > 0 /\ encChanges' = encChanges - 1 /\ UNCHANGED <<stage, packets, ticksOf, avcc, coding>>
  <2>1. EncodeTypes' BY <1>1, <1>2, <1>3, <1>6 DEF EncodeTypes
  <2>2. InLine' /\ EntriesKept' /\ Accounted' BY <1>1, <1>2, <1>6, LineStays
  <2>3. Of(coding)' = Of(coding) /\ Live' = Live BY <1>5, <1>6 DEF Of, Live
  <2>4. Lost' = Lost BY <1>2, <1>6, <2>3 DEF Lost, Below
  <2>5. Roomy' BY <1>2, <1>4, <1>6, <2>4 DEF Roomy
  <2>6. Ending' BY <1>1, <1>2, <1>5, <1>6, <2>3 DEF Ending
  <2> QED BY <2>1, <2>2, <2>5, <2>6 DEF EncodeInv
<1>7. CASE /\ coding # <<>> /\ Encode!Emit(Head(coding)) /\ coding' = Tail(coding) /\ UNCHANGED <<stage, encChanges>>
  <2>1. PICK x : x = Head(coding) OBVIOUS
  <2>2. /\ x \in Nat /\ x \in Of(coding) /\ coding' \in Seq(Nat)
        /\ RisingUp(coding') /\ Of(coding') = Of(coding) \ {x}
        /\ \A y \in Of(coding) : x <= y
    BY <1>1, <1>3, <1>7, <2>1, RisingTail DEF InLine
  <2>3. Of(coded) = {} /\ RisingUp(coded')
    <3>1. Of(coded) = {} BY <1>3, <1>4, NoneLive
    <3>2. RisingUp(coded') BY <1>1, <1>2 DEF InLine
    <3> QED BY <3>1, <3>2
  <2>4. Of(coding)' = Of(coding) \ {x} BY <2>2 DEF Of
  <2>5. Live = Of(coding) /\ Live' = Live \ {x} BY <1>5, <2>3, <2>4 DEF Live
  <2>6. x \in Live /\ \A y \in Live : x <= y BY <2>2, <2>5
  <2>7. \A d \in Of(coded'), c \in Of(coding') : d < c
    <3>1. Of(coded') = {} BY <1>5, <2>3 DEF Of
    <3> QED BY <3>1
  <2>8. Encode!Emit(x) BY <1>7, <2>1
  <2>9. UNCHANGED <<stage, nextTime, pictures, gone>> BY <1>2, <1>7
  <2>10. /\ packets' \in Seq(Frame) /\ ticksOf' \subseteq Frame /\ IsFiniteSet(ticksOf')
         /\ ticksOf' = {e \in ticksOf : e.at > x} /\ Cardinality(ticksOf') <= MaxInFlight
         /\ InLine' /\ EntriesKept' /\ Accounted'
    BY <1>1, <2>2, <2>3, <2>5, <2>6, <2>7, <2>8, <2>9, Emits
  <2>11. EncodeTypes' BY <1>1, <1>2, <1>7, <2>2, <2>10 DEF EncodeTypes
  <2>12. Roomy'
    <3>1. Lost' \subseteq Lost
      <4> SUFFICES ASSUME NEW e \in ticksOf', e.at \notin Live', e.at < Below' PROVE e \in Lost
        BY DEF Lost
      <4>1. e \in ticksOf /\ e.at > x /\ e.at \in Nat BY <1>3, <2>10 DEF Frame
      <4>2. e.at \notin Live BY <2>2, <2>5, <4>1
      <4>3. e.at < Below BY <2>9 DEF Below
      <4> QED BY <4>1, <4>2, <4>3 DEF Lost
    <3>6. Cardinality(Lost') <= mishaps' /\ mishaps' <= MaxMishaps BY <1>1, <1>2, <3>1, LostStay
    <3> QED BY <1>2, <1>4, <1>7, <2>10, <3>6 DEF Roomy
  <2>13. Ending' BY <1>1, <1>2, <1>5, <1>7, <2>5 DEF Ending
  <2> QED BY <2>10, <2>11, <2>12, <2>13 DEF EncodeInv
<1>8. CASE /\ coding = <<>> \/ (stage = "drain" /\ Len(coding) < Depth)
           /\ stage' = (IF stage = "flush" THEN "flushed" ELSE "idle")
           /\ UNCHANGED <<encChanges, packets, ticksOf, avcc, coding>>
  <2>1. EncodeTypes' BY <1>1, <1>2, <1>3, <1>8 DEF EncodeTypes
  <2>2. InLine' /\ EntriesKept' /\ Accounted' BY <1>1, <1>2, <1>8, LineStays
  <2>3. Of(coding)' = Of(coding) /\ Live' = Live BY <1>5, <1>8 DEF Of, Live
  <2>4. Lost' = Lost BY <1>2, <1>8, <2>3 DEF Lost, Below
  <2>5. Len(coding) < Depth \/ stage' = "flushed"
    <3>1. coding = <<>> => Len(coding) = 0 BY <1>3, NoneLive
    <3>2. Depth \in Nat \ {0} BY DEF Encode!EncoderAssumption
    <3> QED BY <1>8, <3>1, <3>2
  <2>6. Roomy' BY <1>2, <1>4, <1>8, <2>4, <2>5 DEF Roomy
  <2>7. stage' = "flushed" => Live = {}
    <3>1. stage' = "flushed" => coding = <<>> BY <1>2, <1>8
    <3> QED BY <1>3, <1>4, <3>1, NoneLive DEF Live
  <2>8. Ending' BY <1>1, <1>2, <1>5, <1>8, <2>3, <2>7 DEF Ending
  <2> QED BY <2>1, <2>2, <2>6, <2>8 DEF EncodeInv
<1> QED BY <1>6, <1>7, <1>8 DEF Encode!DrainOutput

(* ... and from an asynchronous one, until nothing is announced.            *)
LEMMA EventsDrained ==
  ASSUME Encode!EncoderAssumption, EncodeInv, Encode!DrainReadyEvents \/ Encode!FlushEvents
  PROVE  EncodeInv'
<1>1. EncodeTypes /\ InLine /\ EntriesKept /\ Accounted /\ Roomy /\ Ending BY DEF EncodeInv
<1>2. /\ stage \in {"drain", "flush"} /\ encAsync
      /\ UNCHANGED <<streaming, encAsync, nextTime, pictures, gone, encWasted, mishaps, encAsked, coding, draining>>
  BY DEF Encode!DrainReadyEvents, Encode!FlushEvents
<1>3. /\ coding \in Seq(Nat) /\ coded \in Seq(Nat) /\ ticksOf \subseteq Frame /\ Len(coding) \in Nat
      /\ Len(coded) \in Nat /\ encAsked \in Nat
  BY <1>1 DEF EncodeTypes
<1>4. CASE encEvents # <<>> /\ Encode!HandleEvent /\ UNCHANGED stage
  <2>1. CASE Head(encEvents) = "need"
    <3>1. /\ encEvents' = Tail(encEvents) /\ encCredits' = encCredits + 1
          /\ UNCHANGED <<packets, ticksOf, avcc, coded, encChanges>>
      BY <1>4, <2>1 DEF Encode!HandleEvent
    <3> QED BY <1>2, <1>4, <2>1, <3>1, RequestKept
  <2>2. CASE Head(encEvents) = "output"
    <3>1. Encode!ProcessOutputAsync /\ UNCHANGED encCredits BY <1>4, <2>2 DEF Encode!HandleEvent
    <3>2. stage \in {"submit", "drain", "flush"} BY <1>2
    <3> QED BY <1>2, <1>4, <2>2, <3>1, <3>2, OutputFetched
  <2> QED BY <1>4, <2>1, <2>2 DEF Encode!HandleEvent
<1>5. CASE /\ stage = "drain" /\ encEvents = <<>> /\ stage' = "idle"
           /\ UNCHANGED <<encCredits, packets, ticksOf, avcc, encEvents, coded, encChanges>>
  <2>1. EncodeTypes' BY <1>1, <1>2, <1>5 DEF EncodeTypes
  <2>2. InLine' /\ EntriesKept' /\ Accounted' BY <1>1, <1>2, <1>5, LineStays
  <2>3. /\ Of(coding)' = Of(coding) /\ Live' = Live /\ Of(encEvents)' = Of(encEvents) /\ Below' = Below
        /\ Lost' = Lost
    BY <1>2, <1>5 DEF Of, Live, Below, Lost
  <2>6. Roomy' BY <1>1, <1>2, <1>5, <2>3 DEF Roomy, Count
  <2>7. Ending' BY <1>1, <1>2, <1>5, <2>3 DEF Ending
  <2> QED BY <2>1, <2>2, <2>6, <2>7 DEF EncodeInv
<1>6. CASE /\ stage = "flush" /\ encEvents # <<>> /\ Head(encEvents) = "drained" /\ encEvents' = Tail(encEvents)
           /\ stage' = "flushed" /\ UNCHANGED <<encCredits, packets, ticksOf, avcc, coded, encChanges>>
  <2>1. /\ Tail(encEvents) \in Seq(EncoderEvents) /\ Of(Tail(encEvents)) \subseteq Of(encEvents)
        /\ Head(encEvents) \in Of(encEvents)
        /\ \A x : x # Head(encEvents) => Count(encEvents, x) = Count(Tail(encEvents), x)
    BY <1>1, <1>6, EventTaken
  <2>2. encEvents' \in Seq({"need", "output", "drained"}) BY <1>6, <2>1 DEF EncoderEvents
  <2>3. EncodeTypes' BY <1>1, <1>2, <1>6, <2>2 DEF EncodeTypes
  <2>4. InLine' /\ EntriesKept' /\ Accounted' BY <1>1, <1>2, <1>6, LineStays
  <2>5. /\ Of(coding)' = Of(coding) /\ Live' = Live /\ Below' = Below /\ Lost' = Lost
    BY <1>2, <1>6 DEF Of, Live, Below, Lost
  <2>6. Of(encEvents)' \subseteq Of(encEvents) BY <1>6, <2>1 DEF Of
  <2>7. "drained" \in Of(encEvents) BY <1>6, <2>1
  <2>8. Live = {} BY <1>1, <2>7 DEF Ending
  <2>9. Count(encEvents', "need") = Count(encEvents, "need") /\ Count(encEvents', "output") = Count(encEvents, "output")
    BY <1>6, <2>1
  <2>10. Roomy' BY <1>1, <1>2, <1>6, <2>5, <2>9 DEF Roomy, Count
  <2>11. Ending' BY <1>1, <1>2, <1>6, <2>5, <2>6, <2>8 DEF Ending
  <2> QED BY <2>3, <2>4, <2>10, <2>11 DEF EncodeInv
<1>7. Encode!DrainReadyEvents \/ Encode!FlushEvents OBVIOUS
<1>8. CASE Encode!DrainReadyEvents BY <1>4, <1>5, <1>8 DEF Encode!DrainReadyEvents
<1>9. CASE Encode!FlushEvents BY <1>4, <1>6, <1>9 DEF Encode!FlushEvents
<1> QED BY <1>7, <1>8, <1>9

(* The transform works by itself.                                           *)
LEMMA EncoderAsks == Encode!EncoderAssumption /\ EncodeInv /\ (Encode!AskForInput \/ Encode!Drained) => EncodeInv'
<1> SUFFICES ASSUME Encode!EncoderAssumption, EncodeInv, Encode!AskForInput \/ Encode!Drained PROVE EncodeInv' OBVIOUS
<1>1. EncodeTypes /\ InLine /\ EntriesKept /\ Accounted /\ Roomy /\ Ending BY DEF EncodeInv
<1>2. /\ encAsync
      /\ UNCHANGED <<stage, streaming, encAsync, encCredits, nextTime, ticksOf, avcc, pictures, packets, gone, encWasted, mishaps,
                     coding, coded, draining, encChanges>>
  BY DEF Encode!AskForInput, Encode!Drained, Encode!codeVars, Encode!historyVars
<1>3. /\ coding \in Seq(Nat) /\ coded \in Seq(Nat) /\ Len(coding) \in Nat
      /\ Len(coded) \in Nat /\ encAsked \in Nat /\ encCredits \in Nat /\ encWasted \in Nat
  BY <1>1 DEF EncodeTypes
<1>4. InLine' /\ EntriesKept' /\ Accounted' BY <1>1, <1>2, LineStays
<1>5. Of(coding)' = Of(coding) /\ Live' = Live /\ Below' = Below /\ Lost' = Lost
  BY <1>2 DEF Of, Live, Below, Lost
<1>6. encAsked = encCredits + Count(encEvents, "need") + encWasted /\ Len(coding) + Len(coded) + encAsked <= Depth
  BY <1>1, <1>2 DEF Roomy
<1>7. CASE Encode!AskForInput
  <2>1. /\ streaming /\ ~draining /\ Len(coding) + Len(coded) + encAsked < Depth
        /\ encAsked' = encAsked + 1 /\ encEvents' = Append(encEvents, "need")
    BY <1>7 DEF Encode!AskForInput
  <2>2. "need" \in EncoderEvents /\ "output" # "need" BY DEF EncoderEvents
  <2>3. /\ encEvents' \in Seq(EncoderEvents) /\ Of(encEvents)' = Of(encEvents) \cup {"need"}
        /\ Count(encEvents', "need") = Count(encEvents, "need") + 1
        /\ \A x : x # "need" => Count(encEvents', x) = Count(encEvents, x)
        /\ \A x : Count(encEvents, x) \in Nat
    BY <1>1, <2>1, <2>2, EventAdded
  <2>4. /\ Count(encEvents', "output") = Count(encEvents, "output")
        /\ Count(encEvents', "need") = Count(encEvents, "need") + 1 /\ Count(encEvents, "need") \in Nat
    BY <2>2, <2>3
  <2>5. encEvents' \in Seq({"need", "output", "drained"}) BY <2>3 DEF EncoderEvents
  <2>6. encAsked' \in Nat BY <1>3, <2>1
  <2>7. EncodeTypes' BY <1>1, <1>2, <2>5, <2>6 DEF EncodeTypes
  <2>8. encAsked' = encCredits' + Count(encEvents', "need") + encWasted' BY <1>2, <1>3, <1>6, <2>1, <2>4
  <2>9. Len(coding') + Len(coded') + encAsked' <= Depth
    <3>1. Depth \in Nat BY DEF Encode!EncoderAssumption
    <3> QED BY <1>2, <1>3, <2>1, <3>1
  <2>10. Roomy' BY <1>1, <1>2, <1>5, <2>4, <2>8, <2>9 DEF Roomy, Count
  <2>11. "drained" \notin Of(encEvents)' BY <1>1, <2>1, <2>3 DEF Ending
  <2>12. Ending' BY <1>1, <1>2, <1>5, <2>1, <2>11 DEF Ending
  <2> QED BY <1>4, <2>7, <2>10, <2>12 DEF EncodeInv
<1>8. CASE Encode!Drained
  <2>1. /\ draining /\ coding = <<>> /\ coded = <<>> /\ stage = "flush"
        /\ encEvents' = Append(encEvents, "drained") /\ encAsked' = encAsked
    BY <1>8 DEF Encode!Drained
  <2>2. "drained" \in EncoderEvents /\ "output" # "drained" /\ "need" # "drained"
    BY DEF EncoderEvents
  <2>3. /\ encEvents' \in Seq(EncoderEvents) /\ Of(encEvents)' = Of(encEvents) \cup {"drained"}
        /\ \A x : x # "drained" => Count(encEvents', x) = Count(encEvents, x)
    BY <1>1, <2>1, <2>2, EventAdded
  <2>4. Count(encEvents', "output") = Count(encEvents, "output") /\ Count(encEvents', "need") = Count(encEvents, "need")
    BY <2>2, <2>3
  <2>5. encEvents' \in Seq({"need", "output", "drained"}) BY <2>3 DEF EncoderEvents
  <2>6. EncodeTypes' BY <1>1, <1>2, <2>1, <2>5 DEF EncodeTypes
  <2>7. Roomy' BY <1>1, <1>2, <1>5, <2>1, <2>4 DEF Roomy, Count
  <2>8. Live = {} BY <1>3, <2>1, NoneLive DEF Live
  <2>9. Ending' BY <1>1, <1>2, <1>5, <2>1, <2>8 DEF Ending
  <2> QED BY <1>4, <2>6, <2>7, <2>9 DEF EncodeInv
<1> QED BY <1>7, <1>8

(* A frame is finished, or skipped.                                         *)
LEMMA FrameFinished == Encode!EncoderAssumption /\ EncodeInv /\ Encode!FinishFrame => EncodeInv'
<1> SUFFICES ASSUME Encode!EncoderAssumption, EncodeInv, Encode!FinishFrame PROVE EncodeInv' OBVIOUS
<1>1. EncodeTypes /\ InLine /\ EntriesKept /\ Accounted /\ Roomy /\ Ending BY DEF EncodeInv
<1>2. /\ encAsync /\ coding # <<>> /\ coding' = Tail(coding)
      /\ UNCHANGED <<stage, streaming, encAsync, encCredits, nextTime, ticksOf, avcc, pictures, packets, encWasted, encAsked,
                     draining, encChanges>>
  BY DEF Encode!FinishFrame, Encode!codeVars
<1>3. /\ coding \in Seq(Nat) /\ coded \in Seq(Nat) /\ Len(coding) \in Nat
      /\ Len(coded) \in Nat /\ encAsked \in Nat /\ encCredits \in Nat /\ encWasted \in Nat /\ ticksOf \subseteq Frame
  BY <1>1 DEF EncodeTypes
<1>4. PICK h : h = Head(coding) OBVIOUS
<1>5. /\ h \in Nat /\ h \in Of(coding) /\ coding' \in Seq(Nat) /\ Len(coding') = Len(coding) - 1
      /\ RisingUp(coding') /\ Of(coding') = Of(coding) \ {h}
      /\ \A y \in Of(coding) : h <= y
  BY <1>1, <1>2, <1>3, <1>4, RisingTail DEF InLine
<1>6. Of(coding)' = Of(coding) \ {h} BY <1>5 DEF Of
<1>7. Below' = Below /\ Of(packets)' = Of(packets) BY <1>2 DEF Below, Of
<1>8. Of(coding) \subseteq Nat /\ Of(coded) \subseteq Nat
  <2>1. Live \subseteq Nat BY <1>1, LiveIsNat
  <2> QED BY <2>1 DEF Live
<1>9. \A d \in Of(coded) : d < h BY <1>1, <1>5 DEF InLine
<1>10. \A c \in Of(coding)' : h < c BY <1>5, <1>6, <1>8
<1>11. h \in Live /\ ~("drained" \in Of(encEvents)) /\ stage # "flushed" /\ stage # "none"
  <2>1. h \in Live BY <1>5 DEF Live
  <2> QED BY <1>1, <2>1 DEF Ending
<1>12. /\ encAsked = encCredits + Count(encEvents, "need") + encWasted /\ Len(coded) = Count(encEvents, "output")
       /\ Len(coding) + Len(coded) + encAsked <= Depth /\ Cardinality(ticksOf) <= MaxInFlight
  BY <1>1, <1>2 DEF Roomy
<1>13. Depth \in Nat BY DEF Encode!EncoderAssumption
<1>15. CASE coded' = Append(coded, h) /\ encEvents' = Append(encEvents, "output") /\ UNCHANGED <<gone, encWasted, mishaps>>
  <2>1. /\ coded' \in Seq(Nat) /\ Len(coded') = Len(coded) + 1 /\ Of(coded') = Of(coded) \cup {h}
    <3>1. /\ Append(coded, h) \in Seq(Nat) /\ Len(Append(coded, h)) = Len(coded) + 1
          /\ Of(Append(coded, h)) = Of(coded) \cup {h}
      BY <1>3, <1>5, OfAppend
    <3> HIDE DEF EncodeInv
    <3> QED BY <1>15, <3>1, Zenon
  <2>2. RisingUp(coded')
    <3>1. RisingUp(coded) BY <1>1 DEF InLine
    <3> QED BY <1>3, <1>5, <1>9, <1>15, <3>1, RisingAppend
  <2>3. Of(coded)' = Of(coded) \cup {h} BY <2>1 DEF Of
  <2>4. Live' = Live BY <1>5, <1>6, <2>3 DEF Live
  <2>5. \A d \in Of(coded)', c \in Of(coding)' : d < c
    <3>1. \A d \in Of(coded), c \in Of(coding)' : d < c BY <1>1, <1>6 DEF InLine
    <3> QED BY <1>10, <2>3, <3>1
  <2>6. InLine' BY <1>1, <1>2, <1>5, <1>7, <2>2, <2>4, <2>5 DEF InLine
  <2>7. EntriesKept' BY <1>1, <1>2, <2>4 DEF EntriesKept
  <2>8. Accounted' BY <1>1, <1>2, <1>7, <1>15, <2>4 DEF Accounted
  <2>9. "output" \in EncoderEvents /\ "output" # "drained" /\ "need" # "output" BY DEF EncoderEvents
  <2>10. /\ encEvents' \in Seq(EncoderEvents) /\ Of(encEvents)' = Of(encEvents) \cup {"output"}
         /\ Count(encEvents', "output") = Count(encEvents, "output") + 1
         /\ \A x : x # "output" => Count(encEvents', x) = Count(encEvents, x)
    BY <1>1, <1>15, <2>9, EventAdded
  <2>11. Count(encEvents', "need") = Count(encEvents, "need") BY <2>9, <2>10
  <2>12. encEvents' \in Seq({"need", "output", "drained"}) BY <2>10 DEF EncoderEvents
  <2>13. EncodeTypes' BY <1>1, <1>2, <1>5, <1>15, <2>1, <2>12 DEF EncodeTypes
  <2>14. /\ Len(coded') = Count(encEvents', "output") /\ Len(coding') + Len(coded') + encAsked' <= Depth
         /\ encAsked' = encCredits' + Count(encEvents', "need") + encWasted'
    BY <1>2, <1>3, <1>5, <1>12, <1>13, <2>1, <2>10, <2>11
  <2>18. Lost' \subseteq Lost BY <1>2, <1>7, <2>4 DEF Lost
  <2>19. Cardinality(Lost') <= mishaps' /\ mishaps' <= MaxMishaps BY <1>1, <1>15, <2>18, LostStay
  <2>15. Roomy' BY <1>2, <1>12, <2>14, <2>19 DEF Roomy, Count
  <2>16. "drained" \notin Of(encEvents)' BY <1>11, <2>9, <2>10
  <2>17. Ending' BY <1>1, <1>2, <1>11, <2>16 DEF Ending
  <2> QED BY <2>6, <2>7, <2>8, <2>13, <2>15, <2>17 DEF EncodeInv
<1>16. CASE /\ mishaps < MaxMishaps /\ mishaps' = mishaps + 1 /\ gone' = gone \cup {h} /\ UNCHANGED <<coded, encEvents>>
  <2>1. Of(coded)' = Of(coded) /\ Of(encEvents)' = Of(encEvents) BY <1>16 DEF Of
  <2>2. Live' \cup {h} = Live BY <1>5, <1>6, <2>1 DEF Live
  <2>3. Live' \subseteq Live BY <2>2
  <2>4. InLine'
    <3>1. RisingUp(coded') BY <1>1, <1>16 DEF InLine
    <3>2. \A d \in Of(coded)', c \in Of(coding)' : d < c BY <1>1, <1>6, <2>1 DEF InLine
    <3> QED BY <1>1, <1>2, <1>5, <1>7, <2>3, <3>1, <3>2 DEF InLine
  <2>5. EntriesKept' BY <1>1, <1>2, <2>3 DEF EntriesKept
  <2>6. Accounted'
    <3>1. {f.at : f \in pictures} = {p.at : p \in Of(packets)} \cup gone \cup Live
      BY <1>1 DEF Accounted
    <3>2. gone \cup Live = gone' \cup Live' BY <1>16, <2>2
    <3> QED BY <1>2, <1>7, <3>1, <3>2 DEF Accounted
  <2>7. Cardinality(Lost') <= mishaps' /\ mishaps' <= MaxMishaps /\ mishaps' \in Nat
    <3>1. PICK s \in ticksOf : s.at = h BY <1>1, <1>11 DEF EntriesKept
    <3>2. \A e \in ticksOf : e.at = h => e = s BY <1>1, <3>1 DEF EntriesKept
    <3>3. Lost' \subseteq Lost \cup {s} BY <1>2, <1>7, <2>2, <3>2 DEF Lost
    <3> QED BY <1>1, <1>16, <3>3, OneMoreLost
  <2>8. EncodeTypes' BY <1>1, <1>2, <1>5, <1>16, <2>7 DEF EncodeTypes
  <2>9. Len(coding') + Len(coded') + encAsked' <= Depth BY <1>2, <1>3, <1>5, <1>12, <1>13, <1>16
  <2>10. Roomy' BY <1>2, <1>12, <1>16, <2>7, <2>9 DEF Roomy, Count
  <2>11. Ending' BY <1>1, <1>2, <1>11, <2>1 DEF Ending
  <2> QED BY <2>4, <2>5, <2>6, <2>8, <2>10, <2>11 DEF EncodeInv
<1>17. \/ coded' = Append(coded, h) /\ encEvents' = Append(encEvents, "output") /\ UNCHANGED <<gone, encWasted, mishaps>>
       \/ /\ mishaps < MaxMishaps /\ mishaps' = mishaps + 1 /\ gone' = gone \cup {h} /\ UNCHANGED <<coded, encEvents>>
  BY <1>4 DEF Encode!FinishFrame
<1> QED BY <1>15, <1>16, <1>17

LEMMA EncodeStands == EncodeInv /\ UNCHANGED encodeOwn => EncodeInv'
<1> SUFFICES ASSUME EncodeInv, UNCHANGED encodeOwn PROVE EncodeInv' OBVIOUS
<1>1. EncodeTypes /\ InLine /\ EntriesKept /\ Accounted /\ Roomy /\ Ending BY DEF EncodeInv
<1>2. UNCHANGED <<stage, streaming, encAsync, encCredits, nextTime, ticksOf, avcc, pictures, packets, gone,
                  encWasted, encEvents, encAsked, coding, coded, draining, encChanges, mishaps>>
  BY DEF encodeOwn
<1>3. /\ Of(coding)' = Of(coding) /\ Live' = Live /\ Below' = Below /\ Of(encEvents)' = Of(encEvents)
  BY <1>2 DEF Of, Live, Below
<1>4. Lost' = Lost BY <1>2, <1>3 DEF Lost
<1>5. EncodeTypes' BY <1>1, <1>2 DEF EncodeTypes
<1>6. InLine' /\ EntriesKept' /\ Accounted' BY <1>1, <1>2, LineStays
<1>7. Roomy' BY <1>1, <1>2, <1>3, <1>4 DEF Roomy, Count
<1>8. Ending' BY <1>1, <1>2, <1>3 DEF Ending
<1> QED BY <1>5, <1>6, <1>7, <1>8 DEF EncodeInv

LEMMA EncodeStep == Encode!EncoderAssumption /\ EncodeInv /\ [Encode!Next]_encodeOwn => EncodeInv'
<1> SUFFICES ASSUME Encode!EncoderAssumption, EncodeInv, [Encode!Next]_encodeOwn PROVE EncodeInv' OBVIOUS
<1>1. CASE Encode!Initialize BY <1>1, EncoderMade
<1>2. CASE \E gap \in {0, 1} : Encode!Encode(gap)
  <2>1. PICK gap \in {0, 1} : Encode!Encode(gap) BY <1>2
  <2> QED BY <2>1, EncodeBegins
<1>3. CASE Encode!Flush BY <1>3, FlushBegins
<1>4. CASE Encode!SubmitSync \/ Encode!UseCredit \/ Encode!WaitForRequest BY <1>4, PictureSubmitted
<1>5. CASE Encode!DrainOutput BY <1>5, OutputDrained
<1>6. CASE Encode!DrainReadyEvents \/ Encode!FlushEvents BY <1>6, EventsDrained
<1>7. CASE Encode!AskForInput \/ Encode!Drained BY <1>7, EncoderAsks
<1>8. CASE Encode!FinishFrame BY <1>8, FrameFinished
<1>9. CASE UNCHANGED encodeOwn BY <1>9, EncodeStands
<1> QED BY <1>1, <1>2, <1>3, <1>4, <1>5, <1>6, <1>7, <1>8, <1>9 DEF Encode!Next, Encode!Thread

-----------------------------------------------------------------------------
(* The transport stream.  While nothing has been lost since a packet came,  *)
(* what is being put together is the beginning of what is being sent; the   *)
(* counter tells a loss of up to MaxBurst packets from none.                *)
CONSTANTS Pids, Modulus, MaxBurst, PesLengths, MaxAssembly, MaxPes
VARIABLES pes, counter, lost, known, last, waiting, parts, handed
Ts == INSTANCE TsDemux WITH
  burst <- lost, assembly <- parts, completed <- handed, Lengths <- PesLengths
tsOwn == <<pes, counter, lost, known, last, waiting, parts, handed>>

Cut(id, length, n) == [j \in 1 .. n |-> [id |-> id, at |-> j - 1, of |-> length]]
WholePes == {Cut(id, n, n) : id \in Nat, n \in 1 .. MaxAssembly}
PesOf(u) == u[1].id

InOrder(h) == \A i \in 2 .. Len(h) : PesOf(h[i - 1]) < PesOf(h[i])
Beginning(p) ==
  \E z \in {-1, pes[p].length} :
    /\ parts[p] = {[units |-> Cut(pes[p].id, pes[p].length, pes[p].at), size |-> z]}
    /\ pes[p].at \in 1 .. MaxAssembly
    /\ z >= 0 => pes[p].at < z
Counted(p) ==
  \/ last[p] = -1 /\ (pes[p].at = 0 \/ lost[p] > 0) /\ parts[p] = {}
  \/ last[p] >= 0 /\ counter[p] \in {last[p] + 1 + lost[p], last[p] + 1 + lost[p] - Modulus}
Ordered(p) ==
  /\ handed[p] \in Seq(WholePes) /\ InOrder(handed[p])
  /\ \A i \in 1 .. Len(handed[p]) : PesOf(handed[p][i]) <= pes[p].id
Stream(p) ==
  /\ pes[p] \in [id : Nat, length : Nat, open : BOOLEAN, at : Nat] /\ pes[p].at <= pes[p].length
  /\ pes[p].at = 0 => pes[p].length = 0
  /\ counter[p] \in 0 .. Modulus - 1 /\ lost[p] \in 0 .. MaxBurst /\ last[p] \in -1 .. Modulus - 1
  /\ Counted(p) /\ Ordered(p)
  /\ parts[p] # {} => known /\ p \notin waiting
  /\ parts[p] # {} /\ lost[p] = 0 =>
       Beginning(p) /\ \A i \in 1 .. Len(handed[p]) : PesOf(handed[p][i]) < pes[p].id
TsInv ==
  /\ known \in BOOLEAN /\ waiting \subseteq Pids
  /\ \A f \in {pes, counter, lost, last, parts, handed} : f = [p \in Pids |-> f[p]]
  /\ \A p \in Pids : Stream(p)

LEMMA CutGrows ==
  ASSUME NEW id, NEW length, NEW n \in Nat
  PROVE  /\ Append(Cut(id, length, n), [id |-> id, at |-> n, of |-> length]) = Cut(id, length, n + 1)
         /\ Len(Cut(id, length, n)) = n
<1> DEFINE e == [id |-> id, at |-> n, of |-> length]
           S == {[id |-> id, at |-> j - 1, of |-> length] : j \in 1 .. n + 1}
           c == Cut(id, length, n)
<1>1. n + 1 \in Nat /\ e \in S
  <2>1. n + 1 \in 1 .. n + 1 /\ (n + 1) - 1 = n OBVIOUS
  <2> QED BY <2>1
<1>2. c \in [1 .. n -> S] BY DEF Cut
<1> HIDE DEF S
<1>3. c \in Seq(S) BY <1>2, SeqDef
<1>4. Len(c) = n BY <1>2, <1>3, LenProperties DEF Cut
<1>5. /\ Append(c, e) \in Seq(S) /\ Len(Append(c, e)) = n + 1
      /\ \A i \in 1 .. n : Append(c, e)[i] = c[i]
      /\ Append(c, e)[n + 1] = e
  BY <1>1, <1>3, <1>4, AppendProperties
<1>6. Append(c, e) = [i \in 1 .. n + 1 |-> Append(c, e)[i]] BY <1>5, LenProperties
<1>7. \A i \in 1 .. n + 1 : Append(c, e)[i] = [id |-> id, at |-> i - 1, of |-> length]
  <2> SUFFICES ASSUME NEW i \in 1 .. n + 1 PROVE Append(c, e)[i] = [id |-> id, at |-> i - 1, of |-> length]
    OBVIOUS
  <2>1. CASE i \in 1 .. n BY <1>5, <2>1 DEF Cut
  <2>2. CASE i = n + 1
    <3>1. i - 1 = n BY <2>2
    <3>2. e = [id |-> id, at |-> i - 1, of |-> length] BY <3>1
    <3> HIDE DEF c, e
    <3>3. Append(c, e)[n + 1] = e BY <1>5
    <3>4. Append(c, e)[i] = e BY <2>2, <3>3, Zenon
    <3> QED BY <3>2, <3>4, Zenon
  <2>3. i \in 1 .. n \/ i = n + 1 OBVIOUS
  <2> QED BY <2>1, <2>2, <2>3
<1> HIDE DEF c, e
<1>8. Append(c, e) = [i \in 1 .. n + 1 |-> [id |-> id, at |-> i - 1, of |-> length]] BY <1>6, <1>7
<1> QED BY <1>4, <1>8 DEF Cut, c, e

LEMMA CutHas == ASSUME NEW id, NEW length, NEW n \in Nat PROVE Len(Cut(id, length, n)) = n
<1>1. Append(Cut(id, length, n), [id |-> id, at |-> n, of |-> length]) = Cut(id, length, n + 1) /\ Len(Cut(id, length, n)) = n
  BY CutGrows, Zenon
<1> QED BY <1>1

LEMMA WholeIsWhole ==
  ASSUME Ts!DemuxAssumption, NEW u \in WholePes
  PROVE  /\ Len(u) \in 1 .. MaxAssembly
         /\ \A j \in 1 .. Len(u) : u[j] = [id |-> u[1].id, at |-> j - 1, of |-> Len(u)]
<1> USE DEF Ts!DemuxAssumption
<1>1. PICK id \in Nat, n \in 1 .. MaxAssembly : u = Cut(id, n, n) BY DEF WholePes
<1>2. Len(u) = n BY <1>1, CutHas
<1>3. \A j \in 1 .. n : u[j] = [id |-> id, at |-> j - 1, of |-> n] BY <1>1 DEF Cut
<1>4. 1 \in 1 .. n OBVIOUS
<1>5. u[1].id = id
  <2>1. u[1] = [id |-> id, at |-> 1 - 1, of |-> n] BY <1>3, <1>4
  <2> QED BY <2>1
<1> QED BY <1>2, <1>3, <1>5

LEMMA TsTruth == Ts!DemuxAssumption /\ TsInv => Ts!WholePackets
<1> USE DEF Ts!DemuxAssumption
<1> SUFFICES ASSUME Ts!DemuxAssumption, TsInv, NEW p \in Pids, NEW i \in 1 .. Len(handed[p])
             PROVE  /\ \A j \in 1 .. Len(handed[p][i]) :
                         handed[p][i][j]
                           = [id |-> handed[p][i][1].id, at |-> j - 1, of |-> Len(handed[p][i])]
                    /\ Len(handed[p][i]) <= MaxAssembly
                    /\ i > 1 => handed[p][i - 1][1].id < handed[p][i][1].id
  BY DEF Ts!WholePackets
<1>1. handed[p] \in Seq(WholePes) /\ InOrder(handed[p]) BY DEF TsInv, Stream, Ordered
<1>2. Len(handed[p]) \in Nat BY <1>1
<1>3. handed[p][i] \in WholePes BY <1>1, ElementOfSeq
<1>4. i > 1 => i \in 2 .. Len(handed[p]) BY <1>2
<1>5. i > 1 => handed[p][i - 1][1].id < handed[p][i][1].id BY <1>1, <1>4 DEF InOrder, PesOf
<1>6. /\ Len(handed[p][i]) \in 1 .. MaxAssembly
      /\ \A j \in 1 .. Len(handed[p][i]) :
           handed[p][i][j] = [id |-> handed[p][i][1].id, at |-> j - 1, of |-> Len(handed[p][i])]
  BY <1>3, WholeIsWhole
<1>7. Len(handed[p][i]) <= MaxAssembly BY <1>6
<1> QED BY <1>5, <1>6, <1>7

LEMMA TsStart == Ts!DemuxAssumption /\ Ts!Init => TsInv
<1> USE DEF Ts!DemuxAssumption
<1> SUFFICES ASSUME Ts!DemuxAssumption, Ts!Init PROVE TsInv OBVIOUS
<1>1. known \in BOOLEAN BY Zenon DEF Ts!Init
<1>2. waiting \subseteq Pids BY DEF Ts!Init
<1>3. \A f \in {pes, counter, lost, last, parts, handed} : f = [p \in Pids |-> f[p]] BY DEF Ts!Init
<1>4. ASSUME NEW p \in Pids PROVE Stream(p)
  <2>1. /\ pes[p] = [id |-> 0, length |-> 0, open |-> FALSE, at |-> 0] /\ counter[p] = 0 /\ lost[p] = 0
        /\ last[p] = -1 /\ parts[p] = {} /\ handed[p] = <<>>
    BY DEF Ts!Init
  <2>2. handed[p] \in Seq(WholePes) /\ Len(handed[p]) = 0 BY <2>1, EmptySeq
  <2>3. Ordered(p) BY <2>2 DEF Ordered, InOrder
  <2>4. Counted(p) BY <2>1 DEF Counted
  <2>5. pes[p] \in [id : Nat, length : Nat, open : BOOLEAN, at : Nat] BY <2>1
  <2>6. pes[p].at <= pes[p].length /\ (pes[p].at = 0 => pes[p].length = 0) BY <2>1
  <2> QED BY <2>1, <2>3, <2>4, <2>5, <2>6 DEF Stream
<1> QED BY <1>1, <1>2, <1>3, <1>4 DEF TsInv

-----------------------------------------------------------------------------
LEMMA PesIsNumber == ASSUME Ts!DemuxAssumption, NEW v \in WholePes PROVE PesOf(v) \in Nat
<1> USE DEF Ts!DemuxAssumption
<1>1. PICK i \in Nat, k \in 1 .. MaxAssembly : v = Cut(i, k, k) BY DEF WholePes
<1>2. Cut(i, k, k)[1] = [id |-> i, at |-> 1 - 1, of |-> k] BY DEF Cut
<1> QED BY <1>1, <1>2 DEF PesOf

LEMMA OneMorePes ==
  ASSUME Ts!DemuxAssumption, NEW h \in Seq(WholePes), InOrder(h), NEW id \in Nat, NEW n \in 1 .. MaxAssembly,
         \A i \in 1 .. Len(h) : PesOf(h[i]) < id
  PROVE  /\ h \o <<Cut(id, n, n)>> \in Seq(WholePes) /\ InOrder(h \o <<Cut(id, n, n)>>)
         /\ \A i \in 1 .. Len(h \o <<Cut(id, n, n)>>) : PesOf((h \o <<Cut(id, n, n)>>)[i]) <= id
<1> USE DEF Ts!DemuxAssumption
<1> DEFINE u == Cut(id, n, n)
           g == h \o <<u>>
           m == Len(h)
<1>1. u \in WholePes BY DEF WholePes
<1>2. PesOf(u) = id
  <2>1. u[1] = [id |-> id, at |-> 1 - 1, of |-> n] BY DEF Cut
  <2> QED BY <2>1 DEF PesOf
<1>3. \A v \in WholePes : PesOf(v) \in Nat BY PesIsNumber
<1> HIDE DEF u
<1>4. /\ g \in Seq(WholePes) /\ Len(g) = m + 1 /\ m \in Nat
      /\ \A i \in 1 .. m : g[i] = h[i]
      /\ g[m + 1] = u
  <2>1. g = Append(h, u) BY <1>1, AppendIsConcat
  <2>2. /\ Append(h, u) \in Seq(WholePes) /\ Len(Append(h, u)) = m + 1 /\ m \in Nat
        /\ \A i \in 1 .. m : Append(h, u)[i] = h[i]
        /\ Append(h, u)[m + 1] = u
    BY <1>1, AppendProperties
  <2> HIDE DEF g
  <2> QED BY <2>1, <2>2
<1> HIDE DEF g, m
<1>5. \A i \in 1 .. m : PesOf(h[i]) < id /\ PesOf(h[i]) \in Nat
  <2>1. \A i \in 1 .. m : h[i] \in WholePes BY ElementOfSeq DEF m
  <2> QED BY <1>3, <2>1 DEF m
<1>6. \A i \in 1 .. m + 1 : PesOf(g[i]) <= id
  <2> SUFFICES ASSUME NEW i \in 1 .. m + 1 PROVE PesOf(g[i]) <= id OBVIOUS
  <2>1. CASE i = m + 1 BY <1>2, <1>4, <2>1
  <2>2. CASE i # m + 1
    <3>1. i \in 1 .. m BY <1>4, <2>2
    <3>2. PesOf(g[i]) < id /\ PesOf(g[i]) \in Nat BY <1>4, <1>5, <3>1
    <3> QED BY <3>2
  <2> QED BY <2>1, <2>2
<1>7. InOrder(g)
  <2> SUFFICES ASSUME NEW i \in 2 .. m + 1 PROVE PesOf(g[i - 1]) < PesOf(g[i]) BY <1>4 DEF InOrder
  <2>1. i - 1 \in 1 .. m BY <1>4
  <2>2. g[i - 1] = h[i - 1] BY <1>4, <2>1
  <2>3. CASE i = m + 1
    <3>1. g[i] = u BY <1>4, <2>3
    <3>2. PesOf(h[i - 1]) < id BY <1>5, <2>1
    <3> QED BY <1>2, <2>2, <3>1, <3>2
  <2>4. CASE i # m + 1
    <3>1. i \in 1 .. m /\ i \in 2 .. m BY <1>4, <2>4
    <3>2. g[i] = h[i] BY <1>4, <3>1
    <3>3. PesOf(h[i - 1]) < PesOf(h[i]) BY <3>1 DEF InOrder, m
    <3> QED BY <2>2, <3>2, <3>3
  <2> QED BY <2>3, <2>4
<1>8. Len(g) = m + 1 BY <1>4
<1>9. \A i \in 1 .. Len(g) : PesOf(g[i]) <= id BY <1>6, <1>8
<1> QED BY <1>4, <1>7, <1>9 DEF g, u

(* acceptContinuity() of a packet that did not come before.                 *)
AcceptedAs(R, k, A, lossy) ==
  /\ R.st = [last |-> k.cc, assembly |-> IF k.discontinuity \/ lossy THEN {} ELSE A,
             waiting |-> R.st.waiting]
  /\ R.take => R.st.waiting = FALSE
  /\ ~R.take => R.st.assembly = {} /\ ~k.start
  /\ R.st.waiting \in BOOLEAN

LEMMA AcceptOne ==
  ASSUME NEW l \in Int, NEW A, NEW b \in BOOLEAN, NEW k, k.start \in BOOLEAN, k.discontinuity \in BOOLEAN,
         k.discontinuity => k.start, l # k.cc, k.cc \in Nat, l >= 0 \/ A = {}, b => A = {},
         NEW lossy \in BOOLEAN, l >= 0 => (k.cc # (l + 1) % Modulus <=> lossy),
         NEW R, R = Ts!Accept([last |-> l, assembly |-> A, waiting |-> b], k)
  PROVE  AcceptedAs(R, k, A, lossy)
<1> USE DEF AcceptedAs
<1> DEFINE st0 == [last |-> l, assembly |-> A, waiting |-> b]
           B == IF k.discontinuity \/ lossy THEN {} ELSE A
<1>1. CASE k.discontinuity
  <2> DEFINE st == [last |-> -1, assembly |-> {}, waiting |-> (b \/ k.pid \in Ts!Streams)]
  <2>1. ~Ts!Gap(st, k) BY DEF Ts!Gap
  <2>2. st.last # k.cc /\ k.start BY <1>1
  <2>3. R = [st |-> [last |-> k.cc, assembly |-> {}, waiting |-> FALSE], take |-> TRUE]
    BY <1>1, <2>1, <2>2 DEF Ts!Accept
  <2> DEFINE q == [last |-> k.cc, assembly |-> {}, waiting |-> FALSE]
  <2>6. q.waiting = FALSE BY Zenon
  <2>7. R = [st |-> q, take |-> TRUE] BY <2>3
  <2> HIDE DEF q
  <2>8. R.st = q BY <2>7
  <2>9. R.take BY <2>7
  <2>4. /\ R.st = [last |-> k.cc, assembly |-> {}, waiting |-> FALSE]
        /\ R.st.waiting = FALSE
    BY <2>6, <2>8, Zenon DEF q
  <2>5. R.st.waiting \in BOOLEAN BY <2>4, Zenon
  <2> QED BY <1>1, <2>4, <2>5, <2>9
<1>2. CASE ~k.discontinuity
  <2>1. Ts!Gap(st0, k) <=> l >= 0 /\ lossy BY DEF Ts!Gap
  <2>2. (IF Ts!Gap(st0, k) THEN {} ELSE A) = B BY <1>2, <2>1
  <2>3. CASE k.start
    <3>1. R = [st |-> [last |-> k.cc, assembly |-> B, waiting |-> FALSE], take |-> TRUE]
      BY <1>2, <2>2, <2>3 DEF Ts!Accept
    <3> DEFINE q == [last |-> k.cc, assembly |-> B, waiting |-> FALSE]
    <3> HIDE DEF B
    <3>4. q.waiting = FALSE BY Zenon
    <3>5. R = [st |-> q, take |-> TRUE] BY <3>1
    <3> HIDE DEF q
    <3>6. R.st = q BY <3>5
    <3>7. R.take BY <3>5
    <3>2. /\ R.st = [last |-> k.cc, assembly |-> B, waiting |-> FALSE]
          /\ R.st.waiting = FALSE
      BY <3>4, <3>6, Zenon DEF q
    <3>3. R.st.waiting \in BOOLEAN BY <3>2, Zenon
    <3> QED BY <1>2, <2>3, <3>2, <3>3, <3>7 DEF B
  <2>4. CASE ~k.start
    <3> DEFINE w == b \/ (Ts!Gap(st0, k) /\ k.pid \in Ts!Streams)
               t == ~Ts!Gap(st0, k) /\ ~w
    <3>1. R = [st |-> [last |-> k.cc, assembly |-> B, waiting |-> w], take |-> t]
      BY <1>2, <2>2, <2>4 DEF Ts!Accept
    <3>2. t => w = FALSE OBVIOUS
    <3>3. ~t => B = {} BY <2>2
    <3>4. w \in BOOLEAN OBVIOUS
    <3> HIDE DEF w, t, B
    <3>5. R.st = [last |-> k.cc, assembly |-> B, waiting |-> w] /\ R.take = t BY <3>1
    <3> QED BY <1>2, <2>4, <3>2, <3>3, <3>4, <3>5 DEF B
  <2> QED BY <2>3, <2>4
<1> QED BY <1>1, <1>2

PushOnto(st, l, A, b, k, w, z, g, P) ==
  /\ st = [last |-> l, assembly |-> A, waiting |-> b] /\ P = Ts!Push(st, k)
  /\ g = Append(w, [id |-> k.id, at |-> k.at, of |-> k.length]) /\ Len(g) \in Nat
  /\ (IF k.start THEN {[units |-> <<>>, size |-> IF k.open THEN -1 ELSE k.length]} ELSE A)
       = {[units |-> w, size |-> z]}
PushedTo(P, l, A, b, k, g, z) ==
  /\ P.out = IF k.start THEN {<<a.units>> : a \in A} ELSE {}
  /\ P.st.last = l
  /\ Len(g) > MaxAssembly => P.full = {} /\ P.st.assembly = {}
  /\ Len(g) <= MaxAssembly /\ z >= 0 /\ Len(g) >= z => P.full = {<<g>>} /\ P.st.assembly = {}
  /\ Len(g) <= MaxAssembly /\ ~(z >= 0 /\ Len(g) >= z) =>
       P.full = {} /\ P.st.assembly = {[units |-> g, size |-> z]} /\ P.st.waiting = b

(* pushPesPayload() onto w, the size of which is to be z.                   *)
LEMMA PushOne ==
  ASSUME Ts!DemuxAssumption, NEW st, NEW l, NEW A, NEW b \in BOOLEAN, NEW k, NEW w, NEW z \in Int, NEW g, NEW P,
         PushOnto(st, l, A, b, k, w, z, g, P)
  PROVE  PushedTo(P, l, A, b, k, g, z)
<1> USE DEF Ts!DemuxAssumption, PushedTo, PushOnto
<1> DEFINE before == {[units |-> w, size |-> z]}
           grown == {[a EXCEPT !.units = Append(@, [id |-> k.id, at |-> k.at, of |-> k.length])] : a \in before}
           e == [units |-> g, size |-> z]
           tooLong == \E a \in grown : Len(a.units) > MaxAssembly
           full == {a \in grown : ~tooLong /\ a.size >= 0 /\ Len(a.units) >= a.size}
<1>1. grown = {e} OBVIOUS
<1>2. /\ P.out = IF k.start THEN {<<a.units>> : a \in A} ELSE {}
      /\ P.full = {<<a.units>> : a \in full}
      /\ P.st = [st EXCEPT !.assembly = IF tooLong THEN {} ELSE grown \ full, !.waiting = @ \/ tooLong]
  BY DEF Ts!Push, Ts!Whole
<1> HIDE DEF grown
<1>3. tooLong <=> Len(g) > MaxAssembly BY <1>1
<1>4. full = IF ~tooLong /\ z >= 0 /\ Len(g) >= z THEN {e} ELSE {} BY <1>1
<1> HIDE DEF full, tooLong
<1>5. /\ P.st.last = l /\ P.st.assembly = (IF tooLong THEN {} ELSE grown \ full)
      /\ P.st.waiting = (b \/ tooLong)
  BY <1>2
<1>6. full = {e} => P.full = {<<g>>}
  <2>1. e.units = g OBVIOUS
  <2> HIDE DEF e
  <2>2. {<<a.units>> : a \in {e}} = {<<e.units>>} OBVIOUS
  <2>3. P.full = {<<a.units>> : a \in full} BY <1>2
  <2> QED BY <2>1, <2>2, <2>3
<1>7. full = {} => P.full = {} BY <1>2
<1>8. CASE Len(g) > MaxAssembly
  <2>1. tooLong /\ ~(Len(g) <= MaxAssembly) BY <1>3, <1>8
  <2>2. full = {} BY <1>4, <2>1
  <2> QED BY <1>2, <1>5, <1>7, <1>8, <2>1, <2>2
<1>9. CASE ~(Len(g) > MaxAssembly)
  <2>1. ~tooLong BY <1>3, <1>9
  <2>2. (b \/ tooLong) = b BY <2>1
  <2>3. CASE z >= 0 /\ Len(g) >= z
    <3>1. full = {e} /\ grown \ full = {} BY <1>1, <1>4, <2>1, <2>3
    <3> QED BY <1>2, <1>5, <1>6, <1>9, <2>1, <2>3, <3>1
  <2>4. CASE ~(z >= 0 /\ Len(g) >= z)
    <3>1. full = {} /\ grown \ full = {e} BY <1>1, <1>4, <2>1, <2>4
    <3> QED BY <1>2, <1>5, <1>7, <1>9, <2>1, <2>2, <2>4, <3>1
  <2> QED BY <2>3, <2>4
<1> QED BY <1>8, <1>9

(* Nothing is being put together.                                           *)
PushNothing(st, l, b, k, P) ==
  /\ st = [last |-> l, assembly |-> {}, waiting |-> b] /\ k.start = FALSE /\ P = Ts!Push(st, k)

LEMMA PushNone ==
  ASSUME NEW st, NEW l, NEW b \in BOOLEAN, NEW k, NEW P, PushNothing(st, l, b, k, P)
  PROVE  P.out = {} /\ P.full = {} /\ P.st.last = l /\ P.st.assembly = {}
<1> USE DEF PushNothing
<1>1. P.out = {} /\ P.full = {} BY DEF Ts!Push, Ts!Whole
<1>2. P.st = [st EXCEPT !.assembly = {}, !.waiting = @ \/ FALSE] BY DEF Ts!Push, Ts!Whole
<1> QED BY <1>1, <1>2

-----------------------------------------------------------------------------
LEMMA CounterTells ==
  ASSUME Ts!DemuxAssumption, NEW p, Stream(p), last[p] >= 0
  PROVE  last[p] # counter[p] /\ (counter[p] # (last[p] + 1) % Modulus <=> lost[p] > 0)
<1> USE DEF Ts!DemuxAssumption
<1>1. /\ counter[p] \in 0 .. Modulus - 1 /\ lost[p] \in 0 .. MaxBurst /\ last[p] \in 0 .. Modulus - 1
      /\ counter[p] \in {last[p] + 1 + lost[p], last[p] + 1 + lost[p] - Modulus}
  BY DEF Stream, Counted
<1>2. (last[p] + 1) % Modulus = IF last[p] = Modulus - 1 THEN 0 ELSE last[p] + 1 BY <1>1
<1>3. PICK m \in Int : m = (last[p] + 1) % Modulus BY <1>2, <1>1
<1>4. m = IF last[p] = Modulus - 1 THEN 0 ELSE last[p] + 1 BY <1>2, <1>3
<1>5. last[p] # counter[p] /\ (counter[p] # m <=> lost[p] > 0) BY <1>1, <1>4
<1> QED BY <1>3, <1>5

LEMMA CounterMoves ==
  ASSUME Ts!DemuxAssumption, NEW c \in 0 .. Modulus - 1
  PROVE  /\ (c + 1) % Modulus \in 0 .. Modulus - 1 /\ (c + 1) % Modulus \in {c + 1, c + 1 - Modulus}
         /\ (c - 1 + Modulus) % Modulus = IF c = 0 THEN Modulus - 1 ELSE c - 1
<1> USE DEF Ts!DemuxAssumption
<1>1. (c + 1) % Modulus = IF c = Modulus - 1 THEN 0 ELSE c + 1 OBVIOUS
<1>2. (c - 1 + Modulus) % Modulus = IF c = 0 THEN Modulus - 1 ELSE c - 1 OBVIOUS
<1> QED BY <1>1, <1>2

LEMMA StreamStays ==
  ASSUME NEW q \in Pids, Stream(q), pes'[q] = pes[q], counter'[q] = counter[q], lost'[q] = lost[q],
         last'[q] = last[q], parts'[q] = parts[q], handed'[q] = handed[q],
         q \in waiting' <=> q \in waiting, known => known'
  PROVE  Stream(q)'
BY DEF Stream, Counted, Ordered, Beginning

(* What is sent next.                                                       *)
LEMMA NextUnitIs ==
  ASSUME Ts!DemuxAssumption, NEW p \in Pids, Stream(p), NEW s \in Ts!NextUnit(p)
  PROVE  /\ s \in [id : Nat, length : Nat, open : BOOLEAN, at : Nat] /\ s.at < s.length
         /\ [s EXCEPT !.at = @ + 1] \in [id : Nat, length : Nat, open : BOOLEAN, at : Nat]
         /\ [s EXCEPT !.at = @ + 1].id = s.id /\ [s EXCEPT !.at = @ + 1].length = s.length
         /\ [s EXCEPT !.at = @ + 1].at = s.at + 1
         /\ s.at > 0 => s = pes[p]
         /\ s.at = 0 => s.id = pes[p].id + 1 /\ pes[p].at = pes[p].length
<1> USE DEF Ts!DemuxAssumption
<1>1. /\ pes[p] \in [id : Nat, length : Nat, open : BOOLEAN, at : Nat] /\ pes[p].at <= pes[p].length
      /\ pes[p].at = 0 => pes[p].length = 0
  BY DEF Stream
<1>2. /\ s \in [id : Nat, length : Nat, open : BOOLEAN, at : Nat] /\ s.at < s.length
      /\ s.at > 0 => s = pes[p]
      /\ s.at = 0 => s.id = pes[p].id + 1 /\ pes[p].at = pes[p].length
  <2>1. CASE pes[p].at < pes[p].length
    <3>1. s = pes[p] BY <2>1 DEF Ts!NextUnit
    <3> QED BY <1>1, <2>1, <3>1
  <2>2. CASE ~(pes[p].at < pes[p].length)
    <3>1. PICK l \in PesLengths, o \in BOOLEAN : s = [id |-> pes[p].id + 1, length |-> l, open |-> o, at |-> 0]
      BY <2>2 DEF Ts!NextUnit
    <3>2. s.id = pes[p].id + 1 /\ s.length = l /\ s.open = o /\ s.at = 0 BY <3>1
    <3>3. l \in Nat \ {0} /\ pes[p].id + 1 \in Nat BY <1>1
    <3>4. s \in [id : Nat, length : Nat, open : BOOLEAN, at : Nat] BY <3>1, <3>3
    <3> QED BY <1>1, <2>2, <3>2, <3>3, <3>4
  <2> QED BY <2>1, <2>2
<1>3. s.at + 1 \in Nat BY <1>2
<1> QED BY <1>2, <1>3

LEMMA Flattened == Ts!Flat({}) = <<>> /\ \A s : Ts!Flat({s}) = s
BY DEF Ts!Flat

LEMMA TsLoses ==
  ASSUME Ts!DemuxAssumption, TsInv, NEW p \in Pids, NEW s \in Ts!NextUnit(p), Ts!Lose(p, s)
  PROVE  TsInv'
<1> USE DEF Ts!DemuxAssumption
<1> DEFINE n == [s EXCEPT !.at = @ + 1]
<1>1. Stream(p) /\ \A f \in {pes, counter, lost, last, parts, handed} : f = [q \in Pids |-> f[q]]
  BY DEF TsInv
<1>2. /\ n \in [id : Nat, length : Nat, open : BOOLEAN, at : Nat] /\ s.at < s.length
      /\ n.id = s.id /\ n.length = s.length /\ n.at = s.at + 1
      /\ s \in [id : Nat, length : Nat, open : BOOLEAN, at : Nat]
      /\ s.at > 0 => s = pes[p]
      /\ s.at = 0 => s.id = pes[p].id + 1 /\ pes[p].at = pes[p].length
  BY <1>1, NextUnitIs
<1>3. /\ pes' = [pes EXCEPT ![p] = n] /\ counter' = [counter EXCEPT ![p] = (@ + 1) % Modulus]
      /\ lost[p] < MaxBurst /\ lost' = [lost EXCEPT ![p] = @ + 1]
      /\ UNCHANGED <<known, last, waiting, parts, handed>>
  BY DEF Ts!Lose, Ts!Sent
<1> HIDE DEF n
<1>4. /\ pes'[p] = n /\ counter'[p] = (counter[p] + 1) % Modulus /\ lost'[p] = lost[p] + 1
      /\ \A q \in Pids \ {p} : pes'[q] = pes[q] /\ counter'[q] = counter[q] /\ lost'[q] = lost[q]
      /\ \A f \in {pes', counter', lost', last', parts', handed'} : f = [q \in Pids |-> f[q]]
  BY <1>1, <1>3
<1>5. /\ counter[p] \in 0 .. Modulus - 1 /\ lost[p] \in 0 .. MaxBurst /\ last[p] \in -1 .. Modulus - 1
      /\ Counted(p) /\ Ordered(p)
      /\ parts[p] # {} => known /\ p \notin waiting
      /\ pes[p] \in [id : Nat, length : Nat, open : BOOLEAN, at : Nat]
  BY <1>1 DEF Stream
<1>6. counter'[p] \in 0 .. Modulus - 1 /\ counter'[p] \in {counter[p] + 1, counter[p] + 1 - Modulus}
  BY <1>4, <1>5, CounterMoves
<1>7. lost'[p] \in 1 .. MaxBurst BY <1>3, <1>4, <1>5
<1>8. Counted(p)'
  <2>1. CASE last[p] = -1 BY <1>3, <1>5, <1>7, <2>1 DEF Counted
  <2>2. CASE last[p] >= 0
    <3>1. counter[p] \in {last[p] + 1 + lost[p], last[p] + 1 + lost[p] - Modulus}
      BY <1>5, <2>2 DEF Counted
    <3>2. counter'[p] \in {last[p] + 1 + lost'[p], last[p] + 1 + lost'[p] - Modulus}
      BY <1>4, <1>5, <1>6, <2>2, <3>1
    <3> QED BY <1>3, <2>2, <3>2 DEF Counted
  <2> QED BY <1>5, <2>1, <2>2
<1>9. Ordered(p)'
  <2>1. handed[p] \in Seq(WholePes) /\ InOrder(handed[p]) /\ \A i \in 1 .. Len(handed[p]) : PesOf(handed[p][i]) <= pes[p].id
    BY <1>5 DEF Ordered
  <2>2. pes[p].id <= pes'[p].id BY <1>2, <1>4, <1>5
  <2>3. \A i \in 1 .. Len(handed[p]) : PesOf(handed[p][i]) <= pes'[p].id
    <3>1. \A i \in 1 .. Len(handed[p]) : PesOf(handed[p][i]) \in Nat
      BY <2>1, PesIsNumber, ElementOfSeq
    <3>2. pes[p].id \in Nat /\ pes'[p].id \in Nat BY <1>2, <1>4, <1>5
    <3> QED BY <2>1, <2>2, <3>1, <3>2
  <2> QED BY <1>3, <2>1, <2>3 DEF Ordered, InOrder
<1>10. /\ pes'[p] \in [id : Nat, length : Nat, open : BOOLEAN, at : Nat]
       /\ pes'[p].at <= pes'[p].length /\ (pes'[p].at = 0 => pes'[p].length = 0)
  BY <1>2, <1>4
<1>11. Stream(p)'
  <2>1. lost'[p] \in 0 .. MaxBurst /\ lost'[p] # 0 BY <1>7
  <2>2. /\ last'[p] \in -1 .. Modulus - 1
        /\ parts'[p] # {} => known' /\ p \notin waiting'
    BY <1>3, <1>5
  <2> QED BY <1>6, <1>8, <1>9, <1>10, <2>1, <2>2 DEF Stream
<1>12. \A q \in Pids \ {p} : Stream(q)' BY <1>3, <1>4, StreamStays DEF TsInv
<1> QED BY <1>3, <1>4, <1>11, <1>12 DEF TsInv

(* pushTsPacket()                                                           *)
Taken(p, R, P) ==
  /\ last' = [last EXCEPT ![p] = P.st.last] /\ parts' = [parts EXCEPT ![p] = P.st.assembly]
  /\ waiting' = IF P.st.waiting THEN waiting \cup {p} ELSE waiting \ {p}
  /\ handed' = [handed EXCEPT ![p] = (@ \o Ts!Flat(P.out)) \o Ts!Flat(P.full)]
NotTaken(p, R) ==
  /\ last' = [last EXCEPT ![p] = R.st.last] /\ parts' = [parts EXCEPT ![p] = R.st.assembly]
  /\ waiting' = IF R.st.waiting THEN waiting \cup {p} ELSE waiting \ {p}
  /\ handed' = handed

LEMMA ReceiveIs ==
  ASSUME NEW k, NEW p, k.pid = p, Ts!Receive(k), NEW R, NEW P,
         R = Ts!Accept([last |-> last[p], assembly |-> parts[p], waiting |-> p \in waiting], k),
         P = Ts!Push(R.st, k)
  PROVE  IF R.take /\ p \in Ts!Streams THEN Taken(p, R, P) ELSE NotTaken(p, R)
BY Zenon DEF Ts!Receive, Taken, NotTaken

(* A packet that comes again is known by its counter.                       *)
LEMMA TsRepeats ==
  ASSUME Ts!DemuxAssumption, TsInv, NEW p \in Pids, Ts!Repeat(p)
  PROVE  TsInv'
<1> USE DEF Ts!DemuxAssumption
<1> DEFINE k0 == Ts!Packet(p, [pes[p] EXCEPT !.at = @ - 1], FALSE)
           c == (counter[p] - 1 + Modulus) % Modulus
           k == [k0 EXCEPT !.cc = c]
           st == [last |-> last[p], assembly |-> parts[p], waiting |-> p \in waiting]
           R == Ts!Accept(st, k)
<1>1. Stream(p) /\ \A f \in {pes, counter, lost, last, parts, handed} : f = [q \in Pids |-> f[q]]
  BY DEF TsInv
<1>2. pes[p].at > 0 /\ lost[p] = 0 /\ Ts!Receive(k) /\ UNCHANGED <<pes, counter, lost, known>>
  BY DEF Ts!Repeat, Ts!senderVars
<1>3. k.pid = p /\ k.cc = c /\ k.discontinuity = FALSE BY DEF Ts!Packet
<1>4. last[p] = c
  <2>1. counter[p] \in 0 .. Modulus - 1 /\ last[p] \in -1 .. Modulus - 1 /\ Counted(p)
    BY <1>1 DEF Stream
  <2>2. last[p] >= 0 /\ counter[p] \in {last[p] + 1, last[p] + 1 - Modulus}
    BY <1>2, <2>1 DEF Counted
  <2>3. c = IF counter[p] = 0 THEN Modulus - 1 ELSE counter[p] - 1 BY <2>1, CounterMoves
  <2> HIDE DEF c
  <2> QED BY <2>1, <2>2, <2>3
<1> HIDE DEF c
<1>5. R = [st |-> st, take |-> FALSE]
  <2>1. st.last = k.cc BY <1>3, <1>4
  <2>2. ~k.discontinuity BY <1>3
  <2> HIDE DEF st, k
  <2> QED BY <2>1, <2>2 DEF Ts!Accept
<1> HIDE DEF R, k
<1>6. R.st = st /\ ~R.take BY <1>5
<1>13. R = Ts!Accept([last |-> last[p], assembly |-> parts[p], waiting |-> p \in waiting], k)
  BY DEF R
<1>7. NotTaken(p, R)
  <2>1. PICK P : P = Ts!Push(R.st, k) OBVIOUS
  <2>2. IF R.take /\ p \in Ts!Streams THEN Taken(p, R, P) ELSE NotTaken(p, R)
    BY <1>2, <1>3, <1>13, <2>1, ReceiveIs
  <2> QED BY <1>6, <2>2
<1>8. R.st.last = last[p] /\ R.st.assembly = parts[p] /\ (R.st.waiting <=> p \in waiting)
  <2>1. st.last = last[p] /\ st.assembly = parts[p] BY Zenon
  <2>2. st.waiting = (p \in waiting) BY Zenon
  <2> HIDE DEF st
  <2> QED BY <1>6, <2>1, <2>2, Zenon
<1>9. /\ last = [q \in Pids |-> last[q]] /\ parts = [q \in Pids |-> parts[q]] BY <1>1
<1>10. last' = last /\ parts' = parts /\ handed' = handed BY <1>7, <1>8, <1>9 DEF NotTaken
<1>11. waiting' = waiting BY <1>7, <1>8 DEF NotTaken
<1>12. \A q \in Pids : Stream(q)' BY <1>2, <1>10, <1>11, StreamStays DEF TsInv
<1>14. UNCHANGED <<pes, counter, lost, last, parts, handed, known, waiting>> BY <1>2, <1>10, <1>11
<1>15. \A f \in {pes', counter', lost', last', parts', handed'} : f = [q \in Pids |-> f[q]]
  BY <1>1, <1>14
<1>16. known' \in BOOLEAN /\ waiting' \subseteq Pids BY <1>14 DEF TsInv
<1> QED BY <1>12, <1>15, <1>16 DEF TsInv

(* What a stream is like when a packet has been taken in: h1 has been       *)
(* handed on before it.                                                     *)
PushLeft(s, h1, z, g, P) ==
  /\ h1 \in Seq(WholePes) /\ InOrder(h1) /\ \A i \in 1 .. Len(h1) : PesOf(h1[i]) < s.id
  /\ g = Cut(s.id, s.length, s.at + 1) /\ z \in {-1, s.length} /\ s.at < s.length
  /\ s.at + 1 > MaxAssembly => P.full = {} /\ P.st.assembly = {}
  /\ s.at + 1 <= MaxAssembly /\ z >= 0 /\ s.at + 1 >= z => P.full = {<<g>>} /\ P.st.assembly = {}
  /\ s.at + 1 <= MaxAssembly /\ ~(z >= 0 /\ s.at + 1 >= z) =>
       P.full = {} /\ P.st.assembly = {[units |-> g, size |-> z]} /\ P.st.waiting = FALSE
CameIn(p, s, h1, P) ==
  /\ known' /\ lost'[p] = 0 /\ handed'[p] = h1 \o Ts!Flat(P.full) /\ parts'[p] = P.st.assembly
  /\ P.st.waiting = FALSE => p \notin waiting'
  /\ pes'[p] \in [id : Nat, length : Nat, open : BOOLEAN, at : Nat]
  /\ pes'[p].id = s.id /\ pes'[p].length = s.length /\ pes'[p].at = s.at + 1
  /\ counter'[p] \in 0 .. Modulus - 1 /\ last'[p] \in 0 .. Modulus - 1
  /\ counter'[p] \in {last'[p] + 1, last'[p] + 1 - Modulus}

LEMMA StreamPushed ==
  ASSUME Ts!DemuxAssumption, NEW p \in Pids, NEW s \in [id : Nat, length : Nat, open : BOOLEAN, at : Nat], NEW h1, NEW z, NEW g, NEW P,
         PushLeft(s, h1, z, g, P), CameIn(p, s, h1, P)
  PROVE  Stream(p)'
<1> USE DEF Ts!DemuxAssumption, PushLeft, CameIn
<1>1. s.at \in Nat /\ s.length \in Nat /\ s.id \in Nat OBVIOUS
<1>2. Counted(p)' BY <1>1 DEF Counted
<1>3. lost'[p] \in 0 .. MaxBurst OBVIOUS
<1>4. pes'[p].at <= pes'[p].length /\ pes'[p].at # 0 BY <1>1
<1>5. last'[p] \in -1 .. Modulus - 1 OBVIOUS
<1>6. \A i \in 1 .. Len(h1) : PesOf(h1[i]) \in Nat BY PesIsNumber, ElementOfSeq
<1>7. \A i \in 1 .. Len(h1) : PesOf(h1[i]) <= s.id BY <1>1, <1>6
<1>8. h1 \o <<>> = h1 BY ConcatEmptySeq
<1>9. CASE s.at + 1 <= MaxAssembly /\ z >= 0 /\ s.at + 1 >= z
  <2>1. P.full = {<<g>>} /\ parts'[p] = {} BY <1>9
  <2>2. s.length = s.at + 1 /\ s.length \in 1 .. MaxAssembly BY <1>1, <1>9
  <2>3. handed'[p] = h1 \o <<Cut(s.id, s.length, s.length)>> BY <2>1, <2>2, Flattened
  <2>4. /\ h1 \o <<Cut(s.id, s.length, s.length)>> \in Seq(WholePes)
        /\ InOrder(h1 \o <<Cut(s.id, s.length, s.length)>>)
        /\ \A i \in 1 .. Len(h1 \o <<Cut(s.id, s.length, s.length)>>) :
             PesOf((h1 \o <<Cut(s.id, s.length, s.length)>>)[i]) <= s.id
    BY <1>1, <2>2, OneMorePes
  <2>5. /\ handed'[p] \in Seq(WholePes) /\ InOrder(handed'[p])
        /\ \A i \in 1 .. Len(handed'[p]) : PesOf(handed'[p][i]) <= pes'[p].id
    BY <2>3, <2>4
  <2>6. Ordered(p)' BY <2>5 DEF Ordered, InOrder
  <2> QED BY <1>2, <1>3, <1>4, <1>5, <2>1, <2>6 DEF Stream
<1>10. CASE s.at + 1 > MaxAssembly
  <2>1. P.full = {} /\ parts'[p] = {} BY <1>10
  <2>2. handed'[p] = h1 BY <1>8, <2>1, Flattened
  <2>3. Ordered(p)' BY <1>7, <2>2 DEF Ordered, InOrder
  <2> QED BY <1>2, <1>3, <1>4, <1>5, <2>1, <2>3 DEF Stream
<1>11. CASE s.at + 1 <= MaxAssembly /\ ~(z >= 0 /\ s.at + 1 >= z)
  <2>1. P.full = {} /\ parts'[p] = {[units |-> g, size |-> z]} /\ p \notin waiting' BY <1>11
  <2>2. handed'[p] = h1 BY <1>8, <2>1, Flattened
  <2>3. Ordered(p)' BY <1>7, <2>2 DEF Ordered, InOrder
  <2>4. s.at + 1 \in 1 .. MaxAssembly /\ (z >= 0 => s.at + 1 < z) BY <1>1, <1>11
  <2>5. Beginning(p)' BY <2>1, <2>4 DEF Beginning
  <2>6. \A i \in 1 .. Len(handed'[p]) : PesOf(handed'[p][i]) < pes'[p].id BY <2>2
  <2> QED BY <1>2, <1>3, <1>4, <1>5, <2>1, <2>3, <2>5, <2>6 DEF Stream
<1> QED BY <1>1, <1>9, <1>10, <1>11

LEMMA NothingCut == ASSUME NEW id, NEW length PROVE Cut(id, length, 0) = <<>>
BY DEF Cut

LEMMA TsDelivers ==
  ASSUME Ts!DemuxAssumption, TsInv, NEW p \in Pids, NEW s \in Ts!NextUnit(p), NEW flagged \in BOOLEAN, flagged => s.at = 0,
         Ts!Deliver(p, s, flagged)
  PROVE  TsInv'
<1> USE DEF Ts!DemuxAssumption
<1> DEFINE n == [s EXCEPT !.at = @ + 1]
           lossy == lost[p] > 0
           h == handed[p]
<1>1. Stream(p) /\ \A f \in {pes, counter, lost, last, parts, handed} : f = [q \in Pids |-> f[q]]
  BY DEF TsInv
<1>2. /\ n \in [id : Nat, length : Nat, open : BOOLEAN, at : Nat] /\ s.at < s.length
      /\ n.id = s.id /\ n.length = s.length /\ n.at = s.at + 1
      /\ s \in [id : Nat, length : Nat, open : BOOLEAN, at : Nat]
      /\ s.at > 0 => s = pes[p]
      /\ s.at = 0 => s.id = pes[p].id + 1 /\ pes[p].at = pes[p].length
  BY <1>1, NextUnitIs
<1>3. PICK k : k = Ts!Packet(p, s, flagged) OBVIOUS
<1>4. /\ pes' = [pes EXCEPT ![p] = n] /\ counter' = [counter EXCEPT ![p] = (@ + 1) % Modulus]
      /\ lost' = [lost EXCEPT ![p] = 0] /\ Ts!Receive(k) /\ known' = known
  BY <1>3 DEF Ts!Deliver, Ts!Sent
<1>5. /\ k.pid = p /\ k.cc = counter[p] /\ k.id = s.id /\ k.at = s.at /\ k.length = s.length /\ k.open = s.open
      /\ (k.start <=> s.at = 0) /\ (k.discontinuity <=> flagged)
      /\ k.start \in BOOLEAN /\ k.discontinuity \in BOOLEAN
  <2>1. k = [pid |-> p, cc |-> counter[p], start |-> s.at = 0, id |-> s.id, at |-> s.at,
             length |-> s.length, open |-> s.open, discontinuity |-> flagged]
    BY <1>3 DEF Ts!Packet
  <2>2. k.start = (s.at = 0) /\ k.discontinuity = flagged BY <2>1, Zenon
  <2> QED BY <2>1, <2>2
<1>6. /\ counter[p] \in 0 .. Modulus - 1 /\ lost[p] \in 0 .. MaxBurst /\ last[p] \in -1 .. Modulus - 1
      /\ Counted(p) /\ Ordered(p)
      /\ parts[p] # {} => known /\ p \notin waiting
      /\ pes[p] \in [id : Nat, length : Nat, open : BOOLEAN, at : Nat]
      /\ parts[p] # {} /\ lost[p] = 0 =>
           Beginning(p) /\ \A i \in 1 .. Len(handed[p]) : PesOf(handed[p][i]) < pes[p].id
  BY <1>1 DEF Stream
<1> HIDE DEF n
<1>7. PICK b \in BOOLEAN : b = (p \in waiting)
  <2>1. (p \in waiting) \in BOOLEAN OBVIOUS
  <2> QED BY <2>1, Zenon
<1>8. PICK R : R = Ts!Accept([last |-> last[p], assembly |-> parts[p], waiting |-> b], k) OBVIOUS
<1>9. PICK P : P = Ts!Push(R.st, k) OBVIOUS
<1>10. IF R.take /\ p \in Ts!Streams THEN Taken(p, R, P) ELSE NotTaken(p, R)
  <2>1. R = Ts!Accept([last |-> last[p], assembly |-> parts[p], waiting |-> p \in waiting], k)
    BY <1>7, <1>8
  <2> QED BY <1>4, <1>5, <1>9, <2>1, ReceiveIs
<1>11. /\ R.st = [last |-> counter[p], assembly |-> IF k.discontinuity \/ lossy THEN {} ELSE parts[p],
                  waiting |-> R.st.waiting]
       /\ R.take => R.st.waiting = FALSE
       /\ ~R.take => R.st.assembly = {} /\ ~k.start
       /\ R.st.waiting \in BOOLEAN
  <2>1. last[p] \in Int /\ lossy \in BOOLEAN /\ k.cc \in Nat /\ (k.discontinuity => k.start)
        /\ k.start \in BOOLEAN /\ k.discontinuity \in BOOLEAN
    BY <1>5, <1>6
  <2>2. last[p] >= 0 \/ parts[p] = {} BY <1>6 DEF Counted
  <2>3. b => parts[p] = {} BY <1>6, <1>7
  <2>4. last[p] # k.cc
    <3>1. CASE last[p] >= 0 BY <1>1, <1>5, <3>1, CounterTells
    <3>2. CASE ~(last[p] >= 0) BY <1>5, <1>6, <3>2
    <3> QED BY <3>1, <3>2
  <2>5. last[p] >= 0 => (k.cc # (last[p] + 1) % Modulus <=> lossy) BY <1>1, <1>5, CounterTells
  <2> HIDE DEF lossy
  <2>6. AcceptedAs(R, k, parts[p], lossy)
    BY <1>8, <2>1, <2>2, <2>3, <2>4, <2>5, AcceptOne
  <2> QED BY <1>5, <2>6 DEF AcceptedAs
<1>12. PICK A : A = IF flagged \/ lossy THEN {} ELSE parts[p] OBVIOUS
<1>13. R.st = [last |-> counter[p], assembly |-> A, waiting |-> R.st.waiting] BY <1>5, <1>11, <1>12
<1>14. R.st.last = counter[p] /\ R.st.assembly = A BY <1>13
<1>15. A # {} => A = parts[p] /\ ~flagged /\ lost[p] = 0 /\ known
  BY <1>6, <1>12
<1>16. /\ counter'[p] \in 0 .. Modulus - 1 /\ counter'[p] \in {counter[p] + 1, counter[p] + 1 - Modulus}
  <2>1. counter'[p] = (counter[p] + 1) % Modulus BY <1>1, <1>4
  <2> QED BY <1>6, <2>1, CounterMoves
<1>17. /\ pes'[p] = n /\ lost'[p] = 0 /\ pes'[p].id = s.id /\ pes'[p].length = s.length /\ pes'[p].at = s.at + 1
       /\ pes'[p] \in [id : Nat, length : Nat, open : BOOLEAN, at : Nat]
  BY <1>1, <1>2, <1>4
<1>18. /\ h \in Seq(WholePes) /\ InOrder(h) /\ \A i \in 1 .. Len(h) : PesOf(h[i]) <= pes[p].id
  BY <1>6 DEF Ordered
<1>19. \A i \in 1 .. Len(h) : PesOf(h[i]) \in Nat BY <1>18, PesIsNumber, ElementOfSeq
<1>20. h \o <<>> = h BY <1>18, ConcatEmptySeq
<1>21. ASSUME last' = [last EXCEPT ![p] = counter[p]], parts' = [parts EXCEPT ![p] = {}], handed' = handed,
              waiting' \in {waiting \cup {p}, waiting \ {p}}
       PROVE  TsInv'
  <2>1. last'[p] = counter[p] /\ parts'[p] = {} BY <1>1, <1>21
  <2>2. /\ \A q \in Pids \ {p} : last'[q] = last[q] /\ parts'[q] = parts[q] /\ (q \in waiting' <=> q \in waiting)
        /\ waiting' \subseteq Pids
    BY <1>21 DEF TsInv
  <2>3. \A q \in Pids \ {p} : pes'[q] = pes[q] /\ counter'[q] = counter[q] /\ lost'[q] = lost[q]
    BY <1>1, <1>4
  <2>5. \A f \in {pes', counter', lost', last', parts', handed'} : f = [q \in Pids |-> f[q]]
    BY <1>1, <1>4, <1>21
  <2>6. \A i \in 1 .. Len(h) : PesOf(h[i]) <= pes'[p].id
    <3>1. pes[p].id <= s.id /\ pes[p].id \in Nat /\ s.id \in Nat BY <1>2, <1>6
    <3> QED BY <1>17, <1>18, <1>19, <3>1
  <2>7. Ordered(p)' BY <1>18, <1>21, <2>6 DEF Ordered, InOrder
  <2>8. Counted(p)' BY <1>6, <1>16, <1>17, <2>1 DEF Counted
  <2>9. lost'[p] \in 0 .. MaxBurst /\ last'[p] \in -1 .. Modulus - 1 BY <1>6, <1>17, <2>1
  <2>10. pes'[p].at <= pes'[p].length /\ pes'[p].at # 0 BY <1>2, <1>17
  <2>11. Stream(p)' BY <1>16, <1>17, <2>1, <2>7, <2>8, <2>9, <2>10 DEF Stream
  <2>12. \A q \in Pids \ {p} : Stream(q)' BY <1>4, <1>21, <2>2, <2>3, StreamStays DEF TsInv
  <2> QED BY <1>4, <2>2, <2>5, <2>11, <2>12 DEF TsInv
<1>22. CASE ~(R.take /\ p \in Ts!Streams)
  <2>1. NotTaken(p, R) BY <1>10, <1>22
  <2>2. A = {} BY <1>11, <1>14, <1>15, <1>22 DEF Ts!Streams
  <2> QED BY <1>14, <1>21, <2>1, <2>2 DEF NotTaken
<1>23. CASE R.take /\ p \in Ts!Streams
  <2>1. Taken(p, R, P) /\ known BY <1>10, <1>23 DEF Ts!Streams
  <2>2. R.st.waiting = FALSE BY <1>11, <1>23
  <2>3. PICK f \in BOOLEAN : f = FALSE OBVIOUS
  <2>8. PICK st : st = R.st OBVIOUS
  <2>9. PICK l : l = counter[p] OBVIOUS
  <2>4. st = [last |-> l, assembly |-> A, waiting |-> f] /\ P = Ts!Push(st, k)
    BY <1>9, <1>13, <2>2, <2>3, <2>8, <2>9
  <2>5. ASSUME NEW h1 \in Seq(WholePes), NEW z \in {-1, s.length}, NEW w, NEW g,
               InOrder(h1), \A i \in 1 .. Len(h1) : PesOf(h1[i]) < s.id,
               h \o Ts!Flat(P.out) = h1,
               w = Cut(s.id, s.length, s.at), g = Append(w, [id |-> k.id, at |-> k.at, of |-> k.length]),
               (IF k.start THEN {[units |-> <<>>, size |-> IF k.open THEN -1 ELSE k.length]} ELSE A)
                 = {[units |-> w, size |-> z]}
        PROVE  TsInv'
    <3>1. g = Cut(s.id, s.length, s.at + 1) /\ Len(g) = s.at + 1
      <4>1. Append(Cut(s.id, s.length, s.at), [id |-> s.id, at |-> s.at, of |-> s.length])
              = Cut(s.id, s.length, s.at + 1)
        BY <1>2, CutGrows
      <4>2. Len(Cut(s.id, s.length, s.at + 1)) = s.at + 1 BY <1>2, CutHas
      <4> QED BY <1>5, <2>5, <4>1, <4>2
    <3>2. s.at + 1 \in Nat /\ z \in Int BY <1>2
    <3>3. /\ P.st.last = counter[p]
          /\ Len(g) > MaxAssembly => P.full = {} /\ P.st.assembly = {}
          /\ Len(g) <= MaxAssembly /\ z >= 0 /\ Len(g) >= z => P.full = {<<g>>} /\ P.st.assembly = {}
          /\ Len(g) <= MaxAssembly /\ ~(z >= 0 /\ Len(g) >= z) =>
               P.full = {} /\ P.st.assembly = {[units |-> g, size |-> z]} /\ P.st.waiting = f
      <4>1. PushedTo(P, l, A, f, k, g, z)
        <5>1. Len(g) \in Nat BY <3>1, <3>2
        <5>2. PushOnto(st, l, A, f, k, w, z, g, P) BY <2>4, <2>5, <5>1 DEF PushOnto
        <5> QED BY <3>2, <5>2, PushOne
      <4> QED BY <2>9, <4>1 DEF PushedTo
    <3>4. /\ last' = [last EXCEPT ![p] = counter[p]] /\ parts' = [parts EXCEPT ![p] = P.st.assembly]
          /\ handed' = [handed EXCEPT ![p] = h1 \o Ts!Flat(P.full)]
          /\ waiting' \in {waiting \cup {p}, waiting \ {p}}
          /\ P.st.waiting = FALSE => p \notin waiting'
      BY <2>1, <2>5, <3>3 DEF Taken
    <3>5. /\ last'[p] = counter[p] /\ parts'[p] = P.st.assembly /\ handed'[p] = h1 \o Ts!Flat(P.full)
      BY <1>1, <3>4
    <3>6. /\ \A q \in Pids \ {p} : last'[q] = last[q] /\ parts'[q] = parts[q] /\ handed'[q] = handed[q]
                                   /\ (q \in waiting' <=> q \in waiting)
          /\ waiting' \subseteq Pids
      BY <3>4 DEF TsInv
    <3>7. \A q \in Pids \ {p} : pes'[q] = pes[q] /\ counter'[q] = counter[q] /\ lost'[q] = lost[q]
      BY <1>1, <1>4
    <3>8. \A e \in {pes', counter', lost', last', parts', handed'} : e = [q \in Pids |-> e[q]]
      BY <1>1, <1>4, <3>4
    <3>9. /\ s.at + 1 > MaxAssembly => P.full = {} /\ P.st.assembly = {}
          /\ s.at + 1 <= MaxAssembly /\ z >= 0 /\ s.at + 1 >= z => P.full = {<<g>>} /\ P.st.assembly = {}
          /\ s.at + 1 <= MaxAssembly /\ ~(z >= 0 /\ s.at + 1 >= z) =>
               P.full = {} /\ P.st.assembly = {[units |-> g, size |-> z]} /\ P.st.waiting = FALSE
      BY <2>3, <3>1, <3>3
    <3>10. known' BY <1>4, <2>1
    <3>11. last'[p] \in 0 .. Modulus - 1 /\ counter'[p] \in {last'[p] + 1, last'[p] + 1 - Modulus}
      BY <1>6, <1>16, <3>5
    <3>12. Stream(p)'
      <4>1. PushLeft(s, h1, z, g, P) BY <1>2, <2>5, <3>1, <3>9 DEF PushLeft
      <4>2. CameIn(p, s, h1, P) BY <1>16, <1>17, <3>4, <3>5, <3>10, <3>11 DEF CameIn
      <4> QED BY <1>2, <4>1, <4>2, StreamPushed
    <3>13. \A q \in Pids \ {p} : Stream(q)' BY <1>4, <3>6, <3>7, StreamStays DEF TsInv
    <3> QED BY <1>4, <3>6, <3>8, <3>12, <3>13 DEF TsInv
  <2>6. CASE s.at = 0
    <3> DEFINE z == IF s.open THEN -1 ELSE s.length
    <3>1. k.start /\ z \in {-1, s.length} BY <1>5, <2>6
    <3>2. Cut(s.id, s.length, s.at) = <<>> BY <2>6, NothingCut
    <3>3. PICK g : g = Append(<<>>, [id |-> k.id, at |-> k.at, of |-> k.length]) OBVIOUS
    <3>4. (IF k.start THEN {[units |-> <<>>, size |-> IF k.open THEN -1 ELSE k.length]} ELSE A)
            = {[units |-> <<>>, size |-> z]}
      BY <1>5, <3>1
    <3>5. z \in Int /\ Len(g) \in Nat BY <1>2, <3>1, <3>3
    <3>6. P.out = {<<a.units>> : a \in A}
      <4>1. PushOnto(st, l, A, f, k, <<>>, z, g, P) BY <2>4, <3>3, <3>4, <3>5 DEF PushOnto
      <4>2. PushedTo(P, l, A, f, k, g, z) BY <3>5, <4>1, PushOne
      <4> QED BY <3>1, <4>2 DEF PushedTo
    <3>7. pes[p].id \in Nat /\ s.id = pes[p].id + 1 /\ pes[p].at = pes[p].length BY <1>2, <1>6, <2>6
    <3> HIDE DEF z
    <3>8. CASE A = {}
      <4>1. h \o Ts!Flat(P.out) = h BY <1>20, <3>6, <3>8, Flattened
      <4>2. \A i \in 1 .. Len(h) : PesOf(h[i]) < s.id BY <1>18, <1>19, <3>7
      <4> QED BY <1>18, <2>5, <3>1, <3>2, <3>3, <3>4, <4>1, <4>2
    <3>9. CASE A # {}
      <4> DEFINE u == Cut(pes[p].id, pes[p].length, pes[p].length)
                 h1 == h \o <<u>>
      <4>1. Beginning(p) /\ A = parts[p] /\ \A i \in 1 .. Len(h) : PesOf(h[i]) < pes[p].id
        BY <1>6, <1>15, <3>9
      <4>2. pes[p].length \in 1 .. MaxAssembly /\ P.out = {<<u>>}
        <5>1. PICK y \in {-1, pes[p].length} :
                /\ A = {[units |-> u, size |-> y]} /\ pes[p].at \in 1 .. MaxAssembly
          BY <3>7, <4>1 DEF Beginning
        <5> HIDE DEF u
        <5>2. [units |-> u, size |-> y].units = u OBVIOUS
        <5>3. {<<a.units>> : a \in {[units |-> u, size |-> y]}} = {<<[units |-> u, size |-> y].units>>} OBVIOUS
        <5> QED BY <3>6, <3>7, <5>1, <5>2, <5>3
      <4>3. h \o Ts!Flat(P.out) = h1 BY <4>2, Flattened
      <4>4. /\ h1 \in Seq(WholePes) /\ InOrder(h1)
            /\ \A i \in 1 .. Len(h1) : PesOf(h1[i]) <= pes[p].id
        BY <1>18, <3>7, <4>1, <4>2, OneMorePes
      <4> HIDE DEF h1
      <4>5. \A i \in 1 .. Len(h1) : PesOf(h1[i]) < s.id
        <5>1. \A i \in 1 .. Len(h1) : PesOf(h1[i]) \in Nat BY <4>4, PesIsNumber, ElementOfSeq
        <5> QED BY <3>7, <4>4, <5>1
      <4> QED BY <2>5, <3>1, <3>2, <3>3, <3>4, <4>3, <4>4, <4>5
    <3> QED BY <3>8, <3>9
  <2>7. CASE s.at > 0
    <3>1. ~k.start /\ s = pes[p] BY <1>2, <1>5, <2>7
    <3>2. k.start = FALSE BY <1>5, <3>1
    <3>3. CASE A = {}
      <4>1. P.out = {} /\ P.full = {} /\ P.st.last = counter[p] /\ P.st.assembly = {}
        <5>1. PushNothing(st, l, f, k, P) BY <2>4, <3>2, <3>3 DEF PushNothing
        <5>2. P.out = {} /\ P.full = {} /\ P.st.last = l /\ P.st.assembly = {} BY <5>1, PushNone
        <5> QED BY <2>9, <5>2
      <4>2. (h \o Ts!Flat(P.out)) \o Ts!Flat(P.full) = h BY <1>20, <4>1, Flattened
      <4>3. handed' = [handed EXCEPT ![p] = h] BY <2>1, <4>2 DEF Taken
      <4>4. handed' = handed BY <1>1, <4>3
      <4> QED BY <1>21, <2>1, <4>1, <4>4 DEF Taken
    <3>4. CASE A # {}
      <4>1. Beginning(p) /\ A = parts[p] /\ \A i \in 1 .. Len(h) : PesOf(h[i]) < pes[p].id
        BY <1>6, <1>15, <3>4
      <4>2. PICK z \in {-1, s.length} : A = {[units |-> Cut(s.id, s.length, s.at), size |-> z]}
        BY <3>1, <4>1 DEF Beginning
      <4>3. PICK g : g = Append(Cut(s.id, s.length, s.at), [id |-> k.id, at |-> k.at, of |-> k.length]) OBVIOUS
      <4>4. PICK w : w = Cut(s.id, s.length, s.at) OBVIOUS
      <4>5. (IF k.start THEN {[units |-> <<>>, size |-> IF k.open THEN -1 ELSE k.length]} ELSE A)
              = {[units |-> w, size |-> z]}
        BY <3>1, <4>2, <4>4
      <4>6. z \in Int /\ Len(g) \in Nat
        <5>1. g = Cut(s.id, s.length, s.at + 1) BY <1>2, <1>5, <4>3, CutGrows
        <5> QED BY <1>2, <5>1, CutHas
      <4>7. P.out = {}
        <5>1. PushOnto(st, l, A, f, k, w, z, g, P) BY <2>4, <4>3, <4>4, <4>5, <4>6 DEF PushOnto
        <5>2. PushedTo(P, l, A, f, k, g, z) BY <4>6, <5>1, PushOne
        <5> QED BY <3>1, <5>2 DEF PushedTo
      <4>8. h \o Ts!Flat(P.out) = h BY <1>20, <4>7, Flattened
      <4> QED BY <1>18, <2>5, <3>1, <4>1, <4>2, <4>3, <4>4, <4>5, <4>8
    <3> QED BY <3>3, <3>4
  <2> QED BY <1>2, <2>6, <2>7
<1> QED BY <1>22, <1>23

LEMMA TsStep == Ts!DemuxAssumption /\ TsInv /\ [Ts!Next]_tsOwn => TsInv'
<1> SUFFICES ASSUME Ts!DemuxAssumption, TsInv, [Ts!Next]_tsOwn PROVE TsInv' OBVIOUS
<1>1. CASE Ts!LearnStreams
  <2>1. known' = TRUE /\ UNCHANGED <<pes, counter, lost, last, waiting, parts, handed>>
    BY <1>1 DEF Ts!LearnStreams, Ts!senderVars
  <2>2. known' \in BOOLEAN BY <2>1, Zenon
  <2>3. \A p \in Pids : Stream(p)' BY <2>1, StreamStays DEF TsInv
  <2>4. \A f \in {pes', counter', lost', last', parts', handed'} : f = [q \in Pids |-> f[q]]
    BY <2>1 DEF TsInv
  <2> QED BY <2>1, <2>2, <2>3, <2>4 DEF TsInv
<1>2. ASSUME NEW p \in Pids, NEW s \in Ts!NextUnit(p), Ts!Deliver(p, s, FALSE) PROVE TsInv'
  BY <1>2, TsDelivers
<1>3. ASSUME NEW p \in Pids, NEW s \in Ts!NextUnit(p), s.at = 0, Ts!Deliver(p, s, TRUE) PROVE TsInv'
  BY <1>3, TsDelivers
<1>4. ASSUME NEW p \in Pids, NEW s \in Ts!NextUnit(p), Ts!Lose(p, s) PROVE TsInv' BY <1>4, TsLoses
<1>5. ASSUME NEW p \in Pids, Ts!Repeat(p) PROVE TsInv' BY <1>5, TsRepeats
<1>6. CASE UNCHANGED tsOwn
  <2>1. UNCHANGED <<known, pes, counter, lost, last, waiting, parts, handed>> BY <1>6 DEF tsOwn
  <2>2. \A p \in Pids : Stream(p)' BY <2>1, StreamStays DEF TsInv
  <2>3. \A f \in {pes', counter', lost', last', parts', handed'} : f = [q \in Pids |-> f[q]]
    BY <2>1 DEF TsInv
  <2> QED BY <2>1, <2>2, <2>3 DEF TsInv
<1> QED BY <1>1, <1>2, <1>3, <1>4, <1>5, <1>6 DEF Ts!Next, Ts!Send

-----------------------------------------------------------------------------
(* The video decoder.  What a transform was given is out, ready or inside;  *)
(* what it asked for is known or announced, and so is what it has ready.    *)
CONSTANTS Keys, MaxUnits
VARIABLES pc, active, isAsync, surfaces, credits, unit, units, fed, shown, wasted, uncalled, events,
          asked, inside, ready, changes
Video == INSTANCE VideoDecoder
videoOwn ==
  <<pc, active, isAsync, surfaces, credits, unit, units, fed, shown, wasted, uncalled, events, asked,
    inside, ready, changes>>

VideoTypes ==
  /\ pc \in {"idle", "submit", "drain"} /\ isAsync \in BOOLEAN /\ uncalled \in BOOLEAN
  /\ credits \in Nat /\ asked \in Nat /\ wasted \in Nat /\ changes \in Nat /\ units \in Nat
  /\ unit.id \in Nat
  /\ fed \in Seq(Nat) /\ shown \in Seq(Nat) /\ ready \in Seq(Nat) /\ inside \in Seq(Nat)
  /\ events \in Seq({"need", "output"})
Announced ==
  /\ isAsync => /\ asked = credits + Count(events, "need") + wasted
                /\ Len(ready) = Count(events, "output")
  /\ ~isAsync => ready = <<>>
VideoInv == VideoTypes /\ ~uncalled /\ fed = (shown \o ready) \o inside /\ Announced

LEMMA VideoTruth == VideoInv => Video!TransformIsServed
<1>1. Video!Cardinality({i \in DOMAIN events : events[i] = "need"}) = Count(events, "need")
  BY DEF Video!Cardinality, Cardinality, Count
<1> QED BY <1>1 DEF VideoInv, Announced, Video!TransformIsServed

(* A transform that has not begun.                                          *)
Fresh ==
  /\ fed = <<>> /\ shown = <<>> /\ events = <<>> /\ asked = 0 /\ wasted = 0 /\ inside = <<>>
  /\ ready = <<>> /\ credits = 0

LEMMA FreshIsServed ==
  ASSUME Fresh', isAsync' \in BOOLEAN, changes' \in Nat, pc' \in {"idle", "submit", "drain"},
         units' \in Nat, unit'.id \in Nat, uncalled' = FALSE
  PROVE  VideoInv'
<1>1. /\ fed' = <<>> /\ shown' = <<>> /\ events' = <<>> /\ asked' = 0 /\ inside' = <<>> /\ ready' = <<>>
      /\ credits' = 0 /\ wasted' = 0
  BY DEF Fresh
<1>2. /\ fed' \in Seq(Nat) /\ shown' \in Seq(Nat) /\ ready' \in Seq(Nat) /\ inside' \in Seq(Nat)
      /\ events' \in Seq({"need", "output"})
  BY <1>1, EmptySeq
<1>3. uncalled' \in BOOLEAN OBVIOUS
<1>4. VideoTypes' BY <1>1, <1>2, <1>3 DEF VideoTypes
<1>5. (shown' \o ready') \o inside' = <<>> BY <1>1, <1>2, ConcatEmptySeq
<1>6. Len(ready') = 0 /\ Count(events', "need") = 0 /\ Count(events', "output") = 0
  BY <1>1, NothingCounts, EmptySeq
<1>7. Announced' BY <1>1, <1>6 DEF Announced, Count
<1> QED BY <1>1, <1>4, <1>5, <1>7 DEF VideoInv

LEMMA VideoStart == Video!Init => VideoInv
<1> SUFFICES ASSUME Video!Init PROVE VideoInv OBVIOUS
<1> USE DEF Video!Init
<1>2. /\ fed \in Seq(Nat) /\ shown \in Seq(Nat) /\ ready \in Seq(Nat) /\ inside \in Seq(Nat)
      /\ events \in Seq({"need", "output"})
  BY EmptySeq
<1>1. uncalled \in BOOLEAN /\ isAsync \in BOOLEAN BY Zenon
<1>3. unit.id \in Nat
  <2>1. unit = [id |-> 0, key |-> Video!NoKey] OBVIOUS
  <2>2. unit.id = 0 BY <2>1
  <2> QED BY <2>2
<1>4. VideoTypes BY <1>1, <1>2, <1>3 DEF VideoTypes
<1>5. (shown \o ready) \o inside = <<>> BY <1>2, ConcatEmptySeq
<1>6. Len(ready) = 0 /\ Count(events, "need") = 0 /\ Count(events, "output") = 0
  BY NothingCounts, EmptySeq
<1>7. Announced BY <1>6 DEF Announced
<1> QED BY <1>4, <1>5, <1>7 DEF VideoInv

(* A unit is given to the transform, which takes it or refuses it, ...       *)
LEMMA TakesInput ==
  ASSUME VideoInv, Video!ProcessInput, isAsync => asked > 0, UNCHANGED <<shown, ready>>
  PROVE  /\ fed' \in Seq(Nat) /\ inside' \in Seq(Nat) /\ fed' = (shown' \o ready') \o inside'
         /\ uncalled' = FALSE /\ pc' \in {"idle", "submit", "drain"}
         /\ asked' \in Nat /\ wasted' \in Nat
         /\ isAsync => asked' + wasted + 1 = asked + wasted'
<1>1. /\ shown \in Seq(Nat) /\ ready \in Seq(Nat) /\ inside \in Seq(Nat) /\ fed \in Seq(Nat) /\ unit.id \in Nat
      /\ asked \in Nat /\ wasted \in Nat /\ isAsync \in BOOLEAN /\ fed = (shown \o ready) \o inside
  BY DEF VideoInv, VideoTypes
<1>2. shown \o ready \in Seq(Nat) BY <1>1, ConcatProperties
<1>3. ~uncalled /\ ~(isAsync /\ asked = 0) BY DEF VideoInv
<1>4. uncalled' = FALSE BY <1>3 DEF Video!ProcessInput
<1>5. CASE Video!TakeInput
  <2>1. /\ fed' = Append(fed, unit.id) /\ inside' = Append(inside, unit.id)
        /\ asked' = IF isAsync /\ asked > 0 THEN asked - 1 ELSE asked
        /\ pc' = "drain" /\ wasted' = wasted
    BY <1>5 DEF Video!TakeInput
  <2>2. fed' \in Seq(Nat) /\ inside' \in Seq(Nat) BY <1>1, <2>1, AppendProperties
  <2>3. fed' = (shown \o ready) \o inside'
    <3> DEFINE a == shown \o ready
    <3>1. a \in Seq(Nat) /\ fed = a \o inside BY <1>1, <1>2
    <3> HIDE DEF a
    <3>2. Append(a \o inside, unit.id) = a \o Append(inside, unit.id)
      <4>1. Longer(a, inside, unit.id) BY <1>1, <3>1, LongerEnd
      <4> QED BY <4>1 DEF Longer
    <3>3. fed' = a \o inside' BY <2>1, <3>1, <3>2, Zenon
    <3> QED BY <3>3 DEF a
  <2>4. asked' \in Nat /\ wasted' \in Nat /\ (isAsync => asked' + wasted + 1 = asked + wasted')
    BY <1>1, <2>1
  <2> QED BY <1>1, <1>4, <2>1, <2>2, <2>3, <2>4
<1>6. CASE Video!RefuseInput
  <2>1. /\ pc' = "idle" /\ fed' = fed /\ inside' = inside
        /\ \/ asked' = (IF isAsync /\ asked > 0 THEN asked - 1 ELSE asked) /\ wasted' = wasted
           \/ isAsync /\ wasted' = wasted + 1 /\ asked' = asked
    BY <1>6 DEF Video!RefuseInput
  <2>2. asked' \in Nat /\ wasted' \in Nat /\ (isAsync => asked' + wasted + 1 = asked + wasted')
    BY <1>1, <2>1
  <2> QED BY <1>1, <1>4, <2>1, <2>2
<1> QED BY <1>5, <1>6 DEF Video!ProcessInput

(* ... a request is taken from the queue, ...                               *)
LEMMA RequestHeard ==
  ASSUME VideoInv, isAsync, events # <<>>, Head(events) = "need", events' = Tail(events)
  PROVE  /\ events' \in Seq({"need", "output"}) /\ Count(events, "need") = Count(events', "need") + 1
         /\ Count(events', "need") \in Nat /\ Count(events', "output") = Count(events, "output")
         /\ asked > 0
<1>1. /\ events \in Seq({"need", "output"}) /\ credits \in Nat /\ wasted \in Nat
      /\ asked = credits + Count(events, "need") + wasted
  BY DEF VideoInv, VideoTypes, Announced
<1>2. events' \in Seq({"need", "output"}) BY <1>1, HeadTailProperties
<1>3. /\ Count(Tail(events), "need") \in Nat
      /\ Count(events, "need") = Count(Tail(events), "need") + 1
  <2>1. Count(events, "need") = Count(Tail(events), "need") + IF Head(events) = "need" THEN 1 ELSE 0
    BY <1>1, CountOfTail
  <2>2. Count(Tail(events), "need") \in Nat BY <1>1, CountOfTail
  <2> QED BY <2>1, <2>2
<1>4. Count(events, "output") = Count(Tail(events), "output")
  <2>1. Count(events, "output") = Count(Tail(events), "output") + IF Head(events) = "output" THEN 1 ELSE 0
    BY <1>1, CountOfTail
  <2>2. Count(Tail(events), "output") \in Nat BY <1>1, CountOfTail
  <2> QED BY <2>1, <2>2
<1> QED BY <1>1, <1>2, <1>3, <1>4

(* ... and an announced output is fetched, or announced again.              *)
LEMMA GivesOutput ==
  ASSUME VideoInv, isAsync, events # <<>>, Head(events) = "output", Video!ProcessOutput,
         UNCHANGED <<fed, inside>>
  PROVE  /\ events' \in Seq({"need", "output"}) /\ Count(events', "need") = Count(events, "need")
         /\ shown' \in Seq(Nat) /\ ready' \in Seq(Nat) /\ Len(ready') = Count(events', "output")
         /\ fed' = (shown' \o ready') \o inside' /\ uncalled' = FALSE /\ changes' \in Nat
<1>1. /\ events \in Seq({"need", "output"}) /\ shown \in Seq(Nat) /\ ready \in Seq(Nat) /\ inside \in Seq(Nat)
      /\ changes \in Nat /\ Len(ready) = Count(events, "output") /\ fed = (shown \o ready) \o inside /\ ~uncalled
  BY DEF VideoInv, VideoTypes, Announced
<1> DEFINE t == Tail(events)
<1>2. t \in Seq({"need", "output"}) BY <1>1, HeadTailProperties
<1>3. /\ Count(t, "need") \in Nat /\ Count(t, "output") \in Nat
      /\ Count(events, "need") = Count(t, "need") /\ Count(events, "output") = Count(t, "output") + 1
  <2>1. /\ Count(t, "need") \in Nat /\ Count(t, "output") \in Nat
        /\ Count(events, "need") = Count(t, "need") + IF Head(events) = "need" THEN 1 ELSE 0
        /\ Count(events, "output") = Count(t, "output") + IF Head(events) = "output" THEN 1 ELSE 0
    BY <1>1, CountOfTail
  <2> HIDE DEF t
  <2> QED BY <2>1
<1> HIDE DEF t
<1>4. CASE changes > 0
  <2>1. /\ changes' = changes - 1 /\ events' = Append(t, "output") /\ UNCHANGED <<shown, ready, uncalled>>
    BY <1>4 DEF Video!ProcessOutput, t
  <2>2. /\ Count(Append(t, "output"), "need") = Count(t, "need") + IF "output" = "need" THEN 1 ELSE 0
        /\ Count(Append(t, "output"), "output") = Count(t, "output") + IF "output" = "output" THEN 1 ELSE 0
    BY <1>2, CountOfAppend
  <2>3. events' \in Seq({"need", "output"}) BY <1>2, <2>1, AppendProperties
  <2>4. uncalled' = FALSE BY <1>1, <2>1
  <2>5. Count(events', "need") = Count(events, "need") /\ Count(events', "output") = Count(events, "output")
    BY <1>3, <2>1, <2>2
  <2> QED BY <1>1, <1>4, <2>1, <2>3, <2>4, <2>5
<1>5. CASE ~(changes > 0)
  <2>1. ready # <<>>
    <3>1. ready = <<>> => Len(ready) = 0 BY EmptySeq
    <3> QED BY <1>1, <1>3, <3>1
  <2>2. /\ shown' = Append(shown, Head(ready)) /\ ready' = Tail(ready) /\ events' = t /\ changes' = changes
        /\ uncalled' = (uncalled \/ ready = <<>>)
    BY <1>5, <2>1 DEF Video!ProcessOutput, t
  <2>3. /\ Tail(ready) \in Seq(Nat) /\ Append(shown, Head(ready)) \in Seq(Nat)
        /\ Append(shown, Head(ready)) \o Tail(ready) = shown \o ready
    BY <1>1, <2>1, HeadMovesOn
  <2>4. Len(ready') = Len(ready) - 1 BY <1>1, <2>1, <2>2, HeadTailProperties
  <2>5. uncalled' = FALSE BY <1>1, <2>1, <2>2
  <2>6. Len(ready') = Count(events', "output") BY <1>1, <1>3, <2>2, <2>4
  <2> QED BY <1>1, <1>2, <1>3, <2>2, <2>3, <2>5, <2>6
<1> QED BY <1>4, <1>5

(* Outside of the capture thread.                                           *)
LEMMA TransformWorks ==
  ASSUME VideoInv, Video!AskForInput \/ Video!FinishUnit
  PROVE  VideoInv'
<1>1. VideoTypes /\ ~uncalled /\ fed = (shown \o ready) \o inside /\ Announced BY DEF VideoInv
<1>2. /\ events \in Seq({"need", "output"}) /\ shown \in Seq(Nat) /\ ready \in Seq(Nat) /\ inside \in Seq(Nat)
      /\ asked \in Nat /\ credits \in Nat /\ wasted \in Nat
  BY <1>1 DEF VideoTypes
<1>3. CASE Video!AskForInput
  <2>1. /\ isAsync /\ asked' = asked + 1 /\ events' = Append(events, "need")
        /\ UNCHANGED <<pc, active, isAsync, surfaces, credits, unit, units, fed, shown, wasted, uncalled,
                 inside, ready, changes>>
    BY <1>3 DEF Video!AskForInput
  <2>2. /\ Count(events, "need") \in Nat /\ Count(events, "output") \in Nat
        /\ Count(Append(events, "need"), "need") = Count(events, "need") + IF "need" = "need" THEN 1 ELSE 0
        /\ Count(Append(events, "need"), "output") = Count(events, "output") + IF "need" = "output" THEN 1 ELSE 0
    BY <1>2, CountOfAppend
  <2>3. events' \in Seq({"need", "output"}) BY <1>2, <2>1, AppendProperties
  <2>4. VideoTypes' BY <1>1, <1>2, <2>1, <2>3 DEF VideoTypes
  <2>5. asked' = credits' + Count(events', "need") + wasted' /\ Count(events', "output") = Count(events, "output")
    BY <1>1, <1>2, <2>1, <2>2 DEF Announced
  <2>6. Announced' BY <1>1, <2>1, <2>5 DEF Announced, Count
  <2> QED BY <1>1, <2>1, <2>4, <2>6 DEF VideoInv
<1>4. CASE Video!FinishUnit
  <2>1. /\ isAsync /\ inside # <<>> /\ inside' = Tail(inside) /\ ready' = Append(ready, Head(inside))
        /\ events' = Append(events, "output")
        /\ UNCHANGED <<pc, active, isAsync, surfaces, credits, unit, units, fed, shown, wasted, uncalled,
                 asked, changes>>
    BY <1>4 DEF Video!FinishUnit
  <2>2. Count(events', "need") = Count(events, "need")
    <3>1. "output" \in {"need", "output"} /\ "output" # "need" OBVIOUS
    <3>2. Count(Append(events, "output"), "need") = Count(events, "need")
      BY <1>2, <3>1, NoneMore, Zenon
    <3> QED BY <2>1, <3>2
  <2>10. Count(events', "output") = Count(events, "output") + 1
    <3>1. "output" \in {"need", "output"} OBVIOUS
    <3>2. Count(Append(events, "output"), "output") = Count(events, "output") + 1
      BY <1>2, <3>1, OneMore, Zenon
    <3> QED BY <2>1, <3>2
  <2>3. events' \in Seq({"need", "output"}) BY <1>2, <2>1, AppendProperties
  <2>4. Head(inside) \in Nat /\ Tail(inside) \in Seq(Nat) BY <1>2, <2>1, HeadMovesOn
  <2>5. ready' \in Seq(Nat) /\ Len(ready') = Len(ready) + 1 BY <1>2, <2>1, <2>4, AppendProperties
  <2>6. VideoTypes' BY <1>1, <1>2, <2>1, <2>3, <2>4, <2>5 DEF VideoTypes
  <2>7. Count(events', "need") = Count(events, "need") /\ Len(ready') = Count(events', "output")
    BY <1>1, <2>1, <2>2, <2>5, <2>10 DEF Announced
  <2>8. Announced' BY <1>1, <2>1, <2>7 DEF Announced, Count
  <2>9. fed' = (shown' \o ready') \o inside'
    <3> DEFINE a == shown \o ready
               x == Head(inside)
    <3>1. a \in Seq(Nat) /\ x \in Nat BY <1>2, <2>4, ConcatProperties
    <3>2. Append(a, x) = shown \o Append(ready, x)
      <4>1. Longer(shown, ready, x) BY <1>2, <3>1, LongerEnd
      <4> QED BY <4>1 DEF Longer
    <3>3. fed = a \o inside /\ fed' = fed /\ shown' = shown BY <1>1, <2>1
    <3>4. inside' = Tail(inside) /\ ready' = Append(ready, x) BY <2>1
    <3> HIDE DEF a
    <3>5. Append(a, Head(inside)) \o Tail(inside) = a \o inside BY <1>2, <2>1, <3>1, HeadMovesOn
    <3> HIDE DEF x
    <3>6. shown' \o ready' = Append(a, x) BY <3>2, <3>3, <3>4
    <3> QED BY <3>3, <3>4, <3>5, <3>6 DEF x
  <2> QED BY <1>1, <2>1, <2>6, <2>8, <2>9 DEF VideoInv
<1> QED BY <1>3, <1>4

(* The capture thread in a decode() call.                                   *)
LEMMA UnitSubmitted ==
  ASSUME VideoInv, Video!SubmitSync \/ Video!UseCredit \/ Video!WaitForRequest
  PROVE  VideoInv'
<1>1. VideoTypes /\ ~uncalled /\ fed = (shown \o ready) \o inside /\ Announced BY DEF VideoInv
<1>2. /\ events \in Seq({"need", "output"}) /\ shown \in Seq(Nat) /\ ready \in Seq(Nat) /\ inside \in Seq(Nat)
      /\ asked \in Nat /\ wasted \in Nat /\ credits \in Nat /\ units \in Nat /\ unit.id \in Nat /\ changes \in Nat
      /\ isAsync \in BOOLEAN /\ pc \in {"idle", "submit", "drain"}
  BY <1>1 DEF VideoTypes
<1>3. Count(events, "need") \in Nat BY <1>2, CountType
<1>4. CASE Video!SubmitSync
  <2>1. /\ pc = "submit" /\ ~isAsync /\ Video!ProcessInput
        /\ UNCHANGED <<active, isAsync, surfaces, credits, unit, units, shown, events, ready, changes>>
    BY <1>4 DEF Video!SubmitSync
  <2>2. /\ fed' \in Seq(Nat) /\ inside' \in Seq(Nat) /\ fed' = (shown' \o ready') \o inside'
        /\ uncalled' = FALSE /\ asked' \in Nat /\ wasted' \in Nat
        /\ pc' \in {"idle", "submit", "drain"}
    BY <2>1, TakesInput
  <2>3. uncalled' \in BOOLEAN BY <2>2, Zenon
  <2>4. VideoTypes' BY <1>2, <2>1, <2>2, <2>3 DEF VideoTypes
  <2>5. Announced' BY <1>1, <2>1 DEF Announced
  <2> QED BY <2>2, <2>4, <2>5 DEF VideoInv
<1>5. CASE Video!UseCredit
  <2>1. /\ pc = "submit" /\ isAsync /\ credits > 0 /\ credits' = credits - 1 /\ Video!ProcessInput
        /\ UNCHANGED <<active, isAsync, surfaces, unit, units, shown, events, ready, changes>>
    BY <1>5 DEF Video!UseCredit
  <2>2. asked = credits + Count(events, "need") + wasted /\ Len(ready) = Count(events, "output")
    BY <1>1, <2>1 DEF Announced
  <2>3. asked > 0 BY <1>2, <1>3, <2>1, <2>2
  <2>4. /\ fed' \in Seq(Nat) /\ inside' \in Seq(Nat) /\ fed' = (shown' \o ready') \o inside'
        /\ uncalled' = FALSE /\ asked' \in Nat /\ wasted' \in Nat
        /\ pc' \in {"idle", "submit", "drain"} /\ asked' + wasted + 1 = asked + wasted'
    BY <2>1, <2>3, TakesInput
  <2>5. uncalled' \in BOOLEAN BY <2>4, Zenon
  <2>6. credits' \in Nat /\ asked' = credits' + Count(events, "need") + wasted'
    <3>1. credits' \in Nat /\ credits' + Count(events, "need") = credits + Count(events, "need") - 1
      BY <1>2, <1>3, <2>1
    <3>2. asked' + wasted + 1 = asked + wasted' /\ asked' \in Nat /\ wasted' \in Nat BY <2>4
    <3>3. asked = credits + Count(events, "need") + wasted BY <2>2
    <3>4. /\ credits \in Nat /\ asked \in Nat /\ wasted \in Nat /\ Count(events, "need") \in Nat
      BY <1>2, <1>3
    <3> QED BY <3>1, <3>2, <3>3, <3>4
  <2>7. VideoTypes' BY <1>2, <2>1, <2>4, <2>5, <2>6 DEF VideoTypes
  <2>8. Announced' BY <2>1, <2>2, <2>6 DEF Announced, Count
  <2> QED BY <2>4, <2>7, <2>8 DEF VideoInv
<1>6. CASE Video!WaitForRequest
  <2>1. /\ pc = "submit" /\ isAsync /\ credits = 0 /\ events # <<>>
        /\ UNCHANGED <<active, isAsync, surfaces, credits, unit, units>>
    BY <1>6 DEF Video!WaitForRequest
  <2>2. asked = credits + Count(events, "need") + wasted /\ Len(ready) = Count(events, "output")
    BY <1>1, <2>1 DEF Announced
  <2>3. CASE Head(events) = "need"
    <3>1. /\ events' = Tail(events) /\ Video!ProcessInput /\ UNCHANGED <<shown, ready, changes>>
      BY <1>6, <2>3 DEF Video!WaitForRequest
    <3>2. /\ events' \in Seq({"need", "output"}) /\ Count(events, "need") = Count(events', "need") + 1
          /\ Count(events', "need") \in Nat /\ Count(events', "output") = Count(events, "output")
          /\ asked > 0
      BY <2>1, <2>3, <3>1, RequestHeard
    <3>3. /\ fed' \in Seq(Nat) /\ inside' \in Seq(Nat) /\ fed' = (shown' \o ready') \o inside'
          /\ uncalled' = FALSE /\ asked' \in Nat /\ wasted' \in Nat
          /\ pc' \in {"idle", "submit", "drain"} /\ asked' + wasted + 1 = asked + wasted'
      BY <2>1, <3>1, <3>2, TakesInput
    <3>4. uncalled' \in BOOLEAN BY <3>3, Zenon
    <3>5. asked' = credits' + Count(events', "need") + wasted'
      <4>1. credits' + Count(events', "need") = credits + Count(events, "need") - 1
        BY <1>2, <2>1, <3>2
      <4>2. asked' + wasted + 1 = asked + wasted' /\ asked' \in Nat /\ wasted' \in Nat BY <3>3
      <4>3. asked = credits + Count(events, "need") + wasted BY <2>2
      <4>4. /\ credits \in Nat /\ asked \in Nat /\ wasted \in Nat /\ Count(events, "need") \in Nat
            /\ credits' \in Nat /\ Count(events', "need") \in Nat
        BY <1>2, <1>3, <2>1, <3>2
      <4> QED BY <4>1, <4>2, <4>3, <4>4
    <3>6. VideoTypes' BY <1>2, <2>1, <3>1, <3>2, <3>3, <3>4 DEF VideoTypes
    <3>7. Announced' BY <2>1, <2>2, <3>1, <3>2, <3>5 DEF Announced, Count
    <3> QED BY <3>3, <3>6, <3>7 DEF VideoInv
  <2>4. CASE Head(events) = "output"
    <3>1. Video!ProcessOutput /\ UNCHANGED <<pc, fed, wasted, inside, asked>>
      BY <1>6, <2>4 DEF Video!WaitForRequest
    <3>2. /\ events' \in Seq({"need", "output"}) /\ Count(events', "need") = Count(events, "need")
          /\ shown' \in Seq(Nat) /\ ready' \in Seq(Nat) /\ Len(ready') = Count(events', "output")
          /\ fed' = (shown' \o ready') \o inside' /\ uncalled' = FALSE /\ changes' \in Nat
      BY <2>1, <2>4, <3>1, GivesOutput
    <3>3. uncalled' \in BOOLEAN BY <3>2, Zenon
    <3>4. fed' \in Seq(Nat) BY <1>1, <3>1 DEF VideoTypes
    <3>5. VideoTypes' BY <1>2, <2>1, <3>1, <3>2, <3>3, <3>4 DEF VideoTypes
    <3>6. Announced' BY <2>1, <2>2, <3>1, <3>2 DEF Announced, Count
    <3> QED BY <3>2, <3>5, <3>6 DEF VideoInv
  <2> QED BY <1>6, <2>3, <2>4 DEF Video!WaitForRequest
<1> QED BY <1>4, <1>5, <1>6

LEMMA UnitDrained ==
  ASSUME VideoInv, Video!DrainEvent \/ Video!DrainSync \/ Video!DecodeReturns
  PROVE  VideoInv'
<1>1. VideoTypes /\ ~uncalled /\ fed = (shown \o ready) \o inside /\ Announced BY DEF VideoInv
<1>2. /\ events \in Seq({"need", "output"}) /\ shown \in Seq(Nat) /\ ready \in Seq(Nat) /\ inside \in Seq(Nat)
      /\ asked \in Nat /\ wasted \in Nat /\ credits \in Nat /\ units \in Nat /\ unit.id \in Nat /\ changes \in Nat
      /\ isAsync \in BOOLEAN /\ pc \in {"idle", "submit", "drain"} /\ fed \in Seq(Nat) /\ uncalled \in BOOLEAN
  BY <1>1 DEF VideoTypes
<1>3. CASE Video!DrainEvent
  <2>1. /\ isAsync /\ events # <<>>
        /\ UNCHANGED <<pc, active, isAsync, surfaces, unit, units, fed, wasted, asked, inside>>
    BY <1>3 DEF Video!DrainEvent
  <2>2. asked = credits + Count(events, "need") + wasted /\ Len(ready) = Count(events, "output")
    BY <1>1, <2>1 DEF Announced
  <2>3. CASE Head(events) = "need"
    <3>1. events' = Tail(events) /\ credits' = credits + 1 /\ UNCHANGED <<shown, ready, changes, uncalled>>
      BY <1>3, <2>3 DEF Video!DrainEvent
    <3>2. /\ events' \in Seq({"need", "output"}) /\ Count(events, "need") = Count(events', "need") + 1
          /\ Count(events', "need") \in Nat /\ Count(events', "output") = Count(events, "output")
          /\ asked > 0
      BY <2>1, <2>3, <3>1, RequestHeard
    <3>3. credits' \in Nat /\ asked' = credits' + Count(events', "need") + wasted'
      BY <1>2, <2>1, <2>2, <3>1, <3>2
    <3>4. VideoTypes' BY <1>2, <2>1, <3>1, <3>2, <3>3 DEF VideoTypes
    <3>5. Announced' BY <2>1, <2>2, <3>1, <3>2, <3>3 DEF Announced, Count
    <3> QED BY <1>1, <2>1, <3>1, <3>4, <3>5 DEF VideoInv
  <2>4. CASE Head(events) = "output"
    <3>1. Video!ProcessOutput /\ UNCHANGED credits
      BY <1>3, <2>4 DEF Video!DrainEvent
    <3>2. /\ events' \in Seq({"need", "output"}) /\ Count(events', "need") = Count(events, "need")
          /\ shown' \in Seq(Nat) /\ ready' \in Seq(Nat) /\ Len(ready') = Count(events', "output")
          /\ fed' = (shown' \o ready') \o inside' /\ uncalled' = FALSE /\ changes' \in Nat
      BY <2>1, <2>4, <3>1, GivesOutput
    <3>3. uncalled' \in BOOLEAN BY <3>2, Zenon
    <3>4. VideoTypes' BY <1>2, <2>1, <3>1, <3>2, <3>3 DEF VideoTypes
    <3>5. Announced' BY <2>1, <2>2, <3>1, <3>2 DEF Announced, Count
    <3> QED BY <3>2, <3>4, <3>5 DEF VideoInv
  <2> QED BY <1>3, <2>3, <2>4 DEF Video!DrainEvent
<1>4. CASE Video!DrainSync
  <2>1. /\ ~isAsync
        /\ UNCHANGED <<active, isAsync, surfaces, credits, unit, units, fed, wasted, uncalled, events, asked, ready>>
    BY <1>4 DEF Video!DrainSync
  <2>2. ready = <<>> /\ ready' = <<>> BY <1>1, <2>1 DEF Announced
  <2>3. Announced' BY <2>1, <2>2 DEF Announced
  <2>4. CASE changes > 0 /\ changes' = changes - 1 /\ UNCHANGED <<shown, inside, pc>>
    <3>1. VideoTypes' BY <1>2, <2>1, <2>4 DEF VideoTypes
    <3> QED BY <1>1, <2>1, <2>3, <2>4, <3>1 DEF VideoInv
  <2>5. CASE /\ inside # <<>> /\ shown' = Append(shown, Head(inside)) /\ inside' = Tail(inside)
             /\ UNCHANGED <<changes, pc>>
    <3>1. /\ Tail(inside) \in Seq(Nat) /\ Append(shown, Head(inside)) \in Seq(Nat)
          /\ Append(shown, Head(inside)) \o Tail(inside) = shown \o inside
      BY <1>2, <2>5, HeadMovesOn
    <3>2. VideoTypes' BY <1>2, <2>1, <2>5, <3>1 DEF VideoTypes
    <3>3. shown \o ready = shown /\ shown' \o ready' = shown'
      BY <1>2, <2>2, <2>5, <3>1, ConcatEmptySeq
    <3>4. fed' = (shown' \o ready') \o inside' BY <1>1, <2>1, <2>5, <3>1, <3>3
    <3> QED BY <1>1, <2>1, <2>3, <3>2, <3>4 DEF VideoInv
  <2>6. CASE pc' = "idle" /\ UNCHANGED <<changes, shown, inside>>
    <3>1. VideoTypes' BY <1>2, <2>1, <2>6 DEF VideoTypes
    <3> QED BY <1>1, <2>1, <2>3, <2>6, <3>1 DEF VideoInv
  <2> QED BY <1>4, <2>4, <2>5, <2>6 DEF Video!DrainSync
<1>5. CASE Video!DecodeReturns
  <2>1. /\ pc' = "idle"
        /\ UNCHANGED <<active, isAsync, surfaces, credits, unit, units, fed, shown, wasted, uncalled, events, asked,
                       inside, ready, changes>>
    BY <1>5 DEF Video!DecodeReturns, Video!transformVars
  <2>2. VideoTypes' BY <1>2, <2>1 DEF VideoTypes
  <2>3. Announced' BY <1>1, <2>1 DEF Announced, Count
  <2> QED BY <1>1, <2>1, <2>2, <2>3 DEF VideoInv
<1> QED BY <1>3, <1>4, <1>5

(* A transform is kept, made or let go.                                     *)
LEMMA UnitComes ==
  ASSUME Video!DecoderAssumption, VideoInv, NEW key, NEW s \in BOOLEAN, Video!Decode(key, s) PROVE VideoInv'
<1> USE DEF Video!DecoderAssumption
<1>1. VideoTypes /\ ~uncalled /\ fed = (shown \o ready) \o inside /\ Announced BY DEF VideoInv
<1>2. /\ events \in Seq({"need", "output"}) /\ shown \in Seq(Nat) /\ ready \in Seq(Nat) /\ inside \in Seq(Nat)
      /\ asked \in Nat /\ wasted \in Nat /\ credits \in Nat /\ units \in Nat /\ changes \in Nat
      /\ isAsync \in BOOLEAN /\ fed \in Seq(Nat) /\ uncalled \in BOOLEAN
  BY <1>1 DEF VideoTypes
<1>3. /\ units' = units + 1 /\ unit' = [id |-> units + 1, key |-> key] /\ Video!EnsureSession(key, s)
      /\ UNCHANGED uncalled
  BY DEF Video!Decode
<1>4. units' \in Nat /\ unit'.id \in Nat BY <1>2, <1>3
<1>5. uncalled' = FALSE BY <1>1, <1>2, <1>3
<1>6. CASE /\ pc' = "submit"
           /\ UNCHANGED <<active, isAsync, surfaces, credits, fed, shown, wasted, Video!transformVars>>
  <2>1. UNCHANGED <<isAsync, credits, fed, shown, wasted, events, asked, inside, ready, changes>>
    BY <1>6 DEF Video!transformVars
  <2>2. VideoTypes' BY <1>2, <1>3, <1>4, <1>6, <2>1 DEF VideoTypes
  <2>3. Announced' BY <1>1, <2>1 DEF Announced, Count
  <2> QED BY <1>1, <1>5, <2>1, <2>2, <2>3 DEF VideoInv
<1>7. CASE credits' = 0 /\ (\E async \in BOOLEAN : Video!CreateTransform(async)) /\ pc' = "submit"
  <2>1. PICK async \in BOOLEAN : Video!CreateTransform(async) BY <1>7
  <2>2. PICK n \in 0 .. MaxChanges : changes' = n BY <2>1 DEF Video!CreateTransform
  <2>3. Fresh' BY <1>7, <2>1 DEF Fresh, Video!CreateTransform
  <2>4. isAsync' \in BOOLEAN BY <2>1, Zenon DEF Video!CreateTransform
  <2>5. changes' \in Nat BY <2>2
  <2>6. pc' \in {"idle", "submit", "drain"} BY <1>7
  <2> QED BY <1>4, <1>5, <2>3, <2>4, <2>5, <2>6, FreshIsServed
<1>8. CASE Video!Reset /\ pc' = "idle"
  <2>1. Fresh' /\ changes' = 0 BY <1>8 DEF Fresh, Video!Reset
  <2>2. isAsync' \in BOOLEAN BY <1>8, Zenon DEF Video!Reset
  <2>3. changes' \in Nat /\ pc' \in {"idle", "submit", "drain"} BY <1>8, <2>1
  <2> QED BY <1>4, <1>5, <2>1, <2>2, <2>3, FreshIsServed
<1> QED BY <1>3, <1>6, <1>7, <1>8 DEF Video!EnsureSession

LEMMA DecoderReset == ASSUME VideoInv, Video!ResetDecoder PROVE VideoInv'
<1>1. VideoTypes /\ ~uncalled BY DEF VideoInv
<1>2. pc \in {"idle", "submit", "drain"} /\ units \in Nat /\ unit.id \in Nat /\ uncalled \in BOOLEAN
  BY <1>1 DEF VideoTypes
<1>3. Video!Reset /\ UNCHANGED <<pc, unit, units, uncalled>> BY DEF Video!ResetDecoder
<1>4. Fresh' /\ changes' = 0 BY <1>3 DEF Fresh, Video!Reset
<1>5. isAsync' \in BOOLEAN BY <1>3, Zenon DEF Video!Reset
<1>6. changes' \in Nat /\ pc' \in {"idle", "submit", "drain"} /\ units' \in Nat /\ unit'.id \in Nat
  BY <1>2, <1>3, <1>4
<1>7. uncalled' = FALSE BY <1>1, <1>2, <1>3
<1> QED BY <1>4, <1>5, <1>6, <1>7, FreshIsServed

LEMMA VideoStep == Video!DecoderAssumption /\ VideoInv /\ [Video!Next]_videoOwn => VideoInv'
<1> SUFFICES ASSUME Video!DecoderAssumption, VideoInv, [Video!Next]_videoOwn PROVE VideoInv' OBVIOUS
<1>1. ASSUME NEW key \in Keys \cup {Video!NoKey}, NEW s \in BOOLEAN, Video!Decode(key, s) PROVE VideoInv'
  BY <1>1, UnitComes
<1>2. CASE Video!ResetDecoder BY <1>2, DecoderReset
<1>3. CASE Video!Thread BY <1>3, UnitSubmitted, UnitDrained DEF Video!Thread
<1>4. CASE Video!AskForInput \/ Video!FinishUnit BY <1>4, TransformWorks
<1>5. CASE UNCHANGED videoOwn
  BY <1>5 DEF videoOwn, VideoInv, VideoTypes, Announced, Count
<1> QED BY <1>1, <1>2, <1>3, <1>4, <1>5 DEF Video!Next

-----------------------------------------------------------------------------
(* The AAC decoder.  What it hands on is read in the layout it has, and the *)
(* frame held back comes after everything that is out.                      *)
CONSTANTS StreamFormats, Layouts, MaxSound
VARIABLES format, layout, produces, negotiated, back, heard, sound
Aac == INSTANCE AacDecoder WITH
  settled <- negotiated, held <- back, frames <- heard, MaxFrames <- MaxSound
aacOwn == <<format, layout, produces, negotiated, back, heard, sound>>

SoundLayouts == StreamFormats \cup Layouts \cup {Aac!None}
Pcm == [frame : Nat, has : SoundLayouts, readAs : SoundLayouts]
AacTypes ==
  /\ format \in SoundLayouts /\ layout \in SoundLayouts /\ produces = layout
  /\ negotiated \in BOOLEAN /\ heard \in Nat /\ back \subseteq 1 .. heard /\ sound \in Seq(Pcm)
Rising(s) ==
  \A i \in 1 .. Len(s) : s[i].readAs = s[i].has /\ (i > 1 => s[i - 1].frame < s[i].frame)
Before(s, n) == \A i \in 1 .. Len(s) : s[i].frame < n
AacInv == AacTypes /\ Rising(sound) /\ Before(sound, heard + 1) /\ \A h \in back : Before(sound, h)

LEMMA AacTruth == AacInv => Aac!SoundKeepsItsLayout
<1> SUFFICES ASSUME AacInv PROVE Aac!SoundKeepsItsLayout OBVIOUS
<1>1. DOMAIN sound = 1 .. Len(sound) BY LenProperties DEF AacInv, AacTypes
<1> QED BY <1>1 DEF AacInv, Rising, Aac!SoundKeepsItsLayout

LEMMA AacStart == Aac!Init => AacInv
<1> SUFFICES ASSUME Aac!Init PROVE AacInv OBVIOUS
<1> USE DEF Aac!Init
<1>1. sound \in Seq(Pcm) /\ Len(sound) = 0 BY EmptySeq
<1>2. AacTypes BY <1>1 DEF AacTypes, SoundLayouts
<1> QED BY <1>1, <1>2 DEF AacInv, Rising, Before

(* A frame that comes after all that is out.                                *)
LEMMA SoundGoesOn ==
  ASSUME NEW s \in Seq(Pcm), Rising(s), NEW x \in Pcm, x.readAs = x.has, Before(s, x.frame)
  PROVE  /\ Append(s, x) \in Seq(Pcm) /\ Rising(Append(s, x))
         /\ \A n \in Nat : Before(s, n) /\ x.frame < n => Before(Append(s, x), n)
<1> DEFINE t == Append(s, x)
<1>1. /\ t \in Seq(Pcm) /\ Len(t) = Len(s) + 1 /\ Len(s) \in Nat
      /\ \A i \in 1 .. Len(s) : t[i] = s[i]
      /\ t[Len(s) + 1] = x
  BY AppendProperties, LenProperties
<1> HIDE DEF t
<1>2. \A i \in 1 .. Len(t) : i \in 1 .. Len(s) \/ i = Len(s) + 1 BY <1>1
<1>3. ASSUME NEW i \in 1 .. Len(t) PROVE t[i].readAs = t[i].has /\ (i > 1 => t[i - 1].frame < t[i].frame)
  <2>1. CASE i \in 1 .. Len(s)
    <3>1. i > 1 => i - 1 \in 1 .. Len(s) BY <1>1, <2>1
    <3> QED BY <1>1, <2>1, <3>1 DEF Rising
  <2>2. CASE i = Len(s) + 1
    <3>1. i > 1 => i - 1 \in 1 .. Len(s) BY <1>1, <2>2
    <3> QED BY <1>1, <2>2, <3>1 DEF Before
  <2> QED BY <1>2, <2>1, <2>2
<1>4. ASSUME NEW n \in Nat, Before(s, n), x.frame < n PROVE Before(t, n)
  BY <1>1, <1>2, <1>4 DEF Before
<1>5. Rising(t) BY <1>3 DEF Rising
<1> QED BY <1>1, <1>4, <1>5 DEF t

(* Two elements in a row.                                                   *)
LEMMA TwoInARow ==
  ASSUME NEW S, NEW h \in S, NEW n \in S
  PROVE  <<h>> \o <<n>> = <<h, n>> /\ SubSeq(<<h, n>>, 1, 1) = <<h>>
<1>1. <<h>> \in Seq(S) /\ Len(<<h>>) = 1 /\ <<n>> \in Seq(S) /\ Len(<<n>>) = 1 OBVIOUS
<1>2. Append(<<h>>, n) = <<h, n>>
  <2> DEFINE s == Append(<<h>>, n)
             t == <<h, n>>
  <2>1. s \in Seq(S) /\ Len(s) = 2 /\ s[1] = h /\ s[2] = n BY <1>1, AppendProperties
  <2>2. t \in Seq(S) /\ Len(t) = 2 /\ t[1] = h /\ t[2] = n OBVIOUS
  <2> HIDE DEF s, t
  <2>3. \A i \in 1 .. Len(s) : s[i] = t[i] BY <2>1, <2>2
  <2>4. s = t BY <2>1, <2>2, <2>3, SeqEqual
  <2> QED BY <2>4 DEF s, t
<1>3. <<h>> \o <<n>> = <<h, n>> BY <1>1, <1>2, AppendIsConcat
<1>4. SubSeq(<<h>>, 1, 1) = <<h>> BY <1>1, SubSeqFull
<1>5. SubSeq(<<h>> \o <<n>>, 1, 1) = SubSeq(<<h>>, 1, 1)
  <2>1. 1 \in 1 .. Len(<<h>>) BY <1>1
  <2> QED BY <1>1, <2>1, SubSeqOfConcat1
<1> QED BY <1>3, <1>4, <1>5

(* What a frame makes the transform give out.                               *)
Given(t0, n, actual, holds, r) ==
  /\ r.t.format = t0.format /\ r.t.layout = r.t.produces /\ r.t.layout \in {t0.layout, actual}
  /\ r.t.settled \in BOOLEAN /\ r.t.held = IF holds THEN {n} ELSE {}
  /\ \E h \in Nat : \E x, y :
       /\ t0.held # {} => h \in t0.held
       /\ x = [frame |-> h, has |-> r.t.layout, readAs |-> r.t.layout]
       /\ y = [frame |-> n, has |-> r.t.layout, readAs |-> r.t.layout]
       /\ r.out = IF t0.held = {} THEN (IF holds THEN <<>> ELSE <<y>>)
                  ELSE IF holds THEN <<x>> ELSE <<x, y>>
HeldIsKnown(t) ==
  /\ t = [format |-> t.format, layout |-> t.layout, produces |-> t.produces,
          settled |-> t.settled, held |-> t.held]
  /\ t.layout = t.produces /\ t.settled \in BOOLEAN /\ t.held \subseteq Nat

LEMMA FrameProcessed ==
  ASSUME NEW t0, NEW n \in Nat, NEW actual, NEW holds \in BOOLEAN, HeldIsKnown(t0)
  PROVE  Given(t0, n, actual, holds, Aac!ProcessFrame(t0, n, actual, holds))
<1> SUFFICES ASSUME NEW r, r = Aac!ProcessFrame(t0, n, actual, holds) PROVE Given(t0, n, actual, holds, r)
  OBVIOUS
<1> DEFINE t == IF t0.settled THEN t0 ELSE Aac!StoreNegotiated(t0, actual)
           all == (IF t.held = {} THEN <<>> ELSE <<CHOOSE h \in t.held : TRUE>>) \o <<n>>
           rest == IF holds THEN SubSeq(all, 1, Len(all) - 1) ELSE all
<1>1. r.t = [t EXCEPT !.held = IF holds THEN {n} ELSE {}]
      /\ r.out = [i \in DOMAIN rest |-> Aac!Resampled(t, rest[i])]
  BY DEF Aac!ProcessFrame
<1>2. /\ t = [format |-> t.format, layout |-> t.layout, produces |-> t.produces,
             settled |-> t.settled, held |-> t.held]
      /\ t.format = t0.format /\ t.layout = t.produces /\ t.layout \in {t0.layout, actual}
      /\ t.settled \in BOOLEAN /\ t.held = t0.held
  BY DEF Aac!StoreNegotiated, HeldIsKnown
<1> HIDE DEF t
<1>3. /\ r.t.format = t0.format /\ r.t.layout = r.t.produces /\ r.t.layout = t.layout
      /\ r.t.settled \in BOOLEAN /\ r.t.held = IF holds THEN {n} ELSE {}
  BY <1>1, <1>2
<1>4. PICK h \in Nat : t0.held # {} => h = CHOOSE g \in t.held : TRUE BY <1>2 DEF HeldIsKnown
<1>5. t0.held # {} => h \in t0.held BY <1>2, <1>4
<1> DEFINE x == [frame |-> h, has |-> r.t.layout, readAs |-> r.t.layout]
           y == [frame |-> n, has |-> r.t.layout, readAs |-> r.t.layout]
<1>6. Aac!Resampled(t, h) = x /\ Aac!Resampled(t, n) = y BY <1>2, <1>3 DEF Aac!Resampled
<1> HIDE DEF x, y
<1>7. CASE t0.held = {}
  <2>1. all = <<n>> BY <1>2, <1>7
  <2>2. rest = IF holds THEN <<>> ELSE <<n>>
    <3>1. SubSeq(<<n>>, 1, 0) = <<>> /\ Len(<<n>>) - 1 = 0 OBVIOUS
    <3>2. SubSeq(<<n>>, 1, Len(<<n>>) - 1) = <<>> BY <3>1
    <3>3. SubSeq(all, 1, Len(all) - 1) = <<>> BY <2>1, <3>2, Zenon
    <3> HIDE DEF all
    <3> QED BY <2>1, <3>3, Zenon
  <2> HIDE DEF rest
  <2>3. CASE holds
    <3>1. r.out = <<>> BY <1>1, <2>2, <2>3
    <3> QED BY <1>2, <1>3, <1>5, <1>7, <2>3, <3>1 DEF x, y, Given
  <2>4. CASE ~holds
    <3>1. r.out = <<y>> BY <1>1, <1>6, <2>2, <2>4
    <3> QED BY <1>2, <1>3, <1>5, <1>7, <2>4, <3>1 DEF x, y, Given
  <2> QED BY <2>3, <2>4
<1>8. CASE t0.held # {}
  <2>1. all = <<h, n>> BY <1>2, <1>4, <1>8, TwoInARow
  <2>2. rest = IF holds THEN <<h>> ELSE <<h, n>>
    <3>1. SubSeq(<<h, n>>, 1, 1) = <<h>> BY TwoInARow
    <3>2. Len(<<h, n>>) - 1 = 1 OBVIOUS
    <3>3. SubSeq(all, 1, Len(all) - 1) = <<h>> BY <2>1, <3>1, <3>2, Zenon
    <3> HIDE DEF all
    <3> QED BY <2>1, <3>3, Zenon
  <2> HIDE DEF rest
  <2>3. CASE holds
    <3>1. r.out = <<x>> BY <1>1, <1>6, <2>2, <2>3
    <3> QED BY <1>2, <1>3, <1>5, <1>8, <2>3, <3>1 DEF x, y, Given
  <2>4. CASE ~holds
    <3>1. r.out = <<x, y>> BY <1>1, <1>6, <2>2, <2>4
    <3> QED BY <1>2, <1>3, <1>5, <1>8, <2>4, <3>1 DEF x, y, Given
  <2> QED BY <2>3, <2>4
<1> QED BY <1>7, <1>8

LEMMA AacDecodes ==
  ASSUME AacInv, NEW f \in StreamFormats, NEW actual \in Layouts, NEW holds \in BOOLEAN,
         Aac!DecodeAdtsFrame(f, actual, holds)
  PROVE  AacInv'
<1> DEFINE t0 == Aac!Ensure(f)
           n == heard + 1
           r == Aac!ProcessFrame(t0, n, actual, holds)
<1>1. AacTypes /\ Rising(sound) /\ Before(sound, n) /\ \A h \in back : Before(sound, h)
  BY DEF AacInv
<1>2. /\ heard' = n /\ format' = r.t.format /\ layout' = r.t.layout /\ produces' = r.t.produces
      /\ negotiated' = r.t.settled /\ back' = r.t.held /\ sound' = sound \o r.out
  BY DEF Aac!DecodeAdtsFrame
<1>3. /\ t0 = [format |-> t0.format, layout |-> t0.layout, produces |-> t0.produces,
               settled |-> t0.settled, held |-> t0.held]
      /\ t0.format = f /\ t0.layout \in SoundLayouts /\ t0.layout = t0.produces
      /\ t0.settled \in BOOLEAN /\ t0.held \subseteq back
  <2>1. CASE format = f
    <3>1. t0 = [format |-> format, layout |-> layout, produces |-> produces, settled |-> negotiated, held |-> back]
      BY <2>1 DEF Aac!Ensure, Aac!Live
    <3> HIDE DEF t0
    <3>2. /\ t0.format = format /\ t0.layout = layout /\ t0.produces = produces
          /\ t0.settled = negotiated /\ t0.held = back
      BY <3>1
    <3>3. t0.settled \in BOOLEAN BY <1>1, <3>2 DEF AacTypes
    <3> QED BY <1>1, <2>1, <3>1, <3>2, <3>3 DEF AacTypes
  <2>2. CASE format # f
    <3>1. t0 = [format |-> f, layout |-> f, produces |-> f, settled |-> FALSE, held |-> {}]
      BY <2>2 DEF Aac!Ensure, Aac!Built
    <3> HIDE DEF t0
    <3>2. t0.format = f /\ t0.layout = f /\ t0.produces = f /\ t0.held = {} /\ t0.settled \in BOOLEAN
      BY <3>1
    <3> QED BY <3>1, <3>2 DEF SoundLayouts
  <2> QED BY <2>1, <2>2
<1>4. n \in Nat /\ t0.held \subseteq Nat /\ heard \in Nat BY <1>1, <1>3 DEF AacTypes
<1> HIDE DEF t0
<1>5. PICK p : p = Aac!ProcessFrame(t0, n, actual, holds) OBVIOUS
<1>5a. Given(t0, n, actual, holds, p)
  <2>1. HeldIsKnown(t0) BY <1>3, <1>4 DEF HeldIsKnown
  <2> QED BY <1>4, <1>5, <2>1, FrameProcessed
<1>6. /\ p.t.format = f /\ p.t.layout = p.t.produces /\ p.t.layout \in {t0.layout, actual}
      /\ p.t.settled \in BOOLEAN /\ p.t.held = IF holds THEN {n} ELSE {}
  BY <1>3, <1>5a, Zenon DEF Given
<1>7a. PICK h \in Nat :
        \E x, y :
          /\ t0.held # {} => h \in t0.held
          /\ x = [frame |-> h, has |-> p.t.layout, readAs |-> p.t.layout]
          /\ y = [frame |-> n, has |-> p.t.layout, readAs |-> p.t.layout]
          /\ p.out = IF t0.held = {} THEN (IF holds THEN <<>> ELSE <<y>>)
                     ELSE IF holds THEN <<x>> ELSE <<x, y>>
  BY <1>5a DEF Given
<1>7. PICK x, y :
        /\ t0.held # {} => h \in t0.held
        /\ x = [frame |-> h, has |-> p.t.layout, readAs |-> p.t.layout]
        /\ y = [frame |-> n, has |-> p.t.layout, readAs |-> p.t.layout]
        /\ p.out = IF t0.held = {} THEN (IF holds THEN <<>> ELSE <<y>>)
                   ELSE IF holds THEN <<x>> ELSE <<x, y>>
  BY <1>7a
<1>8. p.t.layout \in SoundLayouts BY <1>3, <1>6 DEF SoundLayouts
<1>9. x \in Pcm /\ x.readAs = x.has /\ x.frame = h /\ y \in Pcm /\ y.readAs = y.has /\ y.frame = n
  BY <1>4, <1>7, <1>8 DEF Pcm
<1>10. sound \in Seq(Pcm) BY <1>1 DEF AacTypes
<1>11. t0.held # {} => h \in back /\ h < n /\ Before(sound, h) BY <1>1, <1>3, <1>7 DEF AacTypes
<1>12. Before(sound, n + 1)
  <2>0. \A i \in 1 .. Len(sound) : sound[i] \in Pcm BY <1>10, ElementOfSeq
  <2>1. \A i \in 1 .. Len(sound) : sound[i].frame \in Nat BY <2>0 DEF Pcm
  <2> QED BY <1>1, <1>4, <2>1 DEF Before
<1>13. /\ sound' \in Seq(Pcm) /\ Rising(sound') /\ Before(sound', n + 1) /\ (holds => Before(sound', n))
  <2> DEFINE sx == Append(sound, x)
  <2>1. t0.held # {} => sx \in Seq(Pcm) /\ Rising(sx) /\ Before(sx, n) /\ Before(sx, n + 1)
    BY <1>1, <1>4, <1>9, <1>10, <1>11, <1>12, SoundGoesOn
  <2>2. sound \o <<>> = sound /\ sound \o <<x>> = sx /\ sound \o <<y>> = Append(sound, y)
    BY <1>9, <1>10, ConcatEmptySeq, AppendIsConcat
  <2>3. t0.held # {} => sound \o <<x, y>> = Append(sx, y)
    <3>1. SUFFICES ASSUME t0.held # {} PROVE sound \o <<x, y>> = Append(sx, y) OBVIOUS
    <3>2. sx \in Seq(Pcm) BY <2>1, <3>1
    <3>3. <<x>> \in Seq(Pcm) /\ <<y>> \in Seq(Pcm) BY <1>9
    <3>4. <<x>> \o <<y>> = <<x, y>> BY <1>9, TwoInARow
    <3>5. (sound \o <<x>>) \o <<y>> = sound \o (<<x>> \o <<y>>) BY <1>10, <3>3, ConcatAssociative
    <3>6. Append(sx, y) = sx \o <<y>> BY <1>9, <3>2, AppendIsConcat
    <3> HIDE DEF sx
    <3> QED BY <2>2, <3>4, <3>5, <3>6
  <2> HIDE DEF sx
  <2>4. CASE t0.held = {}
    <3>1. CASE holds
      <4>1. sound' = sound BY <1>2, <1>5, <1>7, <2>2, <2>4, <3>1 DEF r
      <4> QED BY <1>1, <1>10, <1>12, <4>1
    <3>2. CASE ~holds
      <4>1. sound' = Append(sound, y) BY <1>2, <1>5, <1>7, <2>2, <2>4, <3>2 DEF r
      <4> QED BY <1>1, <1>4, <1>9, <1>10, <1>12, <3>2, <4>1, SoundGoesOn
    <3> QED BY <3>1, <3>2
  <2>5. CASE t0.held # {}
    <3>1. CASE holds
      <4>1. sound' = sx BY <1>2, <1>5, <1>7, <2>2, <2>5, <3>1 DEF r
      <4> QED BY <2>1, <2>5, <4>1
    <3>2. CASE ~holds
      <4>1. sound' = Append(sx, y) BY <1>2, <1>5, <1>7, <2>3, <2>5, <3>2 DEF r
      <4> QED BY <1>4, <1>9, <2>1, <2>5, <3>2, <4>1, SoundGoesOn
    <3> QED BY <3>1, <3>2
  <2> QED BY <2>4, <2>5
<1>14. AacTypes'
  <2>1. format' = f /\ layout' = p.t.layout /\ produces' = p.t.layout /\ negotiated' = p.t.settled
        /\ back' = IF holds THEN {n} ELSE {}
    BY <1>2, <1>5, <1>6
  <2>2. negotiated' \in BOOLEAN BY <1>6, <2>1
  <2>3. back' \subseteq 1 .. n BY <1>4, <2>1
  <2>4. f \in SoundLayouts BY DEF SoundLayouts
  <2> QED BY <1>2, <1>4, <1>8, <1>13, <2>1, <2>2, <2>3, <2>4 DEF AacTypes
<1>15. \A g \in back' : Before(sound', g)
  <2>1. back' = IF holds THEN {n} ELSE {} BY <1>2, <1>5, <1>6
  <2> QED BY <1>13, <2>1
<1>16. Rising(sound)' /\ Before(sound, heard + 1)'
  BY <1>2, <1>13 DEF Rising, Before
<1>17. \A g \in back' : Before(sound, g)' BY <1>15 DEF Before
<1> QED BY <1>14, <1>16, <1>15 DEF AacInv, Before

LEMMA AacStep == AacInv /\ [Aac!Next]_aacOwn => AacInv'
<1> SUFFICES ASSUME AacInv, [Aac!Next]_aacOwn PROVE AacInv' OBVIOUS
<1>1. CASE UNCHANGED aacOwn
  <2>1. UNCHANGED <<format, layout, produces, negotiated, back, heard, sound>> BY <1>1 DEF aacOwn
  <2> QED BY <2>1 DEF AacInv, AacTypes, Rising, Before
<1>2. ASSUME NEW f \in StreamFormats, NEW actual \in Layouts, NEW holds \in BOOLEAN,
             Aac!DecodeAdtsFrame(f, actual, holds)
      PROVE  AacInv'
  BY <1>2, AacDecodes
<1>3. ASSUME NEW f \in StreamFormats, Aac!DecodeFails(f) PROVE AacInv'
  <2>1. /\ format' = Aac!None /\ layout' = Aac!None /\ produces' = Aac!None /\ back' = {}
        /\ heard' = heard + 1 /\ UNCHANGED sound
    BY <1>3 DEF Aac!DecodeFails, Aac!Teardown
  <2>2. negotiated' \in BOOLEAN
    <3>1. negotiated' = FALSE BY <1>3 DEF Aac!DecodeFails, Aac!Teardown
    <3> QED BY <3>1
  <2>3. AacTypes' BY <2>1, <2>2 DEF AacInv, AacTypes, SoundLayouts
  <2>4. heard \in Nat /\ \A i \in 1 .. Len(sound) : sound[i].frame \in Nat
    <3>1. heard \in Nat /\ \A i \in 1 .. Len(sound) : sound[i] \in Pcm
      BY ElementOfSeq DEF AacInv, AacTypes
    <3> QED BY <3>1 DEF Pcm
  <2> QED BY <2>1, <2>3, <2>4 DEF AacInv, Rising, Before
<1>4. CASE Aac!ResetAac
  <2>1. back' = {} /\ UNCHANGED <<format, layout, produces, negotiated, heard, sound>>
    BY <1>4 DEF Aac!ResetAac
  <2> QED BY <2>1 DEF AacInv, AacTypes, Rising, Before
<1> QED BY <1>1, <1>2, <1>3, <1>4 DEF Aac!Next
=============================================================================
