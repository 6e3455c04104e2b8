---------------------------- MODULE MuxerProofs ----------------------------
(***************************************************************************)
(* Theorems about Muxer for every number of producers, every queue bound,  *)
(* threshold and caller, with or without the close() contract.             *)
(***************************************************************************)
EXTENDS Muxer, TLAPS

(* Where the controller is determines where the writer may be, and what may *)
(* be in its hand and in the queue.                                         *)
Control ==
  /\ running <=> ctl = "open"
  /\ pc[Writer] = "none" <=> ctl \in {"closed", "finishing"}
  /\ pc[Writer] = "done" => ctl \in {"stopping", "joining"}
  /\ pc[Writer] \in {"none", "done"} => queue = <<>>
  /\ pc[Writer] \in {"notify", "header", "frame"} <=> hand # <<>>
  /\ pc[Writer] = "frame" => headerWritten
  /\ trailer => ctl = "closed" /\ headerWritten

(* No packet is lost, and those in flight have been accepted.               *)
Conserved == NoLossNoReorder /\ Len(hand) + Len(queue) <= accepted

(* m_lastDts bounds the dts of the file until close() forgets it.           *)
DtsBound ==
  ctl # "closed" =>
    \A i \in 1..Len(file) : file[i].dts <= lastDts[file[i].stream]

(* Until the header is written, a timecode that has been offered, or has    *)
(* been queued with its packet, has its candidate.                          *)
Offered(p) == pc[p] \in {"call", "lock", "parking", "waiting"} /\ call[p].tc # NoTc
Tagging ==
  /\ ~headerWritten => (\A p \in Producers : Offered(p) => candidate # NoTc)
  /\ ~headerWritten => (earlyTc => candidate # NoTc)
  /\ EarlyTimecodeTagged

IInv ==
  /\ TypeOK
  /\ Control
  /\ Conserved
  /\ DtsBound
  /\ MonotoneDts
  /\ HeaderBeforePackets
  /\ Tagging

-----------------------------------------------------------------------------
LEMMA NoCallIsPacket == NoCall \in Packet
  BY MuxerAssumption DEF NoCall, Packet

LEMMA AppendIds ==
  ASSUME NEW S, NEW s \in Seq(S), NEW e \in S
  PROVE  Ids(Append(s, e)) = Ids(s) \cup {e.id}
<1> DEFINE t == Append(s, e)
<1>1. /\ Len(t) = Len(s) + 1 /\ Len(s) \in Nat
      /\ \A i \in 1..Len(s) : t[i] = s[i]
      /\ t[Len(s) + 1] = e
  OBVIOUS
<1>2. 1..(Len(s) + 1) = 1..Len(s) \cup {Len(s) + 1}
  BY <1>1
<1> HIDE DEF t
<1>3. Ids(t) = Ids(s) \cup {e.id}
  BY <1>1, <1>2 DEF Ids
<1> QED  BY <1>3 DEF t

(* Initially the file is empty and nobody has accepted anything.            *)
LEMMA InitIInv == Init => IInv
<1> SUFFICES ASSUME Init PROVE IInv
  OBVIOUS
<1>1. TypeOK
  <2>1. <<>> \in Seq(QueuedPacket) /\ Len(<<>>) = 0
    OBVIOUS
  <2>2. pc \in [Threads -> ProducerPc \cup WriterPc]
    BY DEF Init, ProducerPc, WriterPc
  <2>3. pc[Writer] \in WriterPc /\ \A p \in Producers : pc[p] \in ProducerPc
    BY MuxerAssumption DEF Init, Threads, ProducerPc, WriterPc
  <2>4. call \in [Producers -> Packet] /\ lastDts \in [Streams -> Int]
    BY NoCallIsPacket DEF Init
  <2>5. QueueCap \in Nat
    BY MuxerAssumption
  <2>6. /\ running \in BOOLEAN /\ headerWritten \in BOOLEAN /\ graceOpen \in BOOLEAN
        /\ fatal \in BOOLEAN /\ earlyTc \in BOOLEAN /\ trailer \in BOOLEAN
    BY Zenon DEF Init
  <2>7. /\ queue \in Seq(QueuedPacket) /\ Len(queue) <= QueueCap
        /\ hand \in Seq(QueuedPacket) /\ Len(hand) <= 1
        /\ file \in Seq(QueuedPacket)
    BY <2>1, <2>5 DEF Init
  <2>8. /\ ctl \in {"closed", "open", "stopping", "joining", "finishing"}
        /\ candidate \in Timecodes \cup {NoTc} /\ header \in Timecodes \cup {NoTc}
        /\ errors \in Nat /\ accepted \in Nat /\ lost \subseteq Nat
    BY DEF Init
  <2> QED  BY <2>2, <2>3, <2>4, <2>6, <2>7, <2>8, Zenon DEF TypeOK
<1>2. Control
  BY DEF Init, Control, Threads
<1>3. Conserved
  BY DEF Init, Conserved, NoLossNoReorder, Ids
<1>4. DtsBound /\ MonotoneDts /\ HeaderBeforePackets
  BY DEF Init, DtsBound, MonotoneDts, HeaderBeforePackets
<1>5. Tagging
  BY MuxerAssumption DEF Init, Tagging, Offered, EarlyTimecodeTagged, Threads
<1> QED  BY <1>1, <1>2, <1>3, <1>4, <1>5 DEF IInv
-----------------------------------------------------------------------------
LEMMA TypeStep == TypeOK /\ Control /\ [Next]_vars => TypeOK'
<1> SUFFICES ASSUME TypeOK, Control, [Next]_vars PROVE TypeOK'
  OBVIOUS
<1> USE MuxerAssumption, NoCallIsPacket DEF TypeOK, Control, Threads, ProducerPc, WriterPc, qvars, headerVars, fileVars
<1>1. ASSUME NEW tc \in Timecodes \cup {NoTc}, NEW ok \in BOOLEAN, OpenSession(tc, ok) PROVE TypeOK'
  <2>1. <<>> \in Seq(QueuedPacket)
    OBVIOUS
  <2>2. CASE ok
    <3>1. pc' = [pc EXCEPT ![Writer] = "lock"] /\ lastDts' \in [Streams -> Int]
      BY <1>1, <2>2 DEF OpenSession
    <3>2. /\ running' \in BOOLEAN /\ headerWritten' \in BOOLEAN /\ graceOpen' \in BOOLEAN
          /\ fatal' \in BOOLEAN /\ earlyTc' \in BOOLEAN /\ trailer' \in BOOLEAN
      BY <1>1, <2>2, Zenon DEF OpenSession
    <3> QED  BY <1>1, <2>1, <2>2, <3>1, <3>2 DEF OpenSession
  <2>3. CASE ~ok
    BY <1>1, <2>1, <2>3 DEF OpenSession
  <2> QED  BY <2>2, <2>3
<1>2. ASSUME GraceExpires PROVE TypeOK'
  BY <1>2 DEF GraceExpires
<1>3. ASSUME NEW p \in Producers, NEW s \in Streams, NEW d \in 0..MaxDts, NEW tc \in Timecodes \cup {NoTc}, BeginWrite(p, s, d, tc) PROVE TypeOK'
  BY <1>3 DEF BeginWrite, Packet
<1>4. ASSUME NEW p \in Producers, OfferTimecode(p) PROVE TypeOK'
  BY <1>4 DEF OfferTimecode, Packet
<1>5. ASSUME NEW p \in Producers, EnterWritePacket(p) PROVE TypeOK'
  BY <1>5 DEF EnterWritePacket
<1>6. ASSUME NEW p \in Producers, ProducerBlocks(p) PROVE TypeOK'
  BY <1>6 DEF ProducerBlocks
<1>7. ASSUME NEW p \in Producers, ProducerGivesUp(p) PROVE TypeOK'
  BY <1>7 DEF ProducerGivesUp
<1>8. ASSUME NEW p \in Producers, Push(p) PROVE TypeOK'
  <2> DEFINE e == [id |-> accepted + 1, stream |-> call[p].stream, dts |-> call[p].dts]
  <2>1. e \in QueuedPacket /\ queue' = Append(queue, e) /\ Len(queue) < QueueCap
    BY <1>8 DEF Push, HasRoom, Packet, QueuedPacket
  <2>2. queue' \in Seq(QueuedPacket) /\ Len(queue') <= QueueCap
    <3> HIDE DEF e
    <3> QED BY <2>1
  <2> QED BY <1>8, <2>2 DEF Push
<1>9. ASSUME NEW p \in Producers, ProducerNotifies(p) PROVE TypeOK'
  <2>1. pc' \in [Threads -> ProducerPc \cup WriterPc] /\ pc'[Writer] \in WriterPc
        /\ \A q \in Producers : pc'[q] \in ProducerPc
    BY <1>9 DEF ProducerNotifies, NotifyOne, Waiting
  <2> QED BY <1>9, <2>1 DEF ProducerNotifies
<1>10. ASSUME NEW t \in Threads, Park(t) PROVE TypeOK'
  BY <1>10 DEF Park
<1>11. ASSUME WriterFindsNothing PROVE TypeOK'
  BY <1>11 DEF WriterFindsNothing, NothingToWrite
<1>12. ASSUME Pop PROVE TypeOK'
  BY <1>12 DEF Pop, NothingToWrite
<1>13. ASSUME WriterNotifies PROVE TypeOK'
  BY <1>13 DEF WriterNotifies, NotifyOne, Waiting
<1>14. ASSUME CommitHeader PROVE TypeOK'
  BY <1>14 DEF CommitHeader, EnsureHeader
<1>15. ASSUME HeaderFails PROVE TypeOK'
  <2>1. hand[1] \in QueuedPacket
    BY <1>15 DEF HeaderFails
  <2>2. errors' \in Nat
    BY <1>15 DEF HeaderFails, ErrorsAfter
  <2>4. lost' = lost \cup {hand[1].id} /\ hand[1].id \in Nat
    BY <1>15, <2>1 DEF HeaderFails, QueuedPacket
  <2>3. fatal' \in BOOLEAN
    BY <1>15, Zenon DEF HeaderFails, FatalAfter
  <2>5. lost' \subseteq Nat
    BY <2>4
  <2>6. /\ headerWritten' \in BOOLEAN /\ header' \in Timecodes \cup {NoTc}
        /\ UNCHANGED <<candidate, graceOpen>>
    BY <1>15 DEF HeaderFails, EnsureHeader
  <2>7. /\ hand' = <<>> /\ pc' = [pc EXCEPT ![Writer] = "lock"]
        /\ UNCHANGED <<ctl, call, running, trailer, qvars, file, lastDts>>
    BY <1>15 DEF HeaderFails
  <2> QED  BY <2>2, <2>3, <2>5, <2>6, <2>7
<1>16. ASSUME NEW ok \in BOOLEAN, NEW flushError \in BOOLEAN, WriteFrame(ok, flushError) PROVE TypeOK'
  <2>1. hand[1] \in QueuedPacket
    BY <1>16 DEF WriteFrame
  <2> DEFINE d == BumpedDts(hand[1])
  <2>2. d \in Nat
    BY <2>1 DEF BumpedDts, QueuedPacket
  <2>3. /\ lastDts' = [lastDts EXCEPT ![hand[1].stream] = d]
        /\ file' = IF ok THEN Append(file, [hand[1] EXCEPT !.dts = d]) ELSE file
        /\ lost' = IF ok THEN lost ELSE lost \cup {hand[1].id}
    BY <1>16 DEF WriteFrame
  <2> HIDE DEF d
  <2>4. lastDts' \in [Streams -> Int]
    BY <2>1, <2>2, <2>3 DEF QueuedPacket
  <2>5. file' \in Seq(QueuedPacket)
    <3>1. [hand[1] EXCEPT !.dts = d] \in QueuedPacket
      BY <2>1, <2>2 DEF QueuedPacket
    <3> QED  BY <2>3, <3>1
  <2>8. lost' \subseteq Nat
    <3>1. hand[1].id \in Nat
      BY <2>1 DEF QueuedPacket
    <3> QED  BY <2>3, <3>1
  <2>6. errors' \in Nat
    BY <1>16 DEF WriteFrame, ErrorsAfter
  <2>7. fatal' \in BOOLEAN
    BY <1>16, Zenon DEF WriteFrame, FatalAfter
  <2>9. /\ hand' = <<>> /\ pc' = [pc EXCEPT ![Writer] = "lock"]
        /\ UNCHANGED <<ctl, call, running, trailer, qvars, headerVars>>
    BY <1>16 DEF WriteFrame
  <2> QED  BY <2>4, <2>5, <2>6, <2>7, <2>8, <2>9
<1>17. ASSUME StopWriter PROVE TypeOK'
  BY <1>17 DEF StopWriter
<1>18. ASSUME NotifyAll PROVE TypeOK'
  BY <1>18 DEF NotifyAll
<1>19. ASSUME JoinWriter PROVE TypeOK'
  BY <1>19 DEF JoinWriter
<1>20. ASSUME NEW ok \in BOOLEAN, FinishFile(ok) PROVE TypeOK'
  BY <1>20 DEF FinishFile, EnsureHeader
<1>21. CASE UNCHANGED vars
  BY <1>21 DEF vars
<1> QED
  BY <1>1, <1>2, <1>3, <1>4, <1>5, <1>6, <1>7, <1>8, <1>9, <1>10, <1>11, <1>12, <1>13, <1>14, <1>15, <1>16, <1>17, <1>18, <1>19, <1>20, <1>21
  DEF Next, ProducerStep, WriterStep, CloseStep
-----------------------------------------------------------------------------
LEMMA ControlStep == TypeOK /\ Control /\ [Next]_vars => Control'
<1> SUFFICES ASSUME TypeOK, Control, [Next]_vars PROVE Control'
  OBVIOUS
<1> USE MuxerAssumption
    DEF TypeOK, Control, Threads, ProducerPc, WriterPc, qvars, headerVars, fileVars
<1>1. ASSUME NEW tc \in Timecodes \cup {NoTc}, NEW ok \in BOOLEAN, OpenSession(tc, ok) PROVE Control'
  BY <1>1 DEF OpenSession
<1>2. ASSUME GraceExpires PROVE Control'
  BY <1>2 DEF GraceExpires
<1>3. ASSUME NEW p \in Producers, NEW s \in Streams, NEW d \in 0..MaxDts, NEW tc \in Timecodes \cup {NoTc}, BeginWrite(p, s, d, tc) PROVE Control'
  BY <1>3 DEF BeginWrite
<1>4. ASSUME NEW p \in Producers, OfferTimecode(p) PROVE Control'
  BY <1>4 DEF OfferTimecode
<1>5. ASSUME NEW p \in Producers, EnterWritePacket(p) PROVE Control'
  BY <1>5 DEF EnterWritePacket
<1>6. ASSUME NEW p \in Producers, ProducerBlocks(p) PROVE Control'
  BY <1>6 DEF ProducerBlocks
<1>7. ASSUME NEW p \in Producers, ProducerGivesUp(p) PROVE Control'
  BY <1>7 DEF ProducerGivesUp
<1>8. ASSUME NEW p \in Producers, Push(p) PROVE Control'
  BY <1>8 DEF Push
<1>9. ASSUME NEW p \in Producers, ProducerNotifies(p) PROVE Control'
  BY <1>9 DEF ProducerNotifies, NotifyOne, Waiting
<1>10. ASSUME NEW t \in Threads, Park(t) PROVE Control'
  BY <1>10 DEF Park
<1>11. ASSUME WriterFindsNothing PROVE Control'
  BY <1>11 DEF WriterFindsNothing, NothingToWrite
<1>12. ASSUME Pop PROVE Control'
  BY <1>12 DEF Pop, NothingToWrite
<1>13. ASSUME WriterNotifies PROVE Control'
  BY <1>13 DEF WriterNotifies, NotifyOne, Waiting
<1>14. ASSUME CommitHeader PROVE Control'
  BY <1>14 DEF CommitHeader, EnsureHeader
<1>15. ASSUME HeaderFails PROVE Control'
  BY <1>15 DEF HeaderFails, EnsureHeader
<1>16. ASSUME NEW ok \in BOOLEAN, NEW flushError \in BOOLEAN, WriteFrame(ok, flushError) PROVE Control'
  BY <1>16 DEF WriteFrame
<1>17. ASSUME StopWriter PROVE Control'
  BY <1>17 DEF StopWriter
<1>18. ASSUME NotifyAll PROVE Control'
  BY <1>18 DEF NotifyAll
<1>19. ASSUME JoinWriter PROVE Control'
  BY <1>19 DEF JoinWriter
<1>20. ASSUME NEW ok \in BOOLEAN, FinishFile(ok) PROVE Control'
  BY <1>20 DEF FinishFile, EnsureHeader
<1>21. CASE UNCHANGED vars
  BY <1>21 DEF vars
<1> QED
  BY <1>1, <1>2, <1>3, <1>4, <1>5, <1>6, <1>7, <1>8, <1>9, <1>10, <1>11, <1>12, <1>13, <1>14, <1>15, <1>16, <1>17, <1>18, <1>19, <1>20, <1>21
  DEF Next, ProducerStep, WriterStep, CloseStep
-----------------------------------------------------------------------------
(* The packet in the writer's hand is the oldest one not settled yet.       *)
LEMMA HandIsNext ==
  ASSUME TypeOK, Conserved, hand # <<>>
  PROVE  /\ Len(hand) = 1 /\ hand[1] \in QueuedPacket
         /\ accepted - Len(hand) - Len(queue) \in Nat
         /\ hand[1].id = accepted - Len(hand) - Len(queue) + 1
<1>1. Len(hand) = 1
  <2>1. hand \in Seq(QueuedPacket) /\ Len(hand) <= 1
    BY DEF TypeOK
  <2> QED  BY <2>1
<1>2. hand[1] \in QueuedPacket
  BY <1>1 DEF TypeOK
<1>3. hand[1].id = accepted - Len(queue)
  BY <1>1 DEF Conserved, NoLossNoReorder
<1>4. accepted \in Nat /\ Len(queue) \in Nat
  BY DEF TypeOK
<1> QED  BY <1>1, <1>2, <1>3, <1>4 DEF Conserved

(* The bump yields a dts, later than the stream's last one.                 *)
LEMMA BumpedIsNat ==
  ASSUME TypeOK, NEW p \in QueuedPacket
  PROVE  BumpedDts(p) \in Nat /\ BumpedDts(p) > lastDts[p.stream]
<1>1. p.dts \in Nat /\ lastDts[p.stream] \in Int
  BY DEF TypeOK, QueuedPacket
<1> QED  BY <1>1 DEF BumpedDts

(* A settled packet extends the settled prefix 1..n by one.                 *)
LEMMA Settle ==
  ASSUME NEW n \in Nat
  PROVE  1..(n + 1) = 1..n \cup {n + 1} /\ n + 1 \notin 1..n
  OBVIOUS

LEMMA ConservedStep ==
  TypeOK /\ Control /\ Conserved /\ [Next]_vars => Conserved'
<1> SUFFICES ASSUME TypeOK, Control, Conserved, [Next]_vars PROVE Conserved'
  OBVIOUS
<1> DEFINE n == accepted - Len(hand) - Len(queue)
<1>1. ASSUME UNCHANGED <<file, lost, accepted, hand, queue>> PROVE Conserved'
  BY <1>1 DEF Conserved, NoLossNoReorder, Ids
<1>2. ASSUME NEW tc \in Timecodes \cup {NoTc}, NEW ok \in BOOLEAN, OpenSession(tc, ok)
      PROVE Conserved'
  <2>1. hand' = <<>> /\ queue' = <<>>
    BY <1>2 DEF OpenSession, Control
  <2>2. accepted' = 0 /\ lost' = {} /\ file' = <<>>
    BY <1>2 DEF OpenSession
  <2> QED  BY <2>1, <2>2 DEF Conserved, NoLossNoReorder, Ids
<1>3. ASSUME NEW p \in Producers, Push(p) PROVE Conserved'
  <2> DEFINE e == [id |-> accepted + 1, stream |-> call[p].stream, dts |-> call[p].dts]
  <2>1. /\ accepted' = accepted + 1 /\ queue' = Append(queue, e)
        /\ UNCHANGED <<file, lost, hand>>
    BY <1>3 DEF Push, fileVars
  <2>2. e.id = accepted + 1
    OBVIOUS
  <2> HIDE DEF e
  <2>3. /\ Len(queue') = Len(queue) + 1 /\ Len(queue) \in Nat
        /\ \A i \in 1..Len(queue) : queue'[i] = queue[i]
        /\ queue'[Len(queue) + 1] = e
    BY <2>1 DEF TypeOK
  <2>4. accepted \in Nat /\ Len(hand) \in Nat
    BY DEF TypeOK
  <2>5. accepted' - Len(hand') - Len(queue') = n
    BY <2>1, <2>3, <2>4
  <2>6. \A i \in 1..Len(queue') : queue'[i].id = accepted' - Len(queue') + i
    <3>1. \A i \in 1..Len(queue) : queue'[i].id = accepted' - Len(queue') + i
      BY <2>1, <2>3, <2>4 DEF Conserved, NoLossNoReorder
    <3> QED BY <2>1, <2>2, <2>3, <2>4, <3>1
  <2>7. \A i \in 1..Len(hand') : hand'[i].id = accepted' - Len(queue')
    BY <2>1, <2>3, <2>4 DEF Conserved, NoLossNoReorder
  <2>8. Len(hand') + Len(queue') <= accepted'
    BY <2>1, <2>3, <2>4 DEF Conserved
  <2>9. /\ Ids(file)' \cup lost' = 1..n /\ Ids(file)' \cap lost' = {}
        /\ \A i, j \in 1..Len(file') : i < j => file'[i].id < file'[j].id
    BY <2>1 DEF Conserved, NoLossNoReorder, Ids
  <2> HIDE DEF n
  <2> QED  BY <2>5, <2>6, <2>7, <2>8, <2>9 DEF Conserved, NoLossNoReorder
<1>4. ASSUME Pop PROVE Conserved'
  <2>1. /\ hand = <<>> /\ queue # <<>>
        /\ hand' = <<Head(queue)>> /\ queue' = Tail(queue)
        /\ UNCHANGED <<accepted, file, lost>>
    BY <1>4 DEF Pop, NothingToWrite, fileVars, Control
  <2>2. /\ Len(queue) \in Nat /\ Len(queue) >= 1 /\ Len(queue') = Len(queue) - 1
        /\ Head(queue) = queue[1]
        /\ \A i \in 1..Len(queue') : queue'[i] = queue[i + 1]
    BY <2>1 DEF TypeOK
  <2>3. Len(hand) = 0 /\ Len(hand') = 1 /\ hand'[1] = queue[1] /\ accepted \in Nat
    BY <2>1, <2>2 DEF TypeOK
  <2>4. accepted' - Len(hand') - Len(queue') = n
    BY <2>1, <2>2, <2>3
  <2>5. \A i \in 1..Len(queue') : queue'[i].id = accepted' - Len(queue') + i
    BY <2>1, <2>2, <2>3 DEF Conserved, NoLossNoReorder
  <2>6. \A i \in 1..Len(hand') : hand'[i].id = accepted' - Len(queue')
    BY <2>1, <2>2, <2>3 DEF Conserved, NoLossNoReorder
  <2> QED  BY <2>1, <2>2, <2>3, <2>4, <2>5, <2>6 DEF Conserved, NoLossNoReorder, Ids
<1>5. ASSUME NEW e \in QueuedPacket, hand # <<>>, e.id = hand[1].id,
             hand' = <<>>, UNCHANGED <<accepted, queue>>,
             \/ file' = Append(file, e) /\ lost' = lost
             \/ file' = file /\ lost' = lost \cup {e.id}
      PROVE  Conserved'
  <2>1. n \in Nat /\ e.id = n + 1 /\ Len(hand) = 1
    BY <1>5, HandIsNext
  <2>2. /\ accepted' - Len(hand') - Len(queue') = n + 1
        /\ Len(hand') + Len(queue') <= accepted'
        /\ accepted \in Nat /\ Len(queue) \in Nat
    BY <1>5, <2>1 DEF TypeOK, Conserved
  <2>3. Ids(file)' \cup lost' = Ids(file) \cup lost \cup {e.id}
    <3>1. CASE file' = Append(file, e) /\ lost' = lost
      <4>1. Ids(Append(file, e)) = Ids(file) \cup {e.id}
        BY AppendIds DEF TypeOK
      <4> QED  BY <3>1, <4>1 DEF Ids
    <3>2. CASE file' = file /\ lost' = lost \cup {e.id}
      BY <3>2 DEF Ids
    <3> QED  BY <1>5, <3>1, <3>2
  <2>4. Ids(file) \cup lost = 1..n /\ Ids(file) \cap lost = {}
    BY DEF Conserved, NoLossNoReorder
  <2> HIDE DEF n
  <2>5. Ids(file)' \cup lost' = 1..(n + 1)
    BY <2>1, <2>3, <2>4, Settle
  <2>6. e.id \notin Ids(file) \cup lost
    BY <2>1, <2>4, Settle
  <2>7. Ids(file)' \cap lost' = {}
    <3>1. CASE file' = Append(file, e) /\ lost' = lost
      <4>1. Ids(Append(file, e)) = Ids(file) \cup {e.id}
        BY AppendIds DEF TypeOK
      <4> QED  BY <2>4, <2>6, <3>1, <4>1 DEF Ids
    <3>2. CASE file' = file /\ lost' = lost \cup {e.id}
      BY <2>4, <2>6, <3>2 DEF Ids
    <3> QED  BY <1>5, <3>1, <3>2
  <2>8. \A i, j \in 1..Len(file') : i < j => file'[i].id < file'[j].id
    <3>1. CASE file' = Append(file, e)
      <4>1. /\ Len(file') = Len(file) + 1 /\ Len(file) \in Nat
            /\ \A i \in 1..Len(file) : file'[i] = file[i]
            /\ file'[Len(file) + 1] = e
        BY <3>1 DEF TypeOK
      <4>2. \A i \in 1..Len(file) : file[i].id \in 1..n
        BY <2>4 DEF Ids
      <4>3. \A i, j \in 1..Len(file) : i < j => file[i].id < file[j].id
        BY DEF Conserved, NoLossNoReorder
      <4> QED  BY <2>1, <4>1, <4>2, <4>3
    <3>2. CASE file' = file
      BY <3>2 DEF Conserved, NoLossNoReorder
    <3> QED  BY <1>5, <3>1, <3>2
  <2>9. \A i \in 1..Len(queue') : queue'[i].id = accepted' - Len(queue') + i
    BY <1>5 DEF Conserved, NoLossNoReorder
  <2>10. Len(hand') = 0
    BY <1>5
  <2> QED  BY <2>2, <2>5, <2>7, <2>8, <2>9, <2>10 DEF Conserved, NoLossNoReorder
<1>6. ASSUME HeaderFails PROVE Conserved'
  <2>1. hand # <<>>
    BY <1>6 DEF HeaderFails, Control
  <2>2. hand[1] \in QueuedPacket
    BY <2>1, HandIsNext
  <2>3. /\ hand' = <<>> /\ file' = file /\ lost' = lost \cup {hand[1].id}
        /\ UNCHANGED <<accepted, queue>>
    BY <1>6 DEF HeaderFails, qvars
  <2> QED  BY <1>5, <2>1, <2>2, <2>3
<1>7. ASSUME NEW ok \in BOOLEAN, NEW flushError \in BOOLEAN, WriteFrame(ok, flushError)
      PROVE  Conserved'
  <2>1. hand # <<>>
    BY <1>7 DEF WriteFrame, Control
  <2> DEFINE e == [hand[1] EXCEPT !.dts = BumpedDts(hand[1])]
  <2>2. e \in QueuedPacket /\ e.id = hand[1].id
    <3>1. hand[1] \in QueuedPacket
      BY <2>1, HandIsNext
    <3> QED  BY <3>1, BumpedIsNat DEF QueuedPacket
  <2>3. /\ hand' = <<>> /\ UNCHANGED <<accepted, queue>>
        /\ file' = IF ok THEN Append(file, e) ELSE file
        /\ lost' = IF ok THEN lost ELSE lost \cup {hand[1].id}
    BY <1>7 DEF WriteFrame, qvars
  <2> HIDE DEF e
  <2> QED  BY <1>5, <2>1, <2>2, <2>3
<1>8. ASSUME NEW ok \in BOOLEAN, FinishFile(ok) PROVE Conserved'
  <2>1. queue = <<>>
    BY <1>8 DEF FinishFile, Control
  <2> QED  BY <1>1, <1>8, <2>1 DEF FinishFile
<1>9. ASSUME \/ GraceExpires \/ StopWriter \/ NotifyAll \/ JoinWriter
             \/ WriterFindsNothing \/ WriterNotifies \/ CommitHeader
             \/ \E t \in Threads : Park(t)
             \/ \E p \in Producers, s \in Streams, d \in 0..MaxDts,
                   tc \in Timecodes \cup {NoTc} : BeginWrite(p, s, d, tc)
             \/ \E p \in Producers :
                  \/ OfferTimecode(p) \/ EnterWritePacket(p) \/ ProducerBlocks(p)
                  \/ ProducerGivesUp(p) \/ ProducerNotifies(p)
             \/ UNCHANGED vars
      PROVE  Conserved'
  BY <1>1, <1>9
  DEF GraceExpires, StopWriter, NotifyAll, JoinWriter, WriterFindsNothing, WriterNotifies,
      CommitHeader, Park, BeginWrite, OfferTimecode, EnterWritePacket, ProducerBlocks,
      ProducerGivesUp, ProducerNotifies, vars, qvars, fileVars
<1> QED
  BY <1>2, <1>3, <1>4, <1>6, <1>7, <1>8, <1>9
  DEF Next, ProducerStep, WriterStep, CloseStep, Threads
-----------------------------------------------------------------------------
(* The steps that do not touch the output file.                             *)
Quiet ==
  \/ GraceExpires \/ StopWriter \/ NotifyAll \/ JoinWriter
  \/ WriterFindsNothing \/ WriterNotifies \/ Pop
  \/ \E t \in Threads : Park(t)
  \/ \E p \in Producers, s \in Streams, d \in 0..MaxDts, tc \in Timecodes \cup {NoTc} :
       BeginWrite(p, s, d, tc)
  \/ \E p \in Producers :
       \/ OfferTimecode(p) \/ EnterWritePacket(p) \/ ProducerBlocks(p)
       \/ ProducerGivesUp(p) \/ ProducerNotifies(p) \/ Push(p)
  \/ UNCHANGED vars

LEMMA QuietLeavesFile ==
  Quiet => /\ UNCHANGED <<file, lastDts, headerWritten, header, trailer>>
           /\ ctl = "closed" => ctl' = "closed"
<1> USE DEF vars, qvars, fileVars, headerVars
<1>1. ASSUME \/ GraceExpires \/ WriterFindsNothing \/ WriterNotifies \/ Pop
             \/ \E t \in Threads : Park(t)
             \/ UNCHANGED vars
      PROVE  UNCHANGED <<file, lastDts, headerWritten, header, trailer, ctl>>
  BY <1>1 DEF GraceExpires, WriterFindsNothing, WriterNotifies, Pop, Park
<1>2. ASSUME StopWriter \/ NotifyAll \/ JoinWriter
      PROVE  UNCHANGED <<file, lastDts, headerWritten, header, trailer>> /\ ctl # "closed"
  BY <1>2 DEF StopWriter, NotifyAll, JoinWriter
<1>3. ASSUME NEW p \in Producers, NEW s \in Streams, NEW d \in 0..MaxDts,
             NEW tc \in Timecodes \cup {NoTc}, BeginWrite(p, s, d, tc)
      PROVE  UNCHANGED <<file, lastDts, headerWritten, header, trailer, ctl>>
  BY <1>3 DEF BeginWrite
<1>4. ASSUME NEW p \in Producers,
             \/ OfferTimecode(p) \/ EnterWritePacket(p) \/ ProducerBlocks(p)
             \/ ProducerGivesUp(p) \/ ProducerNotifies(p) \/ Push(p)
      PROVE  UNCHANGED <<file, lastDts, headerWritten, header, trailer, ctl>>
  BY <1>4 DEF OfferTimecode, EnterWritePacket, ProducerBlocks, ProducerGivesUp,
              ProducerNotifies, Push
<1> QED  BY <1>1, <1>2, <1>3, <1>4 DEF Quiet

FileInv == DtsBound /\ MonotoneDts /\ HeaderBeforePackets

(* The entry WriteFrame writes comes after every entry of the file.         *)
LEMMA NextEntryFollows ==
  ASSUME TypeOK, Control, Conserved, FileInv,
         NEW ok \in BOOLEAN, NEW flushError \in BOOLEAN, WriteFrame(ok, flushError)
  PROVE  \E e \in QueuedPacket :
           /\ file' = (IF ok THEN Append(file, e) ELSE file)
           /\ lastDts' = [lastDts EXCEPT ![e.stream] = e.dts]
           /\ lastDts[e.stream] < e.dts
           /\ \A i \in 1..Len(file) :
                file[i].id < e.id /\ (file[i].stream = e.stream => file[i].dts < e.dts)
<1>1. hand # <<>>
  BY DEF WriteFrame, Control
<1>2. hand[1] \in QueuedPacket
  BY <1>1, HandIsNext
<1> DEFINE d == BumpedDts(hand[1])
           e == [hand[1] EXCEPT !.dts = d]
<1>3. d \in Nat /\ d > lastDts[hand[1].stream]
  BY <1>2, BumpedIsNat
<1>4. /\ file' = (IF ok THEN Append(file, e) ELSE file)
      /\ lastDts' = [lastDts EXCEPT ![hand[1].stream] = d]
  BY DEF WriteFrame
<1> HIDE DEF d
<1>5. /\ e \in QueuedPacket /\ e.id = hand[1].id
      /\ e.stream = hand[1].stream /\ e.dts = d
  BY <1>2, <1>3 DEF QueuedPacket
<1> HIDE DEF e
<1>6. \A i \in 1..Len(file) : file[i].id < e.id
  <2> DEFINE n == accepted - Len(hand) - Len(queue)
  <2>1. n \in Nat /\ e.id = n + 1
    BY <1>1, <1>5, HandIsNext
  <2>2. \A i \in 1..Len(file) : file[i].id \in 1..n
    BY DEF Conserved, NoLossNoReorder, Ids
  <2> HIDE DEF n
  <2> QED  BY <2>1, <2>2
<1>7. \A i \in 1..Len(file) : file[i].stream = e.stream => file[i].dts < e.dts
  <2>1. \A i \in 1..Len(file) : file[i].dts <= lastDts[file[i].stream]
    <3>1. ctl # "closed"
      BY <1>1 DEF Control
    <3> QED  BY <3>1 DEF FileInv, DtsBound
  <2>2. \A i \in 1..Len(file) : file[i] \in QueuedPacket
    BY DEF TypeOK
  <2>3. \A i \in 1..Len(file) : file[i].dts \in Nat /\ file[i].stream \in Streams
    BY <2>2 DEF QueuedPacket
  <2>4. \A s \in Streams : lastDts[s] \in Int
    BY DEF TypeOK
  <2> QED  BY <1>3, <1>5, <2>1, <2>3, <2>4
<1> QED  BY <1>3, <1>4, <1>5, <1>6, <1>7

LEMMA FileStep ==
  TypeOK /\ Control /\ Conserved /\ FileInv /\ [Next]_vars => FileInv'
<1> SUFFICES ASSUME TypeOK, Control, Conserved, FileInv, [Next]_vars PROVE FileInv'
  OBVIOUS
<1>1. ASSUME UNCHANGED <<file, lastDts>>, headerWritten => headerWritten',
             ctl = "closed" => ctl' = "closed"
      PROVE  FileInv'
  BY <1>1 DEF FileInv, DtsBound, MonotoneDts, HeaderBeforePackets
<1>2. ASSUME NEW tc \in Timecodes \cup {NoTc}, NEW ok \in BOOLEAN, OpenSession(tc, ok)
      PROVE FileInv'
  <2>1. file' = <<>>
    BY <1>2 DEF OpenSession
  <2> QED  BY <2>1 DEF FileInv, DtsBound, MonotoneDts, HeaderBeforePackets
<1>3. ASSUME NEW ok \in BOOLEAN, NEW flushError \in BOOLEAN, WriteFrame(ok, flushError)
      PROVE  FileInv'
  <2>1. PICK e \in QueuedPacket :
           /\ file' = (IF ok THEN Append(file, e) ELSE file)
           /\ lastDts' = [lastDts EXCEPT ![e.stream] = e.dts]
           /\ lastDts[e.stream] < e.dts
           /\ \A i \in 1..Len(file) :
                file[i].id < e.id /\ (file[i].stream = e.stream => file[i].dts < e.dts)
    BY <1>3, NextEntryFollows
  <2>2. headerWritten' /\ ctl' = ctl /\ ctl # "closed"
    BY <1>3 DEF WriteFrame, headerVars, Control
  <2>3. e.stream \in Streams /\ e.dts \in Nat
    BY DEF QueuedPacket
  <2>4. /\ \A i \in 1..Len(file) : file[i].stream \in Streams /\ file[i].dts \in Nat
        /\ \A s \in Streams : lastDts[s] \in Int
    <3>1. \A i \in 1..Len(file) : file[i] \in QueuedPacket
      BY DEF TypeOK
    <3> QED  BY <3>1 DEF QueuedPacket, TypeOK
  <2>5. lastDts'[e.stream] = e.dts /\ \A s \in Streams : lastDts[s] <= lastDts'[s]
    BY <2>1, <2>3, <2>4 DEF TypeOK
  <2>6. \A i \in 1..Len(file) : file[i].dts <= lastDts[file[i].stream]
    BY <2>2 DEF FileInv, DtsBound
  <2>7. \A i \in 1..Len(file) : file[i].dts <= lastDts'[file[i].stream]
    <3>1. \A s \in Streams : lastDts'[s] \in Int
      BY <2>1, <2>3, <2>4 DEF TypeOK
    <3> QED  BY <2>4, <2>5, <2>6, <3>1
  <2>8. CASE file' = file
    BY <2>2, <2>7, <2>8 DEF FileInv, DtsBound, MonotoneDts, HeaderBeforePackets
  <2>9. CASE file' = Append(file, e)
    <3>1. /\ Len(file') = Len(file) + 1 /\ Len(file) \in Nat
          /\ \A i \in 1..Len(file) : file'[i] = file[i]
          /\ file'[Len(file) + 1] = e
      BY <2>9 DEF TypeOK
    <3>2. DtsBound'
      BY <2>3, <2>5, <2>7, <3>1 DEF DtsBound
    <3>3. MonotoneDts'
      BY <2>1, <3>1 DEF FileInv, MonotoneDts
    <3>4. HeaderBeforePackets'
      BY <2>2 DEF HeaderBeforePackets
    <3> QED  BY <3>2, <3>3, <3>4 DEF FileInv
  <2> QED  BY <2>1, <2>8, <2>9
<1>4. ASSUME NEW ok \in BOOLEAN, FinishFile(ok) PROVE FileInv'
  <2>1. ctl' = "closed" /\ file' = file /\ (headerWritten => headerWritten')
    BY <1>4 DEF FinishFile, EnsureHeader, headerVars
  <2> QED  BY <2>1 DEF FileInv, DtsBound, MonotoneDts, HeaderBeforePackets
<1>5. ASSUME HeaderFails \/ CommitHeader PROVE FileInv'
  BY <1>1, <1>5 DEF HeaderFails, CommitHeader, EnsureHeader, headerVars, fileVars
<1>6. ASSUME Quiet
      PROVE  FileInv'
  BY <1>1, <1>6, QuietLeavesFile
<1> QED
  BY <1>2, <1>3, <1>4, <1>5, <1>6
  DEF Quiet, Next, ProducerStep, WriterStep, CloseStep, Threads

-----------------------------------------------------------------------------
(* The header takes the candidate, and the candidate is there.              *)
LEMMA HeaderTakesCandidate ==
  ASSUME Tagging, NEW ok \in BOOLEAN, EnsureHeader(ok), UNCHANGED <<call, earlyTc>>,
         \A p \in Producers : pc'[p] = pc[p]
  PROVE  Tagging'
<1>1. candidate' = candidate /\ (headerWritten => headerWritten' /\ header' = header)
  BY DEF EnsureHeader, headerVars
<1>2. ~headerWritten /\ headerWritten' => header' = candidate
  BY DEF EnsureHeader
<1>3. EarlyTimecodeTagged'
  BY <1>1, <1>2 DEF Tagging, EarlyTimecodeTagged
<1> QED
  BY <1>1, <1>3 DEF Tagging, Offered

LEMMA TagStep == TypeOK /\ Control /\ Tagging /\ [Next]_vars => Tagging'
<1> SUFFICES ASSUME TypeOK, Control, Tagging, [Next]_vars PROVE Tagging'
  OBVIOUS
<1> USE MuxerAssumption
<1>1. ASSUME UNCHANGED <<candidate, headerWritten, header, earlyTc>>,
             \A p \in Producers : Offered(p)' => Offered(p)
      PROVE  Tagging'
  BY <1>1 DEF Tagging, EarlyTimecodeTagged
<1>2. ASSUME NEW tc \in Timecodes \cup {NoTc}, NEW ok \in BOOLEAN, OpenSession(tc, ok)
      PROVE  Tagging'
  <2>1. ~headerWritten' /\ ~earlyTc'
    BY <1>2 DEF OpenSession
  <2>2. \A p \in Producers : pc'[p] = "idle"
    BY <1>2 DEF OpenSession, Idle, TypeOK, Threads
  <2> QED  BY <2>1, <2>2 DEF Tagging, Offered, EarlyTimecodeTagged
<1>3. ASSUME NEW p \in Producers, NEW s \in Streams, NEW d \in 0..MaxDts,
             NEW tc \in Timecodes \cup {NoTc}, BeginWrite(p, s, d, tc)
      PROVE  Tagging'
  <2>1. \A q \in Producers : q # p => pc'[q] = pc[q] /\ call'[q] = call[q]
    BY <1>3 DEF BeginWrite, TypeOK, Threads
  <2>2. pc'[p] = (IF tc = NoTc THEN "call" ELSE "offer") /\ call'[p].tc = tc
    BY <1>3 DEF BeginWrite, TypeOK, Threads
  <2>3. \A q \in Producers : Offered(q)' => Offered(q)
    BY <2>1, <2>2 DEF Offered
  <2> QED  BY <1>1, <1>3, <2>3 DEF BeginWrite, qvars, headerVars
<1>4. ASSUME NEW p \in Producers, OfferTimecode(p) PROVE Tagging'
  <2>1. /\ UNCHANGED <<call, headerWritten, header, earlyTc>>
        /\ \A q \in Producers : q # p => pc'[q] = pc[q]
        /\ candidate' = IF ~headerWritten /\ candidate = NoTc THEN call[p].tc ELSE candidate
    BY <1>4 DEF OfferTimecode, qvars, TypeOK, Threads
  <2>2. ~headerWritten /\ candidate # NoTc => candidate' # NoTc
    BY <2>1
  <2>3. ~headerWritten /\ call[p].tc # NoTc => candidate' # NoTc
    BY <2>1
  <2>4. ASSUME ~headerWritten, NEW q \in Producers, Offered(q)' PROVE candidate' # NoTc
    <3>1. CASE q = p
      BY <2>1, <2>3, <2>4, <3>1 DEF Offered
    <3>2. CASE q # p
      BY <2>1, <2>2, <2>4, <3>2 DEF Offered, Tagging
    <3> QED  BY <3>1, <3>2
  <2>5. EarlyTimecodeTagged'
    BY <2>1 DEF Tagging, EarlyTimecodeTagged
  <2> QED  BY <2>1, <2>2, <2>4, <2>5 DEF Tagging
<1>5. ASSUME NEW p \in Producers, Push(p) PROVE Tagging'
  <2>1. /\ UNCHANGED <<candidate, headerWritten, header>>
        /\ Offered(p) <=> call[p].tc # NoTc
        /\ \A q \in Producers : q # p => pc'[q] = pc[q] /\ call'[q] = call[q]
        /\ pc'[p] = "notify"
    BY <1>5 DEF Push, headerVars, TypeOK, Threads, Offered
  <2>2. earlyTc' <=> earlyTc \/ (~headerWritten /\ call[p].tc # NoTc)
    BY <1>5 DEF Push
  <2>3. \A q \in Producers : Offered(q)' => Offered(q)
    BY <2>1 DEF Offered
  <2>4. ~headerWritten /\ earlyTc' => candidate # NoTc
    BY <2>1, <2>2 DEF Tagging
  <2>5. headerWritten /\ earlyTc' => header # NoTc
    BY <2>2 DEF Tagging, EarlyTimecodeTagged
  <2>6. ~headerWritten => \A q \in Producers : Offered(q)' => candidate # NoTc
    BY <2>3 DEF Tagging
  <2> QED  BY <2>1, <2>4, <2>5, <2>6 DEF Tagging, EarlyTimecodeTagged
<1>6. ASSUME NEW t \in Threads, NEW n \in {"idle", "header"}, NotifyOne(t, n),
             UNCHANGED <<call, candidate, headerWritten, header, earlyTc>>
      PROVE  Tagging'
  <2>1. \A q \in Producers : pc'[q] \in {pc[q], n} \/ (pc'[q] = "lock" /\ pc[q] = "waiting")
    BY <1>6 DEF NotifyOne, Waiting, TypeOK, Threads
  <2>2. \A q \in Producers : Offered(q)' => Offered(q)
    BY <1>6, <2>1 DEF Offered
  <2> QED  BY <1>1, <1>6, <2>2
<1>7. ASSUME NEW p \in Producers, ProducerNotifies(p) PROVE Tagging'
  BY <1>6, <1>7 DEF ProducerNotifies, qvars, headerVars, Threads
<1>8. ASSUME WriterNotifies PROVE Tagging'
  BY <1>6, <1>8 DEF WriterNotifies, qvars, headerVars, Threads
<1>9. ASSUME NEW p \in Producers,
             EnterWritePacket(p) \/ ProducerBlocks(p) \/ ProducerGivesUp(p)
      PROVE  Tagging'
  <2>1. /\ UNCHANGED <<call, candidate, headerWritten, header, earlyTc>>
        /\ pc[p] \in {"call", "lock"}
        /\ \A q \in Producers : q # p => pc'[q] = pc[q]
    BY <1>9 DEF EnterWritePacket, ProducerBlocks, ProducerGivesUp, qvars, headerVars, TypeOK,
                Threads
  <2>2. \A q \in Producers : Offered(q)' => Offered(q)
    BY <2>1 DEF Offered
  <2> QED  BY <1>1, <2>1, <2>2
<1>10. ASSUME NEW t \in Threads, Park(t) PROVE Tagging'
  <2>1. /\ UNCHANGED <<call, candidate, headerWritten, header, earlyTc>>
        /\ pc[t] = "parking"
        /\ \A q \in Producers : q # t => pc'[q] = pc[q]
    BY <1>10 DEF Park, qvars, headerVars, TypeOK, Threads
  <2>2. \A q \in Producers : Offered(q)' => Offered(q)
    BY <2>1 DEF Offered
  <2> QED  BY <1>1, <2>1, <2>2
<1>11. ASSUME NotifyAll PROVE Tagging'
  <2>1. UNCHANGED <<call, candidate, headerWritten, header, earlyTc>>
    BY <1>11 DEF NotifyAll, qvars, headerVars
  <2>2. \A q \in Producers : pc'[q] = pc[q] \/ (pc'[q] = "lock" /\ pc[q] = "waiting")
    BY <1>11 DEF NotifyAll, Threads
  <2>3. \A q \in Producers : Offered(q)' => Offered(q)
    BY <2>1, <2>2 DEF Offered
  <2> QED  BY <1>1, <2>1, <2>3
<1>12. ASSUME \/ GraceExpires \/ StopWriter \/ JoinWriter \/ WriterFindsNothing \/ Pop
              \/ \E ok, flushError \in BOOLEAN : WriteFrame(ok, flushError)
              \/ UNCHANGED vars
       PROVE  Tagging'
  <2>1. /\ UNCHANGED <<call, candidate, headerWritten, header, earlyTc>>
        /\ \A q \in Producers : pc'[q] = pc[q]
    BY <1>12 DEF GraceExpires, StopWriter, JoinWriter, WriterFindsNothing, Pop, WriteFrame, vars,
                 qvars, headerVars, TypeOK, Threads
  <2> QED  BY <1>1, <2>1 DEF Offered
<1>13. ASSUME CommitHeader \/ HeaderFails \/ \E ok \in BOOLEAN : FinishFile(ok) PROVE Tagging'
  <2>1. /\ UNCHANGED <<call, earlyTc>> /\ \E ok \in BOOLEAN : EnsureHeader(ok)
        /\ \A q \in Producers : pc'[q] = pc[q]
    BY <1>13 DEF CommitHeader, HeaderFails, FinishFile, qvars, TypeOK, Threads
  <2> QED  BY <2>1, HeaderTakesCandidate
<1> QED
  BY <1>2, <1>3, <1>4, <1>5, <1>7, <1>8, <1>9, <1>10, <1>11, <1>12, <1>13
  DEF Next, ProducerStep, WriterStep, CloseStep, Threads

-----------------------------------------------------------------------------
(* IInv is inductive, so every reachable state satisfies it.                *)
THEOREM Invariance == Spec => []IInv
<1>1. IInv /\ [Next]_vars => IInv'
  BY TypeStep, ControlStep, ConservedStep, FileStep, TagStep DEF IInv, FileInv
<1> QED  BY InitIInv, <1>1, PTL DEF Spec

(* Type correctness, the kMaxQueued bound of the queue included.            *)
THEOREM TypeCorrect == Spec => []TypeOK
  BY Invariance, PTL DEF IInv

(* However many producers race each other, the writer and close(), no       *)
(* accepted packet is lost, duplicated or reordered.                        *)
THEOREM NothingLost == Spec => []NoLossNoReorder
<1>1. IInv => NoLossNoReorder
  BY DEF IInv, Conserved
<1> QED  BY Invariance, <1>1, PTL

(* The dts of every stream of the file strictly increase.                   *)
THEOREM DtsMonotone == Spec => []MonotoneDts
<1>1. IInv => MonotoneDts
  BY DEF IInv
<1> QED  BY Invariance, <1>1, PTL

(* The trailer seals a complete file, even when close() races its callers.  *)
THEOREM TrailerIsLast == Spec => []TrailerSealsEverything
<1>1. IInv => TrailerSealsEverything
  <2> SUFFICES ASSUME IInv, trailer PROVE TrailerSealsEverything
    BY DEF TrailerSealsEverything
  <2>1. pc[Writer] = "none" /\ headerWritten /\ hand = <<>> /\ queue = <<>>
    BY DEF IInv, Control
  <2>2. Len(hand) = 0 /\ Len(queue) = 0 /\ accepted \in Nat
    BY <2>1 DEF IInv, TypeOK
  <2>3. Ids(file) \cup lost = 1..accepted
    BY <2>2 DEF IInv, Conserved, NoLossNoReorder
  <2> QED  BY <2>1, <2>3 DEF TrailerSealsEverything
<1> QED  BY Invariance, <1>1, PTL

(* A frame with a timecode that is queued before the header is written, by  *)
(* any producer and however close() races it, leaves the file tagged.       *)
THEOREM EarlyTimecodeReachesFile == Spec => []EarlyTimecodeTagged
<1>1. IInv => EarlyTimecodeTagged
  BY DEF IInv, Tagging
<1> QED  BY Invariance, <1>1, PTL

-----------------------------------------------------------------------------
LEMMA InitRefines == Init => Recording!Empty
  BY DEF Init, Recording!Empty

(* Every step of the threads is a step of the file, or leaves it alone.     *)
LEMMA StepRefines == IInv /\ [Next]_vars => [Recording!Next]_Recording!vars
<1> SUFFICES ASSUME IInv, [Next]_vars
             PROVE  Recording!Next \/ UNCHANGED <<headerWritten, header, file, trailer>>
  BY DEF Recording!vars
<1>1. ASSUME NEW tc \in Timecodes \cup {NoTc}, NEW ok \in BOOLEAN, OpenSession(tc, ok)
      PROVE  Recording!Create
  BY <1>1 DEF OpenSession, Recording!Create
<1>2. ASSUME CommitHeader
      PROVE  Recording!WriteHeader \/ UNCHANGED <<headerWritten, header, file, trailer>>
  <2>1. UNCHANGED <<file, trailer>> /\ ~trailer
    BY <1>2 DEF CommitHeader, fileVars, IInv, Control
  <2>2. CASE headerWritten
    BY <1>2, <2>1, <2>2 DEF CommitHeader, EnsureHeader, headerVars
  <2>3. CASE ~headerWritten
    <3>1. headerWritten' = TRUE /\ header' = candidate
      BY <1>2, <2>3 DEF CommitHeader, EnsureHeader
    <3>2. header' \in Timecodes \cup {NoTc}
      BY <3>1 DEF IInv, TypeOK
    <3> QED  BY <2>1, <2>3, <3>1, <3>2 DEF Recording!WriteHeader
  <2> QED  BY <2>2, <2>3
<1>3. ASSUME HeaderFails PROVE UNCHANGED <<headerWritten, header, file, trailer>>
  <2>1. UNCHANGED <<file, trailer>> /\ EnsureHeader(FALSE)
    BY <1>3 DEF HeaderFails
  <2>2. headerWritten = FALSE /\ headerWritten' = FALSE /\ header' = header
    BY <2>1 DEF EnsureHeader, IInv, TypeOK
  <2> QED  BY <2>1, <2>2
<1>4. ASSUME NEW ok \in BOOLEAN, NEW flushError \in BOOLEAN, WriteFrame(ok, flushError)
      PROVE  Recording!WriteEntry \/ UNCHANGED <<headerWritten, header, file, trailer>>
  <2>1. PICK e \in QueuedPacket :
           /\ file' = (IF ok THEN Append(file, e) ELSE file)
           /\ \A i \in 1..Len(file) :
                file[i].id < e.id /\ (file[i].stream = e.stream => file[i].dts < e.dts)
    BY <1>4, NextEntryFollows DEF IInv, FileInv
  <2>2. UNCHANGED <<headerWritten, header, trailer>> /\ headerWritten /\ ~trailer
    BY <1>4 DEF WriteFrame, headerVars, IInv, Control
  <2>3. CASE file' = file
    BY <2>2, <2>3
  <2>4. CASE file' = Append(file, e)
    <3>1. Len(file') = Len(file) + 1 /\ file'[Len(file) + 1] = e
      BY <2>4 DEF IInv, TypeOK
    <3>2. Recording!Follows(e)
      BY <2>1 DEF Recording!Follows
    <3> QED  BY <2>2, <2>4, <3>1, <3>2 DEF Recording!WriteEntry
  <2> QED  BY <2>1, <2>3, <2>4
<1>5. ASSUME NEW ok \in BOOLEAN, FinishFile(ok)
      PROVE  Recording!Seal \/ UNCHANGED <<headerWritten, header, file, trailer>>
  <2>1. UNCHANGED file /\ ~trailer /\ trailer' = ok
    BY <1>5 DEF FinishFile, IInv, Control
  <2>2. CASE headerWritten
    BY <1>5, <2>1, <2>2 DEF FinishFile, EnsureHeader, headerVars, Recording!Seal
  <2>3. CASE ~headerWritten
    <3>1. /\ headerWritten' = ok
          /\ header' = IF ok THEN candidate ELSE header
      BY <1>5, <2>3 DEF FinishFile, EnsureHeader
    <3>2. file = <<>> /\ candidate \in Timecodes \cup {NoTc}
      BY <2>3 DEF IInv, HeaderBeforePackets, TypeOK
    <3>3. CASE ok
      BY <2>1, <2>3, <3>1, <3>2, <3>3 DEF Recording!Seal
    <3>4. CASE ~ok
      <4>1. headerWritten = FALSE /\ headerWritten' = FALSE /\ header' = header
        BY <2>3, <3>1, <3>4 DEF IInv, TypeOK
      <4>2. trailer = FALSE /\ trailer' = FALSE
        BY <2>1, <3>4 DEF IInv, TypeOK
      <4> QED  BY <2>1, <4>1, <4>2
    <3> QED  BY <3>3, <3>4
  <2> QED  BY <2>2, <2>3
<1>6. ASSUME Quiet
      PROVE  UNCHANGED <<headerWritten, header, file, trailer>>
  BY <1>6, QuietLeavesFile
<1> QED
  BY <1>1, <1>2, <1>3, <1>4, <1>5, <1>6
  DEF Quiet, Next, ProducerStep, WriterStep, CloseStep, Threads, Recording!Next

(* The threads implement the recording file that readers rely on.           *)
THEOREM Refinement == Spec => ImplementsRecordingFile
<1>1. Spec => Recording!Empty /\ [][Recording!Next]_Recording!vars
  BY InitRefines, StepRefines, Invariance, PTL DEF Spec
<1> QED  BY <1>1 DEF ImplementsRecordingFile, Recording!Spec
=============================================================================
