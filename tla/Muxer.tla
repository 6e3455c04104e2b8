------------------------------- MODULE Muxer -------------------------------
(***************************************************************************)
(* The recording writer of recorder_engine/muxer.cpp: producer threads     *)
(* hand packets to a bounded queue, one writer thread drains it to the     *)
(* file, and the controller (ReplayManager on the GUI thread) opens and    *)
(* closes sessions.  Queue and condition variable are modelled at the      *)
(* grain of m_qMutex: an action is one critical section, except that a     *)
(* thread which found nothing to do holds the mutex in "parking" until it  *)
(* atomically releases it and sleeps on m_qCv.  m_writerRunning is an      *)
(* atomic that close() flips WITHOUT m_qMutex, so it may change under a    *)
(* parking thread.                                                         *)
(***************************************************************************)
EXTENDS Integers, Sequences, FiniteSets

CONSTANTS
  Producers,       \* threads that call writePacket (source workers, GUI)
  Writer,          \* the writer thread, m_writerThread
  Streams,         \* stream indices of the output file
  Timecodes,       \* well-formed start timecodes
  NoTc,            \* no, or a malformed, timecode
  QueueCap,        \* kMaxQueued
  FatalThreshold,  \* kFatalWriteThreshold
  MaxPackets,      \* BOUND: packets accepted per session
  MaxDts,          \* BOUND: largest dts a caller stamps
  CallerContract   \* close() only once every producer has been joined

ASSUME MuxerAssumption ==
  /\ Writer \notin Producers
  /\ Streams # {}
  /\ NoTc \notin Timecodes
  /\ QueueCap \in Nat \ {0}
  /\ FatalThreshold \in Nat \ {0}
  /\ MaxPackets \in Nat
  /\ MaxDts \in Nat
  /\ CallerContract \in BOOLEAN

VARIABLES
  ctl,            \* where the controller is: closed/open/stopping/joining/finishing
  pc,             \* where each producer and the writer is
  call,           \* the packet each producer is writing
  running,        \* m_writerRunning
  queue,          \* m_pktQueue
  hand,           \* the packet the writer popped: a sequence of at most one
  headerWritten,  \* m_headerWritten
  candidate,      \* m_startTimecodeCandidate
  graceOpen,      \* the m_headerGraceMs window has not expired
  lastDts,        \* m_lastDts, -1 for a stream with no packet yet
  errors,         \* m_consecutiveWriteErrors
  fatal,          \* m_fatalWriteError
  accepted,       \* history: packets pushed this session, numbered 1..accepted
  lost,           \* history: packets given up on a write error
  earlyTc,        \* history: a packet with a timecode was queued before the header
  header,         \* the file: its timecode tag, meaningful once headerWritten
  file,           \* the file: packets written, in order
  trailer         \* the file: av_write_trailer done

qvars == <<queue, accepted, earlyTc>>
headerVars == <<headerWritten, candidate, graceOpen, header>>
fileVars == <<file, lost, lastDts, errors, fatal>>
vars == <<ctl, pc, call, running, hand, trailer, qvars, headerVars, fileVars>>

Threads == Producers \cup {Writer}
Packet == [stream : Streams, dts : Nat, tc : Timecodes \cup {NoTc}]
QueuedPacket == [id : Nat, stream : Streams, dts : Nat]

(* A producer between two packets.                                          *)
NoCall == [stream |-> CHOOSE s \in Streams : TRUE, dts |-> 0, tc |-> NoTc]

ProducerPc == {"idle", "offer", "call", "lock", "parking", "waiting", "notify"}
WriterPc == {"none", "lock", "parking", "waiting", "notify", "header", "frame", "done"}

Init ==
  /\ ctl = "closed"
  /\ pc = [t \in Threads |-> IF t = Writer THEN "none" ELSE "idle"]
  /\ call = [p \in Producers |-> NoCall]
  /\ running = FALSE
  /\ queue = <<>> /\ hand = <<>>
  /\ headerWritten = FALSE /\ candidate = NoTc /\ graceOpen = FALSE
  /\ lastDts = [s \in Streams |-> -1]
  /\ errors = 0 /\ fatal = FALSE
  /\ accepted = 0 /\ lost = {} /\ earlyTc = FALSE
  /\ header = NoTc /\ file = <<>> /\ trailer = FALSE

-----------------------------------------------------------------------------
(* m_qMutex is free unless a thread is between its predicate and the sleep. *)
LockFree == \A t \in Threads : pc[t] # "parking"

Waiting == {t \in Threads : pc[t] = "waiting"}

(* Thread t continues at `next` after m_qCv.notify_one(): which of the      *)
(* sleepers wakes is the implementation's choice.                           *)
NotifyOne(t, next) ==
  \/ /\ Waiting = {}
     /\ pc' = [pc EXCEPT ![t] = next]
  \/ \E w \in Waiting : pc' = [pc EXCEPT ![t] = next, ![w] = "lock"]

Idle == \A p \in Producers : pc[p] = "idle"

-----------------------------------------------------------------------------
(* init(): a new file; `tc` is the up-front start timecode, and only        *)
(* without one does the grace window open.  A path or context failure       *)
(* leaves the session closed.                                               *)
OpenSession(tc, ok) ==
  /\ ctl = "closed"
  /\ Idle
  /\ headerWritten' = FALSE
  /\ candidate' = tc
  /\ graceOpen' = (tc = NoTc)
  /\ header' = NoTc
  /\ IF ok
     THEN /\ ctl' = "open"
          /\ running' = TRUE
          /\ pc' = [pc EXCEPT ![Writer] = "lock"]
          /\ lastDts' = [s \in Streams |-> -1]
          /\ errors' = 0 /\ fatal' = FALSE
     ELSE UNCHANGED <<ctl, running, pc, lastDts, errors, fatal>>
  /\ accepted' = 0 /\ lost' = {} /\ earlyTc' = FALSE
  /\ file' = <<>> /\ trailer' = FALSE
  /\ UNCHANGED <<call, queue, hand>>

GraceExpires ==
  /\ graceOpen
  /\ ~headerWritten
  /\ graceOpen' = FALSE
  /\ UNCHANGED <<ctl, pc, call, running, hand, trailer, qvars, headerWritten,
                 candidate, header, fileVars>>

-----------------------------------------------------------------------------
(* A producer has a frame for stream s; tc is the frame's source timecode.  *)
BeginWrite(p, s, d, tc) ==
  /\ pc[p] = "idle"
  /\ ctl # "closed"
  /\ CallerContract => ctl = "open"
  /\ accepted + Cardinality({q \in Producers : pc[q] \notin {"idle", "notify"}}) < MaxPackets
  /\ call' = [call EXCEPT ![p] = [stream |-> s, dts |-> d, tc |-> tc]]
  /\ pc' = [pc EXCEPT ![p] = IF tc = NoTc THEN "call" ELSE "offer"]
  /\ UNCHANGED <<ctl, running, hand, trailer, qvars, headerVars, fileVars>>

(* setStartTimecodeCandidate(): the first candidate before the header wins. *)
OfferTimecodeInGrace(p) ==
  /\ pc[p] = "offer"
  /\ pc' = [pc EXCEPT ![p] = "call"]
  /\ candidate' = IF graceOpen /\ candidate = NoTc THEN call[p].tc ELSE candidate
  /\ UNCHANGED <<ctl, call, running, hand, trailer, qvars, headerWritten, graceOpen,
                 header, fileVars>>
OfferTimecode(p) ==
  /\ pc[p] = "offer"
  /\ pc' = [pc EXCEPT ![p] = "call"]
  /\ candidate' = IF ~headerWritten /\ candidate = NoTc THEN call[p].tc ELSE candidate
  /\ UNCHANGED <<ctl, call, running, hand, trailer, qvars, headerWritten, graceOpen,
                 header, fileVars>>

(* writePacket(): the unlocked early return, then the clone.                *)
EnterWritePacket(p) ==
  /\ pc[p] = "call"
  /\ pc' = [pc EXCEPT ![p] = IF running THEN "lock" ELSE "idle"]
  /\ UNCHANGED <<ctl, call, running, hand, trailer, qvars, headerVars, fileVars>>

(* The back-pressure bound.                                                 *)
HasRoom == Len(queue) < QueueCap

(* The back-pressure predicate fails: keep the mutex until asleep.          *)
ProducerBlocks(p) ==
  /\ pc[p] = "lock" /\ LockFree
  /\ ~HasRoom /\ running
  /\ pc' = [pc EXCEPT ![p] = "parking"]
  /\ UNCHANGED <<ctl, call, running, hand, trailer, qvars, headerVars, fileVars>>

(* Woken or let through while shutting down: the packet is not queued.      *)
ProducerGivesUp(p) ==
  /\ pc[p] = "lock" /\ LockFree
  /\ ~running
  /\ pc' = [pc EXCEPT ![p] = "idle"]
  /\ UNCHANGED <<ctl, call, running, hand, trailer, qvars, headerVars, fileVars>>

Push(p) ==
  /\ pc[p] = "lock" /\ LockFree
  /\ HasRoom /\ running
  /\ accepted' = accepted + 1
  /\ queue' = Append(queue, [id |-> accepted', stream |-> call[p].stream, dts |-> call[p].dts])
  /\ earlyTc' = (earlyTc \/ (~headerWritten /\ call[p].tc # NoTc))
  /\ call' = [call EXCEPT ![p] = NoCall]
  /\ pc' = [pc EXCEPT ![p] = "notify"]
  /\ UNCHANGED <<ctl, running, hand, trailer, headerVars, fileVars>>

ForgetsToNotify(p) ==
  /\ pc[p] = "notify"
  /\ pc' = [pc EXCEPT ![p] = "idle"]
  /\ UNCHANGED <<ctl, call, running, hand, trailer, qvars, headerVars, fileVars>>

ProducerNotifies(p) ==
  /\ pc[p] = "notify"
  /\ NotifyOne(p, "idle")
  /\ UNCHANGED <<ctl, call, running, hand, trailer, qvars, headerVars, fileVars>>

(* The atomic release-and-sleep of condition_variable::wait.                *)
Park(t) ==
  /\ pc[t] = "parking"
  /\ pc' = [pc EXCEPT ![t] = "waiting"]
  /\ UNCHANGED <<ctl, call, running, hand, trailer, qvars, headerVars, fileVars>>

-----------------------------------------------------------------------------
(* headerWriteDeferred(): hold the header for the first source timecode.    *)
HeaderDeferred == ~headerWritten /\ graceOpen /\ candidate = NoTc

(* A stopped writer leaves only once the queue is drained.                  *)
StopsAtOnce == queue = <<>> \/ ~running
NothingToWrite == queue = <<>>

WriterFindsNothing ==
  /\ pc[Writer] = "lock" /\ LockFree
  /\ NothingToWrite
  /\ pc' = [pc EXCEPT ![Writer] = IF running THEN "parking" ELSE "done"]
  /\ UNCHANGED <<ctl, call, running, hand, trailer, qvars, headerVars, fileVars>>

(* While the header is deferred and the session runs, the writer polls:     *)
(* nothing is popped (a stuttering step); a shutdown drains at once.        *)
Pop ==
  /\ pc[Writer] = "lock" /\ LockFree
  /\ ~NothingToWrite
  /\ ~(running /\ HeaderDeferred)
  /\ hand' = <<Head(queue)>>
  /\ queue' = Tail(queue)
  /\ pc' = [pc EXCEPT ![Writer] = "notify"]
  /\ UNCHANGED <<ctl, call, running, trailer, accepted, earlyTc, headerVars, fileVars>>

WriterNotifies ==
  /\ pc[Writer] = "notify"
  /\ NotifyOne(Writer, "header")
  /\ UNCHANGED <<ctl, call, running, hand, trailer, qvars, headerVars, fileVars>>

(* recordWriteOutcome(): the counter and the latch after one outcome.       *)
ErrorsAfter(failed, e) == IF failed THEN e + 1 ELSE 0
FatalAfter(failed, e, f) == f \/ (failed /\ e + 1 >= FatalThreshold)

(* ensureHeaderWritten(), which materialises the winning candidate; the     *)
(* header write itself may fail.                                            *)
EnsureHeader(ok) ==
  IF headerWritten
  THEN ok /\ UNCHANGED headerVars
  ELSE /\ headerWritten' = ok
       /\ header' = IF ok THEN candidate ELSE header
       /\ UNCHANGED <<candidate, graceOpen>>

CommitHeader ==
  /\ pc[Writer] = "header"
  /\ EnsureHeader(TRUE)
  /\ pc' = [pc EXCEPT ![Writer] = "frame"]
  /\ UNCHANGED <<ctl, call, running, hand, trailer, qvars, fileVars>>

HeaderFails ==
  /\ pc[Writer] = "header"
  /\ EnsureHeader(FALSE)
  /\ lost' = lost \cup {hand[1].id}
  /\ errors' = ErrorsAfter(TRUE, errors)
  /\ fatal' = FatalAfter(TRUE, errors, fatal)
  /\ hand' = <<>>
  /\ pc' = [pc EXCEPT ![Writer] = "lock"]
  /\ UNCHANGED <<ctl, call, running, trailer, qvars, file, lastDts>>

(* The monotonic bump of a dts that does not advance its stream.            *)
UnbumpedDts(p) == p.dts
BumpedDts(p) == IF p.dts <= lastDts[p.stream] THEN lastDts[p.stream] + 1 ELSE p.dts

(* av_write_frame and the throttled flush: `ok` is the write's result,      *)
(* `flushError` that a flush was due and left the AVIO context in error.    *)
WriteFrame(ok, flushError) ==
  LET p == hand[1]
      d == BumpedDts(p)
      e == ErrorsAfter(~ok, errors)
      f == FatalAfter(~ok, errors, fatal)
  IN /\ pc[Writer] = "frame"
     /\ lastDts' = [lastDts EXCEPT ![p.stream] = d]
     /\ file' = IF ok THEN Append(file, [p EXCEPT !.dts = d]) ELSE file
     /\ lost' = IF ok THEN lost ELSE lost \cup {p.id}
     /\ errors' = IF flushError THEN ErrorsAfter(TRUE, e) ELSE e
     /\ fatal' = IF flushError THEN FatalAfter(TRUE, e, f) ELSE f
     /\ hand' = <<>>
     /\ pc' = [pc EXCEPT ![Writer] = "lock"]
     /\ UNCHANGED <<ctl, call, running, trailer, qvars, headerVars>>

-----------------------------------------------------------------------------
(* close(): stop accepting, wake every sleeper, join, finish the file.      *)
StopWriter ==
  /\ ctl = "open"
  /\ CallerContract => Idle
  /\ ctl' = "stopping"
  /\ running' = FALSE
  /\ UNCHANGED <<pc, call, hand, trailer, qvars, headerVars, fileVars>>

NotifyAll ==
  /\ ctl = "stopping"
  /\ ctl' = "joining"
  /\ pc' = [t \in Threads |-> IF pc[t] = "waiting" THEN "lock" ELSE pc[t]]
  /\ UNCHANGED <<call, running, hand, trailer, qvars, headerVars, fileVars>>

GoesOnWithoutJoin ==
  /\ ctl = "joining"
  /\ ctl' = "finishing"
  /\ UNCHANGED <<pc, call, running, hand, trailer, qvars, headerVars, fileVars>>
JoinWriter ==
  /\ ctl = "joining"
  /\ pc[Writer] = "done"
  /\ ctl' = "finishing"
  /\ pc' = [pc EXCEPT ![Writer] = "none"]
  /\ UNCHANGED <<call, running, hand, trailer, qvars, headerVars, fileVars>>

(* The defensive queue clear, the header of an empty recording, the trailer *)
(* (only behind a header) and the release of the context.                   *)
FinishFile(headerOk) ==
  /\ ctl = "finishing"
  /\ ctl' = "closed"
  /\ queue' = <<>>
  /\ EnsureHeader(headerOk)
  /\ trailer' = headerOk
  /\ lastDts' = [s \in Streams |-> -1]
  /\ UNCHANGED <<pc, call, running, hand, accepted, earlyTc, file, lost, errors, fatal>>

-----------------------------------------------------------------------------
ProducerStep(p) ==
  \/ OfferTimecode(p)
  \/ EnterWritePacket(p)
  \/ ProducerBlocks(p)
  \/ ProducerGivesUp(p)
  \/ Push(p)
  \/ ProducerNotifies(p)
  \/ Park(p)

WriterStep ==
  \/ WriterFindsNothing
  \/ Pop
  \/ WriterNotifies
  \/ CommitHeader
  \/ HeaderFails
  \/ \E ok, flushError \in BOOLEAN : WriteFrame(ok, flushError)
  \/ Park(Writer)

CloseStep ==
  \/ NotifyAll
  \/ JoinWriter
  \/ \E ok \in BOOLEAN : FinishFile(ok)

Next ==
  \/ \E tc \in Timecodes \cup {NoTc}, ok \in BOOLEAN : OpenSession(tc, ok)
  \/ GraceExpires
  \/ \E p \in Producers, s \in Streams, d \in 0..MaxDts, tc \in Timecodes \cup {NoTc} :
       BeginWrite(p, s, d, tc)
  \/ \E p \in Producers : ProducerStep(p)
  \/ WriterStep
  \/ StopWriter
  \/ CloseStep

Spec == Init /\ [][Next]_vars

(* Threads that can run do run and the grace timer ticks; nobody is obliged *)
(* to open a session, to send a packet or to press stop.                    *)
Fairness ==
  /\ \A p \in Producers : WF_vars(ProducerStep(p))
  /\ WF_vars(WriterStep)
  /\ WF_vars(CloseStep)
  /\ WF_vars(GraceExpires)

FairSpec == Spec /\ Fairness

-----------------------------------------------------------------------------
(* Every variable has its type, and the queue never exceeds kMaxQueued.     *)
TypeOK ==
  /\ ctl \in {"closed", "open", "stopping", "joining", "finishing"}
  /\ pc \in [Threads -> ProducerPc \cup WriterPc]
  /\ pc[Writer] \in WriterPc /\ \A p \in Producers : pc[p] \in ProducerPc
  /\ call \in [Producers -> Packet]
  /\ running \in BOOLEAN
  /\ queue \in Seq(QueuedPacket) /\ Len(queue) <= QueueCap
  /\ hand \in Seq(QueuedPacket) /\ Len(hand) <= 1
  /\ headerWritten \in BOOLEAN
  /\ candidate \in Timecodes \cup {NoTc}
  /\ graceOpen \in BOOLEAN
  /\ lastDts \in [Streams -> Int]
  /\ errors \in Nat /\ fatal \in BOOLEAN
  /\ accepted \in Nat /\ lost \subseteq Nat /\ earlyTc \in BOOLEAN
  /\ header \in Timecodes \cup {NoTc}
  /\ file \in Seq(QueuedPacket)
  /\ trailer \in BOOLEAN

Ids(s) == {s[i].id : i \in 1..Len(s)}

(* "NO packet is ever dropped/reordered" (muxer.h): whatever the back       *)
(* pressure, the grace window and a racing close do, every packet writePacket*)
(* accepted is in exactly one place - the file, the writer's hand, the      *)
(* queue, or lost to a reported write error - and the file is in the order  *)
(* of acceptance.                                                           *)
NoLossNoReorder ==
  /\ Ids(file) \cup lost = 1..(accepted - Len(hand) - Len(queue))
  /\ Ids(file) \cap lost = {}
  /\ \A i \in 1..Len(hand) : hand[i].id = accepted - Len(queue)
  /\ \A i \in 1..Len(queue) : queue[i].id = accepted - Len(queue) + i
  /\ \A i, j \in 1..Len(file) : i < j => file[i].id < file[j].id

(* close() writes the trailer only behind the header, once the writer is    *)
(* gone and every accepted packet has been written or reported lost; the    *)
(* defensive clear of the queue never frees a packet.                       *)
TrailerSealsEverything ==
  trailer => /\ headerWritten
             /\ pc[Writer] = "none" /\ hand = <<>> /\ queue = <<>>
             /\ Ids(file) \cup lost = 1..accepted

(* Whatever dts the producers stamp (a source remapped onto a track whose   *)
(* blue frames ran ahead, two threads on one track), the dts of a stream    *)
(* strictly increase in the file.                                           *)
MonotoneDts ==
  \A i, j \in 1..Len(file) :
    i < j /\ file[i].stream = file[j].stream => file[i].dts < file[j].dts

(* No packet precedes the header, although init() no longer writes it.      *)
HeaderBeforePackets == file # <<>> => headerWritten

(* A frame that carries a timecode and is queued before the header is       *)
(* written cannot be too late for the tag: the file is tagged.              *)
EarlyTimecodeTagged == headerWritten /\ earlyTc => header # NoTc

(* A packet that writePacket accepted is written or reported lost, also     *)
(* when close() comes at any moment.                                        *)
AcceptedIsSettled ==
  \A n \in 1..MaxPackets : [](accepted >= n => <>(n \in Ids(file) \cup lost))

-----------------------------------------------------------------------------
(* "on shutdown drain immediately so close() never wedges" (writerLoop):    *)
(* close() never waits for a writer that sleeps with nobody left to wake it.*)
CloseNeverWedges == ~(ctl = "joining" /\ pc[Writer] = "waiting")

-----------------------------------------------------------------------------
(* What the recording promises its readers: see RecordingFile.              *)
Recording == INSTANCE RecordingFile
  WITH Tags <- Timecodes, NoTag <- NoTc, headed <- headerWritten, tag <- header,
       entries <- file, sealed <- trailer

ImplementsRecordingFile == Recording!Spec

=============================================================================
