---------------------------- MODULE SrtTimeline ----------------------------
(***************************************************************************)
(* The time line of an SRT source (ingest/nativesrtingestsession.cpp):     *)
(* PCR, video and audio time stamps that wrap are unwrapped by three       *)
(* offsets and mapped to the session by one SourceClock; audio frames that *)
(* span PES packets keep the time stamp of the packet they began in, and   *)
(* decoded audio is placed by sample count.  The sender (external) sends   *)
(* at most one PCR, one video and one audio packet per unit of time, in    *)
(* this order.  It may restart, announced by a discontinuity flag on its   *)
(* next PCR or not, and the session may be re-opened.                      *)
(***************************************************************************)
EXTENDS SourceClock

CONSTANTS
  Wrap,         \* 2^33: time stamps are sent modulo Wrap
  HalfWrap,
  Lead,         \* how far PES time stamps run ahead of the PCR
  DecodeDelay,  \* units the decoder holds back (0 or 1)
  ClampAhead,   \* audio stamped further ahead of the clock is clamped
  Resync,       \* kAudioResyncSamples
  RemTolerance, \* kAudioRemainderPtsTolerance90k
  Starts,       \* sender times at which a session may begin
  Jumps,        \* by how much a restarted sender may jump, either way
  MaxNow,       \* BOUND: time
  MaxUpsets     \* BOUND: restarts of the sender and re-openings of the session

SrtAssumption ==
  /\ HalfWrap * 2 = Wrap /\ MaxNow < Wrap
  /\ \A j \in Jumps : j \in Nat /\ MaxUpsets * j < HalfWrap - MaxNow

VARIABLES
  now,      \* recordingClockMs()
  base,     \* the sender's time is now + base (external)
  sent,     \* what the sender has sent in this unit of time (external)
  midFrame, \* the last audio packet sent ended inside a frame (external)
  flag,     \* the sender's next PCR carries the discontinuity flag (external)
  clock,    \* *m_clock
  force,    \* m_forceNextPcrObserve
  prevRaw,  \* m_prevRawPcr90k, m_prevRawVideoDts90k, m_prevRawAudioPts90k
  offset,   \* m_pcrWrapOffset90k, m_videoWrapOffset90k, m_audioWrapOffset90k
  prevDts,  \* m_prevDts90k
  held,     \* the unit the decoder holds back, if any
  rem,      \* m_audioRemainderPts90k; Unset when m_audioRemainder is empty
  fifo,     \* m_audioFifoSamplePos
  remTrue,  \* history: the sender time of the frame the remainder begins
  first,    \* history: the turn of the wrap in which a stream was first seen
  skew,     \* history: stamp minus sender time of the last frame, while the anchor stands
  settled,  \* history: every rate sample was taken on the line of the anchor
  upsets    \* history: restarts and re-openings

senderVars == <<now, base, sent, midFrame, flag>>
lineVars == <<clock, force, prevRaw, offset, prevDts>>
mediaVars == <<held, rem, fifo, remTrue>>
vars == <<senderVars, lineVars, mediaVars, first, skew, settled, upsets>>

Streams == {"pcr", "video", "audio"}
NoSkew == [video |-> {}, audio |-> {}]
Abs(n) == IF n < 0 THEN -n ELSE n

Init ==
  /\ now = 0 /\ base \in Starts /\ sent = {} /\ midFrame = FALSE /\ flag = FALSE
  /\ clock = FreshClock /\ force = TRUE
  /\ prevRaw = [s \in Streams |-> Unset] /\ offset = [s \in Streams |-> 0]
  /\ prevDts = Unset /\ held = {} /\ rem = Unset /\ fifo = Unset /\ remTrue = 0
  /\ first = [s \in Streams |-> Unset]
  /\ skew = NoSkew /\ settled = TRUE /\ upsets = 0

SenderTime == now + base
Turn(t) == t \div Wrap

(* BOUND: a restart does not jump over a wrap of the time stamps.           *)
SameTurn(t, r) == \A u \in t .. (t + Lead), v \in (r - Lead) .. r : Turn(u) = Turn(v)

(* unwrap33Bit90k: what a stream's offset becomes when `raw' is seen.       *)
NextOffset(s, raw) ==
  LET delta == raw - prevRaw[s]
  IN CASE prevRaw[s] >= 0 /\ delta < -HalfWrap -> offset[s] + Wrap
       [] prevRaw[s] >= 0 /\ delta > HalfWrap  -> offset[s] - Wrap
       [] OTHER -> offset[s]

NoteFirst(s, t) ==
  first' = [first EXCEPT ![s] = IF @ = Unset THEN Turn(t) ELSE @]

(* Two streams begin their count of wraps on the same side of a wrap.  When *)
(* they do not, nothing brings the two lines together again.                *)
BeganTogether(S) == \A s, r \in S : Unset \in {first[s], first[r]} \/ first[s] = first[r]

-----------------------------------------------------------------------------
(* The sender and the network (external).                                   *)
Tick ==
  /\ now < MaxNow
  /\ now' = now + 1 /\ sent' = {}
  /\ UNCHANGED <<base, midFrame, flag, lineVars, mediaVars, first, skew, settled, upsets>>

RestartSender(jump, announced) ==
  /\ upsets < MaxUpsets
  /\ SenderTime + jump >= 0 /\ SameTurn(SenderTime, SenderTime + jump + Lead)
  /\ base' = base + jump /\ flag' = announced
  /\ midFrame' = FALSE /\ sent' = {}
  /\ skew' = NoSkew /\ settled' = FALSE
  /\ upsets' = upsets + 1
  /\ UNCHANGED <<now, lineVars, mediaVars, first>>

-----------------------------------------------------------------------------
(* open(): everything is forgotten but the clock, which is the worker's.    *)
Reopen ==
  /\ upsets < MaxUpsets
  /\ upsets' = upsets + 1
  /\ force' = TRUE
  /\ prevRaw' = [s \in Streams |-> Unset] /\ offset' = [s \in Streams |-> 0]
  /\ prevDts' = Unset /\ held' = {} /\ rem' = Unset /\ fifo' = Unset
  /\ first' = [s \in Streams |-> Unset]
  /\ skew' = NoSkew /\ settled' = (settled /\ BeganTogether({"pcr", "video"}))
  /\ UNCHANGED <<senderVars, clock, remTrue>>

(* processReceivedBytes(): a packet with a PCR.  A flagged discontinuity    *)
(* clears clock and time lines first; a PCR that is not the first of the    *)
(* session only adds a rate sample.                                         *)
KeepSkewIf(same) == skew' = IF same THEN skew ELSE NoSkew

PlainPcr(t) ==
  LET raw == t % Wrap
      off == NextOffset("pcr", raw)
  IN /\ clock' = IF Locked(clock) /\ ~force
                 THEN AddRateSample(clock, raw + off, now)
                 ELSE Observe(clock, raw + off, now, FALSE, TRUE)
     /\ offset' = [offset EXCEPT !["pcr"] = off]
     /\ prevRaw' = [prevRaw EXCEPT !["pcr"] = raw]
     /\ NoteFirst("pcr", t)
     /\ UNCHANGED prevDts

(* Mutant: the wraps counted so far outlive an announced restart.           *)
FlaggedPcrKeepsOffsets(t) ==
  /\ clock' = Observe(FreshClock, t % Wrap, now, TRUE, TRUE)
  /\ UNCHANGED offset
  /\ prevRaw' = [s \in Streams |-> IF s = "pcr" THEN t % Wrap ELSE Unset]
  /\ first' = [s \in Streams |-> IF s = "pcr" THEN Turn(t) ELSE Unset]
  /\ prevDts' = Unset

FlaggedPcr(t) ==
  /\ clock' = Observe(FreshClock, t % Wrap, now, TRUE, TRUE)
  /\ offset' = [s \in Streams |-> 0]
  /\ prevRaw' = [s \in Streams |-> IF s = "pcr" THEN t % Wrap ELSE Unset]
  /\ first' = [s \in Streams |-> IF s = "pcr" THEN Turn(t) ELSE Unset]
  /\ prevDts' = Unset

ReceivePcr ==
  /\ sent = {} /\ sent' = {"pcr"}
  /\ IF flag THEN FlaggedPcr(SenderTime) ELSE PlainPcr(SenderTime)
  /\ force' = FALSE /\ flag' = FALSE
  /\ KeepSkewIf(SameAnchor(clock, clock'))
  /\ settled' = (settled \/ flag)
  /\ UNCHANGED <<now, base, midFrame, mediaVars, upsets>>

LosePcr ==
  /\ sent = {} /\ flag
  /\ sent' = {"pcr"} /\ flag' = FALSE
  /\ UNCHANGED <<now, base, midFrame, lineVars, mediaVars, first, skew, settled, upsets>>

-----------------------------------------------------------------------------
(* processPesPacket() with sourcePtsMsForUnit(): a jump of the dts moves    *)
(* the anchor.  The decoder may give out the unit before; its frame has a   *)
(* time stamp that nobody unwrapped, so that after a wrap the frame falls   *)
(* back to the stamp of the unit just put in.                               *)
DtsJumped(dts) ==
  /\ Locked(clock) /\ prevDts >= 0
  /\ \/ dts - prevDts > ForwardJump
     \/ dts - prevDts < -BackTolerance

FrameStamp(c, rawPts, unitStamp) ==
  IF ToSession(c, rawPts) >= 0 THEN ToSession(c, rawPts) ELSE unitStamp

ReceiveVideo ==
  LET t == SenderTime + Lead
      raw == t % Wrap
      off == NextOffset("video", raw)
      dts == raw + off
      c == Observe(clock, dts, now, DtsJumped(dts), TRUE)
      unit == [raw |-> raw, time |-> t]
      out == IF DecodeDelay = 0 THEN {unit} ELSE held
      kept == IF SameAnchor(clock, c) THEN skew ELSE NoSkew
      stamp == ToSession(c, dts)
  IN /\ sent \cap {"video", "audio"} = {} /\ sent' = sent \cup {"video"}
     /\ clock' = c /\ prevDts' = dts
     /\ offset' = [offset EXCEPT !["video"] = off]
     /\ prevRaw' = [prevRaw EXCEPT !["video"] = raw]
     /\ held' = IF DecodeDelay = 0 \/ stamp < 0 THEN held ELSE {unit}
     /\ skew' = IF stamp < 0 \/ out = {} THEN kept
                ELSE [kept EXCEPT !.video = {FrameStamp(c, u.raw, stamp) - u.time : u \in out}]
     /\ NoteFirst("video", t) /\ settled' = (settled \/ ~SameAnchor(clock, c))
     /\ UNCHANGED <<now, base, midFrame, flag, force, rem, fifo, remTrue, upsets>>

-----------------------------------------------------------------------------
(* Mutant: any packet joins the FIFO, however far its stamp is from it.     *)
FifoStartNever(pos, start) == IF pos < 0 THEN start ELSE pos

(* One decoded audio frame: sourcePtsMsForAudio() and                       *)
(* advanceAudioFifoSample().  `st' carries what it changes.                 *)
FifoStart(pos, start) ==
  IF pos < 0 \/ (start >= 0 /\ Abs(start - pos) > Resync) THEN start ELSE pos

AudioFrame(st, pts, time) ==
  LET delta == pts - st.raw
      off == CASE st.raw >= 0 /\ delta < -HalfWrap -> st.off + Wrap
               [] st.raw >= 0 /\ delta > HalfWrap  -> st.off - Wrap
               [] OTHER -> st.off
      c == Observe(st.clock, pts + off, now, FALSE, FALSE)
      mapped == ToSession(c, pts + off)
      stamp == IF mapped > now + ClampAhead THEN now ELSE mapped
      start == FifoStart(st.fifo, stamp)
  IN IF stamp < 0
     THEN [st EXCEPT !.raw = pts, !.off = off, !.clock = c]
     ELSE [raw |-> pts, off |-> off, clock |-> c, fifo |-> start + 1,
           skew |-> IF mapped = stamp THEN {start - time} ELSE {}]

(* processAudioPesPacket(): `tail' says that the packet begins inside a     *)
(* frame, `head' that its own frame ends in the next one.  A remainder is   *)
(* kept only if the packet continues it in time; then it is also the base   *)
(* from which the frames of the packet are counted.                         *)
ReceiveAudio(head) ==
  LET t == SenderTime + Lead
      pts == t % Wrap
      tail == midFrame
      keep == rem # Unset /\ tail /\ Abs(pts - rem) <= RemTolerance
      st0 == [raw |-> prevRaw["audio"], off |-> offset["audio"], clock |-> clock,
              fifo |-> fifo, skew |-> skew.audio]
      st1 == IF keep THEN AudioFrame(st0, rem, remTrue) ELSE st0
      own == IF keep THEN rem + 1 ELSE pts
      st2 == IF head THEN st1 ELSE AudioFrame(st1, own, t)
  IN /\ "audio" \notin sent /\ sent' = sent \cup {"audio"}
     /\ midFrame' = head
     /\ rem' = IF head THEN own ELSE Unset
     /\ remTrue' = IF head THEN t ELSE 0
     /\ clock' = st2.clock /\ fifo' = st2.fifo
     /\ offset' = [offset EXCEPT !["audio"] = st2.off]
     /\ prevRaw' = [prevRaw EXCEPT !["audio"] = st2.raw]
     /\ skew' = [(IF SameAnchor(clock, st2.clock) THEN skew
                  ELSE NoSkew) EXCEPT !.audio = st2.skew]
     /\ IF keep \/ ~head THEN NoteFirst("audio", IF keep THEN remTrue ELSE t)
                         ELSE UNCHANGED first
     /\ UNCHANGED <<now, base, flag, force, prevDts, held, settled, upsets>>

Next ==
  \/ Tick
  \/ \E j \in Jumps, a \in BOOLEAN : RestartSender(j, a) \/ RestartSender(-j, a)
  \/ Reopen
  \/ ReceivePcr \/ LosePcr \/ ReceiveVideo
  \/ \E h \in BOOLEAN : ReceiveAudio(h)

Spec == Init /\ [][Next]_vars

-----------------------------------------------------------------------------
(* Lip sync: between two moves of the anchor, sound and picture the sender  *)
(* took at the same moment are stamped with the same moment, through wraps, *)
(* losses, restarts and re-openings: up to what the FIFO absorbs on purpose *)
(* (Resync) and what a lost packet does to a frame that spans packets.      *)
(* Audio the clamp has moved to the present is no longer in sync and is     *)
(* left out.                                                                *)
LipSync ==
  DecodeDelay = 0 /\ BeganTogether({"video", "audio"}) =>
    \A v \in skew.video, a \in skew.audio : Abs(v - a) <= Resync + RemTolerance

(* The drift of a source is estimated from one time line: no sample is a    *)
(* wrap away from another, although PCR and video count wraps on their own. *)
RateOnOneLine ==
  settled /\ BeganTogether({"pcr", "video"}) =>
    \A l, m \in clock.rate : Abs(l - m) <= Lead
=============================================================================
