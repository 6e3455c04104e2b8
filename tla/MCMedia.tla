------------------------------ MODULE MCMedia -------------------------------
(***************************************************************************)
(* The way of a frame into the file: chunks and packets are put together   *)
(* again, decoded, stamped, laid on the timeline of the recording and      *)
(* encoded.  Each step hands on frames and asks nothing back, so each is   *)
(* looked at on its own: a behaviour is about one part, chosen at the      *)
(* start, and the others stand at their beginning.                         *)
(***************************************************************************)
EXTENDS RecordingTimeline

CONSTANTS
  ForwardJump, BackTolerance, Wrap, HalfWrap, Lead, DecodeDelay, ClampAhead,  \* SrtTimeline
  Resync, RemTolerance, Starts, Jumps, MaxNow, MaxUpsets,
  Csids, ChunkSizes, Lengths, Steps, Extended, FirstSize, MaxMessages,        \* RtmpChunks
  MaxMessage, MaxHeld, MaxControl, MaxBuffer,
  Pids, Modulus, MaxBurst, PesLengths, MaxAssembly, MaxPes,                   \* TsDemux
  Keys, Depth, MaxUnits, MaxChanges,                                          \* VideoDecoder
  StreamFormats, Layouts, MaxSound,                                           \* AacDecoder
  MaxInFlight, MaxPictures, MaxMishaps                                        \* VideoEncoder

VARIABLES
  part,  \* what this behaviour is about
  now, base, sent, midFrame, flag, clock, force, prevRaw, offset, prevDts, held, rem, fifo,
  remTrue, first, skew, settled, upsets,                                      \* SrtTimeline
  out, history, outSize, messages, completed, broken, excess, buffer, inSize, headers, assembly,
  aborted, delivered, error,                                                  \* RtmpChunks
  pes, counter, lost, known, last, waiting, parts, handed,                    \* TsDemux
  pc, active, isAsync, surfaces, credits, unit, units, fed, shown, wasted, uncalled, events,
  asked, inside, ready, changes,                                                     \* VideoDecoder
  format, layout, produces, negotiated, back, heard, sound,                   \* AacDecoder
  stage, streaming, encAsync, encCredits, nextTime, ticksOf, avcc, pictures, packets, gone,
  encWasted, encEvents, encAsked, coding, coded, draining, encChanges, mishaps           \* VideoEncoder

srtOwn ==
  <<now, base, sent, midFrame, flag, clock, force, prevRaw, offset, prevDts, held, rem, fifo,
    remTrue, first, skew, settled, upsets>>
chunksOwn ==
  <<out, history, outSize, messages, completed, broken, excess, buffer, inSize, headers, assembly,
    aborted, delivered, error>>
tsOwn == <<pes, counter, lost, known, last, waiting, parts, handed>>
videoOwn ==
  <<pc, active, isAsync, surfaces, credits, unit, units, fed, shown, wasted, uncalled, events,
    asked, inside, ready, changes>>
aacOwn == <<format, layout, produces, negotiated, back, heard, sound>>
encodeOwn ==
  <<stage, streaming, encAsync, encCredits, nextTime, ticksOf, avcc, pictures, packets, gone,
    encWasted, encEvents, encAsked, coding, coded, draining, encChanges, mishaps>>
mcVars == <<part, vars, srtOwn, chunksOwn, tsOwn, videoOwn, aacOwn, encodeOwn>>

Srt == INSTANCE SrtTimeline
Chunks == INSTANCE RtmpChunks
Ts == INSTANCE TsDemux WITH
  burst <- lost, assembly <- parts, completed <- handed, Lengths <- PesLengths
Video == INSTANCE VideoDecoder
Aac == INSTANCE AacDecoder WITH
  settled <- negotiated, held <- back, frames <- heard, MaxFrames <- MaxSound
Encode == INSTANCE VideoEncoder WITH
  pc <- stage, isAsync <- encAsync, credits <- encCredits, frames <- pictures,
  events <- encEvents, asked <- encAsked, inside <- coding, ready <- coded,
  changes <- encChanges, wasted <- encWasted, MaxFrames <- MaxPictures

ASSUME MCAssumption ==
  /\ Srt!ClockAssumption
  /\ Srt!SrtAssumption
  /\ Chunks!ChunkAssumption
  /\ Ts!DemuxAssumption
  /\ Video!DecoderAssumption
  /\ Aac!AacAssumption
  /\ Encode!EncoderAssumption

Parts == {"timeline", "srt", "chunks", "ts", "video", "aac", "encode"}

MCInit ==
  /\ part \in Parts
  /\ Init /\ Srt!Init /\ Chunks!Init /\ Ts!Init /\ Video!Init /\ Aac!Init /\ Encode!Init
  \* Those that stand still do so in one place.
  /\ part # "timeline" => slots = [v \in Views |-> 0]
  /\ part # "srt" => base = CHOOSE t \in Starts : TRUE

MCNext ==
  \/ /\ part = "timeline" /\ Next
     /\ UNCHANGED <<part, srtOwn, chunksOwn, tsOwn, videoOwn, aacOwn, encodeOwn>>
  \/ /\ part = "srt" /\ Srt!Next
     /\ UNCHANGED <<part, vars, chunksOwn, tsOwn, videoOwn, aacOwn, encodeOwn>>
  \/ /\ part = "chunks" /\ Chunks!Next
     /\ UNCHANGED <<part, vars, srtOwn, tsOwn, videoOwn, aacOwn, encodeOwn>>
  \/ /\ part = "ts" /\ Ts!Next
     /\ UNCHANGED <<part, vars, srtOwn, chunksOwn, videoOwn, aacOwn, encodeOwn>>
  \/ /\ part = "video" /\ Video!Next
     /\ UNCHANGED <<part, vars, srtOwn, chunksOwn, tsOwn, aacOwn, encodeOwn>>
  \/ /\ part = "aac" /\ Aac!Next
     /\ UNCHANGED <<part, vars, srtOwn, chunksOwn, tsOwn, videoOwn, encodeOwn>>
  \/ /\ part = "encode" /\ Encode!Next
     /\ UNCHANGED <<part, vars, srtOwn, chunksOwn, tsOwn, videoOwn, aacOwn>>
  \/ part # "timeline" /\ UNCHANGED mcVars

videoVars == Video!vars
encodeVars == Encode!vars
MCSpec ==
  /\ MCInit /\ [][MCNext]_mcVars
  /\ WF_videoVars(part = "video" /\ Video!Thread)
  /\ WF_videoVars(part = "video" /\ Video!AskForInput)
  /\ WF_videoVars(part = "video" /\ Video!FinishUnit)
  /\ WF_encodeVars(part = "encode" /\ Encode!Thread)
  /\ WF_encodeVars(part = "encode" /\ Encode!AskForInput)
  /\ WF_encodeVars(part = "encode" /\ Encode!FinishFrame)
  /\ WF_encodeVars(part = "encode" /\ Encode!Drained)

-----------------------------------------------------------------------------
(* Sound and picture of an SRT source bear the same time, and its drift is  *)
(* estimated on one time line, through 33-bit wraps and restarts.           *)
SoundMeetsPicture == part = "srt" => Srt!LipSync /\ Srt!RateOnOneLine

(* A message, a packet or a frame comes out whole and once, in its order,   *)
(* with its own time and in its own layout, or not at all: out of RTMP      *)
(* chunks, out of a transport stream with losses, out of the decoders and   *)
(* out of the encoder.                                                      *)
MediaComesOutWhole ==
  /\ part = "chunks" => Chunks!MessagesComeOutWhole
  /\ part = "ts" => Ts!WholePackets
  /\ part = "video" => Video!TransformIsServed
  /\ part = "aac" => Aac!SoundKeepsItsLayout
  /\ part = "encode" => Encode!PacketsKeepTheirTicks

(* No call into a transform waits for ever, unless the transform waits      *)
(* itself: for requests that were all spent on inputs it refused.           *)
CodecCallsEnd ==
  /\ (part = "video" /\ Video!Calling) ~> (part = "video" => ~Video!Calling \/ Video!Starved)
  /\ (part = "encode" /\ Encode!Calling) ~> (part = "encode" => ~Encode!Calling \/ Encode!Starved)
=============================================================================
