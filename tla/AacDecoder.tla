----------------------------- MODULE AacDecoder -----------------------------
(***************************************************************************)
(* The Media Foundation AAC decoder                                        *)
(* (ingest/nativeaacdecoder_mediafoundation.cpp): ADTS frames in, PCM at   *)
(* 48 kHz stereo out.  The transform (external) decodes to a layout (rate  *)
(* and channels) that it may settle only when it has seen a frame of a     *)
(* format, and may hold a frame back.                                      *)
(***************************************************************************)
EXTENDS Integers, Sequences, FiniteSets

CONSTANTS
  StreamFormats, \* stream formats: rate, channels and object type
  Layouts,       \* PCM layouts
  MaxFrames      \* BOUND: audio frames

AacAssumption == MaxFrames \in Nat

None == "none"

VARIABLES
  format,   \* sampleRate, channelCount, audioObjectType: what the transform was built for
  layout,   \* m_outputRate, m_outputChannels
  produces, \* the layout the transform's PCM has (external)
  settled,  \* it has settled its layout for the format (external)
  held,     \* the frame it holds back (external)
  frames,   \* frames so far
  sound     \* history: the PCM handed on: the frame, the layout it has and the one it is read in

vars == <<format, layout, produces, settled, held, frames, sound>>

Init ==
  /\ format = None /\ layout = None /\ produces = None /\ settled = FALSE
  /\ held = {} /\ frames = 0 /\ sound = <<>>

-----------------------------------------------------------------------------
(* teardownTransform()                                                      *)
Teardown ==
  /\ format' = None /\ layout' = None /\ produces' = None /\ settled' = FALSE /\ held' = {}

(* createTransform(), configureTypes(): the transform may accept the asked  *)
(* layout and change it later.                                              *)
Built(f) == [format |-> f, layout |-> f, produces |-> f, settled |-> FALSE, held |-> {}]
Live == [format |-> format, layout |-> layout, produces |-> produces, settled |-> settled, held |-> held]

(* ensureTransform()                                                        *)
Ensure(f) == IF format = f THEN Live ELSE Built(f)

(* Mutant: the layout is taken to be the one of the stream's header.        *)
StoreRequested(t, actual) == [t EXCEPT !.produces = actual, !.settled = TRUE]

(* applyOutputType(), storeNegotiatedOutputFormat(): what was accepted is   *)
(* read back.                                                               *)
StoreNegotiated(t, actual) == [t EXCEPT !.produces = actual, !.layout = actual, !.settled = TRUE]

(* appendResampledStereo()                                                  *)
Resampled(t, n) == [frame |-> n, has |-> t.produces, readAs |-> t.layout]

(* processFrame(): a change of layout comes before the first output; then   *)
(* every output the transform has, all but at most one frame held back.     *)
ProcessFrame(t0, n, actual, holds) ==
  LET t == IF t0.settled THEN t0 ELSE StoreNegotiated(t0, actual)
      all == (IF t.held = {} THEN <<>> ELSE <<CHOOSE h \in t.held : TRUE>>) \o <<n>>
      out == IF holds THEN SubSeq(all, 1, Len(all) - 1) ELSE all
  IN [t |-> [t EXCEPT !.held = IF holds THEN {n} ELSE {}],
      out |-> [i \in DOMAIN out |-> Resampled(t, out[i])]]

(* decodeAdtsFrame()                                                        *)
DecodeAdtsFrame(f, actual, holds) ==
  /\ frames < MaxFrames /\ frames' = frames + 1
  /\ LET r == ProcessFrame(Ensure(f), frames + 1, actual, holds)
     IN /\ format' = r.t.format /\ layout' = r.t.layout /\ produces' = r.t.produces
        /\ settled' = r.t.settled /\ held' = r.t.held
        /\ sound' = sound \o r.out

(* A transform that cannot be built, or whose layout cannot be read back.   *)
DecodeFails(f) ==
  /\ frames < MaxFrames /\ frames' = frames + 1
  /\ format # f
  /\ Teardown /\ UNCHANGED sound

(* reset(): flushed and kept.                                               *)
ResetAac ==
  /\ held # {} /\ held' = {}
  /\ UNCHANGED <<format, layout, produces, settled, frames, sound>>

Next ==
  \/ \E f \in StreamFormats, actual \in Layouts, holds \in BOOLEAN : DecodeAdtsFrame(f, actual, holds)
  \/ \E f \in StreamFormats : DecodeFails(f)
  \/ ResetAac

Spec == Init /\ [][Next]_vars

-----------------------------------------------------------------------------
(* The PCM is resampled in the layout it has, whatever the stream's header  *)
(* says and across changes of format, and no frame is heard twice or before *)
(* an earlier one.                                                          *)
SoundKeepsItsLayout ==
  \A i \in DOMAIN sound :
    /\ sound[i].readAs = sound[i].has
    /\ i > 1 => sound[i - 1].frame < sound[i].frame
=============================================================================
