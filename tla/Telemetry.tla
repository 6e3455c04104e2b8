------------------------------ MODULE Telemetry ------------------------------
(***************************************************************************)
(* Telemetry of the feeds: the server-sent events client (telemetry/), the *)
(* recording of its events, and what UIManager shows at the playhead from  *)
(* the file (playback/telemetrytimelinereader.cpp), which the muxer writes *)
(* behind, and from the events it has seen recorded.                       *)
(***************************************************************************)
EXTENDS Integers, Sequences, FiniteSets, FiniteSetsExt

CONSTANTS
  Feeds,     \* feed ids of the sources, tracks of the recording
  Delay,     \* telemetryDelayMs of each
  Lengths,   \* parts an event is cut into on the wire
  MaxBuffer, \* MaxSseBufferSize, in parts
  MaxEvents, \* BOUND: events of the server
  MaxNow     \* BOUND: session time

TelemetryAssumption ==
  /\ Delay \in [Feeds -> Nat] /\ Lengths \subseteq Nat \ {0}
  /\ MaxBuffer \in Nat /\ MaxEvents \in Nat /\ MaxNow \in Nat

Unusable == "unusable"  \* no JSON object with a feedId
Unknown == "unknown"    \* a feed that is no source

VARIABLES
  reply,     \* m_reply: none, opening or connected
  wire,      \* parts the server has sent and the client has not read
  buffer,    \* SseParser::m_buffer
  recording, now, \* isRecording() and the session clock
  log,       \* history: the events recorded in this recording
  written,   \* how many of them are in the file
  pending,   \* m_recordingTelemetry
  timeline,  \* m_events of the reader
  loaded,    \* m_hasTelemetryTimeline
  live,      \* m_liveTelemetry
  sent       \* events of the server

clientVars == <<reply, wire, buffer>>
fileVars == <<log, written>>
shownVars == <<pending, timeline, loaded, live>>
vars == <<clientVars, recording, now, fileVars, shownVars, sent>>

NoState == [f \in {} |-> 0]
Over(new, old) == [f \in DOMAIN new \cup DOMAIN old |-> IF f \in DOMAIN new THEN new[f] ELSE old[f]]

Init ==
  /\ reply = "none" /\ wire = <<>> /\ buffer = <<>>
  /\ recording = FALSE /\ now = 0 /\ log = <<>> /\ written = 0
  /\ pending = <<>> /\ timeline = <<>> /\ loaded = FALSE /\ live = NoState /\ sent = 0

-----------------------------------------------------------------------------
(* The server and the network.                                              *)
ServerSends(feed, length) ==
  /\ reply # "none" /\ sent < MaxEvents /\ sent' = sent + 1
  /\ wire' = wire \o [p \in 1 .. length |-> [id |-> sent + 1, feed |-> feed, part |-> p, last |-> p = length]]
  /\ UNCHANGED <<reply, buffer, recording, now, fileVars, shownVars>>
Tick ==
  /\ recording /\ now < MaxNow /\ now' = now + 1
  /\ UNCHANGED <<clientVars, recording, fileVars, shownVars, sent>>
MuxerWrites ==
  /\ recording /\ written < Len(log) /\ written' = written + 1
  /\ UNCHANGED <<clientVars, recording, now, log, shownVars, sent>>

-----------------------------------------------------------------------------
(* SseParser.                                                               *)

(* The elements of s at the given positions, in their order.                *)
Nth(places, k) == CHOOSE i \in places : Cardinality({j \in places : j <= i}) = k
Picked(s, places) == [k \in 1 .. Cardinality(places) |-> s[Nth(places, k)]]

Ends(parts) == {i \in DOMAIN parts : parts[i].last}
Begin(parts, e) == 1 + Max({0} \cup {i \in Ends(parts) : i < e})
Blocks(parts) ==
  Picked([e \in DOMAIN parts |-> SubSeq(parts, Begin(parts, e), e)], Ends(parts))
Rest(parts) == SubSeq(parts, Begin(parts, Len(parts) + 1), Len(parts))

(* parseEventBlock(): a block that lost its beginning is no JSON object.    *)
Parsed(block) == block[1].part = 1 /\ block[1].feed # Unusable

(* push(): a chunk that does not fit is dropped together with the buffer.   *)
Push(chunk) ==
  LET parts == buffer \o chunk
      blocks == Blocks(parts)
  IN IF Len(parts) > MaxBuffer THEN [buffer |-> <<>>, events |-> <<>>]
     ELSE [buffer |-> Rest(parts),
           events |-> Picked([k \in DOMAIN blocks |-> Head(blocks[k])],
                             {k \in DOMAIN blocks : Parsed(blocks[k])})]

-----------------------------------------------------------------------------
(* load(): the file as far as it is written; telemetryRecorded reads it     *)
(* again at each event, and reading a growing file may fail.                *)
Load(events, count) ==
  \/ timeline' = SubSeq(events, 1, count) /\ loaded' = TRUE
  \/ timeline' = <<>> /\ loaded' = FALSE

(* recordTelemetryEvent(), then the handlers of telemetryEvent and          *)
(* telemetryRecorded of UIManager, for the events of a chunk.               *)
Record(events) ==
  LET known == Picked(events, {k \in DOMAIN events : events[k].feed \in Feeds})
      entries == [k \in DOMAIN known |-> [feed |-> known[k].feed, at |-> now + Delay[known[k].feed], value |-> known[k].id]]
      Latest(f) == Max({k \in DOMAIN known : known[k].feed = f})
      heard == {known[k].feed : k \in DOMAIN known}
  IN /\ live' = Over([f \in heard |-> known[Latest(f)].id], live)
     /\ IF recording /\ known # <<>>
        THEN /\ log' = log \o entries /\ pending' = pending \o entries
             /\ Load(log, written)
        ELSE UNCHANGED <<log, pending, timeline, loaded>>

(* onReadyRead(), which also establishes the connection.                    *)
OnReadyRead ==
  /\ reply # "none" /\ wire # <<>> /\ reply' = "connected"
  /\ \E n \in 1 .. Len(wire) :
       LET pushed == Push(SubSeq(wire, 1, n))
       IN /\ wire' = SubSeq(wire, n + 1, Len(wire))
          /\ buffer' = pushed.buffer
          /\ Record(pushed.events)
  /\ UNCHANGED <<recording, now, written, sent>>

(* onMetaDataChanged() with a usable status; with an error status, or when  *)
(* the reply finishes, nobody asks again.                                   *)
OnMetaDataChanged ==
  /\ reply = "opening" /\ reply' = "connected"
  /\ UNCHANGED <<wire, buffer, recording, now, fileVars, shownVars, sent>>
OnFinished ==
  /\ reply # "none" /\ reply' = "none" /\ wire' = <<>>
  /\ UNCHANGED <<buffer, recording, now, fileVars, shownVars, sent>>

-----------------------------------------------------------------------------
(* startRecording() of UIManager: what was shown is dropped, also when the  *)
(* engine does not start; then TelemetryClient::start() opens a reply anew. *)
Start ==
  /\ ~recording /\ pending' = <<>> /\ loaded' = FALSE /\ timeline' = timeline
  /\ \/ UNCHANGED <<clientVars, recording, now, fileVars, live, sent>>
     \/ /\ recording' = TRUE /\ now' = 0 /\ log' = <<>> /\ written' = 0 /\ live' = NoState
        /\ reply' = "opening" /\ wire' = <<>> /\ buffer' = <<>> /\ sent' = sent

(* stopRecording(): the client stops, the muxer completes the file, and the *)
(* timeline is read from it.                                                *)
Stop ==
  /\ recording /\ recording' = FALSE
  /\ reply' = "none" /\ wire' = <<>>
  /\ written' = Len(log) /\ Load(log, Len(log))
  /\ UNCHANGED <<buffer, now, log, pending, live, sent>>

(* applyImportPreview(): other feeds, nothing to show of the old ones.      *)
ApplyImport ==
  /\ ~recording /\ pending' = <<>> /\ loaded' = FALSE /\ live' = NoState
  /\ UNCHANGED <<clientVars, recording, now, fileVars, timeline, sent>>

-----------------------------------------------------------------------------
(* What is shown.                                                           *)

(* stateAt() and recordingTelemetryStateAt(): of each feed the last entry   *)
(* that is not after the playhead.                                          *)
StateAt(entries, playhead) ==
  LET Of(f) == {k \in DOMAIN entries : entries[k].feed = f /\ entries[k].at <= playhead}
  IN [f \in {g \in Feeds : Of(g) # {}} |-> entries[Max(Of(f))].value]

(* Mutant: the file, which lags behind, goes over what was seen recorded.   *)
OverlayByFile(file, seen) == Over(file, seen)
Overlay(file, seen) == Over(seen, file)

(* telemetryAtPlayhead().                                                   *)
Shown(playhead) ==
  LET file == IF loaded THEN StateAt(timeline, playhead) ELSE NoState
      both == Overlay(file, StateAt(pending, playhead))
  IN IF recording /\ DOMAIN both # {} THEN both
     ELSE IF loaded THEN file
     ELSE IF pending # <<>> THEN StateAt(pending, playhead) ELSE live

-----------------------------------------------------------------------------
Next ==
  \/ \E f \in Feeds \cup {Unusable, Unknown}, l \in Lengths : ServerSends(f, l)
  \/ Tick \/ MuxerWrites
  \/ OnReadyRead \/ OnMetaDataChanged \/ OnFinished
  \/ Start \/ Stop \/ ApplyImport

Spec == Init /\ [][Next]_vars

(* Wherever the playhead stands, each feed shows the last event of this     *)
(* recording that took effect there: while the file lags behind, while it   *)
(* cannot be read, and after the recording was closed.                      *)
ShownIsLatest ==
  pending # <<>> =>
    \A playhead \in 0 .. MaxNow + Max({Delay[f] : f \in Feeds}) : Shown(playhead) = StateAt(log, playhead)
==============================================================================
