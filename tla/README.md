# OpenLiveReplay: a TLA+ verification project

OpenLiveReplay records several camera feeds into one Matroska file while the
operator scrubs, recalls and plays back what has been recorded, on screen and
on external outputs. Almost every hard property of the program is about threads
that share a few atomics and a mutex (capture threads, a heartbeat, a file
writer, a playback scheduler, an output clock, a thread per output, and a GUI
thread that commands them all) and about peers that do not keep time, order or
promises: networks, servers, codecs, clocks, remote clients. These modules model
both, TLC checks them on small instances, and TLAPS proves the central
properties for all sizes.

Paths below are relative to `src/`. `PROJECT.json` maps every definition to the
lines it models.

## 1. Inventory

| Component | State | Operations | What is hard | What makes it correct |
|---|---|---|---|---|
| **Muxer** `recorder_engine/muxer` | bounded packet queue, condition variable, deferred header, last dts per stream, error counter and latch | `init`, `writePacket`, `setStartTimecode`, `writerLoop`, `close` | producers, writer and `close()` interleave; one condition variable for both sides; write errors; shutdown | nothing accepted is lost or reordered, dts grow, header first, trailer last, everybody wakes |
| **StreamWorker** `recorder_engine/streamworker` (one per source) | URL, restart/paint/suppress flags, active session, jitter queue, audio FIFO and cursors | `changeSource`, `stop`, `onMasterPulse`, `captureLoop`, session callbacks | three threads without a common lock; reconnect, stall time-out, shutdown | no URL change is lost, a live source is not muted, `stop()` reaches only a live session and ends |
| **Source list and view routing** `uimanager`, `recorder_engine/replaymanager`, `websocket/uimanagercontroladapter` | sources, enabled flags, slot map (indices!), workers, track layout | add, remove, toggle, resize, import, start, stop | long command sequences; indices into lists that change | the slot map is a maximal assignment; every track has one writer, the right one |
| **Heartbeat and blue writer** `recorder_engine/heartbeat`, `replaymanager` | frame counter, mapping, audio cursors | tick, catch-up, pulse, blue frame, `updateViewMapping` | late ticks, queued pulses, remaps in the middle, double rounding | every frame of every view exactly once, sound seamless |
| **PlaybackWorker** `playback/playbackworker` with `trackbuffer`, `commitgate.h`, `cutschedule` | decoder bank window, seek target and generations, armed cut with staging cache and second demuxer, output cache | `seekTo`, `armNextCut`, `run` (classify, reposition, fill, trim, stage), `maybeFireScheduledCut`, `makeOutputSnapshot` | GUI, worker and output thread race over seeks and cuts | the latest seek wins, its frame is shown, a cut lands on a decoded frame and never outruns a seek |
| **Rundown playout** `playback/playlistplayout`, `uimanager` | entries, index, one-shot arm, cut counter baseline, poll timer | play, stop, monitor tick, every command that moves the playhead | the rundown learns of its cuts only by polling a counter | boundaries fire once, at their out-point, for the rundown that armed them; the rundown ends |
| **Output clock** `playback/output/outputruntime`, `outputdispatcher`, `outputframeclock` | wall start, next index, play epoch, bookmark, published cache | `dispatchDueTicksNs`, `snapshot`, `dispatchTick`, `resetPlayEpoch` | the snapshot is taken without the mutex it is used under; catch-up | the output is where the transport is; misses are reported |
| **External outputs** `playback/output/queuedoutputsink`, `ndisink` | assignments, dirty flag, bounded queue, drop history, error state | configure, rebuild, submit, identity skip, send | overflow, refusal, stop, reconfiguration | the newest frame survives, gaps have the right cause, rebuilds end |
| **SRT session** `recorder_engine/ingest/nativesrt*` | data and listening socket, use of libsrt, stop flag; three unwrap offsets, audio FIFO, clock | look up, connect, rendezvous, listen, `run`, `requestStop`; PCR, video and audio packets | a dozen early returns; waits in the network; 33-bit wraps, jumps, restarts | nothing leaks; a stop ends it; lips and sound together, drift on one line |
| **RTMP session** `nativertmpingestsession`, `rtmpprotocol` | verdict, window, headers, chunk assemblies | `open`, `run`, `processMessage`; `RtmpChunkParser::push` | a server that interleaves, aborts, changes its mind, goes silent | refusals are reported, frames get their header, acknowledgements are in time; messages come out whole |
| **NDI session** `nativendiingestsession` | receiver, lent frame, stop flag | find, open, capture, free, close, `requestStop` | the library lends frames | the receiver dies with nothing out |
| **Transport stream parser** `mpegtsparser` | continuity counters, assemblies | `pushTsPacket` | lost and repeated packets | no frame with a hole |
| **Codecs** `native{video,aac}decoder_mediafoundation`, `nativevideoencoder_mediafoundation` | transform, credits, queued events, ticks by sample time | `decode`, `encode`, `drain`, `flush`, `reset` | asynchronous transforms ask ahead and answer late; formats change | calls end; nothing lost, nothing with the time or layout of another |
| **Recording session** `recorder_engine/replaymanager`, `timing` | muxer, encoders, workers; reference, trims, grades | `startRecording`, `stopRecording`, reports, servo | reports of what is gone; starts that fail half way | reference and telemetry tracks are live; trims settle |
| **PTP reference** `timing/udpptpclient`, `ptpservo`, `ptpreference` | round, window, offset, lock, epoch | `nextExchange`, `observe`, `disciplineLoop` | lost, late and spoilt rounds; another grandmaster | spikes do not move the time, a real change does |
| **Studio session** `uimanager` | playback worker, indicators, health, import preview | start, stop, edit, import, queued signals | deletes what others use; late replies | the worker lives on live providers; what is shown is of now |
| **Telemetry** `telemetry`, `playback/telemetrytimelinereader` | event buffer, file, pending events | `push`, record, `telemetryAtPlayhead` | cut events, delay, a growing file | the last event in effect is shown |
| **Control server** `websocket` | clients, hold owner, version | commands, patches, snapshots, timecodes | several clients and a surface on one transport | holds belong to their client; clients show what is |
| Timecode, replay playlist, audio player, settings, MIDI, Stream Deck, GPU pipeline, benchmark, QML | see `PROJECT.json` | | | |

**Interactions.** The heartbeat posts a `masterPulse` to every worker (a queued
event) and makes the blue writer fill the views without a source; both call
`Muxer::writePacket`, which blocks when the queue is full. `UIManager` owns the
sources and the slot map and pushes mapping changes to the workers one by one.
A seek is two calls, `transport->seek()` and then `PlaybackWorker::seekTo()`; a
recall is `armNextCut()`. The output thread pulls a snapshot from the worker by
callback, and that callback is also where a scheduled cut fires. The rundown's
monitor polls the transport and `cutsFired()` on a GUI timer.

## 2. Modules

```
RecordingFile            the abstract recording
   ^ implements
Muxer  <- MuxerProofs
CaptureWorker  SrtLink  RtmpSession  NdiSession
   `----------------+------------------> MCSessions  <- CaptureProofs
SourceClock  <- SrtTimeline  ---.
RtmpChunks  TsDemux  ---------- MCMedia  <-  RecordingTimeline
VideoDecoder  AacDecoder  VideoEncoder --'        ^-- TimelineProofs  <- MediaProofs
RecordingSession  PtpReference  StudioSession  Telemetry  ControlServer
        `---------------------> MCStudio  <-  SourceRouting    MCStudio <- StudioProofs
FrameWindow  <- Playback  <- PlaybackProofs
     ^--------  OutputClock  <- OutputProofs
OutputTarget  <---------------------'
Playout  <- MCPlayout,  <- PlayoutProofs
```

An action is one critical section, one access to a shared atomic, or the
accesses between two points where another thread can matter. Variables are
named after the members they stand for; the rest are history variables,
marked so, or belong to the outside (networks, servers, libraries, transforms),
marked external. Bounds on time, commands and counters are constants marked
BOUND.

**Muxer / RecordingFile.** Producers (`offer`, `call`, `lock`, `parking`,
`waiting`, `notify`), the writer (`lock` ... `header`, `frame`, `done`) and the
controller (`closed`, `open`, `stopping`, `joining`, `finishing`). `parking` is
the moment between a false wait predicate and the atomic release-and-sleep; it
keeps the mutex, and only what is done without the mutex (`m_writerRunning`)
gets in between. A failed write, flush or header is a free choice.
`RecordingFile` is what a reader of the file may rely on: a header first, a
packet stream whose ids and per-stream dts grow, a trailer after which nothing
changes. `CallerContract` says that `close()` comes only when the producers are
joined; the passing run does without it.

**CaptureWorker.** GUI (`changeSource`, `stop` store by store), worker event
loop (pulse, stall detection, launch, quit, join) and capture thread
(`captureLoop` between every two accesses to shared state, and the callbacks). A
frame is the URL it came from. The exit at `streamworker.cpp:526`, for a worker
without a clock, is left out: `ReplayManager` makes the clock before the workers.

**SourceRouting.** Sources get identities so that an index can be asked whether
it still means the same source. One action per GUI operation, each with the
whole chain it calls (`syncActiveStreams`, `rebuildSlotMap`,
`refreshProviders`, the re-start of the player). The list may be edited at any
time: the QML disables that during a recording, the control server does not.
`shifted` remembers at which places of the running engine a source was removed.
`setStreamUrls`, which nothing calls, is left to StudioSession, which has what it
does to the playback worker.

**SrtLink.** Two sessions, each on its capture thread, over one reference-counted
libsrt: the look-up thread that may be abandoned, each address in turn as caller,
rendezvous or listener, the receive loop, `closeSocket()` on each way out. A
wait returns when the network answers or at its next poll.

**SrtTimeline / SourceClock.** A sender with a small wrap sends PCR, picture and
sound stamped with its time, loses PCRs, restarts with or without a
discontinuity flag, and is re-opened; the receiver unwraps with three offsets,
anchors the clock, places frames that span packets and audio by sample count.
`skew` keeps the error of what was placed since the anchor moved.

**RtmpSession, RtmpChunks.** The session with whole messages: connect, handshake,
commands, receive loop, the verdict StreamWorker reads, window and
acknowledgements, the header a frame is decoded with, and a failed write of an
acknowledgement, a pong or a command. The chunk layer apart: a
chunk is a header unit, a time stamp unit and payload units, so that a chunk
read with the wrong length shows, with the limits of one message and of what is
unfinished on all chunk streams. The server may break the protocol. The bound on
unparsed bytes (`rtmpprotocol.cpp:502`) is left out: it is checked before parsing, so
that it would need the sizes of single reads. A connection ends with a parser error.

**NdiSession.** Two sessions with open, find again, capture, lend, free, close,
over libndi's rule that a receiver outlives what it lent.

**TsDemux.** A sender cuts packets of known and open length; the network loses
bursts and repeats; the parser's continuity, assembly, flush and bound.

**VideoDecoder, VideoEncoder, AacDecoder.** One call at a time into a transform
that is synchronous, or asynchronous with its own thread and event queue. Units
and frames are numbered; what is inside, queued and handed on is kept apart. A
transform may refuse an input, and then either still wants one (`asked`) or
counts its request as met although the caller kept no frame in it (`wasted`):
the platform leaves that open, and the code spends the request in both cases.
`uncalled` records a call the transform had not asked for. A `ProcessOutput`
or a copy that fails with another error is not modelled.

**RecordingSession.** `ReplayManager`: start with a failure at every step, stop,
queued connection, statistics and timecode reports, choice of the reference,
target and ramp of the trims, telemetry tracks.

**PtpReference.** Sync, Follow_Up, Delay_Req, Delay_Resp with loss and delay, the
servo's window and outlier guard, and the discipline thread store by store.

**StudioSession.** Who makes, deletes and starts the playback worker, the
indicators fed by queued signals, import requests and their late replies.

**Telemetry.** The byte buffer of the event parser, the HTTP client, recording
with a delay per feed, the file that grows, and the overlay at the playhead.

**ControlServer.** Clients, their commands with validation, the hold of the
speed, patches, snapshots and the coalesced timecode, beside a control surface
on the same transport.

**MCSessions, MCMedia, MCStudio.** Model-checking modules that put the parts of one
stage beside each other: a behaviour is about one part, chosen in `MCInit`, and
the others stand still. That is the product of parts that share no variable,
without its interleavings: in the code a session is reached only through its
worker's capture thread, a codec only by its caller, and what the main thread
keeps only between two events, so that an interleaving of two parts shows
nothing that neither shows alone. Where parts do share state they are one
module. All three name every variable and take the constants from `capture.cfg`,
`timeline.cfg` and `routing_safe.cfg`, so that their theorems hold for all values.

**RecordingTimeline.** Frame numbers from the clock, pulses as queued events,
who writes which frame with which samples. Three frames of ten units stand for
30 fps and 1000 ms: a frame is no whole number of units, so rounding shows.

**FrameWindow / Playback.** `FrameWindow` has the pure window functions of
`TrackBuffer`, `OutputFrameCache` and `CommitGate`. `Playback` has one pass of
the scheduler step by step (sample, seek, follow, backward jump, reposition with
its reuse fast path, fill, trim, re-arm, staging), the operator's commands and
the output thread's cut (abort; or swap, follow, re-base, disarm). The
recording is complete and all intra and plays forward at 1x, and the tracks of
the bank are read in step, so that one buffer stands for all.

**OutputClock.** `dispatchDueTicksNs` with every access of `makeOutputSnapshot`
apart (cache, generations, guard, position, bookmark) against the three stores
of a seek and the two ways a reposition commits. The decoder is reduced to
decode-ahead; speed is 1; armed cuts are left to Playout; the stop request tested
in the catch-up loop is left out. Time is in units of which
`Numerator`/`Denominator` frames make one, so that a frame is no whole number of
units, and the two conversions of the code stand apart: the loop rounds a
deadline up (`FrameIndexToNsCeil`), the miss report counts due frames by rounding
down (`DueFrameCount`). `long double` is taken as exact; where it has the 53 bits
of a double the two may differ within a nanosecond of a deadline.

**OutputTarget.** One external output from the operator's choice
(`setExternalOutputTargets`, dirty flag, rebuild with its join) over the
identity skip to the sink's queue, thread and error accounting. `fate` records
what became of each index.

**Playout.** `PlaylistPlayout`, the monitor tick, every GUI command that moves
the playhead, and the worker's one armed cut with its one queued re-arm, its
schedule and its firing (re-base, count, disarm). Time and positions are counted
in output frames; a tick moves clock and playhead together; staging is one step
and the pre-roll is available (Playback has both apart). `owner` says which
boundary of which rundown a cut belongs to.

## 3. Runs

All passing runs together fire every action and disjunct. Each property of a
passing run has a mutant of the code that violates it under the same cfg.

| Run | Shows | Bounds, and why they are enough |
|---|---|---|
| `muxer` | Two producers, the writer and a `close()` at any moment: `NoLossNoReorder`, `TrailerSealsEverything`, `EarlyTimecodeTagged`, refinement of `RecordingFile`, and `AcceptedIsSettled` | queue of 2, 3 packets, 2 errors to the latch: the queue fills, blocks and drains, the third packet waits behind a full queue |
| `capture` (MCSessions) | CaptureWorker: no URL change is lost, a live source is not muted, `m_activeSession` never dangles, the worker ends after `stop()`. `NothingLeaks`: SRT sockets and libsrt, NDI receivers and frames. `RtmpKeepsItsWord`: the verdict, the header of a frame, acknowledgements. `SessionsEnd` | two changes of URL (one may overtake the reconnect of the other), a working, a refused and the empty URL, a pulse posted behind another; two sessions, each opened twice, two addresses; four RTMP messages, two in flight, two windows, two codecs |
| `timeline` (MCMedia) | RecordingTimeline: every view gets every frame once, with sound that ends with the picture and never tears. `SoundMeetsPicture`: SRT stamps. `MediaComesOutWhole`: chunks, transport stream, decoders, encoder. `CodecCallsEnd` | 17 units (5 frames, more than the second after which the heartbeat skips), bursts of 2, one remap, which may meet pulses in flight; a start just below the wrap and one upset on either side; three messages on two chunk streams with one change of size or abort, one of them longer than a message may be, and less room than two unfinished ones take; losses of up to 2 of a counter of 4; four units or frames through a transform of depth 2, one change of format, two mishaps: both requests of a transform may be lost to refused inputs |
| `routing_safe` (MCStudio) | SourceRouting: the slot map is a maximal assignment; no track has two writers, none lacks one but for a source added since the start, and each records what its view shows until a removal shifts the list under it. `SessionTrustsTheLiving`: phase reference, telemetry tracks, PTP. `CamerasSettle`. `StudioIsConsistent`: playback worker, indicators, import, telemetry at the playhead. `ClientsKnow`: holds and mirrors | 4 identities, 3 views: more sources than views and fewer, with removal and re-adding; two cameras with two changes and two recordings; eight PTP rounds with a window of two, a spike and a change of grandmaster; two clients with two commands each; three telemetry events |
| `playback` | Seeks are served and show their frame, cuts never outrun a seek, land on a covered target and bring the decoder with them | two commands of any kind at any point, 5 frames, windows of one frame, spans of two: both edges of the window, the end of the recording, a cut behind a seek and the reverse |
| `output_target` | The newest frame survives overflow; gaps are blamed on the right cause; edits are applied; rebuilds end | queue of 2, drop history of 1, indexes up to 5, 2 edits: overflow twice, forgotten drops, an edit during a rebuild |
| `output_clock` | A deadline miss is reported exactly when frames are left behind; an epoch from a snapshot no seek or commit overtook follows the transport | 8 positions of which a seek leaves the window both ways; frames of one unit and a half, 5 units of wall time, which may run two ahead of the dispatcher; a catch-up of 2: the loop runs twice, and leaves frames behind; one command |
| `playout` | An armed boundary stays alive unless the operator jumps; only the rundown's own boundaries advance it; boundaries fire at their out-point; an undisturbed rundown ends | three entries, forward, backward and shorter than the arming lead, two speeds, three commands |
| `muxer_close_wedges` (violation) | `close()` may wait for ever | |
| `output_clock_stale_snapshot` (violation) | a snapshot overtaken by a commit undoes the epoch reset | |
| `playout_recall_late` (violation) | a recall leaves the boundary before it armed | |
| `playout_paused_cut` (violation) | a pause within the lead of a boundary lets it fire before its out-point | |

**Deadlock** is checked for CaptureWorker, SourceRouting and RecordingTimeline (a
finished model loops there); the other parts of the three MC modules stop when
their bounds are used up, and stutter. It is off in the Muxer, where the wedge of
`close()` is a known deadlock of the code with a run of its own and
`AcceptedIsSettled` checks that work gets done, and in the playback and output
models, which stop when their bounds on time and commands are used up.

**Fairness.** Every thread that can take a step takes one (weak fairness), as
the operating system's scheduler provides; starvation by a mutex is not modelled.
In detail:
Muxer: each producer, the writer, `close()`, and the grace timer (a wall clock).
CaptureWorker: the GUI calls return, the heartbeat fires, the worker and the
capture thread run, because `open()` has a time-out and `run()` polls
`shouldStop`; nothing forces a frame, a failure or a command.
Playback: the second half of a seek, the worker, the output thread.
SrtLink, RtmpSession: the session thread goes on at each poll (`Poll`, `Work`):
every wait in the code has a time-out of a fraction of a second; nothing forces
the network or the server.
VideoDecoder, VideoEncoder: the calling thread, and the transform, which the
platform's contract binds to ask for input and to finish what it was given.
RecordingSession: queued signals are delivered; a worker that is connected
reports again and again (strong fairness: it may disconnect in between).
OutputTarget: rebuild and sink thread, because a send of the NDI library returns.
Playout: GUI calls, the monitor timer, the output clock, the output thread, and
the worker only while playing: paused, it takes a step only for a seek.

**Not one mutant alone.** A property that joins several parts has one mutant in
`PROJECT.json`; other mutated operators stand in the modules beside the
definitions they change (`AbortForgets`, `GapMidPes`, `DrainEventDropsRequests`,
`ResolveOldest`, `StoreRequested`, `RequestStopCloses`, `Configured`,
`ProcessWindowLater`, `OutlierNever`, `SetTelemetryFeedsAnyTime`,
`ConnectionKeepsBaseline`, `SetImportKeepingPreview`, `OverlayByFile`,
`MoveSilently`), and each of these violates its property under the same cfg.

**Exemptions.** Some properties leave behaviours out by a history variable,
because the code does not do there what one would like (section 5):
`LatestTargetsApplied` (`overtaken`), `FiredCutIsCovered` (`raced`),
`ArmedBoundaryIsAliveUnlessJumped` and `RundownEnds` (`jumped`, `disturbed`,
`lost`), `CountsOwnBoundaries` (`straddled`), `FreshAnchorIsOnTheClock` (a
snapshot overtaken by a seek or commit), `UnspoiltFiresAtOutPoint` (`spoilt`),
`StudioIsConsistent` (`edited`, `again`), `SoundMeetsPicture` (streams that began
on either side of a wrap, sound the clamp has moved, `settled`),
`EveryTrackHasOneWriter` (`HasNoWorker`: a view given to a source that came after
the start has no writer), `ViewRecordsItsSource` (`shifted`, until the next change of
the URL or restart), `RtmpKeepsItsWord` (`unsent`: the last acknowledgement could
not be written, and what `open()` met, whose verdict may be overwritten),
`CodecCallsEnd` (`Starved`: every request of a transform was lost to a refused
input), `NewestSurvives` (`lastDelivered`: a sender rebuilt while the content does not
change has had no frame yet).

## 4. Theorems

The proofs hold for all values of the constants that satisfy the named
assumptions, the bounds included. The type invariants are proved and, but for
those a run needs, not run.

- **MuxerProofs.** `IInv` adds to the types a control invariant (where the
  controller is decides where the writer may be and what may be in its hand) and
  that `m_lastDts` bounds the dts in the file until `close()` resets it.
  `NoLossNoReorder` alone is not inductive: it needs that a packet in hand is the
  one before the head of the queue, and that a writer that is `done` leaves an
  empty queue. `NothingLost`, `TrailerIsLast`, `DtsMonotone`, `TypeCorrect`
  follow, and `Refinement`: every step maps to a step of `RecordingFile` or a
  stutter (`StepRefines`, one case per action). `EarlyTimecodeReachesFile`: when
  a frame with a timecode was queued before the header went out, the file is tagged.
- **CaptureProofs**, the worker. `IInv` says which places of the capture thread own
  a session and that it is launched at most once. `NoChangeIsLost` is the heart:
  `changeSource` stores the URL before it raises `m_restartCapture`, and the
  capture thread acknowledges before it reads. `NotMuted`, `StopIsSafe`.
- **CaptureProofs**, the sessions. *SRT:* `SocketsAccountedFor` for any number of
  sessions over one libsrt. `PlaceDecides` says what a session holds at each place
  of its capture thread, in particular that a handle about to be overwritten is
  none; `Books` that what the sessions hold is exactly what exists, without overlap;
  `Library` that the reference count is the number of users. `CloseSocketReleases`
  is the heart: six actions end in `closeSocket()`, and it takes nothing from
  another session. The assumptions are finitely many sessions and that the invalid
  handle is none. *NDI:* `ReceiverDiesQuietly` for any number of sessions and
  attempts: the place of the capture thread decides what libndi has given out.
  *RTMP:* `RtmpKeepsPromises`: what a verdict is based on, the header a frame is
  decoded with, and that bytes beyond a window are acknowledged unless that could not
  be written, from an invariant that ties each to the place of the capture thread and
  to the messages read.
- **CaptureProofs**, the composition. `NothingIsLeaked` and `RtmpWordIsKept` carry
  these to `MCSpec`: `SessionInvariance` says that the invariant of the chosen part
  is kept. The two theorems hold for every number of sessions, sockets, addresses,
  opens and messages.
- **TimelineProofs.** `IInv` of the recording timeline: every frame the clock has
  counted has a pulse or is skipped by all (`Posted`); a remap a worker has not yet
  heard of is in its queue (`Told`); no view has two writers for one frame (`Once`);
  where the sound of a view ends (`Trail`, `Silences`) and which samples a frame takes
  (`FrameTakes`). From it `EveryFrameExactlyOnce` and `SoundFollowsPicture`.
- **MediaProofs**, the way of a frame, each part by itself. *Chunks:* what the server
  has sent and the parser has not read is cut at chunk boundaries; at each of them the
  server was in a state of its own, and the parser that gets there is in the state
  that matches it (`Matches`); so an abort, a change of the chunk size or a broken
  message on its way is met where the server meant it, and the parser fails only where
  the server broke the protocol or exceeded one of the limits. *Encoder:* the frames from the
  packets that are out to the one submitted stand in line (`InLine`), each of those
  the transform holds has its ticks in the table (`EntriesKept`), and the entries that
  a refused frame leaves behind are few enough (`Roomy`), so that the cap drops none in use.
  *Transport stream:* continuity tells whether a packet follows, so an assembly is a
  run of packets of one PES that began with its start, and the bound cuts none.
  *Decoders:* what a transform was given is what is out, ready and inside, in that
  order, and what it asked for is known or announced, which the calls that take one
  and the events that come late both keep; the frame of sound held back over a change of
  layout comes after everything that is out. An instanced module's assumptions are not taken over,
  so those on the constants are hypotheses of the lemmas.
- **TimelineProofs**, the composition. The parts of MCMedia are those of MediaProofs
  (`ChunksAreMedia` and its like), and a step of one leaves the others alone
  (`MediaMoves`): `MediaIsWhole` states `MediaComesOutWhole` under `MCSpec`. Its
  assumptions (`MCAssumption`) are those of the parts; the code keeps room for more
  ticks in flight than its transforms hold frames and refuse (`MaxInFlight`).
  For the decoder and the encoder it says that what comes out is what went in, in order,
  refused inputs apart, and that no call is made that was not asked for: requests
  asked are those known, announced or wasted.
- **StudioProofs**, the routing. Lemmas on ranks in finite sets give that `Fill` hands
  the waiting sources to the free views one to one (`FillFits`), from which
  `MaximalAssignment`; `EngineInv` relates the slot map to workers and tracks of
  a running recording, with any edits of the source list during it: which worker
  stands at which place of the list, and where a removal has shifted it. From it
  `TracksAreWritten` and `TracksAreTrue`.
- **StudioProofs**, the other parts. *Telemetry:* `ShowsInv` ties the file, what
  waits to be written and what has been heard to one log in the order of its times; that
  a prefix of the log shows no more feeds than the log (`PrefixShowsLess`) makes the
  overlay at the playhead the last state that took effect there. *Indicators:* the
  signals of the capture threads under way to the main thread alternate per link
  (`Alternates`), no statistics of an old socket come after a newer one's
  (`StaysApart`), and the last signal of a link says how the link is (`LastWord`).
  These relate places of a queue, and `StudioShift` and `StudioAppended` say what taking
  the first and adding one does to them. *Control clients:* the last message under way to a client
  about the transport, or about each other part of the state, tells what is
  (`TransportKnown`, `PathKnown`), or else what the client already shows does; a grant
  that is held or under way is the holder's, and nothing the client has sent since
  gives it back (`Holds`). `PublishReports` is the heart: every call on the
  transport publishes what it changes, up to a position for which the timer is running.
  The assumption that no client is called as the empty holder is
  (`None \notin Clients`) is the code's: an id is a number, no holder the empty string.
- **StudioProofs**, session and PTP. *Recording session:* a source that is gone has
  its loss under way, behind all the statistics it has reported (`LossFollows`), which
  is why the loss of every connected source at a stop has to be queued (`AllLeave`);
  the reference is one that has reported, so once the queue is empty it is there.
  Assumed is a finite source list. *PTP:* the answers on the wire and those taken
  belong to one Sync (`Rounds`); the window ends in what the grandmaster says since it
  changed over, or it is full and has refused all of that so far, and then it is
  started again before the next delayed exchange (`Judged`); offset, epoch and lock
  follow the servo one step at a time (`Published`). `TimeJudged` and `SpikeJudged`
  are the heart. The mean over a window is a recursive sum, for which no induction is
  at hand: `SumExists` and `SumBounded` take the least index at which the claim fails,
  and `MeanBetween` gives that the mean lies between the smallest and the largest
  entry. Assumed are at least two exchanges to a lock (8 in the code) and that every
  time of the grandmaster lies ahead of the local clock.
- **StudioProofs**, the composition. `PartsStep`: a step of one part leaves the
  others' invariants alone. From it `ShownIsTrue` (`StudioIsConsistent`),
  `ClientsAreTold` (`ClientsKnow`) and `LivingAreTrusted` (`SessionTrustsTheLiving`)
  under `MCSpec`.
- **PlaybackProofs.** `CommitsServeLatestSeek`: with `GateInv` (an outstanding
  generation is either pending or in the reposition that serves it) the gate
  opens only for the latest seek, assuming no command comes while the recording
  is being opened. `CutsNeverOutrunSeeks`: the generations kept with the armed
  cut and with the queued re-arm are those at the recall. `LagAlwaysHoldsTail`:
  the skip-forward branch of the scheduler is dead code, for any tracks.
  `FiredCutsAreCovered` and `CommittedSeeksAreShown`: maxima and minima of finite
  sets of frames (a finite set of numbers has one, by well-foundedness of the subset
  order) give what a fill, a trim and a promotion leave in the windows; a cut overshoots by
  at most the span that was staged (`MaxOvershoot <= Span`, the code's
  `kStagingSpanMs` of 800 ms).
- **OutputProofs**, the target. `IInv` is the ledger of an external output: each frame is
  queued, sent, dropped in the history or forgotten, and no hole is without a
  reason (`NoHoles`). From it `NewestSurvives`, `GapsAreJudgedRightly` and
  `LatestTargetsApplied`.
- **OutputProofs**, the clock. That a deadline rounded up and a count rounded down agree
  on which frames are due (`TimeHasCome`), for every frame rate, makes the end of the
  catch-up loop and the miss it reports fit together: `MissesAreReported` says
  that as many frames are reported as lie between the next index and the clock, and
  that none was sent before its time. `ClockInv` adds which epochs are honest while a
  snapshot is being taken; from it `AnchorsAreFresh`.
- **PlayoutProofs.** At most one cut is armed and it is some rundown's (`OneCut`,
  `Owned`), what is between the arm and its schedule (`Starting`), which seeks are
  jumps (`SeekJumps`), and that the armed boundary of a live rundown is in the
  worker (`Alive`) at its out-point (`OnTime`). From it
  `ArmedBoundaryIsAliveUnlessJumped`, `CountsOwnBoundaries` and
  `UnspoiltFiresAtOutPoint`.

**What the proofs corrected.** Some properties had held only within the bounds of
their runs and are stated more exactly since: a worker behind by a backlog that
takes over a view whose frames blue had written (`SoundFollowsPicture`, false
before at one source, two views and 34 units); a cut that lands elsewhere while a reposition
is under way, a tick between the position read and the re-base, and staging left
by a lost race (`FiredCutIsCovered`, the history variables `cutCmd` and `strayed`
of Playback); a boundary fires at the output frame nearest to its out-point.

**Only model-checked.** All liveness properties (they rest on fairness).
`ReactiveJumpIsTheOperators` of Playback (the bank may have gaps after a backward
jump, so that what a fill leaves is not an interval). `SoundMeetsPicture` of
SrtTimeline: where the anchor, the three unwrap offsets and the sample counter
agree needs arithmetic modulo the wrap with products the provers do not do.

## 5. Where code and comments disagree

Four disagreements are violation runs (section 3, `findings` in `PROJECT.json`).
The models showed these as well:

- *Muxer.* The header may be written when the first packet has been popped, not
  before; the fatal threshold counts outcomes (writes, flushes, headers), not
  packets.
- *Capture.* The stall detector may compare the stamp of the previous session
  with a session that has just connected (`streamworker.cpp:146`). A URL no
  backend accepts ends `captureLoop()` for good; a valid URL set later is never
  tried (`streamworker.cpp:159`).
- *Routing.* Removing a source shifts the list under the slot map, so that
  other views change their picture (`uimanager.cpp:2736`). A client of the control
  server may edit the list during a recording (`uimanagercontroladapter.cpp:216`).
  A view then given to an added source has no writer: `addStream` makes no worker
  (`2716`), and the blue writer skips a view that is mapped
  (`replaymanager.cpp:768`), although `uimanager.cpp:2730` says that the engine gets
  the new mapping. After a removal the workers behind it record the source before
  them in the list until their URL is set again. The player may stay down.
- *Playback.* A seek issued while the recording is opened is forgotten
  (`playbackworker.cpp:2420`). A seek that arrives between the decision to cut
  and the swap does not stop the cut ("manual seek wins"). A recall while
  paused never fires. A trim with a playhead sampled before a backward cut
  (`2674`) cuts the promoted cache. A staging fill between a cut's swap and its
  disarming leaves a ghost schedule (`2751`). The follow of a cut is lost when
  `seekTo()` comes before its re-base. The skip-forward branch (`2534`) and its
  counter are dead, though `playbackworker.h:386` and an e2e script watch it.
- *External outputs.* An edit during a rebuild is lost (`playbackworker.cpp:542`).
  The identity skip compares with the last attempt, not with what the endpoint
  "already received" (`outputdispatcher.cpp:147`): after a refusal the endpoint
  keeps the older picture until the content changes, and the holes the skip
  leaves show as a delivery gap on the first new frame after a pause.
- *Output clock.* A tick between `transport->seek()` and `seekTo()` shows the
  newest cached frame and then holds an older bookmark; a pause and resume
  between two ticks leaves the epoch's offset in place.
- *Playout.* The output frame of a boundary is computed once: a pause, a change of
  speed or the first half of a seek moves the playhead off the schedule and not the
  schedule, so that the cut fires away from its out-point. A step, a jog or going live aborts the armed boundary through its
  seek generation; the one-shot arm is spent and the rundown stays "active" and
  dead (`uimanager.cpp:2264`, comment "stop rather than silently dead-end").
  Stopping or editing the rundown leaves its boundary armed. The cut counter's
  baseline is read after the seek of a new rundown (`2215`), so that a cut firing
  just then is miscounted, although the comment at 2203 claims that race is
  gone. A re-arm is dropped for an *older* pending seek
  (`playbackworker.cpp:2742`), and may overwrite a newer arm (`2732`). A boundary
  staged while there is no play epoch fires at once (`2036`), in a window the
  comment calls unreachable.
- *SRT.* After a 33-bit wrap a decoded frame falls back to the stamp of the unit
  that was submitted last. A stream that straddles the wrap when it starts keeps
  picture and sound one wrap apart. A lost audio PES whose frames span packets
  shifts the sound within the tolerance of 500 ms. A jump of the PCR spoils the
  rate samples until the clock is anchored again; a restart backward across a
  wrap makes time stamps negative.
- *RTMP.* `waitForCommandResult` has no time-out while the server chatters. A
  reconnect request during `open()` is dropped, and a permanent verdict reached
  while opening may be overwritten. After an Abort a type 3 chunk is taken as the
  rest of the message that was aborted.
- *Transport stream.* A loss of 15 or 16 packets of a stream (modulo 16) is invisible:
  the packet behind it looks like a repetition or like the next one.
- *Codecs.* A refused input loses the request it was given for
  (`nativevideodecoder_mediafoundation.cpp:1010`, `1067`). When all are lost the next
  decode waits in `GetEvent` for one that does not come (`1077`), and nobody resets the
  decoder, although
  `docs/superpowers/specs/2026-06-16-native-srt-windows-hardware-decode-design.md:187`
  says that unrecoverable errors should: the callers only log. The recorder never calls `flush()` of the encoder. A comment has the
  RTMP caller reset the AAC decoder per frame; nobody calls `reset()`.
- *PTP.* `nowSessionNs` goes back to 0 at the first lock and far below it on loss,
  although `ptpreference.cpp:94` says that it never goes negative. A Delay_Resp of
  a late round is accepted. Spikes in the first window widen the outlier guard.
- *Studio.* `uimanager.cpp:1901` says that a queued `connectionChanged` dies with the
  workers; Qt still delivers it. A remote `recording.start` while recording clears
  pending telemetry, makes a new playback worker and seeks to 0. `sources.add` and
  `sources.remove` while recording delete the playback worker without a restart
  (`2832`). A start that fails drops the telemetry timeline of the last recording.
- *Telemetry.* The event stream does not reconnect after the server closed it; an
  overflow throws complete events away with the rest of the buffer.
- *Control.* A `transport.holdSpeed` of a client and a hold of a device have an
  arbiter each, although `uimanager.cpp:699` ignores "overlapping hold from any
  device". A client that disconnects while it holds through `action.dispatch`
  leaves `m_holdAction` set.

## 6. Not modelled, and the plan

`PROJECT.json` lists every component with a reason. Out of reach or of little
interest to a model checker: codecs, compositing, parsers, platform APIs, QML.
Left out of modelled components: audio playback, GPU generations, growth of a
live file and other speeds in Playback, the cap of a track buffer.

Why some parts are left out: the access unit, SEI, AMF and JSON parsers, timecode
arithmetic and pixel code are pure functions over bytes that unit tests and
tables of values settle; settings, MIDI, Stream Deck and QML are glue on one
thread; the GPU pipeline is behind a build flag and its fences belong to the
platform.

The work ahead:

1. **Proofs**: the time stamps of SrtTimeline, and `ReactiveJumpIsTheOperators`.
2. **AudioFifo**: start sample and contents under jitter, gaps, overlaps, the cap.
3. **Sessions under the worker**: an abstract session that CaptureWorker uses and
   that SrtLink, RtmpSession and NdiSession implement.
4. **Playback at other speeds and on a growing file**, with the audio ring, and the
   fractional carry of the transport.
5. **Readers of the PTP session time**, editing of the replay playlist.
