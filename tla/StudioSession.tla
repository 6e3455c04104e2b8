---------------------------- MODULE StudioSession ----------------------------
(***************************************************************************)
(* UIManager (uimanager.cpp): the recording session as the operator runs   *)
(* it.  The playback worker decodes into frame providers through raw       *)
(* pointers, so each edit of the source list stops and deletes it before   *)
(* the providers are made anew.  The indicators of the sources follow      *)
(* signals that the capture threads queued, and the import preview follows *)
(* a reply of the network (project/projectimportclient.cpp).               *)
(***************************************************************************)
EXTENDS Integers, Sequences

CONSTANTS
  Urls,       \* import settings URLs that may be fetched
  MaxSources, \* BOUND: length of the source list
  MaxLinks,   \* BOUND: sockets a source opens in a recording
  MaxPosted,  \* BOUND: signals under way
  MaxEdits    \* BOUND: edits of the sources and starts

StudioAssumption ==
  MaxSources \in Nat \ {0} /\ MaxLinks \in Nat /\ MaxPosted \in Nat /\ MaxEdits \in Nat

None == "none"
NoWorker == [running |-> FALSE, current |-> TRUE]

VARIABLES
  recording, \* m_replayManager->isRecording()
  sources,   \* the length of m_currentSettings.sources
  worker,    \* m_playbackWorker: it runs, and its providers are alive
  live,      \* m_followLive and m_transport->isPlaying()
  links,     \* of each capture worker of the engine: connected, and its latest socket
  posted,    \* queued connectionChanged and statsUpdated
  connected, \* m_sourceConnected
  stats,     \* m_sourceStats: seen, last and the two snapshots behind the health shown
  edited,    \* history: sources were added or removed since the playback worker was started
  again,     \* history: a start was asked for while recording
  url,       \* m_currentSettings.importSettingsUrl
  reply,     \* the URL of m_reply
  pending,   \* the URL m_pendingImport came from, None without m_hasPendingImport
  edits      \* counter of the bound

importVars == <<url, reply, pending>>
linkVars == <<links, posted>>
shownVars == <<connected, stats>>
vars == <<recording, sources, worker, live, linkVars, shownVars, edited, again, importVars, edits>>

NoEntry == [seen |-> FALSE, last |-> 0, judged |-> <<0, 0>>]
Down(n) == [i \in 1 .. n |-> [up |-> FALSE, socket |-> 0]]

Init ==
  /\ recording = FALSE /\ sources = 1 /\ worker = NoWorker /\ live = FALSE
  /\ links = <<>> /\ posted = <<>> /\ connected = <<>> /\ stats = <<>>
  /\ edited = FALSE /\ again = FALSE
  /\ url \in Urls /\ reply = None /\ pending = None /\ edits = 0

Edit == edits < MaxEdits /\ edits' = edits + 1

-----------------------------------------------------------------------------
(* The playback worker.                                                     *)

(* Mutant: the providers are replaced under a worker that goes on.          *)
RefreshKeepingWorker == worker' = [worker EXCEPT !.current = FALSE]

(* refreshProviders(): the worker is stopped and deleted first.             *)
RefreshProviders == worker' = NoWorker

(* restartPlaybackWorker(), after a refresh or over a worker that runs.     *)
RestartPlaybackWorker ==
  /\ worker' = [running |-> TRUE, current |-> TRUE]
  /\ live' = TRUE /\ edited' = FALSE

(* startRecording() of UIManager: refused without an encoder for the codec  *)
(* or when the engine does not start.  The engine ignores a start while it  *)
(* records, and all that follows is done all the same.                      *)
StartRecording ==
  /\ Edit /\ posted = <<>>  \* the queued signals are taken before the click
  /\ recording' = TRUE
  /\ links' = IF recording THEN links ELSE Down(sources)
  /\ again' = recording
  /\ connected' = [i \in 1 .. sources |-> FALSE]
  /\ stats' = [i \in 1 .. sources |-> NoEntry]
  /\ RestartPlaybackWorker
  /\ UNCHANGED <<sources, posted, importVars>>

(* stopRecording(): the engine joins the workers, whose signals stay queued; *)
(* the playback worker stops but is kept.                                   *)
StopRecording ==
  /\ recording
  /\ recording' = FALSE /\ links' = <<>>
  /\ live' = FALSE /\ worker' = [worker EXCEPT !.running = FALSE]
  /\ connected' = [i \in DOMAIN connected |-> FALSE]
  /\ stats' = IF connected = <<>> THEN stats ELSE [i \in DOMAIN connected |-> NoEntry]
  /\ UNCHANGED <<sources, posted, edited, again, importVars, edits>>

-----------------------------------------------------------------------------
(* The source list.                                                         *)

(* setStreamUrls(), openStreams(): syncActiveStreams() refreshes the        *)
(* providers, and a worker is started again while recording.                *)
SetStreamUrls ==
  /\ Edit /\ \E n \in 1 .. MaxSources : sources' = n
  /\ IF recording THEN RestartPlaybackWorker ELSE RefreshProviders /\ UNCHANGED <<live, edited>>
  /\ UNCHANGED <<recording, linkVars, shownVars, again, importVars>>

(* addStream(), removeStream(): the worker is not started again.            *)
AddOrRemoveStream ==
  /\ Edit /\ \E n \in {sources - 1, sources + 1} \cap 0 .. MaxSources : sources' = n
  /\ RefreshProviders /\ edited' = (edited \/ recording)
  /\ UNCHANGED <<recording, live, linkVars, shownVars, again, importVars>>

(* setMultiviewCount(): refused while recording.  toggleSourceEnabled()     *)
(* leaves the providers alone while recording.                              *)
SetMultiviewCount ==
  /\ ~recording /\ Edit /\ RefreshProviders
  /\ UNCHANGED <<recording, sources, live, linkVars, shownVars, edited, again, importVars>>

-----------------------------------------------------------------------------
(* The capture threads.  setConnected() signals a transition only; the      *)
(* counters of the statistics start anew with each socket.                  *)

Post(event) == Len(posted) < MaxPosted /\ posted' = Append(posted, event)
Link(i, up) ==
  /\ links[i].up # up /\ (up => links[i].socket < MaxLinks)
  /\ links' = [links EXCEPT ![i] = [up |-> up, socket |-> @.socket + IF up THEN 1 ELSE 0]]
  /\ Post([kind |-> "connection", source |-> i, up |-> up])
  /\ UNCHANGED <<recording, sources, worker, live, shownVars, edited, again, importVars, edits>>
ReportStats(i) ==
  /\ links[i].up /\ Post([kind |-> "stats", source |-> i, socket |-> links[i].socket])
  /\ UNCHANGED <<recording, sources, worker, live, links, shownVars, edited, again, importVars, edits>>

Grown(list, n, default) == IF n <= Len(list) THEN list ELSE list \o [i \in 1 .. n - Len(list) |-> default]

(* Mutant: the baseline of the previous socket is kept.                     *)
ConnectionKeepsBaseline(event) ==
  LET shown == Grown(connected, event.source, FALSE)
  IN /\ connected' = [shown EXCEPT ![event.source] = event.up]
     /\ stats' = stats

(* onSourceConnectionChanged(): a connection that is news drops the         *)
(* baseline of the statistics.                                              *)
OnConnectionChanged(event) ==
  LET shown == Grown(connected, event.source, FALSE)
      i == event.source
  IN /\ connected' = [shown EXCEPT ![i] = event.up]
     /\ stats' = IF event.up /\ ~shown[i] /\ i <= Len(stats)
                 THEN [stats EXCEPT ![i].seen = FALSE, ![i].judged = <<0, 0>>] ELSE stats

(* onSourceStatsUpdated(): the first snapshot is the baseline, each later   *)
(* one is judged by what it adds to the one before.                         *)
OnStatsUpdated(event) ==
  LET known == Grown(stats, event.source, NoEntry)
      last == known[event.source]
  IN /\ stats' = [known EXCEPT ![event.source] =
                    [seen |-> TRUE, last |-> event.socket,
                     judged |-> IF last.seen THEN <<last.last, event.socket>> ELSE <<0, 0>>]]
     /\ connected' = connected

Deliver ==
  /\ posted # <<>> /\ posted' = Tail(posted)
  /\ IF Head(posted).kind = "stats" THEN OnStatsUpdated(Head(posted)) ELSE OnConnectionChanged(Head(posted))
  /\ UNCHANGED <<recording, sources, worker, live, links, edited, again, importVars, edits>>

-----------------------------------------------------------------------------
(* The settings import.                                                     *)
rest == <<recording, sources, worker, live, linkVars, shownVars, edited, again, edits>>

(* setImportSettingsUrl(): the request is cancelled, the preview dropped.   *)
SetImportKeepingPreview(u) == u # url /\ url' = u /\ reply' = None /\ UNCHANGED <<pending, rest>>
SetImportSettingsUrl(u) == u # url /\ url' = u /\ reply' = None /\ pending' = None /\ UNCHANGED rest

(* readImportSettings(): fetch() drops the request before it.               *)
ReadImportSettings == pending' = None /\ reply' = url /\ UNCHANGED <<url, rest>>

(* ProjectImportClient::onFinished() and its two handlers: a reply for      *)
(* another URL is ignored, a failure or a bad document clears the preview.  *)
Finished ==
  /\ reply # None /\ reply' = None
  /\ pending' \in {None, IF reply = url THEN reply ELSE pending}
  /\ UNCHANGED <<url, rest>>

(* applyImportPreview(): not while recording.                               *)
ApplyImportPreview ==
  /\ pending # None /\ ~recording /\ Edit
  /\ url' = pending /\ pending' = None
  /\ \E n \in 1 .. MaxSources :
       /\ sources' = n
       /\ connected' = [i \in 1 .. n |-> FALSE] /\ stats' = [i \in 1 .. n |-> NoEntry]
  /\ RefreshProviders
  /\ UNCHANGED <<recording, live, linkVars, edited, again, reply>>

-----------------------------------------------------------------------------
Next ==
  \/ StartRecording \/ StopRecording
  \/ SetStreamUrls \/ AddOrRemoveStream \/ SetMultiviewCount
  \/ \E i \in DOMAIN links : Link(i, TRUE) \/ Link(i, FALSE) \/ ReportStats(i)
  \/ Deliver
  \/ \E u \in Urls : SetImportSettingsUrl(u)
  \/ ReadImportSettings \/ Finished \/ ApplyImportPreview

Spec == Init /\ [][Next]_vars

(* No worker decodes into providers that are gone, and while recording      *)
(* playback runs, except after an edit that adds or removes a source.       *)
PlaybackIsSafe ==
  /\ worker.running => worker.current
  /\ (recording /\ ~edited) => worker.running

(* Once the signals have been taken, the indicators of a recording show the *)
(* links; a second start loses what was shown before it.                    *)
IndicatorsSettle ==
  (recording /\ posted = <<>> /\ ~again) =>
    \A i \in DOMAIN links : i \in DOMAIN connected /\ connected[i] = links[i].up

(* The health of a link compares snapshots of one socket: the counters of   *)
(* two would make losses out of a reconnection.                             *)
HealthIsOfOneSocket == \A i \in DOMAIN stats : stats[i].judged[1] = stats[i].judged[2]

(* What may be applied came from the URL that is shown.                     *)
PreviewIsOfUrl == pending \in {None, url}
==============================================================================
