--------------------------- MODULE SourceRouting ---------------------------
(***************************************************************************)
(* Which source is recorded into which view track: UIManager's list of     *)
(* sources and its slot map (uimanager.cpp), and the one StreamWorker per  *)
(* source that ReplayManager starts with a recording (replaymanager.cpp).  *)
(*                                                                         *)
(* Both sides name a source by its INDEX in a list.  UIManager's list can  *)
(* change at any time: the QML list hides its buttons while a recording    *)
(* runs, but addStream() and removeStream() do not ask, and the control    *)
(* server calls them too.  The list of workers is frozen while a recording *)
(* runs.  A source keeps an identity here (a number that is never used     *)
(* again) so that the properties can ask whether an index still means the  *)
(* same source.                                                            *)
(*                                                                         *)
(* Indices start at 1 and 0 stands for the code's -1.                      *)
(***************************************************************************)
EXTENDS Naturals, Sequences, FiniteSets, SequencesExt

CONSTANTS
    MaxSources,     \* bound: sources ever created
    MaxViews        \* the code's limit of 16 views

ASSUME RoutingAssumption == MaxSources \in Nat /\ MaxViews \in Nat \ {0}

VARIABLES
    sources,    \* m_currentSettings.sources: the identities, in list order
    enabled,    \* m_sourceEnabled, index by index
    slots,      \* m_viewSlotMap: view -> index of its source, 0 = blue
    recording,  \* ReplayManager::m_isRecording
    workers,    \* m_workers: identity of the source whose URL each one captures
    tracks,     \* StreamWorker::m_viewTrack, 0 = writes nothing
    layout,     \* video tracks in the file header, frozen by Muxer::init
    player,     \* is a PlaybackWorker thread running?
    created,    \* identities handed out so far
    shifted     \* history: indices of workers at or behind which a source was
                \* removed since they were last told what to capture

ui   == <<sources, enabled, slots, created>>
vars == <<sources, enabled, slots, recording, workers, tracks, layout, player, created, shifted>>

Views == DOMAIN slots

(* The source (its identity) a view shows, 0 when it is blue. *)
Shown(v) == IF slots[v] = 0 THEN 0 ELSE sources[slots[v]]

-----------------------------------------------------------------------------
(* The slot map.                                                            *)

FreeViews(map) == {v \in DOMAIN map : map[v] = 0}
Waiting(map, on) == {s \in DOMAIN on : on[s] /\ \A v \in DOMAIN map : map[v] # s}
RankIn(S, x) == Cardinality({y \in S : y < x})

(* The free views take the waiting sources, both in ascending order. *)
Fill(map, on) ==
    [v \in DOMAIN map |->
        LET next == {s \in Waiting(map, on) :
                       RankIn(Waiting(map, on), s) = RankIn(FreeViews(map), v)}
        IN  IF map[v] # 0 \/ next = {} THEN map[v] ELSE CHOOSE s \in next : TRUE]

(* Step 1 of rebuildSlotMap: an enabled source that has a slot keeps it.   *)
Kept(map, n, on) ==
    [v \in 1..n |-> IF v \in DOMAIN map /\ map[v] \in DOMAIN on /\ on[map[v]]
                    THEN map[v] ELSE 0]

RebuildSlotMap(map, n, on) == Fill(Kept(map, n, on), on)

(* toggleSourceEnabled: only the first free view (a loop without its break *)
(* would take them all), or a refill after the source's slot was cleared.  *)
PlaceEverywhere(map, s) == [v \in DOMAIN map |-> IF map[v] = 0 THEN s ELSE map[v]]
PlaceFirstFree(map, s) ==
    [v \in DOMAIN map |-> IF map[v] = 0 /\ \A u \in FreeViews(map) : v <= u
                          THEN s ELSE map[v]]
ClearSlot(map, s) == [v \in DOMAIN map |-> IF map[v] = s THEN 0 ELSE map[v]]

-----------------------------------------------------------------------------
(* ReplayManager::updateViewMapping: the inverse map, worker by worker.     *)
TrackOf(map, w) ==
    LET mine == {v \in DOMAIN map : map[v] = w}
    IN  IF mine = {} THEN 0 ELSE CHOOSE v \in mine : \A u \in mine : u <= v

UpdateViewMapping(map) == tracks' = [w \in DOMAIN workers |-> TrackOf(map, w)]

(* syncActiveStreams: rebuild, hand the map to the engine, and            *)
(* refreshProviders, which stops and deletes the playback worker.           *)
SyncActiveStreams(on, n) ==
    /\ slots' = RebuildSlotMap(slots, n, on)
    /\ UpdateViewMapping(slots')
    /\ player' = FALSE

-----------------------------------------------------------------------------
Init ==
    /\ sources = <<>> /\ enabled = <<>> /\ created = 0
    /\ \E n \in 1..MaxViews : slots = [v \in 1..n |-> 0]
    /\ recording = FALSE /\ workers = <<>> /\ tracks = <<>> /\ layout = 0
    /\ player = FALSE /\ shifted = {}

AddStream ==
    /\ created < MaxSources
    /\ created' = created + 1
    /\ sources' = Append(sources, created + 1)
    /\ enabled' = Append(enabled, TRUE)
    /\ SyncActiveStreams(enabled', Len(slots))
    /\ UNCHANGED <<recording, workers, layout, shifted>>

(* The sources behind the removed one move up, their workers do not.        *)
RemoveStream(i) ==
    /\ i \in DOMAIN sources
    /\ sources' = RemoveAt(sources, i)
    /\ enabled' = RemoveAt(enabled, i)
    /\ SyncActiveStreams(enabled', Len(slots))
    /\ shifted' = shifted \cup {w \in DOMAIN workers : w >= i}
    /\ UNCHANGED <<recording, workers, layout, created>>

(* refreshProviders runs only in the branch that is not recording. *)
PlayerAfterToggle == player /\ recording
ToggleSourceEnabled(i) ==
    /\ i \in DOMAIN enabled
    /\ enabled' = [enabled EXCEPT ![i] = ~ @]
    /\ slots' = IF enabled[i] THEN Fill(ClearSlot(slots, i), enabled')
                              ELSE PlaceFirstFree(slots, i)
    /\ UpdateViewMapping(slots')
    /\ player' = PlayerAfterToggle
    /\ UNCHANGED <<sources, recording, workers, layout, created, shifted>>

MayResizeAlways == TRUE
MayResize == ~recording
SetMultiviewCount(n) ==
    /\ MayResize
    /\ n # Len(slots)
    /\ SyncActiveStreams(enabled, n)
    /\ UNCHANGED <<sources, enabled, recording, workers, layout, created, shifted>>

(* applyImportPreview: another list altogether, everything enabled. *)
ApplyImportPreview(k) ==
    /\ ~recording
    /\ created + k <= MaxSources
    /\ created' = created + k
    /\ sources' = [i \in 1..k |-> created + i]
    /\ enabled' = [i \in 1..k |-> TRUE]
    /\ SyncActiveStreams(enabled', Len(slots))
    /\ UNCHANGED <<recording, workers, layout, shifted>>

(* updateSourceUrl: the worker at that index captures what that index says. *)
(* Mutant: only a source that is on screen tells its worker.                *)
UpdateSourceUrlShown(i) ==
    workers' = IF recording /\ i \in DOMAIN workers /\ tracks[i] # 0
               THEN [workers EXCEPT ![i] = sources[i]] ELSE workers
UpdateSourceUrl(i) ==
    workers' = IF recording /\ i \in DOMAIN workers
               THEN [workers EXCEPT ![i] = sources[i]] ELSE workers

UpdateUrl(i) ==
    /\ i \in DOMAIN sources
    /\ UpdateSourceUrl(i)
    /\ shifted' = shifted \ {i}
    /\ UNCHANGED <<ui, recording, tracks, layout, player>>

StartRecording ==
    /\ ~recording
    /\ sources # <<>>
    /\ recording' = TRUE
    /\ workers' = sources
    /\ tracks' = [w \in DOMAIN sources |-> TrackOf(slots, w)]
    /\ layout' = Len(slots)
    /\ player' = TRUE /\ shifted' = {}
    /\ UNCHANGED ui

StopRecording ==
    /\ recording
    /\ recording' = FALSE
    /\ workers' = <<>> /\ tracks' = <<>> /\ layout' = 0
    /\ player' = FALSE /\ shifted' = {}
    /\ UNCHANGED ui

Next ==
    \/ AddStream
    \/ \E i \in DOMAIN sources :
          RemoveStream(i) \/ ToggleSourceEnabled(i) \/ UpdateUrl(i)
    \/ \E n \in 1..MaxViews : SetMultiviewCount(n)
    \/ \E k \in 0..2 : ApplyImportPreview(k)
    \/ StartRecording
    \/ StopRecording

Spec == Init /\ [][Next]_vars

-----------------------------------------------------------------------------
(* The slot map, the list and the mapping fit each other.                   *)
TypeOK ==
    /\ created \in 0..MaxSources
    /\ sources \in Seq(1..MaxSources)
    /\ enabled \in Seq(BOOLEAN)
    /\ Len(enabled) = Len(sources)
    /\ Len(slots) \in 1..MaxViews
    /\ slots \in [1..Len(slots) -> 0..Len(sources)]
    /\ recording \in BOOLEAN /\ player \in BOOLEAN
    /\ workers \in Seq(1..MaxSources)
    /\ layout \in 0..MaxViews
    /\ Len(tracks) = Len(workers)
    /\ shifted \subseteq DOMAIN workers

(* A view never shows a disabled source and no source takes two views.     *)
OneViewPerSource ==
    \A u, v \in Views : slots[u] # 0 => /\ enabled[slots[u]]
                                        /\ (slots[u] = slots[v] => u = v)

(* No enabled source waits while a view is blue.                           *)
NoSourceWaitsForAFreeView == FreeViews(slots) = {} \/ Waiting(slots, enabled) = {}

(* Exactly the enabled sources take part, in an assignment nothing can be  *)
(* added to (rebuildSlotMap and both halves of toggleSourceEnabled).       *)
SlotMapIsMaximal == OneViewPerSource /\ NoSourceWaitsForAFreeView

(* Who writes the video track of a view: the workers mapped to it, and the *)
(* blue writer when no source is (writeBlueFrames skips a view that has a  *)
(* source, expecting a worker).                                            *)
WritersOf(v) ==
    {w \in DOMAIN tracks : tracks[w] = v}
      \cup (IF v \in Views /\ slots[v] = 0 THEN {0} ELSE {})

(* A source that was added to a running recording has no worker.           *)
HasNoWorker(v) == v \in Views /\ slots[v] > Len(workers)

(* While a recording runs, through every edit of the list, no video track  *)
(* of the file ever has two writers, and it has one unless its view shows  *)
(* a source that came after the start (addStream, removeStream, toggling,  *)
(* against updateViewMapping and writeBlueFrames).                         *)
EveryTrackHasOneWriter ==
    recording => \A v \in 1..layout :
        Cardinality(WritersOf(v)) = IF HasNoWorker(v) THEN 0 ELSE 1

(* While a recording runs, what a view is labelled with is what is         *)
(* recorded into it: the worker that writes the track captures the source  *)
(* the slot map shows there.  A removal spoils that for the workers at and *)
(* behind the removed index, and only for them, until each one's URL is    *)
(* set (removeStream, updateUrl).                                          *)
ViewRecordsItsSource ==
    recording => \A v \in Views : (slots[v] \in DOMAIN workers \ shifted) =>
        \E w \in DOMAIN tracks : tracks[w] = v /\ workers[w] = Shown(v)
=============================================================================
