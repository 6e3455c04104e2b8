---------------------------- MODULE ControlServer ----------------------------
(***************************************************************************)
(* The WebSocket control API (websocket/): clients send commands, which    *)
(* ControlProtocol validates and UIManagerControlAdapter executes on the   *)
(* main thread, and show the state the server pushes to them.  main.cpp    *)
(* connects every change of the application's state to a publication.      *)
(* Beside the clients a control surface (MIDI, Stream Deck) works the same *)
(* transport, and the transport's own timer moves it.                      *)
(***************************************************************************)
EXTENDS Integers, Sequences

CONSTANTS
  Clients,     \* controlClientId of the sockets
  MaxSent,     \* BOUND: commands sent in all
  MaxSurface,  \* BOUND: actions of the control surface
  MaxPos,      \* BOUND: position of the transport
  MaxVersion,  \* BOUND: changes of each other part of the state
  MaxInbox     \* BOUND: messages under way to a client

None == "none"

\* a controlClientId is a number, no client an empty string
ControlAssumption ==
  /\ MaxSent \in Nat /\ MaxSurface \in Nat /\ MaxPos \in Nat /\ MaxInbox \in Nat \ {0}
  /\ None \notin Clients
Paths == {"recording", "settings", "rest"}  \* "rest" is published by a full snapshot only

VARIABLES
  transport,  \* [playing, speed, live, pos] of PlaybackTransport and m_followLive
  others,     \* what the other parts of the state show: a version of each
  timer,      \* m_timecodeTimer is active
  sockets,    \* m_sockets
  inbox,      \* messages under way to each client
  outbox,     \* commands under way from each client
  mirror,     \* what each client shows
  believes,   \* the last hold a client asked for, 0 if it has let go, and whether it was granted
  holder,     \* m_holdSpeedClientId
  resume,     \* m_holdSpeedWasPlaying
  surface,    \* m_holdAction, m_holdWasPlaying of the control surface
  sent, acted \* counters of the bounds

clientVars == <<inbox, outbox, mirror, believes>>
vars == <<transport, others, timer, sockets, clientVars, holder, resume, surface, sent, acted>>

NoHold == [id |-> 0, granted |-> FALSE]
Stopped == [playing |-> FALSE, speed |-> 1, live |-> FALSE, pos |-> 0]
Fresh == [p \in Paths |-> 0]

Init ==
  /\ transport = Stopped /\ others = Fresh /\ timer = FALSE /\ sockets = {}
  /\ inbox = [c \in Clients |-> <<>>] /\ outbox = [c \in Clients |-> <<>>]
  /\ mirror = [c \in Clients |-> [transport |-> Stopped, others |-> Fresh]]
  /\ believes = [c \in Clients |-> NoHold]
  /\ holder = None /\ resume = FALSE /\ surface = [held |-> FALSE, resume |-> FALSE]
  /\ sent = 0 /\ acted = 0

-----------------------------------------------------------------------------
(* ControlProtocol::validateCommand(): the arguments each command needs and *)
(* their types; the others take none.                                       *)
Index == [index |-> "int"]
Required ==
  [seek |-> [positionMs |-> "int"], setSpeed |-> [speed |-> "number"],
   holdSpeed |-> [active |-> "bool"], stepFrame |-> [frames |-> "int"],
   setPlaybackViewState |-> [singleView |-> "bool", selectedIndex |-> "int"],
   selectFeed |-> Index, toggleSourceEnabled |-> Index, remove |-> Index, setPortIndex |-> Index,
   snapshot |-> [singleView |-> "bool", selectedIndex |-> "int", playheadMs |-> "int"],
   updateUrl |-> [index |-> "int", url |-> "string"], updateName |-> [index |-> "int", name |-> "string"],
   updateId |-> [index |-> "int", id |-> "string"], setTrimOffset |-> [index |-> "int", ms |-> "int"],
   setMetadata |-> [index |-> "int", items |-> "array"], setAudioOutputLatency |-> [ms |-> "int"],
   setTimeOfDayMode |-> [enabled |-> "bool"], setMetadataFields |-> [fields |-> "array"],
   setUrl |-> [url |-> "string"], beginLearn |-> [action |-> "int"], clearBinding |-> [action |-> "int"],
   dispatch |-> [actionId |-> "int"], jog |-> [delta |-> "int"], shuttle |-> [delta |-> "int"]]
Optional ==
  [setSpeed |-> [playing |-> "bool"], holdSpeed |-> [speed |-> "number"], dispatch |-> [pressed |-> "bool"],
   setProject |-> [fileName |-> "string", saveLocation |-> "string"],
   setRecordingFormat |-> [width |-> "int", height |-> "int", fps |-> "int"]]
Plain == {"playPause", "play", "pause", "goLive", "cancelFollowLive", "start", "stop", "toggle",
          "showMultiview", "current", "add", "save", "read", "applyPreview", "refreshPorts", "resetDefaults"}

Fits(type, wanted) == type = wanted \/ (type = "int" /\ wanted = "number")
Has(args, wanted) == \A k \in DOMAIN wanted : k \in DOMAIN args /\ Fits(args[k], wanted[k])
HasNone(args, wanted) == \A k \in DOMAIN wanted \cap DOMAIN args : Fits(args[k], wanted[k])

Valid(command) ==
  /\ command.name \in Plain \cup DOMAIN Required \cup DOMAIN Optional
  /\ command.name \in DOMAIN Required => Has(command.args, Required[command.name])
  /\ command.name \in DOMAIN Optional => HasNone(command.args, Optional[command.name])
  /\ (command.name = "holdSpeed" /\ command.on) => "speed" \in DOMAIN command.args

(* A well-formed command of every kind of effect, and malformed ones.       *)
Command(name, args, on) == [name |-> name, args |-> args, on |-> on]
NoArgs == <<>>
Numbered(c, n) == [name |-> c.name, args |-> c.args, on |-> c.on, id |-> n]
Commands ==
  {Command("playPause", NoArgs, TRUE), Command("goLive", NoArgs, TRUE), Command("toggle", NoArgs, TRUE),
   Command("add", NoArgs, TRUE), Command("setProject", [fileName |-> "string"], TRUE),
   Command("seek", [positionMs |-> "int"], TRUE),
   Command("holdSpeed", [active |-> "bool", speed |-> "number"], TRUE),
   Command("holdSpeed", [active |-> "bool"], TRUE),
   Command("holdSpeed", [active |-> "bool"], FALSE),
   Command("dispatch", [actionId |-> "int", pressed |-> "bool"], TRUE),
   Command("dispatch", [actionId |-> "int", pressed |-> "bool"], FALSE)}

-----------------------------------------------------------------------------
(* Publication.  A change of the transport is a patch and at once a         *)
(* timecode message, which stops the timer (publishTransport); a new        *)
(* position only starts the timer (scheduleTimecode).                       *)
State(t, o) == [transport |-> t, others |-> o]
TransportMessage(t) == [kind |-> "transport", value |-> t]
PathMessage(p, o) == [kind |-> p, value |-> o[p]]
SnapshotMessage(t, o) == [kind |-> "snapshot", value |-> State(t, o)]

Published(p, t, o) == IF p = "rest" THEN SnapshotMessage(t, o) ELSE PathMessage(p, o)

(* Mutant: a new position is not announced.                                 *)
MoveSilently(run, pos) == [run EXCEPT !.t.pos = pos]

Move(run, pos) == [run EXCEPT !.t.pos = pos, !.timer = TRUE]

(* setPlaying(), setSpeed(), setFollowLive() emit on a change only.         *)
Set(run, field, value) ==
  IF run.t[field] = value THEN run
  ELSE LET t == [run.t EXCEPT ![field] = value]
       IN [t |-> t, timer |-> FALSE, out |-> Append(run.out, TransportMessage(t))]

Run == [t |-> transport, timer |-> timer, out |-> <<>>]
Playing(run, on) == Set(run, "playing", on)
Speed(run, s) == Set(run, "speed", s)
Live(run, on) == Set(run, "live", on)

(* playPause(), goLive(), seekPlayback(), startRecording(), stopRecording() *)
PlayPause(run) ==
  LET off == Live(run, FALSE)
  IN Playing(IF ~off.t.playing /\ off.t.speed = 0 THEN Speed(off, 1) ELSE off, ~off.t.playing)
GoLive(run) == Move(Live(Playing(Speed(run, 1), TRUE), TRUE), MaxPos)
Seek(run) == Move(Live(run, FALSE), 0)
ToggleRecording(run) ==
  IF others["recording"] % 2 = 0 THEN Playing(Move(Live(run, TRUE), 0), TRUE)
                                 ELSE Live(Playing(run, FALSE), FALSE)

(* dispatchControlAction(1): press and release of the rewind key.           *)
Press(run) == Playing(Speed(Live(run, FALSE), -5), TRUE)
Release(run) == Playing(Speed(run, 1), surface.resume)

-----------------------------------------------------------------------------
(* broadcastJson(), sendJson()                                              *)
Send(box, to, messages) ==
  [c \in Clients |-> IF c \in to /\ c \in sockets THEN box[c] \o messages ELSE box[c]]

Room == \A c \in sockets : Len(inbox[c]) < MaxInbox

(* What a command does to the transport, and which part of the state else,  *)
(* if any.                                                                  *)
Effect(command) ==
  CASE command.name = "playPause" -> PlayPause(Run)
    [] command.name = "goLive" -> GoLive(Run)
    [] command.name = "seek" -> Seek(Run)
    [] command.name = "toggle" -> ToggleRecording(Run)
    [] command.name = "dispatch" /\ command.on /\ ~surface.held -> Press(Run)
    [] command.name = "dispatch" /\ ~command.on /\ surface.held -> Release(Run)
    [] OTHER -> Run
Touched(command) ==
  CASE command.name = "toggle" -> "recording"
    [] command.name = "add" -> "rest"
    [] command.name = "setProject" -> "settings"
    [] OTHER -> None

Bump(path) == [p \in Paths |-> IF p = path THEN others[p] + 1 ELSE others[p]]
News(path, t, o) == IF path = None THEN <<>> ELSE <<Published(path, t, o)>>
Publish(run, path, extra) ==
  /\ transport' = run.t /\ timer' = run.timer /\ others' = Bump(path)
  /\ inbox' = LET all == run.out \o News(path, run.t, Bump(path))
              IN [c \in Clients |-> Send(inbox, sockets, all)[c] \o extra[c]]

Hold(on, was) == surface' = [held |-> on, resume |-> was]
Dispatch(command) ==
  IF command.name = "dispatch" /\ command.on # surface.held
  THEN Hold(command.on, IF command.on THEN transport.playing ELSE FALSE)
  ELSE UNCHANGED surface

-----------------------------------------------------------------------------
(* executeCommand("transport.holdSpeed"): one client at a time; its release *)
(* restores what was.                                                       *)
Ack(c, ok, command) ==
  [d \in Clients |-> IF d = c /\ c \in sockets
                     THEN <<[kind |-> "ack", value |-> IF ok THEN command.id ELSE 0]>>
                     ELSE <<>>]
NoAck == [c \in Clients |-> <<>>]

LetGo == Speed(Playing(Run, resume), 1)

ReleaseHold(c) == IF holder # c THEN Run ELSE LetGo

(* Mutant: whoever lets go ends the hold.                                   *)
HolderAfterAnyone(c) == None

HolderAfter(c) == IF holder = c THEN None ELSE holder

HoldSpeed(c, command) ==
  IF ~command.on
  THEN /\ Publish(ReleaseHold(c), None, Ack(c, TRUE, command))
       /\ holder' = HolderAfter(c) /\ resume' = (holder # c /\ resume)
  ELSE IF holder \notin {None, c}
  THEN Publish(Run, None, Ack(c, FALSE, command)) /\ UNCHANGED <<holder, resume>>
  ELSE /\ Publish(Playing(Speed(Run, 2), TRUE), None, Ack(c, TRUE, command))
       /\ holder' = c /\ resume' = IF holder = None THEN transport.playing ELSE resume

(* handleTextMessage(): parse, validate, execute, acknowledge.              *)
HandleTextMessage(c) ==
  /\ c \in sockets /\ outbox[c] # <<>> /\ Room
  /\ LET command == Head(outbox[c])
     IN IF ~Valid(command)
        THEN Publish(Run, None, Ack(c, FALSE, command)) /\ UNCHANGED <<holder, resume, surface>>
        ELSE IF command.name = "holdSpeed"
        THEN HoldSpeed(c, command) /\ UNCHANGED surface
        ELSE /\ Touched(command) # None => others[Touched(command)] < MaxVersion
             /\ Publish(Effect(command), Touched(command), Ack(c, TRUE, command))
             /\ Dispatch(command) /\ UNCHANGED <<holder, resume>>
  /\ outbox' = [outbox EXCEPT ![c] = Tail(@)]
  /\ UNCHANGED <<sockets, mirror, believes, sent, acted>>

(* handleNewConnection(): the snapshot, then a timecode message.            *)
HandleNewConnection(c) ==
  /\ c \notin sockets /\ sent < MaxSent
  /\ sockets' = sockets \cup {c}
  /\ inbox' = [inbox EXCEPT ![c] = <<SnapshotMessage(transport, others), TransportMessage(transport)>>]
  /\ UNCHANGED <<transport, others, timer, outbox, mirror, believes, holder, resume, surface, sent, acted>>

(* handleSocketDisconnected(): lets go for the client.                      *)
HandleSocketDisconnected(c) ==
  /\ c \in sockets /\ Room
  /\ LET run == ReleaseHold(c)
     IN /\ transport' = run.t /\ timer' = run.timer
        /\ inbox' = [Send(inbox, sockets \ {c}, run.out) EXCEPT ![c] = <<>>]
  /\ holder' = HolderAfter(c) /\ resume' = (holder # c /\ resume)
  /\ sockets' = sockets \ {c}
  /\ outbox' = [outbox EXCEPT ![c] = <<>>] /\ believes' = [believes EXCEPT ![c] = NoHold]
  /\ UNCHANGED <<others, mirror, surface, sent, acted>>

(* publishTimecodeNow() on the timer.                                       *)
PublishTimecode ==
  /\ timer /\ Room /\ timer' = FALSE
  /\ inbox' = Send(inbox, sockets, <<TransportMessage(transport)>>)
  /\ UNCHANGED <<transport, others, sockets, outbox, mirror, believes, holder, resume, surface, sent, acted>>

-----------------------------------------------------------------------------
(* PlaybackTransport::onTick(); at the start of the recording it stops.     *)
Tick ==
  /\ transport.playing /\ Room
  /\ IF transport.speed > 0
     THEN /\ transport.pos < MaxPos
          /\ Publish(Move(Run, transport.pos + 1), None, NoAck)
     ELSE Publish(IF transport.pos = 0 THEN Move(Playing(Run, FALSE), 0) ELSE Move(Run, transport.pos - 1),
                  None, NoAck)
  /\ UNCHANGED <<sockets, outbox, mirror, believes, holder, resume, surface, sent, acted>>

(* The control surface, through dispatchControlAction().                    *)
SurfaceActs(command) ==
  /\ acted < MaxSurface /\ Room /\ acted' = acted + 1
  /\ command.name \in {"playPause", "dispatch"}
  /\ Publish(Effect(command), None, NoAck) /\ Dispatch(command)
  /\ UNCHANGED <<sockets, outbox, mirror, believes, holder, resume, sent>>

(* A client (external).                                                     *)
ClientSends(c, command) ==
  /\ c \in sockets /\ sent < MaxSent /\ sent' = sent + 1
  /\ outbox' = [outbox EXCEPT ![c] = Append(@, Numbered(command, sent + 1))]
  /\ believes' = IF command.name # "holdSpeed" THEN believes
                 ELSE [believes EXCEPT ![c] = [NoHold EXCEPT !.id = IF command.on THEN sent + 1 ELSE 0]]
  /\ UNCHANGED <<transport, others, timer, sockets, inbox, mirror, holder, resume, surface, acted>>

ClientReads(c) ==
  /\ inbox[c] # <<>>
  /\ LET m == Head(inbox[c])
     IN /\ mirror' = [mirror EXCEPT ![c] =
             CASE m.kind = "snapshot" -> m.value
               [] m.kind = "transport" -> [@ EXCEPT !.transport = m.value]
               [] m.kind \in Paths -> [@ EXCEPT !.others[m.kind] = m.value]
               [] OTHER -> @]
        /\ believes' = IF m.kind = "ack" /\ m.value > 0 /\ m.value = believes[c].id
                       THEN [believes EXCEPT ![c].granted = TRUE] ELSE believes
  /\ inbox' = [inbox EXCEPT ![c] = Tail(@)]
  /\ UNCHANGED <<transport, others, timer, sockets, outbox, holder, resume, surface, sent, acted>>

Next ==
  \/ \E c \in Clients : HandleNewConnection(c) \/ HandleSocketDisconnected(c) \/ HandleTextMessage(c)
                        \/ ClientReads(c) \/ \E command \in Commands : ClientSends(c, command)
  \/ \E command \in Commands : SurfaceActs(command)
  \/ PublishTimecode \/ Tick

Spec == Init /\ [][Next]_vars

-----------------------------------------------------------------------------
(* The speed is held by one client at a time and for no client that is      *)
(* gone: a client told that it holds the speed holds it until it lets go or *)
(* leaves, whatever the other clients send.                                 *)
HoldBelongsToClient ==
  /\ \A c \in sockets : believes[c].granted => holder = c
  /\ holder # None => holder \in sockets

(* A client that has read all its messages shows the state the application  *)
(* is in; only the position may be behind, while a timecode is due.         *)
MirrorsAgree ==
  \A c \in sockets : inbox[c] = <<>> =>
    /\ mirror[c].others = others
    /\ \A f \in {"playing", "speed", "live"} : mirror[c].transport[f] = transport[f]
    /\ timer \/ mirror[c].transport.pos = transport.pos
=============================================================================
