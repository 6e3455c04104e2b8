--------------------------- MODULE RecordingFile ---------------------------
(***************************************************************************)
(* What a recording promises the programs that read it (the chase-play     *)
(* reader, an importing editor), whatever threads produce it: a header     *)
(* whose start timecode never changes, then packets in the order they were *)
(* accepted with strictly increasing dts on each stream, then at most one  *)
(* trailer, after which nothing is added.  A new session is a new file.    *)
(***************************************************************************)
EXTENDS Integers, Sequences

CONSTANTS Tags, NoTag

VARIABLES
  headed,    \* the header has been written
  tag,       \* its timecode tag
  entries,   \* the packets, in file order: records with id, stream and dts
  sealed     \* the trailer has been written

vars == <<headed, tag, entries, sealed>>

Empty ==
  /\ headed = FALSE
  /\ tag = NoTag
  /\ entries = <<>>
  /\ sealed = FALSE

Create == headed' = FALSE /\ tag' = NoTag /\ entries' = <<>> /\ sealed' = FALSE

WriteHeader ==
  /\ ~headed /\ ~sealed
  /\ headed' = TRUE
  /\ tag' \in Tags \cup {NoTag}
  /\ UNCHANGED <<entries, sealed>>

(* The next packet: after every earlier one, and later on its own stream.   *)
Follows(e) ==
  \A i \in 1..Len(entries) :
    /\ entries[i].id < e.id
    /\ entries[i].stream = e.stream => entries[i].dts < e.dts

WriteEntry ==
  /\ headed /\ ~sealed
  /\ Len(entries') = Len(entries) + 1
  /\ LET e == entries'[Len(entries) + 1]
     IN entries' = Append(entries, e) /\ Follows(e)
  /\ UNCHANGED <<headed, tag, sealed>>

(* The trailer, behind a header: an empty recording gets both at once.      *)
Seal ==
  /\ ~sealed
  /\ sealed' = TRUE
  /\ headed' = TRUE
  /\ IF headed THEN tag' = tag ELSE entries = <<>> /\ tag' \in Tags \cup {NoTag}
  /\ UNCHANGED entries

Next == Create \/ WriteHeader \/ WriteEntry \/ Seal

Spec == Empty /\ [][Next]_vars

=============================================================================
