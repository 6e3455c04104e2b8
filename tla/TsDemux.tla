------------------------------ MODULE TsDemux ------------------------------
(***************************************************************************)
(* MpegTsParser (ingest/mpegtsparser.cpp): PES packets put together from   *)
(* transport packets.  A sender (external) cuts PES packets, of known or   *)
(* of open length, into transport packets with a continuity counter; the   *)
(* network loses and repeats transport packets.  Payload is counted in     *)
(* units of one transport packet.                                          *)
(***************************************************************************)
EXTENDS Integers, Sequences

CONSTANTS
  Pids,        \* elementary streams of the programme
  Modulus,     \* 16: continuity counters are modulo Modulus
  MaxBurst,    \* BOUND: packets of a stream lost in a row
  Lengths,     \* units of a PES packet
  MaxAssembly, \* m_maxPesAssemblyBytes
  MaxPes       \* BOUND: PES packets of a stream

\* A burst of Modulus - 1 packets or more does not show in the counter.
DemuxAssumption ==
  /\ Modulus \in Nat \ {0} /\ MaxBurst \in Nat /\ MaxBurst < Modulus - 1
  /\ Lengths \subseteq Nat \ {0} /\ MaxAssembly \in Nat

VARIABLES
  pes,       \* of each stream, the PES packet being sent: its number, length, units sent (external)
  counter,   \* the continuity counter of the next packet (external)
  burst,     \* packets lost since one arrived (external)
  known,     \* the PMT has been parsed: m_videoPid, m_audioPid
  last,      \* m_lastContinuityCounter; -1: none
  waiting,   \* m_waitingForPayloadStart
  assembly,  \* m_pes: units taken in, and the length told by the header; {} if absent
  completed  \* PES packets handed on

senderVars == <<pes, counter, burst>>
vars == <<senderVars, known, last, waiting, assembly, completed>>

Init ==
  /\ pes = [p \in Pids |-> [id |-> 0, length |-> 0, open |-> FALSE, at |-> 0]]
  /\ counter = [p \in Pids |-> 0] /\ burst = [p \in Pids |-> 0]
  /\ known = FALSE /\ last = [p \in Pids |-> -1] /\ waiting = {}
  /\ assembly = [p \in Pids |-> {}] /\ completed = [p \in Pids |-> <<>>]

-----------------------------------------------------------------------------
(* acceptContinuity(): what it leaves of the parser's state of a stream,    *)
(* and whether the payload is taken.                                        *)
Streams == IF known THEN Pids ELSE {}

(* Mutant: a gap is noticed only in the middle of a PES packet.             *)
GapMidPes(st, k) == st.last >= 0 /\ k.cc # (st.last + 1) % Modulus /\ ~k.start

Gap(st, k) == st.last >= 0 /\ k.cc # (st.last + 1) % Modulus

Accept(st0, k) ==
  LET st == IF k.discontinuity
            THEN [last |-> -1, assembly |-> {}, waiting |-> (st0.waiting \/ k.pid \in Streams)]
            ELSE st0
      gap == Gap(st, k)
      afterGap == [last |-> k.cc,
                   assembly |-> IF gap THEN {} ELSE st.assembly,
                   waiting |-> st.waiting \/ (gap /\ k.pid \in Streams)]
  IN CASE st.last = k.cc -> [st |-> st, take |-> FALSE]
       [] st.last # k.cc /\ k.start -> [st |-> [afterGap EXCEPT !.waiting = FALSE], take |-> TRUE]
       [] OTHER -> [st |-> afterGap, take |-> ~gap /\ ~afterGap.waiting]

(* pushPesPayload(): a PES packet ends with the start of the next, or when  *)
(* its length is reached; one that grows too long is dropped.               *)
Whole(a) == <<a.units>>

Push(st, k) ==
  LET flushed == IF k.start THEN {Whole(a) : a \in st.assembly} ELSE {}
      before == IF k.start THEN {[units |-> <<>>, size |-> IF k.open THEN -1 ELSE k.length]}
                ELSE st.assembly
      grown == {[a EXCEPT !.units = Append(@, [id |-> k.id, at |-> k.at, of |-> k.length])] : a \in before}
      tooLong == \E a \in grown : Len(a.units) > MaxAssembly
      full == {a \in grown : ~tooLong /\ a.size >= 0 /\ Len(a.units) >= a.size}
  IN [out |-> flushed, full |-> {Whole(a) : a \in full},
      st |-> [st EXCEPT !.assembly = IF tooLong THEN {} ELSE grown \ full,
                        !.waiting = @ \/ tooLong]]

Flat(S) == IF S = {} THEN <<>> ELSE CHOOSE s \in S : TRUE

(* pushTsPacket()                                                           *)
Receive(k) ==
  LET p == k.pid
      accepted == Accept([last |-> last[p], assembly |-> assembly[p], waiting |-> p \in waiting], k)
      pushed == Push(accepted.st, k)
      taken == accepted.take /\ p \in Streams
      st == IF taken THEN pushed.st ELSE accepted.st
  IN /\ last' = [last EXCEPT ![p] = st.last]
     /\ assembly' = [assembly EXCEPT ![p] = st.assembly]
     /\ waiting' = IF st.waiting THEN waiting \cup {p} ELSE waiting \ {p}
     /\ completed' = IF taken
                     THEN [completed EXCEPT ![p] = @ \o Flat(pushed.out) \o Flat(pushed.full)]
                     ELSE completed

-----------------------------------------------------------------------------
(* The sender and the network (external).                                   *)
Packet(p, s, flagged) ==
  [pid |-> p, cc |-> counter[p], start |-> s.at = 0, id |-> s.id, at |-> s.at,
   length |-> s.length, open |-> s.open, discontinuity |-> flagged]

Sent(p, s) ==
  /\ pes' = [pes EXCEPT ![p] = [s EXCEPT !.at = @ + 1]]
  /\ counter' = [counter EXCEPT ![p] = (@ + 1) % Modulus]

Deliver(p, s, flagged) ==
  /\ Sent(p, s) /\ Receive(Packet(p, s, flagged))
  /\ burst' = [burst EXCEPT ![p] = 0]
  /\ UNCHANGED known

Lose(p, s) ==
  /\ Sent(p, s) /\ burst[p] < MaxBurst
  /\ burst' = [burst EXCEPT ![p] = @ + 1]
  /\ UNCHANGED <<known, last, waiting, assembly, completed>>

(* The packet sent before comes again.                                      *)
Repeat(p) ==
  /\ pes[p].at > 0 /\ burst[p] = 0
  /\ Receive([Packet(p, [pes[p] EXCEPT !.at = @ - 1], FALSE) EXCEPT
                !.cc = (counter[p] - 1 + Modulus) % Modulus])
  /\ UNCHANGED <<senderVars, known>>

NextUnit(p) ==
  IF pes[p].at < pes[p].length THEN {pes[p]}
  ELSE IF pes[p].id >= MaxPes THEN {}
  ELSE {[id |-> pes[p].id + 1, length |-> l, open |-> o, at |-> 0] : l \in Lengths, o \in BOOLEAN}

(* A discontinuity is announced with the first packet of a PES packet.      *)
Send(p) ==
  \E s \in NextUnit(p) :
    Deliver(p, s, FALSE) \/ (s.at = 0 /\ Deliver(p, s, TRUE)) \/ Lose(p, s)

(* parsePat(), parsePmt()                                                   *)
LearnStreams ==
  /\ ~known /\ known' = TRUE
  /\ UNCHANGED <<senderVars, last, waiting, assembly, completed>>

Next == LearnStreams \/ \E p \in Pids : Send(p) \/ Repeat(p)

Spec == Init /\ [][Next]_vars

-----------------------------------------------------------------------------
(* Whatever is lost or repeated, a PES packet is handed on whole or not at  *)
(* all, never made of pieces of two, never twice and never out of order:    *)
(* every break of the continuity is noticed before the next flush.  (The    *)
(* tail of a packet of open length that is lost with nothing after it shows *)
(* only at the next packet, which drops it.)                                *)
WholePackets ==
  \A p \in Pids : \A i \in 1 .. Len(completed[p]) :
    LET u == completed[p][i]
    IN /\ \A j \in 1 .. Len(u) : u[j] = [id |-> u[1].id, at |-> j - 1, of |-> Len(u)]
       /\ Len(u) <= MaxAssembly
       /\ i > 1 => completed[p][i - 1][1].id < u[1].id
=============================================================================
