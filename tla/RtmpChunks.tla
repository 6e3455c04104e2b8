----------------------------- MODULE RtmpChunks -----------------------------
(***************************************************************************)
(* The chunk layer of RTMP (RtmpChunkParser of ingest/rtmpprotocol.cpp): a *)
(* server (external) cuts messages of several chunk streams into chunks,   *)
(* interleaves them, compresses their headers, changes the chunk size and  *)
(* aborts messages half sent; the parser puts them together again.  The    *)
(* byte stream is a sequence of units: a chunk header, an extended time    *)
(* stamp, or one unit of payload, so that a chunk read with the wrong      *)
(* length shows as a unit out of place.  Set Chunk Size and Abort are one  *)
(* unit each.  A chunk is parsed when all of it has arrived and not before,*)
(* so where TCP cuts the stream does not matter beyond that.               *)
(***************************************************************************)
EXTENDS Integers, Sequences, FiniteSets, FiniteSetsExt, SequencesExt

CONSTANTS
  Csids,        \* chunk streams
  ChunkSizes,   \* sizes the server announces
  Lengths,      \* message lengths
  Steps,        \* time between two messages of a chunk stream
  Extended,     \* 0xffffff: from here on a time stamp needs the extended field
  FirstSize,    \* the default chunk size, 128
  MaxMessage,   \* m_maxMessageSize: the longest message the parser takes
  MaxHeld,      \* m_maxAssemblyBytes: what it keeps of unfinished messages
  MaxMessages,  \* BOUND: messages
  MaxControl,   \* BOUND: Set Chunk Size and Abort
  MaxBuffer     \* BOUND: units in the buffer

ChunkAssumption ==
  /\ ChunkSizes \subseteq Nat \ {0} /\ FirstSize \in Nat \ {0}
  /\ Lengths \subseteq Nat /\ Steps \subseteq Nat /\ Extended \in Nat \ {0}
  /\ MaxMessage \in Nat /\ MaxHeld \in Nat

VARIABLES
  \* the server (external)
  out,       \* of each chunk stream, the message being sent
  history,   \* of each chunk stream, the header sent last
  outSize,   \* the chunk size it uses
  messages,  \* number of messages and of control messages begun
  completed, \* messages whose last chunk has been sent, in this order
  broken,    \* it has broken the protocol, and sends no more
  excess,    \* history: it has gone beyond what the parser takes
  \* the parser
  buffer,    \* m_buffer
  inSize,    \* m_inputChunkSize
  headers,   \* m_previousHeaders
  assembly,  \* m_assemblies
  aborted,   \* m_abortedChunkStreams: payload still to be skipped
  delivered, \* messages handed on
  error      \* push() has failed

serverVars == <<out, history, outSize, messages, completed, broken, excess>>
parserVars == <<inSize, headers, assembly, aborted, delivered, error>>
vars == <<serverVars, buffer, parserVars>>

Unset == [length |-> -1]
Known(h) == h.length >= 0

Init ==
  /\ out = [c \in Csids |-> {}] /\ history = [c \in Csids |-> Unset]
  /\ outSize = FirstSize /\ messages = [all |-> 0, control |-> 0] /\ completed = <<>>
  /\ broken = FALSE /\ excess = FALSE
  /\ buffer = <<>> /\ inSize = FirstSize
  /\ headers = [c \in Csids |-> Unset]
  /\ assembly = [c \in Csids |-> {}] /\ aborted = [c \in Csids |-> 0]
  /\ delivered = <<>> /\ error = FALSE

-----------------------------------------------------------------------------
(* The server (external).                                                   *)
Payload(id, from, n) == [i \in 1 .. n |-> [unit |-> "payload", id |-> id, at |-> from + i - 1]]

Field(t) == Min({t, Extended})
ExtendedUnit(needed, t) == IF needed THEN <<[unit |-> "extended", value |-> t]>> ELSE <<>>

(* The formats that can carry a new message of this length and time.        *)
Formats(c, length, step) ==
  {0} \cup (IF ~Known(history[c]) THEN {}
            ELSE {1} \cup (IF length = history[c].length THEN {2} ELSE {})
                     \cup (IF /\ length = history[c].length
                              /\ history[c].delta = step
                           THEN {3} ELSE {}))

(* A session ends when its parser has failed, and with it what is sent.     *)
Emit(units) ==
  /\ ~broken /\ ~error /\ Len(buffer) + Len(units) <= MaxBuffer
  /\ buffer' = buffer \o units

(* What the parser keeps of the other chunk streams, when it has read all   *)
(* that was sent.                                                           *)
UnderWay(o, c) ==
  SumFunction([d \in Csids \ {c} |->
    IF \E m \in o[d] : ~m.dead THEN (CHOOSE m \in o[d] : TRUE).at ELSE 0])

SendOf(c, id, at, length, time, head, others) ==
  LET n == Min({outSize, length - at})
  IN /\ Emit(head \o Payload(id, at, n))
     /\ IF at + n < length
        THEN /\ out' = [out EXCEPT ![c] = {[id |-> id, at |-> at + n, length |-> length,
                                           time |-> time, dead |-> FALSE]}]
             /\ UNCHANGED completed
        ELSE /\ out' = [out EXCEPT ![c] = {}]
             /\ completed' = Append(completed, [csid |-> c, time |-> time, id |-> id, length |-> length])
     /\ excess' = (excess \/ length > MaxMessage \/ (at + n < length /\ others + (at + n) > MaxHeld))

BeginMessage(c, length, step, fmt, others) ==
  /\ messages.all < MaxMessages /\ (out[c] = {} \/ \A m \in out[c] : m.dead)
  /\ fmt \in Formats(c, length, step)
  /\ fmt = 3 => out[c] = {}  \* what is left of an aborted message must not be mistaken for it
  /\ LET time == IF Known(history[c]) THEN history[c].time + step ELSE step
         value == IF fmt = 0 THEN time ELSE IF fmt = 3 THEN history[c].value ELSE step
         ext == IF fmt = 3 THEN history[c].ext ELSE value >= Extended
     IN /\ SendOf(c, messages.all + 1, 0, length, time,
                  <<[unit |-> "header", csid |-> c, fmt |-> fmt, length |-> length,
                     field |-> Field(value)]>> \o ExtendedUnit(ext, value), others)
        /\ history' = [history EXCEPT ![c] =
             [length |-> length, time |-> time, value |-> value, ext |-> ext,
              delta |-> IF fmt = 0 THEN 0 ELSE step]]
  /\ messages' = [messages EXCEPT !.all = @ + 1]
  /\ UNCHANGED <<outSize, broken, parserVars>>

(* The rest of a message; of an aborted one the server may go on sending.   *)
ContinueMessage(c, others) ==
  /\ \E m \in out[c] :
       LET n == Min({outSize, m.length - m.at})
           head == <<[unit |-> "header", csid |-> c, fmt |-> 3, length |-> 0, field |-> 0]>>
                   \o ExtendedUnit(history[c].ext, history[c].value)
       IN IF m.dead
          THEN /\ Emit(head \o Payload(m.id, m.at, n))
               /\ out' = [out EXCEPT ![c] = IF m.at + n < m.length THEN {[m EXCEPT !.at = @ + n]} ELSE {}]
               /\ UNCHANGED <<completed, excess>>
          ELSE SendOf(c, m.id, m.at, m.length, m.time, head, others)
  /\ UNCHANGED <<history, outSize, messages, broken, parserVars>>

SendChunkSize(n) ==
  /\ messages.control < MaxControl /\ n # outSize
  /\ Emit(<<[unit |-> "size", value |-> n]>>) /\ outSize' = n
  /\ messages' = [messages EXCEPT !.control = @ + 1]
  /\ UNCHANGED <<out, history, completed, broken, excess, parserVars>>

SendAbort(c) ==
  /\ messages.control < MaxControl
  /\ \E m \in out[c] : ~m.dead /\ out' = [out EXCEPT ![c] = {[m EXCEPT !.dead = TRUE]}]
  /\ Emit(<<[unit |-> "abort", csid |-> c]>>)
  /\ messages' = [messages EXCEPT !.control = @ + 1]
  /\ UNCHANGED <<history, outSize, completed, broken, excess, parserVars>>

(* A server that begins a message in the middle of another, or leaves out   *)
(* of a header what it never sent.                                          *)
BreakProtocol(c) ==
  /\ \E fmt \in {0, 1} :
       /\ IF fmt = 0 THEN \E m \in out[c] : ~m.dead ELSE ~Known(history[c])
       /\ Emit(<<[unit |-> "header", csid |-> c, fmt |-> fmt, length |-> 1, field |-> 0]>>)
  /\ broken' = TRUE
  /\ UNCHANGED <<out, history, outSize, messages, completed, excess, parserVars>>

-----------------------------------------------------------------------------
(* Mutant: every chunk without a header counts the time step again.         *)
NewHeaderPerChunk(h, prev, ext, starts) ==
  LET value == IF h.field = Extended THEN ext ELSE h.field
  IN CASE h.fmt = 0 -> [length |-> h.length, time |-> value, delta |-> 0, isDelta |-> FALSE,
                        ext |-> h.field = Extended]
       [] h.fmt \in {1, 2} -> [length |-> IF h.fmt = 1 THEN h.length ELSE prev.length,
                        time |-> prev.time + value, delta |-> value, isDelta |-> TRUE,
                        ext |-> h.field = Extended]
       [] h.fmt = 3 -> [prev EXCEPT !.time = @ + prev.delta]

(* tryParseFragment(): the header a chunk stands for.                       *)
NewHeader(h, prev, ext, starts) ==
  LET value == IF h.field = Extended THEN ext ELSE h.field
  IN CASE h.fmt = 0 -> [length |-> h.length, time |-> value, delta |-> 0, isDelta |-> FALSE,
                        ext |-> h.field = Extended]
       [] h.fmt \in {1, 2} -> [length |-> IF h.fmt = 1 THEN h.length ELSE prev.length,
                        time |-> prev.time + value, delta |-> value, isDelta |-> TRUE,
                        ext |-> h.field = Extended]
       [] h.fmt = 3 -> [prev EXCEPT !.time = IF starts /\ prev.isDelta THEN @ + prev.delta ELSE @]

Fail == error' = TRUE /\ UNCHANGED <<buffer, inSize, headers, assembly, aborted, delivered>>

Consume(n) == buffer' = SubSeq(buffer, n + 1, Len(buffer))

(* A chunk of a stream whose message was aborted: skipped.                  *)
SkipAborted(h) ==
  LET skip == Min({inSize, aborted[h.csid]})
      used == 1 + (IF headers[h.csid].ext THEN 1 ELSE 0) + skip
  IN /\ Len(buffer) >= used /\ Consume(used)
     /\ aborted' = [aborted EXCEPT ![h.csid] = @ - skip]
     /\ UNCHANGED <<inSize, headers, assembly, delivered, error>>

(* assemblyPayloadBytes() without what is held of chunk stream c.           *)
Held(c) ==
  SumFunction([d \in Csids \ {c} |->
    IF assembly[d] = {} THEN 0 ELSE Len((CHOOSE a \in assembly[d] : TRUE).payload)])

(* A chunk of a message: too long a message, or too much that is unfinished, *)
(* ends the session.                                                         *)
ParseFragment(h, others) ==
  LET c == h.csid
      starts == h.fmt # 3 \/ assembly[c] = {}
      hasExt == IF h.fmt = 3 THEN headers[c].ext ELSE h.field = Extended
      extValue == IF hasExt /\ Len(buffer) >= 2 /\ buffer[2].unit = "extended"
                  THEN buffer[2].value ELSE -1
      header == NewHeader(h, headers[c], extValue, starts)
      a == IF starts THEN [header |-> header, payload |-> <<>>]
                     ELSE CHOOSE x \in assembly[c] : TRUE
      prefix == 1 + (IF hasExt THEN 1 ELSE 0)
      toRead == Min({inSize, a.header.length - Len(a.payload)})
      payload == a.payload \o SubSeq(buffer, prefix + 1, prefix + toRead)
      whole == Len(payload) = a.header.length
      tooMuch == ~whole /\ others + Len(payload) > MaxHeld
  IN IF header.length > MaxMessage THEN Fail
     ELSE /\ Len(buffer) >= prefix + toRead
          /\ IF tooMuch THEN Fail
             ELSE /\ Consume(prefix + toRead)
                  /\ headers' = [headers EXCEPT ![c] = header]
                  /\ assembly' = [assembly EXCEPT ![c] =
                       IF whole THEN {} ELSE {[header |-> a.header, payload |-> payload]}]
                  /\ aborted' = [aborted EXCEPT ![c] = IF h.fmt = 3 THEN @ ELSE 0]
                  /\ delivered' =
                       IF whole
                       THEN Append(delivered, [csid |-> c, time |-> a.header.time, payload |-> payload])
                       ELSE delivered
                  /\ UNCHANGED <<inSize, error>>

(* What is no header where one is due, one that lacks its predecessor, one  *)
(* in the middle of a message.                                              *)
OutOfStep(h) ==
  \/ h.unit # "header"
  \/ h.fmt # 0 /\ ~Known(headers[h.csid])
  \/ h.fmt # 3 /\ assembly[h.csid] # {}

ParseChunk ==
  /\ ~error /\ buffer # <<>> /\ Head(buffer).unit \notin {"size", "abort"}
  /\ LET h == Head(buffer)
     IN IF OutOfStep(h) THEN Fail
        ELSE IF h.fmt = 3 /\ aborted[h.csid] > 0 THEN SkipAborted(h) ELSE ParseFragment(h, Held(h.csid))
  /\ UNCHANGED serverVars

(* push(): the messages that change the parser itself.                      *)
ParseChunkSize ==
  /\ ~error /\ buffer # <<>> /\ Head(buffer).unit = "size"
  /\ inSize' = Head(buffer).value /\ Consume(1)
  /\ UNCHANGED <<serverVars, headers, assembly, aborted, delivered, error>>

(* Mutant: the message is dropped and what it lacks forgotten.              *)
AbortForgets(c) ==
  assembly' = [assembly EXCEPT ![c] = {}] /\ UNCHANGED aborted

(* What an aborted message still lacks is remembered.                       *)
Abort(c) ==
  /\ aborted' = [aborted EXCEPT ![c] =
       IF assembly[c] = {} THEN @
       ELSE LET a == CHOOSE x \in assembly[c] : TRUE IN a.header.length - Len(a.payload)]
  /\ assembly' = [assembly EXCEPT ![c] = {}]

ParseAbort ==
  /\ ~error /\ buffer # <<>> /\ Head(buffer).unit = "abort"
  /\ Abort(Head(buffer).csid) /\ Consume(1)
  /\ UNCHANGED <<serverVars, inSize, headers, delivered, error>>

Next ==
  \/ \E c \in Csids :
       \/ \E l \in Lengths, t \in Steps, f \in 0 .. 3 : BeginMessage(c, l, t, f, UnderWay(out, c))
       \/ ContinueMessage(c, UnderWay(out, c)) \/ SendAbort(c) \/ BreakProtocol(c)
  \/ \E n \in ChunkSizes : SendChunkSize(n)
  \/ ParseChunk \/ ParseChunkSize \/ ParseAbort

Spec == Init /\ [][Next]_vars

-----------------------------------------------------------------------------
Faithful(m, d) ==
  /\ d.csid = m.csid /\ d.time = m.time
  /\ d.payload = Payload(m.id, 0, m.length)

(* Whatever is interleaved, compressed, resized and aborted, the messages   *)
(* come out whole, in order and with their time, nothing of an aborted one  *)
(* comes out, and the stream is rejected when the server broke it or went   *)
(* beyond what the parser takes, and then only.                             *)
MessagesComeOutWhole ==
  /\ error => broken \/ excess
  /\ Len(delivered) <= Len(completed)
  /\ \A i \in 1 .. Len(delivered) : Faithful(completed[i], delivered[i])
  /\ buffer = <<>> => ~excess /\ Len(delivered) = Len(completed)
=============================================================================
