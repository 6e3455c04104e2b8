---------------------------- MODULE PtpReference ----------------------------
(***************************************************************************)
(* The PTP time base of a recording (timing/udpptpclient.cpp, ptpservo.cpp *)
(* and ptpreference.cpp): the discipline thread puts exchanges with the    *)
(* grandmaster together, judges them and publishes offset, epoch and lock  *)
(* one after the other, in three atomics from which the main thread takes  *)
(* the session time.  The grandmaster and the network are external.        *)
(***************************************************************************)
EXTENDS Integers, Sequences, FiniteSets, FiniteSetsExt

CONSTANTS
  Leads,         \* by how much the grandmaster's time is ahead of the local clock
  Spike,         \* offset error of a delayed exchange
  Guard,         \* kOutlierGuardNs
  MinExchanges,  \* m_minExchanges, 8
  LossThreshold, \* kLossThreshold, 8
  MaxNow,        \* BOUND: local time
  MaxRounds,     \* BOUND: Sync messages
  MaxSpikes,     \* BOUND: delayed exchanges
  MaxSteps       \* BOUND: the grandmaster changes over

\* A delayed exchange is noticed; a local clock starts near 0 and the
\* grandmaster's does not.
PtpAssumption ==
  /\ MinExchanges \in Nat \ {0, 1} /\ LossThreshold \in Nat \ {0} /\ Guard \in Nat
  /\ Spike \in Nat /\ MaxNow \in Nat /\ Leads \subseteq Nat /\ Leads # {}
  /\ Spike > Guard /\ \A a \in Leads, b \in Leads : a # b => a - b > Guard \/ b - a > Guard
  /\ \A a \in Leads : a > MaxNow

None == -1
Long == 2 * MinExchanges

VARIABLES
  now,      \* localMonotonicNs()
  lead,     \* of the grandmaster (external)
  round,    \* Sync messages so far (external)
  wire,     \* Follow_Up and Delay_Resp under way (external)
  spikes, steps,
  clean,    \* exchanges since a delayed one, at most Long
  steady,   \* exchanges since the grandmaster changed over, at most Long
  client,   \* pendingT1 .. pendingDelayRespT4: the round each is of, 0 if missing
  window,   \* m_window, the oldest first
  rejects,  \* m_consecutiveRejects
  servoLock,\* PtpServo::m_locked
  lost,     \* consecutiveLost
  loop,     \* where the discipline thread is
  offset,   \* m_offsetNs
  epoch,    \* m_epochMasterNs
  locked    \* PtpReference::m_locked

worldVars == <<now, lead, round, wire, spikes, steps, clean, steady>>
servoVars == <<window, rejects, servoLock>>
publicVars == <<offset, epoch, locked>>
vars == <<worldVars, client, servoVars, lost, loop, publicVars>>

NoRound == [t1 |-> 0, t2 |-> 0, t3 |-> 0, t4 |-> 0]

Init ==
  /\ now = 0 /\ lead \in Leads /\ round = 0 /\ wire = {} /\ spikes = 0 /\ steps = 0
  /\ clean = Long /\ steady = Long
  /\ client = NoRound /\ window = <<>> /\ rejects = 0 /\ servoLock = FALSE
  /\ lost = 0 /\ loop = "exchange"
  /\ offset = 0 /\ epoch = None /\ locked = FALSE

-----------------------------------------------------------------------------
(* UdpPtpClient. processEventDatagram(), sendDelayReq(): a Sync begins a    *)
(* round; a one-step master sends its time with it.  nextExchange() looks   *)
(* whether the four times are there once the sockets are drained: a second  *)
(* Sync is not among the datagrams of a drain.                              *)
Complete == \A t \in DOMAIN client : client[t] > 0

ProcessSync(oneStep) ==
  /\ round < MaxRounds /\ wire = {} /\ loop = "exchange" /\ ~Complete
  /\ round' = round + 1
  /\ client' = [client EXCEPT !.t2 = round + 1, !.t3 = round + 1,
                              !.t1 = IF oneStep THEN round + 1 ELSE 0]
  /\ wire' = {"delayResp"} \cup (IF oneStep THEN {} ELSE {"followUp"})
  /\ UNCHANGED <<now, lead, spikes, steps, clean, steady, servoVars, lost, loop, publicVars>>

(* processGeneralDatagram()                                                 *)
ProcessGeneral(m) ==
  /\ m \in wire /\ wire' = wire \ {m} /\ loop = "exchange"
  /\ client' = IF m = "followUp"
               THEN (IF client.t2 > 0 THEN [client EXCEPT !.t1 = round] ELSE client)
               ELSE [client EXCEPT !.t4 = round]
  /\ UNCHANGED <<now, lead, round, spikes, steps, clean, steady, servoVars, lost, loop, publicVars>>

-----------------------------------------------------------------------------
(* PtpServo. recompute(): the mean, taken relative to the first sample.     *)
Mean(w) == w[1] + (LET sum[i \in 0 .. Len(w)] ==
                                      IF i = 0 THEN 0 ELSE sum[i - 1] + (w[i] - w[1])
                                IN sum[Len(w)] \div Len(w))

Distance(a, b) == IF a > b THEN a - b ELSE b - a

(* Mutant: every exchange is taken for true.                                *)
OutlierNever(x) == FALSE

Outlier(x) ==
  LET values == {window[i] : i \in DOMAIN window}
  IN /\ servoLock /\ Len(window) >= MinExchanges
     /\ Distance(x, Mean(window)) > Max(values) - Min(values) + Guard

(* pushSample()                                                             *)
Pushed(w, x) == IF Len(w) < MinExchanges THEN Append(w, x) ELSE Append(Tail(w), x)

(* observe(): a run of outliers is the grandmaster changing over.           *)
Observe(x) ==
  IF Outlier(x) /\ rejects + 1 < MinExchanges
  THEN rejects' = rejects + 1 /\ UNCHANGED <<window, servoLock>>
  ELSE /\ window' = Pushed(IF Outlier(x) THEN <<>> ELSE window, x)
       /\ rejects' = 0
       /\ servoLock' = (servoLock \/ Len(window) + 1 >= MinExchanges)

-----------------------------------------------------------------------------
(* disciplineLoop(): an exchange is judged, then published.  The network    *)
(* delays one exchange at a time, and none while the first window fills or  *)
(* while the grandmaster changes over.                                      *)
UpTo(n) == IF n < Long THEN n + 1 ELSE n

Exchange(error) ==
  /\ loop = "exchange" /\ Complete
  /\ error # 0 => spikes < MaxSpikes /\ servoLock /\ clean = Long /\ steady = Long
  /\ client' = NoRound /\ lost' = 0 /\ loop' = "offset"
  /\ Observe(error - lead)
  /\ spikes' = IF error # 0 THEN spikes + 1 ELSE spikes
  /\ clean' = IF error # 0 THEN 0 ELSE UpTo(clean)
  /\ steady' = UpTo(steady)
  /\ UNCHANGED <<now, lead, round, wire, steps, publicVars>>

PublishOffset ==
  /\ loop = "offset" /\ offset' = (IF servoLock THEN Mean(window) ELSE 0) /\ loop' = "epoch"
  /\ UNCHANGED <<worldVars, client, servoVars, lost, epoch, locked>>

CaptureEpoch ==
  /\ loop = "epoch" /\ loop' = "locked"
  /\ epoch' = IF servoLock /\ epoch < 0 THEN now - Mean(window) ELSE epoch
  /\ UNCHANGED <<worldVars, client, servoVars, lost, offset, locked>>

PublishLock ==
  /\ loop = "locked" /\ locked' = servoLock /\ loop' = "exchange"
  /\ UNCHANGED <<worldVars, client, servoVars, lost, offset, epoch>>

(* nextExchange() times out: what was put together so far is kept.  The     *)
(* answer to a Delay_Req does not come without the time of its Sync: a kept *)
(* t4 would be taken for the next round's.                                  *)
NoExchange ==
  /\ loop = "exchange" /\ ~Complete /\ client.t4 = 0 /\ lost < LossThreshold
  /\ lost' = lost + 1 /\ wire' = {}
  /\ IF lost + 1 < LossThreshold
     THEN UNCHANGED <<servoVars, offset, loop>>
     ELSE /\ window' = <<>> /\ rejects' = 0 /\ servoLock' = FALSE
          /\ offset' = 0 /\ loop' = "unlock"
  /\ UNCHANGED <<now, lead, round, spikes, steps, clean, steady, client, epoch, locked>>

Unlock ==
  /\ loop = "unlock" /\ locked' = FALSE /\ loop' = "forget"
  /\ UNCHANGED <<worldVars, client, servoVars, lost, offset, epoch>>

ForgetEpoch ==
  /\ loop = "forget" /\ epoch' = None /\ loop' = "exchange"
  /\ UNCHANGED <<worldVars, client, servoVars, lost, offset, locked>>

-----------------------------------------------------------------------------
Tick ==
  /\ now < MaxNow /\ now' = now + 1
  /\ UNCHANGED <<lead, round, wire, spikes, steps, clean, steady, client, servoVars, lost, loop,
                 publicVars>>

ChangeOver ==
  /\ steps < MaxSteps /\ clean = Long /\ servoLock /\ wire = {} /\ client = NoRound
  /\ steps' = steps + 1 /\ steady' = 0
  /\ \E l \in Leads \ {lead} : lead' = l
  /\ UNCHANGED <<now, round, wire, spikes, clean, client, servoVars, lost, loop, publicVars>>

Next ==
  \/ \E oneStep \in BOOLEAN : ProcessSync(oneStep)
  \/ \E m \in {"followUp", "delayResp"} : ProcessGeneral(m)
  \/ Exchange(0) \/ Exchange(Spike) \/ NoExchange
  \/ PublishOffset \/ CaptureEpoch \/ PublishLock \/ Unlock \/ ForgetEpoch
  \/ Tick \/ ChangeOver

Spec == Init /\ [][Next]_vars

-----------------------------------------------------------------------------
(* A delayed exchange on its own never moves the time, a grandmaster that   *)
(* changes over is followed within two windows of exchanges, and an offset  *)
(* is published only on a full window of exchanges since the last loss,     *)
(* each put together from one round.  The epoch is there while it is locked.*)
ServoJudgesWell ==
  /\ \A i \in DOMAIN window : -window[i] \in Leads
  /\ servoLock /\ steady = Long => \A i \in DOMAIN window : window[i] = -lead
  /\ loop = "exchange" /\ locked => Len(window) >= 1 /\ offset = Mean(window)
  /\ loop = "exchange" => (locked <=> epoch # None)
  /\ Complete => \A t \in DOMAIN client : client[t] = round
=============================================================================
