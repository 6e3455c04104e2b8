----------------------------- MODULE MCPlayout -----------------------------
(* A rundown that cuts forward, then back, at two speeds.                   *)
EXTENDS Playout

ThreeEntries == <<[in |-> 2, out |-> 4, speed |-> 1], [in |-> 7, out |-> 9, speed |-> 2],
                  [in |-> 0, out |-> 1, speed |-> 1]>>
=============================================================================
