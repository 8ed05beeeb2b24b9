-------------------------- MODULE MonotonicRegister --------------------------
(***************************************************************************)
(* What the drift agent promises about its rollback state: the durable     *)
(* record of the accepted baseline only ever moves to a baseline with a    *)
(* strictly higher sequence number.  It may jump over generations, because *)
(* an agent that crashed or failed to sync can leave a generation that the *)
(* next one overtakes before it is durable.                                *)
(***************************************************************************)
EXTENDS Naturals

CONSTANTS Baselines,  \* the validly signed baselines in circulation
          Sequence,   \* Baseline.Sequence of each of them
          None        \* no state recorded yet

VARIABLE reg          \* the baseline durably recorded as accepted

TypeOK == reg \in Baselines \cup {None}

Init == reg = None

Advance(b) ==
  /\ reg # None => Sequence[b] > Sequence[reg]
  /\ reg' = b

Next == \E b \in Baselines : Advance(b)

Spec == Init /\ [][Next]_reg
=============================================================================
