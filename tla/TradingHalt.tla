---------------------------- MODULE TradingHalt ----------------------------
(***************************************************************************)
(* What the daily kill switch promises: buying stops when a loss past the  *)
(* limit is seen, and stays stopped until one within it is seen or the day *)
(* ends.  Nothing here can be forgotten.                                   *)
(***************************************************************************)
EXTENDS Integers

VARIABLES stopped,  \* is buying stopped for the day?
          past,     \* is the loss past its limit now?
          day

vars == <<stopped, past, day>>

Init == ~stopped /\ past \in BOOLEAN /\ day \in Nat

Trips == past /\ stopped' = TRUE /\ UNCHANGED <<past, day>>
Lifts == ~past /\ stopped' = FALSE /\ UNCHANGED <<past, day>>
Moves == past' \in BOOLEAN /\ UNCHANGED <<stopped, day>>
Dawns == day' > day /\ stopped' = FALSE /\ past' \in BOOLEAN

Next == Trips \/ Lifts \/ Moves \/ Dawns

Spec == Init /\ [][Next]_vars
=============================================================================
