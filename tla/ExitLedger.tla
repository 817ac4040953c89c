----------------------------- MODULE ExitLedger -----------------------------
(***************************************************************************)
(* What the exits of one contract promise, whatever orders, cancels and    *)
(* re-pegs it takes: the account is sold down, not past zero unless exits  *)
(* raced each other, and the position row follows it, never ahead of it    *)
(* and never below zero.                                                   *)
(***************************************************************************)
EXTENDS Integers

CONSTANT Lot

VARIABLES remaining,   \* contracts the position row says are left
          held,        \* contracts the account holds
          raced        \* an exit was inserted while another was pending

vars == <<remaining, held, raced>>

Init == remaining = Lot /\ held = Lot /\ raced = FALSE

Races == raced' = TRUE /\ UNCHANGED <<remaining, held>>

Sold(n) == /\ raced \/ n <= held
           /\ held' = held - n
           /\ UNCHANGED <<remaining, raced>>

Booked(n) == /\ n <= remaining /\ n <= remaining - held
             /\ remaining' = remaining - n
             /\ UNCHANGED <<held, raced>>

Next == Races \/ \E n \in 1..Lot : Sold(n) \/ Booked(n)

Spec == Init /\ [][Next]_vars
FairSpec == Spec /\ WF_vars(\E n \in 1..Lot : Booked(n))
=============================================================================
