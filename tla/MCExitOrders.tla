---------------------------- MODULE MCExitOrders ----------------------------
(* Instances of ExitOrders for TLC. *)
EXTENDS ExitOrders, TLC

CONSTANTS e1, e2, e3

Symm == Permutations(Oids)

(* One lane: an analyst SELL, a stop. *)
OneAlert == [e \in {e1} |-> "DISCORD"]

(* A whale's resting target, the stop and the operator's exit.              *)
WhaleStopManual == (e1 :> "WHALE") @@ (e2 :> "STOP") @@ (e3 :> "MANUAL")

(* An analyst SELL with a stop, with the operator's exit and with the       *)
(* operator's cancel.                                                       *)
AlertAndStop == (e1 :> "DISCORD") @@ (e2 :> "STOP")

AlertStopManual == AlertAndStop @@ (e3 :> "MANUAL")
AlertStopCancel == AlertAndStop @@ (e3 :> "CANCEL")
=============================================================================
