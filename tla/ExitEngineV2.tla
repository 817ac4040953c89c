---------------------------- MODULE ExitEngineV2 ----------------------------
(***************************************************************************)
(* app/execution/exit_engine_v2.py: what the hybrid engine decides on one  *)
(* quote, and what it remembers of those before.  Prices are in percent of *)
(* the entry; a share of the position is in quarters; a condition that     *)
(* must last counts the ticks since it began, Unset when it does not hold. *)
(*                                                                         *)
(* v is the configuration, p the position row.                             *)
(***************************************************************************)
EXTENDS Integers, Sequences

Unset == -1

Larger(a, b) == IF a >= b THEN a ELSE b
Smaller(a, b) == IF a <= b THEN a ELSE b

(* A share of what is left, at least one.                                   *)
Share(left, quarters) == Larger(1, (left * quarters) \div 4)

(* _state_for of a position this process has not seen: from its flags.      *)
Rebuilt(p) ==
  [state |-> IF p.pt2 \/ p.pt3 \/ p.tpt THEN "TRAILING" ELSE IF p.pt1 THEN "ARMED" ELSE "ENTERED",
   panic |-> 0, soft |-> Unset, trail |-> Unset, peak |-> 0]

(* A tick's time passes, whether the engine is asked or not.                *)
Older(age, limit) == IF age = Unset THEN Unset ELSE Smaller(age + 1, limit)
Aged(e, v) == [e EXCEPT !.soft = Older(@, v.softConfirm), !.trail = Older(@, v.trailConfirm)]

(* Profit targets due: each asks for the flag of the one before it.         *)
Due(p, pct, v) ==
  (IF ~p.pt1 /\ pct >= v.pt1 THEN <<[rule |-> "PT1", qty |-> Share(p.left, v.pt1Sell)]>> ELSE <<>>) \o
  (IF p.pt1 /\ ~p.pt2 /\ pct >= v.pt2 THEN <<[rule |-> "PT2", qty |-> Share(p.left, v.pt2Sell)]>> ELSE <<>>) \o
  (IF p.pt2 /\ ~p.pt3 /\ pct >= v.pt3 THEN <<[rule |-> "PT3", qty |-> Share(p.left, v.pt3Sell)]>> ELSE <<>>)

Kept(e, rules) == [mem |-> e, rules |-> rules]
Closing(e, before, rule, p) ==
  Kept([e EXCEPT !.state = "CLOSED"], Append(before, [rule |-> rule, qty |-> p.left]))

(* Mutant: the drawdown that ended still counts. *)
SoftStopsLatched(e, before, p, pct, spread, v) ==
  IF pct <= v.soft /\ ~p.sl /\ spread < v.spreadMax
    THEN IF e.soft = Unset THEN Kept([e EXCEPT !.soft = 0], before)
         ELSE IF e.soft < v.softConfirm THEN Kept(e, before)
         ELSE Closing(e, before, "SOFT_STOP", p)
    ELSE Kept(e, before)

(* The soft stop: a drawdown that lasted, half of it first.                 *)
SoftStops(e, before, p, pct, spread, v) ==
  IF pct <= v.soft /\ ~p.sl /\ spread < v.spreadMax
    THEN IF e.soft = Unset THEN Kept([e EXCEPT !.soft = 0], before)
         ELSE IF e.soft < v.softConfirm THEN Kept(e, before)
         ELSE IF ~p.slp /\ p.left > 1
           THEN Kept(e, Append(before, [rule |-> "SOFT_STOP_PARTIAL", qty |-> Share(p.left, v.softSell)]))
         ELSE Closing(e, before, "SOFT_STOP", p)
    ELSE Kept([e EXCEPT !.soft = Unset], before)

(* The trail, once the second target is taken, below the peak this process  *)
(* has seen; when it closes, the soft stop is not asked.                    *)
Trails(e, before, p, pct, spread, v) ==
  LET below == v.trail /\ p.pt2 /\ pct <= e.peak - v.give IN
  IF below /\ e.trail # Unset /\ e.trail >= v.trailConfirm
    THEN Closing(e, before, "TRAIL_HIT", p)
    ELSE SoftStops([e EXCEPT !.trail = IF ~v.trail \/ ~p.pt2 THEN @
                                       ELSE IF ~below THEN Unset ELSE Larger(@, 0)],
                   before, p, pct, spread, v)

(* evaluate: panic before everything, then the end of an expiry day, then   *)
(* targets, trail and soft stop.                                            *)
Evaluate(e, p, pct, spread, late, v) ==
  LET seen == [e EXCEPT !.peak = Larger(@, pct),
                        !.panic = IF pct <= v.panic THEN Smaller(@ + 1, v.panicTicks) ELSE 0] IN
  IF seen.panic >= v.panicTicks THEN Closing(seen, <<>>, "PANIC", p)
  ELSE IF late /\ e.state # "TRAILING" THEN Closing(seen, <<>>, "EOD_THETA", p)
  ELSE Trails(seen, Due(p, pct, v), p, pct, spread, v)

(* What _run_hybrid_v2 lets through: stops not in the grace of a fresh fill *)
(* or outside hours, nor at a wide spread; a panic only at a wider one.     *)
Allowed(rule, p, spread, graced, v) ==
  CASE rule = "PT1" -> ~p.pt1
    [] rule = "PT2" -> ~p.pt2
    [] rule = "PT3" -> ~p.pt3
    [] rule \in {"SOFT_STOP", "SOFT_STOP_PARTIAL", "TRAIL_HIT"} -> ~graced /\ ~p.sl /\ spread < v.spreadMax
    [] rule = "PANIC" -> spread < v.spreadPanic
    [] OTHER -> TRUE
=============================================================================
