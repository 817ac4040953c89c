---------------------------- MODULE MCExitLadder ----------------------------
(* The settings a position may resolve to: the ladder with re-pegged exits  *)
(* and a spread gate that opens; the ladder as shipped; the hybrid engine.  *)
EXTENDS ExitLadder

V2 == [panic |-> -60, panicTicks |-> 2, pt1 |-> 25, pt1Sell |-> 2, pt2 |-> 65, pt2Sell |-> 2, pt3 |-> 100,
       pt3Sell |-> 2, trail |-> TRUE, give |-> 30, trailConfirm |-> 1, soft |-> -28, softConfirm |-> 1,
       softSell |-> 2, spreadMax |-> 15, spreadPanic |-> 30]

Base == [auto |-> TRUE, hybrid |-> FALSE, repeg |-> TRUE, useBid |-> FALSE, wide |-> 15, deferCap |-> 2,
         sl |-> -28, locks |-> {<<25, 0>>, <<65, 25>>}, trail |-> FALSE, trailArm |-> 65, trailBack |-> 30,
         targets |-> Targets, pt1 |-> 25, pt1Sell |-> 2, pt2 |-> 65, pt2Sell |-> 2, pt3 |-> 65, pt3Sell |-> 2,
         tpt |-> TRUE, tptTrail |-> 20, tptArm |-> 25, remainder |-> FALSE, maxLoss |-> 0, staged |-> TRUE,
         stageSell |-> 2, timeExit |-> FALSE, whaleTp |-> FALSE, operator |-> FALSE, elsewhere |-> FALSE,
         parts |-> FALSE, daily |-> FALSE, hours |-> FALSE, hands |-> {}, restarts |-> FALSE, buys |-> 1, v2 |-> V2]

Rules == {
  [Base EXCEPT !.buys = 2, !.targets = {"PT1", "PT2"}],
  [Base EXCEPT !.staged = FALSE, !.trail = TRUE, !.elsewhere = TRUE, !.parts = TRUE, !.useBid = TRUE,
               !.tpt = FALSE],
  [Base EXCEPT !.repeg = FALSE, !.deferCap = 0, !.staged = FALSE, !.whaleTp = TRUE, !.operator = TRUE,
               !.hours = TRUE, !.maxLoss = 150, !.targets = {"PT1", "PT2"}],
  [Base EXCEPT !.auto = FALSE, !.repeg = FALSE, !.remainder = TRUE, !.hands = {"DISCORD"}, !.restarts = TRUE],
  [Base EXCEPT !.repeg = FALSE, !.deferCap = 0, !.staged = FALSE, !.hands = {"MANUAL"}, !.daily = TRUE,
               !.timeExit = TRUE, !.targets = {"PT1"}],
  [Base EXCEPT !.hybrid = TRUE, !.repeg = FALSE, !.restarts = TRUE, !.v2 = [V2 EXCEPT !.pt2 = 200, !.pt3 = 200]],
  [Base EXCEPT !.hybrid = TRUE, !.repeg = FALSE, !.v2 = [V2 EXCEPT !.trail = FALSE]]
}
=============================================================================
