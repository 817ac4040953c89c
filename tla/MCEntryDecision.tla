--------------------------- MODULE MCEntryDecision ---------------------------
EXTENDS EntryDecision

(* The multiples of the tick up to $7 whose binary quotient falls short.    *)
MCMisfloored == {15, 30, 35, 60, 70, 95, 115, 120, 140, 145, 165, 190, 205, 215, 230, 240, 255,
                 265, 280, 290, 330, 380, 410, 430, 460, 480, 510, 530, 560, 580, 610, 630, 660}

Base == [action |-> "BUY", lane |-> "plain", index |-> FALSE, tag |-> "none", stated |-> 0,
         watchOnly |-> FALSE, price |-> 115, cost |-> 0, left |-> 0, pct |-> 0,
         closeAll |-> FALSE, blank |-> FALSE, pt2 |-> FALSE]
MCAlerts ==
  {[Base EXCEPT !.tag = "LARGE"],
   [Base EXCEPT !.index = TRUE, !.stated = 4, !.price = 295],
   [Base EXCEPT !.lane = "whale", !.tag = "FULL", !.price = 140],
   [Base EXCEPT !.lane = "small", !.stated = 2, !.watchOnly = TRUE]} \cup
  {[Base EXCEPT !.action = "SELL", !.left = n, !.pct = 50, !.cost = 100, !.price = 300,
                !.blank = b, !.pt2 = t, !.watchOnly = t] : n \in {1, 3}, b, t \in BOOLEAN}

Plain == [spreadsOnly |-> FALSE, smallOnly |-> FALSE, blockZero |-> FALSE, honorQty |-> FALSE,
          ignoreQty |-> FALSE, symbolCap |-> NoCap, indexCap |-> NoCap, vixOn |-> FALSE,
          scorerOn |-> FALSE, minScore |-> 30, kellyOn |-> FALSE, riskPct |-> 2,
          whaleMax |-> 1, whaleCost |-> 500, mode |-> "live", exitMode |-> "live", cap |-> 5,
          slip |-> 5, repegCap |-> NoCap, band |-> 8, wide |-> 20, firstClosesAll |-> FALSE]
MCSettings ==
  {[Plain EXCEPT !.scorerOn = TRUE, !.kellyOn = TRUE, !.repegCap = 25],
   [Plain EXCEPT !.kellyOn = TRUE, !.indexCap = 2, !.mode = "max_live_alert"],
   [Plain EXCEPT !.vixOn = TRUE, !.kellyOn = TRUE, !.ignoreQty = TRUE],
   [Plain EXCEPT !.scorerOn = TRUE, !.symbolCap = 3, !.exitMode = "alert_first",
                 !.mode = "alert_first", !.repegCap = 25],
   [Plain EXCEPT !.spreadsOnly = TRUE, !.firstClosesAll = TRUE],
   [Plain EXCEPT !.smallOnly = TRUE, !.blockZero = TRUE, !.band = 0]}

H(w, l, won, lost) == [wins |-> w, losses |-> l, won |-> won, lost |-> lost, filled |-> w + l]
MCHistories == {H(1, 1, 10, 10), H(4, 1, 200, 10), H(3, 3, 60, 60), H(2, 4, 20, 200), H(0, 5, 0, 100)}
MCBooks == {[open |-> 0, same |-> 0, pnl |-> 200], [open |-> 4, same |-> 2, pnl |-> -200]}
=============================================================================
