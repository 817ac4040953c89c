------------------------------- MODULE Sizing -------------------------------
(***************************************************************************)
(* How many contracts: public_executor._contracts_for_size, and the sizers *)
(* of app/risk (vix_sizer, ai_scorer, kelly_sizer).                        *)
(*                                                                         *)
(* A contract at a price of so many cents costs as many dollars, so prices *)
(* and budgets compare directly.                                           *)
(***************************************************************************)
EXTENDS Integers

CONSTANTS NoCap,     \* an absent limit
          HardCap    \* the most the scorer may recommend

ASSUME CapAssumption == HardCap \in Nat /\ NoCap \notin Nat

AtLeast(n, q) == IF q >= n THEN q ELSE n
AtMost(n, q) == IF q <= n THEN q ELSE n

(* size_xs .. size_xl, and size_default for no tag. *)
TagSize == [XS |-> 1, SMALL |-> 1, MEDIUM |-> 2, LARGE |-> 3, FULL |-> 4, XL |-> 5, none |-> 1]

-----------------------------------------------------------------------------
(* _contracts_for_size *)

(* apply_vix_sizing, in quarters: normal, elevated, high, extreme, and half *)
(* when there is no level or the cached one is too old.                     *)
Quarters == [normal |-> 4, elevated |-> 3, high |-> 2, extreme |-> 1, unknown |-> 2]

VixSized(q, vix) == AtLeast(1, (q * Quarters[vix]) \div 4)

(* A cap that bites ends the sizing: a capped count is not scaled by the    *)
(* VIX.  s is the settings, a the alert.                                    *)
ContractsForSize(a, s, vix) ==
  LET stated == a.stated > 0 /\ (s.honorQty \/ ~s.ignoreQty)
      asked  == IF stated THEN a.stated ELSE AtLeast(1, TagSize[a.tag]) IN
  IF s.symbolCap # NoCap /\ asked > s.symbolCap THEN s.symbolCap
  ELSE IF s.indexCap # NoCap /\ a.index /\ asked > s.indexCap THEN s.indexCap
  ELSE IF s.vixOn THEN VixSized(asked, vix) ELSE asked

-----------------------------------------------------------------------------
(* ai_scorer *)

(* _score_analyst: what closed of the last 30 days' filled alerts.          *)
AnalystPoints(h) ==
  LET n == h.wins + h.losses
      rate == (100 * h.wins) \div n
      base == IF rate >= 70 THEN 40 ELSE IF rate >= 60 THEN 33 ELSE IF rate >= 50 THEN 25
              ELSE IF rate >= 40 THEN 18 ELSE 10
      avg == h.won - h.lost IN
  IF n = 0 \/ h.filled < 3 THEN 20
  ELSE IF avg > 20 * n THEN AtMost(40, base + 5)
  ELSE IF avg < -10 * n THEN AtLeast(0, base - 5)
  ELSE base

TagPoints == [XL |-> 20, FULL |-> 18, LARGE |-> 16, MEDIUM |-> 12, SMALL |-> 8, XS |-> 5, none |-> 10]

(* _score_time_of_day: the upper ends of its bands are inclusive, the       *)
(* opening's lower one too.  minute is of New York's day, -1 a weekend.     *)
TimePoints(minute) ==
  IF minute < 0 THEN 5
  ELSE IF minute < 570 THEN 10 ELSE IF minute <= 630 THEN 20 ELSE IF minute <= 840 THEN 16
  ELSE IF minute <= 900 THEN 12 ELSE IF minute <= 930 THEN 7 ELSE IF minute <= 960 THEN 3 ELSE 5

(* _score_market_conditions: open positions, those in the symbol, the day.  *)
MarketPoints(b) ==
  LET crowd == IF b.open >= 4 THEN 8 ELSE IF b.open >= 2 THEN 3 ELSE 0
      same  == IF b.same >= 2 THEN 6 ELSE IF b.same = 1 THEN 2 ELSE 0
      day   == IF b.pnl < -100 THEN -5 ELSE IF b.pnl > 100 THEN 2 ELSE 0 IN
  AtLeast(0, AtMost(20, 20 - crowd - same + day))

RulesScore(h, tag, minute, b) ==
  AtMost(100, AnalystPoints(h) + TagPoints[tag] + TimePoints(minute) + MarketPoints(b))

(* Mutant: conviction doubles the count. *)
AdjustQuantityDoubled(q, score, minScore) ==
  IF score <= minScore THEN 0
  ELSE IF score <= 50 THEN AtMost(HardCap, 1)
  ELSE AtMost(HardCap, q * (IF score <= 70 THEN 1 ELSE IF score <= 85 THEN 2 ELSE 3))

AdjustQuantity(q, score, minScore) ==
  IF score <= minScore THEN 0
  ELSE IF score <= 50 THEN AtMost(HardCap, 1)
  ELSE AtMost(HardCap, q + (IF score <= 70 THEN 0 ELSE IF score <= 85 THEN 1 ELSE 2))

-----------------------------------------------------------------------------
(* kelly_sizer *)

(* f* = p - q/b as a fraction: with w wins of W per cent in all and l       *)
(* losses of L, b is (W/w) / (L/l).                                         *)
KellyNum(h) == IF h.losses = 0 THEN 1
               ELSE IF h.lost = 0 THEN h.wins - h.losses
               ELSE h.wins * (h.won - h.lost)
KellyDen(h) == IF h.losses = 0 THEN 1
               ELSE IF h.lost = 0 THEN h.wins + h.losses
               ELSE (h.wins + h.losses) * h.won

(* No payoff: nothing was ever won, and what was lost was more than zero.   *)
NoPayoff(h) == h.wins = 0 /\ h.lost > 0

RiskCap(price, balance, s) == AtLeast(1, (balance * s.riskPct) \div (100 * price))

(* calculate_kelly_contracts and apply_kelly_cap: under five trades the     *)
(* risk cap alone; no balance or no payoff, no cap; half Kelly within the   *)
(* risk cap; zero without an edge.                                          *)
KellyCap(price, balance, h, s) ==
  IF price <= 0 \/ balance <= 0 THEN NoCap
  ELSE IF h.wins + h.losses < 5 THEN RiskCap(price, balance, s)
  ELSE IF NoPayoff(h) THEN NoCap
  ELSE IF KellyNum(h) <= 0 THEN 0
  ELSE AtMost(RiskCap(price, balance, s),
              AtLeast(1, (balance * KellyNum(h)) \div (2 * KellyDen(h) * price)))

(* Rounded to four places the fraction is below zero: the trade is blocked. *)
NoEdge(h) == 20000 * KellyNum(h) < -KellyDen(h)
=============================================================================
