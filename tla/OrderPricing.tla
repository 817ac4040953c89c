---------------------------- MODULE OrderPricing ----------------------------
(***************************************************************************)
(* The limit prices of app/execution/public_executor.py.                   *)
(*                                                                         *)
(* Quotes are whole cents.  A product of a quote with a percentage is      *)
(* exact in the code (Decimal) and here: raw prices count 1/10000 cent.    *)
(* The quotient raw / tick is not exact there: it is taken between binary  *)
(* floats, and for the quotes in Misfloored it falls short of the whole    *)
(* number it should be, which costs a SELL one tick.                       *)
(***************************************************************************)
EXTENDS Integers

CONSTANT Misfloored   \* quotes on the tick whose binary quotient is below its whole number

ASSUME MisflooredAssumption == Misfloored \subseteq {px \in 0..10000 : px % 5 = 0}

Unit == 10000
Greater(a, b) == IF a >= b THEN a ELSE b
Lesser(a, b) == IF a <= b THEN a ELSE b

(* px cents and pct per cent more, or less. *)
Raised(px, pct) == px * 100 * (100 + pct)
Lowered(px, pct) == px * 100 * (100 - pct)

(* $0.05 below $3, $0.10 from there. *)
TickSize(raw) == IF raw < 300 * Unit THEN 5 ELSE 10

TickUp(raw) ==
  LET t == TickSize(raw) IN t * ((raw + t * Unit - 1) \div (t * Unit))
TickDown(raw) ==
  LET t == TickSize(raw) IN t * (raw \div (t * Unit))
FloatTickDown(raw) ==
  TickDown(raw) - (IF raw % Unit = 0 /\ raw \div Unit \in Misfloored THEN TickSize(raw) ELSE 0)

-----------------------------------------------------------------------------
(* Orders *)

(* _compute_limit, of a base price that is raw. *)
LimitBuy(raw) == Greater(TickUp(raw), TickSize(raw))
LimitSell(raw) == Greater(FloatTickDown(raw), TickSize(raw))

(* Mutant: a tick is five cents whatever the price. *)
SnapDownNickel(raw) == Greater(5 * (raw \div (5 * Unit)), 5)

(* _snap_down_to_tick *)
SnapDown(raw) == Greater(TickDown(raw), TickSize(raw))

(* The price ran away: live is above the alert's by more than pct, and not  *)
(* so far above (twice) that the quote must be wrong.                       *)
RunsAway(price, live, pct) == Raised(price, pct) < live * Unit /\ live <= 2 * price

(* Mutant: a quote is chased wherever it goes. *)
BuyBaseUncapped(price, live, mode) ==
  IF mode = "alert_first" \/ live = 0 THEN price * 100 ELSE live * 100

(* The base of a BUY's limit, in 1/100 cent: the quote up to 8% above the   *)
(* alert, and with max_live_alert not below it; the alert without a quote.  *)
BuyBase(price, live, mode) ==
  IF mode = "alert_first" \/ live = 0 THEN price * 100
  ELSE LET capped == Lesser(live * 100, price * 108) IN
       IF mode = "max_live_alert" THEN Greater(capped, price * 100) ELSE capped

BuyLimit(price, live, mode, slip) ==
  LimitBuy(BuyBase(price, live, mode) * (100 + (IF mode = "alert_first" THEN 0 ELSE slip)))

(* _retry_buy_on_slippage_cooldown: cooled is under the cap again.          *)
Cooled(price, live, pct) == live > 0 /\ live * Unit <= Raised(price, pct)

(* quantize: to the nearest cent, a half to the even one.                   *)
NearestCent(r) ==
  LET c == r \div 100 IN
  IF r % 100 > 50 \/ (r % 100 = 50 /\ c % 2 = 1) THEN c + 1 ELSE c

(* _repeg_buy: the next limit, 0 to wait, -1 to stop at the cap.            *)
RepegBuy(price, live, cur, dead, slip, cap) ==
  LET new == TickUp(Raised(live, slip)) IN
  IF live = 0 \/ (~dead /\ live <= cur) THEN 0
  ELSE IF new > NearestCent(price * (100 + cap)) THEN -1
  ELSE IF ~dead /\ new <= cur THEN 0
  ELSE new

(* _resolve_sell_price: the alert's price, the mark, the cost, a nickel.    *)
SellBase(price, mark, cost) ==
  IF price > 0 THEN price ELSE IF mark > 0 THEN mark ELSE IF cost > 0 THEN cost ELSE 5

(* Mutant: the band is not applied. *)
ClampedNot(px, mark, band) == px

(* _clamp_sell_limit_to_band: not further above the mark than band.         *)
Clamped(px, mark, band) ==
  LET ceiling == Raised(mark, band) IN
  IF mark = 0 \/ band = 0 \/ px * Unit <= ceiling THEN px
  ELSE Greater(FloatTickDown(ceiling), TickSize(ceiling))

SellLimit(px, mode, slip, mark, band) ==
  Clamped(LimitSell(Lowered(px, IF mode = "alert_first" THEN 0 ELSE slip)), mark, band)

(* The SELL watchers: a tick under the bid, and the last time wide.         *)
RepegSell(live) == SnapDown((live - TickSize(live * Unit)) * Unit)
FinalSell(live, wide) == SnapDown(Lowered(live, wide))
FinalCloseAll(live, wide) == LimitSell(Lowered(live, wide))

(* A whole number of ticks, and at least one.                               *)
OnGrid(px) == px > 0 /\ px % TickSize(px * Unit) = 0
=============================================================================
