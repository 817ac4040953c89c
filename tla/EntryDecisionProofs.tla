------------------------ MODULE EntryDecisionProofs ------------------------
(***************************************************************************)
(* Proofs that every limit of EntryDecision is on the broker's grid, and   *)
(* that the caps on its counts hold, for any alerts, settings, histories,  *)
(* balances and quotes of InputAssumption.                                 *)
(***************************************************************************)
EXTENDS EntryDecision, TLAPS

(***************************************************************************)
(* Limits                                                                  *)
(***************************************************************************)

LEMMA Grid ==
  ASSUME NEW px \in Int, px > 0, px % 10 = 0 \/ (px % 5 = 0 /\ px =< 300)
  PROVE  OnGrid(px)
<1>1. px % 5 = 0
      OBVIOUS
<1>2. CASE px < 300
  <2>1. TickSize(px * Unit) = 5
        BY <1>2 DEF TickSize, Unit
  <2>2. QED BY <1>1, <2>1 DEF OnGrid
<1>3. CASE px >= 300
  <2>1. TickSize(px * Unit) = 10
        BY <1>3 DEF TickSize, Unit
  <2>2. px % 10 = 0
        BY <1>3
  <2>3. QED BY <2>1, <2>2 DEF OnGrid
<1>4. QED BY <1>2, <1>3

LEMMA Ups ==
  ASSUME NEW raw \in Int
  PROVE  /\ TickUp(raw) \in Int
         /\ TickUp(raw) % 10 = 0 \/ (TickUp(raw) % 5 = 0 /\ TickUp(raw) =< 300)
         /\ raw >= 300 * Unit => TickUp(raw) >= 300
         /\ raw >= 0 => TickUp(raw) >= 0
<1>1. CASE raw < 300 * Unit
  <2>1. PICK k \in Int : k = (raw + 5 * Unit - 1) \div (5 * Unit)
        BY DEF Unit
  <2>2. TickUp(raw) = 5 * k
        BY <1>1, <2>1 DEF TickUp, TickSize
  <2>3. k =< 60 /\ (raw >= 0 => k >= 0)
        BY <1>1, <2>1 DEF Unit
  <2>4. (5 * k) % 5 = 0
        OBVIOUS
  <2>5. QED BY <1>1, <2>2, <2>3, <2>4 DEF Unit
<1>2. CASE ~(raw < 300 * Unit)
  <2>1. PICK k \in Int : k = (raw + 10 * Unit - 1) \div (10 * Unit)
        BY DEF Unit
  <2>2. TickUp(raw) = 10 * k
        BY <1>2, <2>1 DEF TickUp, TickSize
  <2>3. k >= 30
        BY <1>2, <2>1 DEF Unit
  <2>4. (10 * k) % 10 = 0
        OBVIOUS
  <2>5. QED BY <2>2, <2>3, <2>4
<1>3. QED BY <1>1, <1>2

LEMMA Downs ==
  ASSUME NEW raw \in Int
  PROVE  /\ TickDown(raw) \in Int
         /\ raw < 300 * Unit => TickDown(raw) % 5 = 0 /\ TickDown(raw) =< 300
         /\ raw >= 300 * Unit => TickDown(raw) % 10 = 0 /\ TickDown(raw) >= 300
<1>1. CASE raw < 300 * Unit
  <2>1. PICK k \in Int : k = raw \div (5 * Unit)
        BY DEF Unit
  <2>2. TickDown(raw) = 5 * k
        BY <1>1, <2>1 DEF TickDown, TickSize
  <2>3. k =< 60
        BY <1>1, <2>1 DEF Unit
  <2>4. (5 * k) % 5 = 0
        OBVIOUS
  <2>5. QED BY <1>1, <2>2, <2>3, <2>4 DEF Unit
<1>2. CASE raw >= 300 * Unit
  <2>1. PICK k \in Int : k = raw \div (10 * Unit)
        BY DEF Unit
  <2>2. TickDown(raw) = 10 * k
        BY <1>2, <2>1 DEF TickDown, TickSize, Unit
  <2>3. k >= 30
        BY <1>2, <2>1 DEF Unit
  <2>4. (10 * k) % 10 = 0
        OBVIOUS
  <2>5. QED BY <1>2, <2>2, <2>3, <2>4 DEF Unit
<1>3. QED BY <1>1, <1>2 DEF Unit

LEMMA BuyOnGrid ==
  ASSUME NEW raw \in Int
  PROVE  LimitBuy(raw) \in Nat /\ OnGrid(LimitBuy(raw))
<1>1. CASE raw < 300 * Unit
  <2>1. TickSize(raw) = 5
        BY <1>1 DEF TickSize
  <2>2. CASE TickUp(raw) >= 5
        BY <2>1, <2>2, Ups, Grid DEF LimitBuy, Greater
  <2>3. CASE ~(TickUp(raw) >= 5)
        BY <2>1, <2>3, Grid DEF LimitBuy, Greater
  <2>4. QED BY <2>2, <2>3
<1>2. CASE ~(raw < 300 * Unit)
  <2>1. TickSize(raw) = 10 /\ TickUp(raw) >= 300
        BY <1>2, Ups DEF TickSize, Unit
  <2>2. LimitBuy(raw) = TickUp(raw)
        BY <2>1, Ups DEF LimitBuy, Greater
  <2>3. QED BY <2>1, <2>2, Ups, Grid
<1>3. QED BY <1>1, <1>2

(* A quote that is floored a tick too low is still on the grid, at $3 too.  *)
LEMMA SellOnGrid ==
  ASSUME NEW raw \in Int
  PROVE  LimitSell(raw) \in Nat /\ OnGrid(LimitSell(raw))
<1>1. FloatTickDown(raw) = TickDown(raw) \/ FloatTickDown(raw) = TickDown(raw) - TickSize(raw)
      BY Downs DEF FloatTickDown, TickSize
<1>2. CASE raw < 300 * Unit
  <2>1. TickSize(raw) = 5
        BY <1>2 DEF TickSize
  <2>2. FloatTickDown(raw) \in Int /\ FloatTickDown(raw) % 5 = 0 /\ FloatTickDown(raw) =< 300
        BY <1>1, <1>2, <2>1, Downs
  <2>3. CASE FloatTickDown(raw) >= 5
        BY <2>1, <2>2, <2>3, Grid DEF LimitSell, Greater
  <2>4. CASE ~(FloatTickDown(raw) >= 5)
        BY <2>1, <2>4, Grid DEF LimitSell, Greater
  <2>5. QED BY <2>3, <2>4
<1>3. CASE raw >= 300 * Unit
  <2>1. TickSize(raw) = 10
        BY <1>3 DEF TickSize, Unit
  <2>2. FloatTickDown(raw) \in Int /\ FloatTickDown(raw) % 10 = 0 /\ FloatTickDown(raw) >= 290
        BY <1>1, <1>3, <2>1, Downs
  <2>3. LimitSell(raw) = FloatTickDown(raw)
        BY <2>1, <2>2 DEF LimitSell, Greater
  <2>4. QED BY <2>2, <2>3, Grid
<1>4. QED BY <1>2, <1>3 DEF Unit

LEMMA SnapOnGrid ==
  ASSUME NEW raw \in Int
  PROVE  SnapDown(raw) \in Nat /\ OnGrid(SnapDown(raw))
<1>1. CASE raw < 300 * Unit
  <2>1. TickSize(raw) = 5
        BY <1>1 DEF TickSize
  <2>2. CASE TickDown(raw) >= 5
        BY <1>1, <2>1, <2>2, Downs, Grid DEF SnapDown, Greater
  <2>3. CASE ~(TickDown(raw) >= 5)
        BY <2>1, <2>3, Grid DEF SnapDown, Greater
  <2>4. QED BY <2>2, <2>3
<1>2. CASE raw >= 300 * Unit
  <2>1. TickSize(raw) = 10 /\ TickDown(raw) >= 300
        BY <1>2, Downs DEF TickSize, Unit
  <2>2. SnapDown(raw) = TickDown(raw)
        BY <2>1, Downs DEF SnapDown, Greater
  <2>3. QED BY <1>2, <2>1, <2>2, Downs, Grid
<1>3. QED BY <1>1, <1>2 DEF Unit

LEMMA ClampedOnGrid ==
  ASSUME NEW px \in Nat, NEW mark \in Nat, NEW band \in Nat, OnGrid(px)
  PROVE  Clamped(px, mark, band) \in Nat /\ OnGrid(Clamped(px, mark, band))
<1>1. Raised(mark, band) \in Int
      BY DEF Raised
<1>2. Clamped(px, mark, band) = px \/ Clamped(px, mark, band) = LimitSell(Raised(mark, band))
      BY DEF Clamped, LimitSell
<1>3. QED BY <1>1, <1>2, SellOnGrid

(* What each kind of order asks for. *)
LEMMA EntryOnGrid ==
  ASSUME NEW price \in Nat, NEW live \in Nat, NEW mode, NEW slip \in Nat
  PROVE  OnGrid(BuyLimit(price, live, mode, slip)) /\ OnGrid(LimitBuy(Raised(live, slip)))
<1>1. BuyBase(price, live, mode) \in Int
      BY DEF BuyBase, Greater, Lesser
<1>2. BuyBase(price, live, mode) * (100 + (IF mode = "alert_first" THEN 0 ELSE slip)) \in Int
      BY <1>1
<1>3. Raised(live, slip) \in Int
      BY DEF Raised
<1>4. QED BY <1>2, <1>3, BuyOnGrid DEF BuyLimit

LEMMA RepegOnGrid ==
  ASSUME NEW price, NEW live \in Nat, NEW cur, NEW dead, NEW slip \in Nat, NEW cap,
         RepegBuy(price, live, cur, dead, slip, cap) \notin {0, -1}
  PROVE  OnGrid(RepegBuy(price, live, cur, dead, slip, cap))
<1> DEFINE raw == Raised(live, slip)
<1>1. raw \in Int /\ raw >= 0
  <2>1. live * 100 \in Nat /\ 100 + slip \in Nat
        OBVIOUS
  <2>2. \A x, y \in Nat : x * y \in Nat
        OBVIOUS
  <2>3. QED BY <2>1, <2>2 DEF Raised
<1> HIDE DEF raw
<1>2. RepegBuy(price, live, cur, dead, slip, cap) = TickUp(raw) /\ TickUp(raw) # 0
      BY DEF RepegBuy, raw
<1>3. TickUp(raw) > 0
      BY <1>1, <1>2, Ups
<1>4. QED BY <1>1, <1>2, <1>3, Ups, Grid

LEMMA ExitOnGrid ==
  ASSUME NEW px \in Nat, NEW mode, NEW slip \in Nat, NEW mark \in Nat, NEW band \in Nat
  PROVE  OnGrid(SellLimit(px, mode, slip, mark, band))
<1> DEFINE raw == Lowered(px, IF mode = "alert_first" THEN 0 ELSE slip)
<1>1. raw \in Int
      BY DEF Lowered
<1> HIDE DEF raw
<1>2. LimitSell(raw) \in Nat /\ OnGrid(LimitSell(raw))
      BY <1>1, SellOnGrid
<1>3. QED BY <1>2, ClampedOnGrid DEF SellLimit, raw

LEMMA ChaseOnGrid ==
  ASSUME NEW live \in Nat, NEW wide \in Nat
  PROVE  \A px \in {RepegSell(live), FinalSell(live, wide), FinalCloseAll(live, wide)} :
           px \in Nat /\ OnGrid(px)
<1>1. (live - TickSize(live * Unit)) * Unit \in Int
      BY DEF TickSize, Unit
<1>2. Lowered(live, wide) \in Int
      BY DEF Lowered
<1>3. QED BY <1>1, <1>2, SnapOnGrid, SellOnGrid DEF RepegSell, FinalSell, FinalCloseAll

Given == alert \in AlertsIn /\ set \in Settings

LEMMA GivenKept ==
  Spec => []Given
<1>1. Init => Given
      BY DEF Init, Given
<1>2. Given /\ [Next]_vars => Given'
      BY DEF Given, Next, vars, given, VixMoves, Gates, Reenters, Whale, Guards, Scored, Kellied, Tagged,
             Buys, CoolsDown, Repegs, Sells, Chases
<1>3. QED BY <1>1, <1>2, PTL DEF Spec

LEMMA GridStep ==
  ASSUME Given, OnTick, [Next]_vars
  PROVE  OnTick'
<1>1. /\ alert.price \in Nat /\ alert.cost \in Nat
      /\ set.slip \in Nat /\ set.band \in Nat /\ set.wide \in Nat
      BY InputAssumption DEF Given
<1>2. \A live \in Quotes : live \in Nat
      BY InputAssumption
<1>3. SUFFICES ASSUME Sent' PROVE OnGrid(limit')
      BY DEF OnTick
<1>4. CASE VixMoves \/ Gates \/ Reenters \/ Whale \/ Guards \/ Scored \/ Kellied \/ Tagged
      BY <1>3, <1>4 DEF Sent, VixMoves, Gates, Reenters, Whale, Guards, Scored, Kellied, Tagged, Goes
<1>5. CASE Buys
  <2>1. PICK live \in Quotes : limit' = BuyLimit(alert.price, live, set.mode, set.slip)
        BY <1>3, <1>5 DEF Sent, Buys, Goes
  <2>2. QED BY <1>1, <1>2, <2>1, EntryOnGrid
<1>6. CASE CoolsDown
  <2>1. PICK live \in Quotes : limit' = LimitBuy(Raised(live, set.slip))
        BY <1>6 DEF CoolsDown
  <2>2. QED BY <1>1, <1>2, <2>1, EntryOnGrid
<1>7. CASE Repegs
  <2>1. PICK live \in Quotes, dead \in BOOLEAN :
          LET new == RepegBuy(alert.price, live, limit, dead, set.slip, set.repegCap) IN
          /\ new # 0
          /\ IF new = -1 THEN Goes("stopped") /\ UNCHANGED limit ELSE Goes("repegged") /\ limit' = new
        BY <1>7 DEF Repegs
  <2> DEFINE new == RepegBuy(alert.price, live, limit, dead, set.slip, set.repegCap)
  <2>2. new \notin {0, -1} /\ limit' = new
        BY <1>3, <2>1 DEF Sent, Goes
  <2>3. QED BY <1>1, <1>2, <2>2, RepegOnGrid
<1>8. CASE Sells
  <2>1. PICK mark \in Quotes : limit' = SellLimit(SellBase(IF alert.blank THEN 0 ELSE alert.price, mark, alert.cost),
                                                  IF alert.blank THEN "live" ELSE set.exitMode,
                                                  set.slip, mark, set.band)
        BY <1>3, <1>8 DEF Sent, Sells, Goes
  <2>2. SellBase(IF alert.blank THEN 0 ELSE alert.price, mark, alert.cost) \in Nat
        BY <1>1, <1>2 DEF SellBase
  <2>3. QED BY <1>1, <1>2, <2>1, <2>2, ExitOnGrid
<1>9. CASE Chases
  <2>1. PICK live \in Quotes, mark \in Quotes, final \in BOOLEAN, all \in BOOLEAN :
          LET px == IF ~final THEN RepegSell(live)
                    ELSE IF all THEN FinalCloseAll(live, set.wide) ELSE FinalSell(live, set.wide) IN
          limit' = IF all THEN Clamped(px, mark, set.band) ELSE px
        BY <1>9 DEF Chases
  <2> DEFINE px == IF ~final THEN RepegSell(live)
                   ELSE IF all THEN FinalCloseAll(live, set.wide) ELSE FinalSell(live, set.wide)
  <2>2. px \in Nat /\ OnGrid(px)
        BY <1>1, <1>2, ChaseOnGrid
  <2>3. limit' = Clamped(px, mark, set.band) \/ limit' = px
        BY <2>1
  <2> HIDE DEF px
  <2>4. OnGrid(Clamped(px, mark, set.band))
        BY <1>1, <1>2, <2>2, ClampedOnGrid
  <2>5. QED BY <2>2, <2>3, <2>4
<1>10. CASE UNCHANGED vars
      BY <1>3, <1>10 DEF OnTick, Sent, vars
<1>11. QED BY <1>4, <1>5, <1>6, <1>7, <1>8, <1>9, <1>10 DEF Next

(* Every limit sent, of an entry, a cooled retry, a re-peg, an exit, a      *)
(* chase or a clamp, is a whole number of the broker's ticks and at least   *)
(* one, for any prices, quotes, slippages and bands, and for any quotes the *)
(* binary division floors a tick too low.                                   *)
THEOREM LimitsOnGrid == Spec => []OnTick
<1>1. Init => OnTick
      BY DEF Init, OnTick, Sent
<1>2. Given /\ OnTick /\ [Next]_vars => OnTick'
      BY GridStep
<1>3. QED BY <1>1, <1>2, GivenKept, PTL DEF Spec

(***************************************************************************)
(* Counts                                                                  *)
(***************************************************************************)

Staged == {"reentry", "whale", "guard", "score", "kelly", "tag", "buy"}
Ordered == {"cooling", "placed", "repegged"}
Bonus == IF set.scorerOn /\ ~alert.index THEN 2 ELSE 0
Watched == ~override /\ alert.lane # "whale" /\ ~set.vixOn

Shapes ==
  /\ Given /\ vix \in Levels /\ override \in BOOLEAN
  /\ scored \in Nat \cup {NoCap} /\ kelly \in Nat \cup {NoCap}
  /\ scored = 0 => kelly = 0

(* Who has not come to a stage yet has no count of it. *)
StagesOrdered ==
  /\ pc \in {"gates", "reentry", "whale", "guard", "score"} => scored = NoCap
  /\ pc \in {"gates", "reentry", "whale", "guard", "score", "kelly"} => kelly = NoCap /\ ~override
  /\ pc \in {"gates", "reentry"} => reentry = "ok"
  /\ pc \in {"score", "kelly", "tag", "buy"} => Buying
  /\ pc = "tag" => ~override
  /\ pc = "sell" => ~Buying
  /\ override => scored = NoCap /\ kelly = NoCap /\ reentry = "ok"
  /\ ~Buying => kelly = NoCap /\ reentry = "ok"

(* The variable, from the first sizing on. *)
CountKept ==
  /\ pc \in Staged /\ ~override => qty \in Nat \ {0}
  /\ pc \in Staged /\ ~override /\ ~set.vixOn => qty =< Size
  /\ pc \in Staged /\ Watched /\ reentry # "probe" => qty = Size
  /\ pc \in Staged /\ reentry = "probe" => qty = 1 /\ alert.index
  /\ pc \in {"score", "kelly", "tag", "buy"} /\ ~override => checked = qty

(* The attribute, from the scorer on: what _buy will order. *)
CapsKept ==
  /\ pc \in {"kelly", "tag"} /\ reentry # "probe" /\ scored \in Nat \ {0} /\ Watched => scored =< qty + Bonus
  /\ pc \in {"tag", "buy"} /\ ~set.vixOn /\ kelly \in Nat \ {0} => Current =< kelly
  /\ pc = "buy" /\ reentry = "probe" /\ kelly # 0 => scored = 1
  /\ pc = "buy" /\ Watched /\ kelly # 0 => Current =< checked + Bonus

OrderKept ==
  /\ pc \in Ordered /\ reentry = "probe" /\ kelly # 0 => ordered = 1
  /\ pc \in Ordered /\ kelly \in Nat \ {0} /\ ~set.vixOn => ordered =< kelly
  /\ pc \in Ordered /\ Buying /\ Watched /\ kelly # 0 => ordered =< checked + Bonus

CountInv == Shapes /\ StagesOrdered /\ CountKept /\ CapsKept /\ OrderKept

LEMMA SizeFine ==
  ASSUME Given, vix \in Levels
  PROVE  Size \in Nat \ {0}
<1>1. /\ alert.stated \in Nat /\ alert.tag \in DOMAIN TagSize
      /\ set.symbolCap \in (Nat \ {0}) \cup {NoCap} /\ set.indexCap \in (Nat \ {0}) \cup {NoCap}
      /\ vix \in DOMAIN Quarters
      BY InputAssumption DEF Given
<1>2. TagSize[alert.tag] \in Nat
      BY <1>1 DEF TagSize
<1>3. Quarters[vix] \in Nat
      BY <1>1 DEF Quarters
<1> DEFINE stated == alert.stated > 0 /\ (set.honorQty \/ ~set.ignoreQty)
           asked == IF stated THEN alert.stated ELSE AtLeast(1, TagSize[alert.tag])
<1>4. asked \in Nat \ {0}
      BY <1>1, <1>2 DEF AtLeast
<1> HIDE DEF stated
<1>5. Size = IF set.symbolCap # NoCap /\ asked > set.symbolCap THEN set.symbolCap
             ELSE IF set.indexCap # NoCap /\ alert.index /\ asked > set.indexCap THEN set.indexCap
             ELSE IF set.vixOn THEN VixSized(asked, vix) ELSE asked
      BY DEF Size, ContractsForSize, stated
<1> HIDE DEF asked
<1>6. VixSized(asked, vix) \in Nat \ {0}
  <2>1. asked * Quarters[vix] \in Int
        BY <1>3, <1>4
  <2>2. (asked * Quarters[vix]) \div 4 \in Int
        BY <2>1
  <2>3. QED BY <2>2 DEF VixSized, AtLeast
<1>7. QED BY <1>1, <1>4, <1>5, <1>6

LEMMA AdjustFine ==
  ASSUME NEW q \in Nat \ {0}, NEW score, NEW minScore
  PROVE  AdjustQuantity(q, score, minScore) \in Nat /\ AdjustQuantity(q, score, minScore) =< q + 2
<1>1. HardCap \in Nat
      BY CapAssumption
<1>2. AdjustQuantity(q, score, minScore) \in
        {0, AtMost(HardCap, 1), AtMost(HardCap, q + 0), AtMost(HardCap, q + 1), AtMost(HardCap, q + 2)}
      BY DEF AdjustQuantity
<1>3. \A n \in Nat : AtMost(HardCap, n) \in Nat /\ AtMost(HardCap, n) =< n
      BY <1>1 DEF AtMost
<1>4. QED BY <1>2, <1>3

LEMMA KellyFine ==
  ASSUME Given, NEW h \in Histories, NEW balance \in Balances
  PROVE  KellyCap(alert.price, balance, h, set) \in Nat \cup {NoCap}
<1> DEFINE price == alert.price
           risk == RiskCap(price, balance, set)
           num == KellyNum(h)
           den == KellyDen(h)
           half == (balance * num) \div (2 * den * price)
<1>1. /\ price \in Nat \ {0} /\ balance \in Nat /\ set.riskPct \in Nat
      /\ h.wins \in Nat /\ h.losses \in Nat /\ h.won \in Nat /\ h.lost \in Nat
      /\ h.wins > 0 => h.won > 0
      BY InputAssumption DEF Given
<1>2. \A x, y \in Nat \ {0} : x * y \in Nat \ {0}
      OBVIOUS
<1> HIDE DEF price
<1>3. risk \in Nat
  <2>1. balance * set.riskPct \in Int /\ 100 * price \in Nat \ {0}
        BY <1>1, <1>2
  <2>2. (balance * set.riskPct) \div (100 * price) \in Int
        BY <2>1
  <2>3. QED BY <2>2 DEF RiskCap, AtLeast
<1>4. num \in Int
      BY <1>1 DEF KellyNum
<1>5. h.wins + h.losses >= 5 /\ ~NoPayoff(h) => den \in Nat \ {0}
  <2>1. SUFFICES ASSUME h.wins + h.losses >= 5, ~NoPayoff(h) PROVE den \in Nat \ {0}
        OBVIOUS
  <2>2. CASE h.losses = 0
        BY <2>2 DEF KellyDen
  <2>3. CASE h.losses # 0 /\ h.lost = 0
        BY <1>1, <2>1, <2>3 DEF KellyDen
  <2>4. CASE h.losses # 0 /\ h.lost # 0
    <3>1. h.won \in Nat \ {0} /\ h.wins + h.losses \in Nat \ {0}
          BY <1>1, <2>1, <2>4 DEF NoPayoff
    <3>2. QED BY <1>2, <2>4, <3>1 DEF KellyDen
  <2>5. QED BY <2>2, <2>3, <2>4
<1> HIDE DEF num, den, risk
<1>6. den \in Nat \ {0} => AtMost(risk, AtLeast(1, half)) \in Nat
  <2>1. SUFFICES ASSUME den \in Nat \ {0} PROVE AtMost(risk, AtLeast(1, half)) \in Nat
        OBVIOUS
  <2>2. 2 * den \in Nat \ {0}
        BY <2>1
  <2>3. 2 * den * price \in Nat \ {0}
        BY <1>1, <1>2, <2>2
  <2>4. balance * num \in Int
        BY <1>1, <1>4
  <2>5. half \in Int
        BY <2>3, <2>4
  <2> HIDE DEF half
  <2>6. QED BY <1>3, <2>5 DEF AtMost, AtLeast
<1>7. KellyCap(price, balance, h, set) =
        IF price <= 0 \/ balance <= 0 THEN NoCap
        ELSE IF h.wins + h.losses < 5 THEN risk
        ELSE IF NoPayoff(h) THEN NoCap
        ELSE IF num <= 0 THEN 0
        ELSE AtMost(risk, AtLeast(1, half))
      BY DEF KellyCap, num, den, risk
<1> HIDE DEF half
<1>8. QED BY <1>1, <1>3, <1>5, <1>6, <1>7 DEF price

(* Steps after the count was ordered, and the refresher's. *)
LEMMA CountsStand ==
  ASSUME CountInv, VixMoves \/ CoolsDown \/ Repegs \/ Chases \/ UNCHANGED vars
  PROVE  CountInv'
<1>1. CASE VixMoves
  <2>1. /\ set.vixOn /\ vix' \in Levels
        /\ UNCHANGED <<pc, alert, set, override, qty, checked, scored, reentry, kelly, ordered>>
        BY <1>1 DEF VixMoves, given, sizes
  <2>2. Shapes' /\ StagesOrdered'
        BY <2>1 DEF CountInv, Shapes, Given, StagesOrdered, Buying
  <2>3. CountKept' /\ CapsKept' /\ OrderKept'
        BY <2>1 DEF CountInv, CountKept, CapsKept, OrderKept, Watched, Buying
  <2>4. QED BY <2>2, <2>3 DEF CountInv
<1>2. CASE CoolsDown \/ Repegs \/ Chases
  <2>1. /\ pc \in Ordered /\ pc' \in Ordered \cup {"stopped"}
        /\ UNCHANGED <<alert, set, override, vix, qty, checked, scored, reentry, kelly, ordered>>
        BY <1>2 DEF CoolsDown, Repegs, Chases, Goes, Ordered, given, sizes
  <2>2. pc' \notin {"gates", "sell"} \cup Staged
        BY <2>1 DEF Ordered, Staged
  <2>3. Shapes' /\ StagesOrdered'
        BY <2>1, <2>2 DEF CountInv, Shapes, Given, StagesOrdered, Buying, Staged
  <2>4. CountKept' /\ CapsKept'
        BY <2>2 DEF CountKept, CapsKept, Staged
  <2>5. OrderKept'
        BY <2>1 DEF CountInv, OrderKept, Watched, Buying, Bonus
  <2>6. QED BY <2>3, <2>4, <2>5 DEF CountInv
<1>3. CASE UNCHANGED vars
      BY <1>3 DEF vars, CountInv, Shapes, Given, StagesOrdered, CountKept, CapsKept, OrderKept,
                  Watched, Buying, Bonus, Size, Current
<1>4. QED BY <1>1, <1>2, <1>3

(* An alert that is dropped, or sold. *)
LEMMA LeavesFine ==
  ASSUME CountInv, UNCHANGED <<alert, set, override, vix, scored, kelly>>,
         pc' \in {"skipped", "blocked", "muted", "sell"}, ~override,
         ~Buying => reentry' = "ok", pc' = "sell" => ~Buying
  PROVE  CountInv'
<1>1. Shapes' /\ StagesOrdered'
      BY DEF CountInv, Shapes, Given, StagesOrdered, Buying
<1>2. CountKept' /\ CapsKept' /\ OrderKept'
      BY DEF CountKept, CapsKept, OrderKept, Staged, Ordered
<1>3. QED BY <1>1, <1>2 DEF CountInv

LEMMA SizesAlike ==
  ASSUME UNCHANGED <<alert, set, vix>>
  PROVE  Size' = Size
BY DEF Size

LEMMA EarlyStages ==
  ASSUME CountInv, Gates \/ Reenters \/ Whale \/ Guards
  PROVE  CountInv'
<1>1. /\ UNCHANGED <<alert, set, override, vix, scored, kelly>>
      /\ pc \in {"gates", "reentry", "whale", "guard"} /\ ~override /\ scored = NoCap /\ kelly = NoCap
      BY DEF CountInv, StagesOrdered, Gates, Reenters, Whale, Guards, given
<1>2. Size' = Size /\ Size \in Nat \ {0}
      BY <1>1, SizesAlike, SizeFine DEF CountInv, Shapes
<1>3. ~Buying => reentry = "ok"
      BY DEF CountInv, StagesOrdered
<1>4. Shapes'
      BY <1>1 DEF CountInv, Shapes, Given
<1>5. set.whaleMax \in Nat \ {0}
      BY InputAssumption DEF CountInv, Shapes, Given
<1>6. ASSUME pc' \in {"reentry", "whale", "guard", "score"}, StagesOrdered', CountKept'
      PROVE  CountInv'
  <2>1. CapsKept' /\ OrderKept'
        BY <1>6 DEF CapsKept, OrderKept, Ordered
  <2>2. QED BY <1>4, <1>6, <2>1 DEF CountInv
<1>7. CASE Gates
  <2>1. CASE pc' = "skipped"
        BY <1>1, <1>3, <1>7, <2>1, LeavesFine DEF Gates
  <2>2. CASE pc' # "skipped"
    <3>1. pc' = "reentry" /\ qty' = Size /\ reentry' = reentry /\ reentry = "ok"
          BY <1>7, <2>2 DEF Gates, Goes, CountInv, StagesOrdered
    <3>2. StagesOrdered' /\ CountKept'
          BY <1>1, <1>2, <3>1 DEF StagesOrdered, CountKept
    <3>3. QED BY <1>6, <3>1, <3>2
  <2>3. QED BY <2>1, <2>2
<1>8. CASE Reenters
  <2>1. PICK r \in IF Buying THEN Reentries ELSE {"ok"} :
          /\ r = "probe" => alert.index
          /\ reentry' = r
          /\ Goes(IF r = "reject" THEN "skipped" ELSE "whale")
          /\ qty' = IF r = "probe" THEN AtMost(1, qty) ELSE qty
        BY <1>8 DEF Reenters
  <2>2. ~Buying => reentry' = "ok"
        BY <2>1
  <2>3. CASE pc' = "skipped"
        BY <1>1, <2>2, <2>3, LeavesFine
  <2>4. CASE pc' # "skipped"
    <3>1. pc' = "whale"
          BY <2>1, <2>4 DEF Goes
    <3>2. /\ qty \in Nat \ {0} /\ (~set.vixOn => qty =< Size)
          /\ Watched => qty = Size
          BY <1>1, <1>8 DEF CountInv, CountKept, Staged, Reenters, Watched, StagesOrdered
    <3>3. qty' = IF reentry' = "probe" THEN 1 ELSE qty
          BY <2>1, <3>2 DEF AtMost
    <3>4. CountKept'
          BY <1>1, <1>2, <2>1, <3>1, <3>2, <3>3 DEF CountKept, Watched
    <3>5. StagesOrdered'
          BY <1>1, <2>2, <3>1 DEF StagesOrdered, Buying
    <3>6. QED BY <1>6, <3>1, <3>4, <3>5
  <2>5. QED BY <2>3, <2>4
<1>9. CASE Whale
  <2>1. reentry' = reentry /\ pc = "whale" /\ pc' \in {"skipped", "guard"}
        BY <1>9 DEF Whale, Goes
  <2>2. CASE pc' = "skipped"
        BY <1>1, <1>3, <2>1, <2>2, LeavesFine
  <2>3. CASE pc' = "guard"
    <3>1. /\ qty \in Nat \ {0} /\ (~set.vixOn => qty =< Size)
          /\ Watched /\ reentry # "probe" => qty = Size
          /\ reentry = "probe" => qty = 1 /\ alert.index
          BY <1>1, <2>1 DEF CountInv, CountKept, Staged, Watched
    <3>2. qty' = IF Buying /\ alert.lane = "whale" THEN AtMost(set.whaleMax, qty) ELSE qty
          BY <1>9 DEF Whale
    <3>3. qty' \in Nat \ {0} /\ qty' =< qty /\ (alert.lane # "whale" => qty' = qty)
          BY <1>5, <3>1, <3>2 DEF AtMost
    <3>4. CountKept'
          BY <1>1, <1>2, <2>1, <2>3, <3>1, <3>3 DEF CountKept, Watched
    <3>5. StagesOrdered'
          BY <1>1, <1>3, <2>1, <2>3 DEF StagesOrdered, Buying
    <3>6. QED BY <1>6, <2>3, <3>4, <3>5
  <2>4. QED BY <2>1, <2>2, <2>3
<1>10. CASE Guards
  <2>1. /\ reentry' = reentry /\ pc = "guard" /\ qty' = qty /\ checked' = qty
        /\ pc' = "blocked" \/ (pc' = "sell" /\ ~Buying) \/ (pc' = "score" /\ Buying)
        BY <1>10 DEF Guards, Goes
  <2>2. CASE pc' = "blocked" \/ (pc' = "sell" /\ ~Buying)
        BY <1>1, <1>3, <2>1, <2>2, LeavesFine
  <2>3. CASE pc' = "score" /\ Buying
    <3>1. CountKept'
          BY <1>1, <1>2, <2>1, <2>3 DEF CountInv, CountKept, Staged, Watched
    <3>2. StagesOrdered'
          BY <1>1, <1>3, <2>1, <2>3 DEF StagesOrdered, Buying
    <3>3. QED BY <1>6, <2>3, <3>1, <3>2
  <2>4. QED BY <2>1, <2>2, <2>3
<1>11. QED BY <1>7, <1>8, <1>9, <1>10

LEMMA CountStays ==
  ASSUME CountInv, UNCHANGED <<alert, set, override, vix, qty, checked, reentry>>,
         pc \in {"score", "kelly", "tag"}, pc' \in {"kelly", "tag", "buy"}
  PROVE  CountKept'
<1>1. Size' = Size
      BY SizesAlike
<1>2. QED BY <1>1 DEF CountInv, CountKept, Staged, Watched

LEMMA ScoredKeeps ==
  ASSUME CountInv, Scored
  PROVE  CountInv'
<1>1. /\ UNCHANGED <<alert, set, override, vix, qty, checked, reentry, kelly>>
      /\ pc = "score" /\ ~override /\ scored = NoCap /\ kelly = NoCap /\ Buying
      BY DEF CountInv, StagesOrdered, Scored, given
<1>2. qty \in Nat \ {0} /\ (reentry = "probe" => alert.index)
      BY <1>1 DEF CountInv, CountKept, Staged
<1>3. CASE pc' = "skipped"
  <2>1. UNCHANGED scored
        BY <1>3 DEF Scored, Goes
  <2>2. QED BY <1>1, <1>3, <2>1, LeavesFine
<1>4. CASE pc' # "skipped"
  <2>1. /\ pc' = "kelly"
        /\ scored' = scored \/ (set.scorerOn /\ ~alert.index /\ scored' \in Nat \ {0} /\ scored' =< qty + 2)
    <3>1. CASE ~set.scorerOn \/ alert.index
          BY <1>4, <3>1 DEF Scored, Goes
    <3>2. CASE ~(~set.scorerOn \/ alert.index)
      <4>1. PICK s \in Scores(alert) :
              LET q == AdjustQuantity(qty, s, set.minScore) IN
              IF q <= 0 THEN Goes("skipped") /\ UNCHANGED scored ELSE Goes("kelly") /\ scored' = q
            BY <3>2 DEF Scored
      <4> DEFINE q == AdjustQuantity(qty, s, set.minScore)
      <4>2. q \in Nat /\ q =< qty + 2
            BY <1>2, AdjustFine
      <4> HIDE DEF q
      <4>3. pc' = "kelly" /\ scored' = q /\ ~(q <= 0)
            BY <1>4, <4>1 DEF Goes, q
      <4>4. QED BY <3>2, <4>2, <4>3
    <3>3. QED BY <3>1, <3>2
  <2>2. Shapes'
        BY <1>1, <2>1 DEF CountInv, Shapes, Given
  <2>3. StagesOrdered'
        BY <1>1, <2>1 DEF CountInv, StagesOrdered, Buying
  <2>4. CountKept'
        BY <1>1, <2>1, CountStays
  <2>5. CapsKept' /\ OrderKept'
    <3>1. scored' \in Nat \ {0} => scored' =< qty' + Bonus'
          BY <1>1, <2>1, CapAssumption DEF Bonus
    <3>2. QED BY <2>1, <3>1 DEF CapsKept, OrderKept, Ordered
  <2>6. QED BY <2>2, <2>3, <2>4, <2>5 DEF CountInv
<1>5. QED BY <1>3, <1>4

LEMMA CurrentFine ==
  ASSUME Shapes
  PROVE  Current \in Nat \ {0}
BY SizeFine DEF Shapes, Current

LEMMA KelliedKeeps ==
  ASSUME CountInv, Kellied
  PROVE  CountInv'
<1>1. /\ UNCHANGED <<alert, set, override, vix, qty, checked, reentry>>
      /\ pc = "kelly" /\ ~override /\ kelly = NoCap /\ Buying
      BY DEF CountInv, StagesOrdered, Kellied, given, sizes
<1>2. /\ qty \in Nat \ {0} /\ (Watched /\ reentry # "probe" => qty = Size)
      /\ reentry # "probe" /\ scored \in Nat \ {0} /\ Watched => scored =< qty + Bonus
      /\ scored \in Nat \cup {NoCap} /\ (scored = 0 => kelly = 0)
      BY <1>1 DEF CountInv, CountKept, CapsKept, Shapes, Staged
<1>3. scored # 0
      BY <1>1, <1>2, CapAssumption
<1>4. Size \in Nat \ {0} /\ Current \in Nat \ {0} /\ Size' = Size
      BY <1>1, SizeFine, CurrentFine, SizesAlike DEF CountInv, Shapes
<1>5. Watched /\ reentry # "probe" => Current =< qty + Bonus
      BY <1>2, <1>3, <1>4 DEF Current, Bonus
<1>6. CASE pc' = "skipped"
  <2>1. PICK h \in Histories, balance \in Balances :
          kelly' = KellyCap(alert.price, balance, h, set) /\ UNCHANGED scored
        BY <1>6 DEF Kellied, Goes
  <2>2. kelly' \in Nat \cup {NoCap}
        BY <2>1, KellyFine DEF CountInv, Shapes
  <2>3. Shapes' /\ StagesOrdered'
        BY <1>1, <1>3, <1>6, <2>1, <2>2 DEF CountInv, Shapes, Given, StagesOrdered, Buying
  <2>4. CountKept' /\ CapsKept' /\ OrderKept'
        BY <1>6 DEF CountKept, CapsKept, OrderKept, Staged, Ordered
  <2>5. QED BY <2>3, <2>4 DEF CountInv
<1>7. CASE pc' # "skipped"
  <2>1. /\ pc' = "tag" /\ kelly' \in Nat \cup {NoCap}
        /\ \/ kelly' = NoCap /\ scored' = scored
           \/ kelly' \in Nat /\ kelly' >= Current /\ scored' = scored
           \/ kelly' \in Nat /\ kelly' < Current /\ scored' = kelly'
    <3>1. CASE Goes("tag") /\ UNCHANGED <<scored, kelly>>
          BY <1>1, <3>1 DEF Goes
    <3>2. CASE ~(Goes("tag") /\ UNCHANGED <<scored, kelly>>)
      <4>1. PICK h \in Histories, balance \in Balances :
              LET cap == KellyCap(alert.price, balance, h, set)
                  q == IF cap = NoCap THEN Current ELSE AtMost(cap, Current) IN
              /\ kelly' = cap
              /\ IF cap = 0 /\ NoEdge(h)
                   THEN Goes("skipped") /\ UNCHANGED scored
                   ELSE Goes("tag") /\ scored' = IF q # Current THEN q ELSE scored
            BY <3>2 DEF Kellied
      <4> DEFINE cap == KellyCap(alert.price, balance, h, set)
                 q == IF cap = NoCap THEN Current ELSE AtMost(cap, Current)
      <4>2. cap \in Nat \cup {NoCap}
            BY KellyFine DEF CountInv, Shapes
      <4>3. kelly' = cap /\ pc' = "tag" /\ scored' = IF q # Current THEN q ELSE scored
            BY <1>7, <4>1 DEF Goes
      <4> HIDE DEF cap
      <4>4. CASE cap = NoCap
            BY <4>3, <4>4
      <4>5. CASE cap \in Nat
        <5>1. q = IF cap >= Current THEN Current ELSE cap
              BY <1>4, <4>5, CapAssumption DEF AtMost
        <5>2. QED BY <1>4, <4>3, <4>5, <5>1
      <4>6. QED BY <4>2, <4>4, <4>5
    <3>3. QED BY <3>1, <3>2
  <2>2. Shapes'
        BY <1>1, <1>2, <1>3, <2>1, CapAssumption DEF CountInv, Shapes, Given
  <2>3. StagesOrdered'
        BY <1>1, <2>1 DEF CountInv, StagesOrdered, Buying
  <2>4. CountKept'
        BY <1>1, <2>1, CountStays
  <2>5. reentry # "probe" /\ scored' \in Nat \ {0} /\ Watched => scored' =< qty + Bonus
    <3>1. Bonus \in Nat
          BY DEF Bonus
    <3>2. CASE scored' = scored
          BY <1>2, <3>2
    <3>3. CASE kelly' \in Nat /\ kelly' < Current /\ scored' = kelly'
          BY <1>2, <1>4, <1>5, <3>1, <3>3
    <3>4. QED BY <2>1, <3>2, <3>3
  <2>6. kelly' \in Nat \ {0} => Current' =< kelly'
    <3>1. CASE scored' = scored /\ (kelly' = NoCap \/ kelly' >= Current)
      <4>1. Current' = Current
            BY <1>4, <3>1 DEF Current
      <4>2. QED BY <1>4, <3>1, <4>1, CapAssumption
    <3>2. CASE kelly' \in Nat /\ scored' = kelly'
          BY <3>2, CapAssumption DEF Current
    <3>3. QED BY <2>1, <3>1, <3>2
  <2>7. CapsKept' /\ OrderKept'
    <3>1. Bonus' = Bonus /\ (Watched' <=> Watched)
          BY <1>1 DEF Bonus, Watched
    <3>2. QED BY <1>1, <2>1, <2>5, <2>6, <3>1 DEF CapsKept, OrderKept, Ordered
  <2>8. QED BY <2>2, <2>3, <2>4, <2>7 DEF CountInv
<1>8. QED BY <1>6, <1>7

LEMMA TaggedKeeps ==
  ASSUME CountInv, Tagged
  PROVE  CountInv'
<1>1. /\ UNCHANGED <<alert, set, override, vix, qty, checked, reentry, kelly>>
      /\ pc = "tag" /\ pc' = "buy" /\ ~override /\ Buying
      /\ scored' = IF reentry \in {"probe", "flag"} /\ (scored = NoCap \/ qty < scored) THEN qty ELSE scored
      BY DEF CountInv, StagesOrdered, Tagged, given, Goes
<1>2. /\ qty \in Nat \ {0} /\ checked = qty
      /\ ~set.vixOn => qty =< Size
      /\ Watched /\ reentry # "probe" => qty = Size
      /\ reentry = "probe" => qty = 1
      /\ reentry # "probe" /\ scored \in Nat \ {0} /\ Watched => scored =< qty + Bonus
      /\ ~set.vixOn /\ kelly \in Nat \ {0} => Current =< kelly
      /\ scored \in Nat \cup {NoCap} /\ (scored = 0 => kelly = 0)
      BY <1>1 DEF CountInv, CountKept, CapsKept, Shapes, Staged
<1>3. Size \in Nat \ {0} /\ Size' = Size /\ NoCap \notin Nat
      BY <1>1, SizeFine, SizesAlike, CapAssumption DEF CountInv, Shapes
<1>4. scored' = qty \/ scored' = scored
      BY <1>1
<1>5. Shapes'
      BY <1>1, <1>2, <1>4 DEF CountInv, Shapes, Given
<1>6. StagesOrdered'
      BY <1>1 DEF CountInv, StagesOrdered, Buying
<1>7. CountKept'
      BY <1>1, CountStays
<1>8. kelly # 0 /\ reentry = "probe" => scored' = 1
  <2>1. SUFFICES ASSUME kelly # 0, reentry = "probe" PROVE scored' = 1
        OBVIOUS
  <2>2. qty = 1 /\ (scored = NoCap \/ scored \in Nat \ {0})
        BY <1>2, <2>1
  <2>3. QED BY <1>1, <2>1, <2>2
<1>9. CASE scored' = scored
  <2>1. Current' = Current
        BY <1>3, <1>9 DEF Current
  <2>2. Watched /\ kelly # 0 => Current =< checked + Bonus
    <3>1. SUFFICES ASSUME Watched, kelly # 0 PROVE Current =< checked + Bonus
          OBVIOUS
    <3>2. scored # 0 /\ Bonus \in Nat
          BY <1>2, <3>1 DEF Bonus
    <3>3. CASE reentry = "probe"
      <4>1. scored = 1
            BY <1>8, <1>9, <3>1, <3>3
      <4>2. QED BY <1>2, <1>3, <3>2, <4>1 DEF Current
    <3>4. CASE reentry # "probe" /\ scored = NoCap
          BY <1>2, <1>3, <3>1, <3>2, <3>4 DEF Current
    <3>5. CASE reentry # "probe" /\ scored # NoCap
          BY <1>2, <1>3, <3>1, <3>2, <3>5 DEF Current
    <3>6. QED BY <3>3, <3>4, <3>5
  <2>3. CapsKept' /\ OrderKept'
    <3>1. Bonus' = Bonus /\ (Watched' <=> Watched)
          BY <1>1 DEF Bonus, Watched
    <3>2. QED BY <1>1, <1>2, <1>8, <2>1, <2>2, <3>1 DEF CapsKept, OrderKept, Ordered
  <2>4. QED BY <1>5, <1>6, <1>7, <2>3 DEF CountInv
<1>10. CASE scored' = qty /\ (scored = NoCap \/ qty < scored)
  <2>1. Current' = qty
        BY <1>2, <1>3, <1>10 DEF Current
  <2>2. ~set.vixOn /\ kelly \in Nat \ {0} => qty =< kelly
    <3>1. SUFFICES ASSUME ~set.vixOn, kelly \in Nat \ {0} PROVE qty =< kelly
          OBVIOUS
    <3>2. CASE scored = NoCap
      <4>1. Current = Size
            BY <3>2 DEF Current
      <4>2. QED BY <1>2, <1>3, <3>1, <4>1
    <3>3. CASE scored # NoCap /\ qty < scored
      <4>1. scored \in Nat \ {0} /\ Current = scored
            BY <1>2, <1>3, <3>3 DEF Current
      <4>2. QED BY <1>2, <3>1, <3>3, <4>1
    <3>4. QED BY <1>10, <3>2, <3>3
  <2>3. CapsKept' /\ OrderKept'
    <3>1. Bonus \in Nat /\ Bonus' = Bonus /\ (Watched' <=> Watched)
          BY <1>1 DEF Bonus, Watched
    <3>2. QED BY <1>1, <1>2, <1>8, <2>1, <2>2, <3>1 DEF CapsKept, OrderKept, Ordered
  <2>4. QED BY <1>5, <1>6, <1>7, <2>3 DEF CountInv
<1>11. QED BY <1>1, <1>9, <1>10

LEMMA OrdersKeep ==
  ASSUME CountInv, Buys \/ Sells
  PROVE  CountInv'
<1>1. /\ UNCHANGED <<alert, set, override, vix, qty, checked, scored, reentry, kelly>>
      /\ pc' \in {"cooling", "placed", "muted"}
      BY DEF Buys, Sells, given, sizes, Goes
<1>2. Shapes' /\ StagesOrdered'
      BY <1>1 DEF CountInv, Shapes, Given, StagesOrdered, Buying
<1>3. CountKept' /\ CapsKept'
      BY <1>1 DEF CountKept, CapsKept, Staged
<1>4. Bonus' = Bonus /\ (Watched' <=> Watched) /\ (Buying' <=> Buying)
      BY <1>1 DEF Bonus, Watched, Buying
<1>5. OrderKept'
  <2>1. CASE Buys
    <3>1. pc = "buy" /\ ordered' = Current
          BY <2>1 DEF Buys
    <3>2. reentry = "probe" /\ kelly # 0 => Current = 1
          BY <3>1, CapAssumption DEF CountInv, CapsKept, Current
    <3>3. /\ ~set.vixOn /\ kelly \in Nat \ {0} => Current =< kelly
          /\ Watched /\ kelly # 0 => Current =< checked + Bonus
          BY <3>1 DEF CountInv, CapsKept
    <3>4. QED BY <1>1, <1>4, <3>1, <3>2, <3>3 DEF OrderKept
  <2>2. CASE Sells
    <3>1. ~Buying /\ kelly = NoCap /\ reentry = "ok"
          BY <2>2 DEF CountInv, StagesOrdered, Sells
    <3>2. QED BY <1>1, <1>4, <3>1, CapAssumption DEF OrderKept
  <2>3. QED BY <2>1, <2>2
<1>6. QED BY <1>2, <1>3, <1>5 DEF CountInv

LEMMA CountHolds == Spec => []CountInv
<1>1. Init => CountInv
  <2>1. SUFFICES ASSUME Init PROVE CountInv
        OBVIOUS
  <2>2. (override = FALSE /\ pc = "gates") \/ (override = TRUE /\ pc = "buy" /\ Buying)
    <3>1. CASE override = FALSE
          BY <2>1, <3>1 DEF Init
    <3>2. CASE override # FALSE
      <4>1. override = (alert.action = "BUY")
            BY <2>1, <3>2 DEF Init
      <4>2. override = TRUE
            BY <3>2, <4>1
      <4>3. QED BY <2>1, <4>1, <4>2 DEF Init, Buying
    <3>3. QED BY <3>1, <3>2
  <2>3. /\ alert \in AlertsIn /\ set \in Settings /\ vix \in Levels
        /\ scored = NoCap /\ kelly = NoCap /\ reentry = "ok"
        BY <2>1 DEF Init
  <2>4. Shapes
        BY <2>2, <2>3, CapAssumption DEF Shapes, Given
  <2>5. StagesOrdered
        BY <2>2, <2>3 DEF StagesOrdered
  <2>6. CountKept
        BY <2>2, <2>3 DEF CountKept, Staged, Watched
  <2>7. CapsKept /\ OrderKept
        BY <2>2, <2>3, CapAssumption DEF CapsKept, OrderKept, Ordered, Watched
  <2>8. QED BY <2>4, <2>5, <2>6, <2>7 DEF CountInv
<1>2. CountInv /\ [Next]_vars => CountInv'
      BY CountsStand, EarlyStages, ScoredKeeps, KelliedKeeps, TaggedKeeps, OrdersKeep DEF Next
<1>3. QED BY <1>1, <1>2, PTL DEF Spec

(* A count that a stage has lowered is not raised by a later one: the one   *)
(* contract of a probe survives the scorer, the Kelly cap the re-entry and  *)
(* the sizing in _buy, and what the guardrails were shown is what is        *)
(* ordered, give or take the scorer's two, for any alerts, settings,        *)
(* histories and balances, and any movement of the VIX.                     *)
THEOREM LowCountsStayLow == Spec => []CapsHold
<1>1. CountInv => CapsHold
      BY DEF CountInv, OrderKept, CapsHold, ProbeSticks, KellyCapHolds, GuardedCount,
             Sent, Ordered, Watched, Bonus
<1>2. QED BY <1>1, CountHolds, PTL

(***************************************************************************)
(* Limits near the alert, the cap and the mark                             *)
(***************************************************************************)

LEMMA Times ==
  ASSUME NEW a \in Nat, NEW b \in Nat, NEW c \in Nat, NEW d \in Nat, a =< b, c =< d
  PROVE  a * c \in Nat /\ b * d \in Nat /\ a * c =< b * d
<1>1. \A x, y \in Nat : x * y \in Nat
      OBVIOUS
<1>2. PICK e \in Nat, f \in Nat : b = a + e /\ d = c + f
  <2>1. b - a \in Nat /\ d - c \in Nat
        OBVIOUS
  <2>2. b = a + (b - a) /\ d = c + (d - c)
        OBVIOUS
  <2>3. QED BY <2>1, <2>2
<1>3. b * d = a * c + a * f + e * c + e * f
      BY <1>2
<1>4. a * c \in Nat /\ a * f \in Nat /\ e * c \in Nat /\ e * f \in Nat
      BY <1>1
<1>5. QED BY <1>1, <1>3, <1>4

(* A higher price is not rounded to a lower tick, across the edge of the    *)
(* two grids either.                                                        *)
LEMMA UpsAgree ==
  ASSUME NEW a \in Nat, NEW b \in Nat, a =< b, b > 0
  PROVE  TickUp(a) =< TickUp(b) /\ TickSize(a) =< TickUp(b)
<1>1. CASE b < 300 * Unit
  <2>1. TickUp(a) = 5 * ((a + 5 * Unit - 1) \div (5 * Unit)) /\ TickUp(b) = 5 * ((b + 5 * Unit - 1) \div (5 * Unit))
        /\ TickSize(a) = 5
        BY <1>1 DEF TickUp, TickSize, Unit
  <2>2. (a + 5 * Unit - 1) \div (5 * Unit) =< (b + 5 * Unit - 1) \div (5 * Unit)
        /\ (b + 5 * Unit - 1) \div (5 * Unit) >= 1
        BY DEF Unit
  <2>3. QED BY <2>1, <2>2 DEF Unit
<1>2. CASE a >= 300 * Unit
  <2>1. TickUp(a) = 10 * ((a + 10 * Unit - 1) \div (10 * Unit)) /\ TickUp(b) = 10 * ((b + 10 * Unit - 1) \div (10 * Unit))
        /\ TickSize(a) = 10
        BY <1>2 DEF TickUp, TickSize, Unit
  <2>2. (a + 10 * Unit - 1) \div (10 * Unit) =< (b + 10 * Unit - 1) \div (10 * Unit)
        /\ (b + 10 * Unit - 1) \div (10 * Unit) >= 1
        BY DEF Unit
  <2>3. QED BY <2>1, <2>2 DEF Unit
<1>3. CASE a < 300 * Unit /\ b >= 300 * Unit
  <2>1. TickUp(b) >= 300
        BY <1>3, Ups
  <2>2. TickSize(a) = 5
        BY <1>3 DEF TickSize
  <2>3. TickUp(a) =< 300
    <3>1. TickUp(a) = 5 * ((a + 5 * Unit - 1) \div (5 * Unit))
          BY <1>3 DEF TickUp, TickSize
    <3>2. (a + 5 * Unit - 1) \div (5 * Unit) =< 60
          BY <1>3 DEF Unit
    <3>3. QED BY <3>1, <3>2 DEF Unit
  <2>4. TickUp(a) \in Int /\ TickUp(b) \in Int
        BY Ups
  <2>5. QED BY <2>1, <2>2, <2>3, <2>4
<1>4. QED BY <1>1, <1>2, <1>3 DEF Unit

(* A BUY asks for no more than a higher price rounded up.                   *)
LEMMA BuyAtMost ==
  ASSUME NEW a \in Nat, NEW b \in Nat, a =< b, b > 0
  PROVE  LimitBuy(a) =< TickUp(b)
BY UpsAgree DEF LimitBuy, Greater

(* The highest first limit. *)
Highest(p, cap, slip) == p * Greater(108, 100 + cap) * (100 + slip)

LEMMA FirstNear ==
  ASSUME NEW p \in Nat \ {0}, NEW live \in Nat, NEW mode, NEW slip \in Nat, NEW cap \in Nat
  PROVE  BuyLimit(p, live, mode, slip) =< TickUp(Highest(p, cap, slip))
<1> DEFINE g == Greater(108, 100 + cap)
           base == BuyBase(p, live, mode)
           more == 100 + (IF mode = "alert_first" THEN 0 ELSE slip)
<1>1. g \in Nat /\ g >= 108
      BY DEF Greater
<1>2. base \in Nat /\ base =< p * 108
      BY DEF BuyBase, Greater, Lesser
<1>3. p * 108 =< p * g /\ p * g \in Nat
      BY <1>1, Times
<1>4. base =< p * g
      BY <1>2, <1>3
<1>5. more \in Nat /\ more =< 100 + slip /\ 100 + slip \in Nat
      OBVIOUS
<1> HIDE DEF g, base, more
<1>6. base * more \in Nat /\ (p * g) * (100 + slip) \in Nat /\ base * more =< (p * g) * (100 + slip)
      BY <1>2, <1>3, <1>4, <1>5, Times
<1>7. (p * g) * (100 + slip) > 0
  <2>1. 1 * 108 =< p * g
        BY <1>1, Times
  <2>2. 108 * 100 =< (p * g) * (100 + slip)
        BY <1>3, <1>5, <2>1, Times
  <2>3. QED BY <1>6, <2>2
<1>8. LimitBuy(base * more) =< TickUp((p * g) * (100 + slip))
      BY <1>6, <1>7, BuyAtMost
<1>9. QED BY <1>8 DEF BuyLimit, Highest, base, more, g

LEMMA BuyLimitTyped ==
  ASSUME NEW price \in Nat, NEW live \in Nat, NEW mode, NEW slip \in Nat
  PROVE  BuyLimit(price, live, mode, slip) \in Int
<1>1. BuyBase(price, live, mode) \in Int
      BY DEF BuyBase, Greater, Lesser
<1>2. BuyBase(price, live, mode) * (100 + (IF mode = "alert_first" THEN 0 ELSE slip)) \in Int
      BY <1>1
<1>3. QED BY <1>2, BuyOnGrid DEF BuyLimit

LEMMA CooledNear ==
  ASSUME NEW p \in Nat \ {0}, NEW live \in Nat, NEW slip \in Nat, NEW cap \in Nat, Cooled(p, live, cap)
  PROVE  LimitBuy(Raised(live, slip)) =< TickUp(Highest(p, cap, slip))
<1> DEFINE g == Greater(108, 100 + cap)
<1>1. g \in Nat /\ 100 + cap =< g /\ 100 + cap \in Nat
      BY DEF Greater
<1>2. p * (100 + cap) \in Nat /\ p * g \in Nat /\ p * (100 + cap) =< p * g
      BY <1>1, Times
<1>3. live * 100 =< p * (100 + cap)
  <2>1. live * Unit =< p * 100 * (100 + cap)
        BY DEF Cooled, Raised
  <2>2. PICK x \in Nat : x = p * (100 + cap)
        BY <1>2
  <2>3. p * 100 * (100 + cap) = 100 * x
        BY <2>2
  <2>4. QED BY <2>1, <2>2, <2>3 DEF Unit
<1>4. live * 100 \in Nat /\ live * 100 =< p * g /\ 100 + slip \in Nat
      BY <1>2, <1>3
<1> HIDE DEF g
<1>5. /\ (live * 100) * (100 + slip) \in Nat /\ (p * g) * (100 + slip) \in Nat
      /\ (live * 100) * (100 + slip) =< (p * g) * (100 + slip)
      BY <1>2, <1>4, Times
<1>6. (p * g) * (100 + slip) > 0
  <2>1. 1 * 100 =< p * (100 + cap)
        BY <1>1, Times
  <2>2. 100 =< p * g
        BY <1>2, <2>1
  <2>3. 100 * 100 =< (p * g) * (100 + slip)
        BY <1>2, <2>2, Times
  <2>4. QED BY <1>5, <2>3
<1>7. LimitBuy((live * 100) * (100 + slip)) =< TickUp((p * g) * (100 + slip))
      BY <1>5, <1>6, BuyAtMost
<1>8. QED BY <1>7 DEF Raised, Highest, g

LEMMA ClampedNear ==
  ASSUME NEW px \in Nat, NEW mark \in Nat, NEW band \in Nat, mark > 0, band > 0
  PROVE  Clamped(px, mark, band) * Unit =< Greater(Raised(mark, band), TickSize(0) * Unit)
<1> DEFINE c == Raised(mark, band)
<1>1. c \in Nat
  <2>1. mark * 100 \in Nat /\ 100 + band \in Nat
        OBVIOUS
  <2>2. QED BY <2>1, Times DEF Raised
<1>2. TickSize(0) = 5
      BY DEF TickSize, Unit
<1> HIDE DEF c
<1>3. FloatTickDown(c) \in Int /\ FloatTickDown(c) * Unit =< c
  <2>1. FloatTickDown(c) \in Int /\ FloatTickDown(c) =< TickDown(c)
        BY <1>1, Downs DEF FloatTickDown, TickSize
  <2>2. TickDown(c) * Unit =< c
    <3>1. CASE c < 300 * Unit
          BY <1>1, <3>1 DEF TickDown, TickSize, Unit
    <3>2. CASE ~(c < 300 * Unit)
          BY <1>1, <3>2 DEF TickDown, TickSize, Unit
    <3>3. QED BY <3>1, <3>2
  <2>3. TickDown(c) \in Int
        BY <1>1, Downs
  <2> DEFINE d == TickDown(c)
             e == FloatTickDown(c)
  <2>4. d \in Int /\ e \in Int /\ e =< d /\ d * Unit =< c
        BY <2>1, <2>2, <2>3
  <2> HIDE DEF d, e
  <2>5. e * Unit =< c
        BY <1>1, <2>4 DEF Unit
  <2>6. QED BY <2>4, <2>5 DEF e
<1>4. TickSize(c) * Unit =< Greater(c, 5 * Unit)
      BY <1>1 DEF TickSize, Unit, Greater
<1>5. \/ px * Unit =< c /\ Clamped(px, mark, band) = px
      \/ Clamped(px, mark, band) = Greater(FloatTickDown(c), TickSize(c))
      BY DEF Clamped, c
<1>6. CASE px * Unit =< c /\ Clamped(px, mark, band) = px
      BY <1>1, <1>2, <1>6 DEF Greater, Unit, c
<1>7. CASE Clamped(px, mark, band) = Greater(FloatTickDown(c), TickSize(c))
      BY <1>1, <1>2, <1>3, <1>4, <1>7 DEF Greater, Unit, TickSize, c
<1>8. QED BY <1>5, <1>6, <1>7

(* Only an entry cools down. *)
NearInv == LimitsNear /\ (pc = "cooling" => Buying)

LEMMA NearStep ==
  ASSUME CountInv, NearInv, [Next]_vars
  PROVE  NearInv'
<1>1. /\ alert.price \in Nat \ {0} /\ alert.cost \in Nat
      /\ set.cap \in Nat /\ set.slip \in Nat /\ set.band \in Nat /\ set.repegCap \in Nat \cup {NoCap}
      BY InputAssumption DEF CountInv, Shapes, Given
<1>2. \A live \in Quotes : live \in Nat
      BY InputAssumption
<1>3. UNCHANGED <<alert, set>> /\ (Buying' <=> Buying)
      BY DEF Next, vars, given, VixMoves, Gates, Reenters, Whale, Guards, Scored, Kellied, Tagged,
             Buys, CoolsDown, Repegs, Sells, Chases, Buying
<1> DEFINE p == alert.price
           top == TickUp(Highest(p, set.cap, set.slip))
           later == IF set.repegCap = NoCap THEN 0 ELSE NearestCent(p * (100 + set.repegCap))
<1>4. top \in Int /\ later \in Int
  <2>1. Highest(p, set.cap, set.slip) \in Int
        BY <1>1 DEF Highest, Greater
  <2>2. \A r \in Int : NearestCent(r) \in Int
        BY DEF NearestCent
  <2>3. set.repegCap # NoCap => p * (100 + set.repegCap) \in Int
        BY <1>1
  <2>4. QED BY <2>1, <2>2, <2>3, Ups
<1>5. BuyNearAlert <=> (Buying /\ Sent => limit =< Greater(top, later))
      BY DEF BuyNearAlert, Highest
<1>6. BuyNearAlert' <=> (Buying /\ Sent' => limit' =< Greater(top, later))
      BY <1>3 DEF BuyNearAlert, Highest
<1> HIDE DEF top, later
<1>7. CASE VixMoves \/ Gates \/ Reenters \/ Whale \/ Guards \/ Scored \/ Kellied \/ Tagged
  <2>1. ~Sent' /\ pc' # "cooling"
        BY <1>7 DEF Sent, VixMoves, Gates, Reenters, Whale, Guards, Scored, Kellied, Tagged, Goes
  <2>2. QED BY <1>6, <2>1 DEF NearInv, LimitsNear, SellInBand, Sent
<1>8. CASE Buys
  <2>1. Buying
        BY <1>8 DEF CountInv, StagesOrdered, Buys
  <2>2. pc' # "cooling" => \E live \in Quotes : limit' = BuyLimit(p, live, set.mode, set.slip)
        BY <1>8 DEF Buys, Goes
  <2>3. pc' # "cooling" => limit' =< top
        BY <1>1, <1>2, <2>2, FirstNear DEF top
  <2>4. Sent' => pc' # "cooling"
        BY DEF Sent
  <2>5. pc' # "cooling" => limit' \in Int
        BY <1>1, <1>2, <2>2, BuyLimitTyped
  <2>6. BuyNearAlert'
        BY <1>4, <1>6, <2>3, <2>4, <2>5 DEF Greater
  <2>7. QED BY <1>3, <2>1, <2>6 DEF NearInv, LimitsNear, SellInBand
<1>9. CASE CoolsDown
  <2>1. Buying
        BY <1>9 DEF NearInv, CoolsDown
  <2>2. PICK live \in Quotes : Cooled(p, live, set.cap) /\ limit' = LimitBuy(Raised(live, set.slip))
        BY <1>9 DEF CoolsDown
  <2>3. limit' =< top
        BY <1>1, <1>2, <2>2, CooledNear DEF top
  <2>4. limit' \in Int
    <3>1. Raised(live, set.slip) \in Int
          BY <1>1, <1>2 DEF Raised
    <3>2. QED BY <2>2, <3>1, BuyOnGrid
  <2>5. BuyNearAlert'
        BY <1>4, <1>6, <2>3, <2>4 DEF Greater
  <2>6. QED BY <1>3, <2>1, <2>5 DEF NearInv, LimitsNear, SellInBand
<1>10. CASE Repegs
  <2>1. Buying /\ pc = "placed" /\ set.repegCap # NoCap
        BY <1>10 DEF Repegs
  <2>2. PICK live \in Quotes, dead \in BOOLEAN :
          LET new == RepegBuy(p, live, limit, dead, set.slip, set.repegCap) IN
          /\ new # 0
          /\ IF new = -1 THEN Goes("stopped") /\ UNCHANGED limit ELSE Goes("repegged") /\ limit' = new
        BY <1>10 DEF Repegs
  <2> DEFINE new == RepegBuy(p, live, limit, dead, set.slip, set.repegCap)
  <2>3. CASE new = -1
    <3>1. ~Sent' /\ pc' # "cooling"
          BY <2>2, <2>3 DEF Sent, Goes
    <3>2. QED BY <1>6, <3>1 DEF NearInv, LimitsNear, SellInBand, Sent
  <2>4. CASE new # -1
    <3>1. limit' = new /\ pc' = "repegged" /\ new # 0
          BY <2>2, <2>4 DEF Goes
    <3> DEFINE up == TickUp(Raised(live, set.slip))
    <3>2. up \in Int
      <4>1. Raised(live, set.slip) \in Int
            BY <1>1, <1>2 DEF Raised
      <4>2. QED BY <4>1, Ups
    <3>3. new = up /\ new \in Int /\ new =< later
      <4>1. later = NearestCent(p * (100 + set.repegCap))
            BY <2>1 DEF later
      <4>2. new = IF live = 0 \/ (~dead /\ live <= limit) THEN 0
                  ELSE IF up > later THEN -1
                  ELSE IF ~dead /\ up <= limit THEN 0 ELSE up
            BY <4>1 DEF RepegBuy
      <4> HIDE DEF up, new
      <4>3. new = up /\ ~(up > later)
            BY <2>4, <3>1, <4>2
      <4>4. QED BY <1>4, <3>2, <4>3
    <3>4. BuyNearAlert'
          BY <1>4, <1>6, <3>1, <3>3 DEF Greater
    <3>5. QED BY <3>1, <3>4 DEF NearInv, LimitsNear, SellInBand
  <2>5. QED BY <2>3, <2>4
<1>11. CASE Sells
  <2>1. ~Buying /\ pc' # "cooling"
        BY <1>11 DEF CountInv, StagesOrdered, Sells, Goes
  <2>2. CASE pc' = "placed"
    <3>1. PICK mark \in Quotes :
            /\ quote' = mark
            /\ limit' = SellLimit(SellBase(IF alert.blank THEN 0 ELSE p, mark, alert.cost),
                                  IF alert.blank THEN "live" ELSE set.exitMode, set.slip, mark, set.band)
          BY <1>11, <2>2 DEF Sells, Goes
    <3> DEFINE base == SellBase(IF alert.blank THEN 0 ELSE p, mark, alert.cost)
               mode == IF alert.blank THEN "live" ELSE set.exitMode
               px == LimitSell(Lowered(base, IF mode = "alert_first" THEN 0 ELSE set.slip))
    <3>2. base \in Nat
          BY <1>1, <1>2 DEF SellBase
    <3> HIDE DEF base, mode
    <3>3. Lowered(base, IF mode = "alert_first" THEN 0 ELSE set.slip) \in Int
          BY <1>1, <3>2 DEF Lowered
    <3>4. px \in Nat
          BY <3>3, SellOnGrid
    <3>5. limit' = Clamped(px, mark, set.band)
          BY <3>1 DEF SellLimit, base, mode
    <3> HIDE DEF px
    <3>6. mark > 0 /\ set.band > 0 => limit' * Unit =< Greater(Raised(mark, set.band), TickSize(0) * Unit)
          BY <1>1, <1>2, <3>4, <3>5, ClampedNear
    <3>7. SellInBand'
          BY <1>3, <3>1, <3>6 DEF SellInBand
    <3>8. QED BY <1>6, <2>1, <3>7 DEF NearInv, LimitsNear
  <2>3. CASE pc' # "placed"
        BY <1>6, <2>1, <2>3 DEF NearInv, LimitsNear, SellInBand
  <2>4. QED BY <2>2, <2>3
<1>12. CASE Chases
  <2>1. ~Buying /\ pc' = "repegged"
        BY <1>12 DEF Chases, Goes
  <2>2. QED BY <1>6, <2>1 DEF NearInv, LimitsNear, SellInBand
<1>13. CASE UNCHANGED vars
      BY <1>13 DEF vars, NearInv, LimitsNear, BuyNearAlert, SellInBand, Sent, Buying
<1>14. QED BY <1>7, <1>8, <1>9, <1>10, <1>11, <1>12, <1>13 DEF Next

(* A wrong or running quote carries no limit off: an entry's is within 8%   *)
(* and the slippage of the alert's price, or within the re-peg cap, a       *)
(* cooled one within the entry cap, and a SELL's within the band above the  *)
(* mark, for any prices, quotes, caps, slippages, bands and floats.         *)
THEOREM LimitsStayNear == Spec => []LimitsNear
<1>1. Init => NearInv
      BY DEF Init, NearInv, LimitsNear, BuyNearAlert, SellInBand, Sent
<1>2. CountInv /\ NearInv /\ [Next]_vars => NearInv'
      BY NearStep
<1>3. NearInv => LimitsNear
      BY DEF NearInv
<1>4. QED BY <1>1, <1>2, <1>3, CountHolds, PTL DEF Spec
=============================================================================
