--------------------------- MODULE EntryDecision ---------------------------
(***************************************************************************)
(* What becomes of one alert, in app/execution/public_executor.py: whether *)
(* it is traded, with how many contracts, and at which limit.              *)
(*                                                                         *)
(* execute() is a chain of gates and sizers that hand the count on in two  *)
(* places, its own variable (qty) and an attribute of the alert (scored,   *)
(* _scored_qty); _buy reads the attribute, and sizes anew when it is not   *)
(* set or zero.  Each await of the chain is a step, and the VIX the sizing *)
(* reads may move between two.                                             *)
(***************************************************************************)
EXTENDS OrderPricing, Sizing

CONSTANTS
  AlertsIn,    \* the alerts
  Settings,    \* the configurations
  Levels,      \* of the VIX
  Histories,   \* of an analyst: wins, losses, percent won and lost in all, filled alerts
  Balances,    \* of the account, in dollars
  Books,       \* open positions, those in the symbol, the day's result
  Minutes,     \* of the day
  Quotes       \* live prices, 0 for none

ASSUME InputAssumption ==
  /\ \A a \in AlertsIn : /\ a.action \in {"BUY", "SELL"} /\ a.price \in Nat \ {0}
                          /\ a.cost \in Nat /\ a.stated \in Nat /\ a.tag \in DOMAIN TagSize
                          /\ a.index \in BOOLEAN
  /\ \A s \in Settings : /\ s.riskPct \in Nat \ {0} /\ s.whaleMax \in Nat \ {0}
                          /\ {s.symbolCap, s.indexCap} \subseteq (Nat \ {0}) \cup {NoCap}
                          /\ {s.cap, s.slip, s.band, s.wide} \subseteq Nat /\ s.vixOn \in BOOLEAN
                          /\ s.repegCap \in Nat \cup {NoCap}
  /\ Levels \subseteq DOMAIN Quarters
  /\ Quotes \subseteq Nat /\ Balances \subseteq Nat
  /\ \A h \in Histories : {h.wins, h.losses, h.won, h.lost} \subseteq Nat /\ (h.wins > 0 => h.won > 0)

VARIABLES
  pc, alert, set, override,
  vix,
  qty,      \* execute()'s variable
  checked,  \* what the guardrails were shown
  scored,   \* alert._scored_qty, NoCap for unset
  reentry,  \* what check_reentry_guard said
  kelly,    \* the cap of the Kelly sizer
  quote,    \* the live price _buy saw
  ordered, limit

vars == <<pc, alert, set, override, vix, qty, checked, scored, reentry, kelly, quote, ordered, limit>>
given == <<alert, set, override>>
sizes == <<qty, checked, scored>>

(* What check_reentry_guard may say.                                        *)
Reentries == {"ok", "reject", "probe", "flag"}

Init ==
  /\ alert \in AlertsIn
  /\ set \in Settings
  /\ override \in {FALSE, alert.action = "BUY"}
  /\ vix \in Levels
  /\ pc = IF override THEN "buy" ELSE "gates"
  /\ qty = NoCap
  /\ checked = NoCap
  /\ scored = NoCap
  /\ reentry = "ok"
  /\ kelly = NoCap
  /\ quote = 0
  /\ ordered = 0
  /\ limit = 0

Buying == alert.action = "BUY"
Size == ContractsForSize(alert, set, vix)
Goes(p) == pc' = p

(* The refresher reads another level (update_vix_cache).                    *)
VixMoves ==
  /\ pc \in {"guard", "score", "kelly", "buy"}
  /\ set.vixOn
  /\ vix' \in Levels \ {vix}
  /\ UNCHANGED <<pc, given, sizes, reentry, kelly, quote, ordered, limit>>

(* _spreads_only_blocks, _small_account_only_blocks: entries alone.  A      *)
(* watch-only post (sized to zero) is dropped on either side when the       *)
(* profile says so; then the first sizing.                                  *)
Gates ==
  /\ pc = "gates"
  /\ IF \/ Buying /\ set.spreadsOnly
        \/ Buying /\ set.smallOnly /\ alert.lane # "small"
        \/ set.blockZero /\ alert.watchOnly
       THEN Goes("skipped") /\ UNCHANGED qty
       ELSE Goes("reentry") /\ qty' = Size
  /\ UNCHANGED <<given, vix, checked, scored, reentry, kelly, quote, ordered, limit>>

(* check_reentry_guard: was the contract closed today, and at what price;   *)
(* a probe is for an index.                                                 *)
Reenters ==
  /\ pc = "reentry"
  /\ \E r \in IF Buying THEN Reentries ELSE {"ok"} :
       /\ r = "probe" => alert.index
       /\ reentry' = r
       /\ Goes(IF r = "reject" THEN "skipped" ELSE "whale")
       /\ qty' = IF r = "probe" THEN AtMost(1, qty) ELSE qty
  /\ UNCHANGED <<given, vix, checked, scored, kelly, quote, ordered, limit>>

(* The whale lane's own caps, on count and cost.                            *)
Whale ==
  LET q == IF Buying /\ alert.lane = "whale" THEN AtMost(set.whaleMax, qty) ELSE qty IN
  /\ pc = "whale"
  /\ qty' = q
  /\ Goes(IF Buying /\ alert.lane = "whale" /\ alert.price * q > set.whaleCost
            THEN "skipped" ELSE "guard")
  /\ UNCHANGED <<given, vix, checked, scored, reentry, kelly, quote, ordered, limit>>

(* check_guardrails, shown this count.                                      *)
Guards ==
  /\ pc = "guard"
  /\ checked' = qty
  /\ \E ok \in BOOLEAN :
       Goes(IF ~ok THEN "blocked" ELSE IF Buying THEN "score" ELSE "sell")
  /\ UNCHANGED <<given, vix, qty, scored, reentry, kelly, quote, ordered, limit>>

(* The scorer, not for an index.                                            *)
Scores(a) == {RulesScore(h, a.tag, t, b) : h \in Histories, t \in Minutes, b \in Books}
Scored ==
  /\ pc = "score"
  /\ IF ~set.scorerOn \/ alert.index
       THEN Goes("kelly") /\ UNCHANGED scored
       ELSE \E s \in Scores(alert) :
              LET q == AdjustQuantity(qty, s, set.minScore) IN
              IF q <= 0 THEN Goes("skipped") /\ UNCHANGED scored
              ELSE Goes("kelly") /\ scored' = q
  /\ UNCHANGED <<given, vix, qty, checked, reentry, kelly, quote, ordered, limit>>

(* What _buy would order now: zero counts as unset.                         *)
Current == IF scored \in {NoCap, 0} THEN Size ELSE scored

(* Mutant: the capped count stays in a variable. *)
KelliedAside ==
  /\ pc = "kelly"
  /\ set.kellyOn
  /\ \E h \in Histories, balance \in Balances :
       /\ kelly' = KellyCap(alert.price, balance, h, set)
       /\ Goes(IF kelly' = 0 /\ NoEdge(h) THEN "skipped" ELSE "tag")
  /\ UNCHANGED <<given, vix, sizes, reentry, quote, ordered, limit>>

(* The Kelly cap; an error in it is logged and passed over.                 *)
Kellied ==
  /\ pc = "kelly"
  /\ \/ /\ set.kellyOn
        /\ \E h \in Histories, balance \in Balances :
             LET cap == KellyCap(alert.price, balance, h, set)
                 q   == IF cap = NoCap THEN Current ELSE AtMost(cap, Current) IN
             /\ kelly' = cap
             /\ IF cap = 0 /\ NoEdge(h)
                  THEN Goes("skipped") /\ UNCHANGED scored
                  ELSE Goes("tag") /\ scored' = IF q # Current THEN q ELSE scored
     \/ Goes("tag") /\ UNCHANGED <<scored, kelly>>
  /\ UNCHANGED <<given, vix, qty, checked, reentry, quote, ordered, limit>>

(* Mutant: the count of a re-entry is not handed on. *)
TaggedOnly ==
  /\ pc = "tag"
  /\ UNCHANGED scored
  /\ Goes("buy")
  /\ UNCHANGED <<given, vix, qty, checked, reentry, kelly, quote, ordered, limit>>

(* A re-entry hands its count on when it is the smaller.                    *)
Tagged ==
  /\ pc = "tag"
  /\ scored' = IF reentry \in {"probe", "flag"} /\ (scored = NoCap \/ qty < scored)
                 THEN qty ELSE scored
  /\ Goes("buy")
  /\ UNCHANGED <<given, vix, qty, checked, reentry, kelly, quote, ordered, limit>>

(* _buy: the count, the quote, and then the limit or the slippage block;    *)
(* the cooldown's retry orders at the cooled quote and the general slippage.*)
Buys ==
  /\ pc = "buy"
  /\ \E live \in Quotes :
       /\ quote' = live
       /\ ordered' = Current
       /\ IF set.mode # "alert_first" /\ live > 0 /\ RunsAway(alert.price, live, set.cap)
            THEN Goes("cooling") /\ UNCHANGED limit
            ELSE Goes("placed") /\ limit' = BuyLimit(alert.price, live, set.mode, set.slip)
  /\ UNCHANGED <<given, vix, sizes, reentry, kelly>>

CoolsDown ==
  /\ pc = "cooling"
  /\ \E live \in Quotes :
       /\ Cooled(alert.price, live, set.cap)
       /\ quote' = live
       /\ limit' = LimitBuy(Raised(live, set.slip))
  /\ Goes("placed")
  /\ UNCHANGED <<given, vix, sizes, reentry, kelly, ordered>>

(* _repeg_buy, while the price moves on.                                    *)
Repegs ==
  /\ pc = "placed"
  /\ Buying
  /\ set.repegCap # NoCap
  /\ \E live \in Quotes, dead \in BOOLEAN :
       LET new == RepegBuy(alert.price, live, limit, dead, set.slip, set.repegCap) IN
       /\ new # 0
       /\ quote' = live
       /\ IF new = -1 THEN Goes("stopped") /\ UNCHANGED limit
          ELSE Goes("repegged") /\ limit' = new
  /\ UNCHANGED <<given, vix, sizes, reentry, kelly, ordered>>

(* _sell_from_alert: how many, and at which limit.                          *)
Mutes == alert.pt2 /\ ~alert.closeAll /\ ~set.firstClosesAll
Sells ==
  /\ pc = "sell"
  /\ IF Mutes THEN Goes("muted") /\ UNCHANGED <<ordered, limit, quote>>
     ELSE \E mark \in Quotes :
       LET all == alert.closeAll \/ set.firstClosesAll
           px  == SellBase(IF alert.blank THEN 0 ELSE alert.price, mark, alert.cost)
           mode == IF alert.blank THEN "live" ELSE set.exitMode IN
       /\ quote' = mark
       /\ ordered' = IF all THEN alert.left
                     ELSE AtMost(alert.left, AtLeast(1, (alert.left * alert.pct) \div 100))
       /\ limit' = SellLimit(px, mode, set.slip, mark, set.band)
       /\ Goes("placed")
  /\ UNCHANGED <<given, vix, sizes, reentry, kelly>>

(* The SELL watchers' next limit, the last one wide; the one of a full exit *)
(* goes through _place_sell and its band.                                   *)
Chases ==
  /\ pc = "placed"
  /\ ~Buying
  /\ \E live \in Quotes \ {0}, mark \in Quotes, final, all \in BOOLEAN :
       LET px == IF ~final THEN RepegSell(live)
                 ELSE IF all THEN FinalCloseAll(live, set.wide) ELSE FinalSell(live, set.wide) IN
       /\ limit' = IF all THEN Clamped(px, mark, set.band) ELSE px
       /\ quote' = live
  /\ Goes("repegged")
  /\ UNCHANGED <<given, vix, sizes, reentry, kelly, ordered>>

Next == \/ VixMoves \/ Gates \/ Reenters \/ Whale \/ Guards \/ Scored \/ Kellied \/ Tagged
        \/ Buys \/ CoolsDown \/ Repegs \/ Sells \/ Chases

Spec == Init /\ [][Next]_vars

-----------------------------------------------------------------------------
(* Properties *)

Sent == pc \in {"placed", "repegged"}

(* The count of a probe, one contract, survives the scorer and the Kelly    *)
(* sizer, which both raise or reset counts after it was set.  A Kelly cap   *)
(* of zero that is not a block does reset it.                               *)
ProbeSticks == Sent /\ reentry = "probe" /\ kelly # 0 => ordered = 1

(* The Kelly cap survives the re-entry count and the sizing in _buy; with   *)
(* VIX sizing on, _buy may size anew what the cap had found small enough.   *)
KellyCapHolds == Sent /\ kelly \in Nat \ {0} /\ ~set.vixOn => ordered <= kelly

(* What is ordered is what the guardrails were shown, give or take the      *)
(* scorer's bonus of two: outside the whale lane, whose own cap _buy does   *)
(* not know, and with a VIX that stands still.                              *)
GuardedCount ==
  Sent /\ Buying /\ ~override /\ alert.lane # "whale" /\ ~set.vixOn /\ kelly # 0
    => ordered <= checked + (IF set.scorerOn /\ ~alert.index THEN 2 ELSE 0)

(* Every stage that lowers a count keeps it low in what is ordered.         *)
CapsHold == ProbeSticks /\ KellyCapHolds /\ GuardedCount

(* Every limit sent is on the broker's price grid, at the $3 edge of two    *)
(* grids too, and never zero.                                               *)
OnTick == Sent => OnGrid(limit)

(* However the quote moves, or however wrong it is, an entry's first limit  *)
(* is within 8% and the slippage of the alert's price, a later one within   *)
(* the re-peg cap, and a cooled one within the entry cap and the slippage.  *)
BuyNearAlert ==
  LET p == alert.price IN
  Buying /\ Sent =>
    limit <= Greater(TickUp(p * Greater(108, 100 + set.cap) * (100 + set.slip)),
                     IF set.repegCap = NoCap THEN 0 ELSE NearestCent(p * (100 + set.repegCap)))

(* A SELL's first limit is at most the band above the mark, or the least    *)
(* price there is.                                                          *)
SellInBand ==
  ~Buying /\ pc = "placed" /\ quote > 0 /\ set.band > 0 =>
    limit * Unit <= Greater(Raised(quote, set.band), TickSize(0) * Unit)

(* A wrong or running quote does not carry a limit off, on either side.     *)
LimitsNear == BuyNearAlert /\ SellInBand
=============================================================================
