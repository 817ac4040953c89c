----------------------------- MODULE ExitLadder -----------------------------
(***************************************************************************)
(* app/monitors/position_monitor.py over one position row: each poll's     *)
(* quote, the ladder of profit targets, trails and stops, the hybrid       *)
(* engine in its place, and what happens between two of them: each exit    *)
(* awaits the broker, and meanwhile the row's order fills or dies, the     *)
(* analyst and the operator sell, contracts leave the account elsewhere.   *)
(*                                                                         *)
(* Prices are in percent of the entry.  A poll computes its stop level and *)
(* its gates once, then fires rung after rung.  A rung that fires nothing  *)
(* awaits nothing: the next one that does is one step.                     *)
(***************************************************************************)
EXTENDS ExitEngineV2, FiniteSets

CONSTANTS
  Prices, Spreads,     \* quotes, in percent of the entry, and of the mid
  Total,               \* contracts bought
  SomeRules            \* the settings, profile and overrides resolved; and the bound buys,
                       \* how often the contract is bought

None == "none"

ASSUME LadderAssumption ==
  /\ Prices \subseteq Nat \ {0} /\ Spreads \subseteq 0..100
  /\ Total \in Nat \ {0}
  /\ \A r \in SomeRules :
       /\ IsFiniteSet(r.locks) /\ r.locks \subseteq Int \X Int
       /\ {r.sl, r.pt3, r.pt1Sell, r.pt2Sell, r.pt3Sell, r.stageSell} \subseteq Int
       /\ {r.v2.pt3, r.v2.pt1Sell, r.v2.pt2Sell, r.v2.pt3Sell, r.v2.softSell} \subseteq Int
       /\ {r.v2.soft, r.v2.panic, r.v2.give, r.v2.softConfirm} \subseteq Int
       /\ r.v2.trailConfirm \in Nat
       /\ r.v2.panicTicks \in Nat \ {0}      \* none asks for as much as one

VARIABLES
  rules,
  pos,        \* the position row
  held,       \* contracts in the account
  order,      \* the SELL row that is pending: what the broker has sold of it, whether it
              \* has grown old, and whether its poller knows the position
  last,       \* the latest order of each stop: its end
  engine,     \* _STATE of the hybrid engine; NewEngine in a new process
  tick,       \* the poll's quote and what it computed once
  todo,       \* rungs the poll has still to look at
  fired,      \* triggers it has fired
  defers,     \* _wide_spread_defers
  exceeds,    \* _exceeds_count
  asked,      \* a reconciliation was asked for
  young,      \* the entry's grace
  phase,      \* of the day
  cycle,      \* history: which purchase this is
  rungs,      \* history: orders of each target in this cycle
  before      \* history: the quote before, in this process; 0 for none

memory == <<engine, defers, exceeds>>
books == <<pos, held, order, last>>
history == <<cycle, rungs, before>>
vars == <<rules, books, memory, tick, todo, fired, asked, young, phase, history>>

Targets == {"PT1", "PT2", "PT3"}
Stops == {"SL", "SL_PARTIAL", "TRAILING_SL"}
AutoTriggers == Targets \cup Stops \cup {"TPT", "TIME_EXIT"}
Placed(t, qty) == [trigger |-> t, qty |-> qty, sold |-> 0, stale |-> FALSE, known |-> TRUE]
NoOrder == Placed(None, 0)
NoTick == [px |-> 0]
NewEngine == [state |-> None]
Fresh == [left |-> Total, peak |-> 100, pt1 |-> FALSE, pt2 |-> FALSE, pt3 |-> FALSE, sl |-> FALSE,
          slp |-> FALSE, tpt |-> FALSE, trailOn |-> FALSE]

Init ==
  /\ rules \in SomeRules
  /\ pos = Fresh
  /\ held = Total
  /\ order = IF rules.whaleTp THEN Placed("WHALE_TP", Total) ELSE NoOrder
  /\ last = [s \in Stops |-> None]
  /\ engine = NewEngine /\ defers = 0 /\ exceeds = 0
  /\ tick = NoTick /\ todo = <<>> /\ fired = {}
  /\ asked = FALSE
  /\ young = TRUE
  /\ phase = "open"
  /\ cycle = 1 /\ rungs = [t \in Targets |-> 0] /\ before = 0

-----------------------------------------------------------------------------
(* Once for a poll *)

(* The stop's level: the fixed one, or a floor that the peak has armed.     *)
Locks(p) ==
  {rules.sl} \cup
  {l[2] : l \in {l \in rules.locks : p.peak >= 100 + l[1]}}
Floor(p) == CHOOSE f \in Locks(p) : \A g \in Locks(p) : g <= f

TrailArmed(p) == rules.trail /\ p.pt1 /\ p.peak >= 100 + rules.trailArm

(* Mutant: the flag of a dead stop stays. *)
RearmedNot(p) == p

(* Mutant: with no order pending every flag is cleared. *)
RearmedAll(p) ==
  IF ~rules.repeg \/ order # NoOrder THEN p
  ELSE [p EXCEPT !.sl = FALSE, !.slp = FALSE, !.pt1 = FALSE, !.pt2 = FALSE, !.pt3 = FALSE]

(* _rearm_dead_stop: the flag of a stop whose last order died, with none    *)
(* pending.  (No SELL row counts what the broker sold before it is FILLED.)  *)
Rearmed(p) ==
  IF ~rules.repeg \/ order # NoOrder THEN p
  ELSE [p EXCEPT !.sl = @ /\ last["SL"] # "dead" /\ last["TRAILING_SL"] # "dead",
                 !.slp = @ /\ last["SL_PARTIAL"] # "dead"]

(* What a SELL would get. *)
BidOf(px, spread) ==
  IF rules.useBid THEN Larger(px \div 10, (px * (200 - spread)) \div 200) ELSE px

(* The gate of the wide spread, which opens after so many polls.            *)
Deferred == defers + 1
SpreadOk(spread) == spread < rules.wide \/ (rules.deferCap > 0 /\ Deferred >= rules.deferCap)

Rung(name) == [rule |-> name, qty |-> 0]
Ladder == <<Rung("PT1"), Rung("PT2"), Rung("PT3"), Rung("TPT"), Rung("TRAILING_SL"), Rung("SL")>>
ByHand == <<Rung("TPT_REMAINDER"), Rung("TRAIL_MANUAL"), Rung("TIME_EXIT"), Rung(None)>>

(* The last half hour of an expiry day, and after.                          *)
Late == phase \in {"late", "over"}

(* A quote that is believed. *)
Ticks(px, spread) ==
  LET p == [Rearmed(pos) EXCEPT !.peak = Larger(@, px)]
      e == IF engine = NewEngine THEN Rebuilt(p) ELSE engine
      verdict == Evaluate(Aged(e, rules.v2), p, px - 100, spread, Late, rules.v2) IN
  /\ todo = <<>>
  /\ pos.left > 0
  /\ pos' = p
  /\ tick' = [px |-> px, spread |-> spread, bid |-> BidOf(px, spread), floor |-> Floor(p),
              armed |-> TrailArmed(p), graced |-> young, hours |-> phase # "shut", late |-> Late,
              spreadOk |-> SpreadOk(spread), whale |-> order.trigger = "WHALE_TP"]
  /\ fired' = {}
  /\ IF rules.auto /\ rules.hybrid
       THEN engine' = verdict.mem /\ todo' = verdict.rules \o ByHand
       ELSE UNCHANGED engine /\ todo' = (IF rules.auto THEN Ladder ELSE <<>>) \o ByHand
  /\ defers' = IF ~rules.auto \/ rules.hybrid THEN defers
               ELSE IF spread < rules.wide THEN 0 ELSE Smaller(Deferred, rules.deferCap)
  /\ before' = IF rules.hybrid THEN tick.px ELSE 0
  /\ UNCHANGED <<rules, held, order, last, exceeds, asked, young, phase, cycle, rungs>>

(* No quote, or one too far from the last: the position is passed over.     *)
Skips ==
  /\ todo = <<>>
  /\ pos.left > 0
  /\ engine' = IF engine = NewEngine THEN NewEngine ELSE Aged(engine, rules.v2)
  /\ UNCHANGED <<rules, books, defers, exceeds, tick, todo, fired, asked, young, phase, history>>

-----------------------------------------------------------------------------
(* A rung *)

TrailsAway == tick.px * 100 <= pos.peak * (100 - rules.tptTrail)
StopGates == tick.hours /\ tick.spreadOk /\ ~tick.graced /\ ~pos.sl /\ ~pos.tpt /\ "TPT" \notin fired

Target(name, done, level) == name \in rules.targets /\ ~done /\ tick.px - 100 >= level

Wants(r) ==
  /\ pos.left > 0
  /\ r.qty > 0 => Allowed(r.rule, pos, tick.spread, tick.graced \/ ~tick.hours, rules.v2)
  /\ r.qty = 0 =>
       CASE r.rule = "PT1" -> Target("PT1", pos.pt1, rules.pt1) /\ ~tick.whale
         [] r.rule = "PT2" -> Target("PT2", pos.pt2, rules.pt2) /\ pos.pt1
         [] r.rule = "PT3" -> Target("PT3", pos.pt3, rules.pt3) /\ pos.pt2
         [] r.rule = "TPT" -> rules.tpt /\ pos.tpt /\ TrailsAway
         [] r.rule = "TRAILING_SL" ->
              StopGates /\ tick.armed /\ tick.bid * 100 <= pos.peak * (100 - rules.trailBack)
         [] r.rule = "SL" ->
              /\ StopGates /\ ~tick.armed
              /\ tick.bid - 100 <= tick.floor \/ (rules.maxLoss > 0 /\ (100 - tick.bid) * pos.left >= rules.maxLoss)
         [] r.rule = "TPT_REMAINDER" ->
              rules.remainder /\ rules.tpt /\ pos.tpt /\ TrailsAway /\ "TPT" \notin fired
         [] r.rule = "TRAIL_MANUAL" ->
              /\ pos.trailOn /\ ~pos.sl /\ pos.peak >= 100 + rules.trailArm
              /\ tick.px * 100 <= pos.peak * (100 - rules.trailBack)
              /\ tick.hours /\ tick.spread < rules.wide /\ ~tick.graced
              /\ fired \cap (Stops \cup {"TPT", "PT3"}) = {}
         [] r.rule = "TIME_EXIT" -> rules.auto /\ rules.timeExit /\ tick.late
         [] r.rule = None -> FALSE

(* The trigger the order carries, and how many contracts.                   *)
Staged == rules.staged /\ ~pos.slp /\ pos.left > 1
TriggerOf(r) ==
  CASE r.rule = "SL" -> IF Staged THEN "SL_PARTIAL" ELSE "SL"
    [] r.rule = "TPT_REMAINDER" -> "TPT"
    [] r.rule = "TRAIL_MANUAL" -> "TRAILING_SL"
    [] OTHER -> r.rule

KeepsRunner(r) == r.rule = "PT3" /\ r.qty = 0 /\ rules.tpt /\ rules.pt3Sell < 4
Amount(r) ==
  IF r.qty > 0 THEN Smaller(r.qty, pos.left) ELSE
  CASE r.rule = "PT1" -> Share(pos.left, rules.pt1Sell)
    [] r.rule = "PT2" -> Share(pos.left, rules.pt2Sell)
    [] KeepsRunner(r) -> (pos.left * rules.pt3Sell) \div 4
    [] r.rule = "SL" /\ Staged -> Share(pos.left, rules.stageSell)
    [] OTHER -> pos.left

(* Mutant: the runner trails from the entry again. *)
FlaggedReset(p, r, px) ==
  CASE TriggerOf(r) = "PT1" -> [p EXCEPT !.pt1 = TRUE]
    [] TriggerOf(r) = "PT2" -> [p EXCEPT !.pt2 = TRUE]
    [] TriggerOf(r) = "PT3" -> [p EXCEPT !.pt3 = TRUE, !.tpt = TRUE, !.peak = 100]
    [] OTHER -> [p EXCEPT !.sl = TRUE]

(* The flags of an exit that was placed.  The runner's trail starts at this *)
(* price.                                                                   *)
Flagged(p, r, px) ==
  LET t == TriggerOf(r)
      runner == KeepsRunner(r) \/ r.qty > 0 IN
  CASE t = "PT1" -> [p EXCEPT !.pt1 = TRUE]
    [] t = "PT2" -> [p EXCEPT !.pt2 = TRUE]
    [] t = "PT3" -> [p EXCEPT !.pt3 = TRUE, !.tpt = @ \/ runner, !.peak = IF runner THEN px ELSE @]
    [] t \in {"SL_PARTIAL", "SOFT_STOP_PARTIAL"} -> [p EXCEPT !.slp = TRUE]
    [] t \in {"TPT", "TIME_EXIT"} -> p
    [] OTHER -> [p EXCEPT !.sl = TRUE]

(* The rungs before the i-th want nothing. *)
FirstWanted(i) == Wants(todo[i]) /\ \A j \in 1..(i - 1) : ~Wants(todo[j])
After(i) == SubSeq(todo, i + 1, Len(todo))

(* The end and the beginning of an order row: what _rearm_dead_stop finds.  *)
Ended(l, t) == IF t \in Stops THEN [l EXCEPT ![t] = "dead"] ELSE l
Begun(l, t) == IF t \in Stops THEN [l EXCEPT ![t] = "live"] ELSE l

(* _place_sell: an order that is pending is in the way unless it is a       *)
(* lesser one, or an old one that is not larger; and unless its cancel finds *)
(* that it has sold nothing.                                                *)
InTheWay(t, qty) ==
  /\ order # NoOrder
  /\ \/ order.sold > 0
     \/ /\ ~(t \in AutoTriggers /\ order.trigger \notin AutoTriggers)
        /\ ~(rules.repeg /\ order.stale /\ order.trigger \in AutoTriggers /\ qty >= order.qty)

Places(i) ==
  LET r == todo[i]
      t == TriggerOf(r) IN
  /\ FirstWanted(i) /\ Amount(r) > 0
  /\ ~InTheWay(t, Amount(r))
  /\ Amount(r) <= held
  /\ order' = Placed(t, Amount(r))
  /\ last' = Begun(Ended(last, order.trigger), t)
  /\ pos' = Flagged(pos, r, tick.px)
  /\ fired' = fired \cup {t}
  /\ exceeds' = 0
  /\ rungs' = IF t \in Targets THEN [rungs EXCEPT ![t] = @ + 1] ELSE rungs
  /\ todo' = After(i)
  /\ UNCHANGED <<rules, held, engine, defers, tick, asked, young, phase, cycle, before>>

(* The runner is armed without a sale. *)
ArmsRunner(i) ==
  /\ FirstWanted(i) /\ Amount(todo[i]) = 0
  /\ pos' = Flagged(pos, todo[i], tick.px)
  /\ todo' = After(i)
  /\ UNCHANGED <<rules, held, order, last, memory, tick, fired, asked, young, phase, history>>

(* None: an order is in the way, or the cancel of one that is not, is not   *)
(* confirmed.  No flag, and the poll goes on.                               *)
Declines(i) ==
  LET r == todo[i] IN
  /\ FirstWanted(i) /\ Amount(r) > 0
  /\ order # NoOrder
  /\ exceeds' = 0
  /\ todo' = After(i)
  /\ UNCHANGED <<rules, books, engine, defers, tick, fired, asked, young, phase, history>>

(* The POST is refused, the order in the way cancelled before.  A refusal   *)
(* for want of contracts is counted, and the second asks the reconciler.    *)
Refused(i) ==
  LET r == todo[i] IN
  /\ FirstWanted(i) /\ Amount(r) > 0
  /\ ~InTheWay(TriggerOf(r), Amount(r))
  /\ order' = NoOrder
  /\ last' = LET t == TriggerOf(r) IN Ended(Begun(Ended(last, order.trigger), t), t)
  /\ IF Amount(r) > held
       THEN exceeds' = Smaller(exceeds + 1, 2) /\ asked' = (asked \/ exceeds >= 1)
       ELSE UNCHANGED <<exceeds, asked>>
  /\ todo' = After(i)
  /\ UNCHANGED <<rules, pos, held, engine, defers, tick, fired, young, phase, history>>

(* No rung of the poll wants anything more. *)
Rests ==
  /\ todo # <<>>
  /\ \A i \in 1..Len(todo) : ~Wants(todo[i])
  /\ todo' = <<>> /\ fired' = {} /\ tick' = [px |-> tick.px]
  /\ UNCHANGED <<rules, books, memory, asked, young, phase, history>>

Fires == \E i \in 1..Len(todo) : Places(i) \/ ArmsRunner(i) \/ Declines(i) \/ Refused(i)

-----------------------------------------------------------------------------
(* Between the awaits *)

(* A part of the order is sold: its row tells nothing of it. *)
SellsPart ==
  /\ rules.parts
  /\ order.sold = 0 /\ order.qty > 1 /\ held > 0
  /\ held' = held - 1
  /\ order' = [order EXCEPT !.sold = @ + 1]
  /\ UNCHANGED <<rules, pos, last, memory, tick, todo, fired, asked, young, phase, history>>

(* All of it is sold, and its poller books the whole, unless it is one that *)
(* was resumed.  A profitable sale of the analyst's may arm the trail of    *)
(* what is left.                                                            *)
Fills ==
  LET left == IF order.known THEN Larger(0, pos.left - order.qty) ELSE pos.left
      arms == order.known /\ order.trigger = "DISCORD" /\ left > 0 /\ rules.tpt /\ rules.remainder
              /\ tick.px # 0 /\ tick.px >= 100 + rules.tptArm IN
  /\ order # NoOrder
  /\ order.qty - order.sold <= held
  /\ pos' = [pos EXCEPT !.left = left, !.tpt = @ \/ arms]
  /\ held' = held - (order.qty - order.sold)
  /\ order' = NoOrder
  /\ last' = IF order.trigger \in Stops THEN [last EXCEPT ![order.trigger] = "sold"] ELSE last
  /\ UNCHANGED <<rules, memory, tick, todo, fired, asked, young, phase, history>>

(* The order is cancelled or expires. *)
Dies ==
  /\ order # NoOrder
  /\ last' = Ended(last, order.trigger)
  /\ order' = NoOrder
  /\ UNCHANGED <<rules, pos, held, memory, tick, todo, fired, asked, young, phase, history>>

GrowsOld ==
  /\ rules.repeg
  /\ order # NoOrder /\ ~order.stale
  /\ order' = [order EXCEPT !.stale = TRUE]
  /\ UNCHANGED <<rules, pos, held, last, memory, tick, todo, fired, asked, young, phase, history>>

(* The analyst or the operator sells. *)
Sends(t, n) ==
  /\ t \in rules.hands
  /\ order = NoOrder
  /\ n \in {1, pos.left} /\ pos.left > 0 /\ n <= held
  /\ order' = Placed(t, n)
  /\ UNCHANGED <<rules, pos, held, last, memory, tick, todo, fired, asked, young, phase, history>>

(* The operator arms the trail of this position, or disarms it. *)
TogglesTrail ==
  /\ rules.operator
  /\ pos.left > 0
  /\ pos' = [pos EXCEPT !.trailOn = ~@]
  /\ UNCHANGED <<rules, held, order, last, memory, tick, todo, fired, asked, young, phase, history>>

(* A contract is sold elsewhere. *)
SoldElsewhere ==
  /\ rules.elsewhere
  /\ order = NoOrder
  /\ held > 0
  /\ held' = held - 1
  /\ UNCHANGED <<rules, pos, order, last, memory, tick, todo, fired, asked, young, phase, history>>

(* reconcile_once, which runs by itself and when the second refusal asks for *)
(* it: the row counts what the account has, unless a SELL is in flight.     *)
Reconciles ==
  /\ asked \/ (pos.left > held /\ (order = NoOrder \/ held = 0))
  /\ asked' = FALSE
  /\ pos' = [pos EXCEPT !.left = IF order = NoOrder \/ held = 0 THEN Smaller(@, held) ELSE @]
  /\ UNCHANGED <<rules, held, order, last, memory, tick, todo, fired, young, phase, history>>

(* The grace ends; the market shuts and opens, or the expiry day ends.      *)
TimePasses ==
  /\ \/ young /\ young' = FALSE /\ UNCHANGED phase
     \/ /\ \/ phase = "open" /\ rules.daily /\ phase' = "late"
           \/ phase = "open" /\ rules.hours /\ ~rules.daily /\ phase' = "shut"
           \/ phase = "shut" /\ phase' = "open"
           \/ phase = "late" /\ phase' = "over"
        /\ UNCHANGED young
  /\ UNCHANGED <<rules, books, memory, tick, todo, fired, asked, history>>

(* _close_if_expired: the row is closed whatever its order does.            *)
Expires ==
  /\ phase = "over"
  /\ todo = <<>>
  /\ pos.left > 0
  /\ pos' = [pos EXCEPT !.left = 0]
  /\ UNCHANGED <<rules, held, order, last, memory, tick, todo, fired, asked, young, phase, history>>

(* _finalize_buy_fill on a closed row: the cycle starts anew, but for the   *)
(* staged stop's flag, the operator's switch and the engine's memory.       *)
Reopens ==
  /\ pos.left = 0 /\ order = NoOrder /\ todo = <<>>
  /\ cycle < rules.buys /\ phase # "over"
  /\ pos' = [Fresh EXCEPT !.slp = pos.slp, !.trailOn = pos.trailOn]
  /\ held' = Total
  /\ young' = TRUE
  /\ cycle' = cycle + 1
  /\ rungs' = [t \in Targets |-> 0]
  /\ UNCHANGED <<rules, order, last, memory, tick, todo, fired, asked, phase, before>>

(* The rows stay, a poller resumes that does not know the position, and the *)
(* rest is forgotten.                                                       *)
Restarts ==
  /\ rules.restarts
  /\ engine' = NewEngine /\ defers' = 0 /\ exceeds' = 0
  /\ todo' = <<>> /\ fired' = {} /\ tick' = NoTick /\ asked' = FALSE
  /\ before' = 0
  /\ order' = IF order = NoOrder THEN NoOrder ELSE [order EXCEPT !.known = FALSE]
  /\ UNCHANGED <<rules, pos, held, last, young, phase, cycle, rungs>>

Quotes == \E px \in Prices, spread \in Spreads : Ticks(px, spread)
Settles == Dies \/ Fills

Next ==
  \/ Quotes \/ Skips \/ Fires \/ Rests
  \/ SellsPart \/ Settles \/ GrowsOld
  \/ \E t \in {"DISCORD", "MANUAL"}, n \in 1..Total : Sends(t, n)
  \/ TogglesTrail \/ SoldElsewhere \/ Reconciles
  \/ TimePasses \/ Expires \/ Reopens \/ Restarts

(* The monitor polls and finishes what it began, an order does not stay at  *)
(* the broker for ever, and a reconciliation asked for is run.              *)
Fairness ==
  /\ WF_vars(Quotes) /\ WF_vars(Fires \/ Rests)
  /\ WF_vars(Settles) /\ WF_vars(Reconciles)

Spec == Init /\ [][Next]_vars /\ Fairness

-----------------------------------------------------------------------------
(* Properties *)

(* A target is sold at most once in the life of a purchase: an order of it  *)
(* that dies, whole or in part, is not sent again, and nor is one that is   *)
(* in the way of a rung or whose poll is cut short.                         *)
RungOnce == \A t \in Targets : rungs[t] <= 1

(* The stop of a purchase only tightens: what the peak has locked in stays  *)
(* locked when the third target makes the runner's peak start anew.         *)
StopNeverLoosens == [][cycle' = cycle => Floor(pos') >= Floor(pos)]_vars

(* The hybrid engine cuts on no single print: the quote it looked at before *)
(* was already as bad.  (For a row's first purchase: the memory outlives it.)   *)
Cuts == {"SOFT_STOP", "SOFT_STOP_PARTIAL"}
NoCutOnOnePrint ==
  [][cycle = 1 /\ (fired' \ fired) \cap Cuts # {} => before # 0 /\ before - 100 <= rules.v2.soft]_vars

(* While quotes stay at the stop the monitor does not go quiet: again and   *)
(* again an exit is at the broker or is tried, whatever orders die, spreads *)
(* widen, contracts are missing or polls skip.                              *)
Stopped == tick.px # 0 /\ tick.px - 100 <= rules.sl /\ phase = "open" /\ ~young
StopKeepsTrying ==
  rules.auto /\ ~rules.hybrid /\ rules.repeg /\ rules.deferCap > 0 /\ ~rules.restarts =>
    (<>[]Stopped => []<>(order # NoOrder \/ pos.left = 0) \/ []<><<Fires>>_vars)
=============================================================================
