-------------------------- MODULE ExitLadderProofs --------------------------
(***************************************************************************)
(* Proofs about ExitLadder, for any quotes, spreads, contracts and         *)
(* settings: a target is sold once in the life of a purchase, its stop is  *)
(* never lowered, and the hybrid engine cuts on no single print.           *)
(***************************************************************************)
EXTENDS ExitLadder, FiniteSetTheorems, WellFoundedInduction, TLAPS

-----------------------------------------------------------------------------
(* The floor *)

(* Among finitely many pairs one has the highest second part: of the sets of *)
(* pairs above a pair, one has no other strictly inside it.                 *)
LEMMA Highest ==
  ASSUME NEW L, IsFiniteSet(L), L # {}, \A l \in L : l[2] \in Int
  PROVE  \E l \in L : \A m \in L : m[2] <= l[2]
<1> DEFINE Above(l) == {m \in L : m[2] > l[2]}
           T == {Above(l) : l \in L}
           R == StrictSubsetOrdering(L)
<1>1. T \subseteq FiniteSubsetsOf(L) /\ T # {}
  <2>1. ASSUME NEW l \in L
        PROVE  Above(l) \in FiniteSubsetsOf(L)
        BY FS_Subset DEF FiniteSubsetsOf
  <2>2. QED BY <2>1
<1>2. IsWellFoundedOn(R, FiniteSubsetsOf(L))
      BY FS_StrictSubsetOrderingWellFounded
<1> HIDE DEF T
<1>3. PICK a \in T : \A b \in T : <<b, a>> \notin R
      BY <1>1, <1>2, WFMin
<1>4. PICK l \in L : a = Above(l)
      BY DEF T
<1>5. ASSUME NEW m \in L, m[2] > l[2]
      PROVE  FALSE
  <2>1. Above(m) \in T
        BY DEF T
  <2>2. Above(m) \subseteq a /\ m \in a /\ m \notin Above(m)
        BY <1>4, <1>5
  <2>3. <<Above(m), a>> \in R
        BY <2>2, <1>4 DEF StrictSubsetOrdering
  <2>4. QED BY <2>1, <2>3, <1>3
<1>6. QED BY <1>5

(* So there is a floor, and what arms more locks does not lower it.         *)
LEMMA FloorIs ==
  ASSUME rules \in SomeRules, NEW p, p.peak \in Int
  PROVE  /\ Floor(p) \in Locks(p)
         /\ \A g \in Locks(p) : g <= Floor(p)
         /\ Locks(p) \subseteq Int
<1> DEFINE L == {l \in rules.locks : p.peak >= 100 + l[1]}
<1>1. /\ rules.sl \in Int /\ IsFiniteSet(rules.locks)
      /\ \A l \in rules.locks : l[1] \in Int /\ l[2] \in Int
      BY LadderAssumption
<1>2. IsFiniteSet(L)
      BY <1>1, FS_Subset
<1>3. Locks(p) = {rules.sl} \cup {l[2] : l \in L}
      BY DEF Locks
<1>4. \E f \in Locks(p) : \A g \in Locks(p) : g <= f
  <2>1. CASE L = {}
        BY <1>1, <1>3, <2>1
  <2>2. CASE L # {}
    <3>1. PICK l \in L : \A m \in L : m[2] <= l[2]
          BY <1>1, <1>2, <2>2, Highest
    <3>2. CASE rules.sl <= l[2]
          BY <1>1, <1>3, <3>1, <3>2
    <3>3. CASE ~(rules.sl <= l[2])
      <4>1. \A m \in L : m[2] <= rules.sl
            BY <1>1, <3>1, <3>3
      <4>2. QED BY <1>1, <1>3, <4>1
    <3>4. QED BY <3>2, <3>3
  <2>3. QED BY <2>1, <2>2
<1>5. QED BY <1>1, <1>3, <1>4 DEF Floor

LEMMA FloorKept ==
  ASSUME rules \in SomeRules, NEW p, p.peak \in Int, NEW q, q.peak \in Int,
         q.peak >= p.peak \/ \A l \in rules.locks : q.peak >= 100 + l[1]
  PROVE  Floor(q) >= Floor(p)
<1>1. \A l \in rules.locks : l[1] \in Int
      BY LadderAssumption
<1>2. Locks(p) \subseteq Locks(q)
      BY <1>1 DEF Locks
<1>3. QED BY <1>2, FloorIs

-----------------------------------------------------------------------------
(* Types, and what the rungs of a poll carry *)

Positions == [left : Nat, peak : Int, pt1 : BOOLEAN, pt2 : BOOLEAN, pt3 : BOOLEAN, sl : BOOLEAN,
              slp : BOOLEAN, tpt : BOOLEAN, trailOn : BOOLEAN]
Names == {"PT1", "PT2", "PT3", "TPT", "TPT_REMAINDER", "TIME_EXIT", "SL", "SL_PARTIAL", "TRAILING_SL",
          "TRAIL_MANUAL", "SOFT_STOP", "SOFT_STOP_PARTIAL", "TRAIL_HIT", "PANIC", "EOD_THETA",
          "WHALE_TP", "DISCORD", "MANUAL", "none"}
RungSet == [rule : Names, qty : Nat]

Orders == [trigger : Names, qty : Int, sold : Int, stale : BOOLEAN, known : BOOLEAN]

(* A rung of the engine's third target was due at this price; the ladder's  *)
(* own says nothing of the price until it is looked at.                     *)
DueRung(r, px) ==
  r.rule = "PT3" => IF rules.hybrid THEN r.qty > 0 /\ px - 100 >= rules.v2.pt3 ELSE r.qty = 0

Shapes ==
  /\ rules \in SomeRules
  /\ pos \in Positions
  /\ held \in Nat
  /\ order \in Orders
  /\ tick.px \in Int
  /\ todo \in Seq(RungSet)

RungsDue == \A i \in 1..Len(todo) : DueRung(todo[i], tick.px)

(* An order of a target leaves its flag.                                    *)
FlagsTell ==
  /\ rungs \in [Targets -> Int]
  /\ \A t \in Targets : rungs[t] <= 1
  /\ rungs["PT1"] = 0 \/ pos.pt1
  /\ rungs["PT2"] = 0 \/ pos.pt2
  /\ rungs["PT3"] = 0 \/ pos.pt3
  /\ \A t \in Targets : rungs[t] >= 0

LadderInv == Shapes /\ RungsDue /\ FlagsTell

LEMMA Shares ==
  ASSUME NEW n \in Int, NEW k \in Int
  PROVE  Share(n, k) \in Nat /\ Share(n, k) > 0
BY DEF Share, Larger

(* What the engine asks for. *)
Asks(s, pct) ==
  /\ s \in Seq(RungSet)
  /\ \A i \in 1..Len(s) : s[i].rule = "PT3" => s[i].qty > 0 /\ pct >= rules.v2.pt3

LEMMA AsksMore ==
  ASSUME NEW s, NEW pct, Asks(s, pct), NEW r \in RungSet, r.rule # "PT3" \/ (r.qty > 0 /\ pct >= rules.v2.pt3)
  PROVE  Asks(Append(s, r), pct) /\ Asks(s \o <<r>>, pct)
<1>1. /\ Append(s, r) \in Seq(RungSet) /\ Len(Append(s, r)) = Len(s) + 1
      /\ \A i \in 1..Len(s) + 1 : Append(s, r)[i] = IF i = Len(s) + 1 THEN r ELSE s[i]
      BY DEF Asks
<1>2. s \o <<r>> = Append(s, r)
      BY DEF Asks
<1>3. Len(s) \in Nat
      BY DEF Asks
<1>4. Asks(Append(s, r), pct)
      BY <1>1, <1>3 DEF Asks
<1>5. QED BY <1>2, <1>4

LEMMA DueAsks ==
  ASSUME rules \in SomeRules, NEW p \in Positions, NEW pct \in Int
  PROVE  Asks(Due(p, pct, rules.v2), pct)
<1> DEFINE v == rules.v2
           one == IF ~p.pt1 /\ pct >= v.pt1 THEN <<[rule |-> "PT1", qty |-> Share(p.left, v.pt1Sell)]>> ELSE <<>>
           two == IF p.pt1 /\ ~p.pt2 /\ pct >= v.pt2
                    THEN <<[rule |-> "PT2", qty |-> Share(p.left, v.pt2Sell)]>> ELSE <<>>
           three == IF p.pt2 /\ ~p.pt3 /\ pct >= v.pt3
                      THEN <<[rule |-> "PT3", qty |-> Share(p.left, v.pt3Sell)]>> ELSE <<>>
<1>1. /\ Share(p.left, v.pt1Sell) \in Nat /\ Share(p.left, v.pt2Sell) \in Nat
      /\ Share(p.left, v.pt3Sell) \in Nat /\ Share(p.left, v.pt3Sell) > 0
  <2>1. v.pt1Sell \in Int /\ v.pt2Sell \in Int /\ v.pt3Sell \in Int
        BY LadderAssumption
  <2>2. p.left \in Int
        BY DEF Positions
  <2>3. \A k \in Int : Share(p.left, k) \in Nat /\ Share(p.left, k) > 0
        BY <2>2, Shares
  <2>4. QED BY <2>1, <2>3
<1>2. Asks(<<>>, pct)
      BY DEF Asks
<1>3. Asks(one, pct)
  <2>1. [rule |-> "PT1", qty |-> Share(p.left, v.pt1Sell)] \in RungSet
        BY <1>1 DEF RungSet, Names
  <2>2. Asks(<<>> \o <<[rule |-> "PT1", qty |-> Share(p.left, v.pt1Sell)]>>, pct)
        BY <1>2, <2>1, AsksMore
  <2>3. QED BY <1>2, <2>1, <2>2 DEF RungSet, Names
<1> HIDE DEF one
<1>4. Asks(one \o two, pct)
  <2>1. [rule |-> "PT2", qty |-> Share(p.left, v.pt2Sell)] \in RungSet
        BY <1>1 DEF RungSet, Names
  <2>2. Asks(one \o <<[rule |-> "PT2", qty |-> Share(p.left, v.pt2Sell)]>>, pct)
        BY <1>3, <2>1, AsksMore
  <2>3. one \o <<>> = one
        BY <1>3 DEF Asks
  <2>4. QED BY <1>3, <2>2, <2>3
<1> HIDE DEF two
<1>5. Asks((one \o two) \o three, pct)
  <2>1. [rule |-> "PT3", qty |-> Share(p.left, v.pt3Sell)] \in RungSet
        BY <1>1 DEF RungSet, Names
  <2>2. pct >= v.pt3 => Asks((one \o two) \o <<[rule |-> "PT3", qty |-> Share(p.left, v.pt3Sell)]>>, pct)
        BY <1>1, <1>4, <2>1, AsksMore
  <2>3. (one \o two) \o <<>> = one \o two
        BY <1>4 DEF Asks
  <2>4. QED BY <1>4, <2>2, <2>3
<1>6. QED BY <1>5 DEF Due, one, two

LEMMA ClosingAsks ==
  ASSUME NEW e, NEW s, NEW pct, Asks(s, pct), NEW p \in Positions, NEW rule \in Names, rule # "PT3"
  PROVE  Asks(Closing(e, s, rule, p).rules, pct)
<1>1. [rule |-> rule, qty |-> p.left] \in RungSet
      BY DEF RungSet, Names, Positions
<1>2. QED BY <1>1, AsksMore DEF Closing, Kept

LEMMA SoftStopsAsks ==
  ASSUME rules \in SomeRules, NEW e, NEW s, NEW pct, NEW spread, Asks(s, pct), NEW p \in Positions
  PROVE  Asks(SoftStops(e, s, p, pct, spread, rules.v2).rules, pct)
<1> DEFINE part == [rule |-> "SOFT_STOP_PARTIAL", qty |-> Share(p.left, rules.v2.softSell)]
<1>1. part \in RungSet
  <2>1. rules.v2.softSell \in Int
        BY LadderAssumption
  <2>2. p.left \in Int
        BY DEF Positions
  <2>3. Share(p.left, rules.v2.softSell) \in Nat
        BY <2>1, <2>2, Shares
  <2>4. QED BY <2>3 DEF RungSet, Names
<1>2. Asks(Append(s, part), pct)
      BY <1>1, AsksMore
<1>3. Asks(Closing(e, s, "SOFT_STOP", p).rules, pct)
      BY ClosingAsks DEF Names
<1>4. \A m, t : Kept(m, t).rules = t
      BY DEF Kept
<1>5. QED BY <1>2, <1>3, <1>4 DEF SoftStops

LEMMA EvaluateAsks ==
  ASSUME rules \in SomeRules, NEW e, NEW pct \in Int, NEW spread, NEW late, NEW p \in Positions
  PROVE  Asks(Evaluate(e, p, pct, spread, late, rules.v2).rules, pct)
<1>1. Asks(<<>>, pct)
      BY DEF Asks
<1>2. \A m : Asks(Closing(m, <<>>, "PANIC", p).rules, pct) /\ Asks(Closing(m, <<>>, "EOD_THETA", p).rules, pct)
      BY <1>1, ClosingAsks DEF Names
<1> DEFINE due == Due(p, pct, rules.v2)
<1>3. Asks(due, pct)
      BY DueAsks
<1> HIDE DEF due
<1>4. \A m : Asks(Closing(m, due, "TRAIL_HIT", p).rules, pct)
      BY <1>3, ClosingAsks DEF Names
<1>5. \A m : Asks(SoftStops(m, due, p, pct, spread, rules.v2).rules, pct)
      BY <1>3, SoftStopsAsks
<1>6. \A m : Asks(Trails(m, due, p, pct, spread, rules.v2).rules, pct)
      BY <1>4, <1>5 DEF Trails
<1>7. QED BY <1>2, <1>6 DEF Evaluate, due

-----------------------------------------------------------------------------
(* What a step does to the row *)

Third == IF rules.hybrid THEN rules.v2.pt3 ELSE rules.pt3

(* Within a purchase no target is forgotten, and the peak falls only to a   *)
(* price at the third target.                                               *)
Advances(p, q) ==
  /\ q \in Positions
  /\ (p.pt1 => q.pt1) /\ (p.pt2 => q.pt2) /\ (p.pt3 => q.pt3)
  /\ q.peak >= p.peak \/ q.peak >= 100 + Third

LEMMA SettingsTyped ==
  ASSUME rules \in SomeRules
  PROVE  /\ {rules.pt3, rules.pt1Sell, rules.pt2Sell, rules.pt3Sell, rules.stageSell, rules.v2.pt3} \subseteq Int
         /\ Third \in Int
BY LadderAssumption DEF Third

LEMMA AmountTyped ==
  ASSUME Shapes, NEW r \in RungSet
  PROVE  Amount(r) \in Int
<1>1. pos.left \in Int /\ r.qty \in Int
      BY DEF Shapes, Positions, RungSet
<1>2. /\ Share(pos.left, rules.pt1Sell) \in Nat /\ Share(pos.left, rules.pt2Sell) \in Nat
      /\ Share(pos.left, rules.stageSell) \in Nat
  <2>1. rules.pt1Sell \in Int /\ rules.pt2Sell \in Int /\ rules.stageSell \in Int
        BY SettingsTyped DEF Shapes
  <2>2. QED BY <1>1, <2>1, Shares
<1>3. (pos.left * rules.pt3Sell) \div 4 \in Int
      BY <1>1, SettingsTyped DEF Shapes
<1>4. QED BY <1>1, <1>2, <1>3 DEF Amount, Smaller

LEMMA TriggerNamed ==
  ASSUME NEW r \in RungSet
  PROVE  TriggerOf(r) \in Names
BY DEF TriggerOf, RungSet, Names

(* A rung that is wanted and placed raises the flag of its target, which    *)
(* was down.                                                                *)
LEMMA WantedAdvances ==
  ASSUME Shapes, RungsDue, NEW i \in 1..Len(todo), Wants(todo[i])
  PROVE  LET q == Flagged(pos, todo[i], tick.px)
             t == TriggerOf(todo[i]) IN
         /\ Advances(pos, q)
         /\ t = "PT1" => ~pos.pt1 /\ q.pt1
         /\ t = "PT2" => ~pos.pt2 /\ q.pt2
         /\ t = "PT3" => ~pos.pt3 /\ q.pt3
<1> DEFINE r == todo[i]
           t == TriggerOf(r)
           q == Flagged(pos, r, tick.px)
<1>1. r \in RungSet /\ pos \in Positions /\ tick.px \in Int
      BY DEF Shapes
<1>2. DueRung(r, tick.px)
      BY DEF RungsDue
<1>3. rules.pt3 \in Int /\ rules.v2.pt3 \in Int
      BY SettingsTyped DEF Shapes
<1>4. Wants(r)
      OBVIOUS
<1> HIDE DEF r
<1>5. r.qty = 0 \/ r.qty > 0
      BY <1>1 DEF RungSet
<1>6. /\ r.rule = "PT1" => ~pos.pt1
      /\ r.rule = "PT2" => ~pos.pt2
      /\ r.rule = "PT3" => ~pos.pt3 /\ tick.px - 100 >= Third
  <2>1. CASE r.qty = 0
    <3>1. /\ r.rule = "PT1" => Target("PT1", pos.pt1, rules.pt1)
          /\ r.rule = "PT2" => Target("PT2", pos.pt2, rules.pt2)
          /\ r.rule = "PT3" => Target("PT3", pos.pt3, rules.pt3)
          BY <1>4, <2>1 DEF Wants
    <3>2. QED BY <1>2, <2>1, <3>1 DEF Target, DueRung, Third
  <2>2. CASE r.qty > 0
    <3>1. Allowed(r.rule, pos, tick.spread, tick.graced \/ ~tick.hours, rules.v2)
          BY <1>4, <2>2 DEF Wants
    <3>2. QED BY <1>1, <1>2, <2>2, <3>1 DEF Allowed, DueRung, Third, RungSet
  <2>3. QED BY <1>5, <2>1, <2>2
<1>7. (t = "PT1" => r.rule = "PT1") /\ (t = "PT2" => r.rule = "PT2") /\ (t = "PT3" => r.rule = "PT3")
      BY DEF TriggerOf
<1>8. t = "PT1" => q = [pos EXCEPT !.pt1 = TRUE]
      BY DEF Flagged
<1>9. t = "PT2" => q = [pos EXCEPT !.pt2 = TRUE]
      BY DEF Flagged
<1>10. t = "PT3" => \E runner \in BOOLEAN :
          q = [pos EXCEPT !.pt3 = TRUE, !.tpt = pos.tpt \/ runner, !.peak = IF runner THEN tick.px ELSE pos.peak]
  <2>1. SUFFICES ASSUME t = "PT3"
                 PROVE  \E runner \in BOOLEAN : q = [pos EXCEPT !.pt3 = TRUE, !.tpt = pos.tpt \/ runner,
                                                            !.peak = IF runner THEN tick.px ELSE pos.peak]
        OBVIOUS
  <2>2. (KeepsRunner(r) \/ r.qty > 0) \in BOOLEAN
        BY DEF KeepsRunner
  <2>3. q = [pos EXCEPT !.pt3 = TRUE, !.tpt = pos.tpt \/ (KeepsRunner(r) \/ r.qty > 0),
                        !.peak = IF KeepsRunner(r) \/ r.qty > 0 THEN tick.px ELSE pos.peak]
        BY <1>1, <2>1 DEF Flagged, Positions
  <2>4. QED BY <2>2, <2>3
<1>11. t \notin Targets =>
          q = pos \/ q = [pos EXCEPT !.sl = TRUE] \/ q = [pos EXCEPT !.slp = TRUE]
      BY DEF Flagged, Targets
<1> HIDE DEF q, t
<1> DEFINE Raised == /\ Advances(pos, q)
                     /\ t = "PT1" => ~pos.pt1 /\ q.pt1
                     /\ t = "PT2" => ~pos.pt2 /\ q.pt2
                     /\ t = "PT3" => ~pos.pt3 /\ q.pt3
<1>12. ASSUME t = "PT1" PROVE Raised
  <2>1. q \in Positions /\ q.pt1 /\ q.pt2 = pos.pt2 /\ q.pt3 = pos.pt3 /\ q.peak = pos.peak /\ pos.peak \in Int
        BY <1>1, <1>8, <1>12 DEF Positions
  <2>2. Raised
        BY <1>6, <1>7, <1>12, <2>1 DEF Advances
  <2>3. QED BY <2>2
<1>8a. ASSUME t = "PT2" PROVE Raised
  <2>1. q \in Positions /\ q.pt2 /\ q.pt1 = pos.pt1 /\ q.pt3 = pos.pt3 /\ q.peak = pos.peak /\ pos.peak \in Int
        BY <1>1, <1>9, <1>8a DEF Positions
  <2>2. Raised
        BY <1>6, <1>7, <1>8a, <2>1 DEF Advances
  <2>3. QED BY <2>2
<1>14. ASSUME t = "PT3" PROVE Raised
  <2>1. PICK runner \in BOOLEAN :
          q = [pos EXCEPT !.pt3 = TRUE, !.tpt = pos.tpt \/ runner, !.peak = IF runner THEN tick.px ELSE pos.peak]
        BY <1>10, <1>14
  <2>2. ~pos.pt3 /\ tick.px - 100 >= Third
        BY <1>6, <1>7, <1>14
  <2>3. Third \in Int
        BY <1>3 DEF Third
  <2>4. q \in Positions /\ q.pt1 = pos.pt1 /\ q.pt2 = pos.pt2 /\ q.pt3
        /\ q.peak = IF runner THEN tick.px ELSE pos.peak
    <3>1. CASE runner
          BY <1>1, <2>1, <2>2, <2>3, <3>1 DEF Positions
    <3>2. CASE ~runner
          BY <1>1, <2>1, <3>2 DEF Positions
    <3>3. QED BY <3>1, <3>2
  <2>5. pos.peak \in Int
        BY <1>1 DEF Positions
  <2>6. Advances(pos, q)
        BY <1>1, <2>2, <2>3, <2>4, <2>5 DEF Advances
  <2>7. Raised
        BY <1>14, <2>2, <2>4, <2>6
  <2>8. QED BY <2>7
<1>15. ASSUME t \notin Targets PROVE Raised
  <2>1. /\ q \in Positions /\ q.pt1 = pos.pt1 /\ q.pt2 = pos.pt2 /\ q.pt3 = pos.pt3
        /\ q.peak = pos.peak /\ pos.peak \in Int
        BY <1>1, <1>11, <1>15 DEF Positions
  <2>2. Raised
        BY <1>15, <2>1 DEF Targets, Advances
  <2>3. QED BY <2>2
<1>16. Raised
      BY <1>12, <1>8a, <1>14, <1>15 DEF Targets
<1>17. QED BY <1>16 DEF q, t, r

-----------------------------------------------------------------------------
(* The steps *)

(* The invariant after a step that leaves the rungs to look at, or takes    *)
(* some from their front, at the same price.                                *)
LEMMA Shortened ==
  ASSUME Shapes, RungsDue, NEW i \in 1..Len(todo)
  PROVE  /\ After(i) \in Seq(RungSet)
         /\ \A j \in 1..Len(After(i)) : DueRung(After(i)[j], tick.px)
<1>1. todo \in Seq(RungSet) /\ Len(todo) \in Nat /\ i \in Nat
      BY DEF Shapes
<1>2. After(i) \in Seq(RungSet)
      BY <1>1 DEF After
<1>3. ASSUME NEW j \in 1..Len(After(i))
      PROVE  \E k \in 1..Len(todo) : After(i)[j] = todo[k]
  <2>1. Len(After(i)) = IF i + 1 <= Len(todo) THEN Len(todo) - i ELSE 0
        BY <1>1 DEF After
  <2>2. j + i \in 1..Len(todo) /\ After(i)[j] = todo[j + i]
        BY <1>1, <2>1 DEF After
  <2>3. QED BY <2>2
<1>4. QED BY <1>2, <1>3 DEF RungsDue

LEMMA PlacedTyped ==
  ASSUME NEW t \in Names, NEW n \in Int
  PROVE  Placed(t, n) \in Orders /\ NoOrder \in Orders
BY DEF Placed, NoOrder, Orders, Names, None

(* How the parts of the invariant fare when a rung is fired.                *)
LEMMA FiresKeeps ==
  ASSUME LadderInv, Fires
  PROVE  LadderInv' /\ Advances(pos, pos')
<1>1. PICK i \in 1..Len(todo) : Places(i) \/ ArmsRunner(i) \/ Declines(i) \/ Refused(i)
      BY DEF Fires
<1> DEFINE r == todo[i]
           q == Flagged(pos, r, tick.px)
           t == TriggerOf(r)
<1>2. Shapes /\ RungsDue /\ FlagsTell /\ r \in RungSet /\ pos \in Positions /\ order \in Orders
      BY DEF LadderInv, Shapes, Orders
<1>3. Wants(r)
      BY <1>1 DEF Places, ArmsRunner, Declines, Refused, FirstWanted
<1>4. /\ Advances(pos, q)
      /\ t = "PT1" => ~pos.pt1 /\ q.pt1
      /\ t = "PT2" => ~pos.pt2 /\ q.pt2
      /\ t = "PT3" => ~pos.pt3 /\ q.pt3
      BY <1>2, <1>3, WantedAdvances
<1>5. Advances(pos, pos)
  <2>1. pos.peak \in Int
        BY <1>2 DEF Positions
  <2>2. QED BY <1>2, <2>1 DEF Advances
<1>6. t \in Names /\ Amount(r) \in Int
      BY <1>2, TriggerNamed, AmountTyped
<1>7. Placed(t, Amount(r)) \in Orders /\ NoOrder \in Orders
      BY <1>6, PlacedTyped
<1> HIDE DEF r, q, t
<1>8. todo' = After(i) /\ UNCHANGED <<rules, tick, held>>
      BY <1>1 DEF Places, ArmsRunner, Declines, Refused, memory, books
<1>9. /\ todo' \in Seq(RungSet)
      /\ \A j \in 1..Len(todo') : DueRung(todo'[j], tick.px)
      BY <1>2, <1>8, Shortened
<1>10. RungsDue'
      BY <1>8, <1>9 DEF RungsDue, DueRung
<1>11. Advances(pos, pos') /\ order' \in Orders /\ FlagsTell'
  <2>1. CASE Places(i)
    <3>1. /\ pos' = q /\ order' = Placed(t, Amount(r))
          /\ rungs' = IF t \in Targets THEN [rungs EXCEPT ![t] = @ + 1] ELSE rungs
          BY <2>1 DEF Places, q, r, t
    <3>2. pos' \in Positions /\ (pos.pt1 => pos'.pt1) /\ (pos.pt2 => pos'.pt2) /\ (pos.pt3 => pos'.pt3)
          BY <1>4, <3>1 DEF Advances
    <3>3. FlagsTell'
      <4>1. CASE t \notin Targets
            BY <1>2, <3>1, <3>2, <4>1 DEF FlagsTell
      <4>2. CASE t \in Targets
        <5>1. rungs[t] = 0
              BY <1>2, <1>4, <4>2 DEF FlagsTell, Targets
        <5>2. /\ rungs' \in [Targets -> Int]
              /\ \A u \in Targets : rungs'[u] = IF u = t THEN 1 ELSE rungs[u]
              BY <1>2, <3>1, <4>2, <5>1 DEF FlagsTell
        <5>3. QED BY <1>2, <1>4, <3>1, <3>2, <4>2, <5>2 DEF FlagsTell, Targets
      <4>3. QED BY <4>1, <4>2
    <3>4. QED BY <1>4, <1>7, <3>1, <3>3
  <2>2. CASE ArmsRunner(i)
    <3>1. pos' = q /\ UNCHANGED <<order, rungs>>
          BY <2>2 DEF ArmsRunner, q, r, history
    <3>2. FlagsTell'
          BY <1>2, <1>4, <3>1 DEF FlagsTell, Advances
    <3>3. QED BY <1>2, <1>4, <3>1, <3>2
  <2>3. CASE Declines(i)
    <3>1. UNCHANGED <<pos, order, rungs>>
          BY <2>3 DEF Declines, books, history
    <3>2. QED BY <1>2, <1>5, <3>1 DEF FlagsTell
  <2>4. CASE Refused(i)
    <3>1. order' = NoOrder /\ UNCHANGED <<pos, rungs>>
          BY <2>4 DEF Refused, history
    <3>2. QED BY <1>2, <1>5, <1>7, <3>1 DEF FlagsTell
  <2>5. QED BY <1>1, <2>1, <2>2, <2>3, <2>4
<1>12. Shapes'
      BY <1>2, <1>8, <1>9, <1>11 DEF Shapes, Orders, Advances
<1>8a. QED BY <1>10, <1>11, <1>12 DEF LadderInv

(* What a poll sets out to look at. *)
Fine(s, px) ==
  /\ s \in Seq(RungSet)
  /\ \A i \in 1..Len(s) : DueRung(s[i], px)

LEMMA FineBoth ==
  ASSUME NEW s, NEW u, NEW px, Fine(s, px), Fine(u, px)
  PROVE  Fine(s \o u, px)
<1>1. /\ s \o u \in Seq(RungSet) /\ Len(s \o u) = Len(s) + Len(u) /\ Len(s) \in Nat /\ Len(u) \in Nat
      /\ \A i \in 1..Len(s) + Len(u) : (s \o u)[i] = IF i <= Len(s) THEN s[i] ELSE u[i - Len(s)]
      BY DEF Fine
<1>2. ASSUME NEW i \in 1..Len(s) + Len(u)
      PROVE  DueRung((s \o u)[i], px)
  <2>1. CASE i <= Len(s)
        BY <1>1, <2>1 DEF Fine
  <2>2. CASE ~(i <= Len(s))
    <3>1. i - Len(s) \in 1..Len(u)
          BY <1>1, <2>2
    <3>2. QED BY <1>1, <2>2, <3>1 DEF Fine
  <2>3. QED BY <2>1, <2>2
<1>3. QED BY <1>1, <1>2 DEF Fine

LEMMA RungTyped ==
  ASSUME NEW name \in Names
  PROVE  Rung(name) \in RungSet /\ Rung(name).rule = name /\ Rung(name).qty = 0
BY DEF Rung, RungSet

LEMMA ByHandFine ==
  ASSUME NEW px
  PROVE  Fine(ByHand, px)
<1>1. /\ Rung("TPT_REMAINDER") \in RungSet /\ Rung("TRAIL_MANUAL") \in RungSet
      /\ Rung("TIME_EXIT") \in RungSet /\ Rung(None) \in RungSet
      BY RungTyped DEF Names, None
<1>2. /\ Rung("TPT_REMAINDER").rule # "PT3" /\ Rung("TRAIL_MANUAL").rule # "PT3"
      /\ Rung("TIME_EXIT").rule # "PT3" /\ Rung(None).rule # "PT3"
      BY DEF Rung, None
<1>3. ByHand \in Seq(RungSet) /\ Len(ByHand) = 4
      BY <1>1 DEF ByHand
<1>4. \A i \in 1..4 : ByHand[i].rule # "PT3"
      BY <1>2 DEF ByHand
<1>5. QED BY <1>3, <1>4 DEF Fine, DueRung

LEMMA LadderFine ==
  ASSUME NEW px, ~rules.hybrid
  PROVE  Fine(Ladder, px)
<1>1. /\ Rung("PT1") \in RungSet /\ Rung("PT2") \in RungSet /\ Rung("PT3") \in RungSet
      /\ Rung("TPT") \in RungSet /\ Rung("TRAILING_SL") \in RungSet /\ Rung("SL") \in RungSet
      BY RungTyped DEF Names
<1>2. \A name : Rung(name).qty = 0
      BY DEF Rung
<1>3. Ladder \in Seq(RungSet) /\ Len(Ladder) = 6
      BY <1>1 DEF Ladder
<1>4. \A i \in 1..6 : Ladder[i].qty = 0
      BY <1>2 DEF Ladder
<1>5. QED BY <1>3, <1>4 DEF Fine, DueRung

LEMMA TicksKeeps ==
  ASSUME LadderInv, NEW px \in Prices, NEW spread \in Spreads, Ticks(px, spread)
  PROVE  LadderInv' /\ Advances(pos, pos')
<1> DEFINE p == [Rearmed(pos) EXCEPT !.peak = Larger(@, px)]
           e == IF engine = NewEngine THEN Rebuilt(p) ELSE engine
           verdict == Evaluate(Aged(e, rules.v2), p, px - 100, spread, Late, rules.v2)
<1>1. Shapes /\ RungsDue /\ FlagsTell /\ px \in Int
      BY LadderAssumption DEF LadderInv
<1>2. pos' = p /\ tick'.px = px /\ UNCHANGED <<rules, held, order, rungs>>
      BY DEF Ticks
<1>3. /\ Rearmed(pos) \in Positions /\ Rearmed(pos).peak = pos.peak
      /\ Rearmed(pos).pt1 = pos.pt1 /\ Rearmed(pos).pt2 = pos.pt2 /\ Rearmed(pos).pt3 = pos.pt3
      BY <1>1 DEF Shapes, Rearmed, Positions
<1>4. /\ p \in Positions /\ p.peak >= pos.peak
      /\ p.pt1 = pos.pt1 /\ p.pt2 = pos.pt2 /\ p.pt3 = pos.pt3
      BY <1>1, <1>3 DEF Positions, Larger
<1>5. Advances(pos, pos')
      BY <1>2, <1>4 DEF Advances
<1>6. FlagsTell'
      BY <1>1, <1>2, <1>4 DEF FlagsTell
<1>7. (rules.hybrid /\ todo' = verdict.rules \o ByHand) \/ (~rules.hybrid /\ todo' = Ladder \o ByHand)
      \/ todo' = <<>> \o ByHand
      BY DEF Ticks
<1>8. rules.hybrid => Fine(verdict.rules, px)
  <2>1. px - 100 \in Int
        BY <1>1
  <2>2. Asks(verdict.rules, px - 100)
        BY <1>1, <1>4, <2>1, EvaluateAsks DEF Shapes
  <2>3. QED BY <2>2 DEF Asks, Fine, DueRung
<1>9. Fine(<<>>, px)
      BY DEF Fine
<1> HIDE DEF verdict
<1>10. Fine(todo', px)
  <2>1. \A s : Fine(s, px) => Fine(s \o ByHand, px)
        BY ByHandFine, FineBoth
  <2>2. ~rules.hybrid => Fine(Ladder, px)
        BY LadderFine
  <2>3. CASE rules.hybrid /\ todo' = verdict.rules \o ByHand
        BY <1>8, <2>1, <2>3
  <2>4. CASE ~rules.hybrid /\ todo' = Ladder \o ByHand
        BY <2>1, <2>2, <2>4
  <2>5. CASE todo' = <<>> \o ByHand
        BY <1>9, <2>1, <2>5
  <2>6. QED BY <1>7, <2>3, <2>4, <2>5
<1>11. RungsDue'
      BY <1>2, <1>10 DEF Fine, RungsDue, DueRung
<1>12. Shapes'
      BY <1>1, <1>2, <1>4, <1>10 DEF Shapes, Fine
<1>8a. QED BY <1>5, <1>6, <1>11, <1>12 DEF LadderInv

(* What leaves the rungs and the quote alone: orders, hands and the account. *)
LEMMA AroundKeeps ==
  ASSUME LadderInv, UNCHANGED <<rules, tick, todo, rungs>>,
         pos' \in Positions, held' \in Nat, order' \in Orders,
         pos'.peak = pos.peak, pos.pt1 => pos'.pt1, pos.pt2 => pos'.pt2, pos.pt3 => pos'.pt3
  PROVE  LadderInv' /\ Advances(pos, pos')
<1>1. pos.peak \in Int
      BY DEF LadderInv, Shapes, Positions
<1>2. Advances(pos, pos')
      BY <1>1 DEF Advances
<1>3. Shapes' /\ RungsDue' /\ FlagsTell'
      BY DEF LadderInv, Shapes, RungsDue, DueRung, FlagsTell
<1>4. QED BY <1>2, <1>3 DEF LadderInv

(* The poll is over, or the process is: nothing is left to look at.         *)
LEMMA EmptiedKeeps ==
  ASSUME LadderInv, UNCHANGED <<rules, pos, held, rungs>>, todo' = <<>>, tick'.px \in Int, order' \in Orders
  PROVE  LadderInv' /\ Advances(pos, pos')
<1>1. pos.peak \in Int /\ pos \in Positions
      BY DEF LadderInv, Shapes, Positions
<1>2. Advances(pos, pos')
      BY <1>1 DEF Advances
<1>3. Shapes' /\ RungsDue' /\ FlagsTell'
      BY DEF LadderInv, Shapes, RungsDue, FlagsTell
<1>4. QED BY <1>2, <1>3 DEF LadderInv

LEMMA SettlesKeeps ==
  ASSUME LadderInv, SellsPart \/ Settles \/ GrowsOld
  PROVE  LadderInv' /\ Advances(pos, pos')
<1>1. /\ pos \in Positions /\ held \in Nat /\ order \in Orders
      /\ NoOrder \in Orders
      BY PlacedTyped DEF LadderInv, Shapes, NoOrder, Placed, Orders, Names, None
<1>2. CASE SellsPart
  <2>1. /\ held' \in Nat /\ order' \in Orders
        BY <1>1, <1>2 DEF SellsPart, Orders
  <2>2. UNCHANGED <<rules, tick, todo, rungs, pos>>
        BY <1>2 DEF SellsPart, history
  <2>3. QED BY <1>1, <2>1, <2>2, AroundKeeps
<1>3. CASE Fills
  <2>1. PICK left, arms : /\ left = IF order.known THEN Larger(0, pos.left - order.qty) ELSE pos.left
                          /\ pos' = [pos EXCEPT !.left = left, !.tpt = pos.tpt \/ arms]
        BY <1>1, <1>3 DEF Fills, Positions
  <2>2. left \in Nat
        BY <1>1, <2>1 DEF Larger, Positions, Orders
  <2>3. /\ pos' \in Positions /\ pos'.peak = pos.peak
        /\ pos'.pt1 = pos.pt1 /\ pos'.pt2 = pos.pt2 /\ pos'.pt3 = pos.pt3
        BY <1>1, <2>1, <2>2 DEF Positions
  <2>4. held' \in Nat
    <3>1. held' = held - (order.qty - order.sold) /\ order.qty - order.sold <= held
          BY <1>3 DEF Fills
    <3>2. order.qty \in Int /\ order.sold \in Int
          BY <1>1 DEF Orders
    <3>3. QED BY <1>1, <3>1, <3>2
  <2>5. order' = NoOrder /\ UNCHANGED <<rules, tick, todo, rungs>>
        BY <1>3 DEF Fills, history
  <2>6. QED BY <1>1, <2>3, <2>4, <2>5, AroundKeeps
<1>4. CASE Dies
  <2>1. order' = NoOrder /\ UNCHANGED <<rules, tick, todo, rungs, pos, held>>
        BY <1>4 DEF Dies, history
  <2>2. QED BY <1>1, <2>1, AroundKeeps
<1>5. CASE GrowsOld
  <2>1. order' \in Orders
        BY <1>1, <1>5 DEF GrowsOld, Orders
  <2>2. UNCHANGED <<rules, tick, todo, rungs, pos, held>>
        BY <1>5 DEF GrowsOld, history
  <2>3. QED BY <1>1, <2>1, <2>2, AroundKeeps
<1>6. QED BY <1>2, <1>3, <1>4, <1>5 DEF Settles

LEMMA HandsKeep ==
  ASSUME LadderInv,
         \/ \E t \in {"DISCORD", "MANUAL"}, n \in 1..Total : Sends(t, n)
         \/ TogglesTrail \/ SoldElsewhere \/ Reconciles \/ TimePasses \/ Expires
  PROVE  LadderInv' /\ Advances(pos, pos')
<1>1. pos \in Positions /\ held \in Nat /\ order \in Orders
      BY DEF LadderInv, Shapes
<1>2. ASSUME NEW t \in {"DISCORD", "MANUAL"}, NEW n \in 1..Total, Sends(t, n)
      PROVE  LadderInv' /\ Advances(pos, pos')
  <2>1. t \in Names /\ n \in Int
        BY LadderAssumption DEF Names
  <2>2. order' \in Orders /\ UNCHANGED <<rules, tick, todo, rungs, pos, held>>
        BY <1>2, <2>1, PlacedTyped DEF Sends, history
  <2>3. QED BY <1>1, <2>2, AroundKeeps
<1>3. CASE TogglesTrail
  <2>1. /\ pos' \in Positions /\ pos'.peak = pos.peak
        /\ pos'.pt1 = pos.pt1 /\ pos'.pt2 = pos.pt2 /\ pos'.pt3 = pos.pt3
        BY <1>1, <1>3 DEF TogglesTrail, Positions
  <2>2. UNCHANGED <<rules, tick, todo, rungs, order, held>>
        BY <1>3 DEF TogglesTrail, history
  <2>3. QED BY <1>1, <2>1, <2>2, AroundKeeps
<1>4. CASE SoldElsewhere
  <2>1. held' \in Nat
        BY <1>1, <1>4 DEF SoldElsewhere
  <2>2. UNCHANGED <<rules, tick, todo, rungs, order, pos>>
        BY <1>4 DEF SoldElsewhere, history
  <2>3. QED BY <1>1, <2>1, <2>2, AroundKeeps
<1>5. CASE Reconciles
  <2>1. PICK left : /\ left = (IF order = NoOrder \/ held = 0 THEN Smaller(pos.left, held) ELSE pos.left)
                    /\ pos' = [pos EXCEPT !.left = left]
        BY <1>5 DEF Reconciles
  <2>2. left \in Nat
        BY <1>1, <2>1 DEF Smaller, Positions
  <2>3. /\ pos' \in Positions /\ pos'.peak = pos.peak
        /\ pos'.pt1 = pos.pt1 /\ pos'.pt2 = pos.pt2 /\ pos'.pt3 = pos.pt3
        BY <1>1, <2>1, <2>2 DEF Positions
  <2>4. UNCHANGED <<rules, tick, todo, rungs, order, held>>
        BY <1>5 DEF Reconciles, history
  <2>5. QED BY <1>1, <2>3, <2>4, AroundKeeps
<1>6. CASE TimePasses
  <2>1. UNCHANGED <<rules, tick, todo, rungs, order, held, pos>>
        BY <1>6 DEF TimePasses, history, books
  <2>2. QED BY <1>1, <2>1, AroundKeeps
<1>7. CASE Expires
  <2>1. /\ pos' \in Positions /\ pos'.peak = pos.peak
        /\ pos'.pt1 = pos.pt1 /\ pos'.pt2 = pos.pt2 /\ pos'.pt3 = pos.pt3
        BY <1>1, <1>7 DEF Expires, Positions
  <2>2. UNCHANGED <<rules, tick, todo, rungs, order, held>>
        BY <1>7 DEF Expires, history
  <2>3. QED BY <1>1, <2>1, <2>2, AroundKeeps
<1>8. QED BY <1>2, <1>3, <1>4, <1>5, <1>6, <1>7

LEMMA PollEndsKeeps ==
  ASSUME LadderInv, Skips \/ Rests \/ Restarts \/ UNCHANGED vars
  PROVE  LadderInv' /\ Advances(pos, pos')
<1>1. pos \in Positions /\ held \in Nat /\ order \in Orders /\ tick.px \in Int
      BY DEF LadderInv, Shapes
<1>2. CASE Skips \/ UNCHANGED vars
  <2>1. UNCHANGED <<rules, tick, todo, rungs, order, held, pos>>
        BY <1>2 DEF Skips, vars, history, books
  <2>2. QED BY <1>1, <2>1, AroundKeeps
<1>3. CASE Rests
  <2>1. todo' = <<>> /\ tick'.px \in Int /\ UNCHANGED <<rules, pos, held, order, rungs>>
        BY <1>1, <1>3 DEF Rests, books, history
  <2>2. QED BY <1>1, <2>1, EmptiedKeeps
<1>4. CASE Restarts
  <2>1. todo' = <<>> /\ tick'.px \in Int /\ UNCHANGED <<rules, pos, held, rungs>>
        BY <1>4 DEF Restarts, NoTick
  <2>2. order' \in Orders
        BY <1>1, <1>4 DEF Restarts, Orders
  <2>3. QED BY <2>1, <2>2, EmptiedKeeps
<1>5. QED BY <1>2, <1>3, <1>4

(* A new purchase starts its flags and its count of orders together.        *)
LEMMA ReopensKeeps ==
  ASSUME LadderInv, Reopens, cycle \in Nat
  PROVE  LadderInv' /\ cycle' # cycle
<1>1. pos \in Positions /\ order \in Orders
      BY DEF LadderInv, Shapes
<1>2. pos' \in Positions
  <2>1. Fresh \in Positions
        BY LadderAssumption DEF Fresh, Positions
  <2>2. pos' = [Fresh EXCEPT !.slp = pos.slp, !.trailOn = pos.trailOn]
        BY DEF Reopens
  <2>3. pos.slp \in BOOLEAN /\ pos.trailOn \in BOOLEAN
        BY <1>1 DEF Positions
  <2>4. QED BY <2>1, <2>2, <2>3 DEF Positions
<1>3. held' \in Nat /\ UNCHANGED <<rules, tick, todo, order>>
      BY LadderAssumption DEF Reopens
<1>4. FlagsTell'
      BY DEF Reopens, FlagsTell, Targets
<1>5. Shapes' /\ RungsDue'
      BY <1>2, <1>3 DEF LadderInv, Shapes, RungsDue, DueRung
<1>6. QED BY <1>4, <1>5 DEF LadderInv, Reopens

LEMMA StepKeeps ==
  ASSUME LadderInv, cycle \in Nat, [Next]_vars
  PROVE  LadderInv' /\ cycle' \in Nat /\ (cycle' = cycle => Advances(pos, pos'))
<1>1. CASE Quotes
  <2>1. LadderInv' /\ Advances(pos, pos')
        BY <1>1, TicksKeeps DEF Quotes
  <2>2. cycle' = cycle
        BY <1>1 DEF Quotes, Ticks
  <2>3. QED BY <2>1, <2>2
<1>2. CASE Fires
  <2>1. cycle' = cycle
        BY <1>2 DEF Fires, Places, ArmsRunner, Declines, Refused, history
  <2>2. QED BY <1>2, <2>1, FiresKeeps
<1>3. CASE SellsPart \/ Settles \/ GrowsOld
  <2>1. cycle' = cycle
        BY <1>3 DEF SellsPart, Settles, Dies, Fills, GrowsOld, history
  <2>2. QED BY <1>3, <2>1, SettlesKeeps
<1>4. CASE \/ \E t \in {"DISCORD", "MANUAL"}, n \in 1..Total : Sends(t, n)
           \/ TogglesTrail \/ SoldElsewhere \/ Reconciles \/ TimePasses \/ Expires
  <2>1. cycle' = cycle
        BY <1>4 DEF Sends, TogglesTrail, SoldElsewhere, Reconciles, TimePasses, Expires, history
  <2>2. QED BY <1>4, <2>1, HandsKeep
<1>5. CASE Skips \/ Rests \/ Restarts \/ UNCHANGED vars
  <2>1. cycle' = cycle
        BY <1>5 DEF Skips, Rests, Restarts, vars, history
  <2>2. QED BY <1>5, <2>1, PollEndsKeeps
<1>6. CASE Reopens
  <2>1. cycle' \in Nat
        BY <1>6 DEF Reopens
  <2>2. QED BY <1>6, <2>1, ReopensKeeps
<1>7. QED BY <1>1, <1>2, <1>3, <1>4, <1>5, <1>6 DEF Next

LEMMA StartInv ==
  ASSUME Init
  PROVE  LadderInv /\ cycle \in Nat
<1>1. pos \in Positions /\ held \in Nat /\ tick.px \in Int /\ todo = <<>> /\ rules \in SomeRules
      BY LadderAssumption DEF Init, Fresh, Positions, NoTick
<1>2. "WHALE_TP" \in Names /\ None \in Names /\ Total \in Int
      BY LadderAssumption DEF Names, None
<1>3. order \in Orders
      BY <1>2, PlacedTyped DEF Init
<1>4. FlagsTell
      BY DEF Init, FlagsTell, Targets
<1>5. QED BY <1>1, <1>3, <1>4 DEF LadderInv, Shapes, RungsDue, Init

LEMMA InvHolds == Spec => [](LadderInv /\ cycle \in Nat)
<1>1. Init => LadderInv /\ cycle \in Nat
      BY StartInv
<1>2. LadderInv /\ cycle \in Nat /\ [Next]_vars => (LadderInv /\ cycle \in Nat)'
      BY StepKeeps
<1>3. QED BY <1>1, <1>2, PTL DEF Spec

-----------------------------------------------------------------------------
(* What the engine's memory says of the quote before *)

Engines == [state : {"ENTERED", "ARMED", "TRAILING", "CLOSED"}, panic : Int, soft : Int, trail : Int, peak : Int]

(* Something else closes before the soft stop is asked, at any price the    *)
(* soft stop would cut at: the panic, the expiry day's end or the trail.    *)
Preempts(e, p, late) ==
  LET v == rules.v2 IN
  \/ e.panic >= v.panicTicks /\ v.soft <= v.panic
  \/ late /\ e.state # "TRAILING"
  \/ v.trail /\ p.pt2 /\ e.trail # Unset /\ e.trail >= v.trailConfirm /\ v.soft <= e.peak - v.give

NoCuts(s) == \A i \in 1..Len(s) : s[i].rule \notin Cuts

(* What a verdict leaves behind and what it may cut for: a drawdown is      *)
(* remembered only of a quote as bad, or where nothing will be cut; and a   *)
(* cut is for a drawdown remembered.                                        *)
Tells(w, e, p, pct, late) ==
  /\ w.mem \in Engines
  /\ w.mem.soft # Unset => pct <= rules.v2.soft \/ Preempts(w.mem, p, late)
  /\ w.rules \in Seq(RungSet)
  /\ NoCuts(w.rules) \/ (e.soft # Unset /\ pct <= rules.v2.soft /\ ~Preempts(e, p, late))

LEMMA V2Typed ==
  ASSUME rules \in SomeRules
  PROVE  LET v == rules.v2 IN
         /\ v.soft \in Int /\ v.panic \in Int /\ v.give \in Int /\ v.softConfirm \in Int
         /\ v.trailConfirm \in Nat /\ v.panicTicks \in Nat /\ v.panicTicks > 0
BY LadderAssumption

LEMMA NoCutsMore ==
  ASSUME NEW s \in Seq(RungSet), NoCuts(s), NEW r \in RungSet, r.rule \notin Cuts
  PROVE  Append(s, r) \in Seq(RungSet) /\ NoCuts(Append(s, r)) /\ s \o <<r>> = Append(s, r)
<1>1. /\ Append(s, r) \in Seq(RungSet) /\ Len(Append(s, r)) = Len(s) + 1 /\ Len(s) \in Nat
      /\ \A i \in 1..Len(s) + 1 : Append(s, r)[i] = IF i = Len(s) + 1 THEN r ELSE s[i]
      OBVIOUS
<1>2. NoCuts(Append(s, r))
      BY <1>1 DEF NoCuts
<1>3. QED BY <1>1, <1>2

LEMMA DueCutsNothing ==
  ASSUME rules \in SomeRules, NEW p \in Positions, NEW pct \in Int
  PROVE  Due(p, pct, rules.v2) \in Seq(RungSet) /\ NoCuts(Due(p, pct, rules.v2))
<1> DEFINE v == rules.v2
           r1 == [rule |-> "PT1", qty |-> Share(p.left, v.pt1Sell)]
           r2 == [rule |-> "PT2", qty |-> Share(p.left, v.pt2Sell)]
           r3 == [rule |-> "PT3", qty |-> Share(p.left, v.pt3Sell)]
           one == IF ~p.pt1 /\ pct >= v.pt1 THEN <<r1>> ELSE <<>>
           two == IF p.pt1 /\ ~p.pt2 /\ pct >= v.pt2 THEN <<r2>> ELSE <<>>
           three == IF p.pt2 /\ ~p.pt3 /\ pct >= v.pt3 THEN <<r3>> ELSE <<>>
           Good(s) == s \in Seq(RungSet) /\ NoCuts(s)
<1>1. /\ r1 \in RungSet /\ r2 \in RungSet /\ r3 \in RungSet
  <2>1. v.pt1Sell \in Int /\ v.pt2Sell \in Int /\ v.pt3Sell \in Int
        BY LadderAssumption
  <2>2. p.left \in Int
        BY DEF Positions
  <2>3. \A k \in Int : Share(p.left, k) \in Nat
        BY <2>2, Shares
  <2>4. QED BY <2>1, <2>3 DEF RungSet, Names
<1>2. r1.rule \notin Cuts /\ r2.rule \notin Cuts /\ r3.rule \notin Cuts
      BY DEF Cuts
<1> HIDE DEF r1, r2, r3
<1>3. Good(<<>>)
      BY DEF NoCuts
<1>4. Good(one)
  <2>1. Good(<<r1>>)
    <3>1. <<r1>> \in Seq(RungSet) /\ Len(<<r1>>) = 1 /\ <<r1>>[1] = r1
          BY <1>1
    <3>2. QED BY <1>2, <3>1 DEF NoCuts
  <2>2. QED BY <1>3, <2>1
<1> HIDE DEF one
<1>5. Good(one \o two)
  <2>1. Good(one \o <<r2>>)
        BY <1>1, <1>2, <1>4, NoCutsMore
  <2>2. one \o <<>> = one
        BY <1>4
  <2>3. QED BY <1>4, <2>1, <2>2
<1> HIDE DEF two
<1>6. Good((one \o two) \o three)
  <2>1. Good((one \o two) \o <<r3>>)
        BY <1>1, <1>2, <1>5, NoCutsMore
  <2>2. (one \o two) \o <<>> = one \o two
        BY <1>5
  <2>3. QED BY <1>5, <2>1, <2>2
<1>7. QED BY <1>6 DEF Due, one, two, r1, r2, r3

LEMMA ClosingTells ==
  ASSUME NEW m \in Engines, NEW s \in Seq(RungSet), NoCuts(s), NEW p \in Positions,
         NEW rule \in Names, rule \notin Cuts
  PROVE  LET w == Closing(m, s, rule, p) IN
         /\ w.mem \in Engines /\ w.mem = [m EXCEPT !.state = "CLOSED"]
         /\ w.rules \in Seq(RungSet) /\ NoCuts(w.rules)
<1>1. [rule |-> rule, qty |-> p.left] \in RungSet
      BY DEF RungSet, Positions
<1>2. [m EXCEPT !.state = "CLOSED"] \in Engines
      BY DEF Engines
<1>3. QED BY <1>1, <1>2, NoCutsMore DEF Closing, Kept

LEMMA SoftStopsTell ==
  ASSUME rules \in SomeRules, NEW m \in Engines, NEW s \in Seq(RungSet), NoCuts(s), NEW p \in Positions,
         NEW pct \in Int, NEW spread
  PROVE  LET w == SoftStops(m, s, p, pct, spread, rules.v2) IN
         /\ w.mem \in Engines
         /\ w.mem.soft # Unset => pct <= rules.v2.soft
         /\ w.rules \in Seq(RungSet)
         /\ NoCuts(w.rules) \/ (m.soft # Unset /\ pct <= rules.v2.soft)
<1> DEFINE part == [rule |-> "SOFT_STOP_PARTIAL", qty |-> Share(p.left, rules.v2.softSell)]
           whole == [rule |-> "SOFT_STOP", qty |-> p.left]
           w == SoftStops(m, s, p, pct, spread, rules.v2)
<1>1. part \in RungSet /\ whole \in RungSet
  <2>1. rules.v2.softSell \in Int
        BY LadderAssumption
  <2>2. p.left \in Nat /\ p.left \in Int
        BY DEF Positions
  <2>3. Share(p.left, rules.v2.softSell) \in Nat
        BY <2>1, <2>2, Shares
  <2>4. QED BY <2>2, <2>3 DEF RungSet, Names
<1>2. Append(s, part) \in Seq(RungSet) /\ Append(s, whole) \in Seq(RungSet)
      BY <1>1
<1> HIDE DEF part
<1>3. /\ [m EXCEPT !.soft = 0] \in Engines /\ [m EXCEPT !.state = "CLOSED"] \in Engines
      /\ [m EXCEPT !.soft = Unset] \in Engines /\ [m EXCEPT !.soft = Unset].soft = Unset
      BY DEF Engines, Unset
<1>4. CASE pct <= rules.v2.soft
  <2>1. \/ w = Kept([m EXCEPT !.soft = 0], s)
        \/ w = Kept(m, s)
        \/ m.soft # Unset /\ w = Kept(m, Append(s, part))
        \/ m.soft # Unset /\ w = Kept([m EXCEPT !.state = "CLOSED"], Append(s, whole))
        \/ w = Kept([m EXCEPT !.soft = Unset], s)
        BY DEF SoftStops, Closing, part
  <2> HIDE DEF w, whole
  <2>2. /\ w.mem \in {[m EXCEPT !.soft = 0], m, [m EXCEPT !.state = "CLOSED"], [m EXCEPT !.soft = Unset]}
        /\ w.rules \in {s, Append(s, part), Append(s, whole)}
        /\ w.rules = s \/ m.soft # Unset
        BY <2>1 DEF Kept
  <2>3. QED BY <1>2, <1>3, <1>4, <2>2 DEF w
<1>5. CASE ~(pct <= rules.v2.soft)
  <2>1. w = Kept([m EXCEPT !.soft = Unset], s)
        BY <1>5 DEF SoftStops
  <2> HIDE DEF w
  <2>2. w.mem = [m EXCEPT !.soft = Unset] /\ w.rules = s
        BY <2>1 DEF Kept
  <2>3. QED BY <1>3, <2>2 DEF w
<1>6. QED BY <1>4, <1>5

LEMMA TrailsTell ==
  ASSUME rules \in SomeRules, NEW m \in Engines, NEW s \in Seq(RungSet), NoCuts(s), NEW p \in Positions,
         NEW pct \in Int, NEW spread, NEW late
  PROVE  LET w == Trails(m, s, p, pct, spread, rules.v2)
             closed == rules.v2.trail /\ p.pt2 /\ m.trail # Unset /\ m.trail >= rules.v2.trailConfirm
                       /\ pct <= m.peak - rules.v2.give IN
         /\ w.mem \in Engines
         /\ w.mem.soft # Unset => pct <= rules.v2.soft \/ Preempts(w.mem, p, late)
         /\ w.rules \in Seq(RungSet)
         /\ NoCuts(w.rules) \/ (m.soft # Unset /\ pct <= rules.v2.soft /\ ~closed)
<1> DEFINE v == rules.v2
           w == Trails(m, s, p, pct, spread, v)
           below == v.trail /\ p.pt2 /\ pct <= m.peak - v.give
<1>1. v.soft \in Int /\ v.give \in Int /\ v.trailConfirm \in Nat /\ m.peak \in Int /\ m.trail \in Int
      BY V2Typed DEF Engines
<1>2. CASE below /\ m.trail # Unset /\ m.trail >= v.trailConfirm
  <2>1. w = Closing(m, s, "TRAIL_HIT", p)
        BY <1>2 DEF Trails
  <2>2. /\ w.mem \in Engines /\ w.mem = [m EXCEPT !.state = "CLOSED"]
        /\ w.rules \in Seq(RungSet) /\ NoCuts(w.rules)
        BY <2>1, ClosingTells DEF Names, Cuts
  <2>3. w.mem.trail = m.trail /\ w.mem.peak = m.peak
        BY <2>2 DEF Engines
  <2>4. pct <= v.soft \/ v.soft <= m.peak - v.give
        BY <1>1, <1>2
  <2>5. pct <= v.soft \/ Preempts(w.mem, p, late)
        BY <1>2, <2>3, <2>4 DEF Preempts
  <2>6. QED BY <2>2, <2>5
<1>3. CASE ~(below /\ m.trail # Unset /\ m.trail >= v.trailConfirm)
  <2>1. PICK age : /\ age = (IF ~v.trail \/ ~p.pt2 THEN m.trail ELSE IF ~below THEN Unset ELSE Larger(m.trail, 0))
                   /\ w = SoftStops([m EXCEPT !.trail = age], s, p, pct, spread, v)
        BY <1>3 DEF Trails
  <2>2. age \in Int
        BY <1>1, <2>1 DEF Unset, Larger
  <2>3. PICK n : n = [m EXCEPT !.trail = age]
        OBVIOUS
  <2>4. n \in Engines /\ n.soft = m.soft
        BY <2>2, <2>3 DEF Engines
  <2>5. w = SoftStops(n, s, p, pct, spread, v)
        BY <2>1, <2>3
  <2> HIDE DEF w
  <2>6. /\ w.mem \in Engines
        /\ w.mem.soft # Unset => pct <= v.soft
        /\ w.rules \in Seq(RungSet)
        /\ NoCuts(w.rules) \/ (m.soft # Unset /\ pct <= v.soft)
    <3>1. /\ SoftStops(n, s, p, pct, spread, rules.v2).mem \in Engines
          /\ SoftStops(n, s, p, pct, spread, rules.v2).mem.soft # Unset => pct <= rules.v2.soft
          /\ SoftStops(n, s, p, pct, spread, rules.v2).rules \in Seq(RungSet)
          /\ NoCuts(SoftStops(n, s, p, pct, spread, rules.v2).rules) \/ (n.soft # Unset /\ pct <= rules.v2.soft)
          BY <2>4, SoftStopsTell
    <3>2. QED BY <2>4, <2>5, <3>1
  <2>7. QED BY <1>3, <2>6 DEF w
<1>4. QED BY <1>2, <1>3

LEMMA VerdictTells ==
  ASSUME rules \in SomeRules, NEW e \in Engines, NEW p \in Positions, NEW pct \in Int, NEW spread,
         NEW late \in BOOLEAN
  PROVE  Tells(Evaluate(e, p, pct, spread, late, rules.v2), e, p, pct, late)
<1> DEFINE v == rules.v2
           panic == IF pct <= v.panic THEN Smaller(e.panic + 1, v.panicTicks) ELSE 0
           seen == [e EXCEPT !.peak = Larger(e.peak, pct), !.panic = panic]
           w == Evaluate(e, p, pct, spread, late, v)
           due == Due(p, pct, v)
<1>1. /\ v.soft \in Int /\ v.panic \in Int /\ v.give \in Int
      /\ v.trailConfirm \in Nat /\ v.panicTicks \in Nat /\ v.panicTicks > 0
      /\ e.peak \in Int /\ e.panic \in Int /\ e.trail \in Int
      BY V2Typed DEF Engines
<1>2. panic \in Int /\ (pct <= v.panic /\ e.panic >= v.panicTicks => panic >= v.panicTicks)
      /\ (panic >= v.panicTicks => pct <= v.panic)
      BY <1>1 DEF Smaller
<1>3. PICK m : m = seen
      OBVIOUS
<1>4. Larger(e.peak, pct) \in Int /\ Larger(e.peak, pct) >= e.peak
      BY <1>1 DEF Larger
<1>5. /\ w = IF seen.panic >= v.panicTicks THEN Closing(seen, <<>>, "PANIC", p)
             ELSE IF late /\ e.state # "TRAILING" THEN Closing(seen, <<>>, "EOD_THETA", p)
             ELSE Trails(seen, due, p, pct, spread, v)
      BY DEF Evaluate, Engines
<1> HIDE DEF panic, w
<1>6. /\ m \in Engines /\ m.panic = panic /\ m.peak >= e.peak /\ m.peak \in Int
      /\ m.state = e.state /\ m.soft = e.soft /\ m.trail = e.trail
      BY <1>2, <1>3, <1>4 DEF Engines
<1>7. /\ w = IF panic >= v.panicTicks THEN Closing(m, <<>>, "PANIC", p)
             ELSE IF late /\ e.state # "TRAILING" THEN Closing(m, <<>>, "EOD_THETA", p)
             ELSE Trails(m, due, p, pct, spread, v)
      BY <1>3, <1>5, <1>6
<1>8. due \in Seq(RungSet) /\ NoCuts(due) /\ <<>> \in Seq(RungSet) /\ NoCuts(<<>>)
      BY DueCutsNothing DEF NoCuts
<1> HIDE DEF seen, due
<1>8a. \A rule \in {"PANIC", "EOD_THETA"} :
          LET c == Closing(m, <<>>, rule, p) IN
          /\ c.mem \in Engines /\ c.mem = [m EXCEPT !.state = "CLOSED"]
          /\ c.rules \in Seq(RungSet) /\ NoCuts(c.rules)
  <2>1. ASSUME NEW rule \in {"PANIC", "EOD_THETA"}
        PROVE  rule \in Names /\ rule \notin Cuts
        BY DEF Names, Cuts
  <2>2. QED BY <1>6, <1>8, <2>1, ClosingTells
<1>9. CASE panic >= v.panicTicks
  <2>1. w = Closing(m, <<>>, "PANIC", p)
        BY <1>7, <1>9
  <2>2. /\ w.mem \in Engines /\ w.mem = [m EXCEPT !.state = "CLOSED"]
        /\ w.rules \in Seq(RungSet) /\ NoCuts(w.rules)
        BY <1>8a, <2>1
  <2>3. w.mem.panic = panic /\ pct <= v.panic
        BY <1>2, <1>6, <1>9, <2>2 DEF Engines
  <2>4. pct <= v.soft \/ v.soft <= v.panic
        BY <1>1, <2>3
  <2>5. pct <= v.soft \/ Preempts(w.mem, p, late)
        BY <1>9, <2>3, <2>4 DEF Preempts
  <2>6. QED BY <2>2, <2>5 DEF Tells, w
<1>10. CASE ~(panic >= v.panicTicks) /\ late /\ e.state # "TRAILING"
  <2>1. w = Closing(m, <<>>, "EOD_THETA", p)
        BY <1>7, <1>10
  <2>2. /\ w.mem \in Engines /\ w.mem = [m EXCEPT !.state = "CLOSED"]
        /\ w.rules \in Seq(RungSet) /\ NoCuts(w.rules)
        BY <1>8a, <2>1
  <2>3. w.mem.state = "CLOSED"
        BY <1>6, <2>2 DEF Engines
  <2>4. Preempts(w.mem, p, late)
        BY <1>10, <2>3 DEF Preempts
  <2>5. QED BY <2>2, <2>4 DEF Tells, w
<1>11. CASE ~(panic >= v.panicTicks) /\ ~(late /\ e.state # "TRAILING")
  <2>1. w = Trails(m, due, p, pct, spread, v)
        BY <1>7, <1>11
  <2>2. /\ w.mem \in Engines
        /\ w.mem.soft # Unset => pct <= v.soft \/ Preempts(w.mem, p, late)
        /\ w.rules \in Seq(RungSet)
        /\ \/ NoCuts(w.rules)
           \/ /\ m.soft # Unset /\ pct <= v.soft
              /\ ~(v.trail /\ p.pt2 /\ m.trail # Unset /\ m.trail >= v.trailConfirm /\ pct <= m.peak - v.give)
        BY <1>6, <1>8, <2>1, TrailsTell
  <2>3. ASSUME pct <= v.soft, Preempts(e, p, late),
               ~(v.trail /\ p.pt2 /\ m.trail # Unset /\ m.trail >= v.trailConfirm /\ pct <= m.peak - v.give)
        PROVE  FALSE
    <3>1. CASE e.panic >= v.panicTicks /\ v.soft <= v.panic
          BY <1>1, <1>2, <1>11, <2>3, <3>1
    <3>2. CASE v.trail /\ p.pt2 /\ e.trail # Unset /\ e.trail >= v.trailConfirm /\ v.soft <= e.peak - v.give
          BY <1>1, <1>6, <2>3, <3>2
    <3>3. QED BY <1>11, <2>3, <3>1, <3>2 DEF Preempts
  <2>4. QED BY <1>6, <2>2, <2>3 DEF Tells, w
<1>12. QED BY <1>9, <1>10, <1>11

(* What is remembered of a drawdown, and what a rung that cuts says of the  *)
(* quote before, in a row's first purchase.                                 *)
CutInv ==
  /\ cycle \in Nat \ {0}
  /\ engine = NewEngine \/ engine \in Engines
  /\ ~(rules.auto /\ rules.hybrid) => engine = NewEngine
  /\ engine # NewEngine => tick.px # 0
  /\ cycle = 1 /\ engine # NewEngine /\ engine.soft # Unset =>
        tick.px - 100 <= rules.v2.soft \/ Preempts(engine, pos, Late)
  /\ \A i \in 1..Len(todo) : cycle = 1 /\ todo[i].rule \in Cuts => before # 0 /\ before - 100 <= rules.v2.soft

(* Time ages what is remembered and takes nothing from it.                  *)
LEMMA AgedKeeps ==
  ASSUME rules \in SomeRules, NEW e \in Engines, NEW p, NEW q, NEW late, NEW after,
         p.pt2 => q.pt2, late => after
  PROVE  LET a == Aged(e, rules.v2) IN
         /\ a \in Engines
         /\ a.soft # Unset => e.soft # Unset
         /\ Preempts(e, p, late) => Preempts(a, q, after)
<1> DEFINE v == rules.v2
           a == Aged(e, v)
<1>1. /\ v.softConfirm \in Int /\ v.trailConfirm \in Nat
      /\ e.soft \in Int /\ e.trail \in Int
      BY V2Typed DEF Engines
<1>2. PICK soft, trail : /\ soft = Older(e.soft, v.softConfirm) /\ trail = Older(e.trail, v.trailConfirm)
                         /\ a = [e EXCEPT !.soft = soft, !.trail = trail]
      BY DEF Aged
<1>3. soft \in Int /\ (soft # Unset => e.soft # Unset)
      BY <1>1, <1>2 DEF Older, Smaller, Unset
<1>4. trail \in Int /\ (e.trail # Unset /\ e.trail >= v.trailConfirm => trail # Unset /\ trail >= v.trailConfirm)
      BY <1>1, <1>2 DEF Older, Smaller, Unset
<1>5. /\ a \in Engines /\ a.soft = soft /\ a.trail = trail
      /\ a.panic = e.panic /\ a.state = e.state /\ a.peak = e.peak
      BY <1>2, <1>3, <1>4 DEF Engines
<1>6. QED BY <1>3, <1>4, <1>5 DEF Preempts

LEMMA NoCutsBoth ==
  ASSUME NEW s \in Seq(RungSet), NEW u \in Seq(RungSet), NoCuts(u),
         NEW i \in 1..Len(s \o u), (s \o u)[i].rule \in Cuts
  PROVE  ~NoCuts(s)
<1>1. /\ Len(s \o u) = Len(s) + Len(u) /\ Len(s) \in Nat /\ Len(u) \in Nat
      /\ (s \o u)[i] = IF i <= Len(s) THEN s[i] ELSE u[i - Len(s)]
      OBVIOUS
<1>2. CASE i <= Len(s)
      BY <1>1, <1>2 DEF NoCuts
<1>3. CASE ~(i <= Len(s))
  <2>1. i - Len(s) \in 1..Len(u) /\ (s \o u)[i] = u[i - Len(s)]
        BY <1>1, <1>3
  <2>2. QED BY <2>1 DEF NoCuts
<1>4. QED BY <1>2, <1>3

LEMMA RungsCutNothing ==
  ByHand \in Seq(RungSet) /\ NoCuts(ByHand) /\ Ladder \in Seq(RungSet) /\ NoCuts(Ladder)
<1>1. /\ Rung("TPT_REMAINDER") \in RungSet /\ Rung("TRAIL_MANUAL") \in RungSet
      /\ Rung("TIME_EXIT") \in RungSet /\ Rung(None) \in RungSet
      BY RungTyped DEF Names, None
<1>2. /\ Rung("PT1") \in RungSet /\ Rung("PT2") \in RungSet /\ Rung("PT3") \in RungSet
      /\ Rung("TPT") \in RungSet /\ Rung("TRAILING_SL") \in RungSet /\ Rung("SL") \in RungSet
      BY RungTyped DEF Names
<1>3. \A name : Rung(name).rule = name
      BY DEF Rung
<1>4. /\ ByHand \in Seq(RungSet) /\ Len(ByHand) = 4
      /\ \A i \in 1..4 : ByHand[i].rule \notin Cuts
      BY <1>1, <1>3 DEF ByHand, Cuts, None
<1>5. /\ Ladder \in Seq(RungSet) /\ Len(Ladder) = 6
      /\ \A i \in 1..6 : Ladder[i].rule \notin Cuts
      BY <1>2, <1>3 DEF Ladder, Cuts
<1>6. QED BY <1>4, <1>5 DEF NoCuts

(* A quote: the engine is asked.                                            *)
LEMMA TicksCut ==
  ASSUME LadderInv, CutInv, NEW px \in Prices, NEW spread \in Spreads, Ticks(px, spread)
  PROVE  CutInv'
<1> DEFINE p == [Rearmed(pos) EXCEPT !.peak = Larger(@, px)]
           e == IF engine = NewEngine THEN Rebuilt(p) ELSE engine
           a == Aged(e, rules.v2)
           verdict == Evaluate(a, p, px - 100, spread, Late, rules.v2)
<1>1. Shapes /\ px \in Int /\ px # 0 /\ Late \in BOOLEAN
      BY LadderAssumption DEF LadderInv, Late
<1>2. /\ pos' = p /\ tick'.px = px /\ cycle' = cycle /\ Late' = Late /\ rules' = rules
      /\ rules.hybrid => before' = tick.px
      BY DEF Ticks, Late
<1>3. p \in Positions /\ p.pt2 = pos.pt2
  <2>1. Rearmed(pos) \in Positions /\ Rearmed(pos).pt2 = pos.pt2
        BY <1>1 DEF Shapes, Rearmed, Positions
  <2>2. QED BY <1>1, <2>1 DEF Positions, Larger
<1>4. \/ rules.hybrid /\ rules.auto /\ engine' = verdict.mem /\ todo' = verdict.rules \o ByHand
      \/ /\ ~(rules.auto /\ rules.hybrid)
         /\ engine' = engine /\ todo' \in {Ladder \o ByHand, <<>> \o ByHand}
      BY DEF Ticks
<1> HIDE DEF p
<1>5. e \in Engines /\ (engine = NewEngine => e.soft = Unset)
  <2>1. Rebuilt(p) \in Engines /\ Rebuilt(p).soft = Unset
        BY DEF Rebuilt, Engines, Unset
  <2>2. QED BY <2>1 DEF CutInv
<1>6. CASE rules.hybrid /\ rules.auto /\ engine' = verdict.mem /\ todo' = verdict.rules \o ByHand
  <2>1. /\ a \in Engines
        /\ a.soft # Unset => e.soft # Unset
        /\ Preempts(e, pos, Late) => Preempts(a, p, Late)
        BY <1>1, <1>3, <1>5, AgedKeeps DEF Shapes
  <2> HIDE DEF a
  <2>2. Tells(verdict, a, p, px - 100, Late)
    <3>1. px - 100 \in Int
          BY <1>1
    <3>2. QED BY <1>1, <1>3, <2>1, <3>1, VerdictTells DEF Shapes
  <2> HIDE DEF verdict
  <2>3. engine' \in Engines /\ engine' # NewEngine
        BY <1>6, <2>2 DEF Tells, Engines, NewEngine, None
  <2>4. engine'.soft # Unset => tick'.px - 100 <= rules'.v2.soft \/ Preempts(engine', pos', Late)
        BY <1>2, <1>6, <2>2 DEF Tells
  <2>5. cycle = 1 /\ ~NoCuts(verdict.rules) => before' # 0 /\ before' - 100 <= rules.v2.soft
    <3>1. SUFFICES ASSUME cycle = 1, ~NoCuts(verdict.rules)
                   PROVE  before' # 0 /\ before' - 100 <= rules.v2.soft
          OBVIOUS
    <3>2. a.soft # Unset /\ ~Preempts(a, p, Late)
          BY <2>2, <3>1 DEF Tells
    <3>3. engine # NewEngine /\ e = engine
          BY <1>5, <2>1, <3>2
    <3>4. QED BY <1>2, <1>6, <2>1, <3>1, <3>2, <3>3 DEF CutInv
  <2>6. \A i \in 1..Len(todo') : todo'[i].rule \in Cuts => ~NoCuts(verdict.rules)
    <3>1. verdict.rules \in Seq(RungSet) /\ ByHand \in Seq(RungSet) /\ NoCuts(ByHand)
          BY <2>2, RungsCutNothing DEF Tells
    <3>2. QED BY <1>6, <3>1, NoCutsBoth
  <2>7. QED BY <1>2, <1>6, <2>3, <2>4, <2>5, <2>6, <1>1 DEF CutInv, Preempts
<1>7. CASE ~(rules.auto /\ rules.hybrid) /\ engine' = engine /\ todo' \in {Ladder \o ByHand, <<>> \o ByHand}
  <2>1. engine = NewEngine
        BY <1>7 DEF CutInv
  <2>2. \A i \in 1..Len(todo') : todo'[i].rule \notin Cuts
    <3>1. <<>> \in Seq(RungSet) /\ NoCuts(<<>>)
          BY DEF NoCuts
    <3>2. QED BY <1>7, <3>1, RungsCutNothing, NoCutsBoth
  <2>3. QED BY <1>2, <1>7, <2>1, <2>2 DEF CutInv
<1>8. QED BY <1>4, <1>6, <1>7

(* Whatever else happens adds no rung, takes nothing from the memory and    *)
(* leaves the quote.                                                        *)
LEMMA OthersCut ==
  ASSUME LadderInv, CutInv, [Next]_vars, ~Quotes
  PROVE  CutInv'
<1>1. todo \in Seq(RungSet) /\ Len(todo) \in Nat /\ rules \in SomeRules /\ cycle \in Nat
      BY DEF LadderInv, Shapes, CutInv
<1>2. CASE Restarts
  <2>1. engine' = NewEngine /\ todo' = <<>> /\ cycle' = cycle
        BY <1>2 DEF Restarts
  <2>2. QED BY <2>1 DEF CutInv
<1>3. CASE Reopens
  <2>1. cycle' = cycle + 1 /\ cycle \in Nat \ {0}
        BY <1>3 DEF Reopens, CutInv
  <2>2. cycle' # 1 /\ cycle' \in Nat \ {0}
        BY <2>1
  <2>3. todo' = todo /\ UNCHANGED <<engine, tick, rules>>
        BY <1>3 DEF Reopens, memory
  <2>4. QED BY <2>2, <2>3 DEF CutInv
<1>4. CASE ~Restarts /\ ~Reopens
  <2>1. /\ UNCHANGED <<rules, before, cycle>> /\ tick'.px = tick.px
        /\ engine' = engine \/ (engine # NewEngine /\ engine' = Aged(engine, rules.v2))
        /\ phase' = phase \/ (Late => Late')
        /\ todo' = todo \/ todo' = <<>> \/ \E i \in 1..Len(todo) : todo' = After(i)
    <3>1. CASE Fires
          BY <3>1 DEF Fires, Places, ArmsRunner, Declines, Refused, memory, history
    <3>2. CASE Skips
          BY <3>2 DEF Skips, history
    <3>3. CASE Rests
          BY <3>3 DEF Rests, memory, history
    <3>4. CASE SellsPart \/ Settles \/ GrowsOld
          BY <3>4 DEF SellsPart, Settles, Dies, Fills, GrowsOld, memory, history
    <3>5. CASE (\E t \in {"DISCORD", "MANUAL"}, n \in 1..Total : Sends(t, n)) \/ TogglesTrail \/ SoldElsewhere
          BY <3>5 DEF Sends, TogglesTrail, SoldElsewhere, memory, history
    <3>6. CASE Reconciles \/ Expires
          BY <3>6 DEF Reconciles, Expires, memory, history
    <3>7. CASE TimePasses
          BY <3>7 DEF TimePasses, Late, memory, history
    <3>8. CASE UNCHANGED vars
          BY <3>8 DEF vars, memory, history
    <3>9. QED BY <1>4, <3>1, <3>2, <3>3, <3>4, <3>5, <3>6, <3>7, <3>8 DEF Next
  <2>2. (pos.pt2 => pos'.pt2) /\ (Late => Late')
    <3>1. Advances(pos, pos')
          BY <1>1, <2>1, StepKeeps
    <3>2. QED BY <2>1, <3>1 DEF Advances, Late
  <2>3. engine' = NewEngine \/ engine' \in Engines
    <3>1. CASE engine' = engine
          BY <3>1 DEF CutInv
    <3>2. CASE engine # NewEngine /\ engine' = Aged(engine, rules.v2)
      <4>1. engine \in Engines
            BY <3>2 DEF CutInv
      <4>2. Aged(engine, rules.v2) \in Engines
            BY <1>1, <4>1, AgedKeeps
      <4>3. QED BY <3>2, <4>2
    <3>3. QED BY <2>1, <3>1, <3>2
  <2>4. engine' # NewEngine =>
          /\ engine # NewEngine
          /\ engine'.soft # Unset => engine.soft # Unset
          /\ Preempts(engine, pos, Late) => Preempts(engine', pos', Late')
    <3>1. CASE engine' = engine
          BY <2>2, <3>1 DEF Preempts
    <3>2. CASE engine # NewEngine /\ engine' = Aged(engine, rules.v2)
      <4>1. engine \in Engines
            BY <3>2 DEF CutInv
      <4>2. LET a == Aged(engine, rules.v2) IN
            /\ a.soft # Unset => engine.soft # Unset
            /\ Preempts(engine, pos, Late) => Preempts(a, pos', Late')
            BY <1>1, <2>2, <4>1, AgedKeeps
      <4>3. QED BY <3>2, <4>2
    <3>3. QED BY <2>1, <3>1, <3>2
  <2>5. Preempts(engine, pos, Late)' <=> Preempts(engine', pos', Late')
        BY <2>1 DEF Preempts
  <2>6. \A j \in 1..Len(todo') : \E k \in 1..Len(todo) : todo'[j] = todo[k]
    <3>1. CASE \E i \in 1..Len(todo) : todo' = After(i)
      <4>1. PICK i \in 1..Len(todo) : todo' = After(i)
            BY <3>1
      <4>2. Len(todo') = IF i + 1 <= Len(todo) THEN Len(todo) - i ELSE 0
            BY <1>1, <4>1 DEF After
      <4>3. \A j \in 1..Len(todo') : j + i \in 1..Len(todo) /\ todo'[j] = todo[j + i]
            BY <1>1, <4>1, <4>2 DEF After
      <4>4. QED BY <4>3
    <3>2. QED BY <2>1, <3>1
  <2>7. QED BY <2>1, <2>3, <2>4, <2>5, <2>6 DEF CutInv
<1>5. QED BY <1>2, <1>3, <1>4

LEMMA CutHolds == Spec => [](LadderInv /\ CutInv)
<1>1. Init => LadderInv /\ CutInv
  <2>1. Init => CutInv
        BY DEF Init, CutInv
  <2>2. QED BY <2>1, StartInv
<1>2. LadderInv /\ CutInv /\ [Next]_vars => (LadderInv /\ CutInv)'
  <2>1. SUFFICES ASSUME LadderInv, CutInv, [Next]_vars
                 PROVE  LadderInv' /\ CutInv'
        OBVIOUS
  <2>2. LadderInv'
        BY <2>1, StepKeeps DEF CutInv
  <2>3. CutInv'
        BY <2>1, TicksCut, OthersCut DEF Quotes
  <2>4. QED BY <2>2, <2>3
<1>3. QED BY <1>1, <1>2, PTL DEF Spec

-----------------------------------------------------------------------------
(* The theorems *)

(* However orders die, are in the way or are cut short by a restart, each   *)
(* profit target of _check_and_exit sends one order in the life of a        *)
(* purchase: its flag, raised with the order, is cleared by nothing but a   *)
(* new purchase.  For any quotes, settings and number of purchases.         *)
THEOREM TargetsSellOnce == Spec => []RungOnce
<1>1. LadderInv /\ cycle \in Nat => RungOnce
      BY DEF LadderInv, FlagsTell, RungOnce
<1>2. QED BY <1>1, InvHolds, PTL

(* What the peak has locked in for _compute_sl_threshold stays locked,      *)
(* though the runner's peak starts anew at the third target: of settings    *)
(* whose locks (the breakeven's, the second and the third target's) are all *)
(* armed by then.                                                           *)
LocksBeforeThird ==
  \A r \in SomeRules : \A l \in r.locks : l[1] <= IF r.hybrid THEN r.v2.pt3 ELSE r.pt3

THEOREM StopsOnlyTighten ==
  ASSUME LocksBeforeThird
  PROVE  Spec => StopNeverLoosens
<1>1. LadderInv /\ cycle \in Nat /\ [Next]_vars => [cycle' = cycle => Floor(pos') >= Floor(pos)]_vars
  <2>1. SUFFICES ASSUME LadderInv, cycle \in Nat, [Next]_vars, cycle' = cycle
                 PROVE  Floor(pos') >= Floor(pos)
        OBVIOUS
  <2>2. Advances(pos, pos')
        BY <2>1, StepKeeps
  <2>3. rules \in SomeRules /\ pos.peak \in Int /\ pos'.peak \in Int
        BY <2>1, <2>2 DEF LadderInv, Shapes, Positions, Advances
  <2>4. \A l \in rules.locks : l[1] \in Int /\ l[1] <= Third
        BY <2>3, LadderAssumption DEF LocksBeforeThird, Third
  <2>5. pos'.peak >= pos.peak \/ \A l \in rules.locks : pos'.peak >= 100 + l[1]
        BY <2>2, <2>3, <2>4, SettingsTyped DEF Advances
  <2>6. QED BY <2>3, <2>5, FloorKept
<1>2. QED BY <1>1, InvHolds, PTL DEF Spec, StopNeverLoosens

(* evaluate() cuts at the soft stop on no single print: in a row's first    *)
(* purchase, whatever the panic, the expiry day's end and the trail closed  *)
(* meanwhile, whatever orders died and whenever the process restarted, the  *)
(* quote looked at before was as bad.                                       *)
THEOREM CutsAreConfirmed == Spec => NoCutOnOnePrint
<1>1. /\ LadderInv /\ CutInv /\ [Next]_vars
      => [cycle = 1 /\ (fired' \ fired) \cap Cuts # {} => before # 0 /\ before - 100 <= rules.v2.soft]_vars
  <2>1. SUFFICES ASSUME LadderInv, CutInv, Next, cycle = 1, (fired' \ fired) \cap Cuts # {}
                 PROVE  before # 0 /\ before - 100 <= rules.v2.soft
        BY DEF vars
  <2>2. PICK i \in 1..Len(todo) : Places(i)
    <3>1. ~(Quotes \/ Rests \/ Restarts)
          BY <2>1 DEF Quotes, Ticks, Rests, Restarts
    <3>2. ASSUME ~Fires PROVE fired' = fired
          BY <2>1, <3>1, <3>2 DEF Next, Skips, SellsPart, Settles, Dies, Fills, GrowsOld, Sends, TogglesTrail,
             SoldElsewhere, Reconciles, TimePasses, Expires, Reopens
    <3>3. QED BY <2>1, <3>2 DEF Fires, ArmsRunner, Declines, Refused
  <2>3. TriggerOf(todo[i]) \in Cuts
        BY <2>1, <2>2 DEF Places
  <2>4. todo[i].rule \in Cuts
        BY <2>3 DEF TriggerOf, Cuts
  <2>5. QED BY <2>1, <2>4 DEF CutInv
<1>2. QED BY <1>1, CutHolds, PTL DEF Spec, NoCutOnOnePrint
=============================================================================
