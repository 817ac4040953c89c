---------------------------- MODULE VenuesProofs ----------------------------
(***************************************************************************)
(* Proofs about the other brokers, for any quantity and any number of      *)
(* orders, drops and restarts: a cancel confirmed by Tradier or Lime hides *)
(* no fill; at every broker what is filled is taken off its position once; *)
(* and an exit that is replaced does not sell the position twice.          *)
(*                                                                         *)
(* Contracts are counted as the members of a set, so that the books of a   *)
(* step differ by the cardinality of what the step adds.  Each broker has  *)
(* its inductive invariant: TruthInv, RowsHonest with PollsKept, and       *)
(* Guarded for Tradier and Lime; BookInv, CancelTrue and Backed for IBKR;  *)
(* DeskInv and LotsHeld for the spreads.                                   *)
(***************************************************************************)
EXTENDS Venues, FiniteSetTheorems, SequenceTheorems, WellFoundedInduction, TLAPS

-----------------------------------------------------------------------------
(* Counting contracts: those of the orders in S, f[i] of order i *)

Slices(f, S) == UNION {{i} \X (1 .. f[i]) : i \in S}

LEMMA SliceCard ==
  ASSUME NEW i, NEW n \in Nat
  PROVE  IsFiniteSet({i} \X (1 .. n)) /\ Cardinality({i} \X (1 .. n)) = n
<1>1. IsFiniteSet({i}) /\ Cardinality({i}) = 1
      BY FS_Singleton
<1>2. IsFiniteSet(1 .. n) /\ Cardinality(1 .. n) = n
      BY FS_Interval
<1>3. /\ IsFiniteSet({i} \X (1 .. n))
      /\ Cardinality({i} \X (1 .. n)) = Cardinality({i}) * Cardinality(1 .. n)
      BY <1>1, <1>2, FS_Product
<1>4. Cardinality({i}) * Cardinality(1 .. n) = n
  <2>1. Cardinality({i}) * Cardinality(1 .. n) = 1 * n
        BY <1>1, <1>2
  <2>2. QED BY <2>1
<1>5. QED BY <1>3, <1>4

LEMMA SlicesFinite ==
  ASSUME NEW S, IsFiniteSet(S), NEW f, \A i \in S : f[i] \in Nat
  PROVE  IsFiniteSet(Slices(f, S)) /\ Cardinality(Slices(f, S)) \in Nat
<1> DEFINE T == {{i} \X (1 .. f[i]) : i \in S}
           g == [i \in S |-> {i} \X (1 .. f[i])]
<1>1. g \in Surjection(S, T)
      BY DEF Surjection
<1>2. IsFiniteSet(T)
  <2> HIDE DEF g, T
  <2>1. QED BY <1>1, FS_Surjection
<1>3. ASSUME NEW U \in T PROVE IsFiniteSet(U)
  <2>1. PICK i \in S : U = {i} \X (1 .. f[i])
        BY <1>3
  <2>2. f[i] \in Nat
        BY <2>1
  <2> HIDE DEF T
  <2>3. QED BY <2>1, <2>2, SliceCard
<1> HIDE DEF T
<1>4. IsFiniteSet(UNION T)
      BY <1>2, <1>3, FS_UNION
<1> USE DEF T
<1>5. QED BY <1>4, FS_CardinalityType DEF Slices

LEMMA SlicesSame ==
  ASSUME NEW S, NEW f, NEW g, \A i \in S : f[i] = g[i]
  PROVE  Slices(f, S) = Slices(g, S)
BY DEF Slices

(* Of orders apart the contracts are counted apart. *)
LEMMA SlicesApart ==
  ASSUME NEW S, NEW T, IsFiniteSet(S), IsFiniteSet(T), S \cap T = {},
         NEW f, \A i \in S \cup T : f[i] \in Nat
  PROVE  Cardinality(Slices(f, S \cup T)) = Cardinality(Slices(f, S)) + Cardinality(Slices(f, T))
<1>1. Slices(f, S \cup T) = Slices(f, S) \cup Slices(f, T)
      BY DEF Slices
<1>2. Slices(f, S) \cap Slices(f, T) = {}
      BY DEF Slices
<1>3. /\ IsFiniteSet(Slices(f, S)) /\ Cardinality(Slices(f, S)) \in Nat
      /\ IsFiniteSet(Slices(f, T)) /\ Cardinality(Slices(f, T)) \in Nat
      BY SlicesFinite
<1>4. Cardinality(Slices(f, S) \cup Slices(f, T))
        = Cardinality(Slices(f, S)) + Cardinality(Slices(f, T)) - Cardinality(Slices(f, S) \cap Slices(f, T))
      BY <1>3, FS_Union
<1>5. Cardinality(Slices(f, S) \cap Slices(f, T)) = 0
      BY <1>2, FS_EmptySet
<1>6. Cardinality(Slices(f, S) \cup Slices(f, T)) = Cardinality(Slices(f, S)) + Cardinality(Slices(f, T))
  <2>1. ASSUME NEW a \in Nat, NEW b \in Nat, NEW c, NEW d, d = a + b - c, c = 0
        PROVE  d = a + b
        BY <2>1
  <2>2. QED BY ONLY <2>1, <1>3, <1>4, <1>5
<1>7. QED BY <1>1, <1>6

(* One more order is counted. *)
LEMMA SlicesMore ==
  ASSUME NEW S, IsFiniteSet(S), NEW j, j \notin S, NEW f, \A i \in S : f[i] \in Nat, f[j] \in Nat
  PROVE  Cardinality(Slices(f, S \cup {j})) = Cardinality(Slices(f, S)) + f[j]
<1>1. Slices(f, {j}) = {j} \X (1 .. f[j])
      BY DEF Slices
<1>2. Cardinality(Slices(f, {j})) = f[j]
      BY <1>1, SliceCard
<1>3. IsFiniteSet({j}) /\ S \cap {j} = {}
      BY FS_Singleton
<1>4. QED BY <1>2, <1>3, SlicesApart

-----------------------------------------------------------------------------
(* Tradier and Lime *)

LegT == [role : {"exit", "TP", "SL"}, qty : Nat, status : {"PENDING", "FILLED", "CANCELLED", "ERROR"},
         filled : Nat, by : {"none", "placed", "blind", "oco"},
         struck : {"no", "alone", "CANCELLED", "UNCONFIRMED"}]
PaperT == [st : {"working", "filled", "dead"}, sold : Nat]
NewsT == [st : {"none", "working", "filled", "dead"}, sold : Nat, fresh : BOOLEAN,
          parked : BOOLEAN, coming : BOOLEAN]

Shapes ==
  /\ legs \in Seq(LegT) /\ paper \in Seq(PaperT) /\ news \in Seq(NewsT)
  /\ Len(paper) = Len(legs) /\ Len(news) = Len(legs)
  /\ owed \in Nat
  /\ doubt \in [i : Rest!Orders \cup {0}, cleared : BOOLEAN]

(* What the last frame says of an order that is dead. *)
FramesTrue ==
  \A i \in Rest!Orders : news[i].st = "dead" => paper[i].st = "dead" /\ paper[i].sold = news[i].sold

TruthInv == Shapes /\ FramesTrue /\ Rest!CancelsTruly

-----------------------------------------------------------------------------
(* Sequences *)

(* t is s with the fates of its rows changed, but not who struck them.      *)
Same(s, t) ==
  /\ t \in Seq(LegT) /\ Len(t) = Len(s)
  /\ \A j \in 1..Len(s) : t[j].struck = s[j].struck

LEMMA SameTwice ==
  ASSUME NEW s, NEW t, NEW u, Same(s, t), Same(t, u)
  PROVE  Same(s, u)
BY DEF Same

LEMMA Rewritten ==
  ASSUME NEW s \in Seq(LegT), NEW i \in 1..Len(s), NEW r \in LegT, r.struck = s[i].struck
  PROVE  Same(s, [s EXCEPT ![i] = r])
<1>1. s \in [1..Len(s) -> LegT] /\ Len(s) \in Nat /\ DOMAIN s = 1..Len(s)
      BY LenProperties
<1>2. QED BY <1>1, ExceptSeq DEF Same

LEMMA Missed ==
  ASSUME NEW s \in Seq(LegT), NEW i, NEW r, i \notin 1..Len(s)
  PROVE  Same(s, [s EXCEPT ![i] = r])
<1>1. s \in [1..Len(s) -> LegT] /\ DOMAIN s = 1..Len(s)
      BY LenProperties
<1>2. [s EXCEPT ![i] = r] = s
      BY <1>1
<1>3. QED BY <1>2 DEF Same

LEMMA ToldSame ==
  ASSUME NEW s \in Seq(LegT), NEW j
  PROVE  Same(s, Rest!Told(s, j))
<1> DEFINE r == [s[j] EXCEPT !.status = IF @ = "PENDING" THEN "CANCELLED" ELSE @]
<1>1. j \in 1..Len(s) => r \in LegT /\ r.struck = s[j].struck
  <2>1. SUFFICES ASSUME j \in 1..Len(s) PROVE r \in LegT /\ r.struck = s[j].struck
        OBVIOUS
  <2>2. s[j] \in LegT
        BY <2>1, ElementOfSeq
  <2>3. CASE s[j].status = "PENDING"
        BY <2>2, <2>3 DEF LegT
  <2>4. CASE s[j].status # "PENDING"
        BY <2>2, <2>4 DEF LegT
  <2>5. QED BY <2>3, <2>4
<1>2. Rest!Told(s, j) = [s EXCEPT ![j] = r]
      BY DEF Rest!Told
<1> HIDE DEF r
<1>3. CASE j \in 1..Len(s)
      BY <1>1, <1>2, <1>3, Rewritten
<1>4. CASE j \notin 1..Len(s)
  <2>1. Same(s, [s EXCEPT ![j] = r])
        BY <1>4, Missed
  <2>2. QED BY <1>2, <2>1
<1>5. QED BY <1>3, <1>4

(* Some numbers up to n have a least. *)
LEMMA LeastThere ==
  ASSUME NEW n \in Nat, NEW S, S \subseteq 1..n, S # {}
  PROVE  Rest!Min(S) \in S
<1>1. S \subseteq Nat
      OBVIOUS
<1>2. PICK x \in S : \A y \in S : ~ (<<y, x>> \in OpToRel(<, Nat))
      BY <1>1, NatLessThanWellFounded, WFMin
<1>3. \A y \in S : x =< y
  <2>1. SUFFICES ASSUME NEW y \in S PROVE x =< y
        OBVIOUS
  <2>2. <<y, x>> \in Nat \X Nat /\ ~(y < x)
        BY <1>1, <1>2, <2>1 DEF OpToRel
  <2>3. QED BY <1>1, <2>1, <2>2
<1>4. QED BY <1>3 DEF Rest!Min

LEMMA MappedSeq ==
  ASSUME NEW S, NEW n \in Nat, NEW f \in [1..n -> S]
  PROVE  f \in Seq(S) /\ Len(f) = n /\ DOMAIN f = 1..n
BY SeqDef, LenProperties

(* The orders by their number. *)
LEMMA Domains ==
  ASSUME Shapes
  PROVE  /\ Rest!Orders = 1..Len(legs) /\ Len(legs) \in Nat
         /\ \A i \in Rest!Orders : legs[i] \in LegT /\ paper[i] \in PaperT /\ news[i] \in NewsT
         /\ paper \in [Rest!Orders -> PaperT] /\ news \in [Rest!Orders -> NewsT] /\ legs \in [Rest!Orders -> LegT]
BY LenProperties DEF Shapes, Rest!Orders

(* What keeps the invariant: dead orders stay, rows are struck truly, and   *)
(* frames are true, of the orders that are there and of new ones.           *)
LEMMA Carries ==
  ASSUME TruthInv, Shapes', Len(legs) =< Len(legs'),
         \A i \in Rest!Orders : paper[i].st = "dead" => paper'[i] = paper[i],
         \A i \in Rest!Orders : legs'[i].struck = "CANCELLED" =>
           legs[i].struck = "CANCELLED" \/ (paper[i].st = "dead" /\ paper[i].sold = 0),
         \A i \in Rest!Orders : news'[i].st = "dead" =>
           \/ news[i].st = "dead" /\ news'[i].sold = news[i].sold
           \/ paper[i].st = "dead" /\ news'[i].sold = paper[i].sold,
         \A i \in Rest!Orders' \ Rest!Orders : legs'[i].struck # "CANCELLED" /\ news'[i].st # "dead"
  PROVE  TruthInv'
<1>1. Rest!Orders = 1..Len(legs) /\ \A i \in Rest!Orders : paper[i] \in PaperT
      BY Domains DEF TruthInv
<1>2. FramesTrue'
      BY DEF TruthInv, FramesTrue
<1>3. ASSUME NEW i \in Rest!Orders', legs'[i].struck = "CANCELLED"
      PROVE  paper'[i] = [st |-> "dead", sold |-> 0]
  <2>1. i \in Rest!Orders
        BY <1>3
  <2>2. paper[i].st = "dead" /\ paper[i].sold = 0
        BY <1>3, <2>1 DEF TruthInv, Rest!CancelsTruly
  <2>3. paper[i] = [st |-> "dead", sold |-> 0]
        BY <1>1, <2>1, <2>2 DEF PaperT
  <2>4. QED BY <2>1, <2>2, <2>3
<1>4. Rest!CancelsTruly'
      BY <1>3 DEF Rest!CancelsTruly
<1>5. QED BY <1>2, <1>4 DEF TruthInv

(* Most steps touch the rows' fates at most, and no order.                  *)
LEMMA RowsCarry ==
  ASSUME TruthInv, Same(legs, legs'), UNCHANGED <<paper, news>>,
         owed' \in Nat, doubt' \in [i : Rest!Orders \cup {0}, cleared : BOOLEAN]
  PROVE  TruthInv'
<1>1. Rest!Orders = 1..Len(legs) /\ Len(legs) \in Nat
      BY Domains DEF TruthInv
<1>2. legs' \in Seq(LegT) /\ Len(legs') = Len(legs)
      BY DEF Same
<1>3. Rest!Orders' = Rest!Orders
      BY <1>1, <1>2, LenProperties DEF Rest!Orders
<1>4. Shapes'
      BY <1>2, <1>3 DEF TruthInv, Shapes
<1>5. \A i \in Rest!Orders : legs'[i].struck = legs[i].struck
      BY <1>1 DEF Same
<1>6. QED BY <1>1, <1>2, <1>3, <1>4, <1>5, Carries

LEMMA SameStays ==
  ASSUME Shapes
  PROVE  Same(legs, legs)
BY DEF Same, Shapes

-----------------------------------------------------------------------------
(* The broker and the socket *)

LEMMA TellsFine ==
  ASSUME Shapes, NEW i \in Rest!Orders
  PROVE  /\ Rest!Tells(i) \in Seq(NewsT) /\ Len(Rest!Tells(i)) = Len(news)
         /\ \A j \in Rest!Orders : Rest!Tells(i)[j].st = news[j].st /\ Rest!Tells(i)[j].sold = news[j].sold
<1> DEFINE r == [news[i] EXCEPT !.coming = way.broker = "lime" /\ socket = "up"]
<1>1. Rest!Orders = 1..Len(news) /\ news \in Seq(NewsT) /\ news[i] \in NewsT
      BY Domains DEF Shapes
<1>2. r \in NewsT /\ r.st = news[i].st /\ r.sold = news[i].sold
      BY <1>1 DEF NewsT
<1>3. Rest!Tells(i) = [news EXCEPT ![i] = r]
      BY <1>1 DEF Rest!Tells
<1>4. QED BY <1>1, <1>2, <1>3, ExceptSeq

LEMMA SellsKeep ==
  ASSUME Total \in Nat, TruthInv, NEW i \in Rest!Orders, NEW n \in 1..Total, Rest!Sells(i, n)
  PROVE  TruthInv'
<1>1. /\ Rest!Orders = 1..Len(legs) /\ Len(legs) \in Nat
      /\ \A j \in Rest!Orders : paper[j] \in PaperT /\ legs[j] \in LegT
      BY Domains DEF TruthInv
<1>2. UNCHANGED <<legs, owed, doubt>> /\ news' = Rest!Tells(i) /\ paper[i].st = "working"
      BY DEF Rest!Sells
<1> DEFINE sold == paper[i].sold + n
           mine == [paper[i] EXCEPT !.sold = sold, !.st = IF sold = legs[i].qty THEN "filled" ELSE @]
<1>3. mine \in PaperT
  <2>1. paper[i] \in PaperT /\ paper[i].sold \in Nat /\ n \in Nat
        BY <1>1 DEF PaperT
  <2>2. sold \in Nat
        BY <2>1
  <2> HIDE DEF sold
  <2>3. CASE sold = legs[i].qty
        BY <2>1, <2>2, <2>3 DEF PaperT
  <2>4. CASE sold # legs[i].qty
        BY <2>1, <2>2, <2>4 DEF PaperT
  <2>5. QED BY <2>3, <2>4
<1>4. paper' = [j \in Rest!Orders |->
         IF j = i THEN mine
         ELSE IF legs[i].role # "exit" /\ legs[j].role # "exit" THEN [paper[j] EXCEPT !.st = "dead"]
         ELSE paper[j]]
      BY DEF Rest!Sells
<1>5. \A j \in Rest!Orders : [paper[j] EXCEPT !.st = "dead"] \in PaperT
      BY <1>1 DEF PaperT
<1>6. paper' \in [1..Len(legs) -> PaperT]
      BY <1>1, <1>3, <1>4, <1>5
<1>7. paper' \in Seq(PaperT) /\ Len(paper') = Len(legs)
      BY <1>1, <1>6, MappedSeq
<1>8. \A j \in Rest!Orders : paper[j].st = "dead" => paper'[j] = paper[j]
  <2>1. SUFFICES ASSUME NEW j \in Rest!Orders, paper[j].st = "dead" PROVE paper'[j] = paper[j]
        OBVIOUS
  <2>2. j # i /\ [paper[j] EXCEPT !.st = "dead"] = paper[j]
        BY <1>1, <1>2, <2>1 DEF PaperT
  <2>3. QED BY <1>4, <2>2
<1>9. Rest!Orders' = Rest!Orders
      BY <1>2 DEF Rest!Orders
<1>10. Shapes'
      BY <1>2, <1>7, <1>9, TellsFine DEF TruthInv, Shapes
<1>11. \A j \in Rest!Orders : news'[j].st = news[j].st /\ news'[j].sold = news[j].sold
      BY <1>2, TellsFine DEF TruthInv
<1>12. QED BY <1>1, <1>2, <1>8, <1>9, <1>10, <1>11, Carries

LEMMA StopsKeep ==
  ASSUME TruthInv, NEW i \in Rest!Orders, Rest!Stops(i)
  PROVE  TruthInv'
<1>1. /\ Rest!Orders = 1..Len(legs) /\ Len(legs) \in Nat /\ Len(paper) = Len(legs)
      /\ paper \in Seq(PaperT) /\ paper[i] \in PaperT
      BY Domains DEF TruthInv, Shapes
<1>2. UNCHANGED <<legs, owed, doubt>> /\ news' = Rest!Tells(i) /\ paper[i].st = "working"
      BY DEF Rest!Stops
<1> DEFINE mine == [paper[i] EXCEPT !.st = "dead"]
<1>3. mine \in PaperT /\ paper' = [paper EXCEPT ![i] = mine]
      BY <1>1 DEF PaperT, Rest!Stops
<1>4. /\ paper' \in Seq(PaperT) /\ Len(paper') = Len(legs)
      /\ \A j \in Rest!Orders : paper'[j] = IF j = i THEN mine ELSE paper[j]
      BY <1>1, <1>3, ExceptSeq
<1>5. Rest!Orders' = Rest!Orders
      BY <1>2 DEF Rest!Orders
<1>6. Shapes'
      BY <1>2, <1>4, <1>5, TellsFine DEF TruthInv, Shapes
<1>7. \A j \in Rest!Orders : news'[j].st = news[j].st /\ news'[j].sold = news[j].sold
      BY <1>2, TellsFine DEF TruthInv
<1>8. QED BY <1>1, <1>2, <1>4, <1>5, <1>6, <1>7, Carries

(* Steps of Lime's news alone. *)
LEMMA NewsCarry ==
  ASSUME TruthInv, UNCHANGED <<legs, paper, owed>>, news' \in Seq(NewsT), Len(news') = Len(news),
         doubt' \in [i : Rest!Orders \cup {0}, cleared : BOOLEAN],
         \A i \in Rest!Orders : news'[i].st = "dead" =>
           \/ news[i].st = "dead" /\ news'[i].sold = news[i].sold
           \/ paper[i].st = "dead" /\ news'[i].sold = paper[i].sold
  PROVE  TruthInv'
<1>1. Rest!Orders' = Rest!Orders /\ Len(legs) =< Len(legs')
      BY LenProperties DEF Rest!Orders, TruthInv, Shapes
<1>2. Shapes'
      BY <1>1 DEF TruthInv, Shapes
<1>3. QED BY <1>1, <1>2, Carries

LEMMA FramesKeep ==
  ASSUME TruthInv, NEW i \in Rest!Orders, Rest!Frames(i)
  PROVE  TruthInv'
<1>1. /\ Rest!Orders = 1..Len(news) /\ news \in Seq(NewsT) /\ news[i] \in NewsT /\ paper[i] \in PaperT
      BY Domains DEF TruthInv, Shapes
<1>2. Rest!Noted(i) \in NewsT /\ Rest!Noted(i).st = paper[i].st /\ Rest!Noted(i).sold = paper[i].sold
      BY <1>1 DEF Rest!Noted, NewsT, PaperT
<1>3. /\ news' \in Seq(NewsT) /\ Len(news') = Len(news)
      /\ \A j \in Rest!Orders : news'[j] = IF j = i THEN Rest!Noted(i) ELSE news[j]
      BY <1>1, <1>2, ExceptSeq DEF Rest!Frames
<1>4. UNCHANGED <<legs, paper, owed, doubt>>
      BY DEF Rest!Frames
<1>5. QED BY <1>2, <1>3, <1>4, NewsCarry DEF TruthInv, Shapes

LEMMA WaitsKeep ==
  ASSUME TruthInv, NEW i \in Rest!Orders, NEW t, Rest!Waits(i, t)
  PROVE  TruthInv'
<1> DEFINE r == [news[i] EXCEPT !.fresh = FALSE, !.parked = socket = "up" /\ i \in known]
<1>1. Rest!Orders = 1..Len(news) /\ news \in Seq(NewsT) /\ news[i] \in NewsT
      BY Domains DEF TruthInv, Shapes
<1>2. r \in NewsT /\ r.st = news[i].st /\ r.sold = news[i].sold
      BY <1>1 DEF NewsT
<1>3. news' = [news EXCEPT ![i] = r]
      BY <1>1 DEF Rest!Waits
<1>4. /\ news' \in Seq(NewsT) /\ Len(news') = Len(news)
      /\ \A j \in Rest!Orders : news'[j] = IF j = i THEN r ELSE news[j]
      BY <1>1, <1>2, <1>3, ExceptSeq
<1>5. UNCHANGED <<legs, paper, owed, doubt>>
      BY DEF Rest!Waits
<1>6. QED BY <1>2, <1>4, <1>5, NewsCarry DEF TruthInv, Shapes

LEMMA DropsKeep ==
  ASSUME TruthInv, Rest!Drops
  PROVE  TruthInv'
<1>1. Rest!Orders = 1..Len(news) /\ Len(news) \in Nat /\ \A i \in Rest!Orders : news[i] \in NewsT
      BY Domains DEF TruthInv, Shapes
<1>2. \A i \in Rest!Orders : /\ [news[i] EXCEPT !.coming = FALSE] \in NewsT
                         /\ [news[i] EXCEPT !.coming = FALSE].st = news[i].st
                         /\ [news[i] EXCEPT !.coming = FALSE].sold = news[i].sold
      BY <1>1 DEF NewsT
<1>3. news' = [i \in Rest!Orders |-> [news[i] EXCEPT !.coming = FALSE]]
      BY DEF Rest!Drops
<1>4. news' \in Seq(NewsT) /\ Len(news') = Len(news)
      BY <1>1, <1>2, <1>3, MappedSeq
<1>5. UNCHANGED <<legs, paper, owed, doubt>>
      BY DEF Rest!Drops
<1>6. QED BY <1>2, <1>3, <1>4, <1>5, NewsCarry DEF TruthInv, Shapes

LEMMA RestartsKeep ==
  ASSUME TruthInv, Rest!Restarts
  PROVE  TruthInv'
<1>1. Rest!Orders = 1..Len(news) /\ Len(news) \in Nat
      BY Domains DEF TruthInv, Shapes
<1>2. Rest!NoNews \in NewsT /\ Rest!NoNews.st # "dead"
      BY DEF Rest!NoNews, NewsT
<1>3. news' = [i \in Rest!Orders |-> Rest!NoNews] /\ UNCHANGED <<legs, paper, owed>>
      BY DEF Rest!Restarts
<1>4. news' \in Seq(NewsT) /\ Len(news') = Len(news)
      BY <1>1, <1>2, <1>3, MappedSeq
<1>5. doubt' \in [i : Rest!Orders \cup {0}, cleared : BOOLEAN]
      BY DEF Rest!Restarts, Rest!NoDoubt
<1>6. QED BY <1>2, <1>3, <1>4, <1>5, NewsCarry
-----------------------------------------------------------------------------
(* Tasks *)

LEMMA ReadsNat ==
  ASSUME Shapes, NEW i \in Rest!Orders
  PROVE  Rest!Reads(i).sold \in Nat
<1>1. \A j \in Rest!Orders : news[j].sold \in Nat /\ paper[j].sold \in Nat
      BY Domains DEF NewsT, PaperT
<1>2. Rest!Group(i) \subseteq Rest!Orders
      BY DEF Rest!Group
<1>3. Rest!Shown(i).sold \in Nat
  <2> DEFINE done == {j \in Rest!Group(i) : paper[j].st = "filled"}
  <2>1. CASE done # {}
    <3>1. (CHOOSE j \in done : TRUE) \in Rest!Orders
          BY <1>2, <2>1
    <3>2. QED BY <1>1, <2>1, <3>1 DEF Rest!Shown
  <2>2. CASE done = {}
        BY <1>1, <2>2 DEF Rest!Shown
  <2>3. QED BY <2>1, <2>2
<1>4. QED BY <1>1, <1>3 DEF Rest!Reads

(* A row's fate is rewritten. *)
LEMMA FateSame ==
  ASSUME Shapes, NEW i \in Rest!Orders, NEW st \in {"PENDING", "FILLED", "CANCELLED", "ERROR"}
  PROVE  Same(legs, [legs EXCEPT ![i].status = st])
<1> DEFINE r == [legs[i] EXCEPT !.status = st]
<1>1. legs[i] \in LegT /\ Rest!Orders = 1..Len(legs) /\ legs \in Seq(LegT)
      BY Domains DEF Shapes
<1>2. r \in LegT /\ r.struck = legs[i].struck
      BY <1>1 DEF LegT
<1>3. [legs EXCEPT ![i].status = st] = [legs EXCEPT ![i] = r]
      BY <1>1
<1>4. QED BY <1>1, <1>2, <1>3, Rewritten

(* ... and how much it filled, booked by t. *)
LEMMA BookSame ==
  ASSUME Shapes, NEW i \in Rest!Orders, NEW q \in Nat, NEW t \in {"placed", "blind", "oco"}
  PROVE  Same(legs, Rest!Filled(i, q, t))
<1> DEFINE r == [legs[i] EXCEPT !.status = "FILLED", !.filled = q,
                                !.by = IF legs[i].by # "none" THEN legs[i].by ELSE t]
<1>1. Rest!Orders = 1..Len(legs) /\ legs \in Seq(LegT) /\ legs[i] \in LegT
      BY Domains DEF Shapes
<1>2. r \in LegT /\ r.struck = legs[i].struck
  <2>1. CASE legs[i].by # "none"
        BY <1>1, <2>1 DEF LegT
  <2>2. CASE legs[i].by = "none"
        BY <1>1, <2>2 DEF LegT
  <2>3. QED BY <2>1, <2>2
<1>3. Rest!Filled(i, q, t) = [legs EXCEPT ![i] = r]
      BY DEF Rest!Filled
<1> HIDE DEF r
<1>4. QED BY <1>1, <1>2, <1>3, Rewritten

LEMMA OwedLess ==
  ASSUME NEW n \in Int
  PROVE  Rest!AtLeast0(n) \in Nat
BY DEF Rest!AtLeast0

LEMMA TurnsKeep ==
  ASSUME TruthInv, NEW i \in Rest!Orders, NEW t \in Rest!Tasks,
         Rest!Books(i, t) \/ Rest!Ends(i, t) \/ Rest!Spins(i, t) \/ Rest!GivesUp(i, t) \/ Rest!TimesOut(i, t)
  PROVE  TruthInv'
<1>1. Shapes /\ legs[i] \in LegT /\ owed \in Nat /\ doubt \in [i : Rest!Orders \cup {0}, cleared : BOOLEAN]
      BY Domains DEF TruthInv, Shapes
<1>2. UNCHANGED <<paper, news, doubt>>
      BY DEF Rest!Books, Rest!Ends, Rest!Spins, Rest!GivesUp, Rest!TimesOut
<1>3. Same(legs, legs') /\ owed' \in Nat
  <2>1. CASE Rest!Books(i, t)
    <3> DEFINE sold == IF legs[i].role = "exit" THEN Rest!Reads(i).sold ELSE legs[i].qty
    <3>1. sold \in Nat /\ legs[i].filled \in Nat
          BY <1>1, ReadsNat DEF LegT
    <3>2. t \in {"placed", "blind", "oco"}
          BY DEF Rest!Tasks
    <3>3. legs' = Rest!Filled(i, sold, t)
          BY <2>1 DEF Rest!Books
    <3>4. owed' = owed \/ owed' = Rest!AtLeast0(owed - Rest!AtLeast0(sold - legs[i].filled))
          BY <2>1 DEF Rest!Books
    <3> HIDE DEF sold
    <3>5. Same(legs, legs')
          BY <1>1, <3>1, <3>2, <3>3, BookSame
    <3>6. owed - Rest!AtLeast0(sold - legs[i].filled) \in Int
          BY <1>1, <3>1, OwedLess
    <3>7. QED BY <1>1, <3>4, <3>5, <3>6, OwedLess
  <2>2. CASE Rest!Ends(i, t)
        BY <1>1, <2>2, FateSame DEF Rest!Ends
  <2>3. CASE Rest!Spins(i, t)
        BY <1>1, <2>3, SameStays DEF Rest!Spins
  <2>4. CASE Rest!GivesUp(i, t)
        BY <1>1, <2>4, FateSame, SameStays DEF Rest!GivesUp
  <2>5. CASE Rest!TimesOut(i, t)
        BY <1>1, <2>5, FateSame, SameStays DEF Rest!TimesOut
  <2>6. QED BY <2>1, <2>2, <2>3, <2>4, <2>5
<1>4. Rest!Orders' = Rest!Orders
  <2>1. legs' \in Seq(LegT) /\ Len(legs') = Len(legs) /\ legs \in Seq(LegT)
        BY <1>1, <1>3 DEF Same, Shapes
  <2>2. QED BY <2>1, LenProperties DEF Rest!Orders
<1>5. QED BY <1>1, <1>2, <1>3, RowsCarry

LEMMA WatchesKeep ==
  ASSUME TruthInv, Rest!Watches
  PROVE  TruthInv'
<1> DEFINE sold == {j \in Rest!Bracket : paper[j].st # "dead" /\ paper[j].sold > 0}
           i == Rest!Min(sold)
           book == IF Rest!Bookable(i) THEN Rest!Filled(i, paper[i].sold, "oco") ELSE legs
<1>1. /\ Shapes /\ owed \in Nat /\ doubt \in [i : Rest!Orders \cup {0}, cleared : BOOLEAN]
      /\ Rest!Orders = 1..Len(legs) /\ Len(legs) \in Nat
      /\ \A j \in Rest!Orders : legs[j] \in LegT /\ paper[j].sold \in Nat
      BY Domains DEF TruthInv, Shapes, PaperT
<1>2. UNCHANGED <<paper, news, doubt>>
      BY DEF Rest!Watches
<1>3. CASE /\ sold # {} /\ legs' = Rest!Told(book, 3 - i)
           /\ owed' = IF Rest!Bookable(i) THEN Rest!AtLeast0(owed - paper[i].sold) ELSE owed
  <2>1. i \in Rest!Orders
    <3>1. sold \subseteq 1..Len(legs)
          BY <1>1 DEF Rest!Bracket
    <3>2. i \in sold
          BY <1>1, <1>3, <3>1, LeastThere
    <3>3. QED BY <1>1, <3>1, <3>2
  <2>2. Same(legs, book)
        BY <1>1, <2>1, BookSame, SameStays
  <2>3. book \in Seq(LegT)
        BY <2>2 DEF Same
  <2> HIDE DEF book, i
  <2>4. Same(book, Rest!Told(book, 3 - i))
        BY <2>3, ToldSame
  <2>5. Same(legs, legs')
        BY <1>3, <2>2, <2>4, SameTwice
  <2>6. owed' \in Nat
    <3>1. owed - paper[i].sold \in Int
          BY <1>1, <2>1
    <3>2. Rest!AtLeast0(owed - paper[i].sold) \in Nat
          BY <3>1, OwedLess
    <3>3. QED BY <1>1, <1>3, <3>2
  <2>7. QED BY <1>1, <1>2, <2>5, <2>6, RowsCarry
<1>4. CASE /\ legs' = [j \in Rest!Orders |-> IF j \in Rest!Bracket /\ Rest!Open(j) THEN [legs[j] EXCEPT !.status = "CANCELLED"]
                                                                    ELSE legs[j]]
           /\ owed' = owed
  <2>1. \A j \in Rest!Orders : /\ [legs[j] EXCEPT !.status = "CANCELLED"] \in LegT
                           /\ [legs[j] EXCEPT !.status = "CANCELLED"].struck = legs[j].struck
        BY <1>1 DEF LegT
  <2>2. legs' \in [1..Len(legs) -> LegT] /\ \A j \in Rest!Orders : legs'[j].struck = legs[j].struck
        BY <1>1, <1>4, <2>1
  <2>3. Same(legs, legs')
        BY <1>1, <2>2, MappedSeq DEF Same
  <2>4. QED BY <1>1, <1>2, <1>4, <2>3, RowsCarry
<1>5. QED BY <1>3, <1>4 DEF Rest!Watches

-----------------------------------------------------------------------------
(* The bracket, cancels and replacements *)

LEMMA BracketsKeep ==
  ASSUME TruthInv, Rest!Brackets
  PROVE  TruthInv'
<1>1. Rest!Orders = {} /\ Len(legs) = 0 /\ owed \in Nat /\ doubt \in [i : Rest!Orders \cup {0}, cleared : BOOLEAN]
      BY DEF TruthInv, Shapes, Rest!Brackets, Rest!Orders
<1>2. /\ Rest!Leg("TP", owed) \in LegT /\ Rest!Leg("SL", owed) \in LegT
      /\ Rest!Leg("TP", owed).struck = "no" /\ Rest!Leg("SL", owed).struck = "no"
      BY <1>1 DEF Rest!Leg, LegT
<1>3. Rest!Placed \in PaperT /\ Rest!NoNews \in NewsT /\ Rest!NoNews.st = "none"
      BY DEF Rest!Placed, PaperT, Rest!NoNews, NewsT
<1>4. legs' = <<Rest!Leg("TP", owed), Rest!Leg("SL", owed)>> /\ UNCHANGED <<owed, doubt>>
      /\ paper' = <<Rest!Placed, Rest!Placed>> /\ news' = <<Rest!NoNews, Rest!NoNews>>
      BY DEF Rest!Brackets
<1>5. /\ legs' \in Seq(LegT) /\ paper' \in Seq(PaperT) /\ news' \in Seq(NewsT)
      /\ Len(legs') = 2 /\ Len(paper') = 2 /\ Len(news') = 2 /\ Rest!Orders' = 1..2
      BY <1>2, <1>3, <1>4 DEF Rest!Orders
<1>6. Shapes'
      BY <1>1, <1>4, <1>5 DEF Shapes
<1>7. \A i \in Rest!Orders' : legs'[i].struck # "CANCELLED" /\ news'[i].st # "dead"
      BY <1>2, <1>3, <1>4, <1>5
<1>8. QED BY <1>1, <1>5, <1>6, <1>7, Carries

LEMMA Struck ==
  ASSUME TruthInv, NEW i \in Rest!Orders, NEW word \in {"alone", "CANCELLED", "UNCONFIRMED"}, Rest!Strikes(i, word),
         UNCHANGED <<paper, news, owed>>,
         word = "CANCELLED" => paper[i].st = "dead" /\ paper[i].sold = 0
  PROVE  TruthInv'
<1>1. /\ Shapes /\ Rest!Orders = 1..Len(legs) /\ Len(legs) \in Nat /\ legs \in Seq(LegT) /\ legs[i] \in LegT
      /\ owed \in Nat
      BY Domains DEF TruthInv, Shapes
<1>2. doubt' = [i |-> 0, cleared |-> FALSE] \/ doubt' = [i |-> 0, cleared |-> TRUE]
      BY DEF Rest!Strikes, Rest!NoDoubt
<1>3. doubt' \in [i : Rest!Orders \cup {0}, cleared : BOOLEAN]
  <2>1. CASE doubt' = [i |-> 0, cleared |-> FALSE]
        BY <2>1
  <2>2. CASE doubt' = [i |-> 0, cleared |-> TRUE]
        BY <2>2
  <2>3. QED BY <1>2, <2>1, <2>2
<1>4. CASE legs[i].status = "FILLED"
      BY <1>1, <1>3, <1>4, SameStays, RowsCarry DEF Rest!Strikes
<1>5. CASE legs[i].status # "FILLED"
  <2> DEFINE r == [legs[i] EXCEPT !.status = "CANCELLED", !.struck = word]
  <2>1. r \in LegT /\ r.struck = word
        BY <1>1 DEF LegT
  <2>2. legs' = [legs EXCEPT ![i] = r]
        BY <1>1, <1>5 DEF Rest!Strikes
  <2>3. /\ legs' \in Seq(LegT) /\ Len(legs') = Len(legs)
        /\ \A j \in Rest!Orders : legs'[j] = IF j = i THEN r ELSE legs[j]
        BY <1>1, <2>1, <2>2, ExceptSeq
  <2>4. Rest!Orders' = Rest!Orders
        BY <1>1, <2>3, LenProperties DEF Rest!Orders
  <2>5. Shapes'
        BY <1>1, <1>3, <2>3, <2>4 DEF Shapes
  <2> HIDE DEF r
  <2>6. \A j \in Rest!Orders : legs'[j].struck = "CANCELLED" =>
          legs[j].struck = "CANCELLED" \/ (paper[j].st = "dead" /\ paper[j].sold = 0)
        BY <2>1, <2>3
  <2>7. UNCHANGED <<paper, news>> /\ Len(legs) =< Len(legs')
        BY <1>1, <2>3
  <2>8. \A j \in Rest!Orders : paper[j].st = "dead" => paper'[j] = paper[j]
        BY <2>7
  <2>9. \A j \in Rest!Orders : news'[j].st = "dead" => news[j].st = "dead" /\ news'[j].sold = news[j].sold
        BY <2>7
  <2>10. \A j \in Rest!Orders' \ Rest!Orders : legs'[j].struck # "CANCELLED" /\ news'[j].st # "dead"
        BY <2>4
  <2>11. Len(legs) =< Len(legs')
        BY <2>7
  <2>12. QED BY <2>5, <2>6, <2>8, <2>9, <2>10, <2>11, Carries
<1>6. QED BY <1>4, <1>5

(* What a cancel takes for the broker's word is so. *)
LEMMA WordTrue ==
  ASSUME TruthInv, NEW i \in Rest!Orders, Rest!Outcome(Rest!Seen(i)) = "CANCELLED"
  PROVE  paper[i].st = "dead" /\ paper[i].sold = 0
<1>1. news[i] \in NewsT /\ paper[i] \in PaperT
      BY Domains DEF TruthInv
<1>2. Rest!Seen(i).st = "dead" /\ ~(Rest!Seen(i).sold > 0)
      BY DEF Rest!Outcome
<1>3. CASE way.broker = "lime" /\ news[i].st # "none"
  <2>1. Rest!Seen(i).st = news[i].st /\ Rest!Seen(i).sold = news[i].sold
        BY <1>3 DEF Rest!Seen
  <2>2. paper[i].st = "dead" /\ paper[i].sold = news[i].sold
        BY <1>2, <2>1 DEF TruthInv, FramesTrue
  <2>3. QED BY <1>1, <1>2, <2>1, <2>2 DEF NewsT
<1>4. CASE ~(way.broker = "lime" /\ news[i].st # "none")
  <2>1. Rest!Seen(i) = Rest!Shown(i)
        BY <1>4 DEF Rest!Seen
  <2>2. i \in Rest!Group(i)
        BY DEF Rest!Group
  <2> DEFINE done == {j \in Rest!Group(i) : paper[j].st = "filled"}
  <2>3. done = {}
        BY <1>2, <2>1 DEF Rest!Shown
  <2>4. paper[i].st = "dead" /\ Rest!Shown(i).sold = paper[i].sold
        BY <1>2, <2>1, <2>2, <2>3 DEF Rest!Shown
  <2>5. QED BY <1>1, <1>2, <2>1, <2>4 DEF PaperT
<1>5. QED BY <1>3, <1>4

LEMMA CancelsKeep ==
  ASSUME TruthInv, (\E i \in Rest!Orders : Rest!Cancels(i) \/ Rest!CancelsLocally(i)) \/ Rest!CancelEnds
  PROVE  TruthInv'
<1>1. Shapes /\ owed \in Nat /\ doubt \in [i : Rest!Orders \cup {0}, cleared : BOOLEAN]
      BY DEF TruthInv, Shapes
<1>2. ASSUME NEW i \in Rest!Orders, Rest!Cancels(i) PROVE TruthInv'
  <2>1. doubt' \in [i : Rest!Orders \cup {0}, cleared : BOOLEAN]
        BY <1>2 DEF Rest!Cancels
  <2>2. UNCHANGED <<legs, paper, news, owed>>
        BY <1>2 DEF Rest!Cancels
  <2>3. QED BY <1>1, <2>1, <2>2, SameStays, RowsCarry
<1>3. ASSUME NEW i \in Rest!Orders, Rest!CancelsLocally(i) PROVE TruthInv'
  <2>1. Rest!Strikes(i, "alone") /\ UNCHANGED <<paper, news, owed>>
        BY <1>3 DEF Rest!CancelsLocally
  <2>2. QED BY <2>1, Struck
<1>4. CASE Rest!CancelEnds
  <2> DEFINE i == doubt.i
             word == Rest!Outcome(Rest!Seen(i))
  <2>1. i \in Rest!Orders /\ UNCHANGED <<paper, news, owed>>
        BY <1>1, <1>4 DEF Rest!CancelEnds
  <2>2. CASE (word = "CANCELLED" \/ word = "UNCONFIRMED") /\ Rest!Strikes(i, word)
    <3>1. word = "CANCELLED" => paper[i].st = "dead" /\ paper[i].sold = 0
          BY <2>1, WordTrue
    <3> HIDE DEF word, i
    <3>2. QED BY <2>1, <2>2, <3>1, Struck
  <2>3. CASE doubt' = Rest!NoDoubt /\ UNCHANGED <<legs, known>>
    <3>1. doubt' \in [i : Rest!Orders \cup {0}, cleared : BOOLEAN]
          BY <2>3 DEF Rest!NoDoubt
    <3>2. QED BY <1>1, <2>1, <2>3, <3>1, SameStays, RowsCarry
  <2>4. QED BY <1>4, <2>2, <2>3 DEF Rest!CancelEnds
<1>5. QED BY <1>2, <1>3, <1>4

LEMMA PlacesKeep ==
  ASSUME TruthInv, Rest!Places
  PROVE  TruthInv'
<1>1. /\ Rest!Orders = 1..Len(legs) /\ Len(legs) \in Nat /\ owed \in Nat
      /\ legs \in Seq(LegT) /\ paper \in Seq(PaperT) /\ news \in Seq(NewsT)
      /\ Len(paper) = Len(legs) /\ Len(news) = Len(legs)
      BY Domains DEF TruthInv, Shapes
<1> DEFINE e == Rest!Leg("exit", owed)
<1>2. e \in LegT /\ e.struck = "no"
      BY <1>1 DEF Rest!Leg, LegT
<1>3. Rest!Placed \in PaperT
      BY DEF Rest!Placed, PaperT
<1>4. Rest!Acked \in NewsT /\ Rest!Acked.st = "none"
      BY DEF Rest!Acked, Rest!NoNews, NewsT
<1>5. /\ legs' = Append(legs, e) /\ paper' = Append(paper, Rest!Placed) /\ news' = Append(news, Rest!Acked)
      /\ owed' = owed /\ doubt' = Rest!NoDoubt
      BY DEF Rest!Places
<1> HIDE DEF e
<1>6. /\ legs' \in Seq(LegT) /\ Len(legs') = Len(legs) + 1 /\ legs'[Len(legs) + 1] = e
      /\ \A i \in Rest!Orders : legs'[i] = legs[i]
      BY <1>1, <1>2, <1>5, AppendProperties
<1>7. /\ paper' \in Seq(PaperT) /\ Len(paper') = Len(legs) + 1
      /\ \A i \in Rest!Orders : paper'[i] = paper[i]
      BY <1>1, <1>3, <1>5, AppendProperties
<1>8. /\ news' \in Seq(NewsT) /\ Len(news') = Len(legs) + 1 /\ news'[Len(legs) + 1] = Rest!Acked
      /\ \A i \in Rest!Orders : news'[i] = news[i]
      BY <1>1, <1>4, <1>5, AppendProperties
<1>9. Rest!Orders' = 1..(Len(legs) + 1)
      BY <1>6, LenProperties DEF Rest!Orders
<1>10. doubt' \in [i : {0}, cleared : BOOLEAN]
      BY <1>5 DEF Rest!NoDoubt
<1>11. doubt' \in [i : Rest!Orders' \cup {0}, cleared : BOOLEAN]
      BY <1>10
<1>12. Shapes'
      BY <1>1, <1>5, <1>6, <1>7, <1>8, <1>11 DEF Shapes
<1>13. \A i \in Rest!Orders' \ Rest!Orders : i = Len(legs) + 1
      BY <1>1, <1>9
<1>14. QED BY <1>1, <1>2, <1>4, <1>6, <1>7, <1>8, <1>12, <1>13, Carries

LEMMA QuietKeeps ==
  ASSUME TruthInv, Rest!Reconnects \/ Rest!LosesSight \/ Rest!Boots \/ UNCHANGED Rest!rest
  PROVE  TruthInv'
<1>1. UNCHANGED <<legs, paper, news, owed, doubt>>
      BY DEF Rest!Reconnects, Rest!LosesSight, Rest!Boots, Rest!rest
<1>2. Shapes /\ owed \in Nat /\ doubt \in [i : Rest!Orders \cup {0}, cleared : BOOLEAN]
      BY DEF TruthInv, Shapes
<1>3. QED BY <1>1, <1>2, SameStays, RowsCarry

LEMMA ResumesKeep ==
  ASSUME TruthInv, Rest!Resumes
  PROVE  TruthInv'
<1>1. /\ Shapes /\ owed \in Nat /\ doubt \in [i : Rest!Orders \cup {0}, cleared : BOOLEAN]
      /\ Rest!Orders = 1..Len(legs) /\ Len(legs) \in Nat /\ \A j \in Rest!Orders : legs[j] \in LegT
      BY Domains DEF TruthInv, Shapes
<1>2. /\ UNCHANGED <<paper, news, owed, doubt>>
      /\ legs' = [i \in Rest!Orders |-> IF legs[i].role = "exit" /\ Rest!Open(i)
                                   THEN [legs[i] EXCEPT !.status = "CANCELLED"] ELSE legs[i]]
      BY DEF Rest!Resumes
<1>3. \A j \in Rest!Orders : /\ [legs[j] EXCEPT !.status = "CANCELLED"] \in LegT
                         /\ [legs[j] EXCEPT !.status = "CANCELLED"].struck = legs[j].struck
      BY <1>1 DEF LegT
<1>4. legs' \in [1..Len(legs) -> LegT] /\ \A j \in Rest!Orders : legs'[j].struck = legs[j].struck
      BY <1>1, <1>2, <1>3
<1>5. Same(legs, legs')
      BY <1>1, <1>4, MappedSeq DEF Same
<1>6. QED BY <1>1, <1>2, <1>5, RowsCarry

-----------------------------------------------------------------------------
LEMMA TruthInit ==
  ASSUME Total \in Nat, Rest!Init
  PROVE  TruthInv
<1>1. Rest!Exit \in LegT /\ Rest!Exit.struck = "no"
      BY DEF Rest!Exit, Rest!Leg, LegT
<1>2. /\ legs \in Seq(LegT) /\ Len(legs) \in Nat /\ Rest!Orders = 1..Len(legs)
      /\ \A i \in Rest!Orders : legs[i].struck = "no"
  <2>1. CASE legs = <<Rest!Exit>>
        BY <1>1, <2>1 DEF Rest!Orders
  <2>2. CASE legs = <<>>
        BY <2>2 DEF Rest!Orders
  <2>3. QED BY <2>1, <2>2 DEF Rest!Init
<1>3. Rest!Placed \in PaperT /\ Rest!Placed.st = "working"
      BY DEF Rest!Placed, PaperT
<1>4. paper \in Seq(PaperT) /\ Len(paper) = Len(legs)
      BY <1>2, <1>3, MappedSeq DEF Rest!Init
<1> DEFINE first == [Rest!NoNews EXCEPT !.coming = way.broker = "lime"]
<1>5. first \in NewsT /\ first.st = "none"
      BY DEF Rest!NoNews, NewsT
<1>6. news = [i \in Rest!Orders |-> first]
      BY DEF Rest!Init
<1> HIDE DEF first
<1>7. news \in Seq(NewsT) /\ Len(news) = Len(legs) /\ \A i \in Rest!Orders : news[i].st = "none"
      BY <1>2, <1>5, <1>6, MappedSeq
<1>8. owed \in Nat /\ doubt \in [i : Rest!Orders \cup {0}, cleared : BOOLEAN]
      BY DEF Rest!Init, Rest!NoDoubt
<1>9. QED BY <1>2, <1>4, <1>7, <1>8 DEF TruthInv, Shapes, FramesTrue, Rest!CancelsTruly

LEMMA TruthNext ==
  ASSUME Total \in Nat, TruthInv, [Rest!Next]_(Rest!rest)
  PROVE  TruthInv'
<1>1. ASSUME NEW i \in Rest!Orders, Rest!Broker(i) \/ Rest!Frames(i) PROVE TruthInv'
      BY <1>1, SellsKeep, StopsKeep, FramesKeep DEF Rest!Broker
<1>2. ASSUME NEW i \in Rest!Orders, Rest!Turns(i) PROVE TruthInv'
      BY <1>2, TurnsKeep, WaitsKeep DEF Rest!Turns
<1>3. ASSUME NEW i \in Rest!Orders, NEW t \in Rest!Tasks, Rest!GivesUp(i, t) \/ Rest!TimesOut(i, t) PROVE TruthInv'
      BY <1>3, TurnsKeep
<1>4. CASE Rest!Drops \/ Rest!Brackets \/ Rest!Watches \/ Rest!Places \/ Rest!Restarts \/ Rest!Resumes
      BY <1>4, DropsKeep, BracketsKeep, WatchesKeep, PlacesKeep, RestartsKeep, ResumesKeep
<1>5. CASE (\E i \in Rest!Orders : Rest!Cancels(i) \/ Rest!CancelsLocally(i)) \/ Rest!CancelEnds
      BY <1>5, CancelsKeep
<1>6. CASE Rest!Reconnects \/ Rest!LosesSight \/ Rest!Boots \/ UNCHANGED Rest!rest
      BY <1>6, QuietKeeps
<1>7. QED BY <1>1, <1>2, <1>3, <1>4, <1>5, <1>6 DEF Rest!Next

(* What the venues do to the orders of Tradier and Lime. *)
LEMMA RestMoves ==
  ASSUME [VenuesNext]_venues
  PROVE  [Rest!Next]_(Rest!rest)
BY DEF VenuesNext, venues, Rest!rest

(* An order that cancel_order reports cancelled on the word of Tradier or   *)
(* Lime is over and has sold nothing, however frames, drops, restarts and   *)
(* the tasks at the order interleave, for any quantity and any number of    *)
(* orders: the caller may send the replacement for the whole remainder.     *)
THEOREM CancelsHideNoFill == VenuesSpec => []CancelsTruly
<1>0. Total \in Nat
      BY IbkrAssumption
<1>1. VenuesInit => TruthInv
      BY <1>0, TruthInit DEF VenuesInit
<1>2. TruthInv /\ [VenuesNext]_venues => TruthInv'
      BY <1>0, TruthNext, RestMoves
<1>3. TruthInv => CancelsTruly
      BY DEF TruthInv, CancelsTruly
<1>4. QED BY <1>1, <1>2, <1>3, PTL DEF VenuesSpec
-----------------------------------------------------------------------------
(* IBKR: every fill is taken off the position once *)

States == {"sent", "working", "barred", "capped", "dead", "filled"}
RowT == [role : {"exit", "TP", "SL"}, qty : Nat \ {0}, status : {"PENDING", "FILLED", "CANCELLED"},
         filled : Nat, by : {"none", "known", "blind"}]
BrokerT == [st : States, sold : Nat, cancel : BOOLEAN]
HandleT == [at : {"none", "live", "stale"}, st : States \cup {"none"}, sold : Nat]

(* An order's quantity bounds what is sold of it; what an old handle shows  *)
(* ended is so; and a fill that is booked is all the order will ever fill.  *)
Fine(r, b, h) ==
  /\ b.st = "filled" => b.sold = r.qty
  /\ b.st \in Refusals \cup {"sent"} => b.sold = 0
  /\ h.at = "none" => h.st = "none"
  /\ h.at = "stale" => /\ h.st = "filled" => b.st = "filled" /\ h.sold = b.sold
                       /\ h.st \in Refusals => b.st = "dead" /\ b.sold = 0
                       /\ h.st = "dead" => b.st = "dead"
  /\ r.by = "none" => r.filled = 0
  /\ r.by # "none" => /\ r.filled = b.sold /\ b.sold > 0 /\ b.st \in {"filled", "dead"}
                      /\ r.status # "PENDING"

Sheets ==
  /\ rows \in Seq(RowT) /\ broker \in Seq(BrokerT) /\ handle \in Seq(HandleT)
  /\ Len(broker) = Len(rows) /\ Len(handle) = Len(rows)
  /\ left \in Nat

BookInv ==
  /\ Sheets
  /\ \A i \in Ids : Fine(rows[i], broker[i], handle[i])
  /\ left = Larger(0, Total - Cardinality(Taken))

LEMMA SheetsRead ==
  ASSUME Sheets
  PROVE  /\ Ids = 1..Len(rows) /\ Len(rows) \in Nat /\ IsFiniteSet(Ids)
         /\ \A i \in Ids : rows[i] \in RowT /\ broker[i] \in BrokerT /\ handle[i] \in HandleT
         /\ rows \in [Ids -> RowT] /\ broker \in [Ids -> BrokerT] /\ handle \in [Ids -> HandleT]
<1>1. Ids = 1..Len(rows) /\ Len(rows) \in Nat
      BY LenProperties DEF Sheets, Ids
<1>2. IsFiniteSet(Ids)
      BY <1>1, FS_Interval
<1>3. QED BY <1>1, <1>2, LenProperties DEF Sheets

Known(r) == {j \in DOMAIN r : r[j].by = "known"}
Fills(r) == [j \in DOMAIN r |-> r[j].filled]

LEMMA TakenIs ==
  /\ Taken = Slices(Fills(rows), Known(rows))
  /\ Taken' = Slices(Fills(rows'), Known(rows'))
BY DEF Taken, Slices, Fills, Known, Ids

(* Nothing is booked. *)
LEMMA TakenSame ==
  ASSUME Ids' = Ids, \A j \in Ids : rows'[j].by = rows[j].by /\ rows'[j].filled = rows[j].filled
  PROVE  Taken' = Taken
<1>1. Known(rows') = Known(rows) /\ \A j \in Known(rows) : Fills(rows')[j] = Fills(rows)[j]
      BY DEF Known, Fills, Ids
<1>2. QED BY <1>1, SlicesSame, TakenIs

LEMMA TakenNat ==
  ASSUME Sheets
  PROVE  Cardinality(Taken) \in Nat /\ IsFiniteSet(Known(rows))
<1>1. IsFiniteSet(Known(rows))
  <2>1. Known(rows) \in SUBSET Ids
        BY DEF Known, Ids
  <2>2. QED BY <2>1, SheetsRead, FS_Subset
<1>2. \A j \in Known(rows) : Fills(rows)[j] \in Nat
      BY SheetsRead DEF Known, Fills, Ids, RowT
<1>3. QED BY <1>1, <1>2, TakenIs, SlicesFinite

LEMMA BooksStay ==
  ASSUME BookInv, Sheets', Ids' = Ids, left' = left,
         \A j \in Ids : /\ Fine(rows'[j], broker'[j], handle'[j])
                        /\ rows'[j].by = rows[j].by /\ rows'[j].filled = rows[j].filled
  PROVE  BookInv'
<1>1. Taken' = Taken
      BY TakenSame
<1>2. QED BY <1>1 DEF BookInv

(* A step of one order that books nothing. *)
LEMMA OneOrderBooks ==
  ASSUME BookInv, NEW i \in Ids, NEW r \in RowT, NEW b \in BrokerT, NEW h \in HandleT,
         rows' = [rows EXCEPT ![i] = r], broker' = [broker EXCEPT ![i] = b],
         handle' = [handle EXCEPT ![i] = h], left' = left,
         Fine(r, b, h), r.by = rows[i].by, r.filled = rows[i].filled
  PROVE  BookInv'
<1>1. Sheets /\ Ids = 1..Len(rows)
      BY SheetsRead DEF BookInv
<1>2. /\ rows' \in Seq(RowT) /\ broker' \in Seq(BrokerT) /\ handle' \in Seq(HandleT)
      /\ Len(rows') = Len(rows) /\ Len(broker') = Len(rows) /\ Len(handle') = Len(rows)
      /\ \A j \in Ids : /\ rows'[j] = IF j = i THEN r ELSE rows[j]
                        /\ broker'[j] = IF j = i THEN b ELSE broker[j]
                        /\ handle'[j] = IF j = i THEN h ELSE handle[j]
      BY <1>1, ExceptSeq DEF Sheets
<1>3. Ids' = Ids
      BY <1>1, <1>2, LenProperties DEF Ids
<1>4. Sheets'
      BY <1>1, <1>2 DEF Sheets
<1>5. QED BY <1>2, <1>3, <1>4, BooksStay DEF BookInv

(* Replacing a record by itself. *)
LEMMA Itself ==
  ASSUME NEW S, NEW s \in Seq(S), NEW i \in 1..Len(s)
  PROVE  [s EXCEPT ![i] = s[i]] = s
<1>1. s[i] \in S
      BY ElementOfSeq
<1>2. QED BY <1>1, ExceptSeq, SeqEqual

LEMMA Unchanged ==
  ASSUME BookInv, NEW i \in Ids
  PROVE  /\ rows[i] \in RowT /\ broker[i] \in BrokerT /\ handle[i] \in HandleT
         /\ Fine(rows[i], broker[i], handle[i])
         /\ [rows EXCEPT ![i] = rows[i]] = rows
         /\ [broker EXCEPT ![i] = broker[i]] = broker
         /\ [handle EXCEPT ![i] = handle[i]] = handle
<1>1. /\ Ids = 1..Len(rows) /\ rows \in Seq(RowT) /\ broker \in Seq(BrokerT) /\ handle \in Seq(HandleT)
      /\ Len(broker) = Len(rows) /\ Len(handle) = Len(rows)
      BY SheetsRead DEF BookInv, Sheets
<1>2. rows[i] \in RowT /\ broker[i] \in BrokerT /\ handle[i] \in HandleT
      BY SheetsRead DEF BookInv
<1>3. /\ [rows EXCEPT ![i] = rows[i]] = rows /\ [broker EXCEPT ![i] = broker[i]] = broker
      /\ [handle EXCEPT ![i] = handle[i]] = handle
      BY <1>1, Itself
<1>4. QED BY <1>2, <1>3 DEF BookInv

LEMMA MarketBooks ==
  ASSUME BookInv, NEW i \in Ids, Accepts(i) \/ Dies(i) \/ Obeys(i) \/ (\E why \in Refusals : Refuses(i, why))
  PROVE  BookInv'
<1>1. /\ rows[i] \in RowT /\ broker[i] \in BrokerT /\ handle[i] \in HandleT
      /\ Fine(rows[i], broker[i], handle[i])
      BY Unchanged
<1>2. UNCHANGED <<rows, handle, left>>
      BY DEF Accepts, Dies, Obeys, Refuses, books
<1>3. PICK st \in {"working", "dead", "barred", "capped"} :
        /\ broker' = [broker EXCEPT ![i].st = st]
        /\ broker[i].st \in {"sent", "working"}
        /\ st \in Refusals \cup {"working"} => broker[i].st = "sent"
      BY DEF Accepts, Dies, Obeys, Refuses, Refusals, Working
<1> DEFINE b == [broker[i] EXCEPT !.st = st]
<1>4. b \in BrokerT /\ b.st = st /\ b.sold = broker[i].sold
      BY <1>1, <1>3 DEF BrokerT, States
<1>5. broker' = [broker EXCEPT ![i] = b]
      BY <1>3
<1> HIDE DEF b
<1>6. Fine(rows[i], b, handle[i])
      BY <1>1, <1>3, <1>4 DEF Fine, Refusals, HandleT
<1>7. QED BY <1>1, <1>2, <1>4, <1>5, <1>6, Unchanged, OneOrderBooks

(* Steps of many orders that book nothing. *)
LEMMA ManyBooks ==
  ASSUME BookInv, UNCHANGED <<rows, left>>, broker' \in [Ids -> BrokerT], handle' \in [Ids -> HandleT],
         \A j \in Ids : Fine(rows[j], broker'[j], handle'[j])
  PROVE  BookInv'
<1>1. Sheets /\ Ids = 1..Len(rows) /\ Len(rows) \in Nat
      BY SheetsRead DEF BookInv
<1>2. /\ broker' \in Seq(BrokerT) /\ handle' \in Seq(HandleT)
      /\ Len(broker') = Len(rows) /\ Len(handle') = Len(rows)
      BY <1>1, MappedSeq
<1>3. Sheets' /\ Ids' = Ids
      BY <1>1, <1>2 DEF Sheets, Ids
<1>4. QED BY <1>3, BooksStay

LEMMA SellsBooks ==
  ASSUME BookInv, NEW i \in Ids, NEW n \in 1..Total, Sells(i, n)
  PROVE  BookInv'
<1> DEFINE sold == broker[i].sold + n
           mine == [broker[i] EXCEPT !.sold = sold, !.st = IF sold = rows[i].qty THEN "filled" ELSE @]
           dead(j) == [broker[j] EXCEPT !.st = "dead"]
<1>1. \A j \in Ids : /\ rows[j] \in RowT /\ broker[j] \in BrokerT /\ handle[j] \in HandleT
                     /\ Fine(rows[j], broker[j], handle[j])
      BY Unchanged
<1>2. /\ UNCHANGED <<rows, handle, left>> /\ broker[i].st = "working"
      /\ broker' = [j \in Ids |-> IF j = i THEN mine
                                  ELSE IF {rows[i].role, rows[j].role} = {"TP", "SL"} /\ Working(broker[j])
                                    THEN dead(j) ELSE broker[j]]
      BY DEF Sells
<1>3. mine \in BrokerT /\ mine.sold = sold /\ mine.st = IF sold = rows[i].qty THEN "filled" ELSE "working"
  <2>1. broker[i] \in BrokerT /\ broker[i].sold \in Nat /\ n \in Nat
        BY <1>1, IbkrAssumption DEF BrokerT
  <2>2. sold \in Nat
        BY <2>1
  <2> HIDE DEF sold
  <2>3. CASE sold = rows[i].qty
        BY <1>2, <2>1, <2>2, <2>3 DEF BrokerT, States
  <2>4. CASE sold # rows[i].qty
        BY <1>2, <2>1, <2>2, <2>4 DEF BrokerT, States
  <2>5. QED BY <2>3, <2>4
<1>4. \A j \in Ids : /\ dead(j) \in BrokerT /\ dead(j).st = "dead" /\ dead(j).sold = broker[j].sold
      BY <1>1 DEF BrokerT, States
<1> HIDE DEF mine, dead
<1>5. broker' \in [Ids -> BrokerT]
      BY <1>1, <1>2, <1>3, <1>4
<1>6. handle' \in [Ids -> HandleT]
      BY <1>2, SheetsRead DEF BookInv
<1>7. ASSUME NEW j \in Ids PROVE Fine(rows[j], broker'[j], handle'[j])
  <2>1. CASE j = i
        BY <1>1, <1>2, <1>3, <2>1 DEF Fine, Refusals, sold
  <2>2. CASE j # i /\ broker'[j] = dead(j) /\ Working(broker[j])
        BY <1>1, <1>2, <1>4, <2>2 DEF Fine, Refusals, Working
  <2>3. CASE j # i /\ broker'[j] = broker[j]
        BY <1>1, <1>2, <2>3
  <2>4. QED BY <1>2, <2>1, <2>2, <2>3
<1>8. QED BY <1>2, <1>5, <1>6, <1>7, ManyBooks

LEMMA DropsBooks ==
  ASSUME BookInv, Drops \/ Restarts
  PROVE  BookInv'
<1>1. \A j \in Ids : /\ rows[j] \in RowT /\ broker[j] \in BrokerT /\ handle[j] \in HandleT
                     /\ Fine(rows[j], broker[j], handle[j])
      BY Unchanged
<1>2. UNCHANGED <<rows, left>>
      BY DEF Drops, Restarts, books
<1> DEFINE lapsed(j) == [broker[j] EXCEPT !.st = "dead"]
           idle(j) == [broker[j] EXCEPT !.cancel = FALSE]
           old(j) == [at |-> "stale", st |-> broker[j].st, sold |-> broker[j].sold]
<1>3. \A j \in Ids : /\ lapsed(j) \in BrokerT /\ lapsed(j).st = "dead" /\ lapsed(j).sold = broker[j].sold
                     /\ idle(j) \in BrokerT /\ idle(j).st = broker[j].st /\ idle(j).sold = broker[j].sold
                     /\ old(j) \in HandleT /\ old(j).at = "stale" /\ old(j).st = broker[j].st
                     /\ old(j).sold = broker[j].sold
      BY <1>1 DEF BrokerT, HandleT, States
<1>4. NoHandle \in HandleT /\ NoHandle.at = "none" /\ NoHandle.st = "none"
      BY DEF NoHandle, HandleT
<1>5. ASSUME NEW j \in Ids
      PROVE  /\ broker'[j] \in BrokerT /\ broker'[j].sold = broker[j].sold
             /\ broker'[j].st = IF broker[j].st \in Refusals THEN "dead" ELSE broker[j].st
  <2>1. /\ Forgotten[j] \in BrokerT /\ Forgotten[j].sold = broker[j].sold
        /\ Forgotten[j].st = IF broker[j].st \in Refusals THEN "dead" ELSE broker[j].st
        BY <1>1, <1>3 DEF Forgotten
  <2>2. CASE Drops
    <3>1. PICK lost \in SUBSET {k \in Ids : Working(broker[k]) /\ broker[k].cancel} :
            broker' = [k \in Ids |-> IF k \in lost THEN idle(k) ELSE Forgotten[k]]
          BY <2>2 DEF Drops
    <3>2. j \in lost => broker[j].st \notin Refusals
          BY DEF Working, Refusals
    <3> HIDE DEF idle, lapsed
    <3>3. QED BY <1>3, <2>1, <3>1, <3>2
  <2>3. CASE Restarts
        BY <2>1, <2>3 DEF Restarts
  <2>4. QED BY <2>2, <2>3
<1>6. broker' \in [Ids -> BrokerT]
      BY <1>5 DEF Drops, Restarts, Forgotten
<1>7. ASSUME NEW j \in Ids
      PROVE  handle'[j] \in HandleT /\ Fine(rows[j], broker'[j], handle'[j])
  <2>1. CASE Drops /\ handle[j].at = "live"
    <3>1. handle'[j] = old(j)
          BY <2>1 DEF Drops
    <3> HIDE DEF old, idle, lapsed
    <3>2. QED BY <1>1, <1>3, <1>5, <3>1 DEF Fine, Refusals
  <2>2. CASE Drops /\ handle[j].at # "live"
    <3>1. handle'[j] = handle[j]
          BY <2>2 DEF Drops
    <3> HIDE DEF old, idle, lapsed
    <3>2. QED BY <1>1, <1>5, <2>2, <3>1 DEF Fine, Refusals
  <2>3. CASE Restarts
    <3>1. handle'[j] = NoHandle
          BY <2>3 DEF Restarts
    <3> HIDE DEF old, idle, lapsed
    <3>2. QED BY <1>1, <1>4, <1>5, <3>1 DEF Fine, Refusals
  <2>4. QED BY <2>1, <2>2, <2>3
<1>8. handle' \in [Ids -> HandleT]
      BY <1>7 DEF Drops, Restarts
<1>9. QED BY <1>2, <1>6, <1>7, <1>8, ManyBooks

(* What a handle shows filled has filled, and so much. *)
LEMMA ViewTrue ==
  ASSUME BookInv, NEW i \in Ids
  PROVE  /\ View(i).st = "filled" => /\ broker[i].st = "filled" /\ View(i).sold = broker[i].sold
                                     /\ broker[i].sold \in Nat \ {0}
         /\ View(i).st \in Refusals => broker[i].st \in Refusals \cup {"dead"} /\ broker[i].sold = 0
         /\ View(i).st = "dead" => broker[i].st = "dead"
<1>1. /\ rows[i] \in RowT /\ broker[i] \in BrokerT /\ handle[i] \in HandleT
      /\ Fine(rows[i], broker[i], handle[i])
      BY Unchanged
<1>2. CASE handle[i].at = "live"
      BY <1>1, <1>2 DEF View, Fine, Refusals, RowT, BrokerT
<1>3. CASE handle[i].at # "live"
      BY <1>1, <1>3 DEF View, Fine, Refusals, RowT, BrokerT, HandleT
<1>4. QED BY <1>2, <1>3

LEMMA HandleKinds == NoHandle \in HandleT /\ LiveHandle \in HandleT /\ Sent \in BrokerT
BY DEF NoHandle, LiveHandle, Sent, HandleT, BrokerT, States

(* What a task makes of an order that is over, and what a cancel strikes:   *)
(* the row's status, and its handle.                                        *)
LEMMA EndsBooks ==
  ASSUME BookInv, NEW i \in Ids, UNCHANGED <<broker, left>>,
         rows' = [rows EXCEPT ![i].status = "CANCELLED"] \/ rows' = rows,
         handle' = [handle EXCEPT ![i] = NoHandle] \/ handle' = [handle EXCEPT ![i] = LiveHandle] \/ handle' = handle
  PROVE  BookInv'
<1> DEFINE c == [rows[i] EXCEPT !.status = "CANCELLED"]
<1>1. /\ rows[i] \in RowT /\ broker[i] \in BrokerT /\ handle[i] \in HandleT
      /\ Fine(rows[i], broker[i], handle[i])
      BY Unchanged
<1>2. c \in RowT /\ c.status = "CANCELLED" /\ c.qty = rows[i].qty /\ c.by = rows[i].by /\ c.filled = rows[i].filled
      BY <1>1 DEF RowT
<1>3. [rows EXCEPT ![i].status = "CANCELLED"] = [rows EXCEPT ![i] = c]
      OBVIOUS
<1> HIDE DEF c
<1>4. PICK r \in RowT : /\ rows' = [rows EXCEPT ![i] = r] /\ (r.status = "CANCELLED" \/ r = rows[i])
                        /\ r.qty = rows[i].qty /\ r.by = rows[i].by /\ r.filled = rows[i].filled
      BY <1>1, <1>2, <1>3, Unchanged
<1>5. PICK h \in HandleT : /\ handle' = [handle EXCEPT ![i] = h]
                           /\ h \in {NoHandle, LiveHandle, handle[i]}
      BY <1>1, HandleKinds, Unchanged
<1>6. broker' = [broker EXCEPT ![i] = broker[i]]
      BY Unchanged
<1>7. Fine(r, broker[i], h)
  <2>1. CASE h = handle[i]
        BY <1>1, <1>4, <2>1 DEF Fine
  <2>2. CASE h = NoHandle \/ h = LiveHandle
        BY <1>1, <1>4, <2>2 DEF Fine, NoHandle, LiveHandle
  <2>3. QED BY <1>5, <2>1, <2>2
<1>8. QED BY <1>1, <1>4, <1>5, <1>6, <1>7, OneOrderBooks

LEMMA ReplacesBooks ==
  ASSUME BookInv, NEW i \in Ids, NEW t, Replaces(i, t)
  PROVE  BookInv'
<1>1. /\ rows[i] \in RowT /\ broker[i] \in BrokerT /\ handle[i] \in HandleT
      /\ Fine(rows[i], broker[i], handle[i])
      BY Unchanged
<1>2. /\ UNCHANGED <<rows, left>> /\ broker' = [broker EXCEPT ![i] = Sent]
      /\ handle' = [handle EXCEPT ![i] = LiveHandle] /\ View(i).st \in Refusals
      BY DEF Replaces, Again, books, Refusals
<1>3. broker[i].sold = 0
      BY <1>2, ViewTrue
<1>4. Fine(rows[i], Sent, LiveHandle)
      BY <1>1, <1>3 DEF Fine, Sent, LiveHandle, NoHandle, Refusals
<1>5. QED BY <1>1, <1>2, <1>4, HandleKinds, Unchanged, OneOrderBooks

LEMMA TimesOutBooks ==
  ASSUME BookInv, NEW i \in Ids, NEW t, TimesOut(i, t)
  PROVE  BookInv'
<1> DEFINE b == [broker[i] EXCEPT !.cancel = @ \/ (handle[i].at # "none" /\ session = "up")]
           c == [rows[i] EXCEPT !.status = "CANCELLED"]
<1>1. /\ rows[i] \in RowT /\ broker[i] \in BrokerT /\ handle[i] \in HandleT
      /\ Fine(rows[i], broker[i], handle[i])
      BY Unchanged
<1>2. b \in BrokerT /\ b.st = broker[i].st /\ b.sold = broker[i].sold
      BY <1>1 DEF BrokerT
<1>3. c \in RowT /\ c.status = "CANCELLED" /\ c.qty = rows[i].qty /\ c.by = rows[i].by /\ c.filled = rows[i].filled
      BY <1>1 DEF RowT
<1>4. /\ broker' = [broker EXCEPT ![i] = b] /\ left' = left
      /\ handle' = [handle EXCEPT ![i] = NoHandle]
      /\ rows' = IF Pending(i) THEN [rows EXCEPT ![i] = c] ELSE rows
      BY DEF TimesOut, Leaves, books
<1> HIDE DEF b, c
<1>5. PICK r \in RowT : /\ rows' = [rows EXCEPT ![i] = r] /\ (r.status = "CANCELLED" \/ r = rows[i])
                        /\ r.qty = rows[i].qty /\ r.by = rows[i].by /\ r.filled = rows[i].filled
      BY <1>1, <1>3, <1>4, Unchanged
<1>6. Fine(r, b, NoHandle)
      BY <1>1, <1>2, <1>5 DEF Fine, NoHandle
<1>7. QED BY <1>2, <1>4, <1>5, <1>6, HandleKinds, OneOrderBooks

LEMMA StrikesBooks ==
  ASSUME BookInv, NEW i \in Ids, Strikes(i), UNCHANGED <<broker, left>>
  PROVE  BookInv'
<1>1. CASE rows[i].status = "FILLED"
      BY <1>1, EndsBooks DEF Strikes
<1>2. CASE rows[i].status # "FILLED"
      BY <1>2, EndsBooks DEF Strikes
<1>3. QED BY <1>1, <1>2

LEMMA CancelsBooks ==
  ASSUME BookInv, cancel.i \in Ids \cup {0},
         (\E i \in Ids : Cancels(i) \/ CancelsLocally(i)) \/ CancelEnds
  PROVE  BookInv'
<1>1. ASSUME NEW i \in Ids, Cancels(i) PROVE BookInv'
  <2> DEFINE b == [broker[i] EXCEPT !.cancel = TRUE]
  <2>1. /\ rows[i] \in RowT /\ broker[i] \in BrokerT /\ handle[i] \in HandleT
        /\ Fine(rows[i], broker[i], handle[i])
        BY Unchanged
  <2>2. b \in BrokerT /\ b.st = broker[i].st /\ b.sold = broker[i].sold
        BY <2>1 DEF BrokerT
  <2>3. broker' = [broker EXCEPT ![i] = b] /\ UNCHANGED <<rows, handle, left>>
        BY <1>1 DEF Cancels, books
  <2> HIDE DEF b
  <2>4. Fine(rows[i], b, handle[i])
        BY <2>1, <2>2 DEF Fine
  <2>5. QED BY <2>1, <2>2, <2>3, <2>4, Unchanged, OneOrderBooks
<1>2. ASSUME NEW i \in Ids, CancelsLocally(i) PROVE BookInv'
      BY <1>2, StrikesBooks DEF CancelsLocally, books
<1>3. CASE CancelEnds
  <2>1. PICK i \in Ids : i = cancel.i
        BY <1>3 DEF CancelEnds
  <2>2. UNCHANGED <<broker, left>> /\ (Strikes(i) \/ UNCHANGED <<rows, handle>>)
        BY <1>3, <2>1 DEF CancelEnds, books
  <2>3. QED BY <2>2, StrikesBooks, EndsBooks
<1>4. QED BY <1>1, <1>2, <1>3

LEMMA LessTwice ==
  ASSUME NEW t \in Int, NEW c \in Nat, NEW n \in Nat
  PROVE  Larger(0, Larger(0, t - c) - n) = Larger(0, t - (c + n))
BY DEF Larger

LEMMA LargerNat ==
  ASSUME NEW n \in Int
  PROVE  Larger(0, n) \in Nat /\ (n >= 0 => Larger(0, n) = n)
BY DEF Larger

(* A fill found by a task.  The first to find it says who booked it. *)
LEMMA BooksBooks ==
  ASSUME BookInv, NEW i \in Ids, NEW t, Books(i, t)
  PROVE  BookInv'
<1> DEFINE sold == View(i).sold
           who == IF t = "blind" THEN "blind" ELSE "known"
           r == [rows[i] EXCEPT !.status = "FILLED", !.filled = sold,
                                !.by = IF rows[i].by = "none" THEN who ELSE rows[i].by]
<1>1. /\ rows[i] \in RowT /\ broker[i] \in BrokerT /\ handle[i] \in HandleT
      /\ Fine(rows[i], broker[i], handle[i])
      BY Unchanged
<1>2. broker[i].st = "filled" /\ sold = broker[i].sold /\ sold \in Nat \ {0}
      BY ViewTrue DEF Books
<1>3. /\ rows' = [rows EXCEPT ![i] = r] /\ handle' = [handle EXCEPT ![i] = NoHandle] /\ broker' = broker
      /\ left' = IF t = "blind" THEN left ELSE Larger(0, left - Newly(i, sold))
  <2>1. rows' = Booked(i, sold, who)
        BY DEF Books
  <2>2. rows' = [rows EXCEPT ![i] = r]
        BY ONLY <2>1 DEF Booked
  <2>3. QED BY <2>2 DEF Books, Leaves
<1> HIDE DEF sold
<1>4. /\ r \in RowT /\ r.filled = sold /\ r.status = "FILLED" /\ r.qty = rows[i].qty
      /\ r.by = IF rows[i].by = "none" THEN who ELSE rows[i].by
  <2>1. CASE rows[i].by = "none"
        BY <1>1, <1>2, <2>1 DEF RowT
  <2>2. CASE rows[i].by # "none"
        BY <1>1, <1>2, <2>2 DEF RowT
  <2>3. QED BY <2>1, <2>2
<1> HIDE DEF r
<1>5. Sheets /\ Ids = 1..Len(rows)
      BY SheetsRead DEF BookInv
<1>6. /\ rows' \in Seq(RowT) /\ handle' \in Seq(HandleT) /\ Len(rows') = Len(rows) /\ Len(handle') = Len(rows)
      /\ \A j \in Ids : /\ rows'[j] = IF j = i THEN r ELSE rows[j]
                        /\ handle'[j] = IF j = i THEN NoHandle ELSE handle[j]
      BY <1>3, <1>4, <1>5, HandleKinds, ExceptSeq DEF Sheets
<1>7. Ids' = Ids /\ DOMAIN rows' = Ids /\ DOMAIN rows = Ids
      BY <1>5, <1>6, LenProperties DEF Ids, Sheets
<1>8. left \in Nat /\ left = Larger(0, Total - Cardinality(Taken)) /\ Cardinality(Taken) \in Nat
      BY <1>5, TakenNat DEF BookInv, Sheets
<1>9. Fine(r, broker[i], NoHandle)
      BY <1>1, <1>2, <1>4 DEF Fine, NoHandle
<1>10. left' \in Nat /\ left' = Larger(0, Total - Cardinality(Taken'))
  <2>1. CASE rows[i].by = "none" /\ t # "blind"
    <3>1. Known(rows') = Known(rows) \cup {i} /\ i \notin Known(rows)
          BY <1>4, <1>6, <1>7, <2>1 DEF Known
    <3>2. /\ \A j \in Known(rows) : Fills(rows')[j] = Fills(rows)[j] /\ Fills(rows')[j] \in Nat
          /\ Fills(rows')[i] = sold
      <4>1. \A j \in Ids : Fills(rows)[j] = rows[j].filled /\ Fills(rows')[j] = rows'[j].filled
            BY <1>7 DEF Fills
      <4>2. \A j \in Ids : rows[j].filled \in Nat
            BY Unchanged DEF RowT
      <4>3. Known(rows) \subseteq Ids
            BY <1>7 DEF Known
      <4>4. QED BY <1>4, <1>6, <3>1, <4>1, <4>2, <4>3
    <3>3. Slices(Fills(rows'), Known(rows)) = Slices(Fills(rows), Known(rows))
          BY <3>2, SlicesSame
    <3>4. Cardinality(Taken') = Cardinality(Taken) + sold
      <4>1. PICK f : f = Fills(rows')
            OBVIOUS
      <4>2. PICK S : S = Known(rows) /\ IsFiniteSet(S)
            BY <1>5, TakenNat
      <4>3. i \notin S /\ (\A j \in S : f[j] \in Nat) /\ f[i] = sold /\ f[i] \in Nat
            BY <1>2, <3>1, <3>2, <4>1, <4>2
      <4>4. Cardinality(Slices(f, S \cup {i})) = Cardinality(Slices(f, S)) + f[i]
            BY <4>2, <4>3, SlicesMore
      <4>5. QED BY <3>1, <3>3, <4>1, <4>2, <4>3, <4>4, TakenIs
    <3>5. Newly(i, sold) = sold
          BY <1>1, <1>2, <2>1 DEF Newly, Fine, Larger
    <3>6. left' = Larger(0, Larger(0, Total - Cardinality(Taken)) - sold)
          BY <1>3, <1>8, <2>1, <3>5
    <3>7. left' = Larger(0, Total - (Cardinality(Taken) + sold))
      <4>1. PICK c \in Nat : c = Cardinality(Taken)
            BY <1>8
      <4>2. PICK n \in Nat : n = sold
            BY <1>2
      <4>3. Total \in Int
            BY IbkrAssumption
      <4>4. Larger(0, Larger(0, Total - c) - n) = Larger(0, Total - (c + n))
            BY <4>3, LessTwice
      <4>5. QED BY <3>6, <4>1, <4>2, <4>4
    <3>8. left - sold \in Int
          BY <1>2, <1>8
    <3>9. left' \in Nat
          BY <1>3, <2>1, <3>5, <3>8, LargerNat
    <3>10. QED BY <3>4, <3>7, <3>9
  <2>2. CASE rows[i].by = "none" /\ t = "blind"
    <3>1. Known(rows') = Known(rows) /\ i \notin Known(rows)
          BY <1>4, <1>6, <1>7, <2>2 DEF Known
    <3>2. \A j \in Known(rows) : Fills(rows')[j] = Fills(rows)[j]
          BY <1>6, <1>7, <3>1 DEF Fills, Known
    <3>3. Taken' = Taken
          BY <3>1, <3>2, TakenIs, SlicesSame
    <3>4. QED BY <1>3, <1>8, <2>2, <3>3
  <2>3. CASE rows[i].by # "none"
    <3>1. rows[i].filled = sold
          BY <1>1, <1>2, <2>3 DEF Fine
    <3>2. \A j \in Ids : rows'[j].by = rows[j].by /\ rows'[j].filled = rows[j].filled
          BY <1>4, <1>6, <2>3, <3>1
    <3>3. Taken' = Taken
          BY <1>7, <3>2, TakenSame
    <3>4. Newly(i, sold) = 0
          BY <1>2, <3>1 DEF Newly, Larger
    <3>5. left' = left
          BY <1>3, <1>8, <3>4, LargerNat
    <3>6. QED BY <1>8, <3>3, <3>5
  <2>4. QED BY <2>1, <2>2, <2>3
<1>11. Sheets'
       BY <1>3, <1>5, <1>6, <1>10 DEF Sheets
<1>12. \A j \in Ids' : Fine(rows'[j], broker'[j], handle'[j])
       BY <1>3, <1>6, <1>7, <1>9 DEF BookInv
<1>13. QED BY <1>10, <1>11, <1>12 DEF BookInv

LEMMA PlacesBooks ==
  ASSUME BookInv, Places
  PROVE  BookInv'
<1> DEFINE r == Row("exit", left)
<1>1. Sheets /\ Ids = 1..Len(rows) /\ Len(rows) \in Nat
      BY SheetsRead DEF BookInv
<1>2. /\ r \in RowT /\ r.by = "none" /\ r.filled = 0 /\ left' = left
      BY <1>1 DEF Row, RowT, Places, Sheets, books
<1>3. /\ rows' = Append(rows, r) /\ broker' = Append(broker, Sent) /\ handle' = Append(handle, LiveHandle)
      BY DEF Places
<1> HIDE DEF r
<1>4. /\ rows' \in Seq(RowT) /\ Len(rows') = Len(rows) + 1 /\ rows'[Len(rows) + 1] = r
      /\ \A j \in Ids : rows'[j] = rows[j]
      BY <1>1, <1>2, <1>3, AppendProperties DEF Sheets
<1>5. /\ broker' \in Seq(BrokerT) /\ Len(broker') = Len(rows) + 1 /\ broker'[Len(rows) + 1] = Sent
      /\ \A j \in Ids : broker'[j] = broker[j]
      BY <1>1, <1>3, HandleKinds, AppendProperties DEF Sheets
<1>6. /\ handle' \in Seq(HandleT) /\ Len(handle') = Len(rows) + 1 /\ handle'[Len(rows) + 1] = LiveHandle
      /\ \A j \in Ids : handle'[j] = handle[j]
      BY <1>1, <1>3, HandleKinds, AppendProperties DEF Sheets
<1>7. Ids' = Ids \cup {Len(rows) + 1} /\ DOMAIN rows' = Ids' /\ DOMAIN rows = Ids
      BY <1>1, <1>4, LenProperties DEF Ids, Sheets
<1>8. Sheets'
      BY <1>1, <1>2, <1>4, <1>5, <1>6 DEF Sheets
<1>9. Fine(r, Sent, LiveHandle)
      BY <1>2 DEF Fine, Sent, LiveHandle, NoHandle, Refusals
<1>10. Known(rows') = Known(rows) /\ \A j \in Known(rows) : Fills(rows')[j] = Fills(rows)[j]
       BY <1>2, <1>4, <1>7 DEF Known, Fills
<1>11. Taken' = Taken
       BY <1>10, TakenIs, SlicesSame
<1>12. \A j \in Ids' : Fine(rows'[j], broker'[j], handle'[j])
       BY <1>4, <1>5, <1>6, <1>7, <1>9 DEF BookInv
<1>13. QED BY <1>2, <1>8, <1>11, <1>12 DEF BookInv

LEMMA LooksBooks ==
  ASSUME BookInv, NEW i \in Ids, NEW t, Looks(i, t)
  PROVE  BookInv'
<1>1. CASE Ends(i, t)
  <2>1. UNCHANGED <<broker, left>> /\ rows' = [rows EXCEPT ![i].status = "CANCELLED"]
        /\ handle' = [handle EXCEPT ![i] = NoHandle]
        BY <1>1 DEF Ends, Leaves, books
  <2>2. QED BY <2>1, EndsBooks
<1>2. CASE Recovers(i, t)
  <2>1. UNCHANGED <<broker, left, rows>> /\ handle' = [handle EXCEPT ![i] = LiveHandle]
        BY <1>2 DEF Recovers, books
  <2>2. QED BY <2>1, EndsBooks
<1>3. QED BY <1>1, <1>2, BooksBooks, ReplacesBooks DEF Looks

(* What the hook finds of orders that ended while nobody looked: the part   *)
(* they sold is taken off the position, all of it, since nothing was before. *)
LEMMA ResumesBooks ==
  ASSUME BookInv, Resumes
  PROVE  BookInv'
<1> DEFINE lost == {i \in Ids : Pending(i) /\ handle[i].at = "none"}
           live == {i \in lost : Working(broker[i])}
           sold == {i \in lost \ live : broker[i].sold > 0}
           gone == (lost \ live) \ sold
           full(i) == [rows[i] EXCEPT !.status = "FILLED", !.filled = Counted(i), !.by = "known"]
           none(i) == [rows[i] EXCEPT !.status = "CANCELLED"]
           again(i) == [broker[i] EXCEPT !.cancel = TRUE]
<1>1. \A j \in Ids : /\ rows[j] \in RowT /\ broker[j] \in BrokerT /\ handle[j] \in HandleT
                     /\ Fine(rows[j], broker[j], handle[j])
      BY Unchanged
<1>2. Sheets /\ Ids = 1..Len(rows) /\ Len(rows) \in Nat /\ IsFiniteSet(Ids)
      BY SheetsRead DEF BookInv
<1>3. CASE UNCHANGED <<rows, broker, handle, left>>
  <2>1. Sheets' /\ Ids' = Ids
        BY <1>2, <1>3 DEF Sheets, Ids
  <2>2. QED BY <1>1, <1>3, <2>1, BooksStay
<1>4. CASE /\ broker' = [i \in Ids |-> Reissued(broker[i], i)]
           /\ rows' = [i \in Ids |-> IF i \in sold THEN full(i) ELSE IF i \in gone THEN none(i) ELSE rows[i]]
           /\ left' = Larger(0, left - TakenOff(sold))
           /\ handle' = [i \in Ids |-> IF i \in live THEN LiveHandle ELSE handle[i]]
  <2>1. \A i \in Ids : /\ full(i) \in RowT /\ full(i).status = "FILLED" /\ full(i).filled = broker[i].sold
                       /\ full(i).by = "known" /\ full(i).qty = rows[i].qty
                       /\ none(i) \in RowT /\ none(i).status = "CANCELLED" /\ none(i).filled = rows[i].filled
                       /\ none(i).by = rows[i].by /\ none(i).qty = rows[i].qty
                       /\ again(i) \in BrokerT /\ again(i).st = broker[i].st /\ again(i).sold = broker[i].sold
        BY <1>1 DEF RowT, BrokerT, Counted
  <2>2. \A i \in Ids : i \in sold => /\ rows[i].by = "none" /\ rows[i].filled = 0 /\ handle[i].at = "none"
                                     /\ broker[i].st \in {"filled", "dead"} /\ broker[i].sold > 0
    <3>1. ASSUME NEW i \in Ids, i \in sold
          PROVE  /\ rows[i].by = "none" /\ rows[i].filled = 0 /\ handle[i].at = "none"
                 /\ broker[i].st \in {"filled", "dead"} /\ broker[i].sold > 0
      <4>1. rows[i].status = "PENDING" /\ handle[i].at = "none" /\ ~Working(broker[i]) /\ broker[i].sold > 0
            BY <3>1 DEF Pending
      <4>2. broker[i].st \in States /\ broker[i].sold \in Nat
            BY <1>1 DEF BrokerT
      <4>3. QED BY <1>1, <4>1, <4>2 DEF Fine, States, Refusals, Working
    <3>2. QED BY <3>1
  <2>3. sold \subseteq Ids /\ live \subseteq Ids /\ gone \subseteq Ids /\ sold \cap gone = {}
        BY DEF Pending
  <2>4. \A i \in Ids : i \in gone => rows[i].by = "none"
        BY <1>1 DEF Fine, Pending
  <2>5. \A i \in Ids : i \in live => handle[i].at = "none"
        OBVIOUS
  <2> HIDE DEF full, none, again, gone, live
  <2>6. \A i \in Ids : /\ Reissued(broker[i], i) \in BrokerT /\ Reissued(broker[i], i).st = broker[i].st
                       /\ Reissued(broker[i], i).sold = broker[i].sold
        BY <1>1, <2>1 DEF Reissued, again
  <2>7. /\ rows' \in Seq(RowT) /\ broker' \in Seq(BrokerT) /\ handle' \in Seq(HandleT)
        /\ Len(rows') = Len(rows) /\ Len(broker') = Len(rows) /\ Len(handle') = Len(rows)
    <3>1. rows' \in [1..Len(rows) -> RowT] /\ broker' \in [1..Len(rows) -> BrokerT]
          /\ handle' \in [1..Len(rows) -> HandleT]
          BY <1>1, <1>2, <1>4, <2>1, <2>6, HandleKinds
    <3>2. QED BY <1>2, <3>1, MappedSeq
  <2>8. Ids' = Ids /\ DOMAIN rows' = Ids /\ DOMAIN rows = Ids
        BY <1>2, <2>7, LenProperties DEF Ids, Sheets
  <2> HIDE DEF sold
  <2>9. ASSUME NEW i \in Ids
        PROVE  /\ Fine(rows'[i], broker'[i], handle'[i])
               /\ rows'[i].by = (IF i \in sold THEN "known" ELSE rows[i].by)
               /\ rows'[i].filled = IF i \in sold THEN broker[i].sold ELSE rows[i].filled
    <3>1. broker'[i].st = broker[i].st /\ broker'[i].sold = broker[i].sold
          BY <1>4, <2>6
    <3>2. handle'[i] = handle[i] \/ (i \in live /\ handle'[i] = LiveHandle)
          BY <1>4
    <3>3. CASE i \in sold
      <4>1. rows'[i] = full(i)
            BY <1>4, <3>3
      <4>2. QED BY <1>1, <2>1, <2>2, <3>1, <3>2, <3>3, <4>1 DEF Fine, LiveHandle, NoHandle
    <3>4. CASE i \in gone /\ i \notin sold
      <4>1. rows'[i] = none(i)
            BY <1>4, <3>4
      <4>2. QED BY <1>1, <2>1, <2>4, <3>1, <3>2, <3>4, <4>1 DEF Fine, LiveHandle, NoHandle
    <3>5. CASE i \notin gone /\ i \notin sold
      <4>1. rows'[i] = rows[i]
            BY <1>4, <3>5
      <4>2. QED BY <1>1, <3>1, <3>2, <3>5, <4>1 DEF Fine, LiveHandle, NoHandle
    <3>6. QED BY <3>3, <3>4, <3>5
  <2>10. Known(rows') = Known(rows) \cup sold /\ Known(rows) \cap sold = {} /\ Known(rows) \subseteq Ids
         BY <2>2, <2>3, <2>8, <2>9 DEF Known
  <2>11. /\ \A j \in Known(rows) : Fills(rows')[j] = Fills(rows)[j]
         /\ \A j \in sold : Fills(rows')[j] = broker[j].sold
         BY <2>3, <2>8, <2>9, <2>10 DEF Fills
  <2>12. TakenOff(sold) = Cardinality(Slices(Fills(rows'), sold))
    <3>1. \A j \in sold : rows[j].filled + 1 .. Counted(j) = 1 .. Fills(rows')[j]
          BY <2>2, <2>3, <2>11 DEF Counted
    <3>2. UNION {{j} \X (rows[j].filled + 1 .. Counted(j)) : j \in sold} = Slices(Fills(rows'), sold)
          BY <3>1 DEF Slices
    <3>3. QED BY <3>2 DEF TakenOff
  <2>13. Cardinality(Taken') = Cardinality(Taken) + TakenOff(sold) /\ TakenOff(sold) \in Nat
    <3>1. PICK f : f = Fills(rows')
          OBVIOUS
    <3>2. PICK S : S = Known(rows) /\ IsFiniteSet(S)
          BY <1>2, TakenNat
    <3>3. IsFiniteSet(sold)
          BY <1>2, <2>3, FS_Subset
    <3>4. \A j \in S \cup sold : f[j] \in Nat
      <4>1. \A j \in Ids : rows[j].filled \in Nat /\ broker[j].sold \in Nat
            BY <1>1 DEF RowT, BrokerT
      <4>2. \A j \in Ids : Fills(rows)[j] = rows[j].filled
            BY <2>8 DEF Fills
      <4>3. QED BY <2>3, <2>10, <2>11, <3>1, <3>2, <4>1, <4>2
    <3>5. Cardinality(Slices(f, S \cup sold)) = Cardinality(Slices(f, S)) + Cardinality(Slices(f, sold))
          BY <2>10, <3>2, <3>3, <3>4, SlicesApart
    <3>6. Slices(f, S) = Slices(Fills(rows), S)
          BY <2>11, <3>1, <3>2, SlicesSame
    <3>7. Cardinality(Slices(f, sold)) \in Nat
          BY <3>3, <3>4, SlicesFinite
    <3>8. QED BY <2>10, <2>12, <3>1, <3>2, <3>5, <3>6, <3>7, TakenIs
  <2>14. left' \in Nat /\ left' = Larger(0, Total - Cardinality(Taken'))
    <3>1. left \in Nat /\ left = Larger(0, Total - Cardinality(Taken)) /\ Cardinality(Taken) \in Nat
          BY <1>2, TakenNat DEF BookInv, Sheets
    <3>2. left - TakenOff(sold) \in Int
          BY <2>13, <3>1
    <3>3. left' \in Nat
          BY <1>4, <3>2, LargerNat
    <3>4. PICK c \in Nat : c = Cardinality(Taken)
          BY <3>1
    <3>5. PICK n \in Nat : n = TakenOff(sold)
          BY <2>13
    <3>6. Larger(0, Larger(0, Total - c) - n) = Larger(0, Total - (c + n))
      <4>1. Total \in Int /\ c \in Nat /\ n \in Nat
            BY <3>4, <3>5, IbkrAssumption
      <4>2. QED BY ONLY <4>1, LessTwice
    <3>7. left' = Larger(0, Larger(0, Total - c) - n)
          BY <1>4, <3>1, <3>4, <3>5
    <3>8. Cardinality(Taken') = c + n
          BY <2>13, <3>4, <3>5
    <3>9. QED BY <3>3, <3>6, <3>7, <3>8
  <2>15. Sheets'
         BY <2>7, <2>14 DEF Sheets
  <2>16. QED BY <2>8, <2>9, <2>14, <2>15 DEF BookInv
<1>5. QED BY <1>3, <1>4 DEF Resumes, books

(* A cancel is of an order there is. *)
CancelT == [i : Nat, live : BOOLEAN, st : States \cup {"none"}, cleared : BOOLEAN]
CancelTrue ==
  /\ cancel \in CancelT
  /\ cancel.i \in Ids \cup {0}
  /\ cancel.live => cancel.i # 0

LEMMA CancelKinds ==
  /\ NoCancel \in CancelT /\ NoCancel.i = 0 /\ ~NoCancel.live
  /\ [NoCancel EXCEPT !.cleared = TRUE] \in CancelT /\ [NoCancel EXCEPT !.cleared = TRUE].i = 0
  /\ ~[NoCancel EXCEPT !.cleared = TRUE].live
BY DEF NoCancel, CancelT

(* A cancel that nothing becomes of, or that is over. *)
LEMMA CancelOver ==
  ASSUME CancelTrue, Sheets, Sheets', Len(rows') >= Len(rows),
         cancel' \in {cancel, NoCancel, [NoCancel EXCEPT !.cleared = TRUE]}
  PROVE  CancelTrue'
<1>1. Ids = 1..Len(rows) /\ Ids' = 1..Len(rows') /\ Len(rows) \in Nat /\ Len(rows') \in Nat
      BY LenProperties DEF Sheets, Ids
<1>2. Ids \subseteq Ids'
      BY <1>1
<1>3. QED BY <1>2, CancelKinds DEF CancelTrue

LEMMA StrikesCancel ==
  ASSUME NEW i, Strikes(i)
  PROVE  cancel' \in {NoCancel, [NoCancel EXCEPT !.cleared = TRUE]}
BY DEF Strikes

LEMMA CancelStays ==
  ASSUME BookInv, BookInv', CancelTrue, [Next]_vars
  PROVE  CancelTrue'
<1>1. Sheets /\ Sheets' /\ Ids = 1..Len(rows) /\ Len(rows) \in Nat
      BY SheetsRead DEF BookInv
<1>2. /\ \A i \in Ids : broker[i].st \in States /\ View(i).st \in States \cup {"none"}
      /\ cancel.i \in Nat
  <2>1. ASSUME NEW i \in Ids PROVE broker[i].st \in States /\ View(i).st \in States \cup {"none"}
        BY Unchanged DEF View, BrokerT, HandleT
  <2>2. QED BY <1>1, <2>1 DEF CancelTrue, CancelT
<1>3. ASSUME Len(rows') = Len(rows),
             \/ cancel' \in CancelT /\ cancel'.i = cancel.i /\ (cancel'.live => cancel.live)
             \/ cancel' \in CancelT /\ cancel'.i \in Ids
      PROVE  CancelTrue'
  <2>1. Ids' = Ids
        BY <1>1, <1>3, LenProperties DEF Sheets, Ids
  <2>2. QED BY <1>1, <1>3, <2>1 DEF CancelTrue
<1>4. CASE /\ Len(rows') = Len(rows) /\ cancel' = cancel
      BY <1>1, <1>4, CancelOver
<1>5. ASSUME NEW i \in Ids, NEW t, Replaces(i, t) PROVE CancelTrue'
  <2> DEFINE c == [cancel EXCEPT !.live = FALSE, !.st = "dead"]
  <2>1. cancel \in CancelT
        BY DEF CancelTrue
  <2>2. c \in CancelT /\ c.i = cancel.i /\ ~c.live
        BY <2>1 DEF CancelT, States
  <2>3. rows' = rows /\ (cancel' = c \/ cancel' = cancel)
        BY <1>5 DEF Replaces
  <2> HIDE DEF c
  <2>4. QED BY <1>3, <2>1, <2>2, <2>3
<1>6. ASSUME NEW i \in Ids, Cancels(i) PROVE CancelTrue'
  <2>1. [i |-> i, live |-> handle[i].at = "live", st |-> View(i).st, cleared |-> FALSE] \in CancelT
        BY <1>1, <1>2 DEF CancelT
  <2>2. cancel' \in CancelT /\ cancel'.i = i /\ rows' = rows
        BY <1>6, <2>1 DEF Cancels
  <2>3. QED BY <1>3, <2>2
<1>7. CASE Drops
  <2> DEFINE c == [cancel EXCEPT !.live = FALSE, !.st = broker[cancel.i].st]
  <2>1. cancel \in CancelT
        BY DEF CancelTrue
  <2>2. rows' = rows /\ cancel' = IF cancel.live THEN c ELSE cancel
        BY <1>7 DEF Drops
  <2>3. ASSUME cancel.live PROVE c \in CancelT /\ c.i = cancel.i /\ ~c.live
    <3>1. broker[cancel.i].st \in States
          BY <1>2, <2>3 DEF CancelTrue
    <3>2. QED BY <2>1, <3>1 DEF CancelT
  <2> HIDE DEF c
  <2>4. QED BY <1>3, <2>1, <2>2, <2>3
<1>8. CASE Restarts
      BY <1>1, <1>8, CancelOver DEF Restarts
<1>9. CASE Places
  <2>1. Len(rows') >= Len(rows)
    <3>1. rows \in Seq(RowT) /\ rows' = Append(rows, Row("exit", left))
          BY <1>1, <1>9 DEF Places, Sheets
    <3>2. Len(rows') = Len(rows) + 1
          BY <3>1
    <3>3. QED BY <1>1, <3>2
  <2>2. QED BY <1>1, <1>9, <2>1, CancelOver DEF Places
<1>10. ASSUME NEW i \in Ids, CancelsLocally(i) PROVE CancelTrue'
  <2>1. Len(rows') = Len(rows)
        BY <1>1, <1>10 DEF CancelsLocally, Strikes, Sheets
  <2>2. QED BY <1>1, <1>10, <2>1, StrikesCancel, CancelOver DEF CancelsLocally
<1>11. CASE CancelEnds
  <2>1. Len(rows') = Len(rows)
        BY <1>1, <1>11 DEF CancelEnds, Strikes, Sheets
  <2>2. cancel' \in {NoCancel, [NoCancel EXCEPT !.cleared = TRUE]}
        BY <1>11, StrikesCancel DEF CancelEnds
  <2>3. QED BY <1>1, <2>1, <2>2, CancelOver
<1>12. ASSUME NEW i \in Ids, NEW t, Ends(i, t) \/ Recovers(i, t) \/ Books(i, t) \/ TimesOut(i, t)
       PROVE  CancelTrue'
  <2>1. cancel' = cancel
        BY <1>12 DEF Ends, Recovers, Books, TimesOut
  <2>2. Len(rows') = Len(rows)
        BY <1>1, <1>12 DEF Ends, Recovers, Books, TimesOut, Booked, Sheets
  <2>3. QED BY <1>4, <2>1, <2>2
<1>13. CASE Market \/ (\E i \in Ids : Obeys(i)) \/ Connects \/ Boots \/ vars' = vars
  <2>1. rows' = rows /\ cancel' = cancel
        BY <1>13 DEF Market, Obeys, Connects, Boots, Accepts, Dies, Refuses, Sells, vars, orders
  <2>2. QED BY <1>4, <2>1
<1>14. CASE Resumes
  <2>1. cancel' = cancel /\ (rows' = rows \/ DOMAIN rows' = Ids)
        BY <1>14 DEF Resumes
  <2>2. Len(rows') = Len(rows)
        BY <1>1, <2>1, LenProperties DEF Sheets
  <2>3. QED BY <1>4, <2>1, <2>2
<1>15. QED BY <1>5, <1>6, <1>7, <1>8, <1>9, <1>10, <1>11, <1>12, <1>13, <1>14 DEF Next, Looks

LEMMA BookInit ==
  ASSUME Init
  PROVE  BookInv /\ CancelTrue
<1>1. Total \in Nat \ {0}
      BY IbkrAssumption
<1>2. /\ rows \in Seq(RowT) /\ Len(rows) \in Nat
      /\ \A i \in 1..Len(rows) : rows[i].by = "none" /\ rows[i].filled = 0 /\ rows[i].status = "PENDING"
  <2>1. /\ Row("exit", Total) \in RowT /\ Row("TP", Total) \in RowT /\ Row("SL", Total) \in RowT
        BY <1>1 DEF Row, RowT
  <2>2. CASE rows = <<Row("exit", Total)>>
        BY <2>1, <2>2 DEF Row
  <2>3. CASE rows = <<Row("TP", Total), Row("SL", Total)>>
        BY <2>1, <2>3 DEF Row
  <2>4. CASE rows = <<>>
        BY <2>4
  <2>5. QED BY <2>2, <2>3, <2>4 DEF Init
<1>3. Ids = 1..Len(rows)
      BY <1>2, LenProperties DEF Ids
<1>4. broker = [i \in Ids |-> Sent] /\ handle = [i \in Ids |-> LiveHandle] /\ left = Total
      BY DEF Init
<1>5. /\ broker \in Seq(BrokerT) /\ Len(broker) = Len(rows)
      /\ handle \in Seq(HandleT) /\ Len(handle) = Len(rows)
  <2>1. broker \in [1..Len(rows) -> BrokerT] /\ handle \in [1..Len(rows) -> HandleT]
        BY <1>3, <1>4, HandleKinds
  <2>2. QED BY <1>2, <2>1, MappedSeq
<1>6. Sheets
      BY <1>1, <1>2, <1>4, <1>5 DEF Sheets
<1>7. \A i \in Ids : Fine(rows[i], broker[i], handle[i])
      BY <1>2, <1>3, <1>4 DEF Fine, Sent, LiveHandle, NoHandle, Refusals
<1>8. Cardinality(Taken) = 0
  <2>1. Taken = {}
        BY <1>2, <1>3 DEF Taken
  <2>2. QED BY <2>1, FS_EmptySet
<1>9. left = Larger(0, Total - Cardinality(Taken))
      BY <1>1, <1>4, <1>8 DEF Larger
<1>10. CancelTrue
       BY CancelKinds DEF Init, CancelTrue
<1>11. QED BY <1>6, <1>7, <1>9, <1>10 DEF BookInv

LEMMA BookNext ==
  ASSUME BookInv, CancelTrue, [Next]_vars
  PROVE  BookInv'
<1>1. ASSUME UNCHANGED <<rows, broker, handle, left>> PROVE BookInv'
  <2>1. Sheets' /\ Ids' = Ids
        BY <1>1 DEF BookInv, Sheets, Ids
  <2>2. QED BY <1>1, <2>1, BooksStay DEF BookInv
<1>2. CASE Market
      BY <1>2, MarketBooks, SellsBooks DEF Market
<1>3. ASSUME NEW i \in Ids, Obeys(i) PROVE BookInv'
      BY <1>3, MarketBooks
<1>4. ASSUME NEW i \in Ids, NEW t \in AnyTask, Looks(i, t) \/ TimesOut(i, t) PROVE BookInv'
      BY <1>4, LooksBooks, TimesOutBooks
<1>5. CASE (\E i \in Ids : Cancels(i) \/ CancelsLocally(i)) \/ CancelEnds
      BY <1>5, CancelsBooks DEF CancelTrue
<1>6. CASE Connects \/ Boots \/ vars' = vars
      BY <1>1, <1>6 DEF Connects, Boots, orders, books, vars
<1>7. QED BY <1>2, <1>3, <1>4, <1>5, <1>6, PlacesBooks, DropsBooks, ResumesBooks DEF Next

LEMMA BookMeans ==
  ASSUME BookInv
  PROVE  BooksMatch
<1>1. Cardinality(Taken) \in Nat /\ Total \in Nat
      BY TakenNat, IbkrAssumption DEF BookInv
<1>2. QED BY <1>1 DEF BookInv, BooksMatch, Larger, Smaller

(* What IBKR does in a step of the venues. *)
LEMMA IbkrMoves ==
  ASSUME [VenuesNext]_venues
  PROVE  [Next]_vars
BY DEF VenuesNext, venues, vars

(* At IBKR a contract leaves the position's remaining exactly once,         *)
(* whichever of an order's tasks, the resumed ones and the reconnect hook   *)
(* find its fill, in any order, through drops, restarts and cancels, for    *)
(* any quantity and any number of orders.                                   *)
THEOREM IbkrFillsBookedOnce == VenuesSpec => []BooksMatch
<1>1. VenuesInit => BookInv /\ CancelTrue
      BY BookInit DEF VenuesInit
<1>2. BookInv /\ CancelTrue /\ [VenuesNext]_venues => (BookInv /\ CancelTrue)'
      BY BookNext, CancelStays, IbkrMoves
<1>3. BookInv => BooksMatch
      BY BookMeans
<1>4. QED BY <1>1, <1>2, <1>3, PTL DEF VenuesSpec

-----------------------------------------------------------------------------
(* IBKR: a position is not sold twice *)

(* Where orders are not refused, and fill whole: a row that is no longer    *)
(* pending has nothing working behind it, and one that is has its handle.   *)
Sober(r, b, h) ==
  /\ r.role = "exit"
  /\ b.st \notin Refusals /\ h.st \notin Refusals
  /\ b.st # "filled" => b.sold = 0
  /\ r.status # "PENDING" => b.st = "dead" \/ r.by = "known"
  /\ r.status = "PENDING" => h.at # "none"

OneAtWork == \A i, j \in Ids : Pending(i) /\ Pending(j) => i = j

(* The order at work is for all that is left, and what it sold is all that  *)
(* the position's row has not yet heard of.                                 *)
Covered ==
  /\ held \in Int
  /\ \A i \in Ids : Pending(i) => rows[i].qty = left /\ held = left - broker[i].sold
  /\ (\A i \in Ids : ~Pending(i)) => held = left

(* A cancel that was cleared left no order at work; one under way is of the *)
(* order at work, and what it believes dead is.                             *)
CancelSure ==
  /\ cancel.cleared => \A i \in Ids : ~Pending(i)
  /\ cancel.i # 0 => \A i \in Ids : Pending(i) => i = cancel.i
  /\ cancel.i # 0 /\ ~cancel.live =>
       cancel.st \notin Refusals /\ (cancel.st = "dead" => broker[cancel.i].st = "dead")

Watched == tasks \in Seq(SUBSET {"placed", "resumed"}) /\ Len(tasks) = Len(rows)

Backed ==
  /\ ~boot /\ Watched
  /\ \A i \in Ids : Sober(rows[i], broker[i], handle[i])
  /\ OneAtWork /\ Covered /\ CancelSure

LEMMA IdsRead ==
  ASSUME BookInv, BookInv', Len(rows') = Len(rows)
  PROVE  Ids' = Ids
BY SheetsRead, LenProperties DEF BookInv, Sheets, Ids

LEMMA WorkStays ==
  ASSUME BookInv, BookInv', Backed, Len(rows') = Len(rows), boot' = boot, Watched',
         \A j \in Ids : Sober(rows'[j], broker'[j], handle'[j]),
         \A j \in Ids : rows'[j].status = "PENDING" => rows[j].status = "PENDING",
         Covered', CancelSure'
  PROVE  Backed'
<1>1. Ids' = Ids
      BY IdsRead
<1>2. OneAtWork'
      BY <1>1 DEF Backed, OneAtWork, Pending
<1>3. QED BY <1>1, <1>2 DEF Backed

LEMMA CoverStays ==
  ASSUME Covered, Ids' = Ids, UNCHANGED <<left, held>>,
         \A j \in Ids : /\ rows'[j].status = rows[j].status /\ rows'[j].qty = rows[j].qty
                        /\ broker'[j].sold = broker[j].sold
  PROVE  Covered'
BY DEF Covered, Pending

(* An order that sold nothing ends. *)
LEMMA CoverEnds ==
  ASSUME Covered, OneAtWork, Ids' = Ids, UNCHANGED <<broker, left, held>>, NEW i \in Ids,
         left \in Nat, broker[i].sold = 0,
         \A j \in Ids : rows'[j].qty = rows[j].qty /\ (j # i => rows'[j].status = rows[j].status),
         rows'[i].status # "PENDING"
  PROVE  Covered'
<1>1. CASE Pending(i)
  <2>1. \A j \in Ids : rows'[j].status # "PENDING"
        BY <1>1 DEF OneAtWork, Pending
  <2>2. held = left
        BY <1>1 DEF Covered
  <2>3. QED BY <2>1, <2>2 DEF Covered, Pending
<1>2. CASE ~Pending(i)
      BY <1>2 DEF Covered, Pending
<1>3. QED BY <1>1, <1>2

LEMMA SureStays ==
  ASSUME CancelSure, CancelTrue, Ids' = Ids, cancel' = cancel \/ cancel' = NoCancel,
         \A j \in Ids : /\ rows'[j].status = "PENDING" => rows[j].status = "PENDING"
                        /\ broker[j].st = "dead" => broker'[j].st = "dead"
  PROVE  CancelSure'
<1>1. CASE cancel' = cancel
      BY <1>1 DEF CancelSure, CancelTrue, Pending
<1>2. CASE cancel' = NoCancel
      BY <1>2 DEF CancelSure, NoCancel
<1>3. QED BY <1>1, <1>2

(* What IBKR does to a cancel, or to the order, that sells nothing.         *)
LEMMA MarketBacked ==
  ASSUME BookInv, BookInv', CancelTrue, Careful, Backed, NEW i \in Ids,
         Accepts(i) \/ Dies(i) \/ Obeys(i) \/ (\E why \in Refusals : Refuses(i, why))
  PROVE  Backed'
<1>1. /\ rows[i] \in RowT /\ broker[i] \in BrokerT /\ handle[i] \in HandleT
      /\ Sober(rows[i], broker[i], handle[i])
      BY Unchanged DEF Backed
<1>2. UNCHANGED <<rows, handle, left, held, boot, tasks, cancel>>
      BY DEF Accepts, Dies, Obeys, Refuses, books
<1>3. PICK st \in {"working", "dead"} :
        broker' = [broker EXCEPT ![i].st = st] /\ broker[i].st \in {"sent", "working"}
      BY DEF Accepts, Dies, Obeys, Refuses, Working, Careful
<1>4. broker \in [Ids -> BrokerT]
      BY SheetsRead DEF BookInv
<1>5. \A j \in Ids : /\ broker'[j].sold = broker[j].sold
                     /\ broker'[j].st = IF j = i THEN st ELSE broker[j].st
      BY <1>3, <1>4 DEF BrokerT
<1>6. Ids' = Ids
      BY <1>2 DEF Ids
<1>7. \A j \in Ids : Sober(rows'[j], broker'[j], handle'[j])
      BY <1>1, <1>2, <1>3, <1>5 DEF Backed, Sober, Refusals
<1>8. Covered' /\ CancelSure'
      BY <1>2, <1>3, <1>5, <1>6, CoverStays, SureStays DEF Backed
<1>9. Watched'
      BY <1>2 DEF Backed, Watched
<1>10. QED BY <1>2, <1>7, <1>8, <1>9, WorkStays

(* The order at work sells, all at once. *)
LEMMA SellsBacked ==
  ASSUME BookInv, BookInv', CancelTrue, Careful, Backed, NEW i \in Ids, NEW n \in 1..Total, Sells(i, n)
  PROVE  Backed'
<1> DEFINE sold == broker[i].sold + n
           mine == [broker[i] EXCEPT !.sold = sold, !.st = IF sold = rows[i].qty THEN "filled" ELSE @]
<1>1. \A j \in Ids : /\ rows[j] \in RowT /\ broker[j] \in BrokerT
                     /\ Fine(rows[j], broker[j], handle[j]) /\ Sober(rows[j], broker[j], handle[j])
      BY Unchanged DEF Backed
<1>2. /\ UNCHANGED <<rows, handle, left, boot, tasks, cancel>> /\ broker[i].st = "working" /\ held' = held - n
      /\ sold = rows[i].qty
      BY DEF Sells, Careful
<1>3. broker[i].sold = 0 /\ n \in Nat /\ n = rows[i].qty
  <2>1. broker[i].sold = 0
        BY <1>1, <1>2 DEF Sober
  <2>2. n \in Nat
        BY IbkrAssumption
  <2>3. QED BY <1>2, <2>1, <2>2
<1>4. mine.st = "filled" /\ mine.sold = n
      BY <1>1, <1>2, <1>3 DEF BrokerT
<1>5. broker'[i] = mine /\ \A j \in Ids : j # i => broker'[j] = broker[j]
  <2>1. \A j \in Ids : {rows[i].role, rows[j].role} # {"TP", "SL"}
        BY <1>1 DEF Sober
  <2>2. QED BY <2>1 DEF Sells
<1> HIDE DEF mine
<1>6. Pending(i)
      BY <1>1, <1>2 DEF Fine, Sober, Pending, RowT
<1>7. Ids' = Ids
      BY <1>2 DEF Ids
<1>8. \A j \in Ids : Sober(rows'[j], broker'[j], handle'[j])
      BY <1>1, <1>2, <1>4, <1>5 DEF Sober, Refusals
<1>9. Covered'
  <2>1. \A j \in Ids : Pending(j) => j = i
        BY <1>6 DEF Backed, OneAtWork
  <2>2. rows[i].qty = left /\ held = left - 0 /\ held \in Int
        BY <1>3, <1>6 DEF Backed, Covered
  <2>3. held' = left - n /\ held' \in Int
        BY <1>2, <1>3, <2>2
  <2>4. QED BY <1>2, <1>3, <1>4, <1>5, <1>6, <1>7, <2>1, <2>2, <2>3 DEF Covered, Pending
<1>10. CancelSure'
       BY <1>2, <1>5, <1>7, SureStays DEF Backed
<1>11. Watched'
       BY <1>2 DEF Backed, Watched
<1>12. QED BY <1>2, <1>8, <1>9, <1>10, <1>11, WorkStays

LEMMA WatchedLess ==
  ASSUME Watched, Sheets, NEW i \in Ids, NEW t, tasks' = [tasks EXCEPT ![i] = @ \ {t}], Len(rows') = Len(rows)
  PROVE  Watched'
<1>1. Ids = 1..Len(tasks) /\ tasks \in Seq(SUBSET {"placed", "resumed"})
      BY SheetsRead DEF Watched
<1>2. tasks[i] \in SUBSET {"placed", "resumed"}
      BY <1>1, ElementOfSeq
<1>3. tasks[i] \ {t} \in SUBSET {"placed", "resumed"}
      BY <1>2
<1>4. PICK T \in SUBSET {"placed", "resumed"} : T = tasks[i] \ {t}
      BY <1>3
<1>5. tasks' = [tasks EXCEPT ![i] = T]
      BY <1>4
<1>6. tasks' \in Seq(SUBSET {"placed", "resumed"}) /\ Len(tasks') = Len(tasks)
      BY <1>1, <1>4, <1>5, ExceptSeq
<1>7. QED BY <1>6 DEF Watched

(* A task books the fill of its order, or the order's end. *)
LEMMA LooksBacked ==
  ASSUME BookInv, BookInv', CancelTrue, Careful, Backed, NEW i \in Ids, NEW t, Looks(i, t)
  PROVE  Backed'
<1>1. /\ rows[i] \in RowT /\ broker[i] \in BrokerT /\ handle[i] \in HandleT
      /\ Fine(rows[i], broker[i], handle[i]) /\ Sober(rows[i], broker[i], handle[i])
      BY Unchanged DEF Backed
<1>2. View(i).st \notin Refusals
      BY <1>1 DEF View, Sober
<1>3. /\ Sheets /\ Ids = 1..Len(rows) /\ rows \in Seq(RowT) /\ handle \in Seq(HandleT) /\ left \in Nat
      /\ Len(handle) = Len(rows)
      BY SheetsRead DEF BookInv, Sheets
<1>4. NoHandle.st \notin Refusals /\ LiveHandle.st \notin Refusals /\ LiveHandle.at = "live"
      BY DEF NoHandle, LiveHandle, Refusals
<1>5. CASE Books(i, t)
  <2> DEFINE sold == View(i).sold
             r == [rows[i] EXCEPT !.status = "FILLED", !.filled = sold,
                                  !.by = IF rows[i].by = "none" THEN "known" ELSE rows[i].by]
  <2>1. broker[i].st = "filled" /\ sold = broker[i].sold /\ sold \in Nat \ {0}
        BY <1>5, ViewTrue DEF Books
  <2>2. t # "blind"
    <3>1. t \in tasks[i] /\ tasks[i] \in SUBSET {"placed", "resumed"}
          BY <1>3, ElementOfSeq DEF Looks, Backed, Watched
    <3>2. QED BY <3>1
  <2>3. rows' = [rows EXCEPT ![i] = r] /\ left' = Larger(0, left - Newly(i, sold))
    <3>1. rows' = Booked(i, sold, "known")
          BY <1>5, <2>2 DEF Books
    <3>2. rows' = [rows EXCEPT ![i] = r]
          BY ONLY <3>1 DEF Booked
    <3>3. QED BY <1>5, <2>2, <3>2 DEF Books
  <2>4. /\ UNCHANGED <<broker, held, boot, cancel>> /\ handle' = [handle EXCEPT ![i] = NoHandle]
        /\ tasks' = [tasks EXCEPT ![i] = @ \ {t}]
        BY <1>5 DEF Books, Leaves
  <2> HIDE DEF sold
  <2>5. /\ r \in RowT /\ r.role = "exit" /\ r.status = "FILLED" /\ r.qty = rows[i].qty /\ r.by = "known"
    <3>1. rows[i].by \in {"none", "known"}
          BY <1>1, <2>1 DEF Sober, Fine, RowT
    <3>2. CASE rows[i].by = "none"
          BY <1>1, <2>1, <3>2 DEF RowT, Sober
    <3>3. CASE rows[i].by = "known"
          BY <1>1, <2>1, <3>3 DEF RowT, Sober
    <3>4. QED BY <3>1, <3>2, <3>3
  <2> HIDE DEF r
  <2>6. /\ Len(rows') = Len(rows)
        /\ \A j \in Ids : /\ rows'[j] = IF j = i THEN r ELSE rows[j]
                          /\ handle'[j] = IF j = i THEN NoHandle ELSE handle[j]
        BY <1>3, <2>3, <2>4, <2>5, HandleKinds, ExceptSeq
  <2>7. Ids' = Ids
        BY <2>6, IdsRead
  <2>8. \A j \in Ids : Sober(rows'[j], broker'[j], handle'[j])
        BY <1>1, <1>4, <2>1, <2>4, <2>5, <2>6 DEF Sober, Backed
  <2>9. Covered'
    <3>1. CASE Pending(i)
      <4>1. rows[i].by = "none" /\ rows[i].filled = 0
            BY <1>1, <3>1 DEF Fine, Pending
      <4>2. rows[i].qty = left /\ held = left - broker[i].sold /\ sold = left
            BY <1>1, <2>1, <3>1 DEF Backed, Covered, Fine
      <4>3. held = 0 /\ left' = 0
        <5>1. Newly(i, sold) = left
              BY <1>3, <4>1, <4>2 DEF Newly, Larger
        <5>2. left - left = 0
              BY <1>3
        <5>3. QED BY <2>1, <2>3, <4>2, <5>1, <5>2 DEF Larger
      <4>4. \A j \in Ids : rows'[j].status # "PENDING"
            BY <2>5, <2>6, <3>1 DEF Backed, OneAtWork, Pending
      <4>5. QED BY <2>4, <2>7, <4>3, <4>4 DEF Covered, Pending
    <3>2. CASE ~Pending(i)
      <4>1. rows[i].filled = sold
            BY <1>1, <2>1, <3>2 DEF Sober, Fine, Pending
      <4>2. left' = left
        <5>1. Newly(i, sold) = 0
              BY <2>1, <4>1 DEF Newly, Larger
        <5>2. QED BY <1>3, <2>3, <5>1, LargerNat
      <4>3. \A j \in Ids : rows'[j].status = "PENDING" <=> rows[j].status = "PENDING"
            BY <2>5, <2>6, <3>2 DEF Pending
      <4>4. \A j \in Ids : rows'[j].qty = rows[j].qty
            BY <2>5, <2>6
      <4>5. QED BY <2>4, <2>7, <4>2, <4>3, <4>4 DEF Covered, Pending, Backed
    <3>3. QED BY <3>1, <3>2
  <2>10. \A j \in Ids : rows'[j].status = "PENDING" => rows[j].status = "PENDING"
         BY <2>5, <2>6
  <2>11. CancelSure'
         BY <2>4, <2>7, <2>10, SureStays DEF Backed
  <2>12. Watched'
         BY <1>3, <2>4, <2>6, WatchedLess DEF Backed
  <2>13. QED BY <2>4, <2>6, <2>8, <2>9, <2>10, <2>11, <2>12, WorkStays
<1>6. CASE Ends(i, t)
  <2> DEFINE c == [rows[i] EXCEPT !.status = "CANCELLED"]
  <2>1. broker[i].st = "dead" /\ broker[i].sold = 0
        BY <1>1, <1>2, <1>6, ViewTrue DEF Ends, Sober
  <2>2. c \in RowT /\ c.status = "CANCELLED" /\ c.qty = rows[i].qty /\ c.role = rows[i].role
        BY <1>1 DEF RowT
  <2>3. /\ rows' = [rows EXCEPT ![i] = c] /\ handle' = [handle EXCEPT ![i] = NoHandle]
        /\ tasks' = [tasks EXCEPT ![i] = @ \ {t}] /\ UNCHANGED <<broker, left, held, boot, cancel>>
        BY <1>6 DEF Ends, Leaves, books
  <2> HIDE DEF c
  <2>4. /\ Len(rows') = Len(rows)
        /\ \A j \in Ids : /\ rows'[j] = IF j = i THEN c ELSE rows[j]
                          /\ handle'[j] = IF j = i THEN NoHandle ELSE handle[j]
        BY <1>3, <2>2, <2>3, HandleKinds, ExceptSeq
  <2>5. Ids' = Ids
        BY <2>4, IdsRead
  <2>6. \A j \in Ids : Sober(rows'[j], broker'[j], handle'[j])
        BY <1>1, <1>4, <2>1, <2>2, <2>3, <2>4 DEF Sober, Backed
  <2>7. Covered'
    <3>1. \A j \in Ids : rows'[j].qty = rows[j].qty /\ (j # i => rows'[j].status = rows[j].status)
          BY <2>2, <2>4
    <3>2. rows'[i].status # "PENDING"
          BY <2>2, <2>4
    <3>3. QED BY <1>3, <2>1, <2>3, <2>5, <3>1, <3>2, CoverEnds DEF Backed
  <2>8. \A j \in Ids : rows'[j].status = "PENDING" => rows[j].status = "PENDING"
        BY <2>2, <2>4
  <2>9. CancelSure'
        BY <2>3, <2>5, <2>8, SureStays DEF Backed
  <2>10. Watched'
        BY <1>3, <2>3, <2>4, WatchedLess DEF Backed
  <2>11. QED BY <2>3, <2>4, <2>6, <2>7, <2>8, <2>9, <2>10, WorkStays
<1>7. CASE Recovers(i, t)
  <2>1. UNCHANGED <<rows, broker, left, held, boot, cancel, tasks>> /\ handle' = [handle EXCEPT ![i] = LiveHandle]
        BY <1>7 DEF Recovers, books
  <2>2. Ids' = Ids
        BY <2>1 DEF Ids
  <2>3. \A j \in Ids : Sober(rows'[j], broker'[j], handle'[j])
    <3>1. \A j \in Ids : handle'[j] = IF j = i THEN LiveHandle ELSE handle[j]
          BY <1>3, <2>1, HandleKinds, ExceptSeq
    <3>2. QED BY <1>1, <1>4, <2>1, <3>1 DEF Sober, Backed
  <2>4. Covered' /\ CancelSure'
        BY <2>1, <2>2, CoverStays, SureStays DEF Backed
  <2>5. Watched'
        BY <2>1 DEF Backed, Watched
  <2>6. QED BY <2>1, <2>3, <2>4, <2>5, WorkStays
<1>8. ~Replaces(i, t)
      BY <1>2 DEF Replaces, Again, Refusals
<1>9. QED BY <1>5, <1>6, <1>7, <1>8 DEF Looks

LEMMA CancelsBacked ==
  ASSUME BookInv, BookInv', CancelTrue, Careful, Backed, NEW i \in Ids, Cancels(i)
  PROVE  Backed'
<1>1. /\ rows[i] \in RowT /\ broker[i] \in BrokerT /\ handle[i] \in HandleT
      /\ Fine(rows[i], broker[i], handle[i]) /\ Sober(rows[i], broker[i], handle[i])
      BY Unchanged DEF Backed
<1>2. UNCHANGED <<rows, handle, tasks, boot, left, held>> /\ broker' = [broker EXCEPT ![i].cancel = TRUE]
      BY DEF Cancels, books
<1>3. broker \in [Ids -> BrokerT]
      BY SheetsRead DEF BookInv
<1>4. \A j \in Ids : broker'[j].st = broker[j].st /\ broker'[j].sold = broker[j].sold
      BY <1>2, <1>3 DEF BrokerT
<1>5. Ids' = Ids
      BY <1>2 DEF Ids
<1>6. \A j \in Ids : Sober(rows'[j], broker'[j], handle'[j])
      BY <1>2, <1>4 DEF Backed, Sober
<1>7. Covered'
      BY <1>2, <1>4, <1>5, CoverStays DEF Backed
<1>8. CancelSure'
  <2>1. cancel' = [i |-> i, live |-> handle[i].at = "live", st |-> View(i).st, cleared |-> FALSE]
        BY DEF Cancels
  <2>2. /\ cancel'.i = i /\ ~cancel'.cleared /\ (~cancel'.live => handle[i].at # "live")
        /\ cancel'.st = View(i).st
        BY <2>1
  <2>3. \A j \in Ids : Pending(j)' => j = i
        BY <1>2 DEF Cancels, Backed, OneAtWork, Pending
  <2>4. View(i).st \notin Refusals /\ (View(i).st = "dead" => broker[i].st = "dead")
        BY <1>1, ViewTrue DEF View, Sober
  <2>5. QED BY <1>4, <1>5, <2>2, <2>3, <2>4 DEF CancelSure
<1>9. Watched'
      BY <1>2 DEF Backed, Watched
<1>10. QED BY <1>2, <1>6, <1>7, <1>8, <1>9, WorkStays

(* The window closes: the row is struck if its order is known to be dead,   *)
(* and left alone otherwise.                                                *)
LEMMA CancelEndsBacked ==
  ASSUME BookInv, BookInv', CancelTrue, Careful, Backed, CancelEnds
  PROVE  Backed'
<1>1. PICK i \in Ids : i = cancel.i /\ i # 0
      BY DEF CancelEnds, CancelTrue
<1>2. /\ rows[i] \in RowT /\ broker[i] \in BrokerT /\ handle[i] \in HandleT
      /\ Fine(rows[i], broker[i], handle[i]) /\ Sober(rows[i], broker[i], handle[i])
      BY Unchanged DEF Backed
<1>3. /\ Sheets /\ Ids = 1..Len(rows) /\ rows \in Seq(RowT) /\ handle \in Seq(HandleT) /\ left \in Nat
      /\ Len(handle) = Len(rows)
      BY SheetsRead DEF BookInv, Sheets
<1>4. UNCHANGED <<broker, tasks, boot, left, held>>
      BY DEF CancelEnds, books
<1>5. CASE UNCHANGED <<rows, handle>> /\ cancel' = NoCancel
  <2>1. Ids' = Ids
        BY <1>5 DEF Ids
  <2>2. Covered' /\ CancelSure'
        BY <1>4, <1>5, <2>1, CoverStays, SureStays DEF Backed
  <2>3. Watched' /\ \A j \in Ids : Sober(rows'[j], broker'[j], handle'[j])
        BY <1>4, <1>5 DEF Backed, Watched
  <2>4. QED BY <1>4, <1>5, <2>2, <2>3, WorkStays
<1>6. CASE /\ broker[i].st = "dead" /\ cancel' = [NoCancel EXCEPT !.cleared = TRUE]
           /\ rows' = [rows EXCEPT ![i].status = "CANCELLED"] /\ handle' = [handle EXCEPT ![i] = NoHandle]
  <2> DEFINE c == [rows[i] EXCEPT !.status = "CANCELLED"]
  <2>1. c \in RowT /\ c.status = "CANCELLED" /\ c.qty = rows[i].qty /\ c.role = rows[i].role
        BY <1>2 DEF RowT
  <2>2. rows' = [rows EXCEPT ![i] = c]
        BY <1>6
  <2> HIDE DEF c
  <2>3. /\ Len(rows') = Len(rows)
        /\ \A j \in Ids : /\ rows'[j] = IF j = i THEN c ELSE rows[j]
                          /\ handle'[j] = IF j = i THEN NoHandle ELSE handle[j]
    <3>1. Len(rows') = Len(rows) /\ \A j \in Ids : rows'[j] = IF j = i THEN c ELSE rows[j]
          BY <1>3, <2>1, <2>2, ExceptSeq
    <3>2. \A j \in Ids : handle'[j] = IF j = i THEN NoHandle ELSE handle[j]
          BY <1>3, <1>6, HandleKinds, ExceptSeq
    <3>3. QED BY <3>1, <3>2
  <2>4. Ids' = Ids
        BY <2>3, IdsRead
  <2>5. \A j \in Ids : Sober(rows'[j], broker'[j], handle'[j])
        BY <1>2, <1>4, <1>6, <2>1, <2>3 DEF Sober, Backed, NoHandle, Refusals
  <2>6. Covered'
    <3>1. \A j \in Ids : rows'[j].qty = rows[j].qty /\ (j # i => rows'[j].status = rows[j].status)
          BY <2>1, <2>3
    <3>2. rows'[i].status # "PENDING" /\ broker[i].sold = 0
          BY <1>2, <1>6, <2>1, <2>3 DEF Sober
    <3>3. QED BY <1>3, <1>4, <2>4, <3>1, <3>2, CoverEnds DEF Backed
  <2>7. \A j \in Ids : rows'[j].status # "PENDING"
        BY <1>1, <2>1, <2>3 DEF Backed, CancelSure, Pending
  <2>8. CancelSure'
        BY <1>6, <2>4, <2>7, CancelKinds DEF CancelSure, Pending
  <2>9. Watched'
        BY <1>4, <2>3 DEF Backed, Watched
  <2>10. QED BY <1>4, <2>3, <2>5, <2>6, <2>7, <2>8, <2>9, WorkStays
<1> DEFINE st == IF cancel.live THEN broker[i].st ELSE cancel.st
<1>7. CASE Believed(st) /\ rows[i].status # "FILLED"
  <2>1. Strikes(i)
        BY <1>1, <1>7 DEF CancelEnds
  <2>2. st \notin Refusals /\ (st = "dead" => broker[i].st = "dead")
        BY <1>1, <1>2 DEF Backed, CancelSure, Sober
  <2>3. broker[i].st = "dead"
        BY <1>7, <2>2 DEF Believed, Over, Careful
  <2>4. QED BY <1>6, <1>7, <2>1, <2>3 DEF Strikes
<1>8. CASE ~(Believed(st) /\ rows[i].status # "FILLED")
      BY <1>1, <1>5, <1>8 DEF CancelEnds, Strikes
<1>9. QED BY <1>7, <1>8

(* The replacement is for all that is left, and nothing else is at work. *)
LEMMA PlacesBacked ==
  ASSUME BookInv, BookInv', CancelTrue, Careful, Backed, Places
  PROVE  Backed'
<1> DEFINE r == Row("exit", left)
<1>1. Sheets /\ Ids = 1..Len(rows) /\ Len(rows) \in Nat /\ left \in Nat /\ rows \in Seq(RowT)
      /\ Ids' = 1..Len(rows')
      BY SheetsRead, LenProperties DEF BookInv, Sheets, Ids
<1>2. /\ r \in RowT /\ r.role = "exit" /\ r.status = "PENDING" /\ r.qty = left /\ UNCHANGED <<left, held, boot>>
      BY <1>1 DEF Row, RowT, Places, books
<1>3. /\ rows' = Append(rows, r) /\ broker' = Append(broker, Sent) /\ handle' = Append(handle, LiveHandle)
      /\ tasks' = Append(tasks, {"placed"}) /\ cancel' = NoCancel
      BY DEF Places
<1>4. \A i \in Ids : rows[i].status # "PENDING"
      BY DEF Places, Backed, CancelSure, Pending
<1> HIDE DEF r
<1>5. Len(rows') = Len(rows) + 1 /\ rows'[Len(rows) + 1] = r /\ \A j \in Ids : rows'[j] = rows[j]
      BY <1>1, <1>2, <1>3, AppendProperties
<1>6. broker'[Len(rows) + 1] = Sent /\ \A j \in Ids : broker'[j] = broker[j]
      BY <1>1, <1>3, HandleKinds, AppendProperties DEF Sheets
<1>7. handle'[Len(rows) + 1] = LiveHandle /\ \A j \in Ids : handle'[j] = handle[j]
      BY <1>1, <1>3, HandleKinds, AppendProperties DEF Sheets
<1>8. Ids' = Ids \cup {Len(rows) + 1}
      BY <1>1, <1>5
<1>9. Watched'
  <2>1. {"placed"} \in SUBSET {"placed", "resumed"}
        OBVIOUS
  <2>2. tasks \in Seq(SUBSET {"placed", "resumed"}) /\ Len(tasks) = Len(rows)
        BY DEF Backed, Watched
  <2>3. tasks' \in Seq(SUBSET {"placed", "resumed"}) /\ Len(tasks') = Len(tasks) + 1
        BY <1>3, <2>1, <2>2, AppendProperties
  <2>4. QED BY <1>5, <2>2, <2>3 DEF Watched
<1>10. Sober(r, Sent, LiveHandle)
       BY <1>2 DEF Sober, Sent, LiveHandle, NoHandle, Refusals
<1>11. \A j \in Ids' : Sober(rows'[j], broker'[j], handle'[j])
       BY <1>5, <1>6, <1>7, <1>8, <1>10 DEF Backed
<1>12. \A j \in Ids' : rows'[j].status = "PENDING" <=> j = Len(rows) + 1
       BY <1>1, <1>2, <1>4, <1>5, <1>8
<1>13. OneAtWork'
       BY <1>12 DEF OneAtWork, Pending
<1>14. Covered'
  <2>1. held = left
        BY <1>4 DEF Backed, Covered, Pending
  <2>2. Sent.sold = 0 /\ left - 0 = left
        BY <1>1 DEF Sent
  <2>3. QED BY <1>1, <1>2, <1>5, <1>6, <1>8, <1>12, <2>1, <2>2 DEF Covered, Pending
<1>15. CancelSure'
       BY <1>3 DEF CancelSure, NoCancel
<1>16. QED BY <1>2, <1>9, <1>11, <1>13, <1>14, <1>15 DEF Backed

(* The session drops: what is at work stays at work, its handle stale. *)
LEMMA DropsBacked ==
  ASSUME BookInv, BookInv', CancelTrue, Careful, Backed, Drops
  PROVE  Backed'
<1>1. \A j \in Ids : /\ rows[j] \in RowT /\ broker[j] \in BrokerT /\ handle[j] \in HandleT
                     /\ Sober(rows[j], broker[j], handle[j])
      BY Unchanged DEF Backed
<1>2. UNCHANGED <<rows, left, held, boot, tasks>>
      BY DEF Drops, books
<1>3. Ids' = Ids
      BY <1>2 DEF Ids
<1>4. ASSUME NEW j \in Ids
      PROVE  broker'[j].st = broker[j].st /\ broker'[j].sold = broker[j].sold
  <2> DEFINE idle(k) == [broker[k] EXCEPT !.cancel = FALSE]
  <2>1. Forgotten[j] = broker[j]
        BY <1>1 DEF Forgotten, Sober
  <2>2. idle(j).st = broker[j].st /\ idle(j).sold = broker[j].sold
        BY <1>1 DEF BrokerT
  <2>3. PICK lost : broker' = [k \in Ids |-> IF k \in lost THEN idle(k) ELSE Forgotten[k]]
        BY DEF Drops
  <2> HIDE DEF idle
  <2>4. QED BY <2>1, <2>2, <2>3
<1>5. ASSUME NEW j \in Ids
      PROVE  /\ handle'[j].at \in {handle[j].at, "stale"} /\ handle'[j].st \in {handle[j].st, broker[j].st}
  <2>1. CASE handle[j].at = "live"
    <3>1. handle'[j] = [at |-> "stale", st |-> broker[j].st, sold |-> broker[j].sold]
          BY <2>1 DEF Drops
    <3>2. QED BY <3>1
  <2>2. CASE handle[j].at # "live"
        BY <2>2 DEF Drops
  <2>3. QED BY <2>1, <2>2
<1>6. \A j \in Ids : Sober(rows'[j], broker'[j], handle'[j])
      BY <1>1, <1>2, <1>4, <1>5 DEF Sober
<1>7. Covered'
      BY <1>2, <1>3, <1>4, CoverStays DEF Backed
<1>8. CancelSure'
  <2>1. CASE cancel.live
    <3> DEFINE c == [cancel EXCEPT !.live = FALSE, !.st = broker[cancel.i].st]
    <3>1. cancel \in CancelT /\ cancel.i \in Ids
          BY <2>1 DEF CancelTrue
    <3>2. c.i = cancel.i /\ c.st = broker[cancel.i].st /\ c.cleared = cancel.cleared
          BY <3>1 DEF CancelT
    <3>3. cancel' = c
          BY <2>1 DEF Drops
    <3> HIDE DEF c
    <3>4. broker[cancel.i].st \notin Refusals /\ broker'[cancel.i].st = broker[cancel.i].st
          BY <1>1, <1>4, <3>1 DEF Sober
    <3>5. QED BY <1>2, <1>3, <3>2, <3>3, <3>4 DEF CancelSure, Backed, Pending
  <2>2. CASE ~cancel.live
        BY <1>2, <1>3, <1>4, <2>2, SureStays DEF Backed, Drops
  <2>3. QED BY <2>1, <2>2
<1>9. Watched'
      BY <1>2 DEF Backed, Watched
<1>10. QED BY <1>2, <1>6, <1>7, <1>8, <1>9, WorkStays

(* The hook has nothing to book: an order at work has its handle. *)
LEMMA ResumesBacked ==
  ASSUME BookInv, BookInv', CancelTrue, Careful, Backed, Resumes
  PROVE  Backed'
<1>1. \A j \in Ids : /\ rows[j] \in RowT /\ broker[j] \in BrokerT /\ handle[j] \in HandleT
                     /\ Sober(rows[j], broker[j], handle[j])
      BY Unchanged DEF Backed
<1>2. /\ Sheets /\ Ids = 1..Len(rows) /\ Len(rows) \in Nat /\ left \in Nat
      /\ DOMAIN rows = Ids /\ DOMAIN broker = Ids /\ DOMAIN handle = Ids /\ DOMAIN tasks = Ids
      BY SheetsRead, LenProperties DEF BookInv, Backed, Watched, Sheets
<1>3. \A i \in Ids : ~(Pending(i) /\ handle[i].at = "none")
      BY <1>1 DEF Sober, Pending
<1>4. PICK lost : lost = {i \in Ids : Pending(i) /\ handle[i].at = "none"} /\ lost = {}
      BY <1>3
<1>5. UNCHANGED <<held, boot, cancel>>
      BY DEF Resumes
<1>6. \/ UNCHANGED <<rows, broker, handle, tasks, left>>
      \/ /\ \A i \in Ids : rows'[i] = rows[i] /\ handle'[i] = handle[i] /\ tasks'[i] = tasks[i]
         /\ DOMAIN rows' = Ids /\ DOMAIN tasks' = Ids /\ DOMAIN handle' = Ids
         /\ left' = Larger(0, left - TakenOff({}))
         /\ broker' = [i \in Ids |-> Reissued(broker[i], i)]
      BY <1>3 DEF Resumes
<1>7. left' = left
  <2>1. TakenOff({}) = Cardinality({})
        BY DEF TakenOff
  <2>2. Cardinality({}) = 0
        BY FS_EmptySet
  <2>3. left - 0 = left
        BY <1>2
  <2>4. QED BY <1>2, <1>6, <2>1, <2>2, <2>3 DEF Larger
<1>8. \A i \in Ids : broker'[i].st = broker[i].st /\ broker'[i].sold = broker[i].sold
  <2>1. ASSUME NEW i \in Ids PROVE /\ Reissued(broker[i], i).st = broker[i].st
                                   /\ Reissued(broker[i], i).sold = broker[i].sold
        BY <1>1 DEF Reissued, BrokerT
  <2>2. QED BY <1>6, <2>1
<1>9. Len(rows') = Len(rows) /\ Ids' = Ids
  <2>1. Sheets'
        BY DEF BookInv
  <2>2. Len(rows') = Len(rows)
        BY <1>2, <1>6, <2>1, LenProperties DEF Sheets
  <2>3. QED BY <2>2, IdsRead
<1>10. \A j \in Ids : Sober(rows'[j], broker'[j], handle'[j])
       BY <1>1, <1>6, <1>8 DEF Sober
<1>11. Covered' /\ CancelSure'
       BY <1>5, <1>6, <1>7, <1>8, <1>9, CoverStays, SureStays DEF Backed
<1>12. Watched'
  <2>1. CASE tasks' = tasks
        BY <1>9, <2>1 DEF Backed, Watched
  <2>2. CASE tasks' # tasks
    <3>1. tasks' = [i \in Ids |-> tasks[i]]
      <4>1. PICK live : /\ live = {i \in lost : Working(broker[i])}
                        /\ tasks' = [i \in Ids |-> IF i \in live THEN tasks[i] \cup {"resumed"} ELSE tasks[i]]
            BY <1>4, <2>2 DEF Resumes
      <4>2. live = {}
            BY <1>4, <4>1
      <4>3. QED BY <4>1, <4>2
    <3>2. tasks = [i \in Ids |-> tasks[i]]
          BY <1>2 DEF Backed, Watched
    <3>3. QED BY <2>2, <3>1, <3>2
  <2>3. QED BY <2>1, <2>2
<1>13. \A j \in Ids : rows'[j].status = "PENDING" => rows[j].status = "PENDING"
       BY <1>6
<1>14. QED BY <1>5, <1>9, <1>10, <1>11, <1>12, <1>13, WorkStays

LEMMA BackedInit ==
  ASSUME Init, Careful
  PROVE  Backed
<1>1. set.start = "exit" /\ rows = <<Row("exit", Total)>> /\ Ids = {1} /\ Len(rows) = 1 /\ Total \in Nat
  <2>1. set.start = "exit"
        BY DEF Careful
  <2>2. rows = <<Row("exit", Total)>>
        BY <2>1 DEF Init
  <2>3. QED BY <2>1, <2>2, IbkrAssumption DEF Ids
<1>2. /\ rows[1].role = "exit" /\ rows[1].status = "PENDING" /\ rows[1].qty = Total
      BY <1>1 DEF Row
<1>3. broker[1] = Sent /\ handle[1] = LiveHandle /\ tasks = [i \in Ids |-> {"placed"}]
      BY <1>1 DEF Init
<1>4. Watched
  <2>1. {"placed"} \in SUBSET {"placed", "resumed"} /\ Ids = 1..1
        BY <1>1
  <2>2. tasks \in [1..1 -> SUBSET {"placed", "resumed"}]
        BY <1>3, <2>1
  <2>3. tasks \in Seq(SUBSET {"placed", "resumed"}) /\ Len(tasks) = 1
        BY <2>2, MappedSeq
  <2>4. QED BY <1>1, <2>3 DEF Watched
<1>5. Sober(rows[1], broker[1], handle[1])
      BY <1>2, <1>3 DEF Sober, Sent, LiveHandle, NoHandle, Refusals
<1>6. Covered
  <2>1. left = Total /\ held = Total /\ Total - 0 = Total /\ Sent.sold = 0
        BY <1>1 DEF Init, Sent
  <2>2. QED BY <1>1, <1>2, <1>3, <2>1 DEF Covered, Pending
<1>7. CancelSure /\ OneAtWork /\ ~boot
      BY <1>1 DEF Init, CancelSure, NoCancel, OneAtWork
<1>8. QED BY <1>1, <1>4, <1>5, <1>6, <1>7 DEF Backed

LEMMA BackedNext ==
  ASSUME BookInv, BookInv', CancelTrue, Careful, Backed, [Next]_vars
  PROVE  Backed'
<1>1. CASE Connects \/ vars' = vars
  <2>1. UNCHANGED <<rows, broker, handle, tasks, cancel, boot, left, held>>
        BY <1>1 DEF Connects, vars, orders, books
  <2>2. Ids' = Ids
        BY <2>1 DEF Ids
  <2>3. Covered' /\ CancelSure'
        BY <2>1, <2>2, CoverStays, SureStays DEF Backed
  <2>4. Watched' /\ \A j \in Ids : Sober(rows'[j], broker'[j], handle'[j])
        BY <2>1 DEF Backed, Watched
  <2>5. QED BY <2>1, <2>3, <2>4, WorkStays
<1>2. CASE Market
      BY <1>2, MarketBacked, SellsBacked DEF Market
<1>3. ASSUME NEW i \in Ids, Obeys(i) PROVE Backed'
      BY <1>3, MarketBacked
<1>4. ASSUME NEW i \in Ids, NEW t \in AnyTask, Looks(i, t) PROVE Backed'
      BY <1>4, LooksBacked
<1>5. ASSUME NEW i \in Ids, Cancels(i) PROVE Backed'
      BY <1>5, CancelsBacked
<1>6. \A i \in Ids : ~CancelsLocally(i)
      BY DEF CancelsLocally, Careful, Backed, Sober, Pending
<1>7. ~Boots /\ ~Restarts /\ \A i \in Ids, t \in AnyTask : ~TimesOut(i, t)
      BY DEF Boots, Restarts, TimesOut, Tires, Careful, Backed
<1>8. QED BY <1>1, <1>2, <1>3, <1>4, <1>5, <1>6, <1>7, CancelEndsBacked, PlacesBacked, DropsBacked, ResumesBacked
          DEF Next

LEMMA BackedMeans ==
  ASSUME BookInv, Backed
  PROVE  held >= 0
<1>1. left \in Nat
      BY DEF BookInv, Sheets
<1>2. ASSUME NEW i \in Ids, Pending(i) PROVE held >= 0
  <2>1. /\ broker[i] \in BrokerT /\ Fine(rows[i], broker[i], handle[i]) /\ Sober(rows[i], broker[i], handle[i])
        BY Unchanged DEF Backed
  <2>2. rows[i].qty = left /\ held = left - broker[i].sold /\ broker[i].sold \in {0, left}
        BY <1>2, <2>1 DEF Backed, Covered, Fine, Sober
  <2>3. left - 0 = left /\ left - left = 0
        BY <1>1
  <2>4. QED BY <1>1, <2>2, <2>3
<1>3. CASE \A i \in Ids : ~Pending(i)
      BY <1>1, <1>3 DEF Backed, Covered
<1>4. QED BY <1>2, <1>3

LEMMA CarefulStays ==
  ASSUME [Next]_vars
  PROVE  Careful' <=> Careful
<1>1. set' = set
      BY DEF Next, Market, Accepts, Dies, Refuses, Sells, Obeys, Looks, Books, Replaces, Ends, Recovers, TimesOut,
             Cancels, CancelsLocally, CancelEnds, Places, Drops, Connects, Restarts, Boots, Resumes, vars
<1>2. QED BY <1>1 DEF Careful

(* At IBKR no more is sold than is held, when each cancel waits for the     *)
(* broker's word: an exit that is replaced is dead, though the session      *)
(* drops under the cancel and the handles go stale.                         *)
THEOREM IbkrNeverShort == VenuesSpec => []NeverShort
<1> DEFINE Inv == BookInv /\ CancelTrue /\ (Careful => Backed)
<1>1. VenuesInit => Inv
      BY BookInit, BackedInit DEF VenuesInit
<1>2. Inv /\ [VenuesNext]_venues => Inv'
  <2>1. SUFFICES ASSUME Inv, [VenuesNext]_venues PROVE Inv'
        OBVIOUS
  <2>2. [Next]_vars
        BY <2>1, IbkrMoves
  <2>3. BookInv' /\ CancelTrue'
        BY <2>1, <2>2, BookNext, CancelStays
  <2>4. ASSUME Careful' PROVE Backed'
        BY <2>1, <2>2, <2>3, <2>4, CarefulStays, BackedNext
  <2>5. QED BY <2>3, <2>4
<1>3. Inv => NeverShort
      BY BackedMeans DEF NeverShort
<1> HIDE DEF Inv
<1>4. QED BY <1>1, <1>2, <1>3, PTL DEF VenuesSpec

-----------------------------------------------------------------------------
(* Tradier and Lime: every fill is taken off the position once *)

(* No bracket that fills by parts meets a restart.  (The watch books the    *)
(* part a leg has sold when it looks; a task resumed blind of the position  *)
(* marks the row with the whole quantity later.)                            *)
WholeIn(w) == ~(w.start = "whale" /\ w.parts /\ w.restarts)
WholeLegs == \A w \in SomeWays : WholeIn(w)

(* A row, its order and the last frame of it, at a broker of the ways w.    *)
Honest(w, r, p, nw) ==
  /\ p.st = "filled" => p.sold = r.qty
  /\ ~w.parts => p.st = "filled" \/ p.sold = 0
  /\ nw.st = "filled" => p.st = "filled" /\ nw.sold = r.qty
  /\ r.by = "none" => r.filled = 0
  /\ r.by # "none" => r.status # "PENDING" /\ (r.filled = r.qty \/ (r.role # "exit" /\ w.parts))
  /\ r.role # "exit" => w.start = "whale"

PollT == SUBSET {"placed", "blind", "oco"}
PollsKept ==
  /\ polls \in Seq(PollT) /\ Len(polls) = Len(legs)
  /\ \A i \in Rest!Orders : /\ legs[i].role # "exit" => "placed" \notin polls[i]
                            /\ ~way.restarts => "blind" \notin polls[i]
  /\ ~way.restarts => due = {}

(* Of the legs of a bracket one is sold. *)
LegsApart ==
  \A i, j \in Rest!Orders :
    i # j /\ legs[i].role # "exit" /\ legs[j].role # "exit" /\ paper[i].st = "filled" => paper[j].st = "dead"

RowsHonest ==
  /\ \A i \in Rest!Orders : Honest(way, legs[i], paper[i], news[i])
  /\ LegsApart
  /\ owed = Rest!AtLeast0(Total - Cardinality(Rest!Taken))

(* Only the status of a row may have changed, and only to an end. *)
Tidied(r, s) ==
  /\ s.role = r.role /\ s.qty = r.qty /\ s.filled = r.filled /\ s.by = r.by
  /\ s.status = "PENDING" => r.status = "PENDING"

(* The last frame is the one before, or of what the order is. *)
NewsFrom(nw, p, nw2) ==
  nw2.st = "filled" => \/ nw.st = "filled" /\ nw2.sold = nw.sold
                       \/ p.st = "filled" /\ nw2.sold = p.sold

LEMMA TidyHonest ==
  ASSUME NEW w, NEW r, NEW p, NEW nw, NEW s, NEW nw2, Honest(w, r, p, nw), Tidied(r, s), NewsFrom(nw, p, nw2)
  PROVE  Honest(w, s, p, nw2)
BY DEF Honest, Tidied, NewsFrom

LEMMA OrdersRead ==
  ASSUME TruthInv, TruthInv', Len(legs') = Len(legs)
  PROVE  Rest!Orders' = Rest!Orders
BY LenProperties DEF TruthInv, Shapes, Rest!Orders

Counting(r) == {j \in DOMAIN r : r[j].by \in {"placed", "oco"}}

LEMMA CountIs ==
  /\ Rest!Taken = Slices(Fills(legs), Counting(legs))
  /\ Rest!Taken' = Slices(Fills(legs'), Counting(legs'))
BY DEF Rest!Taken, Slices, Fills, Counting, Rest!Orders

LEMMA CountSame ==
  ASSUME Rest!Orders' = Rest!Orders,
         \A j \in Rest!Orders : legs'[j].by = legs[j].by /\ legs'[j].filled = legs[j].filled
  PROVE  Rest!Taken' = Rest!Taken
<1>1. Counting(legs') = Counting(legs) /\ \A j \in Counting(legs) : Fills(legs')[j] = Fills(legs)[j]
      BY DEF Counting, Fills, Rest!Orders
<1>2. QED BY <1>1, SlicesSame, CountIs

LEMMA CountNat ==
  ASSUME Shapes
  PROVE  /\ Cardinality(Rest!Taken) \in Nat /\ IsFiniteSet(Counting(legs)) /\ Counting(legs) \subseteq Rest!Orders
         /\ \A j \in Rest!Orders : Fills(legs)[j] = legs[j].filled /\ legs[j].filled \in Nat
<1>1. Rest!Orders = 1..Len(legs) /\ Len(legs) \in Nat /\ \A j \in Rest!Orders : legs[j] \in LegT
      BY Domains
<1>2. Counting(legs) \subseteq Rest!Orders /\ IsFiniteSet(Rest!Orders)
      BY <1>1, FS_Interval DEF Counting, Rest!Orders
<1>3. IsFiniteSet(Counting(legs))
      BY <1>2, FS_Subset
<1>4. \A j \in Rest!Orders : Fills(legs)[j] = legs[j].filled /\ legs[j].filled \in Nat
      BY <1>1 DEF Fills, LegT, Rest!Orders
<1>5. \A j \in Counting(legs) : Fills(legs)[j] \in Nat
      BY <1>2, <1>4
<1>6. QED BY <1>2, <1>3, <1>4, <1>5, CountIs, SlicesFinite

LEMMA HonestStays ==
  ASSUME TruthInv, TruthInv', RowsHonest, Len(legs') = Len(legs), UNCHANGED <<way, owed>>,
         \A j \in Rest!Orders : /\ Honest(way, legs'[j], paper'[j], news'[j])
                                /\ legs'[j].by = legs[j].by /\ legs'[j].filled = legs[j].filled,
         LegsApart'
  PROVE  RowsHonest'
<1>1. Rest!Orders' = Rest!Orders
      BY OrdersRead
<1>2. Rest!Taken' = Rest!Taken
      BY <1>1, CountSame
<1>3. QED BY <1>1, <1>2 DEF RowsHonest

LEMMA Tidies ==
  ASSUME TruthInv, TruthInv', RowsHonest, Len(legs') = Len(legs), UNCHANGED <<way, owed, paper>>,
         \A j \in Rest!Orders : Tidied(legs[j], legs'[j]) /\ NewsFrom(news[j], paper[j], news'[j])
  PROVE  RowsHonest'
<1>1. \A j \in Rest!Orders : Honest(way, legs'[j], paper'[j], news'[j])
      BY TidyHonest DEF RowsHonest
<1>2. \A j \in Rest!Orders : legs'[j].by = legs[j].by /\ legs'[j].filled = legs[j].filled
      BY DEF Tidied
<1>3. LegsApart'
      BY OrdersRead DEF RowsHonest, LegsApart, Tidied
<1>4. QED BY <1>1, <1>2, <1>3, HonestStays

(* The row of one order ends. *)
LEMMA StatusTidy ==
  ASSUME Shapes, NEW i \in Rest!Orders, NEW st \in {"FILLED", "CANCELLED", "ERROR"},
         legs' = [legs EXCEPT ![i].status = st]
  PROVE  /\ Len(legs') = Len(legs) /\ legs'[i].status = st
         /\ \A j \in Rest!Orders : Tidied(legs[j], legs'[j]) /\ (j # i => legs'[j] = legs[j])
<1> DEFINE r == [legs[i] EXCEPT !.status = st]
<1>1. Rest!Orders = 1..Len(legs) /\ legs \in Seq(LegT) /\ legs[i] \in LegT
      BY Domains DEF Shapes
<1>2. r \in LegT /\ Tidied(legs[i], r) /\ r.status = st
      BY <1>1 DEF LegT, Tidied
<1>3. legs' = [legs EXCEPT ![i] = r]
      BY <1>1
<1> HIDE DEF r
<1>4. Len(legs') = Len(legs) /\ \A j \in Rest!Orders : legs'[j] = IF j = i THEN r ELSE legs[j]
      BY <1>1, <1>2, <1>3, ExceptSeq
<1>5. QED BY <1>2, <1>4 DEF Tidied

(* Steps of the news. *)
LEMMA NewsHonest ==
  ASSUME TruthInv, TruthInv', RowsHonest,
         \/ \E i \in Rest!Orders : Rest!Frames(i) \/ \E t \in Rest!Tasks : Rest!Waits(i, t)
         \/ Rest!Drops \/ Rest!Restarts
  PROVE  RowsHonest'
<1>1. /\ Rest!Orders = 1..Len(news) /\ news \in Seq(NewsT)
      /\ \A j \in Rest!Orders : news[j] \in NewsT /\ paper[j] \in PaperT
      BY Domains DEF TruthInv, Shapes
<1>2. UNCHANGED <<way, legs, paper, owed>>
      BY DEF Rest!Frames, Rest!Waits, Rest!Drops, Rest!Restarts
<1>3. ASSUME NEW i \in Rest!Orders, Rest!Frames(i), NEW j \in Rest!Orders PROVE NewsFrom(news[j], paper[j], news'[j])
  <2>1. Rest!Noted(i) \in NewsT /\ Rest!Noted(i).st = paper[i].st /\ Rest!Noted(i).sold = paper[i].sold
        BY <1>1 DEF Rest!Noted, NewsT, PaperT
  <2>2. news'[j] = IF j = i THEN Rest!Noted(i) ELSE news[j]
        BY <1>1, <1>3, <2>1, ExceptSeq DEF Rest!Frames
  <2>3. QED BY <2>1, <2>2 DEF NewsFrom
<1>4. ASSUME NEW i \in Rest!Orders, NEW t, Rest!Waits(i, t), NEW j \in Rest!Orders
      PROVE  NewsFrom(news[j], paper[j], news'[j])
  <2> DEFINE r == [news[i] EXCEPT !.fresh = FALSE, !.parked = socket = "up" /\ i \in known]
  <2>1. r \in NewsT /\ r.st = news[i].st /\ r.sold = news[i].sold
        BY <1>1 DEF NewsT
  <2>2. news' = [news EXCEPT ![i] = r]
        BY <1>1, <1>4 DEF Rest!Waits
  <2> HIDE DEF r
  <2>3. news'[j] = IF j = i THEN r ELSE news[j]
        BY <1>1, <2>1, <2>2, ExceptSeq
  <2>4. QED BY <2>1, <2>3 DEF NewsFrom
<1>5. ASSUME Rest!Drops, NEW j \in Rest!Orders PROVE NewsFrom(news[j], paper[j], news'[j])
      BY <1>1, <1>5 DEF Rest!Drops, NewsFrom, NewsT
<1>6. ASSUME Rest!Restarts, NEW j \in Rest!Orders PROVE NewsFrom(news[j], paper[j], news'[j])
      BY <1>6 DEF Rest!Restarts, NewsFrom, Rest!NoNews
<1>7. \A j \in Rest!Orders : NewsFrom(news[j], paper[j], news'[j])
      BY <1>3, <1>4, <1>5, <1>6
<1>8. \A j \in Rest!Orders : Tidied(legs[j], legs'[j])
      BY <1>2 DEF Tidied
<1>9. QED BY <1>2, <1>7, <1>8, Tidies

LEMMA BrokerHonest ==
  ASSUME TruthInv, TruthInv', RowsHonest, NEW i \in Rest!Orders, Rest!Broker(i)
  PROVE  RowsHonest'
<1>1. \A j \in Rest!Orders : /\ paper[j] \in PaperT /\ legs[j] \in LegT
                             /\ Honest(way, legs[j], paper[j], news[j])
      BY Domains DEF TruthInv, RowsHonest
<1>2. UNCHANGED <<way, legs, owed>> /\ news' = Rest!Tells(i) /\ paper[i].st = "working"
      BY DEF Rest!Broker, Rest!Sells, Rest!Stops
<1>3. \A j \in Rest!Orders : news'[j].st = news[j].st /\ news'[j].sold = news[j].sold
      BY <1>2, TellsFine DEF TruthInv
<1>4. ASSUME NEW n \in 1..Total, Rest!Sells(i, n), NEW j \in Rest!Orders
      PROVE  Honest(way, legs[j], paper'[j], news'[j])
  <2> DEFINE sold == paper[i].sold + n
             mine == [paper[i] EXCEPT !.sold = sold, !.st = IF sold = legs[i].qty THEN "filled" ELSE @]
             dead == [paper[j] EXCEPT !.st = "dead"]
  <2>1. paper'[j] = IF j = i THEN mine
                    ELSE IF legs[i].role # "exit" /\ legs[j].role # "exit" THEN dead ELSE paper[j]
        BY <1>4 DEF Rest!Sells
  <2>2. /\ mine.sold = sold /\ mine.st = IF sold = legs[i].qty THEN "filled" ELSE "working"
        /\ dead.st = "dead" /\ dead.sold = paper[j].sold
        BY <1>1, <1>2 DEF PaperT
  <2>3. way.parts \/ sold = legs[i].qty
        BY <1>4 DEF Rest!Sells
  <2> HIDE DEF mine, dead, sold
  <2>4. CASE j = i
        BY <1>1, <1>2, <1>3, <2>1, <2>2, <2>3, <2>4 DEF Honest
  <2>5. CASE j # i /\ paper'[j] = paper[j]
        BY <1>1, <1>3, <2>5 DEF Honest
  <2>6. CASE j # i /\ paper'[j] = dead /\ paper[j].st # "filled"
        BY <1>1, <1>3, <2>2, <2>6 DEF Honest
  <2>7. legs[i].role # "exit" /\ legs[j].role # "exit" /\ j # i => paper[j].st # "filled"
        BY <1>2 DEF RowsHonest, LegsApart
  <2>8. QED BY <2>1, <2>4, <2>5, <2>6, <2>7
<1>5. ASSUME Rest!Stops(i), NEW j \in Rest!Orders PROVE Honest(way, legs[j], paper'[j], news'[j])
  <2> DEFINE mine == [paper[i] EXCEPT !.st = "dead"]
  <2>1. mine.sold = paper[i].sold /\ mine.st = "dead" /\ mine \in PaperT
        BY <1>1 DEF PaperT
  <2>2. paper' = [paper EXCEPT ![i] = mine] /\ paper \in [Rest!Orders -> PaperT]
        BY <1>5, Domains DEF Rest!Stops, TruthInv
  <2> HIDE DEF mine
  <2>3. paper'[j] = IF j = i THEN mine ELSE paper[j]
        BY <2>2
  <2>4. QED BY <1>1, <1>2, <1>3, <2>1, <2>3 DEF Honest
<1>6. Rest!Orders' = Rest!Orders
      BY <1>2 DEF Rest!Orders
<1>7. LegsApart'
  <2>1. CASE \E n \in 1..Total : Rest!Sells(i, n)
    <3>1. PICK n \in 1..Total : Rest!Sells(i, n)
          BY <2>1
    <3>2. \A j \in Rest!Orders : /\ [paper[j] EXCEPT !.st = "dead"].st = "dead"
                                 /\ paper[j].st = "filled" => [paper[j] EXCEPT !.st = "dead"].st # "filled"
          BY <1>1 DEF PaperT
    <3>3. \A j \in Rest!Orders : j # i => IF legs[i].role # "exit" /\ legs[j].role # "exit"
                                         THEN paper'[j].st = "dead" ELSE paper'[j] = paper[j]
          BY <3>1, <3>2 DEF Rest!Sells
    <3>4. QED BY <1>2, <1>6, <3>3 DEF RowsHonest, LegsApart
  <2>2. CASE Rest!Stops(i)
    <3>1. paper \in [Rest!Orders -> PaperT]
          BY Domains DEF TruthInv
    <3>2. \A j \in Rest!Orders : paper'[j].st = IF j = i THEN "dead" ELSE paper[j].st
          BY <2>2, <3>1 DEF Rest!Stops, PaperT
    <3>3. QED BY <1>2, <1>6, <3>2 DEF RowsHonest, LegsApart
  <2>3. QED BY <2>1, <2>2 DEF Rest!Broker
<1>8. QED BY <1>2, <1>4, <1>5, <1>7, HonestStays DEF Rest!Broker

(* One more row is counted. *)
LEMMA CountGains ==
  ASSUME Shapes, NEW i \in Rest!Orders, Rest!Orders' = Rest!Orders, legs[i].by = "none",
         legs'[i].by \in {"placed", "oco"}, legs'[i].filled \in Nat,
         \A j \in Rest!Orders : j # i => legs'[j].by = legs[j].by /\ legs'[j].filled = legs[j].filled
  PROVE  Cardinality(Rest!Taken') = Cardinality(Rest!Taken) + legs'[i].filled
<1>1. /\ IsFiniteSet(Counting(legs)) /\ Counting(legs) \subseteq Rest!Orders
      /\ \A j \in Rest!Orders : Fills(legs)[j] = legs[j].filled /\ legs[j].filled \in Nat
      BY CountNat
<1>2. \A j \in Rest!Orders : Fills(legs')[j] = legs'[j].filled
      BY DEF Fills, Rest!Orders
<1>3. Counting(legs') = Counting(legs) \cup {i} /\ i \notin Counting(legs)
      BY DEF Counting, Rest!Orders
<1>4. PICK f : f = Fills(legs')
      OBVIOUS
<1>5. PICK S : S = Counting(legs) /\ IsFiniteSet(S)
      BY <1>1
<1>6. i \notin S /\ (\A j \in S : f[j] = Fills(legs)[j] /\ f[j] \in Nat) /\ f[i] = legs'[i].filled /\ f[i] \in Nat
      BY <1>1, <1>2, <1>3, <1>4, <1>5
<1>7. Cardinality(Slices(f, S \cup {i})) = Cardinality(Slices(f, S)) + f[i]
      BY <1>5, <1>6, SlicesMore
<1>8. Slices(f, S) = Slices(Fills(legs), S)
      BY <1>6, SlicesSame
<1>9. QED BY <1>3, <1>4, <1>5, <1>6, <1>7, <1>8, CountIs

LEMMA OwedTwice ==
  ASSUME NEW t \in Int, NEW c \in Nat, NEW n \in Nat
  PROVE  Rest!AtLeast0(Rest!AtLeast0(t - c) - n) = Rest!AtLeast0(t - (c + n))
BY DEF Rest!AtLeast0

LEMMA OwedPlain ==
  ASSUME NEW n \in Nat
  PROVE  Rest!AtLeast0(n) = n
BY DEF Rest!AtLeast0

(* A row is booked, and the contracts it says come off the position. *)
LEMMA GainsHonest ==
  ASSUME TruthInv, TruthInv', RowsHonest, NEW i \in Rest!Orders, Len(legs') = Len(legs), UNCHANGED way,
         legs[i].by = "none", legs'[i].by \in {"placed", "oco"}, NEW n \in Nat, legs'[i].filled = n,
         owed' = Rest!AtLeast0(owed - n), LegsApart',
         \A j \in Rest!Orders : /\ Honest(way, legs'[j], paper'[j], news'[j])
                                /\ j # i => legs'[j].by = legs[j].by /\ legs'[j].filled = legs[j].filled
  PROVE  RowsHonest'
<1>1. Rest!Orders' = Rest!Orders /\ Shapes
      BY OrdersRead DEF TruthInv
<1>2. PICK c \in Nat : c = Cardinality(Rest!Taken)
      BY <1>1, CountNat
<1>3. PICK d : d = Cardinality(Rest!Taken')
      OBVIOUS
<1>4. d = c + n
      BY <1>1, <1>2, <1>3, CountGains
<1>5. owed' = Rest!AtLeast0(Rest!AtLeast0(Total - c) - n)
      BY <1>2 DEF RowsHonest
<1>6. Total \in Int
      BY IbkrAssumption
<1>7. Rest!AtLeast0(Rest!AtLeast0(Total - c) - n) = Rest!AtLeast0(Total - (c + n))
      BY <1>2, <1>6, OwedTwice
<1>8. owed' = Rest!AtLeast0(Total - d)
      BY <1>4, <1>5, <1>7
<1>9. QED BY <1>1, <1>3, <1>8 DEF RowsHonest

(* Ends that book nothing. *)
LEMMA EndsHonest ==
  ASSUME TruthInv, TruthInv', RowsHonest, NEW i \in Rest!Orders, NEW t,
         Rest!Ends(i, t) \/ Rest!Spins(i, t) \/ Rest!GivesUp(i, t) \/ Rest!TimesOut(i, t)
  PROVE  RowsHonest'
<1>1. UNCHANGED <<way, paper, news, owed>> /\ Shapes
      BY DEF Rest!Ends, Rest!Spins, Rest!GivesUp, Rest!TimesOut, TruthInv
<1>2. \/ legs' = legs
      \/ \E st \in {"FILLED", "CANCELLED", "ERROR"} : legs' = [legs EXCEPT ![i].status = st]
      BY DEF Rest!Ends, Rest!Spins, Rest!GivesUp, Rest!TimesOut
<1>3. Len(legs') = Len(legs) /\ \A j \in Rest!Orders : Tidied(legs[j], legs'[j])
      BY <1>1, <1>2, StatusTidy DEF Tidied
<1>4. \A j \in Rest!Orders : NewsFrom(news[j], paper[j], news'[j])
      BY <1>1 DEF NewsFrom
<1>5. QED BY <1>1, <1>3, <1>4, Tidies

(* Of an order of its own, what a task reads filled has filled, whole. *)
LEMMA ReadsTrue ==
  ASSUME TruthInv, RowsHonest, NEW i \in Rest!Orders, legs[i].role = "exit", Rest!Reads(i).st = "filled"
  PROVE  paper[i].st = "filled" /\ Rest!Reads(i).sold = legs[i].qty
<1>1. Honest(way, legs[i], paper[i], news[i])
      BY DEF RowsHonest
<1>2. CASE Rest!Hears(i)
      BY <1>1, <1>2 DEF Rest!Reads, Honest
<1>3. CASE ~Rest!Hears(i)
  <2>1. Rest!Shown(i).st = "filled" /\ Rest!Reads(i).sold = Rest!Shown(i).sold
        BY <1>3 DEF Rest!Reads
  <2>2. Rest!Group(i) = {i}
        BY DEF Rest!Group
  <2> DEFINE done == {j \in {i} : paper[j].st = "filled"}
  <2>3. done # {} => done = {i} /\ paper[i].st = "filled"
        OBVIOUS
  <2>4. done # {}
        BY <2>1, <2>2 DEF Rest!Shown
  <2>5. Rest!Shown(i).sold = paper[CHOOSE j \in done : TRUE].sold
        BY <2>2, <2>4 DEF Rest!Shown
  <2>6. (CHOOSE j \in {i} : TRUE) = i
        OBVIOUS
  <2>7. QED BY <1>1, <2>1, <2>3, <2>4, <2>5, <2>6 DEF Honest
<1>4. QED BY <1>2, <1>3

(* A row filled by t, with the quantity q. *)
LEMMA FilledRow ==
  ASSUME Shapes, NEW i \in Rest!Orders, NEW q \in Nat, NEW t \in {"placed", "blind", "oco"}
  PROVE  /\ Rest!Filled(i, q, t) \in Seq(LegT) /\ Len(Rest!Filled(i, q, t)) = Len(legs)
         /\ Rest!Filled(i, q, t)[i].status = "FILLED" /\ Rest!Filled(i, q, t)[i].filled = q
         /\ Rest!Filled(i, q, t)[i].by = IF legs[i].by # "none" THEN legs[i].by ELSE t
         /\ Rest!Filled(i, q, t)[i].role = legs[i].role /\ Rest!Filled(i, q, t)[i].qty = legs[i].qty
         /\ \A j \in Rest!Orders : j # i => Rest!Filled(i, q, t)[j] = legs[j]
<1> DEFINE r == [legs[i] EXCEPT !.status = "FILLED", !.filled = q,
                                !.by = IF legs[i].by # "none" THEN legs[i].by ELSE t]
<1>1. Rest!Orders = 1..Len(legs) /\ legs \in Seq(LegT) /\ legs[i] \in LegT
      BY Domains DEF Shapes
<1>2. /\ r \in LegT /\ r.status = "FILLED" /\ r.filled = q /\ r.role = legs[i].role /\ r.qty = legs[i].qty
      /\ r.by = IF legs[i].by # "none" THEN legs[i].by ELSE t
  <2>1. CASE legs[i].by # "none"
        BY <1>1, <2>1 DEF LegT
  <2>2. CASE legs[i].by = "none"
        BY <1>1, <2>2 DEF LegT
  <2>3. QED BY <2>1, <2>2
<1>3. Rest!Filled(i, q, t) = [legs EXCEPT ![i] = r]
      BY DEF Rest!Filled
<1> HIDE DEF r
<1>4. QED BY <1>1, <1>2, <1>3, ExceptSeq

LEMMA BooksHonest ==
  ASSUME WholeIn(way), PollsKept, TruthInv, TruthInv', RowsHonest,
         NEW i \in Rest!Orders, NEW t \in Rest!Tasks, Rest!Books(i, t)
  PROVE  RowsHonest'
<1> DEFINE sold == IF legs[i].role = "exit" THEN Rest!Reads(i).sold ELSE legs[i].qty
<1>1. /\ Shapes /\ legs[i] \in LegT /\ owed \in Nat /\ t \in {"placed", "blind"} /\ t \in polls[i]
      /\ Honest(way, legs[i], paper[i], news[i]) /\ UNCHANGED <<way, paper, news>>
      BY Domains DEF TruthInv, Shapes, RowsHonest, Rest!Tasks, Rest!Books, Rest!At
<1>2. sold = legs[i].qty /\ sold \in Nat
      BY <1>1, ReadsTrue DEF LegT, Rest!Books
<1>3. legs[i].role # "exit" => ~way.parts /\ t = "blind"
      BY <1>1 DEF WholeIn, PollsKept, Honest
<1>4. /\ legs' = Rest!Filled(i, sold, t)
      /\ owed' = IF t = "blind" THEN owed ELSE Rest!AtLeast0(owed - Rest!AtLeast0(sold - legs[i].filled))
      BY DEF Rest!Books
<1> HIDE DEF sold
<1>5. /\ Len(legs') = Len(legs) /\ legs'[i].status = "FILLED" /\ legs'[i].filled = sold
      /\ legs'[i].by = (IF legs[i].by # "none" THEN legs[i].by ELSE t)
      /\ legs'[i].role = legs[i].role /\ legs'[i].qty = legs[i].qty
      /\ \A j \in Rest!Orders : j # i => legs'[j] = legs[j]
      BY <1>1, <1>2, <1>4, FilledRow
<1>6. \A j \in Rest!Orders : Honest(way, legs'[j], paper'[j], news'[j])
      BY <1>1, <1>2, <1>5 DEF Honest, RowsHonest
<1>7. LegsApart'
  <2>1. Rest!Orders' = Rest!Orders
        BY <1>5, OrdersRead
  <2>2. \A j \in Rest!Orders : legs'[j].role = legs[j].role
        BY <1>5
  <2>3. QED BY <1>1, <2>1, <2>2 DEF RowsHonest, LegsApart
<1>8. CASE legs[i].by = "none" /\ t = "placed"
  <2>1. legs[i].filled = 0 /\ Rest!AtLeast0(sold - legs[i].filled) = sold
    <3>1. legs[i].filled = 0 /\ sold - 0 = sold
          BY <1>1, <1>2, <1>8 DEF Honest
    <3>2. QED BY <1>2, <3>1, OwedPlain
  <2>2. QED BY <1>1, <1>2, <1>4, <1>5, <1>6, <1>7, <1>8, <2>1, GainsHonest
<1>9. CASE legs[i].by = "none" /\ t = "blind"
  <2>1. Rest!Orders' = Rest!Orders
        BY <1>5, OrdersRead
  <2>2. Counting(legs') = Counting(legs) /\ i \notin Counting(legs)
        BY <1>5, <1>9, <2>1 DEF Counting, Rest!Orders
  <2>3. \A j \in Counting(legs) : Fills(legs')[j] = Fills(legs)[j]
        BY <1>5, <2>1, <2>2 DEF Fills, Counting, Rest!Orders
  <2>4. Rest!Taken' = Rest!Taken
        BY <2>2, <2>3, CountIs, SlicesSame
  <2>5. QED BY <1>1, <1>4, <1>6, <1>7, <1>9, <2>1, <2>4 DEF RowsHonest
<1>10. CASE legs[i].by # "none"
  <2>1. legs[i].filled = sold
        BY <1>1, <1>2, <1>3, <1>10 DEF Honest
  <2>2. owed' = owed
    <3>1. sold - sold = 0 /\ owed - 0 = owed /\ Rest!AtLeast0(0) = 0
          BY <1>1, <1>2 DEF Rest!AtLeast0
    <3>2. QED BY <1>1, <1>4, <2>1, <3>1, OwedPlain
  <2>3. \A j \in Rest!Orders : legs'[j].by = legs[j].by /\ legs'[j].filled = legs[j].filled
        BY <1>5, <1>10, <2>1
  <2>4. QED BY <1>1, <1>5, <1>6, <1>7, <2>2, <2>3, HonestStays
<1>11. QED BY <1>1, <1>8, <1>9, <1>10

LEMMA ToldTidy ==
  ASSUME NEW s \in Seq(LegT), NEW j
  PROVE  /\ Rest!Told(s, j) \in Seq(LegT) /\ Len(Rest!Told(s, j)) = Len(s)
         /\ \A k \in 1..Len(s) : Tidied(s[k], Rest!Told(s, j)[k])
<1> DEFINE r == [s[j] EXCEPT !.status = IF @ = "PENDING" THEN "CANCELLED" ELSE @]
<1>1. Rest!Told(s, j) = [s EXCEPT ![j] = r]
      BY DEF Rest!Told
<1>2. CASE j \in 1..Len(s)
  <2>1. s[j] \in LegT
        BY <1>2, ElementOfSeq
  <2>2. r \in LegT /\ Tidied(s[j], r)
    <3>1. CASE s[j].status = "PENDING"
          BY <2>1, <3>1 DEF LegT, Tidied
    <3>2. CASE s[j].status # "PENDING"
          BY <2>1, <3>2 DEF LegT, Tidied
    <3>3. QED BY <3>1, <3>2
  <2> HIDE DEF r
  <2>3. QED BY <1>1, <1>2, <2>2, ExceptSeq DEF Tidied
<1>3. CASE j \notin 1..Len(s)
  <2>1. DOMAIN s = 1..Len(s) /\ s = [k \in 1..Len(s) |-> s[k]]
        BY LenProperties
  <2>2. [s EXCEPT ![j] = r] = s
        BY <1>3, <2>1
  <2>3. QED BY <1>1, <2>2 DEF Tidied
<1>4. QED BY <1>2, <1>3

(* The watch of a bracket books the leg it sees to have sold. *)
LEMMA WatchesHonest ==
  ASSUME TruthInv, TruthInv', RowsHonest, Rest!Watches
  PROVE  /\ RowsHonest'
         /\ Len(legs') = Len(legs) /\ \A j \in Rest!Orders : legs'[j].role = legs[j].role
<1> DEFINE sold == {j \in Rest!Bracket : paper[j].st # "dead" /\ paper[j].sold > 0}
           i == Rest!Min(sold)
           book == IF Rest!Bookable(i) THEN Rest!Filled(i, paper[i].sold, "oco") ELSE legs
<1>1. /\ Shapes /\ Rest!Orders = 1..Len(legs) /\ Len(legs) \in Nat /\ legs \in Seq(LegT)
      /\ \A j \in Rest!Orders : /\ legs[j] \in LegT /\ paper[j] \in PaperT /\ paper[j].sold \in Nat
                                /\ Honest(way, legs[j], paper[j], news[j])
      BY Domains DEF TruthInv, Shapes, PaperT, RowsHonest
<1>2. UNCHANGED <<way, paper, news>>
      BY DEF Rest!Watches
<1>3. \A j \in Rest!Orders : NewsFrom(news[j], paper[j], news'[j])
      BY <1>2 DEF NewsFrom
<1>4. CASE /\ sold # {} /\ legs' = Rest!Told(book, 3 - i)
           /\ owed' = IF Rest!Bookable(i) THEN Rest!AtLeast0(owed - paper[i].sold) ELSE owed
  <2>1. i \in Rest!Orders /\ paper[i].st # "dead" /\ paper[i].sold > 0 /\ legs[i].role # "exit"
    <3>1. sold \subseteq 1..Len(legs)
          BY <1>1 DEF Rest!Bracket
    <3>2. i \in sold
          BY <1>1, <1>4, <3>1, LeastThere
    <3>3. QED BY <1>1, <3>1, <3>2 DEF Rest!Bracket
  <2>2. CASE ~Rest!Bookable(i)
    <3>1. legs' = Rest!Told(legs, 3 - i) /\ owed' = owed
          BY <1>4, <2>2
    <3> HIDE DEF i, sold, book
    <3>2. Len(legs') = Len(legs) /\ \A j \in Rest!Orders : Tidied(legs[j], legs'[j])
          BY <1>1, <3>1, ToldTidy
    <3>3. QED BY <1>2, <1>3, <3>1, <3>2, Tidies DEF Tidied
  <2>3. CASE Rest!Bookable(i)
    <3>1. legs' = Rest!Told(book, 3 - i) /\ owed' = Rest!AtLeast0(owed - paper[i].sold)
          /\ book = Rest!Filled(i, paper[i].sold, "oco")
          BY <1>4, <2>3
    <3>2. legs[i].by = "none" /\ legs[i].status = "PENDING"
          BY <1>1, <2>1, <2>3 DEF Rest!Bookable, Rest!Open, Honest
    <3> HIDE DEF i, sold, book
    <3>3. /\ book \in Seq(LegT) /\ Len(book) = Len(legs) /\ book[i].status = "FILLED"
          /\ book[i].filled = paper[i].sold /\ book[i].by = "oco"
          /\ book[i].role = legs[i].role /\ book[i].qty = legs[i].qty
          /\ \A j \in Rest!Orders : j # i => book[j] = legs[j]
          BY <1>1, <2>1, <3>1, <3>2, FilledRow
    <3>4. Len(legs') = Len(legs) /\ \A j \in Rest!Orders : Tidied(book[j], legs'[j])
          BY <1>1, <3>1, <3>3, ToldTidy
    <3>5. Honest(way, book[i], paper[i], news[i])
      <4>1. way.parts \/ paper[i].sold = legs[i].qty
            BY <1>1, <2>1 DEF Honest
      <4>2. QED BY <1>1, <2>1, <3>3, <4>1 DEF Honest
    <3>6. \A j \in Rest!Orders : Honest(way, legs'[j], paper'[j], news'[j])
          BY <1>1, <1>2, <1>3, <3>3, <3>4, <3>5, TidyHonest
    <3>7. legs'[i].by = "oco" /\ legs'[i].filled = paper[i].sold
          BY <2>1, <3>3, <3>4 DEF Tidied
    <3>8. \A j \in Rest!Orders : j # i => legs'[j].by = legs[j].by /\ legs'[j].filled = legs[j].filled
          BY <3>3, <3>4 DEF Tidied
    <3>9. \A j \in Rest!Orders : legs'[j].role = legs[j].role
          BY <3>3, <3>4 DEF Tidied
    <3>10. LegsApart'
      <4>1. Rest!Orders' = Rest!Orders
            BY <3>4, OrdersRead
      <4>2. QED BY <1>2, <3>9, <4>1 DEF RowsHonest, LegsApart
    <3>11. RowsHonest'
           BY <1>1, <1>2, <2>1, <3>1, <3>2, <3>4, <3>6, <3>7, <3>8, <3>10, GainsHonest
    <3>12. QED BY <3>4, <3>9, <3>11
  <2>4. QED BY <2>2, <2>3
<1>5. CASE /\ legs' = [j \in Rest!Orders |-> IF j \in Rest!Bracket /\ Rest!Open(j)
                                             THEN [legs[j] EXCEPT !.status = "CANCELLED"] ELSE legs[j]]
           /\ owed' = owed
  <2>1. \A j \in Rest!Orders : Tidied(legs[j], [legs[j] EXCEPT !.status = "CANCELLED"]) /\ Tidied(legs[j], legs[j])
        BY <1>1 DEF LegT, Tidied
  <2>2. \A j \in Rest!Orders : Tidied(legs[j], legs'[j])
        BY <1>5, <2>1
  <2>3. Len(legs') = Len(legs)
    <3>1. legs' \in Seq(LegT) /\ DOMAIN legs' = 1..Len(legs)
          BY <1>1, <1>5 DEF TruthInv, Shapes
    <3>2. QED BY <1>1, <3>1, LenProperties
  <2>4. QED BY <1>2, <1>3, <1>5, <2>2, <2>3, Tidies DEF Tidied
<1>6. QED BY <1>4, <1>5 DEF Rest!Watches

LEMMA ResumesHonest ==
  ASSUME TruthInv, TruthInv', RowsHonest, Rest!Resumes
  PROVE  RowsHonest'
<1>1. Rest!Orders = 1..Len(legs) /\ Len(legs) \in Nat /\ \A j \in Rest!Orders : legs[j] \in LegT
      BY Domains DEF TruthInv
<1>2. /\ UNCHANGED <<way, paper, news, owed>>
      /\ legs' = [i \in Rest!Orders |-> IF legs[i].role = "exit" /\ Rest!Open(i)
                                   THEN [legs[i] EXCEPT !.status = "CANCELLED"] ELSE legs[i]]
      BY DEF Rest!Resumes
<1>3. \A j \in Rest!Orders : Tidied(legs[j], [legs[j] EXCEPT !.status = "CANCELLED"]) /\ Tidied(legs[j], legs[j])
      BY <1>1 DEF LegT, Tidied
<1>4. \A j \in Rest!Orders : Tidied(legs[j], legs'[j])
      BY <1>2, <1>3
<1>5. Len(legs') = Len(legs)
  <2>1. legs' \in Seq(LegT) /\ DOMAIN legs' = 1..Len(legs)
        BY <1>1, <1>2 DEF TruthInv, Shapes
  <2>2. QED BY <1>1, <2>1, LenProperties
<1>6. \A j \in Rest!Orders : NewsFrom(news[j], paper[j], news'[j])
      BY <1>2 DEF NewsFrom
<1>7. QED BY <1>2, <1>4, <1>5, <1>6, Tidies

(* A cancel strikes the row of an order, or none. *)
LEMMA StrikesTidy ==
  ASSUME Shapes, NEW i \in Rest!Orders, NEW word \in {"alone", "CANCELLED", "UNCONFIRMED"}, Rest!Strikes(i, word)
  PROVE  /\ Len(legs') = Len(legs) /\ \A j \in Rest!Orders : Tidied(legs[j], legs'[j]) /\ (j # i => legs'[j] = legs[j])
         /\ \/ legs[i].status = "FILLED" /\ legs' = legs
            \/ legs'[i].status = "CANCELLED" /\ doubt' = [Rest!NoDoubt EXCEPT !.cleared = TRUE]
<1>1. /\ Rest!Orders = 1..Len(legs) /\ legs \in Seq(LegT) /\ legs[i] \in LegT
      BY Domains DEF Shapes
<1>2. CASE legs[i].status = "FILLED"
      BY <1>2 DEF Rest!Strikes, Tidied
<1>3. CASE legs[i].status # "FILLED"
  <2> DEFINE r == [legs[i] EXCEPT !.status = "CANCELLED", !.struck = word]
  <2>1. r \in LegT /\ Tidied(legs[i], r) /\ r.status = "CANCELLED"
        BY <1>1 DEF LegT, Tidied
  <2>2. legs' = [legs EXCEPT ![i] = r]
        BY <1>1, <1>3 DEF Rest!Strikes
  <2> HIDE DEF r
  <2>3. /\ Len(legs') = Len(legs)
        /\ \A j \in Rest!Orders : legs'[j] = IF j = i THEN r ELSE legs[j]
        BY <1>1, <2>1, <2>2, ExceptSeq
  <2>4. QED BY <1>3, <2>1, <2>3 DEF Rest!Strikes, Tidied
<1>4. QED BY <1>2, <1>3

LEMMA CancelsHonest ==
  ASSUME TruthInv, TruthInv', RowsHonest,
         (\E i \in Rest!Orders : Rest!Cancels(i) \/ Rest!CancelsLocally(i)) \/ Rest!CancelEnds
  PROVE  RowsHonest'
<1>1. UNCHANGED <<way, paper, news, owed>> /\ Shapes
      BY DEF Rest!Cancels, Rest!CancelsLocally, Rest!CancelEnds, TruthInv
<1>2. legs' = legs \/ \E i \in Rest!Orders, word \in {"alone", "CANCELLED", "UNCONFIRMED"} : Rest!Strikes(i, word)
  <2>1. ASSUME NEW i \in Rest!Orders, Rest!CancelsLocally(i) PROVE Rest!Strikes(i, "alone")
        BY <2>1 DEF Rest!CancelsLocally
  <2>2. CASE Rest!CancelEnds
    <3>1. doubt.i \in Rest!Orders
          BY <2>2 DEF Rest!CancelEnds, TruthInv, Shapes
    <3>2. QED BY <2>2, <3>1 DEF Rest!CancelEnds
  <2>3. QED BY <2>1, <2>2 DEF Rest!Cancels
<1>3. Len(legs') = Len(legs) /\ \A j \in Rest!Orders : Tidied(legs[j], legs'[j])
  <2>1. CASE legs' = legs
        BY <2>1 DEF Tidied
  <2>2. CASE legs' # legs
        BY <1>1, <1>2, <2>2, StrikesTidy
  <2>3. QED BY <2>1, <2>2
<1>4. \A j \in Rest!Orders : NewsFrom(news[j], paper[j], news'[j])
      BY <1>1 DEF NewsFrom
<1>5. QED BY <1>1, <1>3, <1>4, Tidies

LEMMA QuietHonest ==
  ASSUME TruthInv, TruthInv', RowsHonest, Rest!Reconnects \/ Rest!LosesSight \/ Rest!Boots \/ UNCHANGED Rest!rest
  PROVE  RowsHonest'
<1>1. UNCHANGED <<way, legs, paper, news, owed>>
      BY DEF Rest!Reconnects, Rest!LosesSight, Rest!Boots, Rest!rest
<1>2. \A j \in Rest!Orders : Tidied(legs[j], legs'[j]) /\ NewsFrom(news[j], paper[j], news'[j])
      BY <1>1 DEF Tidied, NewsFrom
<1>3. QED BY <1>1, <1>2, Tidies

(* A new order has neither filled nor been booked. *)
LEMMA FreshHonest ==
  /\ Rest!Placed.st = "working" /\ Rest!Placed.sold = 0
  /\ Rest!NoNews.st = "none" /\ Rest!Acked.st = "none"
  /\ \A role, q : /\ Rest!Leg(role, q).role = role /\ Rest!Leg(role, q).qty = q
                  /\ Rest!Leg(role, q).status = "PENDING"
                  /\ Rest!Leg(role, q).by = "none" /\ Rest!Leg(role, q).filled = 0
BY DEF Rest!Placed, Rest!NoNews, Rest!Acked, Rest!Leg

LEMMA BracketsHonest ==
  ASSUME TruthInv, TruthInv', RowsHonest, Rest!Brackets
  PROVE  RowsHonest'
<1>1. /\ legs = <<>> /\ legs' = <<Rest!Leg("TP", owed), Rest!Leg("SL", owed)>> /\ UNCHANGED <<way, owed>>
      /\ paper' = <<Rest!Placed, Rest!Placed>> /\ news' = <<Rest!NoNews, Rest!NoNews>> /\ way.start = "whale"
      BY DEF Rest!Brackets
<1>2. Rest!Orders' = {1, 2} /\ DOMAIN legs = {} /\ DOMAIN legs' = {1, 2}
      BY <1>1 DEF Rest!Orders
<1>3. \A i \in {1, 2} : /\ legs'[i].by = "none" /\ legs'[i].filled = 0 /\ paper'[i] = Rest!Placed
                        /\ news'[i] = Rest!NoNews
      BY <1>1, FreshHonest
<1>4. Rest!Taken' = Rest!Taken
  <2>1. Counting(legs') = {} /\ Counting(legs) = {}
        BY <1>2, <1>3 DEF Counting
  <2>2. QED BY <2>1, CountIs DEF Slices
<1>5. \A i \in Rest!Orders' : Honest(way', legs'[i], paper'[i], news'[i])
      BY <1>1, <1>2, <1>3, FreshHonest DEF Honest
<1>6. LegsApart'
      BY <1>2, <1>3, FreshHonest DEF LegsApart
<1>7. QED BY <1>1, <1>4, <1>5, <1>6 DEF RowsHonest

LEMMA PlacesHonest ==
  ASSUME TruthInv, TruthInv', RowsHonest, Rest!Places
  PROVE  RowsHonest'
<1> DEFINE e == Rest!Leg("exit", owed)
<1>1. /\ Rest!Orders = 1..Len(legs) /\ Len(legs) \in Nat /\ owed \in Nat
      /\ legs \in Seq(LegT) /\ paper \in Seq(PaperT) /\ news \in Seq(NewsT)
      /\ Len(paper) = Len(legs) /\ Len(news) = Len(legs)
      BY Domains DEF TruthInv, Shapes
<1>2. e \in LegT /\ e.by = "none" /\ e.filled = 0 /\ e.role = "exit" /\ e.status = "PENDING"
      BY <1>1 DEF Rest!Leg, LegT
<1>3. Rest!Placed \in PaperT /\ Rest!Acked \in NewsT
      BY DEF Rest!Placed, PaperT, Rest!Acked, Rest!NoNews, NewsT
<1>4. /\ legs' = Append(legs, e) /\ paper' = Append(paper, Rest!Placed) /\ news' = Append(news, Rest!Acked)
      /\ UNCHANGED <<way, owed>>
      BY DEF Rest!Places
<1> HIDE DEF e
<1>5. /\ Len(legs') = Len(legs) + 1 /\ legs'[Len(legs) + 1] = e /\ legs' \in Seq(LegT)
      /\ \A i \in Rest!Orders : legs'[i] = legs[i]
      BY <1>1, <1>2, <1>4, AppendProperties
<1>6. paper'[Len(legs) + 1] = Rest!Placed /\ \A i \in Rest!Orders : paper'[i] = paper[i]
      BY <1>1, <1>3, <1>4, AppendProperties
<1>7. news'[Len(legs) + 1] = Rest!Acked /\ \A i \in Rest!Orders : news'[i] = news[i]
      BY <1>1, <1>3, <1>4, AppendProperties
<1>8. Rest!Orders' = Rest!Orders \cup {Len(legs) + 1} /\ DOMAIN legs = Rest!Orders /\ DOMAIN legs' = Rest!Orders'
  <2>1. Rest!Orders' = 1..Len(legs')
        BY <1>5, LenProperties DEF Rest!Orders
  <2>2. 1..(Len(legs) + 1) = (1..Len(legs)) \cup {Len(legs) + 1}
        BY <1>1
  <2>3. QED BY <1>1, <1>5, <2>1, <2>2 DEF Rest!Orders
<1>9. Rest!Taken' = Rest!Taken
  <2>1. Counting(legs') = Counting(legs) /\ \A j \in Counting(legs) : Fills(legs')[j] = Fills(legs)[j]
        BY <1>2, <1>5, <1>8 DEF Counting, Fills
  <2>2. QED BY <2>1, CountIs, SlicesSame
<1>10. ASSUME NEW i \in Rest!Orders' PROVE Honest(way', legs'[i], paper'[i], news'[i])
  <2>1. CASE i \in Rest!Orders
        BY <1>4, <1>5, <1>6, <1>7, <2>1 DEF RowsHonest
  <2>2. Honest(way, e, Rest!Placed, Rest!Acked)
        BY <1>2, FreshHonest DEF Honest
  <2>3. CASE i = Len(legs) + 1
        BY <1>4, <1>5, <1>6, <1>7, <2>2, <2>3
  <2>4. QED BY <1>8, <2>1, <2>3
<1>11. LegsApart'
       BY <1>2, <1>5, <1>6, <1>8 DEF LegsApart, RowsHonest
<1>12. QED BY <1>4, <1>9, <1>10, <1>11 DEF RowsHonest

(* Which tasks there may be. *)
LEMMA PollsLess ==
  ASSUME Shapes, PollsKept, NEW i \in Rest!Orders, NEW t, polls' = [polls EXCEPT ![i] = @ \ {t}]
  PROVE  /\ polls' \in Seq(PollT) /\ Len(polls') = Len(polls)
         /\ \A j \in Rest!Orders : polls'[j] \subseteq polls[j]
<1>1. Rest!Orders = 1..Len(polls) /\ polls \in Seq(PollT)
      BY Domains DEF PollsKept
<1>2. polls[i] \in PollT
      BY <1>1, ElementOfSeq
<1>3. PICK T \in PollT : T = polls[i] \ {t}
      BY <1>2 DEF PollT
<1>4. polls' = [polls EXCEPT ![i] = T]
      BY <1>3
<1>5. QED BY <1>1, <1>3, <1>4, ExceptSeq

LEMMA PollsStay ==
  ASSUME TruthInv, TruthInv', PollsKept, RowsHonest, RowsHonest', [Rest!Next]_(Rest!rest)
  PROVE  PollsKept' /\ way' = way
<1>1. /\ Shapes /\ Rest!Orders = 1..Len(legs) /\ Len(legs) \in Nat
      /\ polls \in Seq(PollT) /\ Len(polls) = Len(legs)
      /\ \A i \in Rest!Orders : polls[i] \in PollT
      BY Domains, ElementOfSeq DEF TruthInv, PollsKept
<1>2. ASSUME UNCHANGED <<way, due>>, polls' \in Seq(PollT), Len(polls') = Len(legs), Len(legs') = Len(legs),
             \A j \in Rest!Orders : polls'[j] \subseteq polls[j] \cup {"oco"},
             \A j \in Rest!Orders : legs'[j].role = legs[j].role
      PROVE  PollsKept'
  <2>1. Rest!Orders' = Rest!Orders
        BY <1>2, OrdersRead
  <2>2. ASSUME NEW j \in Rest!Orders
        PROVE  (legs'[j].role # "exit" => "placed" \notin polls'[j]) /\ (~way.restarts => "blind" \notin polls'[j])
        BY <1>2 DEF PollsKept
  <2>3. QED BY <1>2, <2>1, <2>2 DEF PollsKept
<1>3. ASSUME UNCHANGED <<way, legs, polls, due>> PROVE PollsKept' /\ way' = way
      BY <1>3 DEF PollsKept, Rest!Orders
<1>4. ASSUME NEW i \in Rest!Orders, Rest!Broker(i) \/ Rest!Frames(i) PROVE PollsKept' /\ way' = way
      BY <1>3, <1>4 DEF Rest!Broker, Rest!Sells, Rest!Stops, Rest!Frames
<1>5. ASSUME NEW i \in Rest!Orders, NEW t \in Rest!Tasks,
             Rest!Books(i, t) \/ Rest!Ends(i, t) \/ Rest!GivesUp(i, t) \/ Rest!TimesOut(i, t)
      PROVE  PollsKept' /\ way' = way
  <2>1. UNCHANGED <<way, due>> /\ polls' = [polls EXCEPT ![i] = @ \ {t}]
        BY <1>5 DEF Rest!Books, Rest!Ends, Rest!GivesUp, Rest!TimesOut, Rest!Leaves
  <2>2. Len(legs') = Len(legs) /\ \A j \in Rest!Orders : legs'[j].role = legs[j].role
    <3>1. CASE Rest!Books(i, t)
      <4>1. legs[i].qty \in Nat /\ Rest!Reads(i).sold \in Nat /\ t \in {"placed", "blind", "oco"}
            BY <1>1, Domains, ReadsNat DEF LegT, Rest!Tasks
      <4>2. PICK q \in Nat : legs' = Rest!Filled(i, q, t)
            BY <3>1, <4>1 DEF Rest!Books
      <4>3. Shapes
            BY <1>1
      <4>4. /\ Len(legs') = Len(legs) /\ legs'[i].role = legs[i].role
            /\ \A j \in Rest!Orders : j # i => legs'[j] = legs[j]
            BY <4>1, <4>2, <4>3, FilledRow
      <4>5. QED BY <4>4
    <3>2. CASE legs' = legs
          BY <3>2
    <3>3. CASE \E st \in {"FILLED", "CANCELLED", "ERROR"} : legs' = [legs EXCEPT ![i].status = st]
          BY <1>1, <3>3, StatusTidy DEF Tidied
    <3>4. QED BY <1>5, <3>1, <3>2, <3>3 DEF Rest!Ends, Rest!GivesUp, Rest!TimesOut
  <2>3. QED BY <1>1, <1>2, <2>1, <2>2, PollsLess
<1>6. ASSUME NEW i \in Rest!Orders, NEW t \in Rest!Tasks, Rest!Waits(i, t) \/ Rest!Spins(i, t)
      PROVE  PollsKept' /\ way' = way
      BY <1>3, <1>6 DEF Rest!Waits, Rest!Spins
<1>7. CASE Rest!Drops \/ Rest!Reconnects \/ UNCHANGED Rest!rest
      BY <1>3, <1>7 DEF Rest!Drops, Rest!Reconnects, Rest!rest
<1>8. CASE (\E i \in Rest!Orders : Rest!Cancels(i) \/ Rest!CancelsLocally(i)) \/ Rest!CancelEnds
  <2>1. UNCHANGED <<way, polls, due>>
        BY <1>8 DEF Rest!Cancels, Rest!CancelsLocally, Rest!CancelEnds
  <2>2. legs' = legs \/ \E i \in Rest!Orders, word \in {"alone", "CANCELLED", "UNCONFIRMED"} : Rest!Strikes(i, word)
    <3>1. CASE Rest!CancelEnds
      <4>1. doubt.i \in Rest!Orders
            BY <3>1 DEF Rest!CancelEnds, TruthInv, Shapes
      <4>2. QED BY <3>1, <4>1 DEF Rest!CancelEnds
    <3>2. QED BY <1>8, <3>1 DEF Rest!Cancels, Rest!CancelsLocally
  <2>3. Len(legs') = Len(legs) /\ \A j \in Rest!Orders : legs'[j].role = legs[j].role
    <3>1. CASE legs' = legs
          BY <3>1
    <3>2. CASE legs' # legs
          BY <1>1, <2>2, <3>2, StrikesTidy DEF Tidied
    <3>3. QED BY <3>1, <3>2
  <2>4. QED BY <1>1, <1>2, <2>1, <2>3
<1>9. ASSUME "oco" \in polls[1], Rest!Bracket # {}, UNCHANGED <<way, due>>, polls' = [polls EXCEPT ![1] = @ \ {"oco"}],
             Len(legs') = Len(legs), \A j \in Rest!Orders : legs'[j].role = legs[j].role
      PROVE  PollsKept'
  <2>1. 1 \in Rest!Orders
        BY <1>1, <1>9 DEF Rest!Bracket
  <2>2. QED BY <1>1, <1>2, <1>9, <2>1, PollsLess
<1>10. CASE Rest!LosesSight
       BY <1>9, <1>10 DEF Rest!LosesSight
<1>11. CASE Rest!Watches
  <2>1. Len(legs') = Len(legs) /\ \A j \in Rest!Orders : legs'[j].role = legs[j].role
        BY <1>11, WatchesHonest
  <2>2. QED BY <1>9, <1>11, <2>1 DEF Rest!Watches
<1>12. CASE Rest!Brackets
  <2>1. /\ legs' = <<Rest!Leg("TP", owed), Rest!Leg("SL", owed)>> /\ UNCHANGED <<way, due>>
        /\ polls' = <<{"oco"}, {}>>
        BY <1>12 DEF Rest!Brackets
  <2>2. Rest!Orders' = {1, 2}
        BY <2>1 DEF Rest!Orders
  <2>3. polls' \in Seq(PollT) /\ Len(polls') = Len(legs')
        BY <2>1 DEF PollT
  <2>4. \A j \in {1, 2} : "placed" \notin polls'[j] /\ "blind" \notin polls'[j]
        BY <2>1
  <2>5. QED BY <2>1, <2>2, <2>3, <2>4 DEF PollsKept
<1>13. CASE Rest!Places
  <2> DEFINE e == Rest!Leg("exit", owed)
  <2>1. e \in LegT /\ e.role = "exit"
        BY DEF Rest!Leg, LegT, TruthInv, Shapes
  <2>2. /\ legs' = Append(legs, e) /\ polls' = Append(polls, {"placed"}) /\ UNCHANGED <<way, due>>
        BY <1>13 DEF Rest!Places
  <2> HIDE DEF e
  <2>3. /\ Len(legs') = Len(legs) + 1 /\ legs'[Len(legs) + 1] = e /\ legs' \in Seq(LegT)
        /\ \A i \in Rest!Orders : legs'[i] = legs[i]
        BY <1>1, <2>1, <2>2, AppendProperties DEF Shapes
  <2>4. {"placed"} \in PollT
        BY DEF PollT
  <2>5. /\ Len(polls') = Len(legs) + 1 /\ polls'[Len(legs) + 1] = {"placed"} /\ polls' \in Seq(PollT)
        /\ \A i \in Rest!Orders : polls'[i] = polls[i]
        BY <1>1, <2>2, <2>4, AppendProperties
  <2>6. Rest!Orders' = Rest!Orders \cup {Len(legs) + 1}
    <3>1. Rest!Orders' = 1..Len(legs')
          BY <2>3, LenProperties DEF Rest!Orders
    <3>2. 1..(Len(legs) + 1) = (1..Len(legs)) \cup {Len(legs) + 1}
          BY <1>1
    <3>3. QED BY <1>1, <2>3, <3>1, <3>2
  <2>7. ASSUME NEW i \in Rest!Orders'
        PROVE  (legs'[i].role # "exit" => "placed" \notin polls'[i]) /\ (~way.restarts => "blind" \notin polls'[i])
    <3>1. CASE i \in Rest!Orders
          BY <2>3, <2>5, <3>1 DEF PollsKept
    <3>2. CASE i = Len(legs) + 1
          BY <2>1, <2>3, <2>5, <3>2
    <3>3. QED BY <2>6, <3>1, <3>2
  <2>8. QED BY <2>2, <2>3, <2>5, <2>7 DEF PollsKept
<1>14. CASE Rest!Restarts
  <2>1. UNCHANGED <<way, legs>> /\ way.restarts /\ polls' = [i \in Rest!Orders |-> {}]
        BY <1>14 DEF Rest!Restarts
  <2>2. polls' \in Seq(PollT) /\ Len(polls') = Len(legs)
    <3>1. polls' \in [1..Len(legs) -> PollT]
          BY <1>1, <2>1 DEF PollT
    <3>2. QED BY <1>1, <3>1, MappedSeq
  <2>3. QED BY <2>1, <2>2 DEF PollsKept, Rest!Orders
<1>15. CASE Rest!Boots
  <2>1. UNCHANGED <<way, legs>> /\ "app" \in due /\ due' = due \ {"app"}
        /\ polls' = [i \in Rest!Orders |-> IF Rest!Open(i) THEN polls[i] \cup {"blind"} ELSE polls[i]]
        BY <1>15 DEF Rest!Boots
  <2>2. way.restarts
        BY <2>1 DEF PollsKept
  <2>3. polls' \in Seq(PollT) /\ Len(polls') = Len(legs)
    <3>1. \A j \in Rest!Orders : polls[j] \cup {"blind"} \in PollT
          BY <1>1 DEF PollT
    <3>2. polls' \in [1..Len(legs) -> PollT]
          BY <1>1, <2>1, <3>1
    <3>3. QED BY <1>1, <3>2, MappedSeq
  <2>4. \A j \in Rest!Orders : "placed" \in polls'[j] => "placed" \in polls[j]
        BY <2>1
  <2>5. QED BY <2>1, <2>2, <2>3, <2>4 DEF PollsKept, Rest!Orders
<1>16. CASE Rest!Resumes
  <2>1. way.restarts /\ way' = way
        BY <1>16 DEF Rest!Resumes, PollsKept
  <2>2. Len(legs') = Len(legs) /\ \A j \in Rest!Orders : legs'[j].role = legs[j].role
    <3>1. legs' = [i \in Rest!Orders |-> IF legs[i].role = "exit" /\ Rest!Open(i)
                                   THEN [legs[i] EXCEPT !.status = "CANCELLED"] ELSE legs[i]]
          BY <1>16 DEF Rest!Resumes
    <3>2. \A j \in Rest!Orders : [legs[j] EXCEPT !.status = "CANCELLED"].role = legs[j].role
          BY <1>1, Domains DEF LegT
    <3>3. legs' \in Seq(LegT) /\ DOMAIN legs' = 1..Len(legs)
          BY <1>1, <3>1 DEF TruthInv, Shapes
    <3>4. QED BY <1>1, <3>1, <3>2, <3>3, LenProperties
  <2>3. polls' \in Seq(PollT) /\ Len(polls') = Len(legs) /\ \A j \in Rest!Orders : polls'[j] \subseteq polls[j] \cup {"oco"}
    <3>1. CASE polls' = polls
          BY <1>1, <3>1
    <3>2. CASE polls' # polls
      <4>1. polls' = [polls EXCEPT ![1] = @ \cup {"oco"}] /\ Rest!Bracket # {}
            BY <1>16, <3>2 DEF Rest!Resumes
      <4>2. 1 \in Rest!Orders
            BY <1>1, <4>1 DEF Rest!Bracket
      <4>3. PICK T \in PollT : T = polls[1] \cup {"oco"}
            BY <1>1, <4>2 DEF PollT
      <4>4. polls' = [polls EXCEPT ![1] = T]
            BY <4>1, <4>3
      <4>5. QED BY <1>1, <4>2, <4>3, <4>4, ExceptSeq
    <3>3. QED BY <3>1, <3>2
  <2>4. Rest!Orders' = Rest!Orders
        BY <2>2, OrdersRead
  <2>5. \A j \in Rest!Orders : "placed" \in polls'[j] => "placed" \in polls[j]
        BY <2>3
  <2>6. QED BY <2>1, <2>2, <2>3, <2>4, <2>5 DEF PollsKept
<1>17. QED BY <1>4, <1>5, <1>6, <1>7, <1>8, <1>10, <1>11, <1>12, <1>13, <1>14, <1>15, <1>16
           DEF Rest!Next, Rest!Turns, Rest!LosesSight, Rest!Watches, Rest!Brackets, Rest!Places

(* What may go wrong is fixed at the start. *)
LEMMA WayStays ==
  ASSUME [Rest!Next]_(Rest!rest)
  PROVE  way' = way
BY DEF Rest!Next, Rest!Broker, Rest!Sells, Rest!Stops, Rest!Frames, Rest!Drops, Rest!Reconnects, Rest!Turns,
       Rest!Books, Rest!Ends, Rest!Waits, Rest!Spins, Rest!GivesUp, Rest!TimesOut, Rest!Brackets, Rest!Watches,
       Rest!LosesSight, Rest!Cancels, Rest!CancelsLocally, Rest!CancelEnds, Rest!Places, Rest!Restarts,
       Rest!Boots, Rest!Resumes, Rest!rest

LEMMA RowsInit ==
  ASSUME Total \in Nat, Rest!Init, TruthInv
  PROVE  RowsHonest /\ PollsKept
<1>1. Rest!Orders = 1..Len(legs) /\ Len(legs) \in Nat
      BY Domains DEF TruthInv
<1>2. ASSUME NEW i \in Rest!Orders
      PROVE  legs[i].role = "exit" /\ legs[i].by = "none" /\ legs[i].filled = 0
             /\ paper[i].st = "working" /\ paper[i].sold = 0 /\ news[i].st = "none" /\ polls[i] = {"placed"}
  <2>1. legs[i] = Rest!Leg("exit", Total)
        BY <1>2 DEF Rest!Init, Rest!Exit, Rest!Orders
  <2>2. paper[i] = Rest!Placed /\ polls[i] = {"placed"}
        BY DEF Rest!Init
  <2>3. news[i] = [Rest!NoNews EXCEPT !.coming = way.broker = "lime"]
        BY DEF Rest!Init
  <2>4. [Rest!NoNews EXCEPT !.coming = way.broker = "lime"].st = "none"
        BY DEF Rest!NoNews
  <2>5. QED BY <2>1, <2>2, <2>3, <2>4, FreshHonest
<1>3. \A i \in Rest!Orders : Honest(way, legs[i], paper[i], news[i])
      BY <1>2 DEF Honest
<1>4. LegsApart
      BY <1>2 DEF LegsApart
<1>5. Cardinality(Rest!Taken) = 0
  <2>1. Counting(legs) = {}
        BY <1>2 DEF Counting, Rest!Orders
  <2>2. Rest!Taken = {}
        BY <2>1, CountIs DEF Slices
  <2>3. QED BY <2>2, FS_EmptySet
<1>6. owed = Rest!AtLeast0(Total - Cardinality(Rest!Taken))
  <2>1. owed = Total /\ Total - 0 = Total
        BY DEF Rest!Init
  <2>2. QED BY <1>5, <2>1, OwedPlain
<1>7. polls \in Seq(PollT) /\ Len(polls) = Len(legs)
  <2>1. polls \in [1..Len(legs) -> PollT]
        BY <1>1 DEF Rest!Init, PollT
  <2>2. QED BY <1>1, <2>1, MappedSeq
<1>8. due = {}
      BY DEF Rest!Init
<1>9. QED BY <1>2, <1>3, <1>4, <1>6, <1>7, <1>8 DEF RowsHonest, PollsKept

LEMMA RowsNext ==
  ASSUME WholeIn(way), TruthInv, TruthInv', RowsHonest, PollsKept, [Rest!Next]_(Rest!rest)
  PROVE  RowsHonest' /\ PollsKept' /\ way' = way
<1>1. ASSUME NEW i \in Rest!Orders, Rest!Broker(i) \/ Rest!Frames(i) PROVE RowsHonest'
      BY <1>1, BrokerHonest, NewsHonest
<1>2. ASSUME NEW i \in Rest!Orders, NEW t \in Rest!Tasks,
             Rest!Books(i, t) \/ Rest!Ends(i, t) \/ Rest!Waits(i, t) \/ Rest!Spins(i, t)
      PROVE  RowsHonest'
      BY <1>2, BooksHonest, EndsHonest, NewsHonest
<1>3. ASSUME NEW i \in Rest!Orders, NEW t \in Rest!Tasks, Rest!GivesUp(i, t) \/ Rest!TimesOut(i, t) PROVE RowsHonest'
      BY <1>3, EndsHonest
<1>4. ASSUME Rest!Drops \/ Rest!Restarts
      PROVE  RowsHonest'
      BY <1>4, NewsHonest
<1>5. ASSUME Rest!Brackets \/ Rest!Watches \/ Rest!Places \/ Rest!Resumes
      PROVE  RowsHonest'
      BY <1>5, BracketsHonest, WatchesHonest, PlacesHonest, ResumesHonest
<1>6. ASSUME (\E i \in Rest!Orders : Rest!Cancels(i) \/ Rest!CancelsLocally(i)) \/ Rest!CancelEnds
      PROVE  RowsHonest'
      BY <1>6, CancelsHonest
<1>7. ASSUME Rest!Reconnects \/ Rest!LosesSight \/ Rest!Boots \/ UNCHANGED Rest!rest
      PROVE  RowsHonest'
      BY <1>7, QuietHonest
<1>8. RowsHonest'
      BY <1>1, <1>2, <1>3, <1>4, <1>5, <1>6, <1>7 DEF Rest!Next, Rest!Turns
<1>9. QED BY <1>8, PollsStay

LEMMA Lesser ==
  ASSUME NEW a \in Nat, NEW b \in Nat
  PROVE  Rest!Min({a, b}) = IF a =< b THEN a ELSE b
<1> DEFINE m == IF a =< b THEN a ELSE b
<1>1. m \in {a, b} /\ \A y \in {a, b} : m =< y
      OBVIOUS
<1>2. ASSUME NEW x \in {a, b}, \A y \in {a, b} : x =< y PROVE x = m
      BY <1>2
<1> HIDE DEF m
<1>3. (CHOOSE x \in {a, b} : \A y \in {a, b} : x =< y) = m
      BY <1>1, <1>2
<1>4. QED BY <1>3 DEF m, Rest!Min

(* The orders' module counts as this one does. *)
LEMMA CountedAlike ==
  ASSUME NEW S
  PROVE  Rest!Cardinality(S) = Cardinality(S)
BY DEF Rest!Cardinality, Cardinality

LEMMA RowsMean ==
  ASSUME Total \in Nat, TruthInv, RowsHonest
  PROVE  Rest!BooksOnce
<1> DEFINE c == Cardinality(Rest!Taken)
<1>1. c \in Nat
      BY CountNat DEF TruthInv
<1>2. owed = Rest!AtLeast0(Total - c)
      BY DEF RowsHonest
<1> HIDE DEF c
<1>3. Rest!Min({Total, c}) = IF Total =< c THEN Total ELSE c
      BY <1>1, Lesser
<1>4. Total - owed = Rest!Min({Total, c})
  <2>1. CASE Total =< c
    <3>1. owed = 0 /\ Rest!Min({Total, c}) = Total
          BY <1>1, <1>2, <1>3, <2>1 DEF Rest!AtLeast0
    <3>2. QED BY <3>1
  <2>2. CASE ~(Total =< c)
    <3>1. owed = Total - c /\ Rest!Min({Total, c}) = c
          BY <1>1, <1>2, <1>3, <2>2 DEF Rest!AtLeast0
    <3>2. QED BY <1>1, <3>1
  <2>3. QED BY <2>1, <2>2
<1>5. QED BY <1>4, CountedAlike DEF c, Rest!BooksOnce

(* Tradier and Lime: the tasks that know the position take every fill off   *)
(* it once, and what they take is what their rows say, up to the position:  *)
(* bracket watches that start again, tasks blind of the position, frames    *)
(* late or read twice, and rows cancelled or marked lost before the fill    *)
(* take it neither twice nor never; where no bracket that fills by parts    *)
(* meets a restart.                                                         *)
THEOREM RestFillsBookedOnce == VenuesSpec => [](WholeIn(way) => Rest!BooksOnce)
<1> DEFINE Inv == TruthInv /\ (WholeIn(way) => RowsHonest /\ PollsKept)
<1>0. Total \in Nat
      BY IbkrAssumption
<1>1. VenuesInit => Inv
      BY <1>0, TruthInit, RowsInit DEF VenuesInit
<1>2. Inv /\ [VenuesNext]_venues => Inv'
  <2> SUFFICES ASSUME Inv, [VenuesNext]_venues PROVE Inv'
      OBVIOUS
  <2>1. TruthInv' /\ [Rest!Next]_(Rest!rest)
        BY <1>0, TruthNext, RestMoves
  <2>2. way' = way
        BY <2>1, WayStays
  <2>3. QED BY <2>1, <2>2, RowsNext
<1>3. Inv => (WholeIn(way) => Rest!BooksOnce)
      BY <1>0, RowsMean
<1>4. QED BY <1>1, <1>2, <1>3, PTL DEF VenuesSpec

-----------------------------------------------------------------------------
(* Tradier and Lime: no more is sold than is held *)

(* A row that is no longer pending has an order that is dead, or one that   *)
(* has filled and is booked.                                                *)
Laid(r, p) == r.status = "PENDING" \/ p.st = "dead" \/ (p.st = "filled" /\ r.by # "none")

(* One exit is pending at most, for all that is left.  It is addressed, and *)
(* no cancel has cleared the way for another.                               *)
Guarded ==
  /\ \A i \in Rest!Orders : legs[i].role = "exit" /\ Laid(legs[i], paper[i])
  /\ \A i \in Rest!Orders : Rest!Open(i) =>
       /\ i \in known /\ legs[i].qty = owed /\ stock = owed - paper[i].sold
       /\ ~doubt.cleared /\ doubt.i \in {0, i}
       /\ \A j \in Rest!Orders : Rest!Open(j) => j = i
  /\ (\A i \in Rest!Orders : ~Rest!Open(i)) => stock = owed

Watchful == Rest!Careful /\ TruthInv /\ RowsHonest /\ PollsKept /\ Guarded

LEMMA WatchfulRead ==
  ASSUME Watchful, NEW i \in Rest!Orders
  PROVE  /\ Shapes /\ legs[i] \in LegT /\ paper[i] \in PaperT /\ owed \in Nat /\ paper[i].sold \in Nat
         /\ legs[i].role = "exit" /\ Laid(legs[i], paper[i])
         /\ Honest(way, legs[i], paper[i], news[i])
         /\ Rest!Group(i) = {i}
         /\ paper[i].st = "filled" \/ paper[i].sold = 0
<1>1. /\ Shapes /\ legs[i] \in LegT /\ paper[i] \in PaperT /\ owed \in Nat
      BY Domains DEF Watchful, TruthInv, Shapes
<1>2. paper[i].sold \in Nat
      BY <1>1 DEF PaperT
<1>3. legs[i].role = "exit" /\ Laid(legs[i], paper[i]) /\ Honest(way, legs[i], paper[i], news[i])
      BY DEF Watchful, Guarded, RowsHonest
<1>4. Rest!Group(i) = {i}
      BY <1>3 DEF Rest!Group
<1>5. paper[i].st = "filled" \/ paper[i].sold = 0
      BY <1>3 DEF Watchful, Rest!Careful, Honest
<1>6. QED BY <1>1, <1>2, <1>3, <1>4, <1>5

LEMMA QuietGuarded ==
  ASSUME Guarded, UNCHANGED <<legs, paper, known, doubt, owed, stock>>
  PROVE  Guarded'
BY DEF Guarded, Rest!Orders, Rest!Open

(* What a task reads dead is dead. *)
LEMMA ReadsDead ==
  ASSUME Watchful, NEW i \in Rest!Orders, Rest!Reads(i).st = "dead"
  PROVE  paper[i].st = "dead"
<1>1. CASE Rest!Hears(i)
      BY <1>1 DEF Rest!Reads, Watchful, TruthInv, FramesTrue
<1>2. CASE ~Rest!Hears(i)
  <2>1. Rest!Shown(i).st = "dead" /\ Rest!Group(i) = {i}
        BY <1>2, WatchfulRead DEF Rest!Reads
  <2>2. QED BY <2>1 DEF Rest!Shown
<1>3. QED BY <1>1, <1>2

LEMMA SellsGuarded ==
  ASSUME Watchful, NEW i \in Rest!Orders, NEW n \in 1..Total, Total \in Nat, Rest!Sells(i, n)
  PROVE  Guarded'
<1> DEFINE sold == paper[i].sold + n
           mine == [paper[i] EXCEPT !.sold = sold, !.st = IF sold = legs[i].qty THEN "filled" ELSE @]
<1>1. /\ paper[i] \in PaperT /\ legs[i].role = "exit" /\ paper[i].st = "working" /\ Laid(legs[i], paper[i])
      /\ paper[i].sold \in Nat /\ owed \in Nat
      BY WatchfulRead DEF Rest!Sells
<1>2. Rest!Open(i)
      BY <1>1 DEF Laid, Rest!Open
<1>3. /\ i \in known /\ legs[i].qty = owed /\ stock = owed - paper[i].sold /\ ~doubt.cleared /\ doubt.i \in {0, i}
      /\ \A j \in Rest!Orders : Rest!Open(j) => j = i
      BY <1>2 DEF Watchful, Guarded
<1>4. UNCHANGED <<legs, known, doubt, owed>> /\ stock' = stock - n /\ Rest!Orders' = Rest!Orders
      BY DEF Rest!Sells, Rest!Orders
<1>5. \A j \in Rest!Orders : paper'[j] = IF j = i THEN mine ELSE paper[j]
      BY <1>1 DEF Rest!Sells
<1>6. mine.sold = sold
      BY <1>1 DEF PaperT
<1>7. stock' = owed - sold
      BY <1>1, <1>3, <1>4
<1> HIDE DEF mine, sold
<1>8. QED BY <1>2, <1>3, <1>4, <1>5, <1>6, <1>7 DEF Guarded, Laid, Rest!Open, Watchful

LEMMA StopsGuarded ==
  ASSUME Watchful, NEW i \in Rest!Orders, Rest!Stops(i)
  PROVE  Guarded'
<1> DEFINE mine == [paper[i] EXCEPT !.st = "dead"]
<1>1. paper[i] \in PaperT /\ paper \in [Rest!Orders -> PaperT]
      BY Domains DEF Watchful, TruthInv
<1>2. UNCHANGED <<legs, known, doubt, owed, stock>> /\ Rest!Orders' = Rest!Orders
      BY DEF Rest!Stops, Rest!Orders
<1>3. \A j \in Rest!Orders : paper'[j] = IF j = i THEN mine ELSE paper[j]
      BY <1>1 DEF Rest!Stops
<1>4. mine.sold = paper[i].sold /\ mine.st = "dead"
      BY <1>1 DEF PaperT
<1> HIDE DEF mine
<1>5. QED BY <1>2, <1>3, <1>4 DEF Guarded, Laid, Rest!Open, Watchful

(* A row leaves the pending ones; nothing is pending any more, and what is  *)
(* held is what is left.                                                    *)
LEMMA EndedGuarded ==
  ASSUME Watchful, NEW i \in Rest!Orders, UNCHANGED <<paper, stock>>, Len(legs') = Len(legs), TruthInv',
         legs'[i].status # "PENDING", legs'[i].role = "exit", Laid(legs'[i], paper[i]),
         \A j \in Rest!Orders : j # i => legs'[j] = legs[j],
         Rest!Open(i) => stock = owed',
         ~Rest!Open(i) => owed' = owed /\ known \ {i} \subseteq known' /\ doubt' = doubt
  PROVE  Guarded'
<1>1. Rest!Orders' = Rest!Orders
      BY OrdersRead DEF Watchful
<1>2. CASE Rest!Open(i)
  <2>1. \A j \in Rest!Orders : Rest!Open(j) => j = i
        BY <1>2 DEF Watchful, Guarded
  <2>2. \A j \in Rest!Orders : legs'[j].status # "PENDING"
        BY <2>1 DEF Rest!Open
  <2>3. QED BY <1>1, <1>2, <2>2 DEF Guarded, Laid, Rest!Open, Watchful
<1>3. CASE ~Rest!Open(i)
  <2>1. \A j \in Rest!Orders : (legs'[j].status = "PENDING") <=> Rest!Open(j)
        BY <1>3 DEF Rest!Open
  <2>2. \A j \in Rest!Orders : Rest!Open(j) => j # i /\ (j \in known => j \in known')
        BY <1>3
  <2>3. QED BY <1>1, <1>3, <2>1, <2>2 DEF Guarded, Laid, Rest!Open, Watchful
<1>4. QED BY <1>2, <1>3

LEMMA EndsGuarded ==
  ASSUME Watchful, TruthInv', NEW i \in Rest!Orders, NEW t, Rest!Ends(i, t)
  PROVE  Guarded'
<1>1. /\ Shapes /\ legs[i].role = "exit" /\ owed \in Nat /\ paper[i].st = "dead" /\ Rest!Group(i) = {i}
      /\ paper[i].st = "filled" \/ paper[i].sold = 0
  <2>1. paper[i].st = "dead"
        BY ReadsDead DEF Rest!Ends
  <2>2. QED BY <2>1, WatchfulRead
<1>2. UNCHANGED <<paper, stock, owed, doubt>> /\ legs' = [legs EXCEPT ![i].status = "CANCELLED"] /\ known' = known \ {i}
      BY <1>1 DEF Rest!Ends, Rest!Leaves
<1>3. /\ Len(legs') = Len(legs) /\ legs'[i].status = "CANCELLED" /\ legs'[i].role = "exit"
      /\ \A j \in Rest!Orders : j # i => legs'[j] = legs[j]
  <2>1. Shapes /\ legs' = [legs EXCEPT ![i].status = "CANCELLED"]
        BY <1>1, <1>2
  <2>2. /\ Len(legs') = Len(legs) /\ legs'[i].status = "CANCELLED"
        /\ \A j \in Rest!Orders : Tidied(legs[j], legs'[j]) /\ (j # i => legs'[j] = legs[j])
        BY <2>1, StatusTidy
  <2>3. legs'[i].role = legs[i].role
        BY <2>2 DEF Tidied
  <2>4. QED BY <1>1, <2>2, <2>3
<1>4. Rest!Open(i) => stock = owed'
  <2>1. owed - 0 = owed
        BY <1>1
  <2>2. QED BY <1>1, <1>2, <2>1 DEF Watchful, Guarded
<1>5. QED BY <1>1, <1>2, <1>3, <1>4, EndedGuarded DEF Laid

LEMMA BooksGuarded ==
  ASSUME Watchful, TruthInv', NEW i \in Rest!Orders, NEW t \in Rest!Tasks, Rest!Books(i, t)
  PROVE  Guarded'
<1>1. /\ Shapes /\ legs[i] \in LegT /\ legs[i].role = "exit" /\ owed \in Nat /\ Rest!Group(i) = {i}
      /\ Honest(way, legs[i], paper[i], news[i])
      BY WatchfulRead
<1>2. paper[i].st = "filled" /\ Rest!Reads(i).sold = legs[i].qty
      BY <1>1, ReadsTrue DEF Watchful, Rest!Books
<1>3. t = "placed"
  <2>1. "blind" \notin polls[i]
        BY DEF Watchful, Rest!Careful, PollsKept
  <2>2. QED BY <2>1 DEF Rest!Books, Rest!At, Rest!Tasks
<1>4. PICK q \in Nat : q = legs[i].qty
      BY <1>1 DEF LegT
<1>5. /\ UNCHANGED <<paper, stock, doubt>> /\ legs' = Rest!Filled(i, q, t) /\ known' = known \ {i}
      /\ owed' = Rest!AtLeast0(owed - Rest!AtLeast0(q - legs[i].filled))
      BY <1>1, <1>2, <1>3, <1>4 DEF Rest!Books, Rest!Leaves
<1>6. /\ Len(legs') = Len(legs) /\ legs'[i].status = "FILLED" /\ legs'[i].role = "exit" /\ legs'[i].by # "none"
      /\ \A j \in Rest!Orders : j # i => legs'[j] = legs[j]
  <2>1. t \in {"placed", "blind", "oco"} /\ t # "none"
        BY <1>3
  <2>2. QED BY <1>1, <1>4, <1>5, <2>1, FilledRow
<1>7. ASSUME Rest!Open(i) PROVE stock = owed'
  <2>1. stock = owed - q /\ q = owed
    <3>1. legs[i].qty = owed /\ stock = owed - paper[i].sold
          BY <1>7 DEF Watchful, Guarded
    <3>2. paper[i].sold = legs[i].qty
          BY <1>1, <1>2 DEF Honest
    <3>3. QED BY <1>4, <3>1, <3>2
  <2>2. legs[i].filled = 0
        BY <1>1, <1>7 DEF Honest, Rest!Open
  <2>3. q - 0 = q /\ q - q = 0 /\ Rest!AtLeast0(q) = q /\ Rest!AtLeast0(0) = 0
        BY <1>4 DEF Rest!AtLeast0
  <2>4. owed' = 0
        BY <1>5, <2>1, <2>2, <2>3
  <2>5. QED BY <2>1, <2>3, <2>4
<1>8. ASSUME ~Rest!Open(i) PROVE owed' = owed
  <2>1. legs[i].filled = q
        BY <1>1, <1>2, <1>4, <1>8, WatchfulRead DEF Laid, Honest, Rest!Open
  <2>2. q - q = 0 /\ owed - 0 = owed /\ Rest!AtLeast0(owed) = owed /\ Rest!AtLeast0(0) = 0
        BY <1>1, <1>4 DEF Rest!AtLeast0
  <2>3. QED BY <1>5, <2>1, <2>2
<1>9. Laid(legs'[i], paper[i])
      BY <1>2, <1>6 DEF Laid
<1>10. QED BY <1>5, <1>6, <1>7, <1>8, <1>9, EndedGuarded

LEMMA CancelEndsGuarded ==
  ASSUME Watchful, TruthInv', Rest!CancelEnds
  PROVE  Guarded'
<1> DEFINE i == doubt.i
           word == Rest!Outcome(Rest!Seen(i))
<1>1. i \in Rest!Orders /\ UNCHANGED <<paper, owed, stock>>
      BY DEF Watchful, TruthInv, Shapes, Rest!CancelEnds
<1>2. /\ Shapes /\ legs[i].role = "exit" /\ owed \in Nat /\ Rest!Group(i) = {i}
      BY <1>1, WatchfulRead
<1>3. CASE doubt' = Rest!NoDoubt /\ UNCHANGED <<legs, known>>
  <2>1. Rest!NoDoubt.i = 0 /\ ~Rest!NoDoubt.cleared
        BY DEF Rest!NoDoubt
  <2>2. QED BY <1>1, <1>3, <2>1 DEF Watchful, Guarded, Rest!Orders, Rest!Open
<1>4. CASE word = "CANCELLED" /\ Rest!Strikes(i, word)
  <2>1. paper[i].st = "dead" /\ paper[i].sold = 0
        BY <1>1, <1>4, WordTrue DEF Watchful
  <2> HIDE DEF i, word
  <2>2. /\ Len(legs') = Len(legs) /\ \A j \in Rest!Orders : Tidied(legs[j], legs'[j]) /\ (j # i => legs'[j] = legs[j])
        /\ legs'[i].status # "PENDING"
        BY <1>1, <1>2, <1>4, StrikesTidy
  <2>3. Rest!Open(i) => stock = owed
    <3>1. owed - 0 = owed
          BY <1>2
    <3>2. QED BY <1>1, <2>1, <3>1 DEF Watchful, Guarded
  <2>4. \A j \in Rest!Orders : Rest!Open(j) => j = i
    <3>1. \A j \in Rest!Orders : Rest!Open(j) => i \in {0, j}
          BY DEF Watchful, Guarded, i
    <3>2. i # 0
          BY DEF Rest!CancelEnds, i
    <3>3. QED BY <3>1, <3>2
  <2>5. stock = owed
        BY <2>3, <2>4 DEF Watchful, Guarded
  <2>6. Rest!Orders' = Rest!Orders
        BY <2>2, OrdersRead DEF Watchful
  <2>7. \A j \in Rest!Orders : legs'[j].status # "PENDING"
        BY <2>2, <2>4 DEF Rest!Open
  <2>8. \A j \in Rest!Orders : legs'[j].role = "exit" /\ Laid(legs'[j], paper[j])
    <3>1. \A j \in Rest!Orders : legs[j].role = "exit" /\ Laid(legs[j], paper[j])
          BY DEF Watchful, Guarded
    <3>2. Laid(legs'[i], paper[i])
          BY <2>1 DEF Laid
    <3>3. QED BY <2>2, <3>1, <3>2 DEF Tidied
  <2>9. QED BY <1>1, <2>5, <2>6, <2>7, <2>8 DEF Guarded, Rest!Open
<1>5. way.confirm
      BY DEF Watchful, Rest!Careful
<1>6. QED BY <1>3, <1>4, <1>5 DEF Rest!CancelEnds

LEMMA CancelsGuarded ==
  ASSUME Watchful, TruthInv', NEW i \in Rest!Orders, Rest!Cancels(i) \/ Rest!CancelsLocally(i)
  PROVE  Guarded'
<1>1. Rest!Open(i)
      BY DEF Rest!Cancels, Rest!CancelsLocally
<1>2. i \in known /\ \A j \in Rest!Orders : Rest!Open(j) => j = i
      BY <1>1 DEF Watchful, Guarded
<1>3. /\ doubt' = [i |-> i, cleared |-> FALSE] /\ UNCHANGED <<legs, paper, known, owed, stock>>
      BY <1>2 DEF Rest!Cancels, Rest!CancelsLocally
<1>4. doubt'.i = i /\ ~doubt'.cleared
      BY <1>3
<1>5. QED BY <1>2, <1>3, <1>4 DEF Watchful, Guarded, Rest!Orders, Rest!Open

LEMMA PlacesGuarded ==
  ASSUME Watchful, Rest!Places
  PROVE  Guarded'
<1> DEFINE e == Rest!Leg("exit", owed)
           new == Len(legs) + 1
<1>1. /\ Rest!Orders = 1..Len(legs) /\ Len(legs) \in Nat /\ owed \in Nat
      /\ legs \in Seq(LegT) /\ paper \in Seq(PaperT) /\ Len(paper) = Len(legs)
      BY Domains DEF Watchful, TruthInv, Shapes
<1>2. e \in LegT /\ e.role = "exit" /\ e.status = "PENDING" /\ e.qty = owed
      BY <1>1 DEF Rest!Leg, LegT
<1>3. Rest!Placed \in PaperT /\ Rest!Placed.sold = 0
      BY DEF Rest!Placed, PaperT
<1>4. /\ legs' = Append(legs, e) /\ paper' = Append(paper, Rest!Placed) /\ known' = known \cup {new}
      /\ doubt' = Rest!NoDoubt /\ UNCHANGED <<owed, stock>>
      BY DEF Rest!Places
<1>5. \A j \in Rest!Orders : ~Rest!Open(j)
      BY DEF Rest!Places, Watchful, Guarded
<1> HIDE DEF e
<1>6. legs'[new] = e /\ Len(legs') = new /\ legs' \in Seq(LegT) /\ \A j \in Rest!Orders : legs'[j] = legs[j]
      BY <1>1, <1>2, <1>4, AppendProperties
<1>7. paper'[new] = Rest!Placed /\ \A j \in Rest!Orders : paper'[j] = paper[j]
      BY <1>1, <1>3, <1>4, AppendProperties
<1>8. Rest!Orders' = Rest!Orders \cup {new}
  <2>1. Rest!Orders' = 1..Len(legs')
        BY <1>6, LenProperties DEF Rest!Orders
  <2>2. 1..(Len(legs) + 1) = (1..Len(legs)) \cup {Len(legs) + 1}
        BY <1>1
  <2>3. QED BY <1>1, <1>6, <2>1, <2>2
<1>9. stock = owed /\ owed - 0 = owed
      BY <1>1, <1>5 DEF Watchful, Guarded
<1>10. Rest!NoDoubt.i = 0 /\ ~Rest!NoDoubt.cleared
       BY DEF Rest!NoDoubt
<1> HIDE DEF new
<1>11. \A j \in Rest!Orders' : (legs'[j].status = "PENDING") <=> j = new
  <2>1. new \notin Rest!Orders
        BY <1>1 DEF new
  <2>2. QED BY <1>2, <1>5, <1>6, <1>8, <2>1 DEF Rest!Open
<1>12. \A j \in Rest!Orders' : legs'[j].role = "exit" /\ Laid(legs'[j], paper'[j])
       BY <1>2, <1>6, <1>7, <1>8 DEF Laid, Watchful, Guarded
<1>13. ASSUME NEW j \in Rest!Orders', j = new
       PROVE  /\ j \in known' /\ legs'[j].qty = owed' /\ stock' = owed' - paper'[j].sold
              /\ ~doubt'.cleared /\ doubt'.i \in {0, j}
       BY <1>2, <1>3, <1>4, <1>6, <1>7, <1>9, <1>10, <1>13
<1>14. new \in Rest!Orders'
       BY <1>8
<1>15. QED BY <1>11, <1>12, <1>13, <1>14 DEF Guarded, Rest!Open

LEMMA GuardedInit ==
  ASSUME Total \in Nat, Rest!Init, Rest!Careful
  PROVE  Guarded
<1>1. legs = <<Rest!Exit>> /\ owed = Total /\ stock = Total /\ known = Rest!Orders /\ doubt = Rest!NoDoubt
      BY DEF Rest!Init, Rest!Careful
<1>2. Rest!Orders = {1}
      BY <1>1 DEF Rest!Orders
<1>3. legs[1] = Rest!Leg("exit", Total)
      BY <1>1 DEF Rest!Exit
<1>4. legs[1].role = "exit" /\ legs[1].qty = Total /\ legs[1].status = "PENDING"
      BY <1>3, FreshHonest
<1>5. paper[1] = Rest!Placed
      BY <1>2 DEF Rest!Init
<1>6. paper[1].sold = 0 /\ Total - 0 = Total
      BY <1>5, FreshHonest
<1>7. Rest!NoDoubt.i = 0 /\ ~Rest!NoDoubt.cleared
      BY DEF Rest!NoDoubt
<1>8. QED BY <1>1, <1>2, <1>4, <1>6, <1>7 DEF Guarded, Laid, Rest!Open

LEMMA GuardedNext ==
  ASSUME Total \in Nat, Watchful, TruthInv', [Rest!Next]_(Rest!rest)
  PROVE  Guarded'
<1>1. ASSUME NEW i \in Rest!Orders, Rest!Broker(i) PROVE Guarded'
      BY <1>1, SellsGuarded, StopsGuarded DEF Rest!Broker
<1>2. ASSUME NEW i \in Rest!Orders, NEW t \in Rest!Tasks, Rest!Books(i, t) \/ Rest!Ends(i, t) PROVE Guarded'
      BY <1>2, BooksGuarded, EndsGuarded
<1>3. CASE \/ \E i \in Rest!Orders : Rest!Frames(i) \/ \E t \in Rest!Tasks : Rest!Waits(i, t) \/ Rest!Spins(i, t)
           \/ Rest!Drops \/ Rest!Reconnects \/ UNCHANGED Rest!rest
  <2>1. UNCHANGED <<legs, paper, known, doubt, owed, stock>>
        BY <1>3 DEF Rest!Frames, Rest!Waits, Rest!Spins, Rest!Drops, Rest!Reconnects, Rest!rest
  <2>2. QED BY <2>1, QuietGuarded DEF Watchful
<1>4. ASSUME NEW i \in Rest!Orders, NEW t \in Rest!Tasks, Rest!GivesUp(i, t) \/ Rest!TimesOut(i, t) PROVE FALSE
      BY <1>4 DEF Rest!GivesUp, Rest!TimesOut, Watchful, Rest!Careful
<1>5. ~(Rest!Brackets \/ Rest!Watches \/ Rest!LosesSight \/ Rest!Restarts \/ Rest!Boots \/ Rest!Resumes)
  <2>1. Rest!Bracket = {}
        BY DEF Rest!Bracket, Watchful, Guarded
  <2>2. due = {} /\ way.start = "exit" /\ ~way.restarts
        BY DEF Watchful, Rest!Careful, PollsKept
  <2>3. QED BY <2>1, <2>2 DEF Rest!Brackets, Rest!Watches, Rest!LosesSight, Rest!Restarts, Rest!Boots, Rest!Resumes
<1>6. CASE (\E i \in Rest!Orders : Rest!Cancels(i) \/ Rest!CancelsLocally(i)) \/ Rest!CancelEnds
      BY <1>6, CancelsGuarded, CancelEndsGuarded
<1>7. CASE Rest!Places
      BY <1>7, PlacesGuarded
<1>8. QED BY <1>1, <1>2, <1>3, <1>4, <1>5, <1>6, <1>7 DEF Rest!Next, Rest!Turns

LEMMA GuardedMeans ==
  ASSUME Watchful
  PROVE  stock >= 0
<1>1. owed \in Nat
      BY DEF Watchful, TruthInv, Shapes
<1>2. ASSUME NEW i \in Rest!Orders, Rest!Open(i) PROVE stock >= 0
  <2>1. stock = owed - paper[i].sold /\ legs[i].qty = owed
        BY <1>2 DEF Watchful, Guarded
  <2>2. paper[i].sold = owed \/ paper[i].sold = 0
        BY <2>1, WatchfulRead DEF Honest
  <2>3. owed - 0 = owed /\ owed - owed = 0
        BY <1>1
  <2>4. QED BY <1>1, <2>1, <2>2, <2>3
<1>3. CASE \A i \in Rest!Orders : ~Rest!Open(i)
      BY <1>1, <1>3 DEF Watchful, Guarded
<1>4. QED BY <1>2, <1>3

(* At Tradier and Lime too no more is sold than is held, when each cancel   *)
(* waits for the broker's word: an exit is replaced when it is dead or its  *)
(* fill is booked, and for what is left, though frames are late and the     *)
(* socket drops under the cancel.                                           *)
THEOREM RestNeverShort == VenuesSpec => []Rest!NotOversold
<1> DEFINE Inv == TruthInv /\ (Rest!Careful => Watchful)
<1>0. Total \in Nat
      BY IbkrAssumption
<1>1. VenuesInit => Inv
  <2>1. SUFFICES ASSUME Rest!Init PROVE TruthInv /\ (Rest!Careful => Watchful)
        BY DEF VenuesInit
  <2>2. TruthInv /\ RowsHonest /\ PollsKept
        BY <1>0, <2>1, TruthInit, RowsInit
  <2>3. QED BY <1>0, <2>1, <2>2, GuardedInit DEF Watchful
<1>2. Inv /\ [VenuesNext]_venues => Inv'
  <2>1. SUFFICES ASSUME Inv, [VenuesNext]_venues PROVE TruthInv' /\ (Rest!Careful' => Watchful')
        OBVIOUS
  <2>2. TruthInv' /\ [Rest!Next]_(Rest!rest)
        BY <1>0, <2>1, TruthNext, RestMoves
  <2>3. way' = way
        BY <2>2, WayStays
  <2>4. ASSUME Rest!Careful' PROVE Watchful'
    <3>1. Watchful /\ WholeIn(way)
          BY <2>1, <2>3, <2>4 DEF Rest!Careful, WholeIn
    <3>2. RowsHonest' /\ PollsKept'
          BY <2>2, <3>1, RowsNext DEF Watchful
    <3>3. Guarded'
          BY <1>0, <2>2, <3>1, GuardedNext
    <3>4. QED BY <2>2, <2>4, <3>2, <3>3 DEF Watchful
  <2>5. QED BY <2>2, <2>4
<1>3. Inv => Rest!NotOversold
      BY GuardedMeans DEF Rest!NotOversold
<1> HIDE DEF Inv
<1>4. QED BY <1>1, <1>2, <1>3, PTL DEF VenuesSpec

-----------------------------------------------------------------------------
(* Spreads: a row counts what its FILLED orders say *)

TicketT == [key : Keys, side : {"BUY", "SELL"}, qty : Nat, who : Analysts \cup {"none"},
            status : {"PENDING", "FILLED", "REJECTED", "CANCELLED"}, at : {"posting", "polling", "over"}]
MarketT == [st : {"none", "working", "filled", "dead"}, done : Nat]
FlyT == [status : {"none", "OPEN", "PARTIAL", "CLOSED"}, author : Analysts \cup {"none"}, total : Nat, remaining : Nat, settled : Nat]

Deals ==
  /\ tickets \in Seq(TicketT) /\ market \in Seq(MarketT) /\ Len(market) = Len(tickets)
  /\ flies \in [Keys -> FlyT] /\ lots \in [Keys -> Int]

(* An order that something still waits for is PENDING; an opening is within *)
(* the cap.                                                                 *)
Sound(t, m) ==
  /\ t.at # "over" => t.status = "PENDING"
  /\ t.at = "posting" => m.st = "none"
  /\ t.side = "BUY" => t.qty >= 1 /\ t.qty =< Ceiling

Paid(ts, k, side) == {i \in DOMAIN ts : ts[i].key = k /\ ts[i].side = side /\ ts[i].status = "FILLED"}
Qtys(ts) == [i \in DOMAIN ts |-> ts[i].qty]
Sides == {"BUY", "SELL"}

DeskInv ==
  /\ Deals
  /\ \A i \in Spreads!Tickets : Sound(tickets[i], market[i])
  /\ \A k \in Keys : Spreads!Free(k) => \A side \in Sides : Paid(tickets, k, side) = {}
  /\ Spreads!SpreadsAgree

LEMMA DealsRead ==
  ASSUME Deals
  PROVE  /\ Spreads!Tickets = 1..Len(tickets) /\ Len(tickets) \in Nat
         /\ \A i \in Spreads!Tickets : tickets[i] \in TicketT /\ market[i] \in MarketT
BY LenProperties DEF Deals, Spreads!Tickets

LEMMA BookedIs ==
  ASSUME NEW k, NEW side
  PROVE  /\ Spreads!Booked(k, side) = Cardinality(Slices(Qtys(tickets), Paid(tickets, k, side)))
         /\ Spreads!Booked(k, side)' = Cardinality(Slices(Qtys(tickets'), Paid(tickets', k, side)))
<1>1. \A S : Spreads!Cardinality(S) = Cardinality(S)
      BY DEF Spreads!Cardinality, Cardinality
<1>2. /\ UNION {{i} \X (1 .. tickets[i].qty) : i \in Paid(tickets, k, side)} = Slices(Qtys(tickets), Paid(tickets, k, side))
      /\ UNION {{i} \X (1 .. tickets'[i].qty) : i \in Paid(tickets', k, side)} = Slices(Qtys(tickets'), Paid(tickets', k, side))
      BY DEF Slices, Qtys, Paid
<1>3. QED BY <1>1, <1>2 DEF Spreads!Booked, Spreads!Tickets, Paid

LEMMA BookedSame ==
  ASSUME NEW k, NEW side, Paid(tickets', k, side) = Paid(tickets, k, side),
         \A i \in Paid(tickets, k, side) : tickets'[i].qty = tickets[i].qty
  PROVE  Spreads!Booked(k, side)' = Spreads!Booked(k, side)
<1>1. \A i \in Paid(tickets, k, side) : Qtys(tickets')[i] = Qtys(tickets)[i]
  <2>1. \A i \in Paid(tickets, k, side) : i \in DOMAIN tickets /\ i \in DOMAIN tickets'
        BY DEF Paid
  <2>2. QED BY <2>1 DEF Qtys
<1>2. Slices(Qtys(tickets'), Paid(tickets, k, side)) = Slices(Qtys(tickets), Paid(tickets, k, side))
      BY <1>1, SlicesSame
<1>3. QED BY <1>2, BookedIs

LEMMA BookedNat ==
  ASSUME Deals, NEW k, NEW side
  PROVE  /\ Spreads!Booked(k, side) \in Nat /\ IsFiniteSet(Paid(tickets, k, side))
         /\ \A i \in Paid(tickets, k, side) : Qtys(tickets)[i] = tickets[i].qty /\ tickets[i].qty \in Nat
         /\ Paid(tickets, k, side) = {} => Spreads!Booked(k, side) = 0
<1>1. Paid(tickets, k, side) \subseteq 1..Len(tickets) /\ Len(tickets) \in Nat
      BY DealsRead DEF Paid, Spreads!Tickets
<1>2. IsFiniteSet(Paid(tickets, k, side))
  <2>1. IsFiniteSet(1..Len(tickets))
        BY <1>1, FS_Interval
  <2>2. QED BY <1>1, <2>1, FS_Subset
<1>3. \A i \in Paid(tickets, k, side) : Qtys(tickets)[i] = tickets[i].qty /\ tickets[i].qty \in Nat
      BY DealsRead DEF Paid, Qtys, TicketT, Spreads!Tickets
<1>4. Cardinality(Slices(Qtys(tickets), Paid(tickets, k, side))) \in Nat
      BY <1>2, <1>3, SlicesFinite
<1>5. ASSUME Paid(tickets, k, side) = {} PROVE Spreads!Booked(k, side) = 0
  <2>1. Slices(Qtys(tickets), Paid(tickets, k, side)) = {}
        BY <1>5 DEF Slices
  <2>2. QED BY <2>1, BookedIs, FS_EmptySet
<1>6. QED BY <1>2, <1>3, <1>4, <1>5, BookedIs

LEMMA BookedMore ==
  ASSUME Deals, NEW k, NEW side, NEW i, i \notin Paid(tickets, k, side),
         Paid(tickets', k, side) = Paid(tickets, k, side) \cup {i},
         tickets'[i].qty \in Nat,
         \A j \in Paid(tickets, k, side) : tickets'[j].qty = tickets[j].qty
  PROVE  Spreads!Booked(k, side)' = Spreads!Booked(k, side) + tickets'[i].qty
<1>1. PICK S : S = Paid(tickets, k, side)
      OBVIOUS
<1>2. PICK f : f = Qtys(tickets')
      OBVIOUS
<1>3. IsFiniteSet(S) /\ i \notin S
      BY <1>1, BookedNat
<1>4. \A j \in S \cup {i} : f[j] = tickets'[j].qty
  <2>1. \A j \in S \cup {i} : j \in DOMAIN tickets'
        BY <1>1 DEF Paid
  <2>2. QED BY <1>2, <2>1 DEF Qtys
<1>5. (\A j \in S : f[j] = Qtys(tickets)[j] /\ f[j] \in Nat) /\ f[i] \in Nat /\ f[i] = tickets'[i].qty
      BY <1>1, <1>4, BookedNat
<1>6. Cardinality(Slices(f, S \cup {i})) = Cardinality(Slices(f, S)) + f[i]
      BY <1>3, <1>5, SlicesMore
<1>7. Slices(f, S) = Slices(Qtys(tickets), S)
      BY <1>5, SlicesSame
<1>8. QED BY <1>1, <1>2, <1>5, <1>6, <1>7, BookedIs

(* Steps that book nothing. *)
LEMMA QuietDesk ==
  ASSUME DeskInv, Deals', UNCHANGED flies,
         \A i \in Spreads!Tickets' : Sound(tickets'[i], market'[i]),
         \A k \in Keys, side \in Sides : Paid(tickets', k, side) = Paid(tickets, k, side),
         \A i \in Spreads!Tickets : tickets'[i].qty = tickets[i].qty
  PROVE  DeskInv'
<1>1. ASSUME NEW k \in Keys, NEW side \in Sides PROVE Spreads!Booked(k, side)' = Spreads!Booked(k, side)
      BY <1>1, BookedSame DEF Paid, Spreads!Tickets
<1>2. \A k \in Keys : Spreads!Free(k)' <=> Spreads!Free(k)
      BY DEF Spreads!Free
<1>3. \A k \in Keys : Spreads!Free(k)' => \A side \in Sides : Paid(tickets', k, side) = {}
      BY <1>2 DEF DeskInv
<1>4. Spreads!SpreadsAgree'
  <2>1. SUFFICES ASSUME NEW k \in Keys
                 PROVE  /\ flies'[k].total = Spreads!Booked(k, "BUY")' /\ flies'[k].total =< Ceiling
                        /\ flies'[k].remaining = Spreads!Most(0, flies'[k].total - Spreads!Booked(k, "SELL")' - flies'[k].settled)
        BY DEF Spreads!SpreadsAgree
  <2>2. Spreads!Booked(k, "BUY")' = Spreads!Booked(k, "BUY") /\ Spreads!Booked(k, "SELL")' = Spreads!Booked(k, "SELL")
        BY <1>1 DEF Sides
  <2>3. QED BY <2>2 DEF DeskInv, Spreads!SpreadsAgree
<1>5. QED BY <1>3, <1>4 DEF DeskInv

(* An order is booked: an opening makes the row of a key that has none, a   *)
(* close reduces the row.                                                   *)
LEMMA BookedDesk ==
  ASSUME DeskInv, Deals', NEW k \in Keys, NEW side \in Sides, NEW i, NEW n \in Nat,
         \A j \in Spreads!Tickets' : Sound(tickets'[j], market'[j]),
         \A j \in Spreads!Tickets : tickets'[j].qty = tickets[j].qty,
         tickets'[i].qty = n, i \notin Paid(tickets, k, side),
         Paid(tickets', k, side) = Paid(tickets, k, side) \cup {i},
         \A j \in Keys, s \in Sides : j # k \/ s # side => Paid(tickets', j, s) = Paid(tickets, j, s),
         \A j \in Keys : j # k => flies'[j] = flies[j],
         flies'[k].status # "none",
         \/ /\ side = "BUY" /\ Spreads!Free(k) /\ n =< Ceiling
            /\ flies'[k].total = n /\ flies'[k].remaining = n /\ flies'[k].settled = 0
         \/ /\ side = "SELL" /\ flies'[k].total = flies[k].total /\ flies'[k].settled = flies[k].settled
            /\ flies'[k].remaining = Spreads!Most(0, flies[k].remaining - n)
  PROVE  DeskInv'
<1>1. Deals /\ \A j \in Keys, s \in Sides : Spreads!Booked(j, s) \in Nat
      BY BookedNat DEF DeskInv
<1>2. ASSUME NEW j \in Keys, NEW s \in Sides, j # k \/ s # side PROVE Spreads!Booked(j, s)' = Spreads!Booked(j, s)
      BY <1>2, BookedSame DEF Paid, Spreads!Tickets
<1>3. Spreads!Booked(k, side)' = Spreads!Booked(k, side) + n
      BY <1>1, BookedMore DEF Paid, Spreads!Tickets
<1>4. \A j \in Keys : Spreads!Free(j)' => \A s \in Sides : Paid(tickets', j, s) = {}
      BY DEF Spreads!Free, DeskInv
<1>5. ASSUME NEW j \in Keys
      PROVE  /\ flies'[j].total = Spreads!Booked(j, "BUY")' /\ flies'[j].total =< Ceiling
             /\ flies'[j].remaining = Spreads!Most(0, flies'[j].total - Spreads!Booked(j, "SELL")' - flies'[j].settled)
  <2>1. PICK b \in Nat : b = Spreads!Booked(j, "BUY")
        BY <1>1 DEF Sides
  <2>2. PICK s \in Nat : s = Spreads!Booked(j, "SELL")
        BY <1>1 DEF Sides
  <2>0. PICK g \in Nat : g = flies[j].settled
        BY <1>1 DEF Deals, FlyT
  <2>3. flies[j].total = b /\ b =< Ceiling /\ flies[j].remaining = Spreads!Most(0, b - s - g)
        BY <2>0, <2>1, <2>2 DEF DeskInv, Spreads!SpreadsAgree
  <2>4. CASE j # k
    <3>1. Spreads!Booked(j, "BUY")' = b /\ Spreads!Booked(j, "SELL")' = s
          BY <1>2, <2>1, <2>2, <2>4 DEF Sides
    <3>2. QED BY <2>0, <2>3, <2>4, <3>1
  <2>5. CASE j = k /\ side = "BUY"
    <3>1. Spreads!Free(k) /\ n =< Ceiling /\ flies'[k].total = n /\ flies'[k].remaining = n /\ flies'[k].settled = 0
          BY <2>5
    <3>2. b = 0 /\ s = 0
      <4>1. Paid(tickets, k, "BUY") = {} /\ Paid(tickets, k, "SELL") = {}
            BY <3>1 DEF DeskInv, Sides
      <4>2. QED BY <1>1, <2>1, <2>2, <2>5, <4>1, BookedNat
    <3>3. Spreads!Booked(j, "BUY")' = n /\ Spreads!Booked(j, "SELL")' = 0
      <4>1. Spreads!Booked(k, "SELL")' = Spreads!Booked(k, "SELL")
            BY <1>2, <2>5 DEF Sides
      <4>2. Spreads!Booked(k, "BUY")' = 0 + n
            BY <1>3, <2>1, <2>5, <3>2
      <4>3. QED BY <2>2, <2>5, <3>2, <4>1, <4>2
    <3>4. Spreads!Most(0, n - 0 - 0) = n
          BY DEF Spreads!Most
    <3>5. QED BY <2>5, <3>1, <3>3, <3>4
  <2>6. CASE j = k /\ side = "SELL"
    <3>1. /\ flies'[k].total = flies[k].total /\ flies'[k].remaining = Spreads!Most(0, flies[k].remaining - n)
          /\ flies'[k].settled = flies[k].settled
          BY <2>6
    <3>2. Spreads!Booked(j, "BUY")' = b
      <4>1. Spreads!Booked(k, "BUY")' = Spreads!Booked(k, "BUY")
            BY <1>2, <2>6 DEF Sides
      <4>2. QED BY <2>1, <2>6, <4>1
    <3>3. Spreads!Booked(j, "SELL")' = s + n
          BY <1>3, <2>2, <2>6
    <3>4. Spreads!Most(0, Spreads!Most(0, b - s - g) - n) = Spreads!Most(0, b - (s + n) - g)
          BY DEF Spreads!Most
    <3>5. QED BY <2>0, <2>3, <2>6, <3>1, <3>2, <3>3, <3>4
  <2>7. QED BY <2>4, <2>5, <2>6 DEF Sides
<1>6. Spreads!SpreadsAgree'
      BY <1>5 DEF Spreads!SpreadsAgree
<1>7. QED BY <1>4, <1>6 DEF DeskInv

(* A step of one order: its ticket becomes t, its record at Tradier m.      *)
LEMMA OneTicket ==
  ASSUME Deals, NEW i \in Spreads!Tickets, NEW t \in TicketT, NEW m \in MarketT,
         t.key = tickets[i].key, t.side = tickets[i].side, t.qty = tickets[i].qty,
         tickets' = [tickets EXCEPT ![i] = t], market' = [market EXCEPT ![i] = m]
  PROVE  /\ Spreads!Tickets' = Spreads!Tickets
         /\ tickets' \in Seq(TicketT) /\ market' \in Seq(MarketT) /\ Len(market') = Len(tickets')
         /\ tickets'[i] = t /\ market'[i] = m
         /\ \A j \in Spreads!Tickets : j # i => tickets'[j] = tickets[j] /\ market'[j] = market[j]
         /\ \A j \in Spreads!Tickets : tickets'[j].qty = tickets[j].qty
         /\ \A k \in Keys, side \in Sides :
              (~(t.key = k /\ t.side = side) \/ (t.status = "FILLED" <=> tickets[i].status = "FILLED")) =>
                Paid(tickets', k, side) = Paid(tickets, k, side)
         /\ t.status = "FILLED" => Paid(tickets', t.key, t.side) = Paid(tickets, t.key, t.side) \cup {i}
<1>1. /\ Spreads!Tickets = 1..Len(tickets) /\ tickets \in Seq(TicketT) /\ market \in Seq(MarketT)
      /\ Len(market) = Len(tickets) /\ Len(tickets) \in Nat
      BY DealsRead DEF Deals
<1>2. /\ tickets' \in Seq(TicketT) /\ Len(tickets') = Len(tickets)
      /\ \A j \in 1..Len(tickets) : tickets'[j] = IF j = i THEN t ELSE tickets[j]
      BY <1>1, ExceptSeq
<1>3. /\ market' \in Seq(MarketT) /\ Len(market') = Len(market)
      /\ \A j \in 1..Len(market) : market'[j] = IF j = i THEN m ELSE market[j]
      BY <1>1, ExceptSeq
<1>4. Spreads!Tickets' = Spreads!Tickets
      BY <1>1, <1>2, LenProperties DEF Spreads!Tickets
<1>5. ASSUME NEW k \in Keys, NEW side \in Sides,
             ~(t.key = k /\ t.side = side) \/ (t.status = "FILLED" <=> tickets[i].status = "FILLED")
      PROVE  Paid(tickets', k, side) = Paid(tickets, k, side)
      BY <1>1, <1>2, <1>4, <1>5 DEF Paid, Spreads!Tickets
<1>6. ASSUME t.status = "FILLED" PROVE Paid(tickets', t.key, t.side) = Paid(tickets, t.key, t.side) \cup {i}
      BY <1>1, <1>2, <1>4, <1>6 DEF Paid, Spreads!Tickets
<1>7. QED BY <1>1, <1>2, <1>3, <1>4, <1>5, <1>6

(* It is booked, or it is not. *)
LEMMA QuietTicket ==
  ASSUME DeskInv, NEW i \in Spreads!Tickets, NEW t \in TicketT, NEW m \in MarketT,
         t.key = tickets[i].key, t.side = tickets[i].side, t.qty = tickets[i].qty,
         tickets' = [tickets EXCEPT ![i] = t], market' = [market EXCEPT ![i] = m],
         t.status = "FILLED" <=> tickets[i].status = "FILLED", Sound(t, m),
         UNCHANGED flies, lots' \in [Keys -> Int]
  PROVE  DeskInv'
<1>1. Deals
      BY DEF DeskInv
<1>2. /\ Spreads!Tickets' = Spreads!Tickets
      /\ tickets' \in Seq(TicketT) /\ market' \in Seq(MarketT) /\ Len(market') = Len(tickets')
      /\ tickets'[i] = t /\ market'[i] = m
      /\ \A j \in Spreads!Tickets : j # i => tickets'[j] = tickets[j] /\ market'[j] = market[j]
      /\ \A j \in Spreads!Tickets : tickets'[j].qty = tickets[j].qty
      /\ \A k \in Keys, side \in Sides :
           (~(t.key = k /\ t.side = side) \/ (t.status = "FILLED" <=> tickets[i].status = "FILLED")) =>
             Paid(tickets', k, side) = Paid(tickets, k, side)
      BY <1>1, OneTicket
<1>3. \A k \in Keys, side \in Sides : Paid(tickets', k, side) = Paid(tickets, k, side)
      BY <1>2
<1>4. Deals'
      BY <1>1, <1>2 DEF Deals
<1>5. \A j \in Spreads!Tickets' : Sound(tickets'[j], market'[j])
      BY <1>2 DEF DeskInv
<1>6. QED BY <1>2, <1>3, <1>4, <1>5, QuietDesk

LEMMA PostsDesk ==
  ASSUME DeskInv, NEW i \in Spreads!Tickets, Spreads!Posts(i) \/ Spreads!PostFails(i)
  PROVE  DeskInv'
<1>1. tickets[i] \in TicketT /\ market[i] \in MarketT /\ Sound(tickets[i], market[i]) /\ lots \in [Keys -> Int]
      BY DealsRead DEF DeskInv, Deals
<1>2. tickets[i].status = "PENDING" /\ UNCHANGED <<flies, lots>>
      BY <1>1 DEF Sound, Spreads!Posts, Spreads!PostFails
<1>3. CASE Spreads!Posts(i)
  <2>1. PICK t : t = [tickets[i] EXCEPT !.at = "polling"]
        OBVIOUS
  <2>2. PICK m : m = [market[i] EXCEPT !.st = "working"]
        OBVIOUS
  <2>3. /\ t \in TicketT /\ t.key = tickets[i].key /\ t.side = tickets[i].side /\ t.qty = tickets[i].qty
        /\ t.status = "PENDING" /\ t.at = "polling"
        BY <1>1, <1>2, <2>1 DEF TicketT
  <2>4. m \in MarketT
        BY <1>1, <2>2 DEF MarketT
  <2>5. tickets' = [tickets EXCEPT ![i] = t] /\ market' = [market EXCEPT ![i] = m]
        BY <1>3, <2>1, <2>2 DEF Spreads!Posts
  <2>6. Sound(t, m)
        BY <1>1, <2>3 DEF Sound
  <2>7. QED BY <1>1, <1>2, <2>3, <2>4, <2>5, <2>6, QuietTicket
<1>4. CASE Spreads!PostFails(i)
  <2>1. PICK t : t = [tickets[i] EXCEPT !.at = "over", !.status = "REJECTED"]
        OBVIOUS
  <2>2. PICK st \in {"dead", "working"} : market' = [market EXCEPT ![i].st = st]
        BY <1>4 DEF Spreads!PostFails
  <2>3. PICK m : m = [market[i] EXCEPT !.st = st]
        OBVIOUS
  <2>4. /\ t \in TicketT /\ t.key = tickets[i].key /\ t.side = tickets[i].side /\ t.qty = tickets[i].qty
        /\ t.status = "REJECTED" /\ t.at = "over"
        BY <1>1, <2>1 DEF TicketT
  <2>5. m \in MarketT
        BY <1>1, <2>3 DEF MarketT
  <2>6. tickets \in Seq(TicketT) /\ Spreads!Tickets = 1..Len(tickets)
        BY DealsRead DEF DeskInv, Deals
  <2>7. tickets' = [tickets EXCEPT ![i] = t] /\ market' = [market EXCEPT ![i] = m]
        BY <1>4, <2>1, <2>2, <2>3, <2>6 DEF Spreads!PostFails
  <2>8. Sound(t, m)
        BY <1>1, <2>4 DEF Sound
  <2>9. QED BY <1>1, <1>2, <2>4, <2>5, <2>7, <2>8, QuietTicket
<1>5. QED BY <1>3, <1>4

LEMMA TradesDesk ==
  ASSUME DeskInv, NEW i \in Spreads!Tickets, Spreads!Lapses(i) \/ \E n \in 1..Ceiling : Spreads!Trades(i, n)
  PROVE  DeskInv'
<1>1. /\ tickets[i] \in TicketT /\ market[i] \in MarketT /\ Sound(tickets[i], market[i])
      /\ tickets \in Seq(TicketT) /\ Spreads!Tickets = 1..Len(tickets) /\ lots \in [Keys -> Int]
      BY DealsRead DEF DeskInv, Deals
<1>2. UNCHANGED <<flies, tickets>> /\ market[i].st = "working"
      BY DEF Spreads!Lapses, Spreads!Trades, Spreads!Live
<1>3. tickets' = [tickets EXCEPT ![i] = tickets[i]]
      BY <1>1, <1>2
<1>4. \E m \in MarketT : market' = [market EXCEPT ![i] = m]
  <2>1. CASE Spreads!Lapses(i)
    <3>1. [market[i] EXCEPT !.st = "dead"] \in MarketT
          BY <1>1 DEF MarketT
    <3>2. QED BY <2>1, <3>1 DEF Spreads!Lapses
  <2>2. ASSUME NEW n \in 1..Ceiling, Spreads!Trades(i, n) PROVE \E m \in MarketT : market' = [market EXCEPT ![i] = m]
    <3> DEFINE done == market[i].done + n
               st == IF done = tickets[i].qty THEN "filled" ELSE "working"
    <3>1. done \in Nat /\ st \in {"filled", "working"}
          BY <1>1, CapsAssumption DEF MarketT
    <3>2. market' = [market EXCEPT ![i] = [st |-> st, done |-> done]]
          BY <2>2 DEF Spreads!Trades
    <3> HIDE DEF done, st
    <3>3. [st |-> st, done |-> done] \in MarketT
          BY <3>1 DEF MarketT
    <3>4. QED BY <3>2, <3>3
  <2>3. QED BY <2>1, <2>2
<1>5. lots' \in [Keys -> Int]
  <2>1. CASE lots' = lots
        BY <1>1, <2>1
  <2>2. ASSUME NEW n \in 1..Ceiling, Spreads!Trades(i, n) PROVE lots' \in [Keys -> Int]
    <3>1. tickets[i].key \in Keys /\ n \in Int
          BY <1>1, CapsAssumption DEF TicketT
    <3>2. QED BY <1>1, <2>2, <3>1 DEF Spreads!Trades
  <2>3. QED BY <2>1, <2>2 DEF Spreads!Lapses
<1>6. PICK m \in MarketT : market' = [market EXCEPT ![i] = m]
      BY <1>4
<1>7. Sound(tickets[i], m)
      BY <1>1, <1>2 DEF Sound
<1>8. QED BY <1>1, <1>2, <1>3, <1>5, <1>6, <1>7, QuietTicket

LEMMA FilledDesk ==
  ASSUME DeskInv, NEW i \in Spreads!Tickets, Spreads!BooksOpen(i) \/ Spreads!BooksClose(i)
  PROVE  DeskInv'
<1> DEFINE k == tickets[i].key
           done == [tickets[i] EXCEPT !.at = "over", !.status = "FILLED"]
<1>1. /\ Deals /\ tickets[i] \in TicketT /\ market[i] \in MarketT /\ Sound(tickets[i], market[i])
      /\ tickets \in Seq(TicketT) /\ market \in Seq(MarketT) /\ Len(market) = Len(tickets)
      /\ Spreads!Tickets = 1..Len(tickets) /\ lots \in [Keys -> Int]
      /\ flies \in [Keys -> FlyT] /\ k \in Keys /\ tickets[i].qty \in Nat
      BY DealsRead DEF DeskInv, Deals, TicketT
<1>2. tickets[i].status = "PENDING" /\ UNCHANGED <<market, lots>>
      BY <1>1 DEF Sound, Spreads!BooksOpen, Spreads!BooksClose
<1>3. market' = [market EXCEPT ![i] = market[i]]
      BY <1>1, <1>2
<1>4. /\ done \in TicketT /\ done.key = k /\ done.side = tickets[i].side /\ done.qty = tickets[i].qty
      /\ done.status = "FILLED" /\ done.at = "over"
      BY <1>1 DEF TicketT
<1> HIDE DEF done
<1>5. Sound(done, market[i])
      BY <1>1, <1>4 DEF Sound
<1>6. ASSUME tickets' = [tickets EXCEPT ![i] = done], NEW fly \in FlyT, flies' = [flies EXCEPT ![k] = fly],
             fly.status # "none",
             \/ /\ tickets[i].side = "BUY" /\ Spreads!Free(k)
                /\ fly.total = tickets[i].qty /\ fly.remaining = tickets[i].qty /\ fly.settled = 0
             \/ /\ tickets[i].side = "SELL" /\ fly.total = flies[k].total /\ fly.settled = flies[k].settled
                /\ fly.remaining = Spreads!Most(0, flies[k].remaining - tickets[i].qty)
      PROVE  DeskInv'
  <2>1. /\ Spreads!Tickets' = Spreads!Tickets
        /\ tickets' \in Seq(TicketT) /\ market' \in Seq(MarketT) /\ Len(market') = Len(tickets')
        /\ tickets'[i] = done /\ market'[i] = market[i]
        /\ \A j \in Spreads!Tickets : j # i => tickets'[j] = tickets[j] /\ market'[j] = market[j]
        /\ \A j \in Spreads!Tickets : tickets'[j].qty = tickets[j].qty
        /\ \A j \in Keys, side \in Sides :
             (~(done.key = j /\ done.side = side) \/ (done.status = "FILLED" <=> tickets[i].status = "FILLED")) =>
               Paid(tickets', j, side) = Paid(tickets, j, side)
        /\ done.status = "FILLED" => Paid(tickets', done.key, done.side) = Paid(tickets, done.key, done.side) \cup {i}
        BY <1>1, <1>3, <1>4, <1>6, OneTicket
  <2>2. flies' \in [Keys -> FlyT] /\ flies'[k] = fly /\ \A j \in Keys : j # k => flies'[j] = flies[j]
        BY <1>1, <1>6
  <2>3. Deals'
        BY <1>1, <1>2, <2>1, <2>2 DEF Deals
  <2>4. \A j \in Spreads!Tickets' : Sound(tickets'[j], market'[j])
        BY <1>5, <2>1 DEF DeskInv
  <2>5. PICK side \in Sides : side = tickets[i].side
        BY <1>1 DEF TicketT, Sides
  <2>6. PICK n \in Nat : n = tickets[i].qty
        BY <1>1
  <2>7. i \notin Paid(tickets, k, side)
        BY <1>2 DEF Paid
  <2>8. Paid(tickets', k, side) = Paid(tickets, k, side) \cup {i}
        BY <1>4, <2>1, <2>5
  <2>9. \A j \in Keys, s \in Sides : j # k \/ s # side => Paid(tickets', j, s) = Paid(tickets, j, s)
        BY <1>4, <2>1, <2>5
  <2>10. side = "BUY" => n =< Ceiling
         BY <1>1, <2>5, <2>6 DEF Sound
  <2>11. \/ /\ side = "BUY" /\ Spreads!Free(k) /\ n =< Ceiling
            /\ flies'[k].total = n /\ flies'[k].remaining = n /\ flies'[k].settled = 0
         \/ /\ side = "SELL" /\ flies'[k].total = flies[k].total /\ flies'[k].settled = flies[k].settled
            /\ flies'[k].remaining = Spreads!Most(0, flies[k].remaining - n)
         BY <1>6, <2>2, <2>5, <2>6, <2>10
  <2>12. tickets'[i].qty = n /\ flies'[k].status # "none"
         BY <1>4, <1>6, <2>1, <2>2, <2>6
  <2> HIDE DEF k
  <2>13. k \in Keys /\ \A j \in Spreads!Tickets : tickets'[j].qty = tickets[j].qty
         BY <1>1, <2>1
  <2>14. \A j \in Keys : j # k => flies'[j] = flies[j]
         BY <2>2
  <2>15. QED BY <2>3, <2>4, <2>7, <2>8, <2>9, <2>11, <2>12, <2>13, <2>14, BookedDesk
<1>7. CASE Spreads!BooksClose(i)
  <2> DEFINE rest == Spreads!Most(0, flies[k].remaining - tickets[i].qty)
             st == IF rest = 0 THEN "CLOSED" ELSE "PARTIAL"
             fly == [flies[k] EXCEPT !.remaining = rest, !.status = st]
  <2>1. flies[k] \in FlyT
        BY <1>1
  <2>2. rest \in Nat
        BY <1>1, <2>1 DEF FlyT, Spreads!Most
  <2>3. flies' = [flies EXCEPT ![k] = fly]
        BY <1>7 DEF Spreads!BooksClose, Spreads!Reduced
  <2>4. tickets' = [tickets EXCEPT ![i] = done] /\ tickets[i].side = "SELL"
        BY <1>1, <1>7 DEF Spreads!BooksClose, done
  <2> HIDE DEF rest
  <2>5. /\ fly \in FlyT /\ fly.status # "none" /\ fly.total = flies[k].total /\ fly.remaining = rest
        /\ fly.settled = flies[k].settled
        BY <2>1, <2>2 DEF FlyT
  <2> HIDE DEF fly
  <2>6. QED BY <1>6, <2>3, <2>4, <2>5 DEF rest
<1>8. CASE Spreads!BooksOpen(i) /\ Spreads!Free(k)
  <2> DEFINE fly == [status |-> "OPEN", author |-> tickets[i].who, total |-> tickets[i].qty, remaining |-> tickets[i].qty,
                     settled |-> 0]
  <2>1. flies' = [flies EXCEPT ![k] = fly]
        BY <1>8 DEF Spreads!BooksOpen
  <2>2. tickets' = [tickets EXCEPT ![i] = done] /\ tickets[i].side = "BUY"
        BY <1>1, <1>8 DEF Spreads!BooksOpen, done
  <2>3. /\ fly \in FlyT /\ fly.status # "none" /\ fly.total = tickets[i].qty /\ fly.remaining = tickets[i].qty
        /\ fly.settled = 0
        BY <1>1 DEF FlyT, TicketT
  <2> HIDE DEF fly
  <2>4. QED BY <1>6, <1>8, <2>1, <2>2, <2>3
<1>9. CASE Spreads!BooksOpen(i) /\ ~Spreads!Free(k)
  <2>1. PICK t : t = [tickets[i] EXCEPT !.at = "over"]
        OBVIOUS
  <2>2. /\ t \in TicketT /\ t.key = tickets[i].key /\ t.side = tickets[i].side /\ t.qty = tickets[i].qty
        /\ t.status = "PENDING" /\ t.at = "over"
        BY <1>1, <1>2, <2>1 DEF TicketT
  <2>3. tickets' = [tickets EXCEPT ![i] = t] /\ UNCHANGED flies
        BY <1>1, <1>2, <1>9, <2>1 DEF Spreads!BooksOpen, TicketT
  <2>4. Sound(t, market[i])
        BY <1>1, <2>2 DEF Sound
  <2>5. QED BY <1>1, <1>2, <1>3, <2>2, <2>3, <2>4, QuietTicket
<1>10. QED BY <1>7, <1>8, <1>9

LEMMA EndsDesk ==
  ASSUME DeskInv, NEW i \in Spreads!Tickets, Spreads!Fails(i) \/ Spreads!GivesUp(i)
  PROVE  DeskInv'
<1>1. /\ tickets[i] \in TicketT /\ market[i] \in MarketT /\ Sound(tickets[i], market[i])
      /\ tickets \in Seq(TicketT) /\ market \in Seq(MarketT) /\ Len(market) = Len(tickets)
      /\ Spreads!Tickets = 1..Len(tickets) /\ lots \in [Keys -> Int]
      BY DealsRead DEF DeskInv, Deals
<1>2. tickets[i].status = "PENDING" /\ UNCHANGED <<market, flies, lots>>
      BY <1>1 DEF Sound, Spreads!Fails, Spreads!GivesUp
<1>3. market' = [market EXCEPT ![i] = market[i]]
      BY <1>1, <1>2
<1>4. PICK st \in {"PENDING", "CANCELLED"} : tickets' = [tickets EXCEPT ![i] = [tickets[i] EXCEPT !.at = "over", !.status = st]]
  <2>1. CASE Spreads!Fails(i)
        BY <1>1, <2>1 DEF Spreads!Fails
  <2>2. CASE Spreads!GivesUp(i)
    <3>1. [tickets[i] EXCEPT !.at = "over"] = [tickets[i] EXCEPT !.at = "over", !.status = "PENDING"]
          BY <1>1, <1>2 DEF TicketT
    <3>2. QED BY <1>1, <2>2, <3>1 DEF Spreads!GivesUp
  <2>3. QED BY <2>1, <2>2
<1>5. PICK t : t = [tickets[i] EXCEPT !.at = "over", !.status = st]
      OBVIOUS
<1>6. /\ t \in TicketT /\ t.key = tickets[i].key /\ t.side = tickets[i].side /\ t.qty = tickets[i].qty
      /\ t.status # "FILLED" /\ t.at = "over"
      BY <1>1, <1>5 DEF TicketT
<1>7. tickets' = [tickets EXCEPT ![i] = t]
      BY <1>4, <1>5
<1>8. Sound(t, market[i])
      BY <1>1, <1>6 DEF Sound
<1>9. QED BY <1>1, <1>2, <1>3, <1>6, <1>7, <1>8, QuietTicket

LEMMA RestartsDesk ==
  ASSUME DeskInv, Spreads!Restarts
  PROVE  DeskInv'
<1>1. /\ Deals /\ tickets \in Seq(TicketT) /\ Spreads!Tickets = 1..Len(tickets) /\ Len(tickets) \in Nat
      /\ \A i \in Spreads!Tickets : tickets[i] \in TicketT /\ Sound(tickets[i], market[i])
      BY DealsRead DEF DeskInv, Deals
<1>2. UNCHANGED <<flies, market, lots>> /\ tickets' = [i \in Spreads!Tickets |-> [tickets[i] EXCEPT !.at = "over"]]
      BY DEF Spreads!Restarts
<1>3. \A i \in Spreads!Tickets : /\ tickets'[i] \in TicketT /\ tickets'[i].key = tickets[i].key
                                 /\ tickets'[i].side = tickets[i].side /\ tickets'[i].qty = tickets[i].qty
                                 /\ tickets'[i].status = tickets[i].status /\ tickets'[i].at = "over"
      BY <1>1, <1>2 DEF TicketT
<1>4. tickets' \in Seq(TicketT) /\ Len(tickets') = Len(tickets) /\ Spreads!Tickets' = Spreads!Tickets
  <2>1. tickets' \in [1..Len(tickets) -> TicketT]
        BY <1>1, <1>2, <1>3
  <2>2. QED BY <1>1, <2>1, MappedSeq DEF Spreads!Tickets
<1>5. Deals'
      BY <1>1, <1>2, <1>4 DEF Deals
<1>6. \A i \in Spreads!Tickets' : Sound(tickets'[i], market'[i])
      BY <1>1, <1>2, <1>3, <1>4 DEF Sound
<1>7. \A k \in Keys, side \in Sides : Paid(tickets', k, side) = Paid(tickets, k, side)
      BY <1>3, <1>4 DEF Paid, Spreads!Tickets
<1>8. QED BY <1>2, <1>3, <1>5, <1>6, <1>7, QuietDesk

(* A ticket is written. *)
LEMMA OneMoreTicket ==
  ASSUME Deals, NEW t \in TicketT, NEW m \in MarketT,
         tickets' = Append(tickets, t), market' = Append(market, m)
  PROVE  /\ tickets' \in Seq(TicketT) /\ market' \in Seq(MarketT) /\ Len(market') = Len(tickets')
         /\ Spreads!Tickets' = Spreads!Tickets \cup {Len(tickets) + 1} /\ Len(tickets) + 1 \notin Spreads!Tickets
         /\ tickets'[Len(tickets) + 1] = t /\ market'[Len(tickets) + 1] = m
         /\ \A j \in Spreads!Tickets : tickets'[j] = tickets[j] /\ market'[j] = market[j]
         /\ \A k \in Keys, side \in Sides :
              (~(t.key = k /\ t.side = side) \/ t.status # "FILLED") => Paid(tickets', k, side) = Paid(tickets, k, side)
         /\ t.status = "FILLED" => Paid(tickets', t.key, t.side) = Paid(tickets, t.key, t.side) \cup {Len(tickets) + 1}
<1>1. /\ Spreads!Tickets = 1..Len(tickets) /\ tickets \in Seq(TicketT) /\ market \in Seq(MarketT)
      /\ Len(market) = Len(tickets) /\ Len(tickets) \in Nat
      BY DealsRead DEF Deals
<1>2. /\ tickets' \in Seq(TicketT) /\ Len(tickets') = Len(tickets) + 1 /\ tickets'[Len(tickets) + 1] = t
      /\ \A j \in 1..Len(tickets) : tickets'[j] = tickets[j]
      BY <1>1, AppendProperties
<1>3. /\ market' \in Seq(MarketT) /\ Len(market') = Len(tickets) + 1 /\ market'[Len(tickets) + 1] = m
      /\ \A j \in 1..Len(tickets) : market'[j] = market[j]
      BY <1>1, AppendProperties
<1>4. Spreads!Tickets' = Spreads!Tickets \cup {Len(tickets) + 1} /\ Len(tickets) + 1 \notin Spreads!Tickets
  <2>1. Spreads!Tickets' = 1..(Len(tickets) + 1)
        BY <1>2, LenProperties DEF Spreads!Tickets
  <2>2. 1..(Len(tickets) + 1) = (1..Len(tickets)) \cup {Len(tickets) + 1}
        BY <1>1
  <2>3. QED BY <1>1, <2>1, <2>2
<1>5. PICK new : new = Len(tickets) + 1
      OBVIOUS
<1>6. /\ DOMAIN tickets' = DOMAIN tickets \cup {new} /\ new \notin DOMAIN tickets /\ tickets'[new] = t
      /\ \A j \in DOMAIN tickets : tickets'[j] = tickets[j]
      BY <1>1, <1>2, <1>4, <1>5 DEF Spreads!Tickets
<1>7. ASSUME NEW k \in Keys, NEW side \in Sides, ~(t.key = k /\ t.side = side) \/ t.status # "FILLED"
      PROVE  Paid(tickets', k, side) = Paid(tickets, k, side)
      BY <1>6, <1>7 DEF Paid
<1>8. ASSUME t.status = "FILLED" PROVE Paid(tickets', t.key, t.side) = Paid(tickets, t.key, t.side) \cup {new}
      BY <1>6, <1>8 DEF Paid
<1>9. QED BY <1>1, <1>2, <1>3, <1>4, <1>5, <1>7, <1>8

(* How many are bought: within the cap. *)
LEMMA SizeCapped ==
  ASSUME NEW risk \in Risks, NEW stated \in Stated, risk > 0
  PROVE  Spreads!Size(risk, stated) \in Nat /\ Spreads!Size(risk, stated) =< Ceiling
<1>1. Ceiling \in Nat /\ Budget \in Nat /\ risk \in Nat /\ stated \in Nat
      BY CapsAssumption
<1>2. PICK a \in Int : a = Budget \div risk
      BY <1>1
<1>3. PICK c \in Nat : c = IF scene.mirror /\ stated > 0 THEN stated ELSE Ceiling
      BY <1>1
<1>4. Spreads!Size(risk, stated) = Spreads!Most(0, Spreads!Least(Spreads!Least(Ceiling, a), c))
      BY <1>2, <1>3 DEF Spreads!Size
<1>5. PICK b \in Int : b = Spreads!Least(Ceiling, a) /\ b =< Ceiling
      BY <1>1, <1>2 DEF Spreads!Least
<1>6. PICK d \in Int : d = Spreads!Least(b, c) /\ d =< Ceiling
      BY <1>1, <1>3, <1>5 DEF Spreads!Least
<1>7. Spreads!Most(0, d) \in Nat /\ Spreads!Most(0, d) =< Ceiling
      BY <1>1, <1>6 DEF Spreads!Most
<1>8. QED BY <1>4, <1>5, <1>6, <1>7

LEMMA WritesDesk ==
  ASSUME DeskInv, NEW t \in TicketT, t.status = "PENDING", Sound(t, Spreads!Unsent),
         Spreads!Writes(t), UNCHANGED <<flies, lots>>
  PROVE  DeskInv'
<1>1. Spreads!Unsent \in MarketT /\ Deals
      BY DEF Spreads!Unsent, MarketT, DeskInv
<1>2. tickets' = Append(tickets, t) /\ market' = Append(market, Spreads!Unsent)
      BY DEF Spreads!Writes
<1>3. PICK new : new = Len(tickets) + 1
      OBVIOUS
<1>4. /\ tickets' \in Seq(TicketT) /\ market' \in Seq(MarketT) /\ Len(market') = Len(tickets')
      /\ Spreads!Tickets' = Spreads!Tickets \cup {new}
      /\ tickets'[new] = t /\ market'[new] = Spreads!Unsent
      /\ \A j \in Spreads!Tickets : tickets'[j] = tickets[j] /\ market'[j] = market[j]
      /\ \A k \in Keys, side \in Sides :
           (~(t.key = k /\ t.side = side) \/ t.status # "FILLED") => Paid(tickets', k, side) = Paid(tickets, k, side)
      BY <1>1, <1>2, <1>3, OneMoreTicket
<1>5. Deals'
      BY <1>1, <1>4 DEF Deals
<1>6. \A j \in Spreads!Tickets' : Sound(tickets'[j], market'[j])
      BY <1>4 DEF DeskInv
<1>7. \A k \in Keys, side \in Sides : Paid(tickets', k, side) = Paid(tickets, k, side)
      BY <1>4
<1>8. QED BY <1>4, <1>5, <1>6, <1>7, QuietDesk

LEMMA OpensDesk ==
  ASSUME DeskInv, NEW k \in Keys, NEW a \in Analysts, NEW risk \in Risks, NEW stated \in Stated,
         Spreads!Opens(k, a, risk, stated)
  PROVE  DeskInv'
<1> DEFINE size == Spreads!Size(risk, stated)
           t == Spreads!Ticket(k, "BUY", size, a)
<1>1. size \in Nat /\ size =< Ceiling /\ size >= 1
      BY SizeCapped DEF Spreads!Opens
<1>2. Spreads!Writes(t) /\ UNCHANGED <<flies, lots>>
      BY DEF Spreads!Opens
<1> HIDE DEF size
<1>3. t \in TicketT /\ t.status = "PENDING" /\ Sound(t, Spreads!Unsent)
      BY <1>1 DEF Spreads!Ticket, TicketT, Sound, Spreads!Unsent
<1> HIDE DEF t
<1>4. QED BY <1>2, <1>3, WritesDesk

LEMMA ClosesDesk ==
  ASSUME DeskInv, NEW k \in Keys, NEW a, NEW named, NEW qty \in 1..Ceiling, Spreads!Closes(k, a, named, qty)
  PROVE  DeskInv'
<1> DEFINE t == Spreads!Ticket(k, "SELL", qty, "none")
<1>1. Spreads!Writes(t) /\ UNCHANGED <<flies, lots>>
      BY DEF Spreads!Closes
<1>2. qty \in Nat
      BY CapsAssumption
<1>3. t \in TicketT /\ t.status = "PENDING" /\ Sound(t, Spreads!Unsent)
      BY <1>2 DEF Spreads!Ticket, TicketT, Sound, Spreads!Unsent
<1> HIDE DEF t
<1>4. QED BY <1>1, <1>3, WritesDesk

LEMMA WrittenOffDesk ==
  ASSUME DeskInv, NEW k \in Keys, Spreads!WritesOff(k)
  PROVE  DeskInv'
<1> DEFINE n == flies[k].remaining
           t == [Spreads!Ticket(k, "SELL", n, "none") EXCEPT !.status = "FILLED", !.at = "over"]
           m == [Spreads!Unsent EXCEPT !.st = "dead"]
           fly == Spreads!Reduced(flies[k], n)
<1>1. /\ Deals /\ flies \in [Keys -> FlyT] /\ flies[k] \in FlyT /\ n \in Nat
      BY DEF DeskInv, Deals, FlyT
<1>2. /\ tickets' = Append(tickets, t) /\ market' = Append(market, m) /\ flies' = [flies EXCEPT ![k] = fly]
      /\ UNCHANGED lots
      BY DEF Spreads!WritesOff
<1>3. /\ fly \in FlyT /\ fly.status # "none" /\ fly.total = flies[k].total /\ fly.settled = flies[k].settled
      /\ fly.remaining = Spreads!Most(0, flies[k].remaining - n)
  <2> DEFINE rest == Spreads!Most(0, flies[k].remaining - n)
             st == IF rest = 0 THEN "CLOSED" ELSE "PARTIAL"
  <2>1. rest \in Nat /\ fly = [flies[k] EXCEPT !.remaining = rest, !.status = st]
        BY <1>1 DEF Spreads!Most, Spreads!Reduced
  <2> HIDE DEF rest, fly
  <2>2. QED BY <1>1, <2>1 DEF FlyT, rest
<1> HIDE DEF n, fly
<1>4. /\ t \in TicketT /\ t.key = k /\ t.side = "SELL" /\ t.qty = n /\ t.status = "FILLED" /\ t.at = "over"
      /\ m \in MarketT
      BY <1>1 DEF Spreads!Ticket, TicketT, Spreads!Unsent, MarketT
<1> HIDE DEF t, m
<1>5. PICK new : new = Len(tickets) + 1
      OBVIOUS
<1>6. /\ tickets' \in Seq(TicketT) /\ market' \in Seq(MarketT) /\ Len(market') = Len(tickets')
      /\ Spreads!Tickets' = Spreads!Tickets \cup {new} /\ new \notin Spreads!Tickets
      /\ tickets'[new] = t /\ market'[new] = m
      /\ \A j \in Spreads!Tickets : tickets'[j] = tickets[j] /\ market'[j] = market[j]
      /\ \A j \in Keys, side \in Sides :
           (~(t.key = j /\ t.side = side) \/ t.status # "FILLED") => Paid(tickets', j, side) = Paid(tickets, j, side)
      /\ t.status = "FILLED" => Paid(tickets', t.key, t.side) = Paid(tickets, t.key, t.side) \cup {new}
      BY <1>1, <1>2, <1>4, <1>5, OneMoreTicket
<1>7. flies' \in [Keys -> FlyT] /\ flies'[k] = fly /\ \A j \in Keys : j # k => flies'[j] = flies[j]
      BY <1>1, <1>2, <1>3
<1>8. Deals'
      BY <1>1, <1>2, <1>6, <1>7 DEF Deals
<1>9. \A j \in Spreads!Tickets' : Sound(tickets'[j], market'[j])
  <2>1. Sound(t, m)
        BY <1>4 DEF Sound
  <2>2. QED BY <1>6, <2>1 DEF DeskInv
<1>10. new \notin Paid(tickets, k, "SELL")
       BY <1>6 DEF Paid, Spreads!Tickets
<1>11. Paid(tickets', k, "SELL") = Paid(tickets, k, "SELL") \cup {new}
       BY <1>4, <1>6
<1>12. \A j \in Keys, s \in Sides : j # k \/ s # "SELL" => Paid(tickets', j, s) = Paid(tickets, j, s)
       BY <1>4, <1>6
<1>13. /\ tickets'[new].qty = n /\ "SELL" \in Sides /\ flies'[k].status # "none"
       /\ flies'[k].total = flies[k].total /\ flies'[k].remaining = Spreads!Most(0, flies[k].remaining - n)
       /\ flies'[k].settled = flies[k].settled
       /\ \A j \in Spreads!Tickets : tickets'[j].qty = tickets[j].qty
       BY <1>3, <1>4, <1>6, <1>7 DEF Sides
<1>14. QED BY <1>1, <1>7, <1>8, <1>9, <1>10, <1>11, <1>12, <1>13, BookedDesk

(* A row that is settled: its orders stay as they were. *)
LEMMA SettledDesk ==
  ASSUME DeskInv, NEW k \in Keys, Spreads!Settles(k)
  PROVE  DeskInv'
<1>1. Deals /\ flies \in [Keys -> FlyT] /\ flies[k] \in FlyT /\ flies[k].remaining \in Nat /\ flies[k].settled \in Nat
      BY DEF DeskInv, Deals, FlyT
<1>2. PICK fly : fly = [flies[k] EXCEPT !.status = "CLOSED", !.remaining = 0, !.settled = flies[k].settled + flies[k].remaining]
      OBVIOUS
<1>3. /\ fly \in FlyT /\ fly.status = "CLOSED" /\ fly.total = flies[k].total /\ fly.remaining = 0
      /\ fly.settled = flies[k].settled + flies[k].remaining
  <2>1. flies[k].settled + flies[k].remaining \in Nat
        BY <1>1
  <2>2. PICK n : n = flies[k].settled + flies[k].remaining
        OBVIOUS
  <2>3. n \in Nat /\ fly = [flies[k] EXCEPT !.status = "CLOSED", !.remaining = 0, !.settled = n]
        BY <1>2, <2>1, <2>2
  <2>4. /\ fly \in FlyT /\ fly.status = "CLOSED" /\ fly.total = flies[k].total /\ fly.remaining = 0
        /\ fly.settled = n
        BY <1>1, <2>3 DEF FlyT
  <2>5. QED BY <2>2, <2>4
<1>4. /\ flies' = [flies EXCEPT ![k] = fly] /\ UNCHANGED <<tickets, market, lots>>
      BY <1>2 DEF Spreads!Settles
<1>5. flies' \in [Keys -> FlyT] /\ flies'[k] = fly /\ \A j \in Keys : j # k => flies'[j] = flies[j]
      BY <1>1, <1>3, <1>4
<1>6. Deals' /\ \A i \in Spreads!Tickets' : Sound(tickets'[i], market'[i])
      BY <1>1, <1>4, <1>5 DEF Deals, DeskInv, Spreads!Tickets
<1>7. \A j \in Keys : Spreads!Free(j)' => \A s \in Sides : Paid(tickets', j, s) = {}
      BY <1>3, <1>4, <1>5 DEF Spreads!Free, DeskInv
<1>8. \A j \in Keys, s \in Sides : Spreads!Booked(j, s)' = Spreads!Booked(j, s) /\ Spreads!Booked(j, s) \in Nat
      BY <1>1, <1>4, BookedSame, BookedNat
<1>9. Spreads!SpreadsAgree'
  <2>1. SUFFICES ASSUME NEW j \in Keys
                 PROVE  /\ flies'[j].total = Spreads!Booked(j, "BUY")' /\ flies'[j].total =< Ceiling
                        /\ flies'[j].remaining = Spreads!Most(0, flies'[j].total - Spreads!Booked(j, "SELL")' - flies'[j].settled)
        BY DEF Spreads!SpreadsAgree
  <2>2. PICK b \in Nat : b = Spreads!Booked(j, "BUY") /\ b = Spreads!Booked(j, "BUY")'
        BY <1>8 DEF Sides
  <2>3. PICK s \in Nat : s = Spreads!Booked(j, "SELL") /\ s = Spreads!Booked(j, "SELL")'
        BY <1>8 DEF Sides
  <2>4. flies[j].total = b /\ b =< Ceiling /\ flies[j].remaining = Spreads!Most(0, b - s - flies[j].settled)
        BY <2>2, <2>3 DEF DeskInv, Spreads!SpreadsAgree
  <2>5. CASE j # k
        BY <1>5, <2>2, <2>3, <2>4, <2>5
  <2>6. CASE j = k
    <3>1. PICK g \in Nat : g = flies[k].settled
          BY <1>1
    <3>2. fly.settled = g + Spreads!Most(0, b - s - g)
          BY <1>3, <2>4, <2>6, <3>1
    <3>3. Spreads!Most(0, b - s - (g + Spreads!Most(0, b - s - g))) = 0
          BY DEF Spreads!Most
    <3>4. QED BY <1>3, <1>5, <2>2, <2>3, <2>4, <2>6, <3>2, <3>3
  <2>7. QED BY <2>5, <2>6
<1>10. QED BY <1>6, <1>7, <1>9 DEF DeskInv

LEMMA DeskInit ==
  ASSUME Spreads!Init
  PROVE  DeskInv
<1>1. /\ tickets = <<>> /\ market = <<>> /\ flies = [k \in Keys |-> Spreads!NoFly] /\ lots = [k \in Keys |-> 0]
      BY DEF Spreads!Init
<1>2. Spreads!NoFly \in FlyT /\ Spreads!NoFly.total = 0 /\ Spreads!NoFly.remaining = 0 /\ Spreads!NoFly.settled = 0
      BY DEF Spreads!NoFly, FlyT
<1>3. Deals /\ Spreads!Tickets = {}
      BY <1>1, <1>2 DEF Deals, Spreads!Tickets
<1>4. \A k \in Keys, side \in Sides : Paid(tickets, k, side) = {} /\ Spreads!Booked(k, side) = 0
  <2>1. \A k \in Keys, side \in Sides : Paid(tickets, k, side) = {}
        BY <1>1 DEF Paid
  <2>2. QED BY <1>3, <2>1, BookedNat
<1>5. Spreads!SpreadsAgree
  <2>1. Spreads!Most(0, 0 - 0 - 0) = 0 /\ 0 =< Ceiling
        BY CapsAssumption DEF Spreads!Most
  <2>2. QED BY <1>1, <1>2, <1>4, <2>1 DEF Spreads!SpreadsAgree, Sides
<1>6. QED BY <1>3, <1>4, <1>5 DEF DeskInv

LEMMA DeskNext ==
  ASSUME DeskInv, [Spreads!Next]_(Spreads!desk)
  PROVE  DeskInv'
<1>1. ASSUME UNCHANGED Spreads!desk PROVE DeskInv'
  <2>1. UNCHANGED <<flies, tickets, market, lots>>
        BY <1>1 DEF Spreads!desk
  <2>2. Deals' /\ \A i \in Spreads!Tickets' : Sound(tickets'[i], market'[i])
        BY <2>1 DEF Deals, DeskInv, Spreads!Tickets
  <2>3. QED BY <2>1, <2>2, QuietDesk
<1>2. ASSUME NEW i \in Spreads!Tickets,
             \/ Spreads!Posts(i) \/ Spreads!PostFails(i) \/ Spreads!Lapses(i) \/ \E n \in 1..Ceiling : Spreads!Trades(i, n)
             \/ Spreads!BooksOpen(i) \/ Spreads!BooksClose(i) \/ Spreads!Fails(i) \/ Spreads!GivesUp(i)
      PROVE  DeskInv'
      BY <1>2, PostsDesk, TradesDesk, FilledDesk, EndsDesk
<1>3. ASSUME NEW k \in Keys, Spreads!WritesOff(k) \/ Spreads!Settles(k) PROVE DeskInv'
      BY <1>3, WrittenOffDesk, SettledDesk
<1>4. QED BY <1>1, <1>2, <1>3, OpensDesk, ClosesDesk, RestartsDesk DEF Spreads!Next, Spreads!ClosesWorthless, Spreads!Expires

-----------------------------------------------------------------------------
(* Spreads: what a row counts is in the account *)

(* An order has traded wholly or not at all, and does not trade when its    *)
(* ticket is no longer pending.                                             *)
Entire(t, m) ==
  /\ m.done = IF m.st = "filled" THEN t.qty ELSE 0
  /\ t.status # "PENDING" => m.st # "working"

Selling(ts, k, i) == ts[i].key = k /\ ts[i].side = "SELL" /\ ts[i].status = "PENDING"

(* Of a key: the row, its lots and the orders.  One close is pending at     *)
(* most; with it, or with no such, the lots are what the row counts, and    *)
(* they are what the close may sell.  Of a key without a row nothing has    *)
(* been sold.                                                               *)
KeyHeld(k, ts, ms, fly, has) ==
  /\ fly.status \in {"OPEN", "PARTIAL"} => fly.remaining >= 1
  /\ \A i \in DOMAIN ts : Selling(ts, k, i) =>
       /\ fly.remaining =< has + ms[i].done /\ ts[i].qty =< has + ms[i].done
       /\ \A j \in DOMAIN ts : Selling(ts, k, j) => j = i
  /\ (\A i \in DOMAIN ts : ~Selling(ts, k, i)) => fly.remaining =< has
  /\ fly.status = "none" => \A i \in DOMAIN ts : ts[i].key = k => ts[i].side = "BUY" /\ ms[i].done =< has

LotsHeld ==
  /\ \A i \in Spreads!Tickets : Entire(tickets[i], market[i])
  /\ \A k \in Keys : KeyHeld(k, tickets, market, flies[k], lots[k])

Dealt == Spreads!Orderly /\ DeskInv /\ LotsHeld

(* Of a key that keeps its row and its lots: its orders have traded what    *)
(* they had, and the closes that were pending are.                          *)
KeyKeeps(k, ts, ms, ts2, ms2) ==
  /\ DOMAIN ts2 = DOMAIN ts
  /\ \A j \in DOMAIN ts :
       /\ ts2[j].key = ts[j].key
       /\ ts[j].key = k =>
            /\ ts2[j].side = ts[j].side /\ ts2[j].qty = ts[j].qty /\ ms2[j].done = ms[j].done
            /\ ts[j].side = "SELL" => (ts2[j].status = "PENDING" <=> ts[j].status = "PENDING")

LEMMA KeySame ==
  ASSUME NEW k, NEW ts, NEW ms, NEW ts2, NEW ms2, NEW fly, NEW has,
         KeyHeld(k, ts, ms, fly, has), KeyKeeps(k, ts, ms, ts2, ms2)
  PROVE  KeyHeld(k, ts2, ms2, fly, has)
<1>1. \A j \in DOMAIN ts : Selling(ts2, k, j) <=> Selling(ts, k, j)
      BY DEF Selling, KeyKeeps
<1>2. \A j \in DOMAIN ts : Selling(ts, k, j) => ts2[j].qty = ts[j].qty /\ ms2[j].done = ms[j].done
      BY DEF Selling, KeyKeeps
<1>3. QED BY <1>1, <1>2 DEF KeyHeld, KeyKeeps

(* The one close that is pending ends. *)
KeyLoses(k, ts, ts2, i) ==
  /\ i \in DOMAIN ts /\ DOMAIN ts2 = DOMAIN ts
  /\ Selling(ts, k, i) /\ ~Selling(ts2, k, i)
  /\ \A j \in DOMAIN ts : j # i => ts2[j] = ts[j]

LEMMA KeyEnds ==
  ASSUME NEW k, NEW ts, NEW ms, NEW ts2, NEW ms2, NEW fly, NEW fly2, NEW has \in Int, NEW i,
         KeyHeld(k, ts, ms, fly, has), KeyLoses(k, ts, ts2, i),
         fly2.status \in {"OPEN", "PARTIAL"} => fly2.remaining >= 1,
         fly2.remaining =< has, fly2.status = "none" => fly.status = "none"
  PROVE  KeyHeld(k, ts2, ms2, fly2, has)
<1>1. \A j \in DOMAIN ts : Selling(ts, k, j) => j = i
      BY DEF KeyHeld, KeyLoses
<1>2. \A j \in DOMAIN ts : ~Selling(ts2, k, j)
      BY <1>1 DEF Selling, KeyLoses
<1>3. fly.status # "none"
      BY DEF KeyHeld, Selling, KeyLoses
<1>4. QED BY <1>2, <1>3 DEF KeyHeld, KeyLoses

LEMMA DealtRead ==
  ASSUME Dealt, NEW i \in Spreads!Tickets
  PROVE  /\ tickets[i] \in TicketT /\ market[i] \in MarketT /\ tickets[i].key \in Keys /\ tickets[i].qty \in Nat
         /\ Entire(tickets[i], market[i]) /\ Sound(tickets[i], market[i])
         /\ tickets \in Seq(TicketT) /\ market \in Seq(MarketT) /\ Len(market) = Len(tickets)
         /\ Spreads!Tickets = 1..Len(tickets) /\ Spreads!Tickets = DOMAIN tickets
         /\ flies \in [Keys -> FlyT] /\ lots \in [Keys -> Int]
         /\ \A k \in Keys : flies[k] \in FlyT /\ lots[k] \in Int /\ flies[k].remaining \in Nat
<1>1. Deals
      BY DEF Dealt, DeskInv
<1>2. tickets[i] \in TicketT /\ market[i] \in MarketT
      BY <1>1, DealsRead
<1>3. tickets[i].key \in Keys /\ tickets[i].qty \in Nat
      BY <1>2 DEF TicketT
<1>4. Entire(tickets[i], market[i]) /\ Sound(tickets[i], market[i])
      BY DEF Dealt, DeskInv, LotsHeld
<1>5. flies \in [Keys -> FlyT] /\ lots \in [Keys -> Int]
      BY <1>1 DEF Deals
<1>6. \A k \in Keys : flies[k] \in FlyT /\ lots[k] \in Int /\ flies[k].remaining \in Nat
      BY <1>5 DEF FlyT
<1>7. /\ tickets \in Seq(TicketT) /\ market \in Seq(MarketT) /\ Len(market) = Len(tickets)
      /\ Spreads!Tickets = 1..Len(tickets) /\ Spreads!Tickets = DOMAIN tickets
      BY <1>1, DealsRead DEF Deals, Spreads!Tickets
<1>8. QED BY <1>2, <1>3, <1>4, <1>5, <1>6, <1>7

(* One order's ticket becomes t, its record m. *)
LEMMA Rewrites ==
  ASSUME Dealt, NEW i \in Spreads!Tickets, NEW t \in TicketT, NEW m \in MarketT,
         tickets' = [tickets EXCEPT ![i] = t], market' = [market EXCEPT ![i] = m]
  PROVE  /\ Spreads!Tickets' = Spreads!Tickets /\ DOMAIN tickets' = DOMAIN tickets /\ Spreads!Tickets = DOMAIN tickets
         /\ tickets'[i] = t /\ market'[i] = m
         /\ \A j \in Spreads!Tickets : j # i => tickets'[j] = tickets[j] /\ market'[j] = market[j]
<1>1. /\ tickets \in Seq(TicketT) /\ market \in Seq(MarketT) /\ Len(market) = Len(tickets)
      /\ Spreads!Tickets = 1..Len(tickets) /\ Spreads!Tickets = DOMAIN tickets
      BY DealtRead
<1>2. /\ tickets' \in Seq(TicketT) /\ Len(tickets') = Len(tickets)
      /\ \A j \in 1..Len(tickets) : tickets'[j] = IF j = i THEN t ELSE tickets[j]
      BY <1>1, ExceptSeq
<1>3. \A j \in 1..Len(market) : market'[j] = IF j = i THEN m ELSE market[j]
      BY <1>1, ExceptSeq
<1>4. DOMAIN tickets' = DOMAIN tickets
      BY <1>1, <1>2, LenProperties
<1>5. Spreads!Tickets' = Spreads!Tickets
      BY <1>4 DEF Spreads!Tickets
<1>6. QED BY <1>1, <1>2, <1>3, <1>4, <1>5

(* Nothing that counts changes. *)
LEMMA StillHeld ==
  ASSUME Dealt, NEW i \in Spreads!Tickets, NEW t \in TicketT, NEW m \in MarketT,
         tickets' = [tickets EXCEPT ![i] = t], market' = [market EXCEPT ![i] = m],
         t.key = tickets[i].key, t.side = tickets[i].side, t.qty = tickets[i].qty,
         t.side = "SELL" => (t.status = "PENDING" <=> tickets[i].status = "PENDING"), m.done = market[i].done, Entire(t, m),
         UNCHANGED <<flies, lots>>
  PROVE  LotsHeld'
<1>1. /\ Spreads!Tickets' = Spreads!Tickets /\ DOMAIN tickets' = DOMAIN tickets /\ Spreads!Tickets = DOMAIN tickets
      /\ tickets'[i] = t /\ market'[i] = m
      /\ \A j \in Spreads!Tickets : j # i => tickets'[j] = tickets[j] /\ market'[j] = market[j]
      BY Rewrites
<1>2. \A j \in Spreads!Tickets' : Entire(tickets'[j], market'[j])
      BY <1>1 DEF Dealt, LotsHeld
<1>3. ASSUME NEW k \in Keys PROVE KeyHeld(k, tickets', market', flies'[k], lots'[k])
  <2>1. KeyHeld(k, tickets, market, flies[k], lots[k])
        BY DEF Dealt, LotsHeld
  <2>2. KeyKeeps(k, tickets, market, tickets', market')
        BY <1>1 DEF KeyKeeps
  <2>3. KeyHeld(k, tickets', market', flies[k], lots[k])
        BY <2>1, <2>2, KeySame
  <2>4. QED BY <2>3
<1>4. QED BY <1>2, <1>3 DEF LotsHeld

(* A close that was pending ends, and leaves no more to its row than the    *)
(* lots that are there.                                                     *)
LEMMA CloseEnds ==
  ASSUME Dealt, NEW i \in Spreads!Tickets, NEW t \in TicketT, NEW m \in MarketT,
         tickets' = [tickets EXCEPT ![i] = t], market' = [market EXCEPT ![i] = m],
         t.key = tickets[i].key, t.side = tickets[i].side, t.status # "PENDING", Entire(t, m),
         tickets[i].side = "SELL", tickets[i].status = "PENDING", UNCHANGED lots,
         \A k \in Keys : k # tickets[i].key => flies'[k] = flies[k],
         flies'[tickets[i].key].status \in {"OPEN", "PARTIAL"} => flies'[tickets[i].key].remaining >= 1,
         flies'[tickets[i].key].status = "none" => flies[tickets[i].key].status = "none",
         flies'[tickets[i].key].remaining =< lots[tickets[i].key]
  PROVE  LotsHeld'
<1>1. /\ Spreads!Tickets' = Spreads!Tickets /\ DOMAIN tickets' = DOMAIN tickets /\ Spreads!Tickets = DOMAIN tickets
      /\ tickets'[i] = t /\ market'[i] = m
      /\ \A j \in Spreads!Tickets : j # i => tickets'[j] = tickets[j] /\ market'[j] = market[j]
      BY Rewrites
<1>2. \A j \in Spreads!Tickets' : Entire(tickets'[j], market'[j])
      BY <1>1 DEF Dealt, LotsHeld
<1>3. ASSUME NEW k \in Keys, k # tickets[i].key PROVE KeyHeld(k, tickets', market', flies'[k], lots'[k])
  <2>1. KeyHeld(k, tickets, market, flies[k], lots[k])
        BY DEF Dealt, LotsHeld
  <2>2. KeyKeeps(k, tickets, market, tickets', market')
        BY <1>1, <1>3 DEF KeyKeeps
  <2>3. KeyHeld(k, tickets', market', flies[k], lots[k])
        BY <2>1, <2>2, KeySame
  <2>4. QED BY <1>3, <2>3
<1>4. KeyHeld(tickets[i].key, tickets', market', flies'[tickets[i].key], lots'[tickets[i].key])
  <2>1. PICK k \in Keys : k = tickets[i].key
        BY DealtRead
  <2>2. KeyHeld(k, tickets, market, flies[k], lots[k]) /\ lots[k] \in Int /\ i \in DOMAIN tickets
        BY DealtRead DEF Dealt, LotsHeld
  <2>3. Selling(tickets, k, i)
        BY <2>1 DEF Selling
  <2>4. PICK fly2 : fly2 = flies'[k]
        OBVIOUS
  <2>5. KeyLoses(k, tickets, tickets', i)
        BY <1>1, <2>2, <2>3 DEF KeyLoses, Selling
  <2>6. /\ fly2.status \in {"OPEN", "PARTIAL"} => fly2.remaining >= 1
        /\ fly2.status = "none" => flies[k].status = "none"
        /\ fly2.remaining =< lots[k]
        BY <2>1, <2>4
  <2>7. KeyHeld(k, tickets', market', fly2, lots[k])
        BY <2>2, <2>5, <2>6, KeyEnds
  <2>8. QED BY <2>1, <2>4, <2>7
<1>5. QED BY <1>2, <1>3, <1>4 DEF LotsHeld

(* A fill whose key is taken already. *)
LEMMA LostOpen ==
  ASSUME Deals, NEW i \in Spreads!Tickets, Spreads!BooksOpen(i), ~Spreads!Free(tickets[i].key)
  PROVE  /\ tickets' = [tickets EXCEPT ![i] = [tickets[i] EXCEPT !.at = "over"]]
         /\ UNCHANGED <<flies, market, lots>>
<1>1. tickets \in Seq(TicketT) /\ Spreads!Tickets = 1..Len(tickets) /\ tickets[i] \in TicketT
      BY DealsRead DEF Deals
<1>2. tickets' = [tickets EXCEPT ![i] = [tickets[i] EXCEPT !.at = "over", !.status = tickets[i].status]]
      BY <1>1 DEF Spreads!BooksOpen
<1>3. [tickets[i] EXCEPT !.at = "over", !.status = tickets[i].status] = [tickets[i] EXCEPT !.at = "over"]
      BY <1>1 DEF TicketT
<1>4. QED BY <1>2, <1>3 DEF Spreads!BooksOpen

LEMMA QuietHeld ==
  ASSUME Dealt, NEW i \in Spreads!Tickets,
         \/ Spreads!Posts(i) \/ Spreads!PostFails(i) \/ Spreads!Lapses(i) \/ Spreads!Fails(i)
         \/ Spreads!BooksOpen(i) /\ ~Spreads!Free(tickets[i].key)
  PROVE  LotsHeld'
<1>1. /\ tickets[i] \in TicketT /\ market[i] \in MarketT /\ tickets[i].key \in Keys
      /\ Entire(tickets[i], market[i]) /\ Sound(tickets[i], market[i])
      /\ tickets \in Seq(TicketT) /\ market \in Seq(MarketT) /\ Len(market) = Len(tickets)
      /\ Spreads!Tickets = 1..Len(tickets) /\ lots \in [Keys -> Int]
      /\ flies[tickets[i].key] \in FlyT /\ lots[tickets[i].key] \in Int
      BY DealtRead
<1>2. UNCHANGED <<flies, lots>>
      BY DEF Spreads!Posts, Spreads!PostFails, Spreads!Lapses, Spreads!Fails, Spreads!BooksOpen
<1>3. CASE Spreads!Posts(i)
  <2>1. PICK t : t = [tickets[i] EXCEPT !.at = "polling"]
        OBVIOUS
  <2>2. PICK m : m = [market[i] EXCEPT !.st = "working"]
        OBVIOUS
  <2>3. /\ t \in TicketT /\ t.key = tickets[i].key /\ t.side = tickets[i].side /\ t.qty = tickets[i].qty
        /\ t.status = "PENDING" /\ tickets[i].status = "PENDING" /\ market[i].st = "none"
        BY <1>1, <1>3, <2>1 DEF TicketT, Sound, Spreads!Posts
  <2>4. m \in MarketT /\ m.st = "working" /\ m.done = market[i].done
        BY <1>1, <2>2 DEF MarketT
  <2>5. tickets' = [tickets EXCEPT ![i] = t] /\ market' = [market EXCEPT ![i] = m]
        BY <1>3, <2>1, <2>2 DEF Spreads!Posts
  <2>6. Entire(t, m)
        BY <1>1, <2>3, <2>4 DEF Entire
  <2>7. QED BY <1>2, <2>3, <2>4, <2>5, <2>6, StillHeld
<1>4. CASE Spreads!Lapses(i)
  <2>1. PICK m : m = [market[i] EXCEPT !.st = "dead"]
        OBVIOUS
  <2>2. m \in MarketT /\ m.st = "dead" /\ m.done = market[i].done /\ market[i].st = "working"
        BY <1>1, <1>4, <2>1 DEF MarketT, Spreads!Lapses, Spreads!Live
  <2>3. tickets' = [tickets EXCEPT ![i] = tickets[i]] /\ market' = [market EXCEPT ![i] = m]
        BY <1>1, <1>4, <2>1 DEF Spreads!Lapses
  <2>4. Entire(tickets[i], m)
        BY <1>1, <2>2 DEF Entire
  <2>5. QED BY <1>1, <1>2, <2>2, <2>3, <2>4, StillHeld
<1>5. CASE Spreads!BooksOpen(i) /\ ~Spreads!Free(tickets[i].key)
  <2>1. PICK t : t = [tickets[i] EXCEPT !.at = "over"]
        OBVIOUS
  <2>2. /\ t \in TicketT /\ t.key = tickets[i].key /\ t.side = tickets[i].side /\ t.qty = tickets[i].qty
        /\ t.status = tickets[i].status
        BY <1>1, <2>1 DEF TicketT
  <2>3. tickets' = [tickets EXCEPT ![i] = t] /\ market' = [market EXCEPT ![i] = market[i]]
        BY <1>1, <1>5, <2>1, LostOpen DEF Dealt, DeskInv
  <2>4. Entire(t, market[i])
        BY <1>1, <2>2 DEF Entire
  <2>5. QED BY <1>1, <1>2, <2>2, <2>3, <2>4, StillHeld
<1>6. CASE Spreads!PostFails(i) \/ Spreads!Fails(i)
  <2>1. PICK st \in {"REJECTED", "CANCELLED"} : tickets' = [tickets EXCEPT ![i] = [tickets[i] EXCEPT !.at = "over", !.status = st]]
        BY <1>1, <1>6 DEF Spreads!PostFails, Spreads!Fails
  <2>2. PICK t : t = [tickets[i] EXCEPT !.at = "over", !.status = st]
        OBVIOUS
  <2>3. /\ t \in TicketT /\ t.key = tickets[i].key /\ t.side = tickets[i].side /\ t.qty = tickets[i].qty
        /\ t.status # "PENDING" /\ tickets[i].status = "PENDING"
        BY <1>1, <1>6, <2>2 DEF TicketT, Sound, Spreads!PostFails, Spreads!Fails
  <2>4. PICK m : m = [market[i] EXCEPT !.st = "dead"]
        OBVIOUS
  <2>5. m \in MarketT /\ m.st = "dead" /\ m.done = market[i].done
        BY <1>1, <2>4 DEF MarketT
  <2>6. market' = [market EXCEPT ![i] = m]
    <3>1. CASE Spreads!PostFails(i)
          BY <2>4, <3>1 DEF Spreads!PostFails, Dealt, Spreads!Orderly
    <3>2. CASE Spreads!Fails(i)
      <4>1. m = market[i]
            BY <1>1, <2>4, <3>2 DEF Spreads!Fails, MarketT
      <4>2. QED BY <1>1, <3>2, <4>1 DEF Spreads!Fails
    <3>3. QED BY <1>6, <3>1, <3>2
  <2>7. market[i].done = 0
        BY <1>1, <1>6 DEF Entire, Sound, Spreads!PostFails, Spreads!Fails
  <2>8. Entire(t, m)
        BY <2>5, <2>7 DEF Entire
  <2>9. tickets' = [tickets EXCEPT ![i] = t]
        BY <2>1, <2>2
  <2>10. CASE tickets[i].side = "BUY"
    <3>1. t.side # "SELL"
          BY <2>3, <2>10
    <3>2. QED BY <1>2, <2>3, <2>5, <2>6, <2>8, <2>9, <3>1, StillHeld
  <2>11. CASE tickets[i].side = "SELL"
    <3>1. PICK k \in Keys : k = tickets[i].key
          BY <1>1
    <3>2. Selling(tickets, k, i) /\ i \in DOMAIN tickets
          BY <2>3, <2>11, <3>1, DealtRead DEF Selling
    <3>3. KeyHeld(k, tickets, market, flies[k], lots[k])
          BY DEF Dealt, LotsHeld
    <3>4. flies[k].remaining =< lots[k] + market[i].done /\ (flies[k].status \in {"OPEN", "PARTIAL"} => flies[k].remaining >= 1)
          BY <3>2, <3>3 DEF KeyHeld
    <3>5. lots[k] + 0 = lots[k]
          BY <1>1, <3>1
    <3>6. flies[k].remaining =< lots[k]
          BY <2>7, <3>4, <3>5
    <3>7. QED BY <1>1, <1>2, <2>3, <2>5, <2>6, <2>8, <2>9, <2>11, <3>1, <3>4, <3>6, CloseEnds
  <2>12. QED BY <1>1, <2>10, <2>11 DEF TicketT
<1>7. QED BY <1>3, <1>4, <1>5, <1>6

(* An order trades, whole. *)
LEMMA KeyTrades ==
  ASSUME NEW k, NEW ts, NEW ms, NEW ms2, NEW fly, NEW has \in Int, NEW has2 \in Int, NEW n \in Nat, NEW i \in DOMAIN ts,
         fly.remaining \in Nat, \A j \in DOMAIN ts : ms[j].done \in Nat /\ ts[j].qty \in Nat,
         KeyHeld(k, ts, ms, fly, has),
         ts[i].key = k, ts[i].status = "PENDING", ms[i].done = 0, ms2[i].done = n,
         \A j \in DOMAIN ts : j # i => ms2[j].done = ms[j].done,
         \/ ts[i].side = "BUY" /\ has2 = has + n
         \/ ts[i].side = "SELL" /\ has2 = has - n
  PROVE  KeyHeld(k, ts, ms2, fly, has2)
<1>1. CASE ts[i].side = "BUY" /\ has2 = has + n
  <2>1. ~Selling(ts, k, i)
        BY <1>1 DEF Selling
  <2>2. ASSUME NEW j \in DOMAIN ts, Selling(ts, k, j)
        PROVE  /\ fly.remaining =< has2 + ms2[j].done /\ ts[j].qty =< has2 + ms2[j].done
               /\ \A l \in DOMAIN ts : Selling(ts, k, l) => l = j
    <3>1. /\ fly.remaining =< has + ms[j].done /\ ts[j].qty =< has + ms[j].done
          /\ \A l \in DOMAIN ts : Selling(ts, k, l) => l = j
          BY <2>2 DEF KeyHeld
    <3>2. ms2[j].done = ms[j].done /\ ms[j].done \in Nat /\ ts[j].qty \in Nat
          BY <2>1, <2>2
    <3>3. QED BY <1>1, <3>1, <3>2
  <2>3. ASSUME \A j \in DOMAIN ts : ~Selling(ts, k, j) PROVE fly.remaining =< has2
    <3>1. fly.remaining =< has
          BY <2>3 DEF KeyHeld
    <3>2. QED BY <1>1, <3>1
  <2>4. ASSUME fly.status = "none", NEW j \in DOMAIN ts, ts[j].key = k PROVE ts[j].side = "BUY" /\ ms2[j].done =< has2
    <3>1. ts[j].side = "BUY" /\ ms[j].done =< has /\ ms[i].done =< has /\ ms[j].done \in Nat
          BY <2>4 DEF KeyHeld
    <3>2. QED BY <1>1, <3>1
  <2>5. QED BY <2>2, <2>3, <2>4 DEF KeyHeld
<1>2. CASE ts[i].side = "SELL" /\ has2 = has - n
  <2>1. Selling(ts, k, i)
        BY <1>2 DEF Selling
  <2>2. /\ fly.remaining =< has + ms[i].done /\ ts[i].qty =< has + ms[i].done
        /\ \A l \in DOMAIN ts : Selling(ts, k, l) => l = i
        BY <2>1 DEF KeyHeld
  <2>3. fly.remaining =< has2 + ms2[i].done /\ ts[i].qty =< has2 + ms2[i].done
        BY <1>2, <2>2
  <2>4. fly.status # "none"
        BY <1>2 DEF KeyHeld
  <2>5. fly.status \in {"OPEN", "PARTIAL"} => fly.remaining >= 1
        BY DEF KeyHeld
  <2>6. QED BY <2>1, <2>2, <2>3, <2>4, <2>5 DEF KeyHeld
<1>3. QED BY <1>1, <1>2

LEMMA TradesHeld ==
  ASSUME Dealt, NEW i \in Spreads!Tickets, NEW n \in 1..Ceiling, Spreads!Trades(i, n)
  PROVE  LotsHeld'
<1>1. /\ tickets[i] \in TicketT /\ market[i] \in MarketT /\ tickets[i].key \in Keys /\ tickets[i].qty \in Nat
      /\ Entire(tickets[i], market[i]) /\ Sound(tickets[i], market[i])
      /\ tickets \in Seq(TicketT) /\ market \in Seq(MarketT) /\ Len(market) = Len(tickets)
      /\ Spreads!Tickets = 1..Len(tickets) /\ Spreads!Tickets = DOMAIN tickets /\ lots \in [Keys -> Int]
      /\ \A k \in Keys : flies[k] \in FlyT /\ lots[k] \in Int /\ flies[k].remaining \in Nat
      BY DealtRead
<1>2. market[i].st = "working" /\ market[i].done = 0 /\ tickets[i].status = "PENDING" /\ n \in Nat
      BY <1>1, CapsAssumption DEF Spreads!Trades, Spreads!Live, Entire
<1>3. 0 + n = n
      BY <1>2
<1>4. /\ n = tickets[i].qty /\ UNCHANGED <<flies, tickets>>
      /\ market' = [market EXCEPT ![i] = [st |-> "filled", done |-> n]]
      BY <1>2, <1>3 DEF Spreads!Trades, Dealt, Spreads!Orderly
<1>5. PICK m : m = [st |-> "filled", done |-> n]
      OBVIOUS
<1>6. m \in MarketT /\ m.st = "filled" /\ m.done = n
      BY <1>2, <1>5 DEF MarketT
<1>7. tickets' = [tickets EXCEPT ![i] = tickets[i]] /\ market' = [market EXCEPT ![i] = m]
      BY <1>1, <1>4, <1>5
<1>8. /\ Spreads!Tickets' = Spreads!Tickets /\ DOMAIN tickets' = DOMAIN tickets /\ market'[i] = m
      /\ \A j \in Spreads!Tickets : j # i => tickets'[j] = tickets[j] /\ market'[j] = market[j]
      BY <1>1, <1>6, <1>7, Rewrites
<1>9. \A j \in Spreads!Tickets' : Entire(tickets'[j], market'[j])
  <2>1. Entire(tickets[i], m)
        BY <1>2, <1>4, <1>6 DEF Entire
  <2>2. QED BY <1>4, <1>8, <2>1 DEF Dealt, LotsHeld
<1>10. ASSUME NEW k \in Keys, k # tickets[i].key PROVE KeyHeld(k, tickets', market', flies'[k], lots'[k])
  <2>1. KeyHeld(k, tickets, market, flies[k], lots[k])
        BY DEF Dealt, LotsHeld
  <2>2. KeyKeeps(k, tickets, market, tickets', market')
        BY <1>1, <1>4, <1>8, <1>10 DEF KeyKeeps
  <2>3. KeyHeld(k, tickets', market', flies[k], lots[k])
        BY <2>1, <2>2, KeySame
  <2>4. lots'[k] = lots[k]
        BY <1>1, <1>10 DEF Spreads!Trades
  <2>5. QED BY <1>4, <2>3, <2>4
<1>11. ASSUME NEW k \in Keys, k = tickets[i].key PROVE KeyHeld(k, tickets', market', flies'[k], lots'[k])
  <2>1. KeyHeld(k, tickets, market, flies[k], lots[k]) /\ i \in DOMAIN tickets
        BY <1>1 DEF Dealt, LotsHeld
  <2>2. \/ tickets[i].side = "BUY" /\ lots'[k] = lots[k] + n
        \/ tickets[i].side = "SELL" /\ lots'[k] = lots[k] - n
        BY <1>1, <1>11 DEF Spreads!Trades, TicketT
  <2>3. \A j \in DOMAIN tickets : market[j].done \in Nat /\ tickets[j].qty \in Nat
    <3>1. ASSUME NEW j \in DOMAIN tickets PROVE market[j].done \in Nat /\ tickets[j].qty \in Nat
      <4>1. tickets[j] \in TicketT /\ market[j] \in MarketT
            BY <1>1, <3>1, DealtRead
      <4>2. QED BY <4>1 DEF TicketT, MarketT
    <3>2. QED BY <3>1
  <2>4. PICK has \in Int : has = lots[k]
        BY <1>1
  <2>5. PICK has2 \in Int : has2 = lots'[k]
        BY <1>2, <2>2, <2>4
  <2>6. PICK fly : fly = flies[k] /\ fly.remaining \in Nat
        BY <1>1
  <2>7. PICK ms2 : ms2 = market'
        OBVIOUS
  <2>8. ms2[i].done = n /\ \A j \in DOMAIN tickets : j # i => ms2[j].done = market[j].done
        BY <1>1, <1>6, <1>8, <2>7
  <2>9. KeyHeld(k, tickets, market, fly, has)
        BY <2>1, <2>4, <2>6
  <2>10. \/ tickets[i].side = "BUY" /\ has2 = has + n
         \/ tickets[i].side = "SELL" /\ has2 = has - n
         BY <2>2, <2>4, <2>5
  <2>11. KeyHeld(k, tickets, ms2, fly, has2)
         BY ONLY <1>2, <1>11, <2>1, <2>3, <2>6, <2>8, <2>9, <2>10, KeyTrades
  <2>12. QED BY <1>4, <2>5, <2>6, <2>7, <2>11
<1>12. QED BY <1>9, <1>10, <1>11 DEF LotsHeld

(* A fill that opens its key, and one that closes of it. *)
LEMMA OpenedHeld ==
  ASSUME Dealt, NEW i \in Spreads!Tickets, Spreads!BooksOpen(i), Spreads!Free(tickets[i].key)
  PROVE  LotsHeld'
<1>1. /\ tickets[i] \in TicketT /\ market[i] \in MarketT /\ tickets[i].key \in Keys /\ tickets[i].qty \in Nat
      /\ Entire(tickets[i], market[i]) /\ Sound(tickets[i], market[i])
      /\ tickets \in Seq(TicketT) /\ market \in Seq(MarketT) /\ Len(market) = Len(tickets)
      /\ Spreads!Tickets = 1..Len(tickets) /\ Spreads!Tickets = DOMAIN tickets
      /\ flies \in [Keys -> FlyT] /\ lots \in [Keys -> Int]
      BY DealtRead
<1>2. /\ market[i].done = tickets[i].qty /\ tickets[i].side = "BUY" /\ tickets[i].qty >= 1
      /\ market[i].st = "filled" /\ UNCHANGED <<market, lots>>
      BY <1>1 DEF Spreads!BooksOpen, Spreads!Sold, Entire, Sound
<1>3. PICK t : t = [tickets[i] EXCEPT !.at = "over", !.status = "FILLED"]
      OBVIOUS
<1>4. /\ t \in TicketT /\ t.key = tickets[i].key /\ t.side = "BUY" /\ t.qty = tickets[i].qty /\ t.status = "FILLED"
      BY <1>1, <1>2, <1>3 DEF TicketT
<1>5. tickets' = [tickets EXCEPT ![i] = t] /\ market' = [market EXCEPT ![i] = market[i]]
  <2>1. tickets' = [tickets EXCEPT ![i] = [tickets[i] EXCEPT !.at = "over", !.status = "FILLED"]]
        BY <1>1 DEF Spreads!BooksOpen
  <2>2. QED BY <1>1, <1>2, <1>3, <2>1
<1>6. /\ Spreads!Tickets' = Spreads!Tickets /\ DOMAIN tickets' = DOMAIN tickets
      /\ tickets'[i] = t /\ market'[i] = market[i]
      /\ \A j \in Spreads!Tickets : j # i => tickets'[j] = tickets[j] /\ market'[j] = market[j]
      BY <1>1, <1>4, <1>5, Rewrites
<1>7. \A j \in Spreads!Tickets' : Entire(tickets'[j], market'[j])
  <2>1. Entire(t, market[i])
        BY <1>2, <1>4 DEF Entire
  <2>2. QED BY <1>6, <2>1 DEF Dealt, LotsHeld
<1>8. PICK fly : fly = [status |-> "OPEN", author |-> tickets[i].who, total |-> tickets[i].qty, remaining |-> tickets[i].qty,
                        settled |-> 0]
      OBVIOUS
<1>9. fly.status = "OPEN" /\ fly.remaining = tickets[i].qty /\ flies' = [flies EXCEPT ![tickets[i].key] = fly]
      BY <1>8 DEF Spreads!BooksOpen
<1>10. ASSUME NEW k \in Keys, k # tickets[i].key PROVE KeyHeld(k, tickets', market', flies'[k], lots'[k])
  <2>1. KeyHeld(k, tickets, market, flies[k], lots[k])
        BY DEF Dealt, LotsHeld
  <2>2. KeyKeeps(k, tickets, market, tickets', market')
        BY <1>1, <1>4, <1>6, <1>10 DEF KeyKeeps
  <2>3. KeyHeld(k, tickets', market', flies[k], lots[k])
        BY <2>1, <2>2, KeySame
  <2>4. flies'[k] = flies[k] /\ lots'[k] = lots[k]
        BY <1>1, <1>2, <1>9, <1>10
  <2>5. QED BY <2>3, <2>4
<1>11. ASSUME NEW k \in Keys, k = tickets[i].key PROVE KeyHeld(k, tickets', market', flies'[k], lots'[k])
  <2>1. KeyHeld(k, tickets, market, flies[k], lots[k]) /\ flies[k].status = "none"
        BY <1>11 DEF Dealt, LotsHeld, Spreads!Free
  <2>2. (\A j \in DOMAIN tickets : tickets[j].key = k => tickets[j].side = "BUY") /\ market[i].done =< lots[k]
        BY <1>1, <1>11, <2>1 DEF KeyHeld
  <2>3. \A j \in DOMAIN tickets : ~Selling(tickets', k, j)
        BY <1>1, <1>4, <1>6, <2>2 DEF Selling
  <2>4. flies'[k] = fly /\ lots'[k] = lots[k]
        BY <1>1, <1>2, <1>9, <1>11
  <2>5. KeyHeld(k, tickets', market', fly, lots[k])
        BY <1>2, <1>6, <1>9, <2>2, <2>3 DEF KeyHeld
  <2>6. QED BY <2>4, <2>5
<1>12. QED BY <1>7, <1>10, <1>11 DEF LotsHeld

LEMMA ClosedHeld ==
  ASSUME Dealt, NEW i \in Spreads!Tickets, Spreads!BooksClose(i)
  PROVE  LotsHeld'
<1>1. /\ tickets[i] \in TicketT /\ market[i] \in MarketT /\ tickets[i].qty \in Nat
      /\ Entire(tickets[i], market[i]) /\ Sound(tickets[i], market[i])
      /\ tickets \in Seq(TicketT) /\ market \in Seq(MarketT) /\ Len(market) = Len(tickets)
      /\ Spreads!Tickets = 1..Len(tickets) /\ Spreads!Tickets = DOMAIN tickets
      /\ flies \in [Keys -> FlyT] /\ lots \in [Keys -> Int]
      BY DealtRead
<1>2. PICK k \in Keys : k = tickets[i].key
      BY DealtRead
<1>3. /\ market[i].done = tickets[i].qty /\ tickets[i].side = "SELL" /\ tickets[i].status = "PENDING"
      /\ market[i].st = "filled" /\ UNCHANGED <<market, lots>>
      BY <1>1 DEF Spreads!BooksClose, Spreads!Sold, Entire, Sound
<1>4. PICK t : t = [tickets[i] EXCEPT !.at = "over", !.status = "FILLED"]
      OBVIOUS
<1>5. t \in TicketT /\ t.key = tickets[i].key /\ t.side = tickets[i].side /\ t.qty = tickets[i].qty /\ t.status = "FILLED"
      BY <1>1, <1>4 DEF TicketT
<1>6. tickets' = [tickets EXCEPT ![i] = t] /\ market' = [market EXCEPT ![i] = market[i]]
  <2>1. tickets' = [tickets EXCEPT ![i] = [tickets[i] EXCEPT !.at = "over", !.status = "FILLED"]]
        BY <1>1 DEF Spreads!BooksClose
  <2>2. QED BY <1>1, <1>3, <1>4, <2>1
<1>7. Entire(t, market[i])
      BY <1>3, <1>5 DEF Entire
<1>8. /\ \A j \in Keys : j # k => flies'[j] = flies[j]
      /\ flies'[k] = Spreads!Reduced(flies[k], tickets[i].qty)
      BY <1>1, <1>2 DEF Spreads!BooksClose
<1>9. KeyHeld(k, tickets, market, flies[k], lots[k]) /\ Selling(tickets, k, i) /\ flies[k] \in FlyT /\ lots[k] \in Int
      BY <1>1, <1>2, <1>3 DEF Dealt, LotsHeld, Selling
<1>10. PICK n \in Nat : n = tickets[i].qty
       BY <1>1
<1>11. PICK has \in Int : has = lots[k]
       BY <1>9
<1>12. PICK rem \in Nat : rem = flies[k].remaining
       BY <1>9 DEF FlyT
<1>13. rem =< has + n /\ n =< has + n
       BY <1>1, <1>3, <1>9, <1>10, <1>11, <1>12 DEF KeyHeld
<1>14. PICK rest \in Nat : rest = Spreads!Most(0, rem - n) /\ rest =< has
       BY <1>13 DEF Spreads!Most
<1>15. /\ flies'[k].remaining = rest /\ flies'[k].status = IF rest = 0 THEN "CLOSED" ELSE "PARTIAL"
       BY <1>8, <1>9, <1>10, <1>12, <1>14 DEF Spreads!Reduced, FlyT
<1>16. /\ flies'[k].status \in {"OPEN", "PARTIAL"} => flies'[k].remaining >= 1
       /\ flies'[k].status # "none" /\ flies'[k].remaining =< lots[k]
       BY <1>11, <1>14, <1>15
<1>17. QED BY <1>1, <1>2, <1>3, <1>5, <1>6, <1>7, <1>8, <1>16, CloseEnds

(* An order is added. *)
OneMore(ts, ms, ts2, ms2, new) ==
  /\ DOMAIN ts2 = DOMAIN ts \cup {new} /\ new \notin DOMAIN ts
  /\ \A j \in DOMAIN ts : ts2[j] = ts[j] /\ ms2[j] = ms[j]

LEMMA KeyAdds ==
  ASSUME NEW k, NEW ts, NEW ms, NEW ts2, NEW ms2, NEW new, NEW fly, NEW has,
         OneMore(ts, ms, ts2, ms2, new), KeyHeld(k, ts, ms, fly, has), ~Selling(ts2, k, new),
         fly.status = "none" => ts2[new].key # k \/ (ts2[new].side = "BUY" /\ ms2[new].done =< has)
  PROVE  KeyHeld(k, ts2, ms2, fly, has)
<1>1. \A j \in DOMAIN ts : Selling(ts2, k, j) <=> Selling(ts, k, j)
      BY DEF Selling, OneMore
<1>2. \A j \in DOMAIN ts2 : Selling(ts2, k, j) => j \in DOMAIN ts
      BY DEF OneMore
<1>3. \A j \in DOMAIN ts : ts2[j] = ts[j] /\ ms2[j] = ms[j]
      BY DEF OneMore
<1>4. DOMAIN ts \subseteq DOMAIN ts2 /\ \A j \in DOMAIN ts2 : j \in DOMAIN ts \/ j = new
      BY DEF OneMore
<1>5. QED BY <1>1, <1>2, <1>3, <1>4 DEF KeyHeld

(* A ticket of the key k is written, and all else but its row stays.        *)
Written(k, t, m) ==
  /\ tickets' = Append(tickets, t) /\ market' = Append(market, m) /\ UNCHANGED lots
  /\ \A j \in Keys : j # k => flies'[j] = flies[j]
Grown(t, m, new) == OneMore(tickets, market, tickets', market', new) /\ tickets'[new] = t /\ market'[new] = m

LEMMA Adds ==
  ASSUME Dealt, NEW k \in Keys, NEW t \in TicketT, t.key = k, NEW m \in MarketT, Entire(t, m),
         NEW new, new = Len(tickets) + 1, Written(k, t, m),
         Grown(t, m, new) => KeyHeld(k, tickets', market', flies'[k], lots[k])
  PROVE  LotsHeld'
<1>1. Deals /\ Spreads!Tickets = DOMAIN tickets
      BY DEF Dealt, DeskInv, Spreads!Tickets
<1>2. /\ Spreads!Tickets' = Spreads!Tickets \cup {new} /\ new \notin Spreads!Tickets
      /\ tickets'[new] = t /\ market'[new] = m
      /\ \A j \in Spreads!Tickets : tickets'[j] = tickets[j] /\ market'[j] = market[j]
      BY <1>1, OneMoreTicket DEF Written
<1>3. Grown(t, m, new) /\ OneMore(tickets, market, tickets', market', new)
      BY <1>1, <1>2 DEF Grown, OneMore, Spreads!Tickets
<1>4. \A j \in Spreads!Tickets' : Entire(tickets'[j], market'[j])
      BY <1>2 DEF Dealt, LotsHeld
<1>5. ASSUME NEW j \in Keys PROVE KeyHeld(j, tickets', market', flies'[j], lots'[j])
  <2>1. CASE j = k
    <3>1. KeyHeld(k, tickets', market', flies'[k], lots[k]) /\ lots' = lots
          BY <1>3 DEF Written
    <3>2. QED BY <2>1, <3>1
  <2>2. CASE j # k
    <3>1. KeyHeld(j, tickets, market, flies[j], lots[j])
          BY DEF Dealt, LotsHeld
    <3>2. ~Selling(tickets', j, new) /\ tickets'[new].key # j
          BY <1>2, <2>2 DEF Selling
    <3>3. KeyHeld(j, tickets', market', flies[j], lots[j])
          BY <1>3, <3>1, <3>2, KeyAdds
    <3>4. flies'[j] = flies[j] /\ lots' = lots
          BY <2>2 DEF Written
    <3>5. QED BY <3>3, <3>4
  <2>3. QED BY <2>1, <2>2
<1>6. QED BY <1>4, <1>5 DEF LotsHeld

LEMMA OpensHeld ==
  ASSUME Dealt, NEW k \in Keys, NEW a \in Analysts, NEW risk \in Risks, NEW stated \in Stated,
         Spreads!Opens(k, a, risk, stated)
  PROVE  LotsHeld'
<1> DEFINE size == Spreads!Size(risk, stated)
<1>1. size \in Nat
      BY SizeCapped DEF Spreads!Opens
<1>2. PICK t : t = Spreads!Ticket(k, "BUY", size, a)
      OBVIOUS
<1>3. PICK m : m = Spreads!Unsent
      OBVIOUS
<1>4. /\ tickets' = Append(tickets, t) /\ market' = Append(market, m)
      /\ UNCHANGED <<flies, lots>> /\ ~Spreads!Standing(k)
      BY <1>2, <1>3 DEF Spreads!Opens, Spreads!Writes
<1> HIDE DEF size
<1>5. t \in TicketT /\ t.key = k /\ t.side = "BUY" /\ t.status = "PENDING"
      BY <1>1, <1>2 DEF Spreads!Ticket, TicketT
<1>6. /\ m \in MarketT /\ Entire(t, m) /\ m.done = 0
      BY <1>5, <1>3 DEF Spreads!Unsent, MarketT, Entire
<1>7. PICK new : new = Len(tickets) + 1
      OBVIOUS
<1>8. /\ KeyHeld(k, tickets, market, flies[k], lots[k]) /\ flies[k] \in FlyT /\ flies[k].remaining \in Nat
      /\ lots[k] \in Int
      BY DEF Dealt, DeskInv, Deals, LotsHeld, FlyT
<1>9. ASSUME Grown(t, m, new)
      PROVE  KeyHeld(k, tickets', market', flies[k], lots[k])
  <2>1. ~Selling(tickets', k, new)
        BY <1>5, <1>9 DEF Grown, Selling
  <2>2. ASSUME flies[k].status = "none" PROVE 0 =< lots[k]
    <3>1. \A j \in DOMAIN tickets : ~Selling(tickets, k, j)
          BY <1>8, <2>2 DEF KeyHeld, Selling
    <3>2. flies[k].remaining =< lots[k]
          BY <1>8, <3>1 DEF KeyHeld
    <3>3. QED BY <1>8, <3>2
  <2>3. OneMore(tickets, market, tickets', market', new)
        BY <1>9 DEF Grown
  <2>4. tickets'[new].side = "BUY" /\ market'[new].done = 0
        BY <1>5, <1>6, <1>9 DEF Grown
  <2>5. flies[k].status = "none" => tickets'[new].key # k \/ (tickets'[new].side = "BUY" /\ market'[new].done =< lots[k])
        BY <2>2, <2>4
  <2>6. QED BY <1>8, <2>1, <2>3, <2>5, KeyAdds
<1>10. ASSUME Grown(t, m, new)
       PROVE  KeyHeld(k, tickets', market', flies'[k], lots[k])
       BY <1>4, <1>9, <1>10
<1>11. Written(k, t, m)
       BY <1>4 DEF Written
<1>12. QED BY <1>5, <1>6, <1>7, <1>10, <1>11, Adds

LEMMA ClosesHeld ==
  ASSUME Dealt, NEW k \in Keys, NEW a, NEW named, NEW qty \in 1..Ceiling, Spreads!Closes(k, a, named, qty)
  PROVE  LotsHeld'
<1>1. PICK t : t = Spreads!Ticket(k, "SELL", qty, "none")
      OBVIOUS
<1>2. PICK m : m = Spreads!Unsent
      OBVIOUS
<1>3. /\ tickets' = Append(tickets, t) /\ market' = Append(market, m)
      /\ UNCHANGED <<flies, lots>> /\ Spreads!Standing(k) /\ ~Spreads!Closing(k) /\ qty \in Spreads!Parts(k)
      BY <1>1, <1>2 DEF Spreads!Closes, Spreads!Writes, Spreads!Means, Dealt, Spreads!Orderly
<1>4. qty \in Nat
      BY CapsAssumption
<1>5. t \in TicketT /\ t.key = k /\ t.side = "SELL" /\ t.status = "PENDING" /\ t.qty = qty
      BY <1>1, <1>4 DEF Spreads!Ticket, TicketT
<1>6. /\ m \in MarketT /\ Entire(t, m) /\ m.done = 0
      BY <1>5, <1>2 DEF Spreads!Unsent, MarketT, Entire
<1>7. PICK new : new = Len(tickets) + 1
      OBVIOUS
<1>8. /\ KeyHeld(k, tickets, market, flies[k], lots[k]) /\ flies[k] \in FlyT /\ flies[k].remaining \in Nat
      /\ lots[k] \in Int
      BY DEF Dealt, DeskInv, Deals, LotsHeld, FlyT
<1>9. \A j \in DOMAIN tickets : ~Selling(tickets, k, j)
      BY <1>3 DEF Spreads!Closing, Selling, Spreads!Tickets
<1>10. flies[k].status \in {"OPEN", "PARTIAL"} /\ flies[k].remaining >= 1 /\ flies[k].remaining =< lots[k]
      BY <1>3, <1>8, <1>9 DEF KeyHeld, Spreads!Standing
<1>11. qty =< flies[k].remaining
       BY <1>3, <1>8, <1>10 DEF Spreads!Parts, Spreads!Most
<1>12. ASSUME Grown(t, m, new)
       PROVE  KeyHeld(k, tickets', market', flies[k], lots[k])
  <2>1. \A j \in DOMAIN tickets' : Selling(tickets', k, j) => j = new
        BY <1>9, <1>12 DEF Grown, Selling, OneMore
  <2>2. Selling(tickets', k, new) /\ new \in DOMAIN tickets'
        BY <1>5, <1>12 DEF Grown, Selling, OneMore
  <2>3. flies[k].remaining =< lots[k] + market'[new].done /\ tickets'[new].qty =< lots[k] + market'[new].done
        BY <1>4, <1>5, <1>6, <1>8, <1>10, <1>11, <1>12 DEF Grown
  <2>4. QED BY <1>10, <2>1, <2>2, <2>3 DEF KeyHeld
<1>13. ASSUME Grown(t, m, new)
       PROVE  KeyHeld(k, tickets', market', flies'[k], lots[k])
       BY <1>3, <1>12, <1>13
<1>14. Written(k, t, m)
       BY <1>3 DEF Written
<1>15. QED BY <1>5, <1>6, <1>7, <1>13, <1>14, Adds

LEMMA WrittenOffHeld ==
  ASSUME Dealt, NEW k \in Keys, Spreads!WritesOff(k)
  PROVE  LotsHeld'
<1>1. PICK n : n = flies[k].remaining
      OBVIOUS
<1>2. PICK t : t = [Spreads!Ticket(k, "SELL", n, "none") EXCEPT !.status = "FILLED", !.at = "over"]
      OBVIOUS
<1>3. PICK m : m = [Spreads!Unsent EXCEPT !.st = "dead"]
      OBVIOUS
<1>4. /\ tickets' = Append(tickets, t) /\ market' = Append(market, m) /\ UNCHANGED lots
      /\ flies' = [flies EXCEPT ![k] = Spreads!Reduced(flies[k], n)]
      BY <1>1, <1>2, <1>3 DEF Spreads!WritesOff
<1>5. /\ KeyHeld(k, tickets, market, flies[k], lots[k]) /\ flies[k] \in FlyT /\ flies[k].remaining \in Nat /\ n \in Nat
      /\ lots[k] \in Int /\ flies \in [Keys -> FlyT] /\ Deals
      BY <1>1 DEF Dealt, DeskInv, Deals, LotsHeld, FlyT
<1>6. t \in TicketT /\ t.key = k /\ t.side = "SELL" /\ t.status = "FILLED"
      BY <1>2, <1>5 DEF Spreads!Ticket, TicketT
<1>7. m \in MarketT /\ Entire(t, m)
      BY <1>3, <1>6 DEF Spreads!Unsent, MarketT, Entire
<1>8. PICK new : new = Len(tickets) + 1
      OBVIOUS
<1>9. flies'[k].remaining = 0 /\ flies'[k].status = "CLOSED" /\ \A j \in Keys : j # k => flies'[j] = flies[j]
  <2>1. Spreads!Most(0, n - n) = 0
        BY <1>5 DEF Spreads!Most
  <2>2. Spreads!Reduced(flies[k], n) = [flies[k] EXCEPT !.remaining = 0, !.status = "CLOSED"]
        BY <1>1, <2>1 DEF Spreads!Reduced
  <2>3. QED BY <1>4, <1>5, <2>2 DEF FlyT
<1>10. PICK fly : fly = flies'[k] /\ fly.remaining = 0 /\ fly.status = "CLOSED"
       BY <1>9
<1>11. KeyHeld(k, tickets, market, fly, lots[k])
  <2>1. ASSUME NEW j \in DOMAIN tickets, Selling(tickets, k, j)
        PROVE  /\ fly.remaining =< lots[k] + market[j].done /\ tickets[j].qty =< lots[k] + market[j].done
               /\ \A l \in DOMAIN tickets : Selling(tickets, k, l) => l = j
    <3>1. /\ tickets[j].qty =< lots[k] + market[j].done
          /\ \A l \in DOMAIN tickets : Selling(tickets, k, l) => l = j
          BY <1>5, <2>1 DEF KeyHeld
    <3>2. tickets[j].qty \in Nat /\ market[j].done \in Nat
      <4>1. tickets[j] \in TicketT /\ market[j] \in MarketT
            BY <1>5, <2>1, DealsRead DEF Spreads!Tickets
      <4>2. QED BY <4>1 DEF TicketT, MarketT
    <3>3. QED BY <1>5, <1>10, <3>1, <3>2
  <2>2. ASSUME \A j \in DOMAIN tickets : ~Selling(tickets, k, j) PROVE fly.remaining =< lots[k]
    <3>1. flies[k].remaining =< lots[k]
          BY <1>5, <2>2 DEF KeyHeld
    <3>2. QED BY <1>5, <1>10, <3>1
  <2>3. QED BY <1>10, <2>1, <2>2 DEF KeyHeld
<1>12. ASSUME Grown(t, m, new)
       PROVE  KeyHeld(k, tickets', market', flies'[k], lots[k])
  <2>1. ~Selling(tickets', k, new)
        BY <1>6, <1>12 DEF Grown, Selling
  <2>2. KeyHeld(k, tickets', market', fly, lots[k])
        BY <1>10, <1>11, <1>12, <2>1, KeyAdds DEF Grown
  <2>3. QED BY <1>10, <2>2
<1>13. Written(k, t, m)
       BY <1>4, <1>9 DEF Written
<1>14. QED BY <1>6, <1>7, <1>8, <1>12, <1>13, Adds

LEMMA SettledHeld ==
  ASSUME Dealt, NEW k \in Keys, Spreads!Settles(k)
  PROVE  LotsHeld'
<1>1. /\ flies \in [Keys -> FlyT] /\ flies[k] \in FlyT /\ flies[k].remaining \in Nat /\ lots[k] \in Int
      /\ KeyHeld(k, tickets, market, flies[k], lots[k]) /\ Deals
      BY DEF Dealt, DeskInv, Deals, LotsHeld, FlyT
<1>2. PICK fly : fly = flies'[k]
      OBVIOUS
<1>3. /\ fly.status = "CLOSED" /\ fly.remaining = 0 /\ UNCHANGED <<tickets, market, lots>>
      /\ \A j \in Keys : j # k => flies'[j] = flies[j]
      BY <1>1, <1>2 DEF Spreads!Settles, FlyT
<1>4. KeyHeld(k, tickets, market, fly, lots[k])
  <2>1. ASSUME NEW j \in DOMAIN tickets, Selling(tickets, k, j)
        PROVE  /\ fly.remaining =< lots[k] + market[j].done /\ tickets[j].qty =< lots[k] + market[j].done
               /\ \A l \in DOMAIN tickets : Selling(tickets, k, l) => l = j
    <3>1. /\ tickets[j].qty =< lots[k] + market[j].done
          /\ \A l \in DOMAIN tickets : Selling(tickets, k, l) => l = j
          BY <1>1, <2>1 DEF KeyHeld
    <3>2. tickets[j].qty \in Nat /\ market[j].done \in Nat
          BY <1>1, <2>1, DealsRead DEF Spreads!Tickets, TicketT, MarketT
    <3>3. QED BY <1>1, <1>3, <3>1, <3>2
  <2>2. ASSUME \A j \in DOMAIN tickets : ~Selling(tickets, k, j) PROVE fly.remaining =< lots[k]
    <3>1. flies[k].remaining =< lots[k]
          BY <1>1, <2>2 DEF KeyHeld
    <3>2. QED BY <1>1, <1>3, <3>1
  <2>3. QED BY <1>3, <2>1, <2>2 DEF KeyHeld
<1>5. \A i \in Spreads!Tickets' : Entire(tickets'[i], market'[i])
      BY <1>3 DEF Dealt, LotsHeld, Spreads!Tickets
<1>6. ASSUME NEW j \in Keys, j # k PROVE KeyHeld(j, tickets', market', flies'[j], lots'[j])
      BY <1>3, <1>6 DEF Dealt, LotsHeld
<1>7. QED BY <1>2, <1>3, <1>4, <1>5, <1>6 DEF LotsHeld

LEMMA SceneStays ==
  ASSUME [Spreads!Next]_(Spreads!desk)
  PROVE  scene' = scene
BY DEF Spreads!Next, Spreads!Opens, Spreads!Closes, Spreads!ClosesWorthless, Spreads!WritesOff, Spreads!Expires,
       Spreads!Settles, Spreads!Posts, Spreads!PostFails,
       Spreads!Lapses, Spreads!Trades, Spreads!BooksOpen, Spreads!BooksClose, Spreads!Fails, Spreads!GivesUp,
       Spreads!Restarts, Spreads!desk

LEMMA HeldInit ==
  ASSUME Spreads!Init
  PROVE  LotsHeld
<1>1. /\ tickets = <<>> /\ flies = [k \in Keys |-> Spreads!NoFly] /\ lots = [k \in Keys |-> 0]
      BY DEF Spreads!Init
<1>2. Spreads!NoFly.status = "none" /\ Spreads!NoFly.remaining = 0
      BY DEF Spreads!NoFly
<1>3. DOMAIN tickets = {} /\ Spreads!Tickets = {}
      BY <1>1 DEF Spreads!Tickets
<1>4. ASSUME NEW k \in Keys PROVE KeyHeld(k, tickets, market, flies[k], lots[k])
  <2>1. flies[k].status = "none" /\ flies[k].remaining = 0 /\ lots[k] = 0
        BY <1>1, <1>2
  <2>2. QED BY <1>3, <2>1 DEF KeyHeld
<1>5. QED BY <1>3, <1>4 DEF LotsHeld

LEMMA HeldNext ==
  ASSUME Dealt, [Spreads!Next]_(Spreads!desk)
  PROVE  LotsHeld'
<1>1. CASE UNCHANGED Spreads!desk
  <2>1. UNCHANGED <<flies, tickets, market, lots>>
        BY <1>1 DEF Spreads!desk
  <2>2. QED BY <2>1 DEF Dealt, LotsHeld, Spreads!Tickets
<1>2. ASSUME NEW i \in Spreads!Tickets,
             \/ Spreads!Posts(i) \/ Spreads!PostFails(i) \/ Spreads!Lapses(i) \/ \E n \in 1..Ceiling : Spreads!Trades(i, n)
             \/ Spreads!BooksOpen(i) \/ Spreads!BooksClose(i) \/ Spreads!Fails(i) \/ Spreads!GivesUp(i)
      PROVE  LotsHeld'
  <2>1. ~Spreads!GivesUp(i)
        BY DEF Dealt, Spreads!Orderly, Spreads!GivesUp
  <2>2. QED BY <1>2, <2>1, QuietHeld, TradesHeld, OpenedHeld, ClosedHeld
<1>3. ~Spreads!Restarts
      BY DEF Dealt, Spreads!Orderly, Spreads!Restarts
<1>4. ASSUME NEW k \in Keys, Spreads!WritesOff(k) \/ Spreads!Settles(k) PROVE LotsHeld'
      BY <1>4, WrittenOffHeld, SettledHeld
<1>5. QED BY <1>1, <1>2, <1>3, <1>4, OpensHeld, ClosesHeld DEF Spreads!Next, Spreads!ClosesWorthless, Spreads!Expires

LEMMA HeldMeans ==
  ASSUME Dealt
  PROVE  Spreads!SpreadsBacked
<1>1. SUFFICES ASSUME NEW k \in Keys PROVE flies[k].remaining =< lots[k] + Spreads!Due(k)
      BY DEF Spreads!SpreadsBacked
<1> DEFINE pending == {i \in Spreads!Tickets : Selling(tickets, k, i)}
           traded == UNION {{i} \X (1 .. market[i].done) : i \in pending}
<1>2. Spreads!Due(k) = Cardinality(traded)
  <2>1. \A S : Spreads!Cardinality(S) = Cardinality(S)
        BY DEF Spreads!Cardinality, Cardinality
  <2>2. QED BY <2>1 DEF Spreads!Due, Selling
<1>3. KeyHeld(k, tickets, market, flies[k], lots[k]) /\ lots[k] \in Int /\ Deals
      BY DEF Dealt, DeskInv, Deals, LotsHeld
<1>4. CASE pending = {}
  <2>1. traded = {} /\ \A i \in DOMAIN tickets : ~Selling(tickets, k, i)
        BY <1>4 DEF Spreads!Tickets
  <2>2. Cardinality(traded) = 0
        BY <2>1, FS_EmptySet
  <2>3. flies[k].remaining =< lots[k]
        BY <1>3, <2>1 DEF KeyHeld
  <2> HIDE DEF traded
  <2>4. lots[k] + 0 = lots[k]
        BY <1>3
  <2>5. QED BY <1>2, <2>2, <2>3, <2>4
<1>5. ASSUME NEW i \in pending PROVE flies[k].remaining =< lots[k] + Spreads!Due(k)
  <2>1. flies[k].remaining =< lots[k] + market[i].done /\ \A j \in DOMAIN tickets : Selling(tickets, k, j) => j = i
        BY <1>3 DEF KeyHeld, Spreads!Tickets
  <2>2. pending = {i}
        BY <2>1 DEF Spreads!Tickets
  <2>3. market[i].done \in Nat
        BY <1>3, DealsRead DEF MarketT
  <2>4. traded = {i} \X (1 .. market[i].done)
        BY <2>2
  <2>5. Cardinality(traded) = market[i].done
        BY <2>3, <2>4, SliceCard
  <2> HIDE DEF traded
  <2>6. QED BY <1>2, <2>1, <2>5
<1>6. QED BY <1>4, <1>5

(* What is done to the spreads in a step of the venues. *)
LEMMA SpreadMoves ==
  ASSUME [VenuesNext]_venues
  PROVE  [Spreads!Next]_(Spreads!desk)
BY DEF VenuesNext, venues, Spreads!desk

LEMMA SpreadsHold ==
  VenuesSpec => [](Spreads!SpreadsAgree /\ Spreads!SpreadsBacked)
<1> DEFINE Inv == DeskInv /\ (Spreads!Orderly => LotsHeld)
<1>1. VenuesInit => Inv
      BY DeskInit, HeldInit DEF VenuesInit
<1>2. Inv /\ [VenuesNext]_venues => Inv'
  <2>1. SUFFICES ASSUME Inv, [VenuesNext]_venues PROVE Inv'
        OBVIOUS
  <2>2. [Spreads!Next]_(Spreads!desk)
        BY <2>1, SpreadMoves
  <2>3. DeskInv' /\ scene' = scene
        BY <2>1, <2>2, DeskNext, SceneStays
  <2>4. ASSUME Spreads!Orderly' PROVE LotsHeld'
    <3>1. Dealt
          BY <2>1, <2>3, <2>4 DEF Dealt, Spreads!Orderly
    <3>2. QED BY <2>2, <3>1, HeldNext
  <2>5. QED BY <2>3, <2>4
<1>3. Inv => Spreads!SpreadsAgree /\ Spreads!SpreadsBacked
  <2>1. DeskInv => Spreads!SpreadsAgree
        BY DEF DeskInv
  <2>2. ASSUME Inv, Spreads!Orderly PROVE Spreads!SpreadsBacked
        BY <2>2, HeldMeans DEF Dealt
  <2>3. ASSUME ~Spreads!Orderly PROVE Spreads!SpreadsBacked
        BY <2>3 DEF Spreads!SpreadsBacked
  <2>4. QED BY <2>1, <2>2, <2>3
<1> HIDE DEF Inv
<1>4. QED BY <1>1, <1>2, <1>3, PTL DEF VenuesSpec

-----------------------------------------------------------------------------
(* All the venues *)

LEMMA WayChosen ==
  VenuesSpec => [](way \in SomeWays)
<1>1. VenuesInit => way \in SomeWays
      BY DEF VenuesInit, Rest!Init
<1>2. way \in SomeWays /\ [VenuesNext]_venues => (way \in SomeWays)'
      BY RestMoves, WayStays
<1>3. QED BY <1>1, <1>2, PTL DEF VenuesSpec

(* Whatever finds a fill, at whichever broker, it is taken off its position *)
(* once, and a spread's row counts its FILLED orders, whichever were in     *)
(* flight together, lost their poller or found the key taken, and within    *)
(* the cap: for any quantities, any number of orders, keys and analysts.    *)
THEOREM AllFillsBookedOnce == WholeLegs => (VenuesSpec => []AllBooked)
<1> SUFFICES ASSUME WholeLegs PROVE VenuesSpec => []AllBooked
    OBVIOUS
<1>1. way \in SomeWays => WholeIn(way)
      BY DEF WholeLegs
<1>2. BooksMatch /\ (WholeIn(way) => Rest!BooksOnce) /\ Spreads!SpreadsAgree /\ WholeIn(way) => AllBooked
      BY DEF AllBooked
<1>3. QED BY <1>1, <1>2, IbkrFillsBookedOnce, RestFillsBookedOnce, SpreadsHold, WayChosen, PTL

(* No broker's account goes short by an exit that was replaced while it may *)
(* fill, and what a spread's row counts is there to be closed, where the    *)
(* hypotheses each conjunct states hold.                                    *)
THEOREM NothingIsOversold == VenuesSpec => []NothingOversold
<1>1. NeverShort /\ Rest!NotOversold /\ Spreads!SpreadsBacked => NothingOversold
      BY DEF NothingOversold
<1>2. QED BY <1>1, IbkrNeverShort, RestNeverShort, SpreadsHold, PTL

=============================================================================
