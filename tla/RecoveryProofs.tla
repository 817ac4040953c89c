--------------------------- MODULE RecoveryProofs ---------------------------
(***************************************************************************)
(* Proofs about Recovery: no closed position comes back on an old          *)
(* portfolio, and no sale is recorded twice.  The sums of sales are first; *)
(* then the invariant, whose heart is that at most one SELL is still due   *)
(* to be booked by a task, and that what is adopted is adopted into it.    *)
(***************************************************************************)
EXTENDS Recovery, SequenceTheorems, WellFoundedInduction, TLAPS

-----------------------------------------------------------------------------
(* Sums *)

(* g[n] is the sum of the first n. *)
Sums(s, g) ==
  /\ g \in [0..Len(s) -> Nat] /\ g[0] = 0
  /\ \A n \in 1..Len(s) : g[n] = g[n - 1] + s[n]

(* Some numbers have a least. *)
LEMMA LeastThere ==
  ASSUME NEW S, S \subseteq Nat, S # {}
  PROVE  \E x \in S : \A y \in S : x =< y
<1>1. PICK x \in S : \A y \in S : ~ (<<y, x>> \in OpToRel(<, Nat))
      BY NatLessThanWellFounded, WFMin
<1>2. \A y \in S : x =< y
  <2>1. SUFFICES ASSUME NEW y \in S PROVE x =< y
        OBVIOUS
  <2>2. <<y, x>> \in Nat \X Nat /\ ~(y < x)
        BY <1>1, <2>1 DEF OpToRel
  <2>3. x \in Nat /\ y \in Nat
        BY <2>1
  <2>4. QED BY <2>2, <2>3
<1>3. QED BY <1>2

(* The first n of s have sums. *)
Summed(s, n) == \E g \in [0..n -> Nat] : g[0] = 0 /\ \A m \in 1..n : g[m] = g[m - 1] + s[m]

LEMMA SummedOn ==
  ASSUME NEW s, NEW n \in Nat, s[n + 1] \in Nat, Summed(s, n)
  PROVE  Summed(s, n + 1)
<1>1. PICK g \in [0..n -> Nat] : g[0] = 0 /\ \A m \in 1..n : g[m] = g[m - 1] + s[m]
      BY DEF Summed
<1> DEFINE h == [m \in 0..n + 1 |-> IF m = n + 1 THEN g[n] + s[n + 1] ELSE g[m]]
<1>2. h \in [0..n + 1 -> Nat] /\ h[0] = 0
      BY <1>1
<1>3. ASSUME NEW m \in 1..n + 1 PROVE h[m] = h[m - 1] + s[m]
  <2>1. CASE m = n + 1
        BY <2>1
  <2>2. CASE m # n + 1
    <3>1. m \in 1..n /\ m - 1 \in 0..n /\ m \in 0..n + 1 /\ m - 1 # n + 1
          BY <2>2
    <3>2. h[m] = g[m] /\ h[m - 1] = g[m - 1]
          BY <3>1
    <3>3. QED BY <1>1, <3>1, <3>2
  <2>3. QED BY <2>1, <2>2
<1> HIDE DEF h
<1>4. QED BY <1>2, <1>3 DEF Summed

LEMMA SumsThere ==
  ASSUME NEW s \in Seq(Nat)
  PROVE  \E g : Sums(s, g)
<1>1. Len(s) \in Nat /\ \A m \in 1..Len(s) : s[m] \in Nat
      BY LenProperties
<1> DEFINE Bad == {n \in 0..Len(s) : ~Summed(s, n)}
<1>2. Bad = {}
  <2>1. SUFFICES ASSUME Bad # {} PROVE FALSE
        OBVIOUS
  <2>2. Bad \subseteq Nat
        BY <1>1
  <2>3. PICK n \in Bad : \A m \in Bad : n =< m
        BY <2>1, <2>2, LeastThere
  <2>4. n \in 0..Len(s) /\ ~Summed(s, n) /\ n \in Nat
        BY <1>1, <2>3
  <2>5. CASE n = 0
    <3> DEFINE g == [m \in {0} |-> 0]
    <3>1. g \in [0..0 -> Nat] /\ g[0] = 0
          OBVIOUS
    <3>2. \A m \in 1..0 : g[m] = g[m - 1] + s[m]
          OBVIOUS
    <3> HIDE DEF g
    <3>3. Summed(s, 0)
          BY <3>1, <3>2 DEF Summed
    <3>4. QED BY <2>4, <2>5, <3>3
  <2>6. CASE n # 0
    <3>1. n - 1 \in Nat /\ n - 1 \in 0..Len(s) /\ n - 1 \notin Bad /\ (n - 1) + 1 = n
          BY <1>1, <2>3, <2>4, <2>6
    <3>2. Summed(s, n - 1) /\ s[(n - 1) + 1] \in Nat
          BY <1>1, <2>4, <2>6, <3>1
    <3>3. Summed(s, (n - 1) + 1)
          BY <3>1, <3>2, SummedOn
    <3>4. QED BY <2>4, <3>1, <3>3
  <2>7. QED BY <2>5, <2>6
<1>3. Summed(s, Len(s))
      BY <1>1, <1>2
<1>4. QED BY <1>3 DEF Summed, Sums

(* Total is the last of the sums. *)
LEMMA TotalIs ==
  ASSUME NEW s \in Seq(Nat)
  PROVE  \E g : Sums(s, g) /\ Total(s) = g[Len(s)]
<1> DEFINE upto[n \in 0..Len(s)] == IF n = 0 THEN 0 ELSE upto[n - 1] + s[n]
<1> DEFINE Is(g) == g = [n \in 0..Len(s) |-> IF n = 0 THEN 0 ELSE g[n - 1] + s[n]]
<1>1. Len(s) \in Nat
      BY LenProperties
<1>2. PICK g : Sums(s, g)
      BY SumsThere
<1>3. Is(g)
  <2>1. \A n \in 0..Len(s) : g[n] = IF n = 0 THEN 0 ELSE g[n - 1] + s[n]
        BY <1>1, <1>2 DEF Sums
  <2>2. g \in [0..Len(s) -> Nat]
        BY <1>2 DEF Sums
  <2>3. QED BY <2>1, <2>2
<1>4. upto = CHOOSE h : Is(h)
      BY DEF upto
<1>5. Is(upto)
      BY <1>3, <1>4
<1>6. Total(s) = upto[Len(s)]
      BY DEF Total, upto
<1> HIDE DEF upto
<1>7. Sums(s, upto)
  <2> DEFINE Off == {n \in 0..Len(s) : upto[n] # g[n]}
  <2>1. \A n \in 0..Len(s) : upto[n] = IF n = 0 THEN 0 ELSE upto[n - 1] + s[n]
        BY <1>5
  <2>2. Off = {}
    <3>1. SUFFICES ASSUME Off # {} PROVE FALSE
          OBVIOUS
    <3>2. PICK n \in Off : \A m \in Off : n =< m
      <4>1. Off \subseteq Nat
            BY <1>1
      <4>2. QED BY <3>1, <4>1, LeastThere
    <3>3. n \in 0..Len(s) /\ upto[n] # g[n]
          BY <3>2
    <3>4. n # 0
          BY <1>1, <1>2, <2>1, <3>3 DEF Sums
    <3>5. n - 1 \in 0..Len(s) /\ n - 1 \notin Off /\ n \in 1..Len(s)
          BY <1>1, <3>2, <3>3, <3>4
    <3>6. upto[n - 1] = g[n - 1]
          BY <3>5
    <3>7. QED BY <1>2, <2>1, <3>3, <3>4, <3>5, <3>6 DEF Sums
  <2>3. \A n \in 0..Len(s) : upto[n] = g[n]
        BY <2>2
  <2>4. upto = g
    <3>1. upto = [n \in 0..Len(s) |-> IF n = 0 THEN 0 ELSE upto[n - 1] + s[n]]
          BY <1>5
    <3>2. upto = [n \in 0..Len(s) |-> upto[n]]
          BY <3>1
    <3>3. g = [n \in 0..Len(s) |-> g[n]]
          BY <1>2 DEF Sums
    <3>4. QED BY <2>3, <3>2, <3>3
  <2>5. QED BY <1>2, <2>4
<1>8. QED BY <1>6, <1>7

LEMMA TotalNat ==
  ASSUME NEW s \in Seq(Nat)
  PROVE  Total(s) \in Nat
<1>1. PICK g : Sums(s, g) /\ Total(s) = g[Len(s)]
      BY TotalIs
<1>2. Len(s) \in Nat
      BY LenProperties
<1>3. QED BY <1>1, <1>2 DEF Sums

(* Where one sequence is nowhere above another, neither is its sum.         *)
LEMMA SumsLess ==
  ASSUME NEW s \in Seq(Nat), NEW t \in Seq(Nat), NEW g, NEW h, Sums(s, g), Sums(t, h),
         NEW N \in Nat, N =< Len(s), N =< Len(t), \A j \in 1..N : t[j] =< s[j]
  PROVE  \A n \in 0..N : h[n] =< g[n]
<1>1. /\ Len(s) \in Nat /\ \A m \in 1..Len(s) : s[m] \in Nat
      /\ Len(t) \in Nat /\ \A m \in 1..Len(t) : t[m] \in Nat
      BY LenProperties
<1> DEFINE Bad == {n \in 0..N : ~(h[n] =< g[n])}
<1>2. Bad = {}
  <2>1. SUFFICES ASSUME Bad # {} PROVE FALSE
        OBVIOUS
  <2>2. Bad \subseteq Nat
        OBVIOUS
  <2>3. PICK n \in Bad : \A m \in Bad : n =< m
        BY <2>1, <2>2, LeastThere
  <2>4. n \in 0..N /\ ~(h[n] =< g[n])
        BY <2>3
  <2>5. n # 0
        BY <2>4 DEF Sums
  <2>6. n - 1 \in 0..N /\ n - 1 \notin Bad /\ n \in 1..N /\ n \in 1..Len(s) /\ n \in 1..Len(t)
        BY <1>1, <2>3, <2>4, <2>5
  <2>7. h[n - 1] =< g[n - 1] /\ h[n - 1] \in Nat /\ g[n - 1] \in Nat
    <3>1. n - 1 \in 0..Len(s) /\ n - 1 \in 0..Len(t)
          BY <1>1, <2>6
    <3>2. h[n - 1] \in Nat /\ g[n - 1] \in Nat
          BY <3>1 DEF Sums
    <3>3. QED BY <2>6, <3>2
  <2>8. h[n] = h[n - 1] + t[n] /\ g[n] = g[n - 1] + s[n]
        BY <2>6 DEF Sums
  <2>9. t[n] =< s[n] /\ t[n] \in Nat /\ s[n] \in Nat
        BY <1>1, <2>6
  <2>10. PICK a \in Nat, b \in Nat, x \in Nat, y \in Nat : a = h[n - 1] /\ b = g[n - 1] /\ x = t[n] /\ y = s[n]
        BY <2>7, <2>9
  <2>11. a =< b
        BY <2>7, <2>10
  <2>12. x =< y
        BY <2>9, <2>10
  <2>13. a + x =< b + y
        BY <2>11, <2>12
  <2>14. QED BY <2>4, <2>8, <2>10, <2>13
<1>3. QED BY <1>2

LEMMA TotalLess ==
  ASSUME NEW s \in Seq(Nat), NEW t \in Seq(Nat), Len(t) = Len(s), \A j \in 1..Len(s) : t[j] =< s[j]
  PROVE  Total(t) =< Total(s)
<1>1. Len(s) \in Nat
      BY LenProperties
<1>2. PICK g : Sums(s, g) /\ Total(s) = g[Len(s)]
      BY TotalIs
<1>3. PICK h : Sums(t, h) /\ Total(t) = h[Len(t)]
      BY TotalIs
<1>4. \A n \in 0..Len(s) : h[n] =< g[n]
  <2>1. Len(s) =< Len(s) /\ Len(s) =< Len(t)
        BY <1>1
  <2>2. QED BY <1>1, <1>2, <1>3, <2>1, SumsLess
<1>5. QED BY <1>1, <1>2, <1>3, <1>4

LEMMA TotalAppend ==
  ASSUME NEW s \in Seq(Nat), NEW x \in Nat
  PROVE  /\ Append(s, x) \in Seq(Nat) /\ Len(Append(s, x)) = Len(s) + 1
         /\ Total(Append(s, x)) = Total(s) + x
<1>1. Len(s) \in Nat
      BY LenProperties
<1>2. PICK t : t = Append(s, x)
      OBVIOUS
<1>3. t \in Seq(Nat) /\ Len(t) = Len(s) + 1 /\ t[Len(s) + 1] = x /\ \A j \in 1..Len(s) : t[j] = s[j]
      BY <1>2, AppendProperties
<1>4. PICK g : Sums(s, g) /\ Total(s) = g[Len(s)]
      BY TotalIs
<1>5. PICK h : Sums(t, h) /\ Total(t) = h[Len(t)]
      BY <1>3, TotalIs
<1>6. Len(s) =< Len(s) /\ Len(s) =< Len(t) /\ Len(s) \in 0..Len(s) /\ \A j \in 1..Len(s) : s[j] \in Nat
      BY <1>1, <1>3, ElementOfSeq
<1>7. h[Len(s)] =< g[Len(s)]
  <2>1. \A j \in 1..Len(s) : t[j] =< s[j]
        BY <1>3, <1>6
  <2>2. \A n \in 0..Len(s) : h[n] =< g[n]
        BY <1>1, <1>3, <1>4, <1>5, <1>6, <2>1, SumsLess
  <2>3. QED BY <1>6, <2>2
<1>8. g[Len(s)] =< h[Len(s)]
  <2>1. \A j \in 1..Len(s) : s[j] =< t[j]
        BY <1>3, <1>6
  <2>2. \A n \in 0..Len(s) : g[n] =< h[n]
        BY <1>1, <1>3, <1>4, <1>5, <1>6, <2>1, SumsLess
  <2>3. QED BY <1>6, <2>2
<1>9. h[Len(t)] = h[Len(s)] + x
  <2>1. Len(s) + 1 \in 1..Len(t) /\ (Len(s) + 1) - 1 = Len(s)
        BY <1>1, <1>3
  <2>2. h[Len(s) + 1] = h[(Len(s) + 1) - 1] + t[Len(s) + 1]
        BY <1>5, <2>1 DEF Sums
  <2>3. QED BY <1>3, <2>1, <2>2
<1>10. g[Len(s)] \in Nat /\ h[Len(s)] \in Nat
      BY <1>1, <1>3, <1>4, <1>5 DEF Sums
<1>11. QED BY <1>2, <1>3, <1>4, <1>5, <1>7, <1>8, <1>9, <1>10

(* So it is of all but one of them, which is left out on either side. *)
LEMMA TotalWithout ==
  ASSUME NEW s \in Seq(Nat), NEW t \in Seq(Nat), Len(t) = Len(s), NEW i \in 1..Len(s),
         \A j \in 1..Len(s) : j # i => t[j] =< s[j]
  PROVE  Total(t) + s[i] =< Total(s) + t[i]
<1>1. /\ Len(s) \in Nat /\ \A m \in 1..Len(s) : s[m] \in Nat
      /\ Len(t) \in Nat /\ \A m \in 1..Len(t) : t[m] \in Nat
      BY LenProperties
<1>2. PICK g : Sums(s, g) /\ Total(s) = g[Len(s)]
      BY TotalIs
<1>3. PICK h : Sums(t, h) /\ Total(t) = h[Len(t)]
      BY TotalIs
<1> DEFINE Right(n) == IF n < i THEN h[n] =< g[n] ELSE h[n] + s[i] =< g[n] + t[i]
<1> DEFINE Bad == {n \in 0..Len(s) : ~Right(n)}
<1>4. Bad = {}
  <2>1. SUFFICES ASSUME Bad # {} PROVE FALSE
        OBVIOUS
  <2>2. Bad \subseteq Nat
        BY <1>1
  <2>3. PICK n \in Bad : \A m \in Bad : n =< m
        BY <2>1, <2>2, LeastThere
  <2>4. n \in 0..Len(s) /\ ~Right(n)
        BY <2>3
  <2>5. n # 0
        BY <1>1, <1>2, <1>3, <2>4 DEF Sums
  <2>6. n - 1 \in 0..Len(s) /\ n - 1 \notin Bad /\ n \in 1..Len(s) /\ n \in 1..Len(t) /\ n \in Nat
        BY <1>1, <2>3, <2>4, <2>5
  <2>7. Right(n - 1) /\ h[n - 1] \in Nat /\ g[n - 1] \in Nat
        BY <1>1, <1>2, <1>3, <2>6 DEF Sums
  <2>8. h[n] = h[n - 1] + t[n] /\ g[n] = g[n - 1] + s[n]
        BY <1>2, <1>3, <2>6 DEF Sums
  <2>9. t[n] \in Nat /\ s[n] \in Nat /\ t[i] \in Nat /\ s[i] \in Nat /\ (n # i => t[n] =< s[n])
        BY <1>1, <2>6
  <2>10. PICK a \in Nat, b \in Nat, x \in Nat, y \in Nat, u \in Nat, v \in Nat :
         a = h[n - 1] /\ b = g[n - 1] /\ x = t[n] /\ y = s[n] /\ u = t[i] /\ v = s[i]
       BY <2>7, <2>9
  <2>11. CASE n < i
    <3>1. n - 1 < i /\ n # i
          BY <1>1, <2>6, <2>11
    <3>2. h[n - 1] =< g[n - 1]
          BY <2>7, <3>1
    <3>3. a =< b
          BY <2>10, <3>2
    <3>4. x =< y
          BY <2>9, <2>10, <3>1
    <3>5. a + x =< b + y
          BY <3>3, <3>4
    <3>6. QED BY <2>4, <2>8, <2>11, <2>10, <3>5
  <2>12. CASE n = i
    <3>1. n - 1 < i
          BY <1>1, <2>6, <2>12
    <3>2. h[n - 1] =< g[n - 1]
          BY <2>7, <3>1
    <3>3. a =< b
          BY <2>10, <3>2
    <3>4. x = u /\ y = v /\ ~(n < i)
          BY <1>1, <2>6, <2>12, <2>10
    <3>5. (a + x) + v =< (b + y) + u
          BY <3>3, <3>4
    <3>6. QED BY <2>4, <2>8, <2>10, <3>4, <3>5
  <2>13. CASE i < n
    <3>1. ~(n - 1 < i) /\ n # i /\ ~(n < i)
          BY <1>1, <2>6, <2>13
    <3>2. h[n - 1] + s[i] =< g[n - 1] + t[i]
          BY <2>7, <3>1
    <3>3. a + v =< b + u
          BY <2>10, <3>2
    <3>4. x =< y
          BY <2>9, <2>10, <3>1
    <3>5. (a + x) + v =< (b + y) + u
          BY <3>3, <3>4
    <3>6. QED BY <2>4, <2>8, <2>10, <3>1, <3>5
  <2>14. QED BY <1>1, <2>6, <2>11, <2>12, <2>13
<1>5. Len(s) \in 0..Len(s) /\ ~(Len(s) < i)
      BY <1>1
<1>6. Right(Len(s))
      BY <1>4, <1>5
<1>7. QED BY <1>2, <1>3, <1>5, <1>6

(* The sum of the first k of a sequence. *)
LEMMA FirstIs ==
  ASSUME NEW s \in Seq(Nat), NEW g, Sums(s, g), NEW k \in 0..Len(s)
  PROVE  Total(SubSeq(s, 1, k)) = g[k] /\ g[k] \in Nat
<1>1. Len(s) \in Nat /\ k \in Nat /\ \A j \in 1..Len(s) : s[j] \in Nat
      BY LenProperties
<1>2. PICK t : t = SubSeq(s, 1, k)
      OBVIOUS
<1>3. t \in Seq(Nat) /\ Len(t) = k /\ \A j \in 1..k : t[j] = s[j]
  <2>1. \A j \in 1..k : s[j] \in Nat
        BY <1>1
  <2>2. /\ t \in Seq(Nat) /\ Len(t) = IF 1 <= k THEN k - 1 + 1 ELSE 0
        /\ \A j \in 1..k - 1 + 1 : t[j] = s[1 + j - 1]
        BY <1>1, <1>2, <2>1, SubSeqProperties
  <2>3. Len(t) = k
        BY <1>1, <2>2
  <2>4. ASSUME NEW j \in 1..k PROVE t[j] = s[j]
    <3>1. j \in 1..k - 1 + 1 /\ 1 + j - 1 = j
          BY <1>1
    <3>2. QED BY <2>2, <3>1
  <2>5. QED BY <2>2, <2>3, <2>4
<1>4. PICK h : Sums(t, h) /\ Total(t) = h[Len(t)]
      BY <1>3, TotalIs
<1>5. k =< Len(s) /\ k =< Len(t) /\ k \in 0..k /\ \A j \in 1..k : t[j] =< s[j] /\ s[j] =< t[j]
  <2>1. \A j \in 1..k : s[j] \in Nat
        BY <1>1
  <2>2. QED BY <1>1, <1>3, <2>1
<1>6. h[k] =< g[k]
  <2>1. \A n \in 0..k : h[n] =< g[n]
        BY <1>1, <1>3, <1>4, <1>5, SumsLess
  <2>2. QED BY <1>5, <2>1
<1>7. g[k] =< h[k]
  <2>1. \A n \in 0..k : g[n] =< h[n]
        BY <1>1, <1>3, <1>4, <1>5, SumsLess
  <2>2. QED BY <1>5, <2>1
<1>8. g[k] \in Nat /\ h[k] \in Nat
  <2>1. k \in 0..Len(t)
        BY <1>1, <1>3
  <2>2. h[k] \in Nat
        BY <1>4, <2>1 DEF Sums
  <2>3. QED BY <2>2 DEF Sums
<1>9. h[k] = g[k]
      BY <1>6, <1>7, <1>8
<1>10. QED BY <1>2, <1>3, <1>4, <1>8, <1>9

(* Sums only grow. *)
LEMMA SumsGrow ==
  ASSUME NEW s \in Seq(Nat), NEW g, Sums(s, g), NEW k \in 0..Len(s)
  PROVE  g[k] =< g[Len(s)]
<1>1. Len(s) \in Nat /\ k \in Nat /\ \A j \in 1..Len(s) : s[j] \in Nat
      BY LenProperties
<1> DEFINE Bad == {n \in k..Len(s) : ~(g[k] =< g[n])}
<1>2. Bad = {}
  <2>1. SUFFICES ASSUME Bad # {} PROVE FALSE
        OBVIOUS
  <2>2. Bad \subseteq Nat
        BY <1>1
  <2>3. PICK n \in Bad : \A m \in Bad : n =< m
        BY <2>1, <2>2, LeastThere
  <2>4. n \in k..Len(s) /\ ~(g[k] =< g[n]) /\ g[k] \in Nat
        BY <1>1, <2>3 DEF Sums
  <2>5. n # k
        BY <2>4
  <2>6. n - 1 \in k..Len(s) /\ n - 1 \notin Bad /\ n \in 1..Len(s) /\ n - 1 \in 0..Len(s)
        BY <1>1, <2>3, <2>4, <2>5
  <2>7. g[k] =< g[n - 1] /\ g[n] = g[n - 1] + s[n] /\ s[n] \in Nat /\ g[n - 1] \in Nat
        BY <1>1, <2>6 DEF Sums
  <2>8. PICK a \in Nat, b \in Nat, x \in Nat : a = g[k] /\ b = g[n - 1] /\ x = s[n]
        BY <2>4, <2>7
  <2>9. a =< b + x
        BY <2>7, <2>8
  <2>10. QED BY <2>4, <2>7, <2>8, <2>9
<1>3. Len(s) \in k..Len(s)
      BY <1>1
<1>4. QED BY <1>2, <1>3

LEMMA TotalJoined ==
  ASSUME NEW s \in Seq(Nat), NEW t \in Seq(Nat)
  PROVE  Total(s \o t) = Total(s) + Total(t)
<1>1. /\ Len(s) \in Nat /\ \A j \in 1..Len(s) : s[j] \in Nat
      /\ Len(t) \in Nat /\ \A j \in 1..Len(t) : t[j] \in Nat
      BY LenProperties
<1>2. PICK u : u = s \o t
      OBVIOUS
<1>3. /\ u \in Seq(Nat) /\ Len(u) = Len(s) + Len(t)
      /\ \A j \in 1..Len(s) + Len(t) : u[j] = IF j =< Len(s) THEN s[j] ELSE t[j - Len(s)]
      BY <1>2, ConcatProperties
<1>4. PICK g : Sums(s, g) /\ Total(s) = g[Len(s)]
      BY TotalIs
<1>5. PICK h : Sums(t, h) /\ Total(t) = h[Len(t)]
      BY TotalIs
<1>6. PICK f : Sums(u, f) /\ Total(u) = f[Len(u)]
      BY <1>3, TotalIs
<1>7. PICK M \in Nat, N \in Nat : M = Len(s) /\ N = Len(t)
      BY <1>1
<1>8. f[M] = g[M] /\ f[M] \in Nat
  <2>1. M =< Len(s) /\ M =< Len(u) /\ M \in 0..M
        BY <1>1, <1>3, <1>7
  <2>2. ASSUME NEW j \in 1..M PROVE u[j] =< s[j] /\ s[j] =< u[j]
    <3>1. j \in 1..Len(s) + Len(t) /\ j =< Len(s) /\ s[j] \in Nat
          BY <1>1, <1>7
    <3>2. u[j] = s[j]
          BY <1>3, <3>1
    <3>3. QED BY <3>1, <3>2
  <2>3. \A n \in 0..M : f[n] =< g[n]
        BY <1>3, <1>4, <1>6, <2>1, <2>2, SumsLess
  <2>4. \A n \in 0..M : g[n] =< f[n]
        BY <1>3, <1>4, <1>6, <2>1, <2>2, SumsLess
  <2>5. f[M] \in Nat /\ g[M] \in Nat
        BY <1>1, <1>3, <1>4, <1>6, <1>7 DEF Sums
  <2>6. QED BY <2>1, <2>3, <2>4, <2>5
<1> DEFINE Bad == {n \in 0..N : f[M + n] # f[M] + h[n]}
<1>9. Bad = {}
  <2>1. SUFFICES ASSUME Bad # {} PROVE FALSE
        OBVIOUS
  <2>2. Bad \subseteq Nat
        BY <1>7
  <2>3. PICK n \in Bad : \A m \in Bad : n =< m
        BY <2>1, <2>2, LeastThere
  <2>4. n \in 0..N /\ f[M + n] # f[M] + h[n]
        BY <2>3
  <2>5. n # 0
    <3>1. h[0] = 0 /\ M + 0 = M /\ f[M] + 0 = f[M]
          BY <1>5, <1>8 DEF Sums
    <3>2. QED BY <2>4, <3>1
  <2>6. n - 1 \in 0..N /\ n - 1 \notin Bad /\ n \in 1..N /\ n \in Nat
        BY <1>7, <2>3, <2>4, <2>5
  <2>7. f[M + (n - 1)] = f[M] + h[n - 1]
        BY <2>6
  <2>8. h[n] = h[n - 1] + t[n] /\ h[n - 1] \in Nat /\ t[n] \in Nat
        BY <1>1, <1>5, <1>7, <2>6 DEF Sums
  <2>9. f[M + n] = f[M + (n - 1)] + t[n]
    <3>1. M + n \in 1..Len(u) /\ M + n - 1 = M + (n - 1) /\ ~(M + n =< Len(s)) /\ M + n - Len(s) = n
          BY <1>1, <1>3, <1>7, <2>6
    <3>2. f[M + n] = f[M + n - 1] + u[M + n]
          BY <1>6, <3>1 DEF Sums
    <3>3. u[M + n] = t[n]
      <4>1. M + n \in 1..Len(s) + Len(t)
            BY <1>3, <3>1
      <4>2. u[M + n] = IF M + n =< Len(s) THEN s[M + n] ELSE t[M + n - Len(s)]
            BY <1>3, <4>1
      <4>3. QED BY <3>1, <4>2
    <3>4. QED BY <3>1, <3>2, <3>3
  <2>10. PICK a \in Nat, b \in Nat, x \in Nat : a = f[M] /\ b = h[n - 1] /\ x = t[n]
        BY <1>8, <2>8
  <2>11. f[M + n] = (a + b) + x /\ h[n] = b + x
        BY <2>7, <2>8, <2>9, <2>10
  <2>12. (a + b) + x = a + (b + x)
        OBVIOUS
  <2>13. QED BY <2>4, <2>10, <2>11, <2>12
<1>10. N \in 0..N
       BY <1>7
<1>11. f[M + N] = f[M] + h[N]
       BY <1>9, <1>10
<1>12. QED BY <1>2, <1>3, <1>4, <1>5, <1>6, <1>7, <1>8, <1>11

-----------------------------------------------------------------------------
(* The invariant *)

Roles == {"BUY", "SELL"}
Statuses == {"PENDING", "PARTIALLY_FILLED", "FILLED", "CANCELLED", "REJECTED", "ERROR"}
RowT == [side : Roles, qty : Nat, status : Statuses, filled : Nat, early : BOOLEAN]
OrderT == [at : {"none", "working", "filled", "dead"}, filled : Nat]
TaskT == SUBSET {"full", "blind"}
PosT == [row : {"none", "open", "closed"}, left : Nat, recent : BOOLEAN, since : Nat, sales : Nat, began : Nat]
PassT == [at : {"idle"}] \cup [at : {"fetched", "looking"}, qty : Nat, sales : Nat, ended : SUBSET Nat, left : Nat]

Orderly ==
  /\ rows \in Seq(RowT) /\ broker \in Seq(OrderT) /\ task \in Seq(TaskT)
  /\ Len(broker) = Len(rows) /\ Len(task) = Len(rows)
  /\ placing \in 0..Len(rows)

Shapes ==
  /\ set \in SomeSettings
  /\ Orderly
  /\ pos \in PosT /\ pos.since =< Len(rows) + 1
  /\ held \in Nat /\ shown \in [qty : Nat, sales : Nat] /\ sales \in Seq(Nat)
  /\ pass \in PassT /\ cycle \in Nat /\ stray \in BOOLEAN /\ skewed \in BOOLEAN

Sells == {i \in DOMAIN rows : rows[i].side = "SELL"}

(* A POST that is awaited is of an order the broker does not have; a        *)
(* process that comes up polls nothing; what a portfolio calls ended is; a  *)
(* row that is there was opened; exits need one.                            *)
Frame ==
  /\ placing # 0 => broker[placing].at = "none"
  /\ boot = "reconciling" => placing = 0 /\ \A i \in DOMAIN rows : task[i] = {}
  /\ pass.at # "idle" => \A i \in pass.ended : i \in DOMAIN rows /\ broker[i].at = "dead"
  /\ pos.row # "none" => cycle >= 1
  /\ pos.row = "none" => Sells = {} /\ pass.at # "looking"
  /\ \A i \in Sells : rows[i].status # "PARTIALLY_FILLED"

(* A row that a pass might reopen was closed before the sales its portfolio *)
(* counts.                                                                  *)
Seen ==
  /\ pos.sales =< Len(sales)
  /\ pos.row # "closed" => pos.sales = 0
  /\ pos.row = "closed" /\ ~pos.recent =>
       /\ shown.sales >= pos.sales
       /\ pass.at = "fetched" => pass.qty = 0 \/ pass.sales >= pos.sales

(* A SELL that a task, now or after a restart, may still book; and one of   *)
(* which the row says already what the task would make it say.              *)
Bookable(i) == i \in Sells /\ broker[i].at # "dead" /\ (task[i] # {} \/ placing = i \/ rows[i].status = "PENDING")
Settled(i) == rows[i].status = "FILLED" /\ broker[i].at = "filled" /\ rows[i].filled = broker[i].filled
Due(i) == Bookable(i) /\ ~Settled(i)

(* What a row says was sold, and what some rows say.                        *)
Qty(r) == IF r.side = "SELL" /\ r.status = "FILLED" THEN r.filled ELSE 0
Recorded(rs) == Total([i \in DOMAIN rs |-> Qty(rs[i])])

(* Were it booked, its fill would not make the rows' sales too many.        *)
Covered(i) == Recorded(rows) + broker[i].filled =< Total(sales) + Qty(rows[i])

(* A row adopted while its task goes on belongs to a position that is over. *)
AdoptedLast(i) == rows[i].status # "PENDING" => pos.row # "open" /\ pass.at # "looking"

Books ==
  /\ Recorded(rows) =< Total(sales)
  /\ \A i \in Sells : Due(i) => Covered(i) /\ AdoptedLast(i)
  /\ \A i, j \in Sells : Due(i) /\ Due(j) => i = j
  /\ \A i, j \in Sells : rows[i].status = "PENDING" => j =< i
  /\ \A i \in Sells : pos.since =< i

Calm == cycle =< 1 /\ ~stray /\ ~skewed

RecoveryInv == Shapes /\ Frame /\ (Calm => Books)

LEMMA Reads ==
  ASSUME Orderly
  PROVE  /\ Len(rows) \in Nat /\ DOMAIN rows = 1..Len(rows) /\ DOMAIN broker = 1..Len(rows) /\ DOMAIN task = 1..Len(rows)
         /\ Sells \subseteq 1..Len(rows)
         /\ \A i \in 1..Len(rows) : rows[i] \in RowT /\ broker[i] \in OrderT /\ task[i] \in TaskT
<1>1. /\ Len(rows) \in Nat /\ DOMAIN rows = 1..Len(rows)
      /\ DOMAIN broker = 1..Len(rows) /\ DOMAIN task = 1..Len(rows)
      BY LenProperties DEF Orderly
<1>2. \A i \in 1..Len(rows) : rows[i] \in RowT /\ broker[i] \in OrderT /\ task[i] \in TaskT
      BY ElementOfSeq DEF Orderly
<1>3. QED BY <1>1, <1>2 DEF Sells

LEMMA Tallies ==
  ASSUME NEW rs \in Seq(RowT), NEW s, s = [i \in DOMAIN rs |-> Qty(rs[i])]
  PROVE  /\ s \in Seq(Nat) /\ Len(s) = Len(rs) /\ Recorded(rs) = Total(s) /\ Recorded(rs) \in Nat
         /\ \A i \in 1..Len(rs) : s[i] = Qty(rs[i]) /\ Qty(rs[i]) \in Nat
<1>1. Len(rs) \in Nat /\ DOMAIN rs = 1..Len(rs) /\ \A i \in 1..Len(rs) : rs[i] \in RowT
      BY LenProperties, ElementOfSeq
<1>2. \A i \in 1..Len(rs) : Qty(rs[i]) \in Nat
      BY <1>1 DEF Qty, RowT
<1>3. s \in [1..Len(rs) -> Nat] /\ \A i \in 1..Len(rs) : s[i] = Qty(rs[i])
      BY <1>1, <1>2
<1>4. s \in Seq(Nat) /\ Len(s) = Len(rs)
      BY <1>1, <1>3, SeqDef, LenProperties
<1>5. Recorded(rs) = Total(s)
      BY DEF Recorded
<1>6. QED BY <1>2, <1>3, <1>4, <1>5, TotalNat

LEMMA RecordedNat ==
  ASSUME NEW rs \in Seq(RowT)
  PROVE  Recorded(rs) \in Nat /\ \A i \in 1..Len(rs) : Qty(rs[i]) \in Nat
<1>1. PICK s : s = [i \in DOMAIN rs |-> Qty(rs[i])]
      OBVIOUS
<1>2. QED BY <1>1, Tallies

LEMMA RecordedLess ==
  ASSUME NEW rs \in Seq(RowT), NEW qs \in Seq(RowT), Len(qs) = Len(rs),
         \A i \in 1..Len(rs) : Qty(qs[i]) =< Qty(rs[i])
  PROVE  Recorded(qs) =< Recorded(rs)
<1>1. PICK s : s = [i \in DOMAIN rs |-> Qty(rs[i])]
      OBVIOUS
<1>2. PICK q : q = [i \in DOMAIN qs |-> Qty(qs[i])]
      OBVIOUS
<1>3. /\ s \in Seq(Nat) /\ Len(s) = Len(rs) /\ Recorded(rs) = Total(s)
      /\ \A i \in 1..Len(rs) : s[i] = Qty(rs[i])
      BY <1>1, Tallies
<1>4. /\ q \in Seq(Nat) /\ Len(q) = Len(qs) /\ Recorded(qs) = Total(q)
      /\ \A i \in 1..Len(qs) : q[i] = Qty(qs[i])
      BY <1>2, Tallies
<1>5. Len(q) = Len(s) /\ \A i \in 1..Len(s) : q[i] =< s[i]
      BY <1>3, <1>4
<1>6. QED BY <1>3, <1>4, <1>5, TotalLess

LEMMA RecordedWithout ==
  ASSUME NEW rs \in Seq(RowT), NEW qs \in Seq(RowT), Len(qs) = Len(rs), NEW k \in 1..Len(rs),
         \A i \in 1..Len(rs) : i # k => Qty(qs[i]) =< Qty(rs[i])
  PROVE  Recorded(qs) + Qty(rs[k]) =< Recorded(rs) + Qty(qs[k])
<1>1. PICK s : s = [i \in DOMAIN rs |-> Qty(rs[i])]
      OBVIOUS
<1>2. PICK q : q = [i \in DOMAIN qs |-> Qty(qs[i])]
      OBVIOUS
<1>3. /\ s \in Seq(Nat) /\ Len(s) = Len(rs) /\ Recorded(rs) = Total(s)
      /\ \A i \in 1..Len(rs) : s[i] = Qty(rs[i])
      BY <1>1, Tallies
<1>4. /\ q \in Seq(Nat) /\ Len(q) = Len(qs) /\ Recorded(qs) = Total(q)
      /\ \A i \in 1..Len(qs) : q[i] = Qty(qs[i])
      BY <1>2, Tallies
<1>5. Len(q) = Len(s) /\ k \in 1..Len(s) /\ \A i \in 1..Len(s) : i # k => q[i] =< s[i]
      BY <1>3, <1>4
<1>6. Total(q) + s[k] =< Total(s) + q[k]
      BY <1>3, <1>4, <1>5, TotalWithout
<1>7. QED BY <1>3, <1>4, <1>6

LEMMA RecordedMore ==
  ASSUME NEW rs \in Seq(RowT), NEW r \in RowT
  PROVE  Recorded(Append(rs, r)) = Recorded(rs) + Qty(r)
<1>1. PICK s : s = [i \in DOMAIN rs |-> Qty(rs[i])]
      OBVIOUS
<1>2. PICK qs : qs = Append(rs, r)
      OBVIOUS
<1>3. qs \in Seq(RowT) /\ Len(qs) = Len(rs) + 1 /\ qs[Len(rs) + 1] = r /\ \A i \in 1..Len(rs) : qs[i] = rs[i]
      BY <1>2, AppendProperties
<1>4. PICK q : q = [i \in DOMAIN qs |-> Qty(qs[i])]
      OBVIOUS
<1>5. /\ s \in Seq(Nat) /\ Len(s) = Len(rs) /\ Recorded(rs) = Total(s) /\ Len(rs) \in Nat
      /\ \A i \in 1..Len(rs) : s[i] = Qty(rs[i])
      BY <1>1, Tallies, LenProperties
<1>6. /\ q \in Seq(Nat) /\ Len(q) = Len(qs) /\ Recorded(qs) = Total(q)
      /\ \A i \in 1..Len(qs) : q[i] = Qty(qs[i])
      BY <1>3, <1>4, Tallies
<1>7. PICK x \in Nat : x = Qty(r)
      BY DEF Qty, RowT
<1>8. PICK z : z = Append(s, x)
      OBVIOUS
<1>9. z \in Seq(Nat) /\ Len(z) = Len(s) + 1 /\ Total(z) = Total(s) + x
      BY <1>5, <1>8, TotalAppend
<1>10. \A i \in 1..Len(z) : z[i] = IF i \in 1..Len(s) THEN s[i] ELSE x
      BY <1>5, <1>8, AppendProperties
<1>11. q = z
  <2>1. Len(q) = Len(z)
        BY <1>3, <1>5, <1>6, <1>9
  <2>2. ASSUME NEW i \in 1..Len(q) PROVE q[i] = z[i]
    <3>1. CASE i \in 1..Len(rs)
          BY <1>3, <1>5, <1>6, <1>10, <2>1, <3>1
    <3>2. CASE i = Len(rs) + 1
          BY <1>3, <1>5, <1>6, <1>7, <1>10, <2>1, <3>2
    <3>3. QED BY <1>3, <1>5, <1>6, <3>1, <3>2
  <2>3. QED BY <1>6, <1>9, <2>1, <2>2, SeqEqual
<1>12. QED BY <1>2, <1>5, <1>6, <1>7, <1>9, <1>11

LEMMA RecordedJoined ==
  ASSUME NEW rs \in Seq(RowT), NEW new \in Seq(RowT)
  PROVE  Recorded(rs \o new) = Recorded(rs) + Recorded(new)
<1>1. PICK s : s = [i \in DOMAIN rs |-> Qty(rs[i])]
      OBVIOUS
<1>2. PICK n : n = [i \in DOMAIN new |-> Qty(new[i])]
      OBVIOUS
<1>3. PICK qs : qs = rs \o new
      OBVIOUS
<1>4. /\ qs \in Seq(RowT) /\ Len(qs) = Len(rs) + Len(new) /\ Len(rs) \in Nat /\ Len(new) \in Nat
      /\ \A i \in 1..Len(rs) + Len(new) : qs[i] = IF i =< Len(rs) THEN rs[i] ELSE new[i - Len(rs)]
      BY <1>3, ConcatProperties, LenProperties
<1>5. PICK q : q = [i \in DOMAIN qs |-> Qty(qs[i])]
      OBVIOUS
<1>6. /\ s \in Seq(Nat) /\ Len(s) = Len(rs) /\ Recorded(rs) = Total(s)
      /\ \A i \in 1..Len(rs) : s[i] = Qty(rs[i])
      BY <1>1, Tallies
<1>7. /\ n \in Seq(Nat) /\ Len(n) = Len(new) /\ Recorded(new) = Total(n)
      /\ \A i \in 1..Len(new) : n[i] = Qty(new[i])
      BY <1>2, Tallies
<1>8. /\ q \in Seq(Nat) /\ Len(q) = Len(qs) /\ Recorded(qs) = Total(q)
      /\ \A i \in 1..Len(qs) : q[i] = Qty(qs[i])
      BY <1>4, <1>5, Tallies
<1>9. PICK z : z = s \o n
      OBVIOUS
<1>10. /\ z \in Seq(Nat) /\ Len(z) = Len(s) + Len(n)
       /\ \A i \in 1..Len(s) + Len(n) : z[i] = IF i =< Len(s) THEN s[i] ELSE n[i - Len(s)]
       BY <1>6, <1>7, <1>9, ConcatProperties
<1>11. q = z
  <2>1. Len(q) = Len(z)
        BY <1>4, <1>6, <1>7, <1>8, <1>10
  <2>2. ASSUME NEW i \in 1..Len(q) PROVE q[i] = z[i]
    <3>1. i \in 1..Len(rs) + Len(new) /\ i \in 1..Len(qs) /\ i \in 1..Len(s) + Len(n)
          BY <1>4, <1>6, <1>7, <1>8
    <3>2. CASE i =< Len(rs)
      <4>1. i \in 1..Len(rs)
            BY <1>4, <3>1, <3>2
      <4>2. q[i] = Qty(rs[i]) /\ z[i] = s[i]
            BY <1>4, <1>6, <1>8, <1>10, <3>1, <3>2
      <4>3. QED BY <1>6, <4>1, <4>2
    <3>3. CASE ~(i =< Len(rs))
      <4>1. i - Len(rs) \in 1..Len(new)
            BY <1>4, <3>1, <3>3
      <4>2. q[i] = Qty(new[i - Len(rs)]) /\ z[i] = n[i - Len(rs)]
            BY <1>4, <1>6, <1>8, <1>10, <3>1, <3>3
      <4>3. QED BY <1>7, <4>1, <4>2
    <3>4. QED BY <3>2, <3>3
  <2>3. QED BY <1>8, <1>10, <2>1, <2>2, SeqEqual
<1>12. Total(z) = Total(s) + Total(n)
       BY <1>6, <1>7, <1>9, TotalJoined
<1>13. QED BY <1>3, <1>6, <1>7, <1>8, <1>11, <1>12

LEMMA RecordedIsTotal == Total(SoldRows) = Recorded(rows)
BY DEF SoldRows, SoldQty, Qty, Recorded

-----------------------------------------------------------------------------
(* How books are kept *)

(* A row does not say more than before; and a SELL is due only if it was.   *)
RowKept(i) ==
  /\ rows'[i].side = rows[i].side
  /\ rows[i].side = "SELL" => /\ rows'[i].status = "PENDING" => rows[i].status = "PENDING"
                              /\ pos'.since =< i
NoMore(i) == Qty(rows'[i]) =< Qty(rows[i])
DueKept(i) ==
  Due(i)' => /\ Due(i) /\ AdoptedLast(i)'
             /\ Recorded(rows) + broker'[i].filled =< Total(sales') + Qty(rows[i])

LEMMA BooksRowsKept ==
  ASSUME Orderly, Orderly', Books, sales \in Seq(Nat), sales' \in Seq(Nat),
         Len(rows') = Len(rows), Total(sales) =< Total(sales'),
         \A i \in 1..Len(rows) : RowKept(i) /\ NoMore(i) /\ DueKept(i)
  PROVE  Books'
<1>1. /\ Len(rows) \in Nat /\ DOMAIN rows = 1..Len(rows) /\ DOMAIN rows' = 1..Len(rows)
      /\ rows \in Seq(RowT) /\ rows' \in Seq(RowT)
      BY LenProperties DEF Orderly
<1>2. Sells' = Sells /\ Sells \subseteq 1..Len(rows)
      BY <1>1 DEF Sells, RowKept
<1>3. Recorded(rows') =< Recorded(rows) /\ Recorded(rows) =< Total(sales)
  <2>1. \A i \in 1..Len(rows) : Qty(rows'[i]) =< Qty(rows[i])
        BY DEF NoMore
  <2>2. Recorded(rows') =< Recorded(rows)
        BY <1>1, <2>1, RecordedLess
  <2>3. QED BY <2>2 DEF Books
<1>4. Recorded(rows') =< Total(sales')
  <2>1. Recorded(rows') \in Nat /\ Recorded(rows) \in Nat /\ Total(sales) \in Nat /\ Total(sales') \in Nat
        BY <1>1, RecordedNat, TotalNat
  <2>2. QED BY <1>3, <2>1
<1>5. ASSUME NEW i \in Sells', Due(i)' PROVE Covered(i)' /\ AdoptedLast(i)'
  <2>1. i \in 1..Len(rows)
        BY <1>2
  <2>2. Due(i) /\ AdoptedLast(i)' /\ Recorded(rows) + broker'[i].filled =< Total(sales') + Qty(rows[i])
        BY <1>5, <2>1 DEF DueKept
  <2>3. Recorded(rows') + Qty(rows[i]) =< Recorded(rows) + Qty(rows'[i])
    <3>1. \A j \in 1..Len(rows) : j # i => Qty(rows'[j]) =< Qty(rows[j])
          BY DEF NoMore
    <3>2. QED BY <1>1, <2>1, <3>1, RecordedWithout
  <2>4. broker'[i] \in OrderT
        BY <1>1, <2>1, ElementOfSeq DEF Orderly
  <2>5. PICK a \in Nat, b \in Nat, c \in Nat, d \in Nat, e \in Nat, f \in Nat :
          /\ a = Recorded(rows') /\ b = Recorded(rows) /\ c = Qty(rows[i]) /\ d = Qty(rows'[i])
          /\ e = broker'[i].filled /\ f = Total(sales')
    <3>1. Recorded(rows') \in Nat /\ Recorded(rows) \in Nat /\ Total(sales') \in Nat
          BY <1>1, RecordedNat, TotalNat
    <3>2. Qty(rows[i]) \in Nat /\ Qty(rows'[i]) \in Nat
          BY <1>1, <2>1, RecordedNat
    <3>3. broker'[i].filled \in Nat
          BY <2>4 DEF OrderT
    <3>4. QED BY <3>1, <3>2, <3>3
  <2>6. a + c =< b + d
        BY <2>3, <2>5
  <2>7. b + e =< f + c
        BY <2>2, <2>5
  <2>8. a + e =< f + d
        BY <2>6, <2>7
  <2>9. Covered(i)'
        BY <2>5, <2>8 DEF Covered
  <2>10. QED BY <2>2, <2>9
<1>6. ASSUME NEW i \in Sells', NEW j \in Sells', Due(i)', Due(j)' PROVE i = j
  <2>1. i \in Sells /\ j \in Sells /\ Due(i) /\ Due(j)
        BY <1>2, <1>6 DEF DueKept
  <2>2. QED BY <2>1 DEF Books
<1>7. ASSUME NEW i \in Sells', NEW j \in Sells', rows'[i].status = "PENDING" PROVE j =< i
  <2>1. i \in Sells /\ j \in Sells /\ rows[i].side = "SELL" /\ i \in 1..Len(rows)
        BY <1>2 DEF Sells
  <2>2. rows[i].status = "PENDING"
        BY <1>7, <2>1 DEF RowKept
  <2>3. QED BY <2>1, <2>2 DEF Books
<1>8. \A i \in Sells' : pos'.since =< i
      BY <1>2 DEF Sells, RowKept
<1>9. QED BY <1>4, <1>5, <1>6, <1>7, <1>8 DEF Books

(* One row is made to say more, and no other is due.                        *)
LEMMA BooksRecords ==
  ASSUME Orderly, Orderly', sales' \in Seq(Nat), Len(rows') = Len(rows), Books,
         NEW k \in 1..Len(rows),
         \A i \in 1..Len(rows) : RowKept(i) /\ (i # k => NoMore(i) /\ ~Due(i)'),
         Recorded(rows) + Qty(rows'[k]) =< Total(sales') + Qty(rows[k]),
         DueKept(k)
  PROVE  Books'
<1>1. /\ Len(rows) \in Nat /\ DOMAIN rows = 1..Len(rows) /\ DOMAIN rows' = 1..Len(rows)
      /\ rows \in Seq(RowT) /\ rows' \in Seq(RowT)
      BY LenProperties DEF Orderly
<1>2. Sells' = Sells /\ Sells \subseteq 1..Len(rows)
      BY <1>1 DEF Sells, RowKept
<1>3. Recorded(rows') + Qty(rows[k]) =< Recorded(rows) + Qty(rows'[k])
  <2>1. \A j \in 1..Len(rows) : j # k => Qty(rows'[j]) =< Qty(rows[j])
        BY DEF NoMore
  <2>2. QED BY <1>1, <2>1, RecordedWithout
<1>4. PICK a \in Nat, b \in Nat, c \in Nat, d \in Nat, e \in Nat, f \in Nat :
        /\ a = Recorded(rows') /\ b = Recorded(rows) /\ c = Qty(rows[k]) /\ d = Qty(rows'[k])
        /\ e = broker'[k].filled /\ f = Total(sales')
  <2>1. Recorded(rows') \in Nat /\ Recorded(rows) \in Nat /\ Total(sales') \in Nat
        BY <1>1, RecordedNat, TotalNat
  <2>2. Qty(rows[k]) \in Nat /\ Qty(rows'[k]) \in Nat
        BY <1>1, RecordedNat
  <2>3. broker'[k] \in OrderT
        BY <1>1, ElementOfSeq DEF Orderly
  <2>4. broker'[k].filled \in Nat
        BY <2>3 DEF OrderT
  <2>5. QED BY <2>1, <2>2, <2>4
<1>5. a + c =< b + d
      BY <1>3, <1>4
<1>6. Recorded(rows') =< Total(sales')
  <2>1. b + d =< f + c
        BY <1>4
  <2>2. a =< f
        BY <1>5, <2>1
  <2>3. QED BY <1>4, <2>2
<1>7. ASSUME NEW i \in Sells', Due(i)' PROVE Covered(i)' /\ AdoptedLast(i)' /\ i = k
  <2>1. i = k
        BY <1>2, <1>7
  <2>2. AdoptedLast(k)' /\ Recorded(rows) + broker'[k].filled =< Total(sales') + Qty(rows[k])
        BY <1>7, <2>1 DEF DueKept
  <2>3. b + e =< f + c
        BY <1>4, <2>2
  <2>4. a + e =< f + d
        BY <1>5, <2>3
  <2>5. Covered(k)'
        BY <1>4, <2>4 DEF Covered
  <2>6. QED BY <2>1, <2>2, <2>5
<1>8. ASSUME NEW i \in Sells', NEW j \in Sells', rows'[i].status = "PENDING" PROVE j =< i
  <2>1. i \in Sells /\ j \in Sells /\ rows[i].side = "SELL" /\ i \in 1..Len(rows)
        BY <1>2 DEF Sells
  <2>2. rows[i].status = "PENDING"
        BY <1>8, <2>1 DEF RowKept
  <2>3. QED BY <2>1, <2>2 DEF Books
<1>9. \A i \in Sells' : pos'.since =< i
      BY <1>2 DEF Sells, RowKept
<1>10. QED BY <1>6, <1>7, <1>8, <1>9 DEF Books

(* A BUY is added. *)
LEMMA BooksBuyAdded ==
  ASSUME Orderly, Orderly', Books, NEW r \in RowT, r.side = "BUY", rows' = Append(rows, r), sales' = sales,
         \A i \in 1..Len(rows) : pos'.since = pos.since /\ broker'[i] = broker[i] /\ DueKept(i)
  PROVE  Books'
<1>1. /\ Len(rows) \in Nat /\ DOMAIN rows = 1..Len(rows) /\ rows \in Seq(RowT)
      BY LenProperties DEF Orderly
<1>2. /\ DOMAIN rows' = 1..Len(rows) + 1 /\ rows'[Len(rows) + 1] = r
      /\ \A i \in 1..Len(rows) : rows'[i] = rows[i]
      BY <1>1, AppendProperties, LenProperties
<1>3. Sells' = Sells /\ Sells \subseteq 1..Len(rows)
      BY <1>1, <1>2 DEF Sells
<1>4. Recorded(rows') = Recorded(rows)
  <2>1. Recorded(rows') = Recorded(rows) + Qty(r) /\ Recorded(rows) \in Nat
        BY <1>1, RecordedMore, RecordedNat
  <2>2. Qty(r) = 0
        BY DEF Qty
  <2>3. QED BY <2>1, <2>2
<1>5. Recorded(rows') =< Total(sales')
      BY <1>4 DEF Books
<1>6. ASSUME NEW i \in Sells', Due(i)' PROVE Covered(i)' /\ AdoptedLast(i)' /\ Due(i)
  <2>1. i \in Sells /\ i \in 1..Len(rows) /\ Due(i) /\ AdoptedLast(i)'
        BY <1>3, <1>6 DEF DueKept
  <2>2. Covered(i)
        BY <2>1 DEF Books
  <2>3. Covered(i)'
        BY <1>2, <1>4, <2>1, <2>2 DEF Covered
  <2>4. QED BY <2>1, <2>3
<1>7. \A i, j \in Sells' : Due(i)' /\ Due(j)' => i = j
      BY <1>3, <1>6 DEF Books
<1>8. \A i, j \in Sells' : rows'[i].status = "PENDING" => j =< i
      BY <1>2, <1>3 DEF Books
<1>9. \A i \in Sells' : pos'.since =< i
      BY <1>3 DEF Books
<1>10. QED BY <1>5, <1>6, <1>7, <1>8, <1>9 DEF Books

(* A SELL is added, when none of those before it is due. *)
LEMMA BooksSellAdded ==
  ASSUME Orderly, Orderly', Books, sales' \in Seq(Nat),
         NEW rs \in Seq(RowT), NEW r \in RowT, rows' = Append(rs, r), Len(rs) = Len(rows),
         \A i \in 1..Len(rows) : /\ rs[i].side = rows[i].side
                                 /\ Qty(rs[i]) =< Qty(rows[i])
                                 /\ rows[i].side = "SELL" => pos'.since =< i /\ rs[i].status # "PENDING" /\ ~Due(i)',
         pos'.since =< Len(rows) + 1,
         Recorded(rows) + Qty(r) =< Total(sales'),
         NEW new, new = Len(rows) + 1,
         Due(new)' => AdoptedLast(new)' /\ Recorded(rows) + broker'[new].filled =< Total(sales')
  PROVE  Books'
<1>1. new = Len(rows) + 1
      OBVIOUS
<1>2. /\ Len(rows) \in Nat /\ DOMAIN rows = 1..Len(rows) /\ rows \in Seq(RowT)
      BY LenProperties DEF Orderly
<1>3. /\ rows' \in Seq(RowT) /\ Len(rows') = new /\ DOMAIN rows' = 1..new /\ rows'[new] = r /\ new \in 1..new
      /\ \A i \in 1..Len(rows) : rows'[i] = rs[i]
      BY <1>1, <1>2, AppendProperties, LenProperties
<1>4. Sells' \subseteq 1..new /\ \A i \in Sells' : i # new => i \in 1..Len(rows) /\ rows[i].side = "SELL"
      BY <1>1, <1>2, <1>3 DEF Sells
<1>5. Recorded(rows') =< Recorded(rows) + Qty(r)
  <2>1. Recorded(rows') = Recorded(rs) + Qty(r)
        BY RecordedMore
  <2>2. Recorded(rs) =< Recorded(rows)
        BY <1>2, RecordedLess
  <2>3. Recorded(rs) \in Nat /\ Recorded(rows) \in Nat
        BY <1>2, RecordedNat
  <2>4. Qty(r) \in Nat
        BY DEF Qty, RowT
  <2>5. QED BY <2>1, <2>2, <2>3, <2>4
<1>6. PICK a \in Nat, b \in Nat, d \in Nat, e \in Nat, f \in Nat :
        a = Recorded(rows') /\ b = Recorded(rows) /\ d = Qty(r) /\ e = broker'[new].filled /\ f = Total(sales')
  <2>1. Recorded(rows') \in Nat /\ Recorded(rows) \in Nat /\ Total(sales') \in Nat
        BY <1>2, <1>3, RecordedNat, TotalNat
  <2>2. Qty(r) \in Nat
        BY DEF Qty, RowT
  <2>3. broker'[new] \in OrderT
        BY <1>3, ElementOfSeq DEF Orderly
  <2>4. broker'[new].filled \in Nat
        BY <2>3 DEF OrderT
  <2>5. QED BY <2>1, <2>2, <2>4
<1>7. a =< b + d
      BY <1>5, <1>6
<1>8. Recorded(rows') =< Total(sales')
  <2>1. b + d =< f
        BY <1>6
  <2>2. a =< f
        BY <1>7, <2>1
  <2>3. QED BY <1>6, <2>2
<1>9. ASSUME NEW i \in Sells', Due(i)' PROVE Covered(i)' /\ AdoptedLast(i)' /\ i = new
  <2>1. i = new
        BY <1>4, <1>9
  <2>2. AdoptedLast(new)' /\ Recorded(rows) + broker'[new].filled =< Total(sales')
        BY <1>1, <1>9, <2>1
  <2>3. b + e =< f
        BY <1>6, <2>2
  <2>4. a + e =< f + d
        BY <1>7, <2>3
  <2>5. Recorded(rows') + broker'[new].filled =< Total(sales') + Qty(rows'[new])
        BY <1>3, <1>6, <2>4
  <2>6. QED BY <2>1, <2>2, <2>5 DEF Covered
<1>10. ASSUME NEW i \in Sells', NEW j \in Sells', rows'[i].status = "PENDING" PROVE j =< i
  <2>1. i = new
        BY <1>3, <1>4, <1>10
  <2>2. j \in 1..new
        BY <1>4
  <2>3. QED BY <1>1, <1>2, <2>1, <2>2
<1>11. ASSUME NEW i \in Sells' PROVE pos'.since =< i
       BY <1>1, <1>4
<1>12. QED BY <1>8, <1>9, <1>10, <1>11 DEF Books

-----------------------------------------------------------------------------
(* Steps that add no SELL *)

LEMMA Touched ==
  ASSUME NEW T, NEW s \in Seq(T), NEW i \in 1..Len(s), NEW v \in T, NEW t, t = [s EXCEPT ![i] = v]
  PROVE  /\ t \in Seq(T) /\ Len(t) = Len(s)
         /\ \A j \in 1..Len(s) : t[j] = IF j = i THEN v ELSE s[j]
<1>1. Len(s) \in Nat /\ DOMAIN s = 1..Len(s) /\ s \in [1..Len(s) -> T]
      BY LenProperties
<1>2. t \in [1..Len(s) -> T]
      BY <1>1
<1>3. t \in Seq(T) /\ Len(t) = Len(s)
      BY <1>1, <1>2, SeqDef, LenProperties
<1>4. QED BY <1>1, <1>3

LEMMA Lengthened ==
  ASSUME NEW T, NEW s \in Seq(T), NEW v \in T, NEW t, t = Append(s, v)
  PROVE  /\ t \in Seq(T) /\ Len(t) = Len(s) + 1 /\ t[Len(s) + 1] = v
         /\ \A j \in 1..Len(s) : t[j] = s[j]
BY AppendProperties

(* No sale is forgotten, and of a position that had an exit the row is not  *)
(* opened.                                                                  *)
Around ==
  /\ sales' \in Seq(Nat) /\ Total(sales) =< Total(sales')
  /\ Sells # {} => pos'.since = pos.since /\ (pos'.row = "open" => pos.row = "open")
  /\ pass'.at = "looking" => pass.at = "looking" \/ pos.row = "open"

(* A SELL is as it was, or ends with nothing left to book.                  *)
Weaker(i) ==
  /\ rows'[i].side = rows[i].side
  /\ rows[i].side = "SELL" =>
       /\ \/ rows'[i] = rows[i]
          \/ rows'[i].status \in {"CANCELLED", "REJECTED", "ERROR"} /\ ~Bookable(i)'
       /\ broker'[i].filled = broker[i].filled
       /\ broker[i].at = "filled" => broker'[i].at = "filled"
       /\ Bookable(i)' => Bookable(i)

LEMMA RowWeaker ==
  ASSUME Orderly, Orderly', Books, Around, sales \in Seq(Nat), NEW i \in 1..Len(rows), Weaker(i)
  PROVE  RowKept(i) /\ NoMore(i) /\ DueKept(i)
<1>1. DOMAIN rows = 1..Len(rows) /\ rows \in Seq(RowT) /\ broker \in Seq(OrderT) /\ rows[i] \in RowT /\ broker[i] \in OrderT
      BY Reads DEF Orderly
<1>2. RowKept(i)
  <2>1. rows[i].side = "SELL" => i \in Sells /\ pos.since =< i
        BY <1>1 DEF Sells, Books
  <2>2. rows[i].side = "SELL" => pos'.since =< i
        BY <2>1 DEF Around
  <2>3. rows[i].side = "SELL" /\ rows'[i].status = "PENDING" => rows[i].status = "PENDING"
        BY DEF Weaker
  <2>4. QED BY <2>2, <2>3 DEF RowKept, Weaker
<1>3. NoMore(i)
  <2>1. Qty(rows[i]) \in Nat
        BY <1>1 DEF Qty, RowT
  <2>2. rows'[i] = rows[i] \/ Qty(rows'[i]) = 0
        BY DEF Weaker, Qty
  <2>3. QED BY <2>1, <2>2 DEF NoMore
<1>4. ASSUME Due(i)' PROVE /\ Due(i) /\ AdoptedLast(i)'
                           /\ Recorded(rows) + broker'[i].filled =< Total(sales') + Qty(rows[i])
  <2>1. Bookable(i)' /\ rows'[i].side = "SELL" /\ ~Settled(i)'
        BY <1>4 DEF Due, Bookable, Sells
  <2>2. rows[i].side = "SELL" /\ rows'[i] = rows[i] /\ Bookable(i) /\ broker'[i].filled = broker[i].filled
        BY <2>1 DEF Weaker
  <2>3. Due(i) /\ i \in Sells
    <3>1. ~Settled(i)
          BY <2>1, <2>2 DEF Settled, Weaker
    <3>2. QED BY <2>2, <3>1 DEF Due, Bookable
  <2>4. Covered(i) /\ AdoptedLast(i)
        BY <2>3 DEF Books
  <2>5. AdoptedLast(i)'
        BY <2>2, <2>3, <2>4 DEF AdoptedLast, Around
  <2>6. Recorded(rows) + broker[i].filled =< Total(sales) + Qty(rows[i]) /\ Total(sales) =< Total(sales')
        BY <2>4 DEF Covered, Around
  <2>7. /\ Recorded(rows) \in Nat /\ Qty(rows[i]) \in Nat /\ broker[i].filled \in Nat
        /\ Total(sales) \in Nat /\ Total(sales') \in Nat
    <3>1. Recorded(rows) \in Nat /\ Qty(rows[i]) \in Nat
          BY <1>1, RecordedNat
    <3>2. Total(sales) \in Nat /\ Total(sales') \in Nat
          BY TotalNat DEF Around
    <3>3. QED BY <1>1, <3>1, <3>2 DEF OrderT
  <2>8. Recorded(rows) + broker[i].filled =< Total(sales') + Qty(rows[i])
        BY <2>6, <2>7
  <2>9. QED BY <2>2, <2>3, <2>5, <2>8
<1>5. QED BY <1>2, <1>3, <1>4 DEF DueKept

LEMMA BooksWeaker ==
  ASSUME Orderly, Orderly', Books, Around, sales \in Seq(Nat), Len(rows') = Len(rows),
         \A i \in 1..Len(rows) : Weaker(i)
  PROVE  Books'
<1>1. \A i \in 1..Len(rows) : RowKept(i) /\ NoMore(i) /\ DueKept(i)
      BY RowWeaker
<1>2. sales' \in Seq(Nat) /\ Total(sales) =< Total(sales')
      BY DEF Around
<1>3. QED BY <1>1, <1>2, BooksRowsKept

(* What happens to neither orders nor rows.                                 *)
LEMMA Aside ==
  ASSUME RecoveryInv, UNCHANGED <<orders, cycle, stray, skewed>>, Around
  PROVE  Calm' => Books'
<1>1. SUFFICES ASSUME Calm' PROVE Books'
      OBVIOUS
<1>2. /\ Orderly /\ sales \in Seq(Nat) /\ Books
      /\ rows' = rows /\ broker' = broker /\ task' = task /\ placing' = placing
      BY <1>1 DEF RecoveryInv, Shapes, Calm, orders
<1>3. Orderly'
      BY <1>2 DEF Orderly
<1>4. ASSUME NEW i \in 1..Len(rows) PROVE Weaker(i)
  <2>1. Sells' = Sells
        BY <1>2 DEF Sells
  <2>2. Bookable(i)' <=> Bookable(i)
        BY <1>2, <2>1 DEF Bookable
  <2>3. QED BY <1>2, <2>2 DEF Weaker
<1>5. QED BY <1>2, <1>3, <1>4, BooksWeaker

LEMMA FramedAside ==
  ASSUME RecoveryInv, UNCHANGED <<orders, cycle, boot>>, pos'.row = pos.row,
         pass'.at = "looking" => pass.at = "looking" \/ pos.row = "open",
         pass'.at # "idle" => \A i \in pass'.ended : i \in DOMAIN rows /\ broker[i].at = "dead"
  PROVE  Frame'
<1>1. /\ rows' = rows /\ broker' = broker /\ task' = task /\ placing' = placing
      /\ cycle' = cycle /\ boot' = boot /\ Frame
      BY DEF RecoveryInv, orders
<1>2. Sells' = Sells
      BY <1>1 DEF Sells
<1>3. QED BY <1>1, <1>2 DEF Frame

LEMMA ShowsKeeps ==
  ASSUME RecoveryInv, Shows
  PROVE  RecoveryInv'
<1>1. /\ UNCHANGED <<orders, cycle, stray, skewed, boot>> /\ pos' = pos /\ pass' = pass /\ sales' = sales /\ held' = held /\ set' = set
      /\ shown' = Portfolio
      BY DEF Shows, memory, history
<1>2. Len(sales) \in Nat /\ sales \in Seq(Nat)
      BY LenProperties DEF RecoveryInv, Shapes
<1>3. Shapes'
      BY <1>1, <1>2 DEF RecoveryInv, Shapes, Orderly, orders, Portfolio
<1>4. Around
  <2>1. Total(sales) \in Nat
        BY <1>2, TotalNat
  <2>2. QED BY <1>1, <1>2, <2>1 DEF Around
<1>5. Frame'
  <2>1. pass'.at # "idle" => \A i \in pass'.ended : i \in DOMAIN rows /\ broker[i].at = "dead"
        BY <1>1 DEF RecoveryInv, Frame
  <2>2. QED BY <1>1, <2>1, FramedAside
<1>6. Calm' => Books'
      BY <1>1, <1>4, Aside
<1>7. QED BY <1>3, <1>5, <1>6 DEF RecoveryInv

LEMMA SoldElsewhereKeeps ==
  ASSUME RecoveryInv, SoldElsewhere
  PROVE  RecoveryInv'
<1>1. /\ UNCHANGED <<orders, cycle, stray, skewed, boot>> /\ pos' = pos /\ pass' = pass
      /\ set' = set /\ shown' = shown
      BY DEF SoldElsewhere, memory
<1>2. sales \in Seq(Nat) /\ held \in Nat
      BY DEF RecoveryInv, Shapes
<1>3. PICK n \in 1..held : held' = held - n /\ sales' = Append(sales, n)
      BY DEF SoldElsewhere
<1>10. sales' \in Seq(Nat) /\ Total(sales') = Total(sales) + n /\ Total(sales) \in Nat /\ n \in Nat
      BY <1>2, <1>3, TotalAppend, TotalNat
<1>4. Shapes'
  <2>1. held' \in Nat
        BY <1>2, <1>3
  <2>2. QED BY <1>1, <1>10, <2>1 DEF RecoveryInv, Shapes, Orderly, orders
<1>5. Around
      BY <1>1, <1>10 DEF Around
<1>6. Frame'
  <2>1. pass'.at # "idle" => \A i \in pass'.ended : i \in DOMAIN rows /\ broker[i].at = "dead"
        BY <1>1 DEF RecoveryInv, Frame
  <2>2. QED BY <1>1, <2>1, FramedAside
<1>7. Calm' => Books'
      BY <1>1, <1>5, Aside
<1>8. QED BY <1>4, <1>6, <1>7 DEF RecoveryInv

LEMMA AgesKeeps ==
  ASSUME RecoveryInv, Ages
  PROVE  RecoveryInv'
<1>1. /\ UNCHANGED <<orders, cycle, stray, skewed, boot>> /\ pos' = [pos EXCEPT !.recent = FALSE] /\ pass' = pass
      /\ sales' = sales /\ held' = held /\ set' = set /\ shown' = shown
      BY DEF Ages, memory, history, account
<1>2. sales \in Seq(Nat) /\ pos \in PosT
      BY DEF RecoveryInv, Shapes
<1>3. pos' \in PosT /\ pos'.row = pos.row /\ pos'.since = pos.since
      BY <1>1, <1>2 DEF PosT
<1>4. Shapes'
      BY <1>1, <1>3 DEF RecoveryInv, Shapes, Orderly, orders
<1>5. Around
  <2>1. Total(sales) \in Nat
        BY <1>2, TotalNat
  <2>2. QED BY <1>1, <1>2, <1>3, <2>1 DEF Around
<1>6. Frame'
  <2>1. pass'.at # "idle" => \A i \in pass'.ended : i \in DOMAIN rows /\ broker[i].at = "dead"
        BY <1>1 DEF RecoveryInv, Frame
  <2>2. QED BY <1>1, <1>3, <2>1, FramedAside
<1>7. Calm' => Books'
      BY <1>1, <1>5, Aside
<1>8. QED BY <1>4, <1>6, <1>7 DEF RecoveryInv

(* The steps of a pass that only read. *)
LEMMA ReadsKeep ==
  ASSUME RecoveryInv, Fetches \/ Shadows \/ Looks
  PROVE  RecoveryInv'
<1>1. /\ UNCHANGED <<orders, cycle, stray, skewed, boot>> /\ pos' = pos
      /\ sales' = sales /\ held' = held /\ set' = set /\ shown' = shown
      BY DEF Fetches, Shadows, Looks, history, account
<1>2. sales \in Seq(Nat) /\ pass \in PassT /\ shown \in [qty : Nat, sales : Nat] /\ Orderly
      BY DEF RecoveryInv, Shapes
<1>3. DOMAIN rows \subseteq Nat
      BY <1>2, Reads
<1>4. /\ pass' \in PassT
      /\ pass'.at = "looking" => pass.at = "looking" \/ pos.row = "open"
      /\ pass'.at # "idle" => \A i \in pass'.ended : i \in DOMAIN rows /\ broker[i].at = "dead"
  <2>1. CASE Fetches
    <3>1. CASE pass' = Fetched([qty |-> 0, sales |-> 0], {})
          BY <3>1 DEF Fetched, PassT
    <3>2. CASE \E ended \in {{}, {i \in DOMAIN rows : broker[i].at = "dead"}} : pass' = Fetched(shown, ended)
      <4>1. PICK ended \in {{}, {i \in DOMAIN rows : broker[i].at = "dead"}} : pass' = Fetched(shown, ended)
            BY <3>2
      <4>2. ended \subseteq DOMAIN rows /\ \A i \in ended : broker[i].at = "dead"
            OBVIOUS
      <4>3. ended \in SUBSET Nat
            BY <1>3, <4>2
      <4>4. QED BY <1>2, <4>1, <4>2, <4>3 DEF Fetched, PassT
    <3>3. QED BY <2>1, <3>1, <3>2 DEF Fetches
  <2>2. CASE Shadows
        BY <1>2, <2>2 DEF Shadows, RecoveryInv, Frame
  <2>3. CASE Looks
    <3>1. pass.at = "fetched" /\ pos.row = "open" /\ pass' = [pass EXCEPT !.at = "looking", !.left = pos.left]
          BY <2>3 DEF Looks, Gone, Missing, Open
    <3>2. pass \in [at : {"fetched", "looking"}, qty : Nat, sales : Nat, ended : SUBSET Nat, left : Nat]
          BY <1>2, <3>1 DEF PassT
    <3>3. PICK left \in Nat : left = pos.left
          BY DEF RecoveryInv, Shapes, PosT
    <3>4. pass' = [[pass EXCEPT !.at = "looking"] EXCEPT !.left = left]
          BY <3>1, <3>2, <3>3
    <3>5. pass' \in PassT /\ pass'.ended = pass.ended
          BY <3>2, <3>4 DEF PassT
    <3>6. QED BY <3>1, <3>5 DEF RecoveryInv, Frame
  <2>4. QED BY <2>1, <2>2, <2>3
<1>5. Shapes'
      BY <1>1, <1>4 DEF RecoveryInv, Shapes, Orderly, orders
<1>6. Around
  <2>1. Total(sales) \in Nat
        BY <1>2, TotalNat
  <2>2. QED BY <1>1, <1>2, <1>4, <2>1 DEF Around
<1>7. Frame'
      BY <1>1, <1>4, FramedAside
<1>8. Calm' => Books'
      BY <1>1, <1>6, Aside
<1>9. QED BY <1>5, <1>7, <1>8 DEF RecoveryInv

(* Steps of the orders alone, by which no SELL gets more to book. *)
Firmly(i) ==
  /\ broker[i].at = "dead" => broker'[i].at = "dead"
  /\ rows'[i].side = rows[i].side
  /\ rows'[i] = rows[i] \/ rows'[i].status # "PARTIALLY_FILLED"
  /\ ~stray' => Weaker(i)

LEMMA FramedOrders ==
  ASSUME RecoveryInv, Orderly', Len(rows') = Len(rows),
         pos' = pos, cycle' = cycle, pass' \in {pass, Idle},
         placing' # 0 => broker'[placing'].at = "none",
         boot' = "reconciling" => placing' = 0 /\ \A i \in 1..Len(rows) : task'[i] = {},
         \A i \in 1..Len(rows) : Firmly(i)
  PROVE  Frame' /\ Sells' = Sells
<1>1. /\ DOMAIN rows = 1..Len(rows) /\ DOMAIN rows' = 1..Len(rows) /\ DOMAIN task' = 1..Len(rows) /\ Frame
  <2>1. Orderly /\ Frame
        BY DEF RecoveryInv, Shapes
  <2>2. DOMAIN rows = 1..Len(rows)
        BY <2>1, Reads
  <2>3. DOMAIN rows' = 1..Len(rows) /\ DOMAIN task' = 1..Len(rows)
        BY LenProperties DEF Orderly
  <2>4. QED BY <2>1, <2>2, <2>3
<1>2. Sells' = Sells /\ Sells \subseteq 1..Len(rows)
      BY <1>1 DEF Sells, Firmly
<1>3. pass'.at # "idle" => \A i \in pass'.ended : i \in DOMAIN rows' /\ broker'[i].at = "dead"
      BY <1>1 DEF Frame, Firmly, Idle
<1>4. pos'.row = "none" => Sells' = {} /\ pass'.at # "looking"
      BY <1>1, <1>2 DEF Frame, Idle
<1>5. \A i \in Sells' : rows'[i].status # "PARTIALLY_FILLED"
      BY <1>1, <1>2 DEF Frame, Firmly
<1>6. pos'.row # "none" => cycle' >= 1
      BY <1>1 DEF Frame
<1>7. QED BY <1>1, <1>2, <1>3, <1>4, <1>5, <1>6 DEF Frame

LEMMA Steadily ==
  ASSUME RecoveryInv, Orderly', Len(rows') = Len(rows),
         UNCHANGED <<set, pos, shown, sales, cycle, skewed>>, held' \in Nat, pass' \in {pass, Idle},
         stray' \in BOOLEAN, stray => stray',
         placing' # 0 => broker'[placing'].at = "none",
         boot' = "reconciling" => placing' = 0 /\ \A i \in 1..Len(rows) : task'[i] = {},
         \A i \in 1..Len(rows) : Firmly(i)
  PROVE  RecoveryInv'
<1>1. Frame'
      BY FramedOrders
<1>2. Shapes'
  <2>1. pass' \in PassT
        BY DEF RecoveryInv, Shapes, Idle, PassT
  <2>2. QED BY <2>1 DEF RecoveryInv, Shapes
<1>3. ASSUME Calm' PROVE Books'
  <2>1. Orderly /\ sales \in Seq(Nat) /\ Books
        BY <1>3 DEF RecoveryInv, Shapes, Calm
  <2>2. Around
    <3>1. Total(sales) \in Nat
          BY <2>1, TotalNat
    <3>2. QED BY <2>1, <3>1 DEF Around, Idle
  <2>3. \A i \in 1..Len(rows) : Weaker(i)
        BY <1>3 DEF Firmly, Calm
  <2>4. QED BY <2>1, <2>2, <2>3, BooksWeaker
<1>4. QED BY <1>1, <1>2, <1>3 DEF RecoveryInv

LEMMA PostsKeeps ==
  ASSUME RecoveryInv, Posts
  PROVE  RecoveryInv'
<1> DEFINE p == placing
<1>1. Orderly /\ Frame /\ stray \in BOOLEAN /\ held \in Nat
      BY DEF RecoveryInv, Shapes
<1>2. /\ Len(rows) \in Nat /\ DOMAIN rows = 1..Len(rows) /\ DOMAIN broker = 1..Len(rows) /\ DOMAIN task = 1..Len(rows)
      /\ \A i \in 1..Len(rows) : rows[i] \in RowT /\ broker[i] \in OrderT /\ task[i] \in TaskT
      BY <1>1, Reads
<1>3. p \in 1..Len(rows) /\ p # 0 /\ broker[p].at = "none" /\ boot # "reconciling"
      BY <1>1, <1>2 DEF Posts, Orderly, Frame
<1>4. PICK o \in OrderT : o = [broker[p] EXCEPT !.at = "working"]
      BY <1>2, <1>3 DEF OrderT
<1>5. o.at = "working" /\ o.filled = broker[p].filled
      BY <1>2, <1>3, <1>4 DEF OrderT
<1>6. broker' = [broker EXCEPT ![p] = o]
      BY <1>4 DEF Posts
<1>7. PICK t \in TaskT : t = task[p] \cup {"full"}
      BY <1>2, <1>3 DEF TaskT
<1>8. task' = [task EXCEPT ![p] = t]
      BY <1>7 DEF Posts
<1>9. /\ broker' \in Seq(OrderT) /\ Len(broker') = Len(rows)
      /\ \A i \in 1..Len(rows) : broker'[i] = IF i = p THEN o ELSE broker[i]
  <2>1. broker \in Seq(OrderT) /\ Len(broker) = Len(rows)
        BY <1>1 DEF Orderly
  <2>2. QED BY <1>3, <1>6, <2>1, Touched
<1>10. /\ task' \in Seq(TaskT) /\ Len(task') = Len(rows)
       /\ \A i \in 1..Len(rows) : task'[i] = IF i = p THEN t ELSE task[i]
  <2>1. task \in Seq(TaskT) /\ Len(task) = Len(rows)
        BY <1>1 DEF Orderly
  <2>2. QED BY <1>3, <1>8, <2>1, Touched
<1>11. /\ placing' = 0 /\ rows' = rows /\ UNCHANGED <<set, pos, shown, sales, cycle, held, pass, stray, skewed, boot>>
      BY DEF Posts, account, memory, history
<1>12. Orderly'
      BY <1>1, <1>2, <1>9, <1>10, <1>11 DEF Orderly
<1>13. ASSUME NEW i \in 1..Len(rows) PROVE Firmly(i)
  <2>1. Sells' = Sells
        BY <1>11 DEF Sells
  <2>2. broker[i].at = "dead" => i # p /\ broker'[i].at = "dead"
        BY <1>3, <1>9
  <2>3. Weaker(i)
    <3>1. rows'[i] = rows[i] /\ broker'[i].filled = broker[i].filled
          BY <1>5, <1>9, <1>11
    <3>2. broker[i].at = "filled" => broker'[i].at = "filled"
          BY <1>3, <1>9
    <3>3. ASSUME Bookable(i)' PROVE Bookable(i)
      <4>1. CASE i = p
            BY <1>3, <2>1, <3>3, <4>1 DEF Bookable
      <4>2. CASE i # p
            BY <1>9, <1>10, <1>11, <2>1, <3>3, <4>2 DEF Bookable
      <4>3. QED BY <4>1, <4>2
    <3>4. QED BY <3>1, <3>2, <3>3 DEF Weaker
  <2>4. QED BY <1>11, <2>2, <2>3 DEF Firmly
<1>14. QED
  <2>1. boot' # "reconciling"
        BY <1>3, <1>11
  <2>2. QED BY <1>1, <1>11, <1>12, <1>13, <2>1, Steadily

(* Of the order whose POST was awaited the broker has nothing, or a         *)
(* working order; of the others what it had.                                *)
LEMMA ReachedIs ==
  ASSUME Orderly, Frame, placing # 0, broker' \in Reached
  PROVE  /\ placing \in 1..Len(rows) /\ broker' \in Seq(OrderT) /\ Len(broker') = Len(rows)
         /\ \A i \in 1..Len(rows) :
              /\ i # placing => broker'[i] = broker[i]
              /\ i = placing => broker[i].at = "none" /\ broker'[i].at \in {"none", "working"}
              /\ broker'[i].filled = broker[i].filled
<1>1. /\ Len(rows) \in Nat /\ DOMAIN broker = 1..Len(rows)
      /\ \A i \in 1..Len(rows) : broker[i] \in OrderT
      BY Reads
<1>2. placing \in 1..Len(rows) /\ broker[placing].at = "none" /\ broker \in Seq(OrderT) /\ Len(broker) = Len(rows)
      BY <1>1 DEF Orderly, Frame
<1>3. PICK o \in OrderT : o = [broker[placing] EXCEPT !.at = "working"]
      BY <1>1, <1>2 DEF OrderT
<1>4. o.at = "working" /\ o.filled = broker[placing].filled
      BY <1>1, <1>2, <1>3 DEF OrderT
<1>5. PICK b : b = [broker EXCEPT ![placing] = o]
      OBVIOUS
<1>6. b \in Seq(OrderT) /\ Len(b) = Len(rows) /\ \A i \in 1..Len(rows) : b[i] = IF i = placing THEN o ELSE broker[i]
      BY <1>2, <1>5, Touched
<1>7. broker' = broker \/ broker' = b
      BY <1>3, <1>5 DEF Reached
<1>8. CASE broker' = broker
      BY <1>2, <1>8
<1>9. CASE broker' = b
      BY <1>2, <1>4, <1>6, <1>9
<1>10. QED BY <1>7, <1>8, <1>9

LEMMA PostRaisesKeeps ==
  ASSUME RecoveryInv, PostRaises
  PROVE  RecoveryInv'
<1> DEFINE p == placing
<1>1. Orderly /\ Frame /\ stray \in BOOLEAN /\ held \in Nat /\ p # 0
      BY DEF RecoveryInv, Shapes, PostRaises
<1>2. /\ Len(rows) \in Nat /\ DOMAIN rows = 1..Len(rows)
      /\ \A i \in 1..Len(rows) : rows[i] \in RowT
      BY <1>1, Reads
<1>3. /\ p \in 1..Len(rows) /\ broker' \in Seq(OrderT) /\ Len(broker') = Len(rows)
      /\ \A i \in 1..Len(rows) :
           /\ i # p => broker'[i] = broker[i]
           /\ i = p => broker[i].at = "none" /\ broker'[i].at \in {"none", "working"}
           /\ broker'[i].filled = broker[i].filled
  <2>1. broker' \in Reached
        BY DEF PostRaises
  <2>2. QED BY <1>1, <2>1, ReachedIs
<1>4. PICK r \in RowT : r = [rows[p] EXCEPT !.status = "REJECTED"]
      BY <1>2, <1>3 DEF RowT, Statuses
<1>5. r.status = "REJECTED" /\ r.side = rows[p].side
      BY <1>2, <1>3, <1>4 DEF RowT
<1>6. rows' = [rows EXCEPT ![p] = r]
      BY <1>4 DEF PostRaises
<1>7. /\ rows' \in Seq(RowT) /\ Len(rows') = Len(rows)
      /\ \A i \in 1..Len(rows) : rows'[i] = IF i = p THEN r ELSE rows[i]
  <2>1. rows \in Seq(RowT)
        BY <1>1 DEF Orderly
  <2>2. QED BY <1>3, <1>6, <2>1, Touched
<1>8. /\ placing' = 0 /\ task' = task /\ UNCHANGED <<set, pos, shown, sales, cycle, held, pass, boot, skewed>>
      /\ stray' = (stray \/ task[p] # {})
      BY DEF PostRaises, account, memory
<1>9. Orderly'
      BY <1>1, <1>2, <1>3, <1>7, <1>8 DEF Orderly
<1>10. DOMAIN rows' = 1..Len(rows)
      BY <1>2, <1>7, LenProperties
<1>11. Sells' = Sells
       BY <1>2, <1>5, <1>7, <1>10 DEF Sells
<1>12. ASSUME NEW i \in 1..Len(rows) PROVE Firmly(i)
  <2>1. broker[i].at = "dead" => broker'[i].at = "dead"
        BY <1>3
  <2>2. rows'[i].side = rows[i].side
        BY <1>5, <1>7
  <2>3. rows'[i] = rows[i] \/ rows'[i].status # "PARTIALLY_FILLED"
        BY <1>5, <1>7
  <2>4. ASSUME ~stray' PROVE Weaker(i)
    <3>1. task[p] = {}
          BY <1>8, <2>4
    <3>2. broker'[i].filled = broker[i].filled /\ (broker[i].at = "filled" => broker'[i].at = "filled")
          BY <1>3
    <3>3. CASE i = p
      <4>1. rows'[i].status = "REJECTED" /\ task'[i] = {} /\ placing' # i
            BY <1>3, <1>5, <1>7, <1>8, <3>1, <3>3
      <4>2. ~Bookable(i)'
            BY <4>1 DEF Bookable
      <4>3. QED BY <2>2, <3>2, <4>1, <4>2 DEF Weaker
    <3>4. CASE i # p
      <4>1. rows'[i] = rows[i] /\ broker'[i] = broker[i]
            BY <1>3, <1>7, <3>4
      <4>2. Bookable(i)' => Bookable(i)
            BY <1>8, <1>11, <1>3, <4>1 DEF Bookable
      <4>3. QED BY <2>2, <3>2, <4>1, <4>2 DEF Weaker
    <3>5. QED BY <3>3, <3>4
  <2>5. QED BY <2>1, <2>2, <2>3, <2>4 DEF Firmly
<1>13. boot' = "reconciling" => placing' = 0 /\ \A i \in 1..Len(rows) : task'[i] = {}
  <2>1. DOMAIN rows = 1..Len(rows)
        BY <1>2
  <2>2. QED BY <1>1, <1>8, <2>1 DEF Frame
<1>14. stray' \in BOOLEAN /\ (stray => stray')
       BY <1>1, <1>8
<1>15. QED BY <1>1, <1>7, <1>8, <1>9, <1>12, <1>13, <1>14, Steadily

(* A step of one order: its row, what the broker has and who polls it.      *)
LEMMA OneOrder ==
  ASSUME RecoveryInv, NEW p \in 1..Len(rows), NEW r \in RowT, NEW o \in OrderT, NEW t \in TaskT,
         rows' = [rows EXCEPT ![p] = r], broker' = [broker EXCEPT ![p] = o], task' = [task EXCEPT ![p] = t],
         placing' = placing, boot' = boot, t \subseteq task[p], r.side = rows[p].side,
         placing = p => o.at = "none",
         UNCHANGED <<set, pos, shown, sales, cycle, pass, stray, skewed>>, held' \in Nat,
         broker[p].at = "dead" => o.at = "dead",
         r = rows[p] \/ r.status # "PARTIALLY_FILLED",
         rows[p].side = "SELL" =>
           /\ \/ r = rows[p]
              \/ r.status \in {"CANCELLED", "REJECTED", "ERROR"} /\ (o.at = "dead" \/ (t = {} /\ placing # p))
           /\ o.filled = broker[p].filled
           /\ broker[p].at = "filled" => o.at = "filled"
           /\ broker[p].at = "dead" => o.at = "dead"
  PROVE  RecoveryInv'
<1>1. Orderly /\ Frame /\ stray \in BOOLEAN
      BY DEF RecoveryInv, Shapes
<1>2. /\ Len(rows) \in Nat /\ DOMAIN rows = 1..Len(rows) /\ rows \in Seq(RowT)
      /\ broker \in Seq(OrderT) /\ task \in Seq(TaskT) /\ Len(broker) = Len(rows) /\ Len(task) = Len(rows)
      BY <1>1, Reads DEF Orderly
<1>3. /\ rows' \in Seq(RowT) /\ Len(rows') = Len(rows)
      /\ \A i \in 1..Len(rows) : rows'[i] = IF i = p THEN r ELSE rows[i]
      BY <1>2, Touched
<1>4. /\ broker' \in Seq(OrderT) /\ Len(broker') = Len(rows)
      /\ \A i \in 1..Len(rows) : broker'[i] = IF i = p THEN o ELSE broker[i]
      BY <1>2, Touched
<1>5. /\ task' \in Seq(TaskT) /\ Len(task') = Len(rows)
      /\ \A i \in 1..Len(rows) : task'[i] = IF i = p THEN t ELSE task[i]
      BY <1>2, Touched
<1>6. Orderly'
      BY <1>1, <1>3, <1>4, <1>5 DEF Orderly
<1>7. Sells' = Sells
  <2>1. DOMAIN rows' = 1..Len(rows)
        BY <1>2, <1>3, LenProperties
  <2>2. QED BY <1>2, <1>3, <2>1 DEF Sells
<1>8. ASSUME NEW i \in 1..Len(rows) PROVE Firmly(i)
  <2>1. CASE i # p
    <3>1. rows'[i] = rows[i] /\ broker'[i] = broker[i] /\ task'[i] = task[i]
          BY <1>3, <1>4, <1>5, <2>1
    <3>2. Bookable(i)' => Bookable(i)
          BY <1>7, <3>1 DEF Bookable
    <3>3. QED BY <3>1, <3>2 DEF Firmly, Weaker
  <2>2. CASE i = p
    <3>1. rows'[i] = r /\ broker'[i] = o /\ task'[i] = t
          BY <1>3, <1>4, <1>5, <2>2
    <3>2. ASSUME rows[p].side = "SELL" PROVE Weaker(i)
      <4>1. \/ r = rows[p]
            \/ r.status \in {"CANCELLED", "REJECTED", "ERROR"} /\ (o.at = "dead" \/ (t = {} /\ placing # p))
            BY <3>2
      <4>2. CASE r = rows[p]
        <5>1. Bookable(i)' => Bookable(i)
              BY <1>7, <2>2, <3>1, <3>2, <4>2 DEF Bookable
        <5>2. QED BY <2>2, <3>1, <3>2, <4>2, <5>1 DEF Weaker
      <4>3. CASE r.status \in {"CANCELLED", "REJECTED", "ERROR"} /\ (o.at = "dead" \/ (t = {} /\ placing # p))
        <5>1. ~Bookable(i)'
              BY <2>2, <3>1, <4>3 DEF Bookable
        <5>2. QED BY <2>2, <3>1, <3>2, <4>3, <5>1 DEF Weaker
      <4>4. QED BY <4>1, <4>2, <4>3
    <3>3. Weaker(i)
          BY <2>2, <3>1, <3>2 DEF Weaker
    <3>4. QED BY <2>2, <3>1, <3>3 DEF Firmly
  <2>3. QED BY <2>1, <2>2
<1>9. placing' # 0 => broker'[placing'].at = "none"
  <2>1. placing # 0 => placing \in 1..Len(rows) /\ broker[placing].at = "none"
        BY <1>1, <1>2 DEF Orderly, Frame
  <2>2. QED BY <1>4, <2>1
<1>10. boot' = "reconciling" => placing' = 0 /\ \A i \in 1..Len(rows) : task'[i] = {}
  <2>1. boot = "reconciling" => placing = 0 /\ \A i \in 1..Len(rows) : task[i] = {}
        BY <1>1, <1>2 DEF Frame
  <2>2. QED BY <1>5, <2>1
<1>11. QED BY <1>1, <1>3, <1>6, <1>8, <1>9, <1>10, Steadily

(* An order the broker works on is not one whose POST is awaited. *)
LEMMA Known ==
  ASSUME RecoveryInv, NEW p \in DOMAIN rows
  PROVE  /\ p \in 1..Len(rows) /\ rows[p] \in RowT /\ broker[p] \in OrderT /\ task[p] \in TaskT
         /\ held \in Nat /\ sales \in Seq(Nat) /\ pos \in PosT /\ Orderly /\ Frame
         /\ rows = [rows EXCEPT ![p] = rows[p]] /\ broker = [broker EXCEPT ![p] = broker[p]]
         /\ task = [task EXCEPT ![p] = task[p]]
         /\ broker[p].at # "none" => placing # p
<1>1. Orderly /\ Frame /\ held \in Nat /\ sales \in Seq(Nat) /\ pos \in PosT
      BY DEF RecoveryInv, Shapes
<1>2. /\ p \in 1..Len(rows) /\ rows[p] \in RowT /\ broker[p] \in OrderT /\ task[p] \in TaskT
      BY <1>1, Reads
<1>3. rows \in [1..Len(rows) -> RowT] /\ broker \in [1..Len(rows) -> OrderT] /\ task \in [1..Len(rows) -> TaskT]
      BY <1>1, LenProperties DEF Orderly
<1>4. /\ rows = [rows EXCEPT ![p] = rows[p]] /\ broker = [broker EXCEPT ![p] = broker[p]]
      /\ task = [task EXCEPT ![p] = task[p]]
      BY <1>2, <1>3
<1>5. broker[p].at # "none" => placing # p
  <2>1. p # 0
        BY <1>2
  <2>2. QED BY <1>1, <2>1 DEF Frame
<1>6. QED BY <1>1, <1>2, <1>4, <1>5

LEMMA DropsKeeps ==
  ASSUME RecoveryInv, NEW p \in DOMAIN rows, Drops(p)
  PROVE  RecoveryInv'
<1>1. /\ p \in 1..Len(rows) /\ rows[p] \in RowT /\ broker[p] \in OrderT /\ task[p] \in TaskT /\ held \in Nat
      /\ rows = [rows EXCEPT ![p] = rows[p]] /\ task = [task EXCEPT ![p] = task[p]]
      /\ broker[p].at # "none" => placing # p
      BY Known
<1>2. PICK o \in OrderT : o = [broker[p] EXCEPT !.at = "dead"]
      BY <1>1 DEF OrderT
<1>3. o.at = "dead" /\ o.filled = broker[p].filled /\ broker[p].at = "working"
      BY <1>1, <1>2 DEF OrderT, Drops
<1>4. broker' = [broker EXCEPT ![p] = o]
      BY <1>2 DEF Drops
<1>5. rows' = [rows EXCEPT ![p] = rows[p]] /\ task' = [task EXCEPT ![p] = task[p]]
      BY <1>1 DEF Drops
<1>6. placing' = placing /\ boot' = boot /\ UNCHANGED <<set, pos, shown, sales, cycle, pass, stray, skewed>> /\ held' \in Nat
      BY <1>1 DEF Drops, account, memory, history
<1>7. QED BY <1>1, <1>3, <1>4, <1>5, <1>6, OneOrder

(* What the broker has of an order after it filled n of it. *)
LEMMA FilledIs ==
  ASSUME RecoveryInv, NEW p \in DOMAIN rows, NEW n \in Nat, Fills(p, n)
  PROVE  \E o \in OrderT : /\ broker' = [broker EXCEPT ![p] = o] /\ o.filled = broker[p].filled + n
                           /\ o.at \in {"working", "filled"} /\ broker[p].at = "working"
                           /\ broker[p].filled \in Nat
<1>1. broker[p] \in OrderT
      BY Known
<1>2. broker[p].at = "working" /\ broker[p].filled \in Nat
      BY <1>1 DEF Fills, OrderT
<1>3. PICK now \in Nat : now = broker[p].filled + n
      BY <1>2
<1>4. PICK at \in {"working", "filled"} : at = IF now = rows[p].qty THEN "filled" ELSE "working"
      OBVIOUS
<1>5. PICK o : o = [at |-> at, filled |-> now]
      OBVIOUS
<1>6. o \in OrderT /\ o.filled = now /\ o.at = at
      BY <1>3, <1>4, <1>5 DEF OrderT
<1>7. broker' = [broker EXCEPT ![p] = o]
      BY <1>3, <1>4, <1>5 DEF Fills
<1>8. QED BY <1>2, <1>3, <1>6, <1>7

LEMMA BuyFillsKeeps ==
  ASSUME RecoveryInv, NEW p \in DOMAIN rows, NEW n \in Nat, Fills(p, n), rows[p].side = "BUY"
  PROVE  RecoveryInv'
<1>1. /\ p \in 1..Len(rows) /\ rows[p] \in RowT /\ broker[p] \in OrderT /\ task[p] \in TaskT /\ held \in Nat
      /\ rows = [rows EXCEPT ![p] = rows[p]] /\ task = [task EXCEPT ![p] = task[p]]
      /\ broker[p].at # "none" => placing # p
      BY Known
<1>2. PICK o \in OrderT : /\ broker' = [broker EXCEPT ![p] = o] /\ o.filled = broker[p].filled + n
                         /\ o.at \in {"working", "filled"} /\ broker[p].at = "working"
      BY FilledIs
<1>3. rows' = [rows EXCEPT ![p] = rows[p]] /\ task' = [task EXCEPT ![p] = task[p]]
      BY <1>1 DEF Fills
<1>4. placing' = placing /\ boot' = boot /\ UNCHANGED <<set, pos, shown, sales, cycle, pass, stray, skewed>> /\ held' \in Nat
      BY <1>1 DEF Fills, memory, history
<1>5. rows[p].side # "SELL" /\ placing # p /\ broker[p].at # "dead"
      BY <1>1, <1>2
<1>6. QED BY <1>1, <1>2, <1>3, <1>4, <1>5, OneOrder

LEMMA SeesEndKeeps ==
  ASSUME RecoveryInv, NEW p \in DOMAIN rows, NEW who, SeesEnd(p, who)
  PROVE  RecoveryInv'
<1>1. /\ p \in 1..Len(rows) /\ rows[p] \in RowT /\ broker[p] \in OrderT /\ task[p] \in TaskT /\ held \in Nat
      /\ broker = [broker EXCEPT ![p] = broker[p]]
      /\ broker[p].at # "none" => placing # p
      BY Known
<1>2. broker[p].at = "dead" /\ broker' = broker
      BY DEF SeesEnd
<1>3. PICK r \in RowT : r = [rows[p] EXCEPT !.status = "CANCELLED"]
      BY <1>1 DEF RowT, Statuses
<1>4. r.status = "CANCELLED" /\ r.side = rows[p].side
      BY <1>1, <1>3 DEF RowT
<1>5. PICK t \in TaskT : t = task[p] \ {who}
      BY <1>1 DEF TaskT
<1>6. rows' = [rows EXCEPT ![p] = r] /\ task' = [task EXCEPT ![p] = t]
      BY <1>3, <1>5 DEF SeesEnd, Returns
<1>7. placing' = placing /\ boot' = boot /\ UNCHANGED <<set, pos, shown, sales, cycle, pass, stray, skewed>> /\ held' \in Nat
      BY <1>1 DEF SeesEnd, account, memory, history
<1>8. broker' = [broker EXCEPT ![p] = broker[p]] /\ t \subseteq task[p] /\ placing # p
      BY <1>1, <1>2, <1>5
<1>9. QED BY <1>1, <1>2, <1>4, <1>6, <1>7, <1>8, OneOrder

(* A task that ends leaves a row that is not pending as it is. *)
LEMMA EndedIs ==
  ASSUME RecoveryInv, NEW p \in DOMAIN rows, NEW status \in {"CANCELLED", "ERROR"}
  PROVE  \E r \in RowT : /\ r.side = rows[p].side /\ Ended(p, status) = [rows EXCEPT ![p] = r]
                         /\ r = rows[p] \/ r.status \in {"CANCELLED", "REJECTED", "ERROR"}
<1>1. rows[p] \in RowT
      BY Known
<1>2. PICK r \in RowT : r = [rows[p] EXCEPT !.status = IF rows[p].status = "PENDING" THEN status ELSE rows[p].status]
      BY <1>1 DEF RowT, Statuses
<1>3. r.side = rows[p].side /\ (r = rows[p] \/ r.status \in {"CANCELLED", "REJECTED", "ERROR"})
  <2>1. CASE rows[p].status = "PENDING"
        BY <1>1, <1>2, <2>1 DEF RowT
  <2>2. CASE rows[p].status # "PENDING"
        BY <1>1, <1>2, <2>2 DEF RowT
  <2>3. QED BY <2>1, <2>2
<1>4. Ended(p, status) = [rows EXCEPT ![p] = r]
      BY <1>2 DEF Ended
<1>5. QED BY <1>3, <1>4

LEMMA TimesOutKeeps ==
  ASSUME RecoveryInv, NEW p \in DOMAIN rows, TimesOut(p)
  PROVE  RecoveryInv'
<1>1. /\ p \in 1..Len(rows) /\ rows[p] \in RowT /\ broker[p] \in OrderT /\ task[p] \in TaskT /\ held \in Nat
      /\ broker = [broker EXCEPT ![p] = broker[p]]
      BY Known
<1>2. PICK r \in RowT : /\ r.side = rows[p].side /\ rows' = [rows EXCEPT ![p] = r]
                        /\ r = rows[p] \/ r.status \in {"CANCELLED", "REJECTED", "ERROR"}
      BY EndedIs DEF TimesOut
<1>3. PICK o \in OrderT : /\ broker' = [broker EXCEPT ![p] = o] /\ o.filled = broker[p].filled
                          /\ broker[p].at = "filled" => o.at = "filled"
                          /\ broker[p].at = "dead" => o.at = "dead"
  <2>1. CASE broker' = [broker EXCEPT ![p].at = IF @ = "working" THEN "dead" ELSE @]
    <3>1. PICK o \in OrderT : o = [broker[p] EXCEPT !.at = IF broker[p].at = "working" THEN "dead" ELSE broker[p].at]
          BY <1>1 DEF OrderT
    <3>2. broker' = [broker EXCEPT ![p] = o]
          BY <2>1, <3>1
    <3>3. o.filled = broker[p].filled /\ (broker[p].at = "filled" => o.at = "filled")
          BY <1>1, <3>1 DEF OrderT
    <3>4. broker[p].at = "dead" => o.at = "dead"
          BY <1>1, <3>1 DEF OrderT
    <3>5. QED BY <3>1, <3>2, <3>3, <3>4
  <2>2. CASE UNCHANGED broker
        BY <1>1, <2>2
  <2>3. QED BY <2>1, <2>2 DEF TimesOut
<1>4. task' = [task EXCEPT ![p] = {}] /\ {} \in TaskT /\ {} \subseteq task[p] /\ placing # p
      BY DEF TimesOut, TaskT
<1>5. placing' = placing /\ boot' = boot /\ UNCHANGED <<set, pos, shown, sales, cycle, pass, stray, skewed>> /\ held' \in Nat
      BY <1>1 DEF TimesOut, account, memory
<1>6. r = rows[p] \/ r.status # "PARTIALLY_FILLED"
      BY <1>2
<1>7. /\ \/ r = rows[p]
         \/ r.status \in {"CANCELLED", "REJECTED", "ERROR"} /\ (o.at = "dead" \/ ({} = {} /\ placing # p))
      BY <1>2, <1>4
<1>8. QED BY <1>1, <1>2, <1>3, <1>4, <1>5, <1>6, <1>7, OneOrder

LEMMA GivesUpKeeps ==
  ASSUME RecoveryInv, NEW p \in DOMAIN rows, GivesUp(p)
  PROVE  RecoveryInv'
<1>1. /\ p \in 1..Len(rows) /\ rows[p] \in RowT /\ broker[p] \in OrderT /\ task[p] \in TaskT /\ held \in Nat
      /\ broker = [broker EXCEPT ![p] = broker[p]]
      BY Known
<1>2. PICK r \in RowT : /\ r.side = rows[p].side /\ rows' = [rows EXCEPT ![p] = r]
                        /\ r = rows[p] \/ r.status \in {"CANCELLED", "REJECTED", "ERROR"}
      BY EndedIs DEF GivesUp
<1>3. broker' = [broker EXCEPT ![p] = broker[p]]
      BY <1>1 DEF GivesUp
<1>4. task' = [task EXCEPT ![p] = {}] /\ {} \in TaskT /\ {} \subseteq task[p] /\ placing # p
      BY DEF GivesUp, TaskT
<1>5. placing' = placing /\ boot' = boot /\ UNCHANGED <<set, pos, shown, sales, cycle, pass, stray, skewed>> /\ held' \in Nat
      BY <1>1 DEF GivesUp, account, memory
<1>6. r = rows[p] \/ r.status # "PARTIALLY_FILLED"
      BY <1>2
<1>7. /\ \/ r = rows[p]
         \/ r.status \in {"CANCELLED", "REJECTED", "ERROR"} /\ (broker[p].at = "dead" \/ ({} = {} /\ placing # p))
      BY <1>2, <1>4
<1>8. QED BY <1>1, <1>2, <1>3, <1>4, <1>5, <1>6, <1>7, OneOrder

LEMMA ResumesKeeps ==
  ASSUME RecoveryInv, Resumes
  PROVE  RecoveryInv'
<1>1. Orderly /\ Frame /\ held \in Nat /\ stray \in BOOLEAN
      BY DEF RecoveryInv, Shapes
<1>2. /\ Len(rows) \in Nat /\ DOMAIN rows = 1..Len(rows) /\ DOMAIN task = 1..Len(rows)
      /\ \A i \in 1..Len(rows) : task[i] \in TaskT
      BY <1>1, Reads
<1>3. /\ rows' = rows /\ broker' = broker /\ placing' = placing /\ boot' = "up"
      /\ task' = [i \in DOMAIN task |-> IF i \in Resumable THEN task[i] \cup {"blind"} ELSE task[i]]
      /\ UNCHANGED <<set, pos, shown, sales, cycle, held, stray, skewed, pass>>
      BY DEF Resumes, account, history
<1>4. \A i \in 1..Len(rows) : task'[i] = IF i \in Resumable THEN task[i] \cup {"blind"} ELSE task[i]
      BY <1>2, <1>3
<1>5. task' \in Seq(TaskT) /\ Len(task') = Len(rows)
  <2>1. task' \in [1..Len(rows) -> TaskT]
    <3>1. \A i \in 1..Len(rows) : task'[i] \in TaskT
          BY <1>2, <1>4 DEF TaskT
    <3>2. QED BY <1>2, <1>3, <3>1
  <2>2. QED BY <1>2, <2>1, SeqDef, LenProperties
<1>6. Orderly'
      BY <1>1, <1>3, <1>5 DEF Orderly
<1>7. ASSUME NEW i \in 1..Len(rows) PROVE Firmly(i)
  <2>1. Sells' = Sells
        BY <1>3 DEF Sells
  <2>2. ASSUME Bookable(i)' PROVE Bookable(i)
    <3>1. i \in Sells /\ broker[i].at # "dead" /\ (task'[i] # {} \/ placing = i \/ rows[i].status = "PENDING")
          BY <1>3, <2>1, <2>2 DEF Bookable
    <3>2. CASE i \in Resumable
          BY <3>1, <3>2 DEF Bookable, Resumable
    <3>3. CASE i \notin Resumable
          BY <1>4, <3>1, <3>3 DEF Bookable
    <3>4. QED BY <3>2, <3>3
  <2>3. QED BY <1>3, <2>2 DEF Firmly, Weaker
<1>8. placing' # 0 => broker'[placing'].at = "none"
      BY <1>1, <1>3 DEF Frame
<1>9. boot' # "reconciling" /\ Len(rows') = Len(rows) /\ held' \in Nat
      BY <1>1, <1>3
<1>10. stray' \in BOOLEAN /\ (stray => stray') /\ pass' \in {pass, Idle}
       BY <1>1, <1>3
<1>11. UNCHANGED <<set, pos, shown, sales, cycle, skewed>>
       BY <1>3
<1>12. QED BY <1>6, <1>7, <1>8, <1>9, <1>10, <1>11, Steadily

LEMMA CrashesKeeps ==
  ASSUME RecoveryInv, Crashes
  PROVE  RecoveryInv'
<1>1. Orderly /\ Frame /\ held \in Nat /\ stray \in BOOLEAN
      BY DEF RecoveryInv, Shapes
<1>2. /\ Len(rows) \in Nat /\ DOMAIN rows = 1..Len(rows) /\ DOMAIN task = 1..Len(rows)
      BY <1>1, Reads
<1>3. /\ rows' = rows /\ placing' = 0 /\ pass' = Idle
      /\ task' = [i \in DOMAIN task |-> {}]
      /\ UNCHANGED <<set, pos, shown, sales, cycle, held, stray, skewed>>
      BY DEF Crashes, account
<1>4. \A i \in 1..Len(rows) : task'[i] = {}
      BY <1>2, <1>3
<1>5. task' \in Seq(TaskT) /\ Len(task') = Len(rows)
  <2>1. task' \in [1..Len(rows) -> TaskT]
        BY <1>2, <1>3 DEF TaskT
  <2>2. QED BY <1>2, <2>1, SeqDef, LenProperties
<1>6. /\ broker' \in Seq(OrderT) /\ Len(broker') = Len(rows)
      /\ \A i \in 1..Len(rows) :
           /\ i # placing => broker'[i] = broker[i]
           /\ i = placing => broker[i].at = "none" /\ broker'[i].at \in {"none", "working"}
           /\ broker'[i].filled = broker[i].filled
  <2>1. CASE placing = 0
    <3>1. broker' = broker
          BY <2>1 DEF Crashes
    <3>2. QED BY <1>1, <2>1, <3>1 DEF Orderly
  <2>2. CASE placing # 0
    <3>1. broker' \in Reached
          BY <2>2 DEF Crashes
    <3>2. QED BY <1>1, <2>2, <3>1, ReachedIs
  <2>3. QED BY <2>1, <2>2
<1>7. Orderly'
      BY <1>1, <1>2, <1>3, <1>5, <1>6 DEF Orderly
<1>8. ASSUME NEW i \in 1..Len(rows) PROVE Firmly(i)
  <2>1. Sells' = Sells
        BY <1>3 DEF Sells
  <2>2. ASSUME Bookable(i)' PROVE Bookable(i)
    <3>1. i \in Sells /\ rows[i].status = "PENDING" /\ broker'[i].at # "dead"
          BY <1>2, <1>3, <1>4, <2>1, <2>2 DEF Bookable
    <3>2. broker[i].at # "dead"
          BY <1>6, <3>1
    <3>3. QED BY <3>1, <3>2 DEF Bookable
  <2>3. broker'[i].filled = broker[i].filled /\ (broker[i].at = "filled" => broker'[i].at = "filled")
        BY <1>6
  <2>4. broker[i].at = "dead" => broker'[i].at = "dead"
        BY <1>6
  <2>5. QED BY <1>3, <2>2, <2>3, <2>4 DEF Firmly, Weaker
<1>9. Len(rows') = Len(rows) /\ held' \in Nat /\ placing' = 0
      BY <1>1, <1>3
<1>10. stray' \in BOOLEAN /\ (stray => stray') /\ pass' \in {pass, Idle}
       BY <1>1, <1>3
<1>11. UNCHANGED <<set, pos, shown, sales, cycle, skewed>>
       BY <1>3
<1>12. QED BY <1>4, <1>7, <1>8, <1>9, <1>10, <1>11, Steadily

(* The broker's sale of a SELL is one of the account's.                     *)
LEMMA SellFillsKeeps ==
  ASSUME RecoveryInv, NEW p \in DOMAIN rows, NEW n \in Nat, Fills(p, n), rows[p].side = "SELL"
  PROVE  RecoveryInv'
<1>1. /\ p \in 1..Len(rows) /\ rows[p] \in RowT /\ broker[p] \in OrderT /\ held \in Nat /\ sales \in Seq(Nat)
      /\ Orderly /\ Frame
      /\ broker[p].at # "none" => placing # p
      BY Known
<1>2. broker[p].at = "working" /\ broker[p].filled \in Nat /\ held >= n
      BY FilledIs DEF Fills
<1>3. PICK o \in OrderT : /\ broker' = [broker EXCEPT ![p] = o] /\ o.filled = broker[p].filled + n
                         /\ o.at \in {"working", "filled"}
      BY FilledIs
<1>4. broker' = [broker EXCEPT ![p] = o]
      BY <1>3
<1>5. o.at \in {"working", "filled"} /\ o.filled = broker[p].filled + n
      BY <1>3
<1>6. /\ broker' \in Seq(OrderT) /\ Len(broker') = Len(rows)
      /\ \A i \in 1..Len(rows) : broker'[i] = IF i = p THEN o ELSE broker[i]
  <2>1. broker \in Seq(OrderT) /\ Len(broker) = Len(rows)
        BY <1>1 DEF Orderly
  <2>2. QED BY <1>1, <1>4, <2>1, Touched
<1>7. /\ rows' = rows /\ task' = task /\ placing' = placing /\ boot' = boot
      /\ UNCHANGED <<set, pos, shown, cycle, stray, skewed, pass>>
      /\ held' = held - n /\ sales' = Append(sales, n)
      BY DEF Fills, memory, history
<1>8. Orderly'
      BY <1>1, <1>6, <1>7 DEF Orderly
<1>9. sales' \in Seq(Nat) /\ Total(sales') = Total(sales) + n /\ Total(sales) \in Nat
      BY <1>1, <1>7, TotalAppend, TotalNat
<1>10. Shapes'
  <2>1. held' \in Nat
        BY <1>1, <1>2, <1>7
  <2>2. QED BY <1>7, <1>8, <1>9, <2>1 DEF RecoveryInv, Shapes
<1>11. Sells' = Sells
       BY <1>7 DEF Sells
<1>12. Frame'
  <2>1. placing' # 0 => broker'[placing'].at = "none"
        BY <1>1, <1>2, <1>6, <1>7 DEF Frame, Orderly
  <2>2. pass'.at # "idle" => \A i \in pass'.ended : i \in DOMAIN rows' /\ broker'[i].at = "dead"
    <3>1. \A i \in DOMAIN rows : i \in 1..Len(rows)
          BY <1>1, Reads
    <3>2. QED BY <1>1, <1>2, <1>6, <1>7, <3>1 DEF Frame
  <2>3. boot' = "reconciling" => placing' = 0 /\ \A i \in DOMAIN rows' : task'[i] = {}
        BY <1>1, <1>7 DEF Frame
  <2>4. pos'.row # "none" => cycle' >= 1
        BY <1>1, <1>7 DEF Frame
  <2>5. pos'.row = "none" => Sells' = {} /\ pass'.at # "looking"
        BY <1>1, <1>7, <1>11 DEF Frame
  <2>6. \A i \in Sells' : rows'[i].status # "PARTIALLY_FILLED"
        BY <1>1, <1>7, <1>11 DEF Frame
  <2>7. QED BY <2>1, <2>2, <2>3, <2>4, <2>5, <2>6 DEF Frame
<1>13. ASSUME Calm' PROVE Books'
  <2>1. Books
        BY <1>7, <1>13 DEF RecoveryInv, Calm
  <2>2. Around
        BY <1>7, <1>9 DEF Around
  <2>3. ASSUME NEW i \in 1..Len(rows), i # p PROVE RowKept(i) /\ NoMore(i) /\ DueKept(i)
    <3>1. rows'[i] = rows[i] /\ broker'[i] = broker[i]
          BY <1>6, <1>7, <2>3
    <3>2. Bookable(i)' => Bookable(i)
          BY <1>7, <1>11, <3>1 DEF Bookable
    <3>3. Weaker(i)
          BY <3>1, <3>2 DEF Weaker
    <3>4. QED BY <1>1, <1>8, <2>1, <2>2, <3>3, RowWeaker
  <2>4. RowKept(p) /\ NoMore(p)
    <3>1. p \in Sells
          BY DEF Sells
    <3>2. pos'.since =< p
          BY <1>7, <2>1, <3>1 DEF Books
    <3>3. RowKept(p)
          BY <1>7, <3>2 DEF RowKept
    <3>4. Qty(rows[p]) \in Nat
          BY <1>1 DEF Qty, RowT
    <3>5. NoMore(p)
          BY <1>7, <3>4 DEF NoMore
    <3>6. QED BY <3>3, <3>5
  <2>5. ASSUME Due(p)' PROVE /\ Due(p) /\ AdoptedLast(p)'
                             /\ Recorded(rows) + broker'[p].filled =< Total(sales') + Qty(rows[p])
    <3>1. Due(p) /\ p \in Sells
      <4>1. p \in Sells /\ (task[p] # {} \/ placing = p \/ rows[p].status = "PENDING")
            BY <1>7, <1>11, <2>5 DEF Due, Bookable
      <4>2. Bookable(p) /\ ~Settled(p)
            BY <1>2, <4>1 DEF Bookable, Settled
      <4>3. QED BY <4>1, <4>2 DEF Due
    <3>2. Covered(p) /\ AdoptedLast(p)
          BY <2>1, <3>1 DEF Books
    <3>3. AdoptedLast(p)'
          BY <1>7, <3>2 DEF AdoptedLast
    <3>4. Recorded(rows) \in Nat /\ Qty(rows[p]) \in Nat
          BY <1>1, RecordedNat DEF Orderly
    <3>5. PICK a \in Nat, b \in Nat, c \in Nat, d \in Nat :
            a = Recorded(rows) /\ b = broker[p].filled /\ c = Total(sales) /\ d = Qty(rows[p])
          BY <1>2, <1>9, <3>4
    <3>6. a + b =< c + d
          BY <3>2, <3>5 DEF Covered
    <3>7. a + (b + n) =< (c + n) + d
          BY <3>6
    <3>8. broker'[p].filled = b + n /\ Total(sales') = c + n
          BY <1>1, <1>5, <1>6, <1>9, <3>5
    <3>9. QED BY <3>1, <3>3, <3>5, <3>7, <3>8
  <2>6. DueKept(p)
        BY <2>5 DEF DueKept
  <2>7. \A i \in 1..Len(rows) : RowKept(i) /\ NoMore(i) /\ DueKept(i)
        BY <2>3, <2>4, <2>6
  <2>8. Len(rows') = Len(rows) /\ Total(sales) =< Total(sales')
        BY <1>7, <1>9
  <2>9. QED BY <1>1, <1>8, <1>9, <2>1, <2>7, <2>8, BooksRowsKept
<1>14. QED BY <1>10, <1>12, <1>13 DEF RecoveryInv

LEMMA CommitsKeeps ==
  ASSUME RecoveryInv, NEW side \in Roles, NEW lot \in Nat, Commits(side, lot)
  PROVE  RecoveryInv'
<1> DEFINE new == Len(rows) + 1
<1>1. Orderly /\ Frame /\ sales \in Seq(Nat) /\ pos \in PosT /\ pos.since =< Len(rows) + 1
      BY DEF RecoveryInv, Shapes
<1>2. /\ Len(rows) \in Nat /\ DOMAIN rows = 1..Len(rows) /\ rows \in Seq(RowT)
      /\ broker \in Seq(OrderT) /\ task \in Seq(TaskT) /\ Len(broker) = Len(rows) /\ Len(task) = Len(rows)
      BY <1>1, Reads DEF Orderly
<1>3. PICK r \in RowT : r = [side |-> side, qty |-> lot, status |-> "PENDING", filled |-> 0, early |-> FALSE]
      BY DEF RowT, Statuses
<1>4. PICK o \in OrderT : o = [at |-> "none", filled |-> 0]
      BY DEF OrderT
<1>5. PICK t \in TaskT : t = {}
      BY DEF TaskT
<1>6. /\ rows' = Append(rows, r) /\ broker' = Append(broker, o) /\ task' = Append(task, t) /\ placing' = new
      /\ placing = 0 /\ boot \in {"resuming", "up"} /\ boot' = boot
      /\ UNCHANGED <<set, pos, held, shown, sales, pass, cycle, stray, skewed>>
      BY <1>3, <1>4, <1>5 DEF Commits, account, memory, history
<1>7. /\ rows' \in Seq(RowT) /\ Len(rows') = new /\ rows'[new] = r
      /\ \A i \in 1..Len(rows) : rows'[i] = rows[i]
      BY <1>2, <1>6, AppendProperties
<1>8. /\ broker' \in Seq(OrderT) /\ Len(broker') = new /\ broker'[new] = o
      /\ \A i \in 1..Len(rows) : broker'[i] = broker[i]
      BY <1>2, <1>6, AppendProperties
<1>9. /\ task' \in Seq(TaskT) /\ Len(task') = new /\ task'[new] = t
      /\ \A i \in 1..Len(rows) : task'[i] = task[i]
      BY <1>2, <1>6, AppendProperties
<1>10. Orderly'
       BY <1>2, <1>6, <1>7, <1>8, <1>9 DEF Orderly
<1>11. Shapes'
  <2>1. pos'.since =< Len(rows') + 1
        BY <1>1, <1>2, <1>6, <1>7 DEF PosT
  <2>2. QED BY <1>6, <1>10, <2>1 DEF RecoveryInv, Shapes
<1>12. DOMAIN rows' = 1..new /\ \A i \in 1..new : i \in 1..Len(rows) \/ i = new
  <2>1. DOMAIN rows' = 1..new
        BY <1>7, LenProperties
  <2>2. QED BY <1>2, <2>1
<1>13. Sells \subseteq 1..Len(rows) /\ \A i \in Sells' : i \in Sells \/ (i = new /\ side = "SELL")
       BY <1>2, <1>3, <1>7, <1>12 DEF Sells
<1>14. side = "SELL" => pos.row = "open" /\ LiveSells = {}
       BY DEF Commits, Open
<1>15. Frame'
  <2>1. placing' # 0 => broker'[placing'].at = "none"
        BY <1>4, <1>6, <1>8
  <2>2. pass'.at # "idle" => \A i \in pass'.ended : i \in DOMAIN rows' /\ broker'[i].at = "dead"
    <3>1. \A i \in 1..Len(rows) : i \in DOMAIN rows'
          BY <1>2, <1>12
    <3>2. pass.at # "idle" => \A i \in pass.ended : i \in 1..Len(rows) /\ broker[i].at = "dead"
          BY <1>1, <1>2 DEF Frame
    <3>3. QED BY <1>6, <1>8, <3>1, <3>2
  <2>3. boot' # "reconciling"
        BY <1>6
  <2>4. pos'.row # "none" => cycle' >= 1
        BY <1>1, <1>6 DEF Frame
  <2>5. pos'.row = "none" => Sells' = {} /\ pass'.at # "looking"
        BY <1>1, <1>6, <1>13, <1>14 DEF Frame
  <2>6. ASSUME NEW i \in Sells' PROVE rows'[i].status # "PARTIALLY_FILLED"
    <3>1. CASE i \in Sells
          BY <1>1, <1>7, <1>13, <3>1 DEF Frame
    <3>2. CASE i = new
          BY <1>3, <1>7, <3>2
    <3>3. QED BY <1>13, <3>1, <3>2
  <2>7. QED BY <2>1, <2>2, <2>3, <2>4, <2>5, <2>6 DEF Frame
<1>16. ASSUME Calm' PROVE Books'
  <2>1. Books
        BY <1>6, <1>16 DEF RecoveryInv, Calm
  <2>2. Around
    <3>1. Total(sales) \in Nat
          BY <1>1, TotalNat
    <3>2. QED BY <1>1, <1>6, <3>1 DEF Around
  <2>3. ASSUME NEW i \in 1..Len(rows) PROVE DueKept(i)
    <3>1. i # new /\ i \in 1..new
          BY <1>2
    <3>2. i \in Sells' => i \in Sells
          BY <1>13, <3>1
    <3>3. Bookable(i)' => Bookable(i)
          BY <1>6, <1>7, <1>8, <1>9, <3>1, <3>2 DEF Bookable
    <3>4. Weaker(i)
          BY <1>7, <1>8, <3>3 DEF Weaker
    <3>5. QED BY <1>1, <1>10, <2>1, <2>2, <3>4, RowWeaker
  <2>4. CASE side = "BUY"
    <3>1. r.side = "BUY" /\ sales' = sales
          BY <1>3, <1>6, <2>4
    <3>2. \A i \in 1..Len(rows) : pos'.since = pos.since /\ broker'[i] = broker[i] /\ DueKept(i)
          BY <1>6, <1>8, <2>3
    <3>3. QED BY <1>1, <1>6, <1>10, <2>1, <3>1, <3>2, BooksBuyAdded
  <2>5. CASE side = "SELL"
    <3>1. ASSUME NEW i \in 1..Len(rows)
          PROVE  /\ rows[i].side = rows[i].side
                 /\ Qty(rows[i]) =< Qty(rows[i])
                 /\ rows[i].side = "SELL" => pos'.since =< i /\ rows[i].status # "PENDING" /\ ~Due(i)'
      <4>1. Qty(rows[i]) \in Nat
            BY <1>2, RecordedNat
      <4>2. ASSUME rows[i].side = "SELL" PROVE pos'.since =< i /\ rows[i].status # "PENDING" /\ ~Due(i)'
        <5>1. i \in Sells
              BY <1>2, <4>2 DEF Sells
        <5>2. rows[i].status # "PENDING"
              BY <1>2, <1>14, <2>5, <4>2 DEF LiveSells, Working
        <5>3. pos'.since =< i
              BY <1>6, <2>1, <5>1 DEF Books
        <5>4. ~Due(i)'
          <6>1. SUFFICES ASSUME Due(i)' PROVE FALSE
                OBVIOUS
          <6>2. Due(i)
                BY <2>3, <6>1 DEF DueKept
          <6>3. AdoptedLast(i)
                BY <2>1, <5>1, <6>2 DEF Books
          <6>4. QED BY <1>14, <2>5, <5>2, <6>3 DEF AdoptedLast
        <5>5. QED BY <5>2, <5>3, <5>4
      <4>3. QED BY <4>1, <4>2
    <3>2. PICK n : n = Len(rows) + 1
          OBVIOUS
    <3>3. Recorded(rows) \in Nat /\ Recorded(rows) =< Total(sales') /\ Total(sales') \in Nat
      <4>1. Recorded(rows) \in Nat
            BY <1>2, RecordedNat
      <4>2. Recorded(rows) =< Total(sales)
            BY <2>1 DEF Books
      <4>3. Total(sales) \in Nat
            BY <1>1, TotalNat
      <4>4. QED BY <1>6, <4>1, <4>2, <4>3
    <3>4. Recorded(rows) + Qty(r) =< Total(sales')
      <4>1. Qty(r) = 0
            BY <1>3 DEF Qty
      <4>2. QED BY <3>3, <4>1
    <3>5. Due(n)' => AdoptedLast(n)' /\ Recorded(rows) + broker'[n].filled =< Total(sales')
      <4>1. AdoptedLast(n)'
            BY <1>3, <1>7, <3>2 DEF AdoptedLast
      <4>2. broker'[n].filled = 0
            BY <1>4, <1>8, <3>2
      <4>3. QED BY <3>3, <4>1, <4>2
    <3>6. pos'.since =< Len(rows) + 1 /\ sales' \in Seq(Nat)
          BY <1>1, <1>6
    <3>7. Len(rows) = Len(rows) /\ rows \in Seq(RowT) /\ rows' = Append(rows, r)
          BY <1>2, <1>6
    <3>8. QED
      <4>1. PICK rs \in Seq(RowT) : rs = rows
            BY <1>2
      <4>2. \A i \in 1..Len(rows) :
              /\ rs[i].side = rows[i].side
              /\ Qty(rs[i]) =< Qty(rows[i])
              /\ rows[i].side = "SELL" => pos'.since =< i /\ rs[i].status # "PENDING" /\ ~Due(i)'
            BY <3>1, <4>1
      <4>3. rows' = Append(rs, r) /\ Len(rs) = Len(rows)
            BY <3>7, <4>1
      <4>4. QED BY <1>1, <1>10, <2>1, <3>2, <3>4, <3>5, <3>6, <4>2, <4>3, BooksSellAdded
  <2>6. QED BY <2>4, <2>5 DEF Roles
<1>17. QED BY <1>11, <1>15, <1>16 DEF RecoveryInv

-----------------------------------------------------------------------------
(* Steps that book *)

(* How a position row moves: it is opened, and counted as opened; or it is  *)
(* left open or closed as of the same rows.                                 *)
Moves ==
  /\ pos' \in PosT /\ pos'.since =< Len(rows) + 1
  /\ pos'.row = "none" => pos.row = "none"
  /\ pos.row = "none" => pos'.row \in {"none", "open"}
  /\ \/ pos'.row = "open" /\ pos.row # "open" /\ cycle' = cycle + 1
     \/ (pos'.row = "open" => pos.row = "open") /\ pos'.since = pos.since /\ cycle' = cycle

Rebooked(i) ==
  /\ task'[i] \subseteq task[i]
  /\ rows'[i].side = rows[i].side
  /\ rows[i].side = "SELL" => rows'[i].status # "PARTIALLY_FILLED"

LEMMA FramedBooks ==
  ASSUME RecoveryInv, Orderly', Len(rows') = Len(rows), Moves, broker' = broker, placing' = placing, boot' \in {boot, "resuming"},
         UNCHANGED <<set, held, shown, sales, stray>>, skewed' \in BOOLEAN, skewed => skewed', pass' \in {pass, Idle},
         \A i \in 1..Len(rows) : Rebooked(i)
  PROVE  Shapes' /\ Frame' /\ Sells' = Sells /\ (Calm' => Calm /\ Around)
<1>1. Orderly /\ Frame /\ sales \in Seq(Nat) /\ cycle \in Nat /\ pos \in PosT
      BY DEF RecoveryInv, Shapes
<1>2. /\ DOMAIN rows = 1..Len(rows) /\ DOMAIN rows' = 1..Len(rows) /\ DOMAIN task' = 1..Len(rows)
  <2>1. DOMAIN rows = 1..Len(rows)
        BY <1>1, Reads
  <2>2. DOMAIN rows' = 1..Len(rows) /\ DOMAIN task' = 1..Len(rows)
        BY LenProperties DEF Orderly
  <2>3. QED BY <2>1, <2>2
<1>3. Sells' = Sells /\ Sells \subseteq 1..Len(rows)
      BY <1>2 DEF Sells, Rebooked
<1>4. cycle' \in Nat /\ cycle =< cycle' /\ (pos'.row # "none" => cycle' >= 1)
  <2>1. pos.row # "none" => cycle >= 1
        BY <1>1 DEF Frame
  <2>2. cycle' = cycle \/ cycle' = cycle + 1
        BY DEF Moves
  <2>3. cycle' = cycle + 1 \/ (pos'.row # "none" => pos.row # "none")
        BY DEF Moves
  <2>4. QED BY <1>1, <2>1, <2>2, <2>3
<1>5. Shapes'
  <2>1. pass' \in PassT
        BY DEF RecoveryInv, Shapes, Idle, PassT
  <2>2. pos' \in PosT /\ pos'.since =< Len(rows') + 1
        BY DEF Moves
  <2>3. QED BY <1>4, <2>1, <2>2 DEF RecoveryInv, Shapes
<1>6. Frame'
  <2>1. placing' # 0 => broker'[placing'].at = "none"
        BY <1>1 DEF Frame
  <2>2. boot' = "reconciling" => placing' = 0 /\ \A i \in DOMAIN rows' : task'[i] = {}
        BY <1>1, <1>2 DEF Frame, Rebooked
  <2>3. pass'.at # "idle" => \A i \in pass'.ended : i \in DOMAIN rows' /\ broker'[i].at = "dead"
        BY <1>1, <1>2 DEF Frame, Idle
  <2>4. pos'.row = "none" => Sells' = {} /\ pass'.at # "looking"
        BY <1>1, <1>3 DEF Frame, Moves, Idle
  <2>5. \A i \in Sells' : rows'[i].status # "PARTIALLY_FILLED"
        BY <1>3 DEF Sells, Rebooked
  <2>6. QED BY <1>4, <2>1, <2>2, <2>3, <2>4, <2>5 DEF Frame
<1>7. ASSUME Calm' PROVE Calm /\ Around
  <2>1. cycle' =< 1 /\ ~stray' /\ cycle =< 1 /\ ~skewed
        BY <1>1, <1>4, <1>7 DEF Calm
  <2>2. Sells # {} => pos'.since = pos.since /\ (pos'.row = "open" => pos.row = "open")
    <3>1. SUFFICES ASSUME Sells # {} PROVE cycle' # cycle + 1
          BY DEF Moves
    <3>2. cycle >= 1
          BY <1>1, <3>1 DEF Frame
    <3>3. QED BY <1>1, <2>1, <3>2
  <2>3. Total(sales) \in Nat
        BY <1>1, TotalNat
  <2>4. QED BY <1>1, <2>1, <2>2, <2>3 DEF Calm, Around, Idle
<1>8. QED BY <1>3, <1>5, <1>6, <1>7

LEMMA WeaklyBooked ==
  ASSUME RecoveryInv, Orderly', Len(rows') = Len(rows), Moves, broker' = broker, placing' = placing, boot' \in {boot, "resuming"},
         UNCHANGED <<set, held, shown, sales, stray>>, skewed' \in BOOLEAN, skewed => skewed', pass' \in {pass, Idle},
         \A i \in 1..Len(rows) : Rebooked(i), Calm' => \A i \in 1..Len(rows) : Weaker(i)
  PROVE  RecoveryInv'
<1>1. Shapes' /\ Frame' /\ (Calm' => Calm /\ Around)
      BY FramedBooks
<1>2. Orderly /\ sales \in Seq(Nat)
      BY DEF RecoveryInv, Shapes
<1>3. ASSUME Calm' PROVE Books'
  <2>1. Books /\ Around
        BY <1>1, <1>3 DEF RecoveryInv
  <2>2. \A i \in 1..Len(rows) : Weaker(i)
        BY <1>3
  <2>3. QED BY <1>2, <2>1, <2>2, BooksWeaker
<1>4. QED BY <1>1, <1>3 DEF RecoveryInv

LEMMA PositionIs ==
  ASSUME pos \in PosT, pos.since =< Len(rows) + 1, rows \in Seq(RowT), sales \in Seq(Nat), NEW n \in Nat
  PROVE  /\ Closed \in PosT /\ Closed.row = "closed" /\ Closed.since = pos.since
         /\ Sold(n) \in PosT /\ Sold(n).since = pos.since /\ Sold(n).row \in {pos.row, "closed"}
         /\ Opened(n) \in PosT /\ Opened(n).row = "open" /\ Opened(n).since = Len(rows) + 1
         /\ [pos EXCEPT !.left = @ + n] \in PosT /\ [pos EXCEPT !.left = @ + n].row = pos.row
         /\ [pos EXCEPT !.left = @ + n].since = pos.since
         /\ [pos EXCEPT !.left = n] \in PosT /\ [pos EXCEPT !.left = n].row = pos.row
         /\ [pos EXCEPT !.left = n].since = pos.since
<1>1. Len(sales) \in Nat /\ Len(rows) \in Nat
      BY LenProperties
<1>2. Closed \in PosT /\ Closed.row = "closed" /\ Closed.since = pos.since
      BY <1>1 DEF Closed, PosT
<1>3. Sold(n) \in PosT /\ Sold(n).since = pos.since /\ Sold(n).row \in {pos.row, "closed"}
  <2>1. CASE pos.left =< n
        BY <1>2, <2>1 DEF Sold
  <2>2. CASE ~(pos.left =< n)
    <3>1. pos.left - n \in Nat
          BY <2>2 DEF PosT
    <3>2. Sold(n) = [pos EXCEPT !.left = pos.left - n]
          BY <2>2 DEF Sold
    <3>3. QED BY <3>1, <3>2 DEF PosT
  <2>3. QED BY <2>1, <2>2
<1>4. Opened(n) \in PosT /\ Opened(n).row = "open" /\ Opened(n).since = Len(rows) + 1
      BY <1>1 DEF Opened, PosT
<1>5. /\ [pos EXCEPT !.left = @ + n] \in PosT /\ [pos EXCEPT !.left = @ + n].row = pos.row
      /\ [pos EXCEPT !.left = @ + n].since = pos.since
  <2>1. pos.left + n \in Nat
        BY DEF PosT
  <2>2. QED BY <2>1 DEF PosT
<1>6. /\ [pos EXCEPT !.left = n] \in PosT /\ [pos EXCEPT !.left = n].row = pos.row
      /\ [pos EXCEPT !.left = n].since = pos.since
      BY DEF PosT
<1>7. QED BY <1>2, <1>3, <1>4, <1>5, <1>6

(* What was filled and not recorded is a number of contracts. *)
LEMMA NewlyIs ==
  ASSUME NEW p, rows[p] \in RowT, broker[p] \in OrderT
  PROVE  Newly(p) \in Nat
<1>1. rows[p].filled \in Nat /\ broker[p].filled \in Nat
      BY DEF RowT, OrderT
<1>2. CASE broker[p].filled > rows[p].filled
      BY <1>1, <1>2 DEF Newly
<1>3. CASE ~(broker[p].filled > rows[p].filled)
      BY <1>1, <1>3 DEF Newly
<1>4. QED BY <1>2, <1>3

LEMMA BooksPartKeeps ==
  ASSUME RecoveryInv, NEW p \in DOMAIN rows, NEW who, BooksPart(p, who)
  PROVE  RecoveryInv'
<1>1. /\ p \in 1..Len(rows) /\ rows[p] \in RowT /\ broker[p] \in OrderT /\ sales \in Seq(Nat) /\ pos \in PosT
      /\ Orderly /\ Frame
      BY Known
<1>2. pos.since =< Len(rows) + 1 /\ rows \in Seq(RowT) /\ Len(rows) \in Nat /\ DOMAIN rows = 1..Len(rows)
      BY <1>1, Reads DEF RecoveryInv, Shapes, Orderly
<1>3. rows[p].side = "BUY" /\ broker[p].filled \in Nat
      BY <1>1 DEF BooksPart, OrderT
<1>4. PICK r \in RowT : /\ r.side = rows[p].side
                        /\ r = [[rows[p] EXCEPT !.status = "PARTIALLY_FILLED"] EXCEPT !.filled = broker[p].filled]
      BY <1>1, <1>3 DEF RowT, Statuses
<1>5. rows' = [rows EXCEPT ![p] = r]
      BY <1>1, <1>2, <1>4 DEF BooksPart
<1>6. rows' \in Seq(RowT) /\ Len(rows') = Len(rows) /\ \A i \in 1..Len(rows) : rows'[i] = IF i = p THEN r ELSE rows[i]
      BY <1>1, <1>2, <1>5, Touched
<1>7. /\ task' = task /\ broker' = broker /\ placing' = placing /\ boot' = boot /\ pass' = pass
      /\ UNCHANGED <<set, held, shown, sales, stray>> /\ skewed' \in BOOLEAN /\ (skewed => skewed')
      BY DEF BooksPart, account, memory, RecoveryInv, Shapes
<1>8. Orderly'
      BY <1>1, <1>6, <1>7 DEF Orderly
<1>9. Newly(p) \in Nat
      BY <1>1, NewlyIs
<1>10. Moves
  <2>1. CASE Open
    <3>1. pos' = [pos EXCEPT !.left = @ + Newly(p)] /\ cycle' = cycle
          BY <2>1 DEF BooksPart
    <3>2. pos' \in PosT /\ pos'.row = pos.row /\ pos'.since = pos.since
          BY <1>1, <1>2, <1>9, <3>1, PositionIs
    <3>3. QED BY <1>2, <2>1, <3>1, <3>2 DEF Moves, Open
  <2>2. CASE ~Open
    <3>1. pos' = Opened(Newly(p)) /\ cycle' = cycle + 1
          BY <2>2 DEF BooksPart
    <3>2. pos' \in PosT /\ pos'.row = "open" /\ pos'.since = Len(rows) + 1
          BY <1>1, <1>2, <1>9, <3>1, PositionIs
    <3>3. QED BY <1>2, <2>2, <3>1, <3>2 DEF Moves, Open
  <2>3. QED BY <2>1, <2>2
<1>11. ASSUME NEW i \in 1..Len(rows) PROVE Rebooked(i) /\ Weaker(i)
  <2>1. rows'[i].side = rows[i].side /\ (rows[i].side = "SELL" => i # p /\ rows'[i] = rows[i])
        BY <1>3, <1>4, <1>6
  <2>2. rows[i].side = "SELL" => i \in Sells /\ rows[i].status # "PARTIALLY_FILLED"
        BY <1>1, <1>2 DEF Sells, Frame
  <2>3. rows[i].side = "SELL" /\ Bookable(i)' => Bookable(i)
        BY <1>7, <2>1, <2>2 DEF Bookable
  <2>4. QED BY <1>7, <2>1, <2>2, <2>3 DEF Rebooked, Weaker
<1>12. QED BY <1>6, <1>7, <1>8, <1>10, <1>11, WeaklyBooked

LEMMA BooksFillKeeps ==
  ASSUME RecoveryInv, NEW p \in DOMAIN rows, NEW who \in task[p], BooksFill(p, who)
  PROVE  RecoveryInv'
<1>1. /\ p \in 1..Len(rows) /\ rows[p] \in RowT /\ broker[p] \in OrderT /\ task[p] \in TaskT
      /\ sales \in Seq(Nat) /\ pos \in PosT /\ Orderly /\ Frame
      BY Known
<1>2. /\ pos.since =< Len(rows) + 1 /\ rows \in Seq(RowT) /\ Len(rows) \in Nat /\ DOMAIN rows = 1..Len(rows)
      /\ task \in Seq(TaskT) /\ Len(task) = Len(rows)
      BY <1>1, Reads DEF RecoveryInv, Shapes, Orderly
<1>3. broker[p].filled \in Nat /\ broker[p].at = "filled" /\ task[p] # {}
      BY <1>1 DEF BooksFill, OrderT
<1>4. PICK r \in RowT : /\ r.side = rows[p].side /\ r.status = "FILLED" /\ r.filled = broker[p].filled /\ r.qty = rows[p].qty
                        /\ r = [[rows[p] EXCEPT !.status = "FILLED"] EXCEPT !.filled = broker[p].filled]
      BY <1>1, <1>3 DEF RowT, Statuses
<1>5. rows' = [rows EXCEPT ![p] = r]
      BY <1>1, <1>2, <1>4 DEF BooksFill
<1>6. rows' \in Seq(RowT) /\ Len(rows') = Len(rows) /\ \A i \in 1..Len(rows) : rows'[i] = IF i = p THEN r ELSE rows[i]
      BY <1>1, <1>2, <1>5, Touched
<1>7. PICK t \in TaskT : t = task[p] \ {who}
      BY <1>1 DEF TaskT
<1>8. task' = [task EXCEPT ![p] = t]
      BY <1>7 DEF BooksFill, Returns
<1>9. task' \in Seq(TaskT) /\ Len(task') = Len(rows) /\ \A i \in 1..Len(rows) : task'[i] = IF i = p THEN t ELSE task[i]
      BY <1>1, <1>2, <1>8, Touched
<1>10. /\ broker' = broker /\ placing' = placing /\ boot' = boot /\ pass' = pass
       /\ UNCHANGED <<set, held, shown, sales, stray>> /\ skewed' \in BOOLEAN /\ (skewed => skewed')
       BY DEF BooksFill, account, memory, RecoveryInv, Shapes
<1>11. Orderly'
       BY <1>1, <1>6, <1>9, <1>10 DEF Orderly
<1>12. Newly(p) \in Nat
       BY <1>1, NewlyIs
<1>13. Moves
  <2>1. cycle' = IF pos'.row = "open" /\ ~Open THEN cycle + 1 ELSE cycle
        BY DEF BooksFill
  <2>2. CASE who = "blind"
    <3>1. pos' = pos
          BY <2>2 DEF BooksFill
    <3>2. pos.row \in {"none", "open", "closed"}
          BY <1>1 DEF PosT
    <3>3. pos.row = "none" => pos'.row \in {"none", "open"}
          BY <3>1
    <3>4. QED BY <1>1, <1>2, <2>1, <3>1, <3>3 DEF Moves, Open
  <2>3. CASE who # "blind" /\ rows[p].side = "SELL"
    <3>1. pos' = Sold(Newly(p))
          BY <2>3 DEF BooksFill
    <3>2. pos' \in PosT /\ pos'.since = pos.since /\ pos'.row \in {pos.row, "closed"}
          BY <1>1, <1>2, <1>12, <3>1, PositionIs
    <3>3. p \in Sells
          BY <2>3 DEF Sells
    <3>4. pos.row # "none"
          BY <1>1, <3>3 DEF Frame
    <3>5. cycle' = cycle
          BY <2>1, <3>2 DEF Open
    <3>6. QED BY <1>2, <3>2, <3>4, <3>5 DEF Moves
  <2>4. CASE who # "blind" /\ rows[p].side # "SELL" /\ Open
    <3>1. pos' = [pos EXCEPT !.left = @ + Newly(p)]
          BY <2>4 DEF BooksFill
    <3>2. pos' \in PosT /\ pos'.row = pos.row /\ pos'.since = pos.since
          BY <1>1, <1>2, <1>12, <3>1, PositionIs
    <3>3. QED BY <1>2, <2>1, <2>4, <3>2 DEF Moves, Open
  <2>5. CASE who # "blind" /\ rows[p].side # "SELL" /\ ~Open
    <3>1. pos' = Opened(broker[p].filled)
          BY <2>5 DEF BooksFill
    <3>2. pos' \in PosT /\ pos'.row = "open" /\ pos'.since = Len(rows) + 1
          BY <1>1, <1>2, <1>3, <3>1, PositionIs
    <3>3. QED BY <1>2, <2>1, <2>5, <3>2 DEF Moves, Open
  <2>6. QED BY <2>2, <2>3, <2>4, <2>5
<1>14. ASSUME NEW i \in 1..Len(rows) PROVE Rebooked(i)
  <2>1. rows'[i].side = rows[i].side /\ task'[i] \subseteq task[i]
        BY <1>4, <1>6, <1>7, <1>9
  <2>2. rows[i].side = "SELL" => i \in Sells /\ rows[i].status # "PARTIALLY_FILLED"
        BY <1>1, <1>2 DEF Sells, Frame
  <2>3. QED BY <1>4, <1>6, <2>1, <2>2 DEF Rebooked
<1>15. Shapes' /\ Frame' /\ Sells' = Sells /\ (Calm' => Calm /\ Around)
       BY <1>6, <1>10, <1>11, <1>13, <1>14, FramedBooks
<1>16. ASSUME Calm' PROVE Books'
  <2>1. Books /\ Around
        BY <1>15, <1>16 DEF RecoveryInv
  <2>2. ASSUME NEW i \in 1..Len(rows), i # p \/ r = rows[p] PROVE Weaker(i)
    <3>1. rows'[i] = rows[i] /\ task'[i] \subseteq task[i]
          BY <1>6, <1>14, <2>2 DEF Rebooked
    <3>2. Bookable(i)' => Bookable(i)
          BY <1>10, <1>15, <3>1 DEF Bookable
    <3>3. QED BY <1>10, <3>1, <3>2 DEF Weaker
  <2>3. CASE rows[p].side # "SELL"
    <3>1. ASSUME NEW i \in 1..Len(rows) PROVE Weaker(i)
      <4>1. CASE i # p
            BY <2>2, <4>1
      <4>2. CASE i = p
            BY <1>4, <1>6, <2>3, <4>2 DEF Weaker
      <4>3. QED BY <4>1, <4>2
    <3>2. QED BY <1>1, <1>6, <1>11, <2>1, <3>1, BooksWeaker
  <2>4. CASE rows[p].side = "SELL"
    <3>1. p \in Sells /\ Bookable(p)
          BY <1>3, <2>4 DEF Sells, Bookable
    <3>2. CASE Settled(p)
      <4>1. r = rows[p]
            BY <1>1, <1>4, <3>2 DEF Settled, RowT
      <4>2. \A i \in 1..Len(rows) : Weaker(i)
            BY <2>2, <4>1
      <4>3. QED BY <1>1, <1>6, <1>11, <2>1, <4>2, BooksWeaker
    <3>3. CASE ~Settled(p)
      <4>1. Due(p) /\ Covered(p)
            BY <2>1, <3>1, <3>3 DEF Due, Books
      <4>2. ASSUME NEW i \in 1..Len(rows) PROVE RowKept(i) /\ (i # p => NoMore(i) /\ ~Due(i)')
        <5>1. CASE i # p
          <6>1. RowKept(i) /\ NoMore(i) /\ DueKept(i)
                BY <1>1, <1>11, <2>1, <2>2, <5>1, RowWeaker
          <6>2. ~Due(i)'
            <7>1. SUFFICES ASSUME Due(i)' PROVE FALSE
                  OBVIOUS
            <7>2. Due(i)
                  BY <6>1, <7>1 DEF DueKept
            <7>3. i \in Sells
                  BY <7>2 DEF Due, Bookable
            <7>4. QED BY <2>1, <3>1, <4>1, <5>1, <7>2, <7>3 DEF Books
          <6>3. QED BY <6>1, <6>2
        <5>2. CASE i = p
          <6>1. pos'.since =< p
                BY <2>1, <3>1 DEF Books, Around
          <6>2. QED BY <1>4, <1>6, <5>2, <6>1 DEF RowKept
        <5>3. QED BY <5>1, <5>2
      <4>3. Recorded(rows) + Qty(rows'[p]) =< Total(sales') + Qty(rows[p])
        <5>1. Qty(rows'[p]) = broker[p].filled
              BY <1>1, <1>4, <1>6, <2>4 DEF Qty
        <5>2. QED BY <1>10, <4>1, <5>1 DEF Covered
      <4>4. DueKept(p)
        <5>1. Settled(p)'
              BY <1>1, <1>3, <1>4, <1>6, <1>10 DEF Settled
        <5>2. QED BY <5>1 DEF DueKept, Due
      <4>5. sales' \in Seq(Nat)
            BY <1>1, <1>10
      <4>6. QED BY <1>1, <1>6, <1>11, <2>1, <4>2, <4>3, <4>4, <4>5, BooksRecords
    <3>4. QED BY <3>2, <3>3
  <2>5. QED BY <2>3, <2>4
<1>17. QED BY <1>15, <1>16 DEF RecoveryInv

(* A pass strikes the rows of orders that are dead. *)
LEMMA StruckIs ==
  ASSUME Orderly, Frame, pass.at # "idle"
  PROVE  /\ Struck \in Seq(RowT) /\ Len(Struck) = Len(rows)
         /\ \A i \in 1..Len(rows) :
              /\ Struck[i].side = rows[i].side
              /\ \/ Struck[i] = rows[i]
                 \/ Struck[i].status = "CANCELLED" /\ broker[i].at = "dead"
<1>1. /\ Len(rows) \in Nat /\ DOMAIN rows = 1..Len(rows) /\ \A i \in 1..Len(rows) : rows[i] \in RowT
      BY Reads
<1>2. PICK s : s = Struck
      OBVIOUS
<1>3. DOMAIN s = 1..Len(rows)
      BY <1>1, <1>2 DEF Struck
<1>4. ASSUME NEW i \in 1..Len(rows)
      PROVE  /\ s[i] \in RowT /\ s[i].side = rows[i].side
             /\ s[i] = rows[i] \/ (s[i].status = "CANCELLED" /\ broker[i].at = "dead")
  <2>1. CASE i \in pass.ended /\ rows[i].status \in Working
    <3>1. s[i] = [rows[i] EXCEPT !.status = "CANCELLED"]
          BY <1>1, <1>2, <2>1 DEF Struck
    <3>2. s[i] \in RowT /\ s[i].side = rows[i].side /\ s[i].status = "CANCELLED"
          BY <1>1, <3>1 DEF RowT, Statuses
    <3>3. broker[i].at = "dead"
          BY <2>1 DEF Frame
    <3>4. QED BY <3>2, <3>3
  <2>2. CASE ~(i \in pass.ended /\ rows[i].status \in Working)
    <3>1. s[i] = rows[i]
          BY <1>1, <1>2, <2>2 DEF Struck
    <3>2. QED BY <1>1, <3>1
  <2>3. QED BY <2>1, <2>2
<1>5. s \in Seq(RowT) /\ Len(s) = Len(rows)
  <2>1. s = [i \in 1..Len(rows) |-> s[i]]
        BY <1>1, <1>2 DEF Struck
  <2>2. s \in [1..Len(rows) -> RowT]
        BY <1>4, <2>1
  <2>3. QED BY <1>1, <2>2, SeqDef, LenProperties
<1>6. QED BY <1>2, <1>4, <1>5

LEMMA StruckKeeps ==
  ASSUME RecoveryInv, pass.at # "idle", rows' = Struck, UNCHANGED <<set, broker, task, placing, account, boot, stray, skewed>>,
         pass' = Idle, Moves
  PROVE  RecoveryInv'
<1>1. Orderly /\ Frame
      BY DEF RecoveryInv, Shapes
<1>2. /\ DOMAIN rows = 1..Len(rows) /\ \A i \in 1..Len(rows) : rows[i] \in RowT
      BY <1>1, Reads
<1>3. /\ rows' \in Seq(RowT) /\ Len(rows') = Len(rows)
      /\ \A i \in 1..Len(rows) :
           /\ rows'[i].side = rows[i].side
           /\ \/ rows'[i] = rows[i]
              \/ rows'[i].status = "CANCELLED" /\ broker[i].at = "dead"
      BY <1>1, StruckIs
<1>4. /\ broker' = broker /\ task' = task /\ placing' = placing /\ boot' = boot
      /\ UNCHANGED <<set, held, shown, sales, stray>> /\ skewed' \in BOOLEAN /\ (skewed => skewed')
      /\ pass' \in {pass, Idle}
      BY DEF account, RecoveryInv, Shapes
<1>5. Orderly'
      BY <1>1, <1>3, <1>4 DEF Orderly
<1>6. Sells' = Sells
  <2>1. DOMAIN rows' = 1..Len(rows)
        BY <1>3, LenProperties
  <2>2. QED BY <1>2, <1>3, <2>1 DEF Sells
<1>7. ASSUME NEW i \in 1..Len(rows) PROVE Rebooked(i) /\ Weaker(i)
  <2>1. rows[i].side = "SELL" => rows[i].status # "PARTIALLY_FILLED"
        BY <1>1, <1>2 DEF Sells, Frame
  <2>2. Rebooked(i)
        BY <1>3, <1>4, <2>1 DEF Rebooked
  <2>3. CASE rows'[i] = rows[i]
    <3>1. Bookable(i)' => Bookable(i)
          BY <1>4, <1>6, <2>3 DEF Bookable
    <3>2. QED BY <1>4, <2>2, <2>3, <3>1 DEF Weaker
  <2>4. CASE rows'[i].status = "CANCELLED" /\ broker[i].at = "dead"
    <3>1. ~Bookable(i)'
          BY <1>4, <2>4 DEF Bookable
    <3>2. QED BY <1>3, <1>4, <2>2, <2>4, <3>1 DEF Weaker
  <2>5. QED BY <1>3, <2>3, <2>4
<1>8. QED BY <1>3, <1>4, <1>5, <1>7, WeaklyBooked

LEMMA ReopenedIs ==
  ASSUME pos \in PosT, pos.since =< Len(rows) + 1, rows \in Seq(RowT), sales \in Seq(Nat), pass.qty \in Nat
  PROVE  /\ Reopened \in PosT /\ Reopened.row = "open" /\ Reopened.since =< Len(rows) + 1
         /\ Reopened.sales = 0
<1>1. PICK q : q = Opened(pass.qty)
      OBVIOUS
<1>2. q \in PosT /\ q.row = "open" /\ q.since = Len(rows) + 1
      BY <1>1, PositionIs
<1>3. q.sales = 0
      BY <1>1 DEF Opened
<1>4. Len(rows) \in Nat
      BY LenProperties
<1>5. CASE pos.row = "none"
      BY <1>1, <1>2, <1>3, <1>4, <1>5 DEF Reopened
<1>6. CASE pos.row # "none"
  <2>1. Reopened = [[q EXCEPT !.since = pos.since] EXCEPT !.began = pos.began]
        BY <1>1, <1>2, <1>6 DEF Reopened, PosT
  <2>2. PICK p : p = [q EXCEPT !.since = pos.since]
        OBVIOUS
  <2>3. p \in PosT /\ p.row = "open" /\ p.since = pos.since /\ p.sales = 0
        BY <1>2, <1>3, <2>2 DEF PosT
  <2>4. PICK began \in Nat : began = pos.began
        BY DEF PosT
  <2>5. Reopened = [p EXCEPT !.began = began]
        BY <2>1, <2>2, <2>4
  <2>6. QED BY <2>3, <2>4, <2>5 DEF PosT
<1>7. QED BY <1>5, <1>6

LEMMA AppliesKeeps ==
  ASSUME RecoveryInv, Applies
  PROVE  RecoveryInv'
<1>1. Orderly /\ Frame /\ pos \in PosT /\ pos.since =< Len(rows) + 1 /\ sales \in Seq(Nat) /\ pass \in PassT
      BY DEF RecoveryInv, Shapes
<1>2. rows \in Seq(RowT) /\ Len(rows) \in Nat
      BY <1>1, LenProperties DEF Orderly
<1>3. /\ pass.at # "idle" /\ rows' = Struck /\ pass' = Idle
      /\ UNCHANGED <<set, broker, task, placing, account, boot, stray, skewed>>
      BY DEF Applies
<1>4. pass.qty \in Nat
      BY <1>1, <1>3 DEF PassT
<1>5. /\ pos' = IF Reopens THEN Reopened
                ELSE IF Gone THEN Closed
                ELSE IF Drifts THEN [pos EXCEPT !.left = pass.qty] ELSE pos
      /\ cycle' = IF Reopens THEN cycle + 1 ELSE cycle
      BY DEF Applies
<1>6. Moves
  <2>1. CASE Reopens
    <3>1. Reopened \in PosT /\ Reopened.row = "open" /\ Reopened.since =< Len(rows) + 1
          BY <1>1, <1>2, <1>4, ReopenedIs
    <3>2. pos' \in PosT /\ pos'.row = "open" /\ pos'.since =< Len(rows) + 1
          BY <1>5, <2>1, <3>1
    <3>3. QED BY <1>5, <2>1, <3>2 DEF Moves, Reopens, Open
  <2>2. CASE ~Reopens /\ Gone
    <3>1. pos' = Closed /\ pos.row = "open" /\ cycle' = cycle
          BY <1>5, <2>2 DEF Gone, Missing, Open
    <3>2. pos' \in PosT /\ pos'.row = "closed" /\ pos'.since = pos.since
          BY <1>1, <1>2, <1>4, <3>1, PositionIs
    <3>3. QED BY <1>1, <3>1, <3>2 DEF Moves
  <2>3. CASE ~Reopens /\ ~Gone
    <3>1. /\ [pos EXCEPT !.left = pass.qty] \in PosT /\ [pos EXCEPT !.left = pass.qty].row = pos.row
          /\ [pos EXCEPT !.left = pass.qty].since = pos.since
          BY <1>1, <1>2, <1>4, PositionIs
    <3>2. pos' \in PosT /\ pos'.row = pos.row /\ pos'.since = pos.since /\ cycle' = cycle
          BY <1>1, <1>5, <2>3, <3>1
    <3>3. pos.row = "none" => pos'.row \in {"none", "open"}
          BY <3>2
    <3>4. QED BY <1>1, <3>2, <3>3 DEF Moves
  <2>4. QED BY <2>1, <2>2, <2>3
<1>7. QED BY <1>3, <1>6, StruckKeeps

(* A position that is gone is closed though no sale of it was found.        *)
LEMMA ClosesBareKeeps ==
  ASSUME RecoveryInv, Closes(FALSE)
  PROVE  RecoveryInv'
<1>1. Orderly /\ Frame /\ pos \in PosT /\ pos.since =< Len(rows) + 1 /\ sales \in Seq(Nat)
      BY DEF RecoveryInv, Shapes
<1>2. rows \in Seq(RowT) /\ Len(rows) \in Nat /\ 0 \in Nat
      BY <1>1, LenProperties DEF Orderly
<1>3. pass.at = "looking" /\ rows' = Struck /\ pass' = Idle /\ pos' = Closed
      BY DEF Closes
<1>4. skewed' = skewed
      BY DEF Closes, RecoveryInv, Shapes
<1>5. UNCHANGED <<set, broker, task, placing, account, boot, stray, skewed>> /\ cycle' = cycle
      BY <1>4 DEF Closes
<1>6. Moves
  <2>1. pos' \in PosT /\ pos'.row = "closed" /\ pos'.since = pos.since
        BY <1>1, <1>2, <1>3, PositionIs
  <2>2. pos.row # "none"
        BY <1>1, <1>3 DEF Frame
  <2>3. QED BY <1>1, <1>5, <2>1, <2>2 DEF Moves
<1>7. pass.at # "idle"
      BY <1>3
<1>8. QED BY <1>3, <1>5, <1>6, <1>7, StruckKeeps

-----------------------------------------------------------------------------
(* Steps that adopt a sale *)

LEMMA EarliestIs ==
  ASSUME NEW S, S \subseteq Nat, S # {}
  PROVE  Earliest(S) \in S /\ \A j \in S : Earliest(S) =< j
<1>1. PICK k \in S : \A j \in S : k =< j
      BY LeastThere
<1>2. QED BY <1>1 DEF Earliest

LEMMA LocalNat ==
  ASSUME Orderly
  PROVE  LocalSold \in Nat
<1>1. DOMAIN rows = 1..Len(rows) /\ Len(rows) \in Nat /\ \A i \in 1..Len(rows) : rows[i] \in RowT
      BY Reads
<1>2. PICK f : f = [i \in DOMAIN rows |-> IF i >= pos.since /\ ~rows[i].early THEN SoldQty(i) ELSE 0]
      OBVIOUS
<1>3. \A i \in 1..Len(rows) : SoldQty(i) \in Nat
      BY <1>1 DEF SoldQty, RowT
<1>4. f \in [1..Len(rows) -> Nat]
      BY <1>1, <1>2, <1>3
<1>5. f \in Seq(Nat)
      BY <1>1, <1>4, SeqDef
<1>6. Total(f) \in Nat
      BY <1>5, TotalNat
<1>7. QED BY <1>2, <1>6 DEF LocalSold

(* Until a sale was adopted that the next search may take again, no row is  *)
(* placed before the position was opened.                                   *)
Timely == ~skewed => \A i \in DOMAIN rows : ~rows[i].early

(* Of a position whose exits are all its own the rows record what the whole *)
(* table does.                                                              *)
LEMMA LocalIs ==
  ASSUME Orderly, Books, Timely, ~skewed, pos \in PosT
  PROVE  LocalSold = Recorded(rows)
<1>1. DOMAIN rows = 1..Len(rows) /\ rows \in Seq(RowT) /\ Len(rows) \in Nat
      BY Reads DEF Orderly
<1>2. \A i \in DOMAIN rows : (IF i >= pos.since /\ ~rows[i].early THEN SoldQty(i) ELSE 0) = Qty(rows[i])
  <2>1. SUFFICES ASSUME NEW i \in DOMAIN rows
                 PROVE  (IF i >= pos.since /\ ~rows[i].early THEN SoldQty(i) ELSE 0) = Qty(rows[i])
        OBVIOUS
  <2>2. CASE rows[i].side = "SELL"
    <3>1. i \in Sells
          BY <2>2 DEF Sells
    <3>2. pos.since =< i /\ pos.since \in Nat /\ i \in Nat /\ ~rows[i].early
          BY <1>1, <3>1 DEF Books, PosT, Timely
    <3>3. QED BY <3>2 DEF SoldQty, Qty
  <2>3. CASE rows[i].side # "SELL"
        BY <2>3 DEF SoldQty, Qty
  <2>4. QED BY <2>2, <2>3
<1>3. PICK f : f = [i \in DOMAIN rows |-> IF i >= pos.since /\ ~rows[i].early THEN SoldQty(i) ELSE 0]
      OBVIOUS
<1>4. f = [i \in DOMAIN rows |-> Qty(rows[i])]
  <2>1. f = [i \in DOMAIN rows |-> f[i]]
        BY <1>3
  <2>2. \A i \in DOMAIN rows : f[i] = IF i >= pos.since /\ ~rows[i].early THEN SoldQty(i) ELSE 0
        BY <1>3
  <2>3. \A i \in DOMAIN rows : f[i] = Qty(rows[i])
        BY <1>2, <2>2
  <2>4. QED BY <2>1, <2>3
<1>5. QED BY <1>3, <1>4 DEF LocalSold, Recorded

(* The sale a lookup takes; where the rows' sum ends at one, there is room  *)
(* for the next.                                                            *)
LEMMA FoundIs ==
  ASSUME Orderly, sales \in Seq(Nat), Unmatched # {}
  PROVE  /\ Found \in 1..Len(sales) /\ sales[Found] \in Nat
         /\ First(Found - 1) = LocalSold => LocalSold + sales[Found] =< Total(sales)
<1>1. Len(sales) \in Nat /\ DOMAIN sales = 1..Len(sales) /\ \A k \in 1..Len(sales) : sales[k] \in Nat
      BY LenProperties
<1>2. PICK g : Sums(sales, g) /\ Total(sales) = g[Len(sales)]
      BY TotalIs
<1>3. Unmatched \subseteq 1..Len(sales)
      BY <1>1 DEF Unmatched
<1>4. PICK k \in 1..Len(sales) : k = Found
  <2>1. Unmatched \subseteq Nat
        BY <1>1, <1>3
  <2>2. Found \in Unmatched
        BY <2>1, EarliestIs DEF Found
  <2>3. QED BY <1>3, <2>2
<1>5. k - 1 \in 0..Len(sales) /\ k \in 0..Len(sales)
      BY <1>1
<1>6. First(k - 1) = g[k - 1] /\ g[k - 1] \in Nat
      BY <1>2, <1>5, FirstIs DEF First
<1>7. g[k] = g[k - 1] + sales[k]
      BY <1>2 DEF Sums
<1>8. g[k] =< Total(sales)
      BY <1>2, <1>5, SumsGrow
<1>9. ASSUME First(k - 1) = LocalSold PROVE LocalSold + sales[k] =< Total(sales)
      BY <1>6, <1>7, <1>8, <1>9
<1>10. QED BY <1>1, <1>4, <1>9

(* What the backfill takes is what the rows lack, and the last part of it   *)
(* is no more.                                                              *)
LEMMA TakesAre ==
  ASSUME Orderly, sales \in Seq(Nat), pos \in PosT, Lacking > 0
  PROVE  /\ Lacking \in Nat /\ LocalSold + Lacking = Total(sales)
         /\ Taken \in 1..Len(sales) /\ Takes \in Seq(RowT) /\ Len(Takes) = Taken
         /\ \A k \in 1..Taken : Takes[k].side = "SELL" /\ Takes[k].status = "FILLED" /\ Takes[k].filled \in Nat
         /\ Takes[Taken].filled =< Lacking
         /\ Recorded(Takes) = Lacking
         /\ \A k \in 1..Taken : Takes[k].early <=> k =< pos.began
<1>1. Len(sales) \in Nat /\ DOMAIN sales = 1..Len(sales) /\ \A k \in 1..Len(sales) : sales[k] \in Nat
      BY LenProperties
<1>2. PICK g : Sums(sales, g) /\ Total(sales) = g[Len(sales)]
      BY TotalIs
<1>3. PICK N \in Nat : N = Lacking /\ LocalSold + N = Total(sales) /\ N =< Total(sales)
  <2>1. Total(sales) > LocalSold /\ Lacking = Total(sales) - LocalSold
        BY DEF Lacking
  <2>2. Total(sales) \in Nat /\ LocalSold \in Nat
        BY LocalNat, TotalNat
  <2>3. Total(sales) - LocalSold \in Nat
        BY <2>1, <2>2
  <2>4. QED BY <2>1, <2>2, <2>3
<1>4. \A k \in 0..Len(sales) : First(k) = g[k] /\ g[k] \in Nat
      BY <1>2, FirstIs DEF First
<1> DEFINE Enough == {k \in DOMAIN sales : First(k) >= Lacking}
<1>5. Enough \subseteq 1..Len(sales) /\ Enough \subseteq Nat
      BY <1>1
<1>6. Enough # {}
  <2>1. Len(sales) # 0
    <3>1. g[0] = 0
          BY <1>2 DEF Sums
    <3>2. QED BY <1>2, <1>3, <3>1
  <2>2. Len(sales) \in DOMAIN sales /\ Len(sales) \in 0..Len(sales)
        BY <1>1, <2>1
  <2>3. First(Len(sales)) >= Lacking
        BY <1>2, <1>3, <1>4, <2>2
  <2>4. QED BY <2>2, <2>3
<1>7. PICK t \in 1..Len(sales) : t = Taken /\ t \in Enough /\ \A j \in Enough : t =< j
  <2>1. Taken = Earliest(Enough)
        BY DEF Taken
  <2>2. QED BY <1>5, <1>6, <2>1, EarliestIs
<1> HIDE DEF Enough
<1>8. t \in Nat /\ t \in 1..t /\ t - 1 \in Nat /\ t - 1 \in 0..Len(sales) /\ \A j \in 1..t : j \in 1..Len(sales)
      BY <1>1
<1>9. PICK before \in Nat : before = First(t - 1) /\ before = g[t - 1] /\ before =< N
  <2>1. First(t - 1) = g[t - 1] /\ g[t - 1] \in Nat
        BY <1>4, <1>8
  <2>2. g[t - 1] =< N
    <3>1. CASE t - 1 = 0
      <4>1. g[0] = 0
            BY <1>2 DEF Sums
      <4>2. QED BY <3>1, <4>1
    <3>2. CASE t - 1 # 0
      <4>1. t - 1 \in DOMAIN sales /\ t - 1 \notin Enough
            BY <1>1, <1>7, <1>8, <3>2
      <4>2. ~(First(t - 1) >= Lacking)
            BY <4>1 DEF Enough
      <4>3. QED BY <1>3, <2>1, <4>2
    <3>3. QED BY <3>1, <3>2
  <2>3. QED BY <2>1, <2>2
<1>10. PICK rest \in Nat : rest = N - before /\ rest =< N
      BY <1>9
<1> DEFINE size(k) == IF k < t THEN sales[k] ELSE rest
<1>11. \A k \in 1..t : size(k) \in Nat
      BY <1>1, <1>8
<1>12. PICK new : new = Takes /\ new = [k \in 1..t |-> Sale(k, size(k))]
  <2>1. Takes = [k \in 1..t |-> Sale(k, IF k < t THEN sales[k] ELSE N - before)]
        BY <1>3, <1>7, <1>9 DEF Takes
  <2>2. Takes = [k \in 1..t |-> Sale(k, size(k))]
        BY <1>10, <2>1
  <2>3. QED BY <2>2
<1>13. ASSUME NEW k \in 1..t
       PROVE  /\ new[k] \in RowT /\ new[k].side = "SELL" /\ new[k].status = "FILLED" /\ new[k].filled = size(k)
              /\ new[k].early <=> k =< pos.began
  <2>1. new[k] = Sale(k, size(k)) /\ size(k) \in Nat
        BY <1>11, <1>12
  <2>2. PICK m \in Nat : m = size(k)
        BY <2>1
  <2>3. PICK e \in BOOLEAN : e <=> k =< pos.began
        OBVIOUS
  <2>4. new[k] = [side |-> "SELL", qty |-> m, status |-> "FILLED", filled |-> m, early |-> e]
        BY <2>1, <2>2, <2>3 DEF Sale
  <2>5. QED BY <2>2, <2>3, <2>4 DEF RowT, Roles, Statuses
<1>14. new \in Seq(RowT) /\ Len(new) = t
  <2>1. new \in [1..t -> RowT]
        BY <1>12, <1>13
  <2>2. QED BY <1>8, <2>1, SeqDef, LenProperties
<1>15. Recorded(new) = N
  <2>1. PICK q : q = [i \in DOMAIN new |-> Qty(new[i])]
        OBVIOUS
  <2>2. q \in Seq(Nat) /\ Len(q) = t /\ Recorded(new) = Total(q) /\ \A i \in 1..t : q[i] = Qty(new[i])
        BY <1>14, <2>1, Tallies
  <2>3. \A i \in 1..t : q[i] = size(i)
        BY <1>13, <2>2 DEF Qty
  <2>4. PICK h : Sums(q, h) /\ Total(q) = h[Len(q)]
        BY <2>2, TotalIs
  <2>5. PICK M \in Nat : M = t - 1 /\ M =< Len(sales) /\ M =< Len(q) /\ M \in 0..M
        BY <1>1, <1>8, <2>2
  <2>6. ASSUME NEW j \in 1..M PROVE q[j] =< sales[j] /\ sales[j] =< q[j]
    <3>1. j \in 1..t /\ j < t /\ sales[j] \in Nat
          BY <1>1, <1>8, <2>5
    <3>2. QED BY <2>3, <3>1
  <2>7. \A n \in 0..M : h[n] =< g[n]
        BY <1>2, <2>2, <2>4, <2>5, <2>6, SumsLess
  <2>8. \A n \in 0..M : g[n] =< h[n]
        BY <1>2, <2>2, <2>4, <2>5, <2>6, SumsLess
  <2>9. h[t - 1] = before
    <3>1. h[t - 1] \in Nat
          BY <1>8, <2>2, <2>4, <2>5 DEF Sums
    <3>2. h[t - 1] =< g[t - 1] /\ g[t - 1] =< h[t - 1]
          BY <2>5, <2>7, <2>8
    <3>3. QED BY <1>9, <3>1, <3>2
  <2>10. h[t] = h[t - 1] + q[t]
        BY <1>8, <2>2, <2>4 DEF Sums
  <2>11. q[t] = rest
        BY <1>8, <2>3
  <2>12. QED BY <1>9, <1>10, <2>2, <2>4, <2>9, <2>10, <2>11
<1>16. new[t].filled = rest
       BY <1>8, <1>13
<1>17. \A k \in 1..t : new[k].filled \in Nat
       BY <1>11, <1>13
<1> HIDE DEF size
<1>18. QED BY <1>3, <1>7, <1>10, <1>12, <1>13, <1>14, <1>15, <1>16, <1>17

LEMMA LatestIs ==
  ASSUME Orderly, Adoptable # {}
  PROVE  /\ Latest \in Adoptable /\ \A j \in Adoptable : j =< Latest
         /\ Latest \in 1..Len(rows) /\ rows[Latest].side = "SELL"
         /\ rows[Latest].status \in {"CANCELLED", "REJECTED", "PENDING"}
<1>1. DOMAIN rows = 1..Len(rows) /\ Len(rows) \in Nat
      BY Reads
<1>2. Adoptable \subseteq 1..Len(rows)
      BY <1>1 DEF Adoptable
<1> DEFINE Above == {Len(rows) - j : j \in Adoptable}
<1>3. Above \subseteq Nat /\ Above # {}
  <2>1. \A j \in 1..Len(rows) : Len(rows) - j \in Nat
        BY <1>1
  <2>2. QED BY <1>2, <2>1
<1>4. PICK x \in Above : \A y \in Above : x =< y
      BY <1>3, LeastThere
<1>5. PICK k \in Adoptable : x = Len(rows) - k
      BY <1>4
<1>6. \A j \in Adoptable : j =< k
  <2>1. SUFFICES ASSUME NEW j \in Adoptable PROVE j =< k
        OBVIOUS
  <2>2. Len(rows) - k =< Len(rows) - j
        BY <1>4, <1>5
  <2>3. j \in Nat /\ k \in Nat
        BY <1>1, <1>2
  <2>4. QED BY <1>1, <2>2, <2>3
<1>7. Latest \in Adoptable /\ \A j \in Adoptable : j =< Latest
      BY <1>6 DEF Latest
<1>8. QED BY <1>2, <1>7 DEF Adoptable

(* Who adopts: a pass that closes the position, or a process that comes up. *)
Adopters ==
  \/ pass.at = "looking" /\ pos'.row = "closed" /\ pass' = Idle
  \/ boot = "reconciling" /\ pass' = pass

(* What is due then is pending. *)
LEMMA DueIsPending ==
  ASSUME Orderly, Frame, Books, Adopters, NEW i \in Sells, Due(i)
  PROVE  rows[i].status = "PENDING"
<1>1. AdoptedLast(i) /\ Bookable(i)
      BY DEF Books, Due
<1>2. CASE pass.at = "looking"
      BY <1>1, <1>2 DEF AdoptedLast
<1>3. CASE boot = "reconciling"
  <2>1. placing = 0 /\ task[i] = {}
        BY <1>3 DEF Frame, Sells
  <2>2. placing # i
        BY <2>1, Reads
  <2>3. QED BY <1>1, <2>1, <2>2 DEF Bookable
<1>4. QED BY <1>2, <1>3 DEF Adopters

Into(rs, n) == rows' = [rs EXCEPT ![Latest].status = "FILLED", ![Latest].filled = n]

(* A sale is adopted into the latest row that may take it. *)
LEMMA AdoptsInto ==
  ASSUME RecoveryInv, Adopters, Moves, NEW n \in Nat, NEW rs \in Seq(RowT), Len(rs) = Len(rows),
         \A i \in 1..Len(rows) : /\ rs[i].side = rows[i].side
                                 /\ \/ rs[i] = rows[i]
                                    \/ rs[i].status = "CANCELLED" /\ broker[i].at = "dead",
         Adoptable # {}, Into(rs, n),
         Calm' => Recorded(rows) + n =< Total(sales),
         UNCHANGED <<set, broker, task, placing, account, stray>>,
         boot' \in {boot, "resuming"}, skewed' \in BOOLEAN, skewed => skewed'
  PROVE  RecoveryInv'
<1>1. Orderly /\ Frame /\ pos \in PosT /\ sales \in Seq(Nat)
      BY DEF RecoveryInv, Shapes
<1>2. /\ DOMAIN rows = 1..Len(rows) /\ Len(rows) \in Nat /\ rows \in Seq(RowT)
      /\ \A i \in 1..Len(rows) : rows[i] \in RowT /\ broker[i] \in OrderT
      BY <1>1, Reads DEF Orderly
<1>3. PICK k \in Adoptable : /\ k = Latest /\ \A j \in Adoptable : j =< k
                             /\ k \in 1..Len(rows) /\ rows[k].side = "SELL"
                             /\ rows[k].status \in {"CANCELLED", "REJECTED", "PENDING"}
      BY <1>1, LatestIs
<1>4. rs[k] \in RowT /\ rs[k].side = "SELL" /\ k \in DOMAIN rs
      BY <1>2, <1>3, ElementOfSeq, LenProperties
<1>5. PICK r \in RowT : /\ r.side = "SELL" /\ r.status = "FILLED" /\ r.filled = n
                        /\ r = [[rs[k] EXCEPT !.status = "FILLED"] EXCEPT !.filled = n]
      BY <1>4 DEF RowT, Statuses
<1>6. rows' = [rs EXCEPT ![k] = r]
  <2>1. rows' = [rs EXCEPT ![k].status = "FILLED", ![k].filled = n]
        BY <1>3 DEF Into
  <2>2. rs \in [1..Len(rows) -> RowT]
        BY LenProperties
  <2>3. QED BY <1>4, <1>5, <2>1, <2>2
<1>7. rows' \in Seq(RowT) /\ Len(rows') = Len(rows) /\ \A i \in 1..Len(rows) : rows'[i] = IF i = k THEN r ELSE rs[i]
  <2>1. k \in 1..Len(rs)
        BY <1>3
  <2>2. PICK q : q = rows' /\ q = [rs EXCEPT ![k] = r]
        BY <1>6
  <2>3. q \in Seq(RowT) /\ Len(q) = Len(rs) /\ \A i \in 1..Len(rs) : q[i] = IF i = k THEN r ELSE rs[i]
        BY <2>1, <2>2, Touched
  <2>4. QED BY <2>2, <2>3
<1>8. /\ broker' = broker /\ task' = task /\ placing' = placing
      /\ UNCHANGED <<set, held, shown, sales, stray>> /\ pass' \in {pass, Idle}
      BY DEF account, Adopters
<1>9. Orderly'
      BY <1>1, <1>7, <1>8 DEF Orderly
<1>10. ASSUME NEW i \in 1..Len(rows) PROVE Rebooked(i)
  <2>1. rows[i].side = "SELL" => rows[i].status # "PARTIALLY_FILLED"
        BY <1>1, <1>2 DEF Sells, Frame
  <2>2. CASE i = k
        BY <1>3, <1>5, <1>7, <1>8, <2>2 DEF Rebooked
  <2>3. CASE i # k
        BY <1>7, <1>8, <2>1, <2>3 DEF Rebooked
  <2>4. QED BY <2>2, <2>3
<1>11. Shapes' /\ Frame' /\ Sells' = Sells /\ (Calm' => Calm /\ Around)
       BY <1>7, <1>8, <1>9, <1>10, FramedBooks
<1>12. ASSUME Calm' PROVE Books'
  <2>1. Books /\ Around
        BY <1>11, <1>12 DEF RecoveryInv
  <2>2. k \in Sells
        BY <1>2, <1>3 DEF Sells
  <2>3. ASSUME NEW i \in 1..Len(rows) PROVE RowKept(i) /\ (i # k => NoMore(i) /\ ~Due(i)')
    <3>1. CASE i = k
      <4>1. pos'.since =< k
            BY <2>1, <2>2 DEF Books, Around
      <4>2. QED BY <1>3, <1>5, <1>7, <3>1, <4>1 DEF RowKept
    <3>2. CASE i # k
      <4>1. rows'[i] = rs[i] /\ rows'[i].side = rows[i].side
            BY <1>7, <3>2
      <4>2. Weaker(i)
        <5>1. CASE rs[i] = rows[i]
          <6>1. Bookable(i)' => Bookable(i)
                BY <1>8, <1>11, <4>1, <5>1 DEF Bookable
          <6>2. QED BY <1>8, <4>1, <5>1, <6>1 DEF Weaker
        <5>2. CASE rs[i].status = "CANCELLED" /\ broker[i].at = "dead"
          <6>1. ~Bookable(i)'
                BY <1>8, <5>2 DEF Bookable
          <6>2. QED BY <1>8, <4>1, <5>2, <6>1 DEF Weaker
        <5>3. QED BY <5>1, <5>2
      <4>3. RowKept(i) /\ NoMore(i) /\ DueKept(i)
            BY <1>1, <1>9, <2>1, <4>2, RowWeaker
      <4>4. ~Due(i)'
        <5>1. SUFFICES ASSUME Due(i)' PROVE FALSE
              OBVIOUS
        <5>2. Due(i) /\ i \in Sells
              BY <4>3, <5>1 DEF DueKept, Due, Bookable
        <5>3. rows[i].status = "PENDING"
              BY <1>1, <2>1, <5>2, DueIsPending
        <5>4. k =< i /\ pos.since =< i
              BY <2>1, <2>2, <5>2, <5>3 DEF Books
        <5>5. i \in Adoptable
              BY <1>1, <1>2, <5>2, <5>3, <5>4 DEF Adoptable, Sells, PosT
        <5>6. i =< k
              BY <1>3, <5>5
        <5>7. QED BY <1>2, <1>3, <3>2, <5>4, <5>6
      <4>5. QED BY <4>3, <4>4
    <3>3. QED BY <3>1, <3>2
  <2>4. Recorded(rows) + Qty(rows'[k]) =< Total(sales') + Qty(rows[k])
    <3>1. Qty(rows'[k]) = n /\ Qty(rows[k]) = 0
          BY <1>3, <1>5, <1>7 DEF Qty
    <3>2. Recorded(rows) + n =< Total(sales)
          BY <1>12
    <3>3. Total(sales) \in Nat
          BY <1>1, TotalNat
    <3>4. QED BY <1>8, <3>1, <3>2, <3>3
  <2>5. ASSUME Due(k)' PROVE /\ Due(k) /\ AdoptedLast(k)'
                             /\ Recorded(rows) + broker'[k].filled =< Total(sales') + Qty(rows[k])
    <3>1. task[k] # {} \/ placing = k
      <4>1. rows'[k].status = "FILLED"
            BY <1>3, <1>5, <1>7
      <4>2. QED BY <1>8, <2>5, <4>1 DEF Due, Bookable
    <3>2. Due(k)
      <4>1. broker[k].at # "dead"
            BY <1>8, <2>5 DEF Due, Bookable
      <4>2. rows[k].status # "FILLED"
            BY <1>3
      <4>3. QED BY <2>2, <3>1, <4>1, <4>2 DEF Due, Bookable, Settled
    <3>3. boot # "reconciling"
      <4>1. k # 0
            BY <1>3
      <4>2. QED BY <1>1, <1>2, <1>3, <3>1, <4>1 DEF Frame
    <3>4. AdoptedLast(k)'
          BY <3>3 DEF Adopters, AdoptedLast, Idle
    <3>5. Covered(k)
          BY <2>1, <2>2, <3>2 DEF Books
    <3>6. QED BY <1>8, <3>2, <3>4, <3>5 DEF Covered
  <2>6. DueKept(k)
        BY <2>5 DEF DueKept
  <2>7. sales' \in Seq(Nat)
        BY <1>1, <1>8
  <2>8. QED BY <1>1, <1>3, <1>7, <1>9, <2>1, <2>3, <2>4, <2>6, <2>7, BooksRecords
<1>13. QED BY <1>11, <1>12 DEF RecoveryInv

IsJoined(u, s, t, L, K) == u = s \o t /\ Len(s) = L /\ Len(t) = K

LEMMA Joined ==
  ASSUME NEW T, NEW s \in Seq(T), NEW t \in Seq(T), NEW u, NEW L \in Nat, NEW K \in Nat,
         IsJoined(u, s, t, L, K)
  PROVE  /\ u \in Seq(T) /\ Len(u) = L + K
         /\ \A i \in 1..L : u[i] = s[i]
         /\ \A i \in 1..L + K : i \notin 1..L => i - L \in 1..K /\ u[i] = t[i - L]
<1>1. /\ s \o t \in Seq(T) /\ Len(s \o t) = Len(s) + Len(t)
      /\ \A i \in 1..Len(s) + Len(t) : (s \o t)[i] = IF i <= Len(s) THEN s[i] ELSE t[i - Len(s)]
      BY ConcatProperties
<1>2. /\ u \in Seq(T) /\ Len(u) = L + K
      /\ \A i \in 1..L + K : u[i] = IF i <= L THEN s[i] ELSE t[i - L]
      BY <1>1 DEF IsJoined
<1>3. QED BY <1>2

Halves(u, s, t, L, K) ==
  /\ Len(u) = L + K
  /\ \A i \in 1..L : u[i] = s[i]
  /\ \A i \in 1..L + K : i \notin 1..L => i - L \in 1..K /\ u[i] = t[i - L]

LEMMA JoinedOrders ==
  ASSUME NEW s \in Seq(OrderT), NEW t \in Seq(OrderT), NEW u, NEW L \in Nat, NEW K \in Nat,
         IsJoined(u, s, t, L, K)
  PROVE  u \in Seq(OrderT) /\ Halves(u, s, t, L, K)
BY Joined DEF Halves

LEMMA JoinedTasks ==
  ASSUME NEW s \in Seq(TaskT), NEW t \in Seq(TaskT), NEW u, NEW L \in Nat, NEW K \in Nat,
         IsJoined(u, s, t, L, K)
  PROVE  u \in Seq(TaskT) /\ Halves(u, s, t, L, K)
BY Joined DEF Halves

(* Rows that are sales, and how they are written. *)
AllSold(new) == \A k \in 1..Len(new) : new[k].side = "SELL" /\ new[k].status = "FILLED"
Written(rs, new, bs, ts) ==
  /\ rows' = rs \o new /\ broker' = broker \o bs /\ task' = task \o ts
  /\ Len(bs) = Len(new) /\ Len(ts) = Len(new) /\ \A k \in 1..Len(new) : ts[k] = {}
AsBefore(rs) ==
  /\ Len(rs) = Len(rows)
  /\ \A i \in 1..Len(rows) : /\ rs[i].side = rows[i].side
                             /\ \/ rs[i] = rows[i]
                                \/ rs[i].status = "CANCELLED" /\ broker[i].at = "dead"

(* Where no row may take it, rows are written. *)
LEMMA AdoptsNew ==
  ASSUME RecoveryInv, Adopters, Moves, NEW rs \in Seq(RowT), AsBefore(rs),
         Adoptable = {}, pos.row # "none",
         NEW new \in Seq(RowT), AllSold(new),
         NEW bs \in Seq(OrderT), NEW ts \in Seq(TaskT), Written(rs, new, bs, ts),
         Calm' => Recorded(rows) + Recorded(new) =< Total(sales),
         UNCHANGED <<set, placing, account, stray>>,
         boot' \in {boot, "resuming"}, skewed' \in BOOLEAN, skewed => skewed'
  PROVE  RecoveryInv'
<1>1. /\ Orderly /\ Frame /\ pos \in PosT /\ sales \in Seq(Nat) /\ cycle \in Nat /\ stray \in BOOLEAN
      BY DEF RecoveryInv, Shapes
<1>2. /\ DOMAIN rows = 1..Len(rows) /\ Len(rows) \in Nat /\ rows \in Seq(RowT)
      /\ broker \in Seq(OrderT) /\ task \in Seq(TaskT) /\ Len(broker) = Len(rows) /\ Len(task) = Len(rows)
      /\ \A i \in 1..Len(rows) : rows[i] \in RowT
      BY <1>1, Reads DEF Orderly
<1>3. PICK L \in Nat, K \in Nat : L = Len(rows) /\ K = Len(new)
      BY <1>2, LenProperties
<1>4. Len(rs) = L /\ Len(new) = K /\ Len(broker) = L /\ Len(bs) = K /\ Len(task) = L /\ Len(ts) = K
      BY <1>2, <1>3 DEF Written, AsBefore
<1>5. PICK rows1, broker1, task1 : rows1 = rows' /\ broker1 = broker' /\ task1 = task'
      OBVIOUS
<1>6. /\ UNCHANGED <<set, held, shown, sales, stray, placing>> /\ pass' \in {pass, Idle}
      BY DEF account, Adopters
<1>7. /\ rows1 \in Seq(RowT) /\ Len(rows1) = L + K
      /\ \A i \in 1..L : rows1[i] = rs[i]
      /\ \A i \in 1..L + K : i \notin 1..L => i - L \in 1..K /\ rows1[i] = new[i - L]
  <2>1. IsJoined(rows1, rs, new, L, K)
        BY <1>4, <1>5 DEF Written, IsJoined
  <2>2. QED BY <2>1, Joined
<1>8. /\ broker1 \in Seq(OrderT) /\ Len(broker1) = L + K /\ \A i \in 1..L : broker1[i] = broker[i]
  <2>1. IsJoined(broker1, broker, bs, L, K) /\ broker \in Seq(OrderT)
        BY <1>2, <1>4, <1>5 DEF Written, IsJoined
  <2>2. broker1 \in Seq(OrderT) /\ Halves(broker1, broker, bs, L, K)
        BY <2>1, JoinedOrders
  <2>3. QED BY <2>2 DEF Halves
<1>9. /\ task1 \in Seq(TaskT) /\ Len(task1) = L + K /\ \A i \in 1..L : task1[i] = task[i]
      /\ \A i \in 1..L + K : i \notin 1..L => task1[i] = {}
  <2>1. IsJoined(task1, task, ts, L, K) /\ task \in Seq(TaskT)
        BY <1>2, <1>4, <1>5 DEF Written, IsJoined
  <2>2. task1 \in Seq(TaskT) /\ Halves(task1, task, ts, L, K)
        BY <2>1, JoinedTasks
  <2>3. \A j \in 1..K : ts[j] = {}
        BY <1>4 DEF Written
  <2>4. QED BY <2>2, <2>3 DEF Halves
<1>10. \A i \in 1..L + K : i \notin 1..L => rows1[i].side = "SELL" /\ rows1[i].status = "FILLED"
  <2>1. ASSUME NEW j \in 1..K PROVE new[j].side = "SELL" /\ new[j].status = "FILLED"
    <3>1. j \in 1..Len(new)
          BY <1>4
    <3>2. QED BY <3>1 DEF AllSold
  <2>2. SUFFICES ASSUME NEW i \in 1..L + K, i \notin 1..L
                 PROVE  rows1[i].side = "SELL" /\ rows1[i].status = "FILLED"
        OBVIOUS
  <2>3. i - L \in 1..K /\ rows1[i] = new[i - L]
        BY <1>7, <2>2
  <2>4. QED BY <2>1, <2>3
<1>11. placing \in 0..L /\ placing \in 0..L + K
       BY <1>1, <1>3 DEF Orderly
<1>12. Orderly'
       BY <1>5, <1>6, <1>7, <1>8, <1>9, <1>11 DEF Orderly
<1>13. /\ DOMAIN rows' = 1..L + K /\ DOMAIN rows1 = 1..L + K /\ \A i \in 1..L : i \in DOMAIN rows'
  <2>1. DOMAIN rows1 = 1..L + K
        BY <1>7, LenProperties
  <2>2. QED BY <1>3, <1>5, <2>1
<1>14. \A i \in Sells' : i \in 1..L + K /\ (i \in 1..L => i \in Sells)
  <2>1. SUFFICES ASSUME NEW i \in Sells' PROVE i \in 1..L + K /\ (i \in 1..L => i \in Sells)
        OBVIOUS
  <2>2. i \in 1..L + K /\ rows1[i].side = "SELL"
        BY <1>5, <1>13 DEF Sells
  <2>3. ASSUME i \in 1..L PROVE i \in Sells
    <3>1. rows1[i] = rs[i] /\ rs[i].side = rows[i].side
          BY <1>3, <1>7, <2>3 DEF AsBefore
    <3>2. QED BY <1>2, <1>3, <2>2, <2>3, <3>1 DEF Sells
  <2>4. QED BY <2>2, <2>3
<1>15. cycle' \in Nat /\ cycle =< cycle' /\ cycle >= 1 /\ pos'.row # "none"
  <2>1. cycle' = cycle \/ cycle' = cycle + 1
        BY DEF Moves
  <2>2. cycle >= 1
        BY <1>1 DEF Frame
  <2>3. QED BY <1>1, <2>1, <2>2 DEF Moves
<1>16. Shapes'
  <2>1. pass' \in PassT
        BY <1>6 DEF RecoveryInv, Shapes, Idle, PassT
  <2>2. pos' \in PosT /\ pos'.since =< Len(rows') + 1
    <3>1. pos' \in PosT /\ pos'.since =< L + 1 /\ pos'.since \in Nat
          BY <1>3 DEF Moves, PosT
    <3>2. Len(rows') = L + K
          BY <1>5, <1>7
    <3>3. QED BY <3>1, <3>2
  <2>3. QED BY <1>6, <1>12, <1>15, <2>1, <2>2 DEF RecoveryInv, Shapes
<1>17. Frame'
  <2>1. placing' # 0 => broker'[placing'].at = "none"
    <3>1. placing # 0 => placing \in 1..L /\ broker[placing].at = "none"
          BY <1>1, <1>3, <1>11 DEF Frame
    <3>2. QED BY <1>5, <1>6, <1>8, <3>1
  <2>2. boot' = "reconciling" => placing' = 0 /\ \A i \in DOMAIN rows' : task'[i] = {}
    <3>1. SUFFICES ASSUME boot' = "reconciling" PROVE placing' = 0 /\ \A i \in DOMAIN rows' : task'[i] = {}
          OBVIOUS
    <3>2. boot = "reconciling"
          BY <3>1
    <3>3. placing = 0 /\ \A i \in 1..L : task[i] = {}
          BY <1>1, <1>2, <1>3, <3>2 DEF Frame
    <3>4. QED BY <1>5, <1>6, <1>9, <1>13, <3>3
  <2>3. pass'.at # "idle" => \A i \in pass'.ended : i \in DOMAIN rows' /\ broker'[i].at = "dead"
    <3>1. pass.at # "idle" => \A i \in pass.ended : i \in 1..L /\ broker[i].at = "dead"
          BY <1>1, <1>2, <1>3 DEF Frame
    <3>2. QED BY <1>5, <1>6, <1>8, <1>13, <3>1 DEF Idle
  <2>4. pos'.row # "none" => cycle' >= 1
        BY <1>1, <1>15
  <2>5. pos'.row = "none" => Sells' = {} /\ pass'.at # "looking"
        BY <1>15
  <2>6. ASSUME NEW i \in Sells' PROVE rows'[i].status # "PARTIALLY_FILLED"
    <3>1. CASE i \notin 1..L
          BY <1>5, <1>10, <1>14, <3>1
    <3>2. CASE i \in 1..L
      <4>1. rows[i].status # "PARTIALLY_FILLED"
            BY <1>1, <1>14, <3>2 DEF Frame
      <4>2. rows'[i] = rs[i]
            BY <1>5, <1>7, <3>2
      <4>3. rs[i] = rows[i] \/ rs[i].status = "CANCELLED"
            BY <1>3, <3>2 DEF AsBefore
      <4>4. QED BY <4>1, <4>2, <4>3
    <3>3. QED BY <3>1, <3>2
  <2>7. QED BY <2>1, <2>2, <2>3, <2>4, <2>5, <2>6 DEF Frame
<1>18. ASSUME Calm' PROVE Books'
  <2>1. Calm /\ cycle' = cycle
    <3>1. cycle' =< 1 /\ ~stray' /\ ~skewed' /\ (cycle' = cycle \/ cycle' = cycle + 1)
          BY <1>18 DEF Calm, Moves
    <3>2. QED BY <1>1, <1>6, <1>15, <3>1 DEF Calm
  <2>2. Books
        BY <2>1 DEF RecoveryInv
  <2>3. pos'.since = pos.since
        BY <1>1, <2>1 DEF Moves
  <2>4. ASSUME NEW i \in 1..L
        PROVE  /\ Qty(rs[i]) =< Qty(rows[i])
               /\ rows[i].side = "SELL" => pos'.since =< i /\ rs[i].status # "PENDING" /\ ~Due(i)'
    <3>1. Qty(rows[i]) \in Nat
          BY <1>2, <1>3, RecordedNat
    <3>2. rs[i] = rows[i] \/ (rs[i].status = "CANCELLED" /\ broker[i].at = "dead")
          BY <1>3 DEF AsBefore
    <3>3. Qty(rs[i]) =< Qty(rows[i])
      <4>1. CASE rs[i] = rows[i]
            BY <3>1, <4>1
      <4>2. CASE rs[i].status = "CANCELLED" /\ broker[i].at = "dead"
        <5>1. Qty(rs[i]) = 0
              BY <4>2 DEF Qty
        <5>2. QED BY <3>1, <5>1
      <4>3. QED BY <3>2, <4>1, <4>2
    <3>4. ASSUME rows[i].side = "SELL" PROVE pos'.since =< i /\ rs[i].status # "PENDING" /\ ~Due(i)'
      <4>1. i \in Sells /\ pos.since =< i /\ i \in 1..Len(rows)
            BY <1>2, <1>3, <2>2, <3>4 DEF Sells, Books
      <4>2. rows[i].status # "PENDING"
            BY <1>1, <1>2, <3>4, <4>1 DEF Adoptable, PosT
      <4>3. rs[i].status # "PENDING"
            BY <3>2, <4>2
      <4>4. ~Due(i)'
        <5>1. SUFFICES ASSUME Due(i)' PROVE FALSE
              OBVIOUS
        <5>2. Bookable(i)' /\ ~Settled(i)'
              BY <5>1 DEF Due
        <5>3. /\ rows'[i] = rs[i] /\ broker'[i] = broker[i] /\ task'[i] = task[i] /\ placing' = placing
              BY <1>5, <1>6, <1>7, <1>8, <1>9
        <5>4. broker[i].at # "dead" /\ (task[i] # {} \/ placing = i)
              BY <4>3, <5>2, <5>3 DEF Bookable
        <5>5. rs[i] = rows[i]
              BY <3>2, <5>4
        <5>6. Due(i)
          <6>1. ~Settled(i)
                BY <5>2, <5>3, <5>5 DEF Settled
          <6>2. QED BY <4>1, <5>4, <6>1 DEF Due, Bookable
        <5>7. QED BY <1>1, <2>2, <4>1, <4>2, <5>6, DueIsPending
      <4>5. QED BY <2>3, <4>1, <4>3, <4>4
    <3>5. QED BY <3>3, <3>4
  <2>5. Recorded(rows') =< Total(sales')
    <3>1. Recorded(rs \o new) = Recorded(rs) + Recorded(new)
          BY RecordedJoined
    <3>2. Recorded(rs) =< Recorded(rows)
      <4>1. \A i \in 1..Len(rows) : Qty(rs[i]) =< Qty(rows[i])
            BY <1>3, <2>4
      <4>2. Len(rs) = Len(rows)
            BY <1>3, <1>4
      <4>3. QED BY <1>2, <4>1, <4>2, RecordedLess
    <3>3. Recorded(rs) \in Nat /\ Recorded(rows) \in Nat /\ Recorded(new) \in Nat /\ Total(sales) \in Nat
          BY <1>1, <1>2, RecordedNat, TotalNat
    <3>4. Recorded(rows) + Recorded(new) =< Total(sales)
          BY <1>18
    <3>5. rows' = rs \o new /\ sales' = sales
          BY <1>6 DEF Written
    <3>6. PICK a \in Nat, b \in Nat, c \in Nat, d \in Nat :
            a = Recorded(rs) /\ b = Recorded(rows) /\ c = Recorded(new) /\ d = Total(sales)
          BY <3>3
    <3>7. a + c =< d
          BY <3>2, <3>4, <3>6
    <3>8. QED BY <3>1, <3>5, <3>6, <3>7
  <2>6. ASSUME NEW i \in Sells' PROVE ~Due(i)' /\ rows'[i].status # "PENDING" /\ pos'.since =< i
    <3>1. i \in 1..L + K
          BY <1>14
    <3>2. CASE i \in 1..L
      <4>1. rows[i].side = "SELL" /\ rows'[i] = rs[i]
            BY <1>5, <1>7, <1>14, <3>2 DEF Sells
      <4>2. QED BY <2>4, <3>2, <4>1
    <3>3. CASE i \notin 1..L
      <4>1. rows'[i].status = "FILLED" /\ task'[i] = {} /\ placing' # i
        <5>1. rows1[i].status = "FILLED" /\ task1[i] = {}
              BY <1>9, <1>10, <3>1, <3>3
        <5>2. placing # i
              BY <1>11, <3>1, <3>3
        <5>3. QED BY <1>5, <1>6, <5>1, <5>2
      <4>2. ~Due(i)'
            BY <4>1 DEF Due, Bookable
      <4>3. pos'.since =< i
        <5>1. pos'.since =< L + 1 /\ pos'.since \in Nat
              BY <1>3 DEF Moves, PosT
        <5>2. L + 1 =< i
              BY <1>3, <3>1, <3>3
        <5>3. QED BY <3>1, <5>1, <5>2
      <4>4. QED BY <4>1, <4>2, <4>3
    <3>4. QED BY <3>2, <3>3
  <2>7. QED BY <2>5, <2>6 DEF Books
<1>19. QED BY <1>16, <1>17, <1>18 DEF RecoveryInv

(* The row as a sale that was adopted leaves it. *)
LEMMA ClosedAtIs ==
  ASSUME pos \in PosT, NEW k \in Nat, NEW q \in ClosedAt(k)
  PROVE  q \in PosT /\ q.row = "closed" /\ q.since = pos.since /\ q.sales = k /\ (q.recent \/ shown.sales >= k)
<1>1. PICK r \in {r \in BOOLEAN : r \/ shown.sales >= k} :
        q = [pos EXCEPT !.row = "closed", !.left = 0, !.recent = r, !.sales = k]
      BY DEF ClosedAt
<1>2. r \in BOOLEAN /\ (r \/ shown.sales >= k)
      BY <1>1
<1>3. q.recent = r /\ q \in PosT /\ q.row = "closed" /\ q.since = pos.since /\ q.sales = k
      BY <1>1, <1>2 DEF PosT
<1>4. QED BY <1>2, <1>3

LEMMA UntimedIs ==
  ASSUME pos \in PosT, NEW q, q = [pos EXCEPT !.row = "closed", !.left = 0]
  PROVE  /\ q \in PosT /\ q.row = "closed" /\ q.since = pos.since
         /\ q.recent = pos.recent /\ q.sales = pos.sales
BY DEF PosT

LEMMA LatestInto ==
  ASSUME NEW rs, NEW new, Adoptable # {}, Adopts(rs, new)
  PROVE  /\ rows' = [rs EXCEPT ![Latest].status = "FILLED", ![Latest].filled = new[Len(new)].filled]
         /\ UNCHANGED <<broker, task>>
BY DEF Adopts

LEMMA AddedNew ==
  ASSUME NEW rs, NEW new \in Seq(RowT), Adoptable = {}, Adopts(rs, new),
         \A k \in 1..Len(new) : new[k].filled \in Nat
  PROVE  /\ rows' = rs \o new
         /\ \E bs \in Seq(OrderT), ts \in Seq(TaskT) :
              /\ Len(bs) = Len(new) /\ Len(ts) = Len(new) /\ \A k \in 1..Len(new) : ts[k] = {}
              /\ broker' = broker \o bs /\ task' = task \o ts
<1>1. Len(new) \in Nat /\ DOMAIN new = 1..Len(new)
      BY LenProperties
<1>2. PICK bs : bs = [k \in DOMAIN new |-> [at |-> "none", filled |-> new[k].filled]]
      OBVIOUS
<1>3. PICK ts : ts = [k \in DOMAIN new |-> {}]
      OBVIOUS
<1>4. rows' = rs \o new /\ broker' = broker \o bs /\ task' = task \o ts
      BY <1>2, <1>3 DEF Adopts
<1>5. bs \in Seq(OrderT) /\ Len(bs) = Len(new)
  <2>1. \A k \in 1..Len(new) : [at |-> "none", filled |-> new[k].filled] \in OrderT
        BY DEF OrderT
  <2>2. bs \in [1..Len(new) -> OrderT]
        BY <1>1, <1>2, <2>1
  <2>3. QED BY <1>1, <2>2, SeqDef, LenProperties
<1>6. ts \in Seq(TaskT) /\ Len(ts) = Len(new) /\ \A k \in 1..Len(new) : ts[k] = {}
  <2>1. ts \in [1..Len(new) -> TaskT]
        BY <1>1, <1>3 DEF TaskT
  <2>2. QED BY <1>1, <1>3, <2>1, SeqDef, LenProperties
<1>7. QED BY <1>4, <1>5, <1>6

LEMMA ClosesFoundKeeps ==
  ASSUME RecoveryInv, Timely, Closes(Unmatched # {}), Unmatched # {}
  PROVE  RecoveryInv'
<1>1. Orderly /\ Frame /\ pos \in PosT /\ pos.since =< Len(rows) + 1 /\ sales \in Seq(Nat) /\ skewed \in BOOLEAN
      BY DEF RecoveryInv, Shapes
<1>2. PICK n \in Nat, k \in Nat : n = sales[Found] /\ k = Found
      BY <1>1, FoundIs
<1>3. PICK one : one = <<Sale(k, n)>>
      OBVIOUS
<1>4. /\ pass.at = "looking" /\ pass' = Idle /\ cycle' = cycle
      /\ Adopts(Struck, one)
      /\ pos' \in IF pass.left <= n THEN ClosedAt(k) ELSE {[pos EXCEPT !.row = "closed", !.left = 0]}
      /\ skewed' = (skewed \/ First(k - 1) # LocalSold \/ Untimely(k))
      /\ UNCHANGED <<set, placing, account, boot, stray>>
      BY <1>2, <1>3 DEF Closes
<1>5. PICK rs \in Seq(RowT) : /\ rs = Struck /\ Len(rs) = Len(rows)
                              /\ \A i \in 1..Len(rows) :
                                   /\ rs[i].side = rows[i].side
                                   /\ \/ rs[i] = rows[i]
                                      \/ rs[i].status = "CANCELLED" /\ broker[i].at = "dead"
      BY <1>1, <1>4, StruckIs
<1>6. Adopts(rs, one)
      BY <1>4, <1>5
<1>7. PICK r \in RowT : r = Sale(k, n) /\ r.side = "SELL" /\ r.status = "FILLED" /\ r.filled = n
  <2>1. PICK e \in BOOLEAN : e <=> k <= pos.began
        OBVIOUS
  <2>2. Sale(k, n) = [side |-> "SELL", qty |-> n, status |-> "FILLED", filled |-> n, early |-> e]
        BY <2>1 DEF Sale
  <2>3. QED BY <2>1, <2>2 DEF RowT, Roles, Statuses
<1>8. one \in Seq(RowT) /\ Len(one) = 1 /\ one[1] = r
      BY <1>3, <1>7
<1>9. pos'.row = "closed" /\ pos.row # "none" /\ Moves
  <2>1. pos' \in PosT /\ pos'.row = "closed" /\ pos'.since = pos.since
    <3>1. CASE pass.left <= n
          BY <1>1, <1>4, <3>1, ClosedAtIs
    <3>2. CASE ~(pass.left <= n)
          BY <1>1, <1>4, <3>2, UntimedIs
    <3>3. QED BY <3>1, <3>2
  <2>2. pos.row # "none"
        BY <1>1, <1>4 DEF Frame
  <2>3. QED BY <1>1, <1>4, <2>1, <2>2 DEF Moves
<1>10. Adopters
      BY <1>4, <1>9 DEF Adopters
<1>11. skewed' \in BOOLEAN /\ (skewed => skewed') /\ boot' \in {boot, "resuming"}
  <2>1. boot' = boot
        BY <1>4
  <2>2. QED BY <1>1, <1>4, <2>1 DEF Untimely
<1>12. ASSUME Calm' PROVE Recorded(rows) + n =< Total(sales)
  <2>1. ~skewed /\ First(k - 1) = LocalSold /\ Calm
        BY <1>1, <1>4, <1>12 DEF Calm
  <2>2. Books
        BY <2>1 DEF RecoveryInv
  <2>3. LocalSold = Recorded(rows)
        BY <1>1, <2>1, <2>2, LocalIs
  <2>4. LocalSold + n =< Total(sales)
        BY <1>1, <1>2, <2>1, FoundIs
  <2>5. QED BY <2>3, <2>4
<1>13. CASE Adoptable # {}
  <2>1. /\ rows' = [rs EXCEPT ![Latest].status = "FILLED", ![Latest].filled = one[Len(one)].filled]
        /\ UNCHANGED <<broker, task>>
        BY <1>6, <1>13, LatestInto
  <2>2. Into(rs, n)
        BY <1>7, <1>8, <2>1 DEF Into
  <2>3. UNCHANGED <<set, broker, task, placing, account, stray>>
        BY <1>4, <2>1
  <2>4. Calm' => Recorded(rows) + n =< Total(sales)
        BY <1>12
  <2>5. QED BY <1>5, <1>9, <1>10, <1>11, <1>13, <2>2, <2>3, <2>4, AdoptsInto
<1>14. CASE Adoptable = {}
  <2>1. \A j \in 1..Len(one) : one[j].side = "SELL" /\ one[j].status = "FILLED" /\ one[j].filled \in Nat
        BY <1>7, <1>8
  <2>2. /\ rows' = rs \o one
        /\ \E bs \in Seq(OrderT), ts \in Seq(TaskT) :
             /\ Len(bs) = Len(one) /\ Len(ts) = Len(one) /\ \A j \in 1..Len(one) : ts[j] = {}
             /\ broker' = broker \o bs /\ task' = task \o ts
        BY <1>6, <1>8, <1>14, <2>1, AddedNew
  <2>3. PICK bs \in Seq(OrderT), ts \in Seq(TaskT) :
             /\ Len(bs) = Len(one) /\ Len(ts) = Len(one) /\ \A j \in 1..Len(one) : ts[j] = {}
             /\ broker' = broker \o bs /\ task' = task \o ts
        BY <2>2
  <2>4. Recorded(one) = n
    <3>1. PICK q : q = [i \in DOMAIN one |-> Qty(one[i])]
          OBVIOUS
    <3>2. q \in Seq(Nat) /\ Len(q) = 1 /\ Recorded(one) = Total(q) /\ q[1] = Qty(one[1])
      <4>1. /\ q \in Seq(Nat) /\ Len(q) = Len(one) /\ Recorded(one) = Total(q)
            /\ \A i \in 1..Len(one) : q[i] = Qty(one[i])
            BY <1>8, <3>1, Tallies
      <4>2. 1 \in 1..Len(one)
            BY <1>8
      <4>3. QED BY <1>8, <4>1, <4>2
    <3>3. PICK h : Sums(q, h) /\ Total(q) = h[Len(q)]
          BY <3>2, TotalIs
    <3>4. h[1] = h[0] + q[1] /\ h[0] = 0
          BY <3>2, <3>3 DEF Sums
    <3>5. q[1] = n
          BY <1>7, <1>8, <3>2 DEF Qty
    <3>6. QED BY <3>2, <3>3, <3>4, <3>5
  <2>5. Calm' => Recorded(rows) + Recorded(one) =< Total(sales)
        BY <1>12, <2>4
  <2>6. UNCHANGED <<set, placing, account, stray>> /\ Written(rs, one, bs, ts)
        BY <1>4, <2>2, <2>3 DEF Written
  <2>9. AsBefore(rs)
        BY <1>5 DEF AsBefore
  <2>7. AllSold(one)
        BY <2>1 DEF AllSold
  <2>8. QED BY <1>5, <1>8, <1>9, <1>10, <1>11, <1>14, <2>3, <2>5, <2>6, <2>7, <2>9, AdoptsNew
<1>15. QED BY <1>13, <1>14

LEMMA ResolvesKeeps ==
  ASSUME RecoveryInv, Timely, Resolves
  PROVE  RecoveryInv'
<1>1. CASE Closes(FALSE)
      BY <1>1, ClosesBareKeeps
<1>2. CASE Closes(Unmatched # {}) /\ Unmatched # {}
      BY <1>2, ClosesFoundKeeps
<1>3. CASE Closes(Unmatched # {}) /\ ~(Unmatched # {})
  <2>1. (Unmatched # {}) = FALSE
        BY <1>3
  <2>2. Closes(FALSE)
        BY <1>3, <2>1
  <2>3. QED BY <2>2, ClosesBareKeeps
<1>4. QED BY <1>1, <1>2, <1>3 DEF Resolves

LEMMA RecoversKeeps ==
  ASSUME RecoveryInv, Timely, Backfills, Recovers, Lacking > 0, pos.row # "none"
  PROVE  RecoveryInv'
<1>1. Orderly /\ Frame /\ pos \in PosT /\ pos.since =< Len(rows) + 1 /\ sales \in Seq(Nat) /\ skewed \in BOOLEAN
      BY DEF RecoveryInv, Shapes
<1>2. /\ boot = "reconciling" /\ boot' = "resuming" /\ pass' = pass /\ cycle' = cycle
      /\ UNCHANGED <<set, placing, account, stray>>
      BY DEF Backfills
<1>3. PICK N \in Nat, t \in Nat, new \in Seq(RowT) :
        /\ N = Lacking /\ t = Taken /\ new = Takes /\ LocalSold + N = Total(sales) /\ Len(new) = t /\ t \in 1..t
        /\ \A k \in 1..t : new[k].side = "SELL" /\ new[k].status = "FILLED" /\ new[k].filled \in Nat
        /\ new[t].filled =< N /\ Recorded(new) = N
  <2>1. /\ Lacking \in Nat /\ LocalSold + Lacking = Total(sales)
        /\ Taken \in 1..Len(sales) /\ Takes \in Seq(RowT) /\ Len(Takes) = Taken
        /\ \A k \in 1..Taken : Takes[k].side = "SELL" /\ Takes[k].status = "FILLED" /\ Takes[k].filled \in Nat
        /\ Takes[Taken].filled =< Lacking /\ Recorded(Takes) = Lacking
        BY <1>1, TakesAre
  <2>2. Taken \in Nat /\ Taken \in 1..Taken
        BY <2>1
  <2>3. QED BY <2>1, <2>2
<1>4. /\ Adopts(rows, new)
      /\ skewed' = (skewed \/ Untimely(1))
      /\ pos' \in IF pos.left > N THEN {[pos EXCEPT !.left = pos.left - N]} ELSE ClosedAt(t)
      BY <1>3 DEF Recovers
<1>5. PICK rs \in Seq(RowT) : rs = rows
      BY <1>1 DEF Orderly
<1>6. /\ Len(rs) = Len(rows) /\ Adopts(rs, new)
      /\ \A i \in 1..Len(rows) : /\ rs[i].side = rows[i].side
                                 /\ \/ rs[i] = rows[i]
                                    \/ rs[i].status = "CANCELLED" /\ broker[i].at = "dead"
      BY <1>4, <1>5
<1>7. Moves
  <2>1. pos' \in PosT /\ pos'.since = pos.since /\ pos'.row \in {pos.row, "closed"}
    <3>1. CASE pos.left > N
      <4>1. PICK left \in Nat : left = pos.left - N
            BY <1>1, <3>1 DEF PosT
      <4>2. pos' = [pos EXCEPT !.left = left]
            BY <1>4, <3>1, <4>1
      <4>3. QED BY <1>1, <4>1, <4>2 DEF PosT
    <3>2. CASE ~(pos.left > N)
          BY <1>1, <1>4, <3>2, ClosedAtIs
    <3>3. QED BY <3>1, <3>2
  <2>2. QED BY <1>1, <1>2, <2>1 DEF Moves
<1>8. Adopters
      BY <1>2 DEF Adopters
<1>9. skewed' \in BOOLEAN /\ (skewed => skewed') /\ boot' \in {boot, "resuming"}
      BY <1>1, <1>2, <1>4 DEF Untimely
<1>10. ASSUME Calm' PROVE Recorded(rows) + N = Total(sales)
  <2>1. ~skewed /\ Calm
        BY <1>1, <1>2, <1>4, <1>10 DEF Calm
  <2>2. Books
        BY <2>1 DEF RecoveryInv
  <2>3. LocalSold = Recorded(rows)
        BY <1>1, <2>1, <2>2, LocalIs
  <2>4. QED BY <1>3, <2>3
<1>11. Recorded(rows) \in Nat /\ Total(sales) \in Nat
  <2>1. rows \in Seq(RowT)
        BY <1>1 DEF Orderly
  <2>2. QED BY <1>1, <2>1, RecordedNat, TotalNat
<1>12. CASE Adoptable # {}
  <2>1. /\ rows' = [rs EXCEPT ![Latest].status = "FILLED", ![Latest].filled = new[Len(new)].filled]
        /\ UNCHANGED <<broker, task>>
        BY <1>6, <1>12, LatestInto
  <2>2. PICK n \in Nat : n = new[t].filled /\ n =< N
        BY <1>3
  <2>3. Into(rs, n)
        BY <1>3, <2>1, <2>2 DEF Into
  <2>4. UNCHANGED <<set, broker, task, placing, account, stray>>
        BY <1>2, <2>1
  <2>5. Calm' => Recorded(rows) + n =< Total(sales)
        BY <1>10, <1>11, <2>2
  <2>6. QED BY <1>6, <1>7, <1>8, <1>9, <1>12, <2>3, <2>4, <2>5, AdoptsInto
<1>13. CASE Adoptable = {}
  <2>1. \A j \in 1..Len(new) : new[j].side = "SELL" /\ new[j].status = "FILLED" /\ new[j].filled \in Nat
        BY <1>3
  <2>2. /\ rows' = rs \o new
        /\ \E bs \in Seq(OrderT), ts \in Seq(TaskT) :
             /\ Len(bs) = Len(new) /\ Len(ts) = Len(new) /\ \A j \in 1..Len(new) : ts[j] = {}
             /\ broker' = broker \o bs /\ task' = task \o ts
        BY <1>6, <1>13, <2>1, AddedNew
  <2>3. PICK bs \in Seq(OrderT), ts \in Seq(TaskT) :
             /\ Len(bs) = Len(new) /\ Len(ts) = Len(new) /\ \A j \in 1..Len(new) : ts[j] = {}
             /\ broker' = broker \o bs /\ task' = task \o ts
        BY <2>2
  <2>4. Calm' => Recorded(rows) + Recorded(new) =< Total(sales)
        BY <1>3, <1>10, <1>11
  <2>5. UNCHANGED <<set, placing, account, stray>> /\ Written(rs, new, bs, ts)
        BY <1>2, <2>2, <2>3 DEF Written
  <2>8. AsBefore(rs)
        BY <1>6 DEF AsBefore
  <2>6. AllSold(new)
        BY <2>1 DEF AllSold
  <2>7. QED BY <1>6, <1>7, <1>8, <1>9, <1>13, <2>3, <2>4, <2>5, <2>6, <2>8, AdoptsNew
<1>14. QED BY <1>12, <1>13

LEMMA BackfillsKeeps ==
  ASSUME RecoveryInv, Timely, Backfills
  PROVE  RecoveryInv'
<1>1. CASE Recovers /\ Lacking > 0 /\ pos.row # "none"
      BY <1>1, RecoversKeeps
<1>2. CASE UNCHANGED <<rows, broker, task, pos, skewed>>
  <2>1. Orderly /\ Frame /\ sales \in Seq(Nat)
        BY DEF RecoveryInv, Shapes
  <2>2. boot' = "resuming" /\ pass' = pass /\ UNCHANGED <<set, placing, held, shown, sales, cycle, stray>>
        BY DEF Backfills, account
  <2>3. /\ Orderly' /\ Len(rows') = Len(rows) /\ stray \in BOOLEAN /\ held \in Nat
        /\ UNCHANGED <<set, pos, shown, sales, cycle, skewed>> /\ held' = held /\ pass' = pass /\ stray' = stray
        BY <1>2, <2>1, <2>2 DEF Orderly, RecoveryInv, Shapes
  <2>4. placing' # 0 => broker'[placing'].at = "none"
        BY <1>2, <2>1, <2>2 DEF Frame
  <2>5. ASSUME NEW i \in 1..Len(rows) PROVE Firmly(i)
    <3>1. Sells' = Sells
          BY <1>2 DEF Sells
    <3>2. Bookable(i)' => Bookable(i)
          BY <1>2, <2>2, <3>1 DEF Bookable
    <3>3. QED BY <1>2, <3>2 DEF Firmly, Weaker
  <2>6. boot' # "reconciling"
        BY <2>2
  <2>7. QED BY <2>3, <2>4, <2>5, <2>6, Steadily
<1>3. QED BY <1>1, <1>2 DEF Backfills

-----------------------------------------------------------------------------
(* Rows stay timely *)

(* Rows of which none was placed at another time than before. *)
Alike(qs, rs) == Len(qs) = Len(rs) /\ \A i \in 1..Len(rs) : qs[i].early = rs[i].early

LEMMA AlikeTimely ==
  ASSUME Shapes, Shapes', Timely, Alike(rows', rows), skewed => skewed'
  PROVE  Timely'
<1>1. DOMAIN rows = 1..Len(rows) /\ DOMAIN rows' = 1..Len(rows')
      BY LenProperties DEF Shapes, Orderly
<1>2. QED BY <1>1 DEF Timely, Alike

(* A row that is given another state, or its fills. *)
LEMMA Restated ==
  ASSUME NEW rs \in Seq(RowT), NEW p \in 1..Len(rs), NEW st \in Statuses, NEW n \in Nat, NEW qs,
         \/ qs = [rs EXCEPT ![p].status = st]
         \/ qs = [rs EXCEPT ![p].status = st, ![p].filled = n]
  PROVE  Alike(qs, rs)
<1>1. rs \in [1..Len(rs) -> RowT] /\ Len(rs) \in Nat /\ DOMAIN rs = 1..Len(rs) /\ rs[p] \in RowT
      BY LenProperties
<1>2. CASE qs = [rs EXCEPT ![p].status = st]
  <2>1. PICK q : q = [rs[p] EXCEPT !.status = st]
        OBVIOUS
  <2>2. q.early = rs[p].early /\ q \in RowT
        BY <1>1, <2>1 DEF RowT
  <2>3. qs = [rs EXCEPT ![p] = q]
        BY <1>1, <1>2, <2>1
  <2>4. Len(qs) = Len(rs) /\ \A i \in 1..Len(rs) : qs[i] = IF i = p THEN q ELSE rs[i]
        BY <2>2, <2>3, Touched
  <2>5. QED BY <2>2, <2>4 DEF Alike
<1>3. CASE qs = [rs EXCEPT ![p].status = st, ![p].filled = n]
  <2>1. PICK q : q = [[rs[p] EXCEPT !.status = st] EXCEPT !.filled = n]
        OBVIOUS
  <2>2. q.early = rs[p].early /\ q \in RowT
        BY <1>1, <2>1 DEF RowT
  <2>3. qs = [rs EXCEPT ![p] = q]
        BY <1>1, <1>3, <2>1
  <2>4. Len(qs) = Len(rs) /\ \A i \in 1..Len(rs) : qs[i] = IF i = p THEN q ELSE rs[i]
        BY <2>2, <2>3, Touched
  <2>5. QED BY <2>2, <2>4 DEF Alike
<1>4. QED BY <1>2, <1>3

LEMMA StruckAlike ==
  ASSUME Orderly
  PROVE  Struck \in Seq(RowT) /\ Alike(Struck, rows)
<1>1. /\ Len(rows) \in Nat /\ DOMAIN rows = 1..Len(rows) /\ \A i \in 1..Len(rows) : rows[i] \in RowT
      BY Reads
<1>2. PICK s : s = Struck
      OBVIOUS
<1>3. DOMAIN s = 1..Len(rows)
      BY <1>1, <1>2 DEF Struck
<1>4. ASSUME NEW i \in 1..Len(rows) PROVE s[i] \in RowT /\ s[i].early = rows[i].early
  <2>1. CASE i \in pass.ended /\ rows[i].status \in Working
    <3>1. s[i] = [rows[i] EXCEPT !.status = "CANCELLED"]
          BY <1>1, <1>2, <2>1 DEF Struck
    <3>2. QED BY <1>1, <3>1 DEF RowT, Statuses
  <2>2. CASE ~(i \in pass.ended /\ rows[i].status \in Working)
    <3>1. s[i] = rows[i]
          BY <1>1, <1>2, <2>2 DEF Struck
    <3>2. QED BY <1>1, <3>1
  <2>3. QED BY <2>1, <2>2
<1>5. s \in Seq(RowT) /\ Len(s) = Len(rows)
  <2>1. s = [i \in 1..Len(rows) |-> s[i]]
        BY <1>1, <1>2 DEF Struck
  <2>2. s \in [1..Len(rows) -> RowT]
        BY <1>4, <2>1
  <2>3. QED BY <1>1, <2>2, SeqDef, LenProperties
<1>6. QED BY <1>2, <1>4, <1>5 DEF Alike

(* A row that is adopted of a sale of before is said to be. *)
LEMMA AdoptsTimely ==
  ASSUME Shapes, Shapes', Timely, NEW rs \in Seq(RowT), Alike(rs, rows),
         NEW new \in Seq(RowT), \A k \in 1..Len(new) : new[k].filled \in Nat, Len(new) >= 1,
         Adopts(rs, new), skewed => skewed',
         Adoptable = {} => skewed' \/ \A k \in 1..Len(new) : ~new[k].early
  PROVE  Timely'
<1>1. Orderly /\ DOMAIN rows' = 1..Len(rows') /\ DOMAIN rows = 1..Len(rows) /\ Len(new) \in Nat
      BY LenProperties DEF Shapes, Orderly
<1>2. CASE Adoptable # {}
  <2>1. PICK p \in 1..Len(rows), n \in Nat : p = Latest /\ n = new[Len(new)].filled
        BY <1>1, <1>2, LatestIs
  <2>2. rows' = [rs EXCEPT ![p].status = "FILLED", ![p].filled = n]
        BY <1>2, <2>1 DEF Adopts
  <2>3. p \in 1..Len(rs) /\ "FILLED" \in Statuses
        BY DEF Alike, Statuses
  <2>4. Alike(rows', rs)
        BY <2>2, <2>3, Restated
  <2>5. Alike(rows', rows)
        BY <2>4 DEF Alike
  <2>6. QED BY <2>5, AlikeTimely
<1>3. CASE Adoptable = {}
  <2>1. SUFFICES ASSUME ~skewed', NEW i \in 1..Len(rows') PROVE ~rows'[i].early
        BY <1>1 DEF Timely
  <2>11. Len(rs) \in Nat
        BY LenProperties
  <2>12. PICK L \in Nat, K \in Nat : L = Len(rs) /\ K = Len(new)
        BY <1>1, <2>11
  <2>2. PICK q : q = rows' /\ L = Len(rs) /\ K = Len(new)
        BY <2>12
  <2>3. IsJoined(q, rs, new, L, K)
        BY <1>3, <2>2 DEF IsJoined, Adopts
  <2>4. /\ Len(q) = L + K /\ \A j \in 1..L : q[j] = rs[j]
        /\ \A j \in 1..L + K : j \notin 1..L => j - L \in 1..K /\ q[j] = new[j - L]
        BY <2>3, Joined
  <2>5. \A j \in 1..K : ~new[j].early
        BY <1>3, <2>1, <2>2
  <2>6. \A j \in 1..L : ~rs[j].early
        BY <1>1, <2>1, <2>2 DEF Timely, Alike
  <2>7. i \in 1..L + K /\ rows'[i] = q[i]
        BY <2>1, <2>2, <2>4
  <2>8. CASE i \in 1..L
        BY <2>4, <2>6, <2>7, <2>8
  <2>9. CASE i \notin 1..L
        BY <2>4, <2>5, <2>7, <2>9
  <2>10. QED BY <2>8, <2>9
<1>4. QED BY <1>2, <1>3

LEMMA RestatedTimely ==
  ASSUME Shapes, Shapes', Timely, skewed' = skewed, NEW p \in DOMAIN rows, NEW st \in Statuses, NEW n \in Nat,
         \/ rows' = [rows EXCEPT ![p].status = st]
         \/ rows' = [rows EXCEPT ![p].status = st, ![p].filled = n]
  PROVE  Timely'
<1>1. rows \in Seq(RowT) /\ DOMAIN rows = 1..Len(rows)
      BY LenProperties DEF Shapes, Orderly
<1>2. Alike(rows', rows)
      BY <1>1, Restated
<1>3. QED BY <1>2, AlikeTimely

LEMMA CommitsTimely ==
  ASSUME Shapes, Shapes', Timely, NEW side \in Roles, NEW lot \in Nat, Commits(side, lot)
  PROVE  Timely'
<1>1. rows \in Seq(RowT) /\ DOMAIN rows = 1..Len(rows) /\ Len(rows) \in Nat /\ DOMAIN rows' = 1..Len(rows')
      BY LenProperties DEF Shapes, Orderly
<1>2. PICK r \in RowT : /\ r = [side |-> side, qty |-> lot, status |-> "PENDING", filled |-> 0, early |-> FALSE]
                        /\ r.early = FALSE
  <2>1. PICK r : r = [side |-> side, qty |-> lot, status |-> "PENDING", filled |-> 0, early |-> FALSE]
        OBVIOUS
  <2>2. r \in RowT /\ r.early = FALSE
        BY <2>1 DEF RowT, Statuses
  <2>3. QED BY <2>1, <2>2
<1>3. PICK q : q = rows' /\ q = Append(rows, r)
      BY <1>2 DEF Commits
<1>4. Len(q) = Len(rows) + 1 /\ q[Len(rows) + 1] = r /\ \A j \in 1..Len(rows) : q[j] = rows[j]
      BY <1>1, <1>3, Lengthened
<1>5. skewed' = skewed
      BY DEF Commits, history
<1>6. SUFFICES ASSUME ~skewed, NEW i \in 1..Len(rows) + 1 PROVE ~q[i].early
      BY <1>1, <1>3, <1>4, <1>5 DEF Timely
<1>7. CASE i = Len(rows) + 1
      BY <1>2, <1>4, <1>7
<1>8. CASE i # Len(rows) + 1
  <2>1. i \in 1..Len(rows)
        BY <1>1, <1>8
  <2>2. QED BY <1>1, <1>4, <1>6, <2>1 DEF Timely
<1>9. QED BY <1>7, <1>8

LEMMA PollsTimely ==
  ASSUME Shapes, Shapes', Timely, Watches
  PROVE  Timely'
<1>1. PICK p \in DOMAIN rows : Polls(p)
      BY DEF Watches
<1>2. PICK who \in task[p] : BooksFill(p, who) \/ BooksPart(p, who) \/ SeesEnd(p, who) \/ TimesOut(p) \/ GivesUp(p)
      BY <1>1 DEF Polls
<1>3. rows[p] \in RowT /\ broker[p].filled \in Nat
  <2>1. p \in 1..Len(rows) /\ rows[p] \in RowT /\ broker[p] \in OrderT
        BY Reads DEF Shapes
  <2>2. QED BY <2>1 DEF OrderT
<1>4. PICK n \in Nat : n = broker[p].filled
      BY <1>3
<1>5. skewed' = skewed
      BY <1>2 DEF BooksFill, BooksPart, SeesEnd, TimesOut, GivesUp, history
<1>6. CASE BooksFill(p, who)
  <2>1. rows' = [rows EXCEPT ![p].status = "FILLED", ![p].filled = n]
        BY <1>4, <1>6 DEF BooksFill
  <2>2. QED BY <1>5, <2>1, RestatedTimely DEF Statuses
<1>7. CASE BooksPart(p, who)
  <2>1. rows' = [rows EXCEPT ![p].status = "PARTIALLY_FILLED", ![p].filled = n]
        BY <1>4, <1>7 DEF BooksPart
  <2>2. QED BY <1>5, <2>1, RestatedTimely DEF Statuses
<1>8. CASE SeesEnd(p, who)
  <2>1. rows' = [rows EXCEPT ![p].status = "CANCELLED"]
        BY <1>8 DEF SeesEnd
  <2>2. QED BY <1>5, <2>1, RestatedTimely DEF Statuses
<1>9. ASSUME NEW e \in {"CANCELLED", "ERROR"}, rows' = Ended(p, e) PROVE Timely'
  <2>1. PICK st \in Statuses : st = IF rows[p].status = "PENDING" THEN e ELSE rows[p].status
        BY <1>3 DEF RowT, Statuses
  <2>2. rows' = [rows EXCEPT ![p].status = st]
        BY <1>9, <2>1 DEF Ended
  <2>3. QED BY <1>5, <2>2, RestatedTimely
<1>10. CASE TimesOut(p)
       BY <1>9, <1>10 DEF TimesOut
<1>11. CASE GivesUp(p)
       BY <1>9, <1>11 DEF GivesUp
<1>12. QED BY <1>2, <1>6, <1>7, <1>8, <1>10, <1>11

LEMMA ClosesTimely ==
  ASSUME Shapes, Shapes', Timely, Resolves
  PROVE  Timely'
<1>1. /\ Orderly /\ rows \in Seq(RowT) /\ sales \in Seq(Nat) /\ skewed \in BOOLEAN /\ skewed' \in BOOLEAN
      /\ Alike(Struck, rows)
      BY StruckAlike DEF Shapes, Orderly
<1>2. ASSUME rows' = Struck, skewed => skewed' PROVE Timely'
      BY <1>1, <1>2, AlikeTimely
<1>3. CASE Closes(FALSE) \/ (Closes(Unmatched # {}) /\ Unmatched = {})
  <2>1. rows' = Struck /\ (skewed => skewed')
        BY <1>3 DEF Closes
  <2>2. QED BY <1>2, <2>1
<1>4. CASE Closes(Unmatched # {}) /\ Unmatched # {}
  <2>1. PICK n \in Nat, k \in Nat : n = sales[Found] /\ k = Found
        BY <1>1, <1>4, FoundIs
  <2>2. PICK e \in BOOLEAN : e <=> k <= pos.began
        OBVIOUS
  <2>3. PICK r \in RowT : r = Sale(k, n) /\ r.filled = n /\ r.early = e
    <3>1. Sale(k, n) = [side |-> "SELL", qty |-> n, status |-> "FILLED", filled |-> n, early |-> e]
          BY <2>2 DEF Sale
    <3>2. QED BY <3>1 DEF RowT, Roles, Statuses
  <2>12. PICK one : one = <<r>>
         OBVIOUS
  <2>4. one = <<r>> /\ one \in Seq(RowT) /\ Len(one) = 1 /\ one[1] = r
        BY <2>3, <2>12
  <2>5. PICK rs : rs = Struck
        OBVIOUS
  <2>6. /\ Adopts(rs, one) /\ pass.at = "looking"
        /\ skewed' = (skewed \/ First(k - 1) # LocalSold \/ Untimely(k))
        BY <1>4, <2>1, <2>3, <2>4, <2>5 DEF Closes
  <2>7. rs \in Seq(RowT) /\ Alike(rs, rows)
        BY <1>1, <2>5, StruckAlike
  <2>8. (skewed => skewed') /\ (Adoptable = {} /\ e => skewed')
        BY <1>1, <2>2, <2>6 DEF Untimely
  <2>9. \A j \in 1..Len(one) : one[j].filled \in Nat /\ one[j].early = e
        BY <2>3, <2>4
  <2>10. Len(one) >= 1 /\ (Adoptable = {} => skewed' \/ \A j \in 1..Len(one) : ~one[j].early)
         BY <2>4, <2>8, <2>9
  <2>13. \A j \in 1..Len(one) : one[j].filled \in Nat
         BY <2>9
  <2>14. Len(one) >= 1 /\ (skewed => skewed') /\ Adopts(rs, one) /\ one \in Seq(RowT)
         BY <2>4, <2>6, <2>8
  <2>15. Adoptable = {} => skewed' \/ \A j \in 1..Len(one) : ~one[j].early
         BY <2>10
  <2>11. QED BY <2>7, <2>13, <2>14, <2>15, AdoptsTimely
<1>5. QED BY <1>3, <1>4 DEF Resolves

LEMMA BackfillsTimely ==
  ASSUME Shapes, Shapes', Timely, Backfills
  PROVE  Timely'
<1>1. /\ Orderly /\ rows \in Seq(RowT) /\ sales \in Seq(Nat) /\ skewed \in BOOLEAN /\ skewed' \in BOOLEAN
      /\ pos \in PosT
      BY DEF Shapes, Orderly
<1>2. PICK rs \in Seq(RowT) : rs = rows
      BY <1>1
<1>3. Alike(rs, rows)
      BY <1>2 DEF Alike
<1>4. CASE UNCHANGED <<rows, broker, task, pos, skewed>>
      BY <1>2, <1>3, <1>4, AlikeTimely
<1>5. CASE Recovers /\ Lacking > 0
  <2>1. /\ Taken \in 1..Len(sales) /\ Takes \in Seq(RowT) /\ Len(Takes) = Taken
        /\ \A k \in 1..Taken : Takes[k].filled \in Nat
        /\ \A k \in 1..Taken : Takes[k].early <=> k =< pos.began
        BY <1>1, <1>5, TakesAre
  <2>2. PICK new \in Seq(RowT) : new = Takes
        BY <2>1
  <2>3. /\ Len(new) >= 1 /\ \A k \in 1..Len(new) : new[k].filled \in Nat
        /\ \A k \in 1..Len(new) : new[k].early <=> k =< pos.began
    <3>1. Taken \in Nat /\ Taken >= 1 /\ Len(new) = Taken
          BY <2>1, <2>2
    <3>2. QED BY <2>1, <2>2, <3>1
  <2>4. Adopts(rs, new) /\ skewed' = (skewed \/ Untimely(1))
        BY <1>2, <1>5, <2>2 DEF Recovers
  <2>5. Adoptable = {} => skewed' \/ \A k \in 1..Len(new) : ~new[k].early
    <3>1. SUFFICES ASSUME Adoptable = {}, ~skewed', NEW k \in 1..Len(new) PROVE ~new[k].early
          OBVIOUS
    <3>2. ~(1 <= pos.began) /\ pos.began \in Nat
          BY <1>1, <2>4, <3>1 DEF Untimely, PosT
    <3>3. ~(k =< pos.began)
          BY <3>2
    <3>4. QED BY <2>3, <3>3
  <2>6. skewed => skewed'
        BY <2>4
  <2>7. QED BY <1>3, <2>3, <2>4, <2>5, <2>6, AdoptsTimely
<1>6. QED BY <1>4, <1>5 DEF Backfills

LEMMA TimelyKept ==
  ASSUME Shapes, Shapes', Timely, [Next]_vars
  PROVE  Timely'
<1>1. ASSUME rows' = rows, skewed' = skewed PROVE Timely'
      BY <1>1 DEF Timely
<1>2. CASE \E side \in {"BUY", "SELL"} : \E lot \in {set.lot} \cup 1..pos.left : Commits(side, lot)
  <2>1. PICK side \in {"BUY", "SELL"}, lot \in {set.lot} \cup 1..pos.left : Commits(side, lot)
        BY <1>2
  <2>2. set.lot \in Nat /\ pos.left \in Nat
        BY RecoveryAssumption DEF Shapes, PosT
  <2>3. side \in Roles /\ lot \in Nat
        BY <2>1, <2>2 DEF Roles
  <2>4. QED BY <2>1, <2>3, CommitsTimely
<1>3. CASE Posts
      BY <1>1, <1>3 DEF Posts, history
<1>4. CASE PostRaises
  <2>1. placing \in DOMAIN rows
        BY <1>4, LenProperties DEF PostRaises, Shapes, Orderly
  <2>2. rows' = [rows EXCEPT ![placing].status = "REJECTED"] /\ skewed' = skewed
        BY <1>4 DEF PostRaises
  <2>3. QED BY <2>1, <2>2, RestatedTimely DEF Statuses
<1>5. CASE \E i \in DOMAIN rows : (\E n \in 1..rows[i].qty : Fills(i, n)) \/ Drops(i)
  <2>1. rows' = rows /\ skewed' = skewed
        BY <1>5 DEF Fills, Drops, history
  <2>2. QED BY <1>1, <2>1
<1>6. CASE Shows \/ SoldElsewhere \/ Ages \/ Crashes \/ Resumes \/ Fetches \/ Shadows \/ Looks
  <2>1. rows' = rows /\ skewed' = skewed
        BY <1>6 DEF Shows, SoldElsewhere, Ages, Crashes, Resumes, Fetches, Shadows, Looks, orders, history
  <2>2. QED BY <1>1, <2>1
<1>7. CASE Watches
      BY <1>7, PollsTimely
<1>8. CASE Applies
  <2>1. rows' = Struck /\ skewed' = skewed
        BY <1>8 DEF Applies
  <2>2. Alike(rows', rows)
        BY <2>1, StruckAlike DEF Shapes
  <2>3. QED BY <2>1, <2>2, AlikeTimely
<1>9. CASE Resolves
      BY <1>9, ClosesTimely
<1>10. CASE Backfills
       BY <1>10, BackfillsTimely
<1>11. CASE UNCHANGED vars
       BY <1>1, <1>11 DEF vars, orders, history
<1>12. QED BY <1>2, <1>3, <1>4, <1>5, <1>6, <1>7, <1>8, <1>9, <1>10, <1>11 DEF Next, Reconciles, Boots

-----------------------------------------------------------------------------
(* The books *)

LEMMA StutterKeeps ==
  ASSUME RecoveryInv, UNCHANGED vars
  PROVE  RecoveryInv'
<1>1. /\ Orderly /\ Frame /\ held \in Nat /\ stray \in BOOLEAN
      /\ UNCHANGED <<set, rows, broker, task, placing, pos, held, shown, sales, pass, boot, cycle, stray, skewed>>
      BY DEF RecoveryInv, Shapes, vars, orders, account, memory, history
<1>2. Orderly' /\ Len(rows') = Len(rows)
      BY <1>1 DEF Orderly
<1>3. ASSUME NEW i \in 1..Len(rows) PROVE Firmly(i)
  <2>1. Sells' = Sells
        BY <1>1 DEF Sells
  <2>2. Bookable(i)' => Bookable(i)
        BY <1>1, <2>1 DEF Bookable
  <2>3. QED BY <1>1, <2>2 DEF Firmly, Weaker
<1>4. placing' # 0 => broker'[placing'].at = "none"
      BY <1>1 DEF Frame
<1>5. boot' = "reconciling" => placing' = 0 /\ \A i \in 1..Len(rows) : task'[i] = {}
  <2>1. DOMAIN rows = 1..Len(rows)
        BY <1>1, Reads
  <2>2. QED BY <1>1, <2>1 DEF Frame
<1>6. QED BY <1>1, <1>2, <1>3, <1>4, <1>5, Steadily

LEMMA InitIsBooked == Init => RecoveryInv
<1>1. SUFFICES ASSUME Init PROVE RecoveryInv
      OBVIOUS
<1>2. /\ rows = <<>> /\ broker = <<>> /\ task = <<>> /\ sales = <<>> /\ placing = 0 /\ pos = NoPosition
      /\ set \in SomeSettings /\ held = 0 /\ shown = [qty |-> 0, sales |-> 0] /\ pass = Idle /\ cycle = 0 /\ stray = FALSE
      /\ skewed = FALSE
      BY <1>1 DEF Init
<1>3. /\ rows \in Seq(RowT) /\ broker \in Seq(OrderT) /\ task \in Seq(TaskT) /\ sales \in Seq(Nat)
      /\ Len(rows) = 0 /\ Len(broker) = 0 /\ Len(task) = 0 /\ DOMAIN rows = {}
      BY <1>2
<1>4. Orderly
      BY <1>2, <1>3 DEF Orderly
<1>5. Shapes
  <2>1. pos \in PosT /\ pos.since =< Len(rows) + 1
        BY <1>2, <1>3 DEF NoPosition, PosT
  <2>2. pass \in PassT
        BY <1>2 DEF Idle, PassT
  <2>3. held \in Nat /\ shown \in [qty : Nat, sales : Nat] /\ cycle \in Nat /\ stray \in BOOLEAN
        BY <1>2
  <2>4. QED BY <1>2, <1>3, <1>4, <2>1, <2>2, <2>3 DEF Shapes
<1>6. Sells = {}
      BY <1>3 DEF Sells
<1>7. Frame
      BY <1>2, <1>3, <1>6 DEF Frame, Idle, NoPosition
<1>8. Books
  <2>1. PICK s : s = [i \in DOMAIN rows |-> Qty(rows[i])]
        OBVIOUS
  <2>2. s \in Seq(Nat) /\ Len(s) = 0 /\ Recorded(rows) = Total(s)
        BY <1>3, <2>1, Tallies
  <2>3. PICK g : Sums(s, g) /\ Total(s) = g[Len(s)]
        BY <2>2, TotalIs
  <2>4. Total(s) = 0
        BY <2>2, <2>3 DEF Sums
  <2>5. Recorded(rows) =< Total(sales)
    <3>1. Total(sales) \in Nat
          BY <1>3, TotalNat
    <3>2. QED BY <2>2, <2>4, <3>1
  <2>6. QED BY <1>6, <2>5 DEF Books
<1>9. QED BY <1>5, <1>7, <1>8 DEF RecoveryInv

LEMMA WatchesKeeps ==
  ASSUME RecoveryInv, Watches
  PROVE  RecoveryInv'
<1>1. PICK p \in DOMAIN rows : Polls(p)
      BY DEF Watches
<1>2. PICK who \in task[p] : BooksFill(p, who) \/ BooksPart(p, who) \/ SeesEnd(p, who) \/ TimesOut(p) \/ GivesUp(p)
      BY <1>1 DEF Polls
<1>3. CASE BooksFill(p, who)
      BY <1>3, BooksFillKeeps
<1>4. CASE BooksPart(p, who)
      BY <1>4, BooksPartKeeps
<1>5. CASE SeesEnd(p, who)
      BY <1>5, SeesEndKeeps
<1>6. CASE TimesOut(p)
      BY <1>6, TimesOutKeeps
<1>7. CASE GivesUp(p)
      BY <1>7, GivesUpKeeps
<1>8. QED BY <1>2, <1>3, <1>4, <1>5, <1>6, <1>7

LEMMA NextKeeps ==
  ASSUME RecoveryInv, Timely, [Next]_vars
  PROVE  RecoveryInv'
<1>1. CASE \E side \in {"BUY", "SELL"} : \E lot \in {set.lot} \cup 1..pos.left : Commits(side, lot)
  <2>1. PICK side \in {"BUY", "SELL"}, lot \in {set.lot} \cup 1..pos.left : Commits(side, lot)
        BY <1>1
  <2>2. set.lot \in Nat /\ pos.left \in Nat
        BY RecoveryAssumption DEF RecoveryInv, Shapes, PosT
  <2>3. side \in Roles /\ lot \in Nat
        BY <2>1, <2>2 DEF Roles
  <2>4. QED BY <2>1, <2>3, CommitsKeeps
<1>2. CASE Posts
      BY <1>2, PostsKeeps
<1>3. CASE PostRaises
      BY <1>3, PostRaisesKeeps
<1>4. CASE \E i \in DOMAIN rows : (\E n \in 1..rows[i].qty : Fills(i, n)) \/ Drops(i)
  <2>1. PICK p \in DOMAIN rows : (\E n \in 1..rows[p].qty : Fills(p, n)) \/ Drops(p)
        BY <1>4
  <2>2. CASE Drops(p)
        BY <2>2, DropsKeeps
  <2>3. CASE \E n \in 1..rows[p].qty : Fills(p, n)
    <3>1. rows[p].side \in {"BUY", "SELL"} /\ rows[p].qty \in Nat
      <4>1. rows[p] \in RowT
            BY Known
      <4>2. QED BY <4>1 DEF RowT, Roles
    <3>2. PICK n \in Nat : Fills(p, n)
          BY <2>3, <3>1
    <3>3. QED BY <3>1, <3>2, BuyFillsKeeps, SellFillsKeeps
  <2>4. QED BY <2>1, <2>2, <2>3
<1>5. CASE Shows
      BY <1>5, ShowsKeeps
<1>6. CASE SoldElsewhere
      BY <1>6, SoldElsewhereKeeps
<1>7. CASE Watches
      BY <1>7, WatchesKeeps
<1>8. CASE Reconciles
  <2>1. CASE Fetches \/ Shadows \/ Looks
        BY <2>1, ReadsKeep
  <2>2. CASE Applies
        BY <2>2, AppliesKeeps
  <2>3. CASE Resolves
        BY <2>3, ResolvesKeeps
  <2>4. QED BY <1>8, <2>1, <2>2, <2>3 DEF Reconciles
<1>9. CASE Ages
      BY <1>9, AgesKeeps
<1>10. CASE Crashes
       BY <1>10, CrashesKeeps
<1>11. CASE Boots
       BY <1>11, BackfillsKeeps, ResumesKeeps DEF Boots
<1>12. CASE UNCHANGED vars
       BY <1>12, StutterKeeps
<1>13. QED BY <1>1, <1>2, <1>3, <1>4, <1>5, <1>6, <1>7, <1>8, <1>9, <1>10, <1>11, <1>12 DEF Next

LEMMA BookedAlways == Spec => [](RecoveryInv /\ Timely)
<1>1. Init => RecoveryInv /\ Timely
  <2>1. Init => Timely
        BY DEF Init, Timely
  <2>2. QED BY <2>1, InitIsBooked
<1>2. RecoveryInv /\ Timely /\ [Next]_vars => RecoveryInv' /\ Timely'
  <2>1. SUFFICES ASSUME RecoveryInv, Timely, [Next]_vars PROVE RecoveryInv' /\ Timely'
        OBVIOUS
  <2>2. RecoveryInv'
        BY <2>1, NextKeeps
  <2>3. Shapes /\ Shapes'
        BY <2>1, <2>2 DEF RecoveryInv
  <2>4. QED BY <2>1, <2>2, <2>3, TimelyKept
<1>3. QED BY <1>1, <1>2, PTL DEF Spec

(* No sale is recorded twice, whoever records it: the task that saw the     *)
(* fill, the pass that found the position gone (_close_open_position), or   *)
(* the backfill at startup; over crashes, restarts that resume polling,     *)
(* cancels that do not arrive, and for any number of rows, any quantities,  *)
(* partial fills and faults, while the position was opened once.  The       *)
(* exceptions are of a state at which the code does record one twice: an    *)
(* order polled while its POST raised; a lookup that took a sale of which   *)
(* the rows have a part or that stands before others they have; a row       *)
(* adopted of a sale from before the position was booked open.              *)
THEOREM SalesRecordedOnce == Spec => []SoldOnce
<1>1. RecoveryInv => SoldOnce
  <2>1. SUFFICES ASSUME RecoveryInv, Calm PROVE Recorded(rows) =< Total(sales)
        BY RecordedIsTotal DEF SoldOnce, Calm
  <2>2. QED BY <2>1 DEF RecoveryInv, Books
<1>2. QED BY <1>1, BookedAlways, PTL

-----------------------------------------------------------------------------
(* The old portfolio *)

(* A position row is either not closed for long, or was so before, or was   *)
(* closed with a sale that the portfolio shows, by who has none in hand.    *)
Aged(q) ==
  /\ q.sales =< Len(sales)
  /\ q.row # "closed" => q.sales = 0
  /\ q.row = "closed" /\ ~q.recent =>
       \/ pos.row = "closed" /\ ~pos.recent /\ q.sales = pos.sales
       \/ shown.sales >= q.sales /\ pass'.at # "fetched"

LEMMA AgedAre ==
  ASSUME pos \in PosT, sales \in Seq(Nat), Seen, NEW n, NEW m
  PROVE  /\ Aged(pos) /\ Aged(Closed) /\ Aged(Sold(n)) /\ Aged(Opened(n))
         /\ Aged([pos EXCEPT !.left = m])
<1>1. Len(sales) \in Nat /\ pos.sales =< Len(sales) /\ (pos.row # "closed" => pos.sales = 0)
      BY LenProperties DEF Seen
<1>2. Aged(pos)
      BY <1>1 DEF Aged
<1>3. Closed.sales = Len(sales) /\ Closed.recent = TRUE /\ Closed.row = "closed"
      BY DEF Closed, PosT
<1>4. Aged(Closed)
      BY <1>1, <1>3 DEF Aged
<1>5. ASSUME NEW k PROVE Aged([pos EXCEPT !.left = k])
  <2>1. PICK q : q = [pos EXCEPT !.left = k]
        OBVIOUS
  <2>2. q.sales = pos.sales /\ q.row = pos.row /\ q.recent = pos.recent
        BY <2>1 DEF PosT
  <2>3. Aged(q)
        BY <1>1, <2>2 DEF Aged
  <2>4. QED BY <2>1, <2>3
<1>6. Aged(Sold(n))
      BY <1>4, <1>5 DEF Sold
<1>7. PICK o : o = Opened(n)
      OBVIOUS
<1>8. o.sales = 0 /\ o.row = "open"
      BY <1>7 DEF Opened
<1>9. Aged(o)
      BY <1>1, <1>8 DEF Aged
<1>10. QED BY <1>2, <1>4, <1>5, <1>6, <1>7, <1>9

LEMMA SeenAged ==
  ASSUME Seen, Aged(pos'), shown' = shown, shown \in [qty : Nat, sales : Nat], pass' \in {pass, Idle},
         sales \in Seq(Nat), sales' \in Seq(Nat), Len(sales) =< Len(sales'), pos' \in PosT
  PROVE  Seen'
<1>1. Len(sales) \in Nat /\ Len(sales') \in Nat /\ pos'.sales \in Nat
      BY LenProperties DEF PosT
<1>2. pos'.sales =< Len(sales') /\ (pos'.row # "closed" => pos'.sales = 0)
      BY <1>1 DEF Aged
<1>3. ASSUME pos'.row = "closed", ~pos'.recent
      PROVE  /\ shown'.sales >= pos'.sales
             /\ pass'.at = "fetched" => pass'.qty = 0 \/ pass'.sales >= pos'.sales
  <2>1. CASE pos.row = "closed" /\ ~pos.recent /\ pos'.sales = pos.sales
        BY <2>1 DEF Seen, Idle
  <2>2. CASE shown.sales >= pos'.sales /\ pass'.at # "fetched"
        BY <2>2
  <2>3. QED BY <1>3, <2>1, <2>2 DEF Aged
<1>4. QED BY <1>2, <1>3 DEF Seen

LEMMA BooksAged ==
  ASSUME Shapes, Seen, NEW p, NEW who, BooksFill(p, who) \/ BooksPart(p, who)
  PROVE  Aged(pos') /\ pass' = pass /\ shown' = shown /\ sales' = sales
<1>1. pos \in PosT /\ sales \in Seq(Nat)
      BY DEF Shapes
<1>2. pass' = pass /\ shown' = shown /\ sales' = sales
      BY DEF BooksFill, BooksPart, memory, account
<1>3. /\ Aged(pos) /\ Aged(Sold(Newly(p))) /\ Aged(Opened(broker[p].filled)) /\ Aged(Opened(Newly(p)))
      /\ Aged([pos EXCEPT !.left = pos.left + Newly(p)])
      BY <1>1, AgedAre
<1>4. PICK q : q = [pos EXCEPT !.left = pos.left + Newly(p)]
      OBVIOUS
<1>5. CASE BooksFill(p, who)
  <2>1. pos' \in {pos, Sold(Newly(p)), q, Opened(broker[p].filled)}
        BY <1>4, <1>5 DEF BooksFill
  <2>2. QED BY <1>2, <1>3, <1>4, <2>1
<1>6. CASE BooksPart(p, who)
  <2>1. pos' \in {q, Opened(Newly(p))}
        BY <1>4, <1>6 DEF BooksPart
  <2>2. QED BY <1>2, <1>3, <1>4, <2>1
<1>7. QED BY <1>5, <1>6

LEMMA AppliesAged ==
  ASSUME Shapes, Seen, Applies
  PROVE  /\ Aged(pos') /\ pass' = Idle /\ shown' = shown /\ sales' = sales
         /\ pos.row = "closed" /\ pos'.row = "open" => pass.sales >= pos.sales
<1>1. pos \in PosT /\ sales \in Seq(Nat) /\ pass \in PassT /\ Len(sales) \in Nat
      BY LenProperties DEF Shapes
<1>2. pass' = Idle /\ shown' = shown /\ sales' = sales /\ pass.at = "fetched"
      BY DEF Applies, account
<1>3. PICK o : o = Reopened /\ o.row = "open" /\ o.sales = 0
  <2>1. Opened(pass.qty).row = "open" /\ Opened(pass.qty).sales = 0
        BY DEF Opened
  <2>2. PICK q, a, b : q = Opened(pass.qty) /\ a = pos.since /\ b = pos.began
        OBVIOUS
  <2>3. /\ [[q EXCEPT !.since = a] EXCEPT !.began = b].row = "open"
        /\ [[q EXCEPT !.since = a] EXCEPT !.began = b].sales = 0
        BY <2>2 DEF Opened
  <2>4. QED BY <2>1, <2>2, <2>3 DEF Reopened
<1>4. Aged(pos) /\ Aged(Closed) /\ Aged([pos EXCEPT !.left = pass.qty]) /\ Aged(o)
  <2>1. Aged(o)
        BY <1>1, <1>3 DEF Aged
  <2>2. QED BY <1>1, <2>1, AgedAre
<1>5. pos' = IF Reopens THEN o
             ELSE IF Gone THEN Closed
             ELSE IF Drifts THEN [pos EXCEPT !.left = pass.qty] ELSE pos
      BY <1>3 DEF Applies
<1>6. Aged(pos')
      BY <1>4, <1>5
<1>7. ASSUME pos.row = "closed", pos'.row = "open" PROVE pass.sales >= pos.sales
  <2>1. Reopens
    <3>1. Closed.row = "closed" /\ [pos EXCEPT !.left = pass.qty].row = pos.row
      <4>1. Closed.row = "closed"
            BY <1>1, <1>7 DEF Closed, PosT
      <4>2. [pos EXCEPT !.left = pass.qty].row = pos.row
            BY <1>1 DEF PosT
      <4>3. QED BY <4>1, <4>2
    <3>2. QED BY <1>5, <1>7, <3>1
  <2>2. pass.qty > 0 /\ ~pos.recent
        BY <1>7, <2>1 DEF Reopens
  <2>3. pass.qty \in Nat
        BY <1>1, <1>2 DEF PassT
  <2>4. QED BY <1>2, <1>7, <2>2, <2>3 DEF Seen
<1>8. QED BY <1>2, <1>6, <1>7

(* The row as an adopted sale leaves it. *)
LEMMA ClosedAtAged ==
  ASSUME Shapes, pass'.at # "fetched", NEW k \in 1..Len(sales), NEW q \in ClosedAt(k)
  PROVE  Aged(q) /\ q.row = "closed"
<1>1. pos \in PosT /\ Len(sales) \in Nat /\ k \in Nat
      BY LenProperties DEF Shapes
<1>2. q.row = "closed" /\ q.sales = k /\ (q.recent \/ shown.sales >= k)
      BY <1>1, ClosedAtIs
<1>3. QED BY <1>1, <1>2 DEF Aged

LEMMA ClosesAged ==
  ASSUME Shapes, Seen, Resolves
  PROVE  Aged(pos') /\ pos'.row = "closed" /\ pass' = Idle /\ shown' = shown /\ sales' = sales
<1>1. pos \in PosT /\ sales \in Seq(Nat) /\ Orderly /\ shown \in [qty : Nat, sales : Nat]
      BY DEF Shapes
<1>2. pass' = Idle /\ shown' = shown /\ sales' = sales
      BY DEF Resolves, Closes, account
<1>3. pass'.at # "fetched"
      BY <1>2 DEF Idle
<1>4. CASE Closes(FALSE) \/ (Closes(Unmatched # {}) /\ Unmatched = {})
  <2>1. pos' = Closed
        BY <1>4 DEF Closes
  <2>2. Aged(Closed)
        BY <1>1, AgedAre
  <2>3. Closed.row = "closed"
        BY <1>1 DEF Closed, PosT
  <2>4. QED BY <1>2, <2>1, <2>2, <2>3
<1>5. CASE Closes(Unmatched # {}) /\ Unmatched # {}
  <2>1. PICK k \in 1..Len(sales) : k = Found
        BY <1>1, <1>5, FoundIs
  <2>2. pos' \in ClosedAt(k) \/ pos' = [pos EXCEPT !.row = "closed", !.left = 0]
        BY <1>5, <2>1 DEF Closes
  <2>3. CASE pos' \in ClosedAt(k)
        BY <1>2, <1>3, <2>3, ClosedAtAged
  <2>4. CASE pos' = [pos EXCEPT !.row = "closed", !.left = 0]
    <3>1. pos'.row = "closed" /\ pos'.sales = pos.sales /\ pos'.recent = pos.recent
          BY <1>1, <2>4, UntimedIs
    <3>2. /\ pos.row # "closed" => pos.sales = 0
          /\ Len(sales) \in Nat /\ shown.sales \in Nat /\ pos.sales =< Len(sales)
          BY <1>1, LenProperties DEF Seen
    <3>3. Aged(pos')
          BY <1>3, <3>1, <3>2 DEF Aged
    <3>4. QED BY <1>2, <3>1, <3>3
  <2>5. QED BY <2>2, <2>3, <2>4
<1>6. QED BY <1>4, <1>5 DEF Resolves

(* Every other step leaves the row as it is, or closed.                     *)
LEMMA BackfillsAged ==
  ASSUME Shapes, Seen, Backfills
  PROVE  /\ Aged(pos') /\ pass' = pass /\ shown' = shown /\ sales' = sales
         /\ pos.row = "closed" => pos'.row # "open"
<1>1. pos \in PosT /\ sales \in Seq(Nat) /\ Orderly
      BY DEF Shapes
<1>2. pass' = pass /\ pass = Idle /\ shown' = shown /\ sales' = sales
      BY DEF Backfills, account
<1>3. pass'.at # "fetched"
      BY <1>2 DEF Idle
<1>4. CASE pos' = pos
  <2>1. Aged(pos)
        BY <1>1, AgedAre
  <2>2. QED BY <1>2, <1>4, <2>1
<1>5. CASE Recovers /\ Lacking > 0
  <2>5. Lacking > 0
        BY <1>5
  <2>6. Taken \in 1..Len(sales)
        BY <1>1, <2>5, TakesAre
  <2>7. PICK k \in 1..Len(sales) : k = Taken
        BY <2>6
  <2>1. PICK n : n = Lacking /\ k = Taken
        BY <2>7
  <2>2. pos' = [pos EXCEPT !.left = pos.left - n] \/ pos' \in ClosedAt(k)
        BY <1>5, <2>1 DEF Recovers
  <2>3. CASE pos' = [pos EXCEPT !.left = pos.left - n]
    <3>1. Aged([pos EXCEPT !.left = pos.left - n])
          BY <1>1, AgedAre
    <3>2. [pos EXCEPT !.left = pos.left - n].row = pos.row
          BY <1>1 DEF PosT
    <3>3. QED BY <1>2, <2>3, <3>1, <3>2
  <2>4. CASE pos' \in ClosedAt(k)
    <3>1. Aged(pos') /\ pos'.row = "closed"
          BY <1>3, <2>4, ClosedAtAged
    <3>2. QED BY <1>2, <3>1
  <2>8. QED BY <2>2, <2>3, <2>4
<1>6. QED BY <1>4, <1>5 DEF Backfills

(* The steps that do not touch the row. *)
Quiet ==
  \/ \E side \in {"BUY", "SELL"} : \E lot \in {set.lot} \cup 1..pos.left : Commits(side, lot)
  \/ Posts \/ PostRaises \/ SoldElsewhere \/ Shadows \/ Crashes \/ Resumes
  \/ \E i \in DOMAIN rows : (\E n \in 1..rows[i].qty : Fills(i, n)) \/ Drops(i)
  \/ \E i \in DOMAIN rows : (\E who \in task[i] : SeesEnd(i, who)) \/ TimesOut(i) \/ GivesUp(i)

LEMMA QuietIs ==
  ASSUME Shapes, Quiet \/ UNCHANGED vars
  PROVE  /\ pos' = pos /\ shown' = shown /\ pass' \in {pass, Idle}
         /\ sales' = sales \/ \E n \in Nat : sales' = Append(sales, n)
<1>1. CASE \E side \in {"BUY", "SELL"} : \E lot \in {set.lot} \cup 1..pos.left : Commits(side, lot)
      BY <1>1 DEF Commits, account, memory
<1>2. CASE Posts \/ PostRaises \/ Shadows \/ Crashes \/ Resumes
      BY <1>2 DEF Posts, PostRaises, Shadows, Crashes, Resumes, account, memory
<1>3. CASE SoldElsewhere
  <2>1. PICK n \in 1..held : sales' = Append(sales, n)
        BY <1>3 DEF SoldElsewhere
  <2>2. n \in Nat
        BY <2>1 DEF Shapes
  <2>3. pos' = pos /\ shown' = shown /\ pass' = pass
        BY <1>3 DEF SoldElsewhere, memory
  <2>4. QED BY <2>1, <2>2, <2>3
<1>4. CASE \E i \in DOMAIN rows : (\E n \in 1..rows[i].qty : Fills(i, n)) \/ Drops(i)
  <2>1. PICK i \in DOMAIN rows : (\E n \in 1..rows[i].qty : Fills(i, n)) \/ Drops(i)
        BY <1>4
  <2>2. CASE Drops(i)
        BY <2>2 DEF Drops, account, memory
  <2>3. CASE \E n \in 1..rows[i].qty : Fills(i, n)
    <3>1. rows[i].qty \in Nat
          BY <2>1, Reads DEF Shapes, RowT
    <3>2. PICK n \in Nat : Fills(i, n)
          BY <2>3, <3>1
    <3>3. sales' = sales \/ sales' = Append(sales, n)
          BY <3>2 DEF Fills
    <3>4. pos' = pos /\ shown' = shown /\ pass' = pass
          BY <3>2 DEF Fills, memory
    <3>5. QED BY <3>2, <3>3, <3>4
  <2>4. QED BY <2>1, <2>2, <2>3
<1>5. CASE \E i \in DOMAIN rows : (\E who \in task[i] : SeesEnd(i, who)) \/ TimesOut(i) \/ GivesUp(i)
      BY <1>5 DEF SeesEnd, TimesOut, GivesUp, account, memory
<1>6. CASE UNCHANGED vars
      BY <1>6 DEF vars, account, memory
<1>7. QED BY <1>1, <1>2, <1>3, <1>4, <1>5, <1>6 DEF Quiet

LEMMA QuietAged ==
  ASSUME Shapes, Shapes', Seen, Quiet \/ UNCHANGED vars
  PROVE  Seen' /\ pos' = pos
<1>1. /\ pos \in PosT /\ sales \in Seq(Nat) /\ sales' \in Seq(Nat) /\ pos' \in PosT
      /\ shown \in [qty : Nat, sales : Nat]
      BY DEF Shapes
<1>2. /\ pos' = pos /\ shown' = shown /\ pass' \in {pass, Idle}
      /\ sales' = sales \/ \E n \in Nat : sales' = Append(sales, n)
      BY QuietIs
<1>3. Len(sales) =< Len(sales')
  <2>1. Len(sales) \in Nat
        BY <1>1, LenProperties
  <2>2. \A n \in Nat : Len(Append(sales, n)) = Len(sales) + 1
        BY <1>1, TotalAppend
  <2>3. QED BY <1>2, <2>1, <2>2
<1>4. Aged(pos')
  <2>1. Aged(pos)
        BY <1>1, AgedAre
  <2>2. QED BY <1>2, <2>1
<1>5. QED BY <1>1, <1>2, <1>3, <1>4, SeenAged

Undone == pass.at = "fetched" /\ pos.row = "closed" /\ pos'.row = "open"

LEMMA SeenKept ==
  ASSUME RecoveryInv, RecoveryInv', Seen, [Next]_vars
  PROVE  Seen' /\ (Undone => pass' = pass \/ pass.sales >= pos.sales)
<1>1. /\ Shapes /\ Shapes' /\ pos \in PosT /\ pos' \in PosT /\ sales \in Seq(Nat) /\ sales' \in Seq(Nat)
      /\ pos.sales =< Len(sales) /\ Len(sales) \in Nat /\ (pos.row # "closed" => pos.sales = 0)
      /\ shown \in [qty : Nat, sales : Nat]
  <2>1. Shapes /\ Shapes' /\ pos \in PosT /\ pos' \in PosT /\ sales \in Seq(Nat) /\ sales' \in Seq(Nat)
        BY DEF RecoveryInv, Shapes
  <2>2. QED BY <2>1, LenProperties DEF Seen, Shapes
<1>2. CASE Quiet \/ UNCHANGED vars
  <2>1. Seen' /\ pos' = pos
        BY <1>1, <1>2, QuietAged
  <2>2. QED BY <2>1 DEF Undone
<1>3. CASE \E p \in DOMAIN rows : \E who \in task[p] : BooksFill(p, who) \/ BooksPart(p, who)
  <2>1. PICK p, who : BooksFill(p, who) \/ BooksPart(p, who)
        BY <1>3
  <2>2. Aged(pos') /\ pass' = pass /\ shown' = shown /\ sales' = sales
        BY <1>1, <2>1, BooksAged
  <2>3. Len(sales) =< Len(sales')
        BY <1>1, <2>2
  <2>4. Seen'
        BY <1>1, <2>2, <2>3, SeenAged
  <2>5. QED BY <2>2, <2>4
<1>4. CASE Applies
  <2>1. /\ Aged(pos') /\ pass' = Idle /\ shown' = shown /\ sales' = sales
        /\ pos.row = "closed" /\ pos'.row = "open" => pass.sales >= pos.sales
        BY <1>1, <1>4, AppliesAged
  <2>2. Len(sales) =< Len(sales')
        BY <1>1, <2>1
  <2>3. Seen'
        BY <1>1, <2>1, <2>2, SeenAged
  <2>4. QED BY <2>1, <2>3 DEF Undone
<1>5. CASE Resolves
  <2>1. pass.at # "fetched"
        BY <1>5 DEF Resolves, Closes
  <2>2. Aged(pos') /\ pass' = Idle /\ shown' = shown /\ sales' = sales
        BY <1>1, <1>5, ClosesAged
  <2>3. Len(sales) =< Len(sales')
        BY <1>1, <2>2
  <2>4. Seen'
        BY <1>1, <2>2, <2>3, SeenAged
  <2>5. QED BY <2>1, <2>4 DEF Undone
<1>6. CASE Backfills
  <2>1. /\ Aged(pos') /\ pass' = pass /\ shown' = shown /\ sales' = sales
        /\ pos.row = "closed" => pos'.row # "open"
        BY <1>1, <1>6, BackfillsAged
  <2>2. Len(sales) =< Len(sales')
        BY <1>1, <2>1
  <2>3. Seen'
        BY <1>1, <2>1, <2>2, SeenAged
  <2>4. QED BY <2>1, <2>3 DEF Undone
<1>7. CASE Shows
  <2>1. pos' = pos /\ pass' = pass /\ sales' = sales /\ shown'.sales = Len(sales)
        BY <1>7 DEF Shows, Portfolio, memory
  <2>2. shown'.sales >= pos'.sales
        BY <1>1, <2>1 DEF PosT
  <2>3. Seen'
        BY <2>1, <2>2 DEF Seen
  <2>4. QED BY <2>1, <2>3 DEF Undone
<1>8. CASE Fetches
  <2>1. pos' = pos /\ sales' = sales /\ shown' = shown
        BY <1>8 DEF Fetches, account
  <2>2. pass'.qty = 0 \/ pass'.sales = shown.sales
        BY <1>8 DEF Fetches, Fetched
  <2>3. Seen'
        BY <2>1, <2>2 DEF Seen
  <2>4. QED BY <2>1, <2>3 DEF Undone
<1>9. CASE Looks
  <2>1. /\ pos' = pos /\ sales' = sales /\ shown' = shown /\ pass.at = "fetched"
        /\ pass' = [pass EXCEPT !.at = "looking", !.left = pos.left]
        BY <1>9 DEF Looks, account
  <2>2. pass \in PassT
        BY <1>1 DEF Shapes
  <2>3. pass'.at # "fetched"
    <3>1. PICK n, q : n = pos.left /\ q = [[pass EXCEPT !.at = "looking"] EXCEPT !.left = n]
          OBVIOUS
    <3>2. q.at = "looking"
          BY <2>1, <2>2, <3>1 DEF PassT
    <3>3. QED BY <2>1, <3>1, <3>2
  <2>4. Seen'
        BY <2>1, <2>3 DEF Seen
  <2>5. QED BY <2>1, <2>4 DEF Undone
<1>10. CASE Ages
  <2>1. pos' = [pos EXCEPT !.recent = FALSE] /\ pass' = pass /\ sales' = sales /\ shown' = shown
        BY <1>10 DEF Ages, account, memory
  <2>2. pos'.row = pos.row /\ pos'.sales = pos.sales
        BY <1>1, <2>1 DEF PosT
  <2>3. shown.sales >= pos.sales /\ (pass.at = "fetched" => pass.sales >= pos.sales)
        BY <1>10 DEF Ages, Idle
  <2>4. Seen'
        BY <1>1, <2>1, <2>2, <2>3 DEF Seen
  <2>5. QED BY <2>1, <2>4
<1>11. QED
  <2>1. Watches => \/ \E p \in DOMAIN rows : \E who \in task[p] : BooksFill(p, who) \/ BooksPart(p, who)
                   \/ Quiet
        BY DEF Watches, Polls, Quiet
  <2>2. Next => \/ Quiet \/ Watches \/ Applies \/ Resolves \/ Backfills \/ Shows \/ Fetches \/ Looks \/ Ages
        BY DEF Next, Quiet, Reconciles, Boots
  <2>3. QED BY <1>2, <1>3, <1>4, <1>5, <1>6, <1>7, <1>8, <1>9, <1>10, <2>1, <2>2

(* A pass that reopens a closed row works on a portfolio that counts every  *)
(* sale made up to the time the row says it was closed (_reopen_position    *)
(* with reconcile_reopen_min_closed_age_s), however far the portfolio lags  *)
(* and whatever closed the row while the pass awaited it.  The time is the  *)
(* sale's own where a sale was adopted, and none where it was less than the *)
(* row had left: that row may be reopened at once.                          *)
THEOREM NoneResurrected == Spec => NoResurrection
<1>1. Init => Seen
  <2>1. SUFFICES ASSUME Init PROVE Seen
        OBVIOUS
  <2>2. sales = <<>> /\ pos = NoPosition
        BY <2>1 DEF Init
  <2>3. QED BY <2>2 DEF Seen, NoPosition
<1>2. RecoveryInv /\ RecoveryInv' /\ Seen /\ [Next]_vars => Seen'
      BY SeenKept
<1>3. RecoveryInv /\ RecoveryInv' /\ Seen /\ [Next]_vars =>
        [pass.at = "fetched" /\ pos.row = "closed" /\ pos'.row = "open" =>
           pass' = pass \/ pass.sales >= pos.sales]_vars
      BY SeenKept DEF Undone
<1>4. QED BY <1>1, <1>2, <1>3, BookedAlways, PTL DEF Spec, NoResurrection
=============================================================================
