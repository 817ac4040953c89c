--------------------------- MODULE MCEntryOrders ---------------------------
(* Instances of EntryOrders for TLC: entries b1, b2 and an exit s1. *)
EXTENDS EntryOrders, TLC

CONSTANTS b1, b2, s1, ann, bob, c1

(* One contract and one analyst. *)
SameContract == [a \in {b1, b2, s1} |-> c1]

(* The first entry is chased; the operator strikes it, and gives the second *)
(* another try.  The exit is of either analyst.  Each trouble befalls the   *)
(* chased entry in one world at least.                                      *)
By(who) == (b1 :> ann) @@ (b2 :> bob) @@ (s1 :> who)
World(who, first, chased, second, plain) ==
  [author |-> By(who), operator |-> (b1 :> first) @@ (b2 :> second),
   faults |-> (b1 :> chased) @@ (b2 :> plain)]

SomeWorlds ==
  {World(bob, {"strike"}, {"refuse"}, {}, {"partial", "slowCancel"}),
   World(ann, {}, {"partial"}, {}, {}),
   World(ann, {}, {"cancelRaises", "slowCancel"}, {}, {"ambiguous"}),
   World(bob, {}, {"ambiguous"}, {}, {"cancelRaises"}),
   World(ann, {}, {"cancelLost", "pollErrors"}, {}, {}),
   World(ann, {}, {}, {"resubmit"}, {"slowCancel", "refuse"})}
=============================================================================
