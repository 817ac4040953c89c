----------------------------- MODULE MCRecovery -----------------------------
(* The reconciler on its own broker with lookups and backfills, without     *)
(* them, and on a broker it only reports about; the faults in pairs.  An    *)
(* order of three is sold in parts, some of them elsewhere.                 *)
EXTENDS Recovery

Base == [public |-> TRUE, lookup |-> TRUE, write |-> TRUE, timeout |-> TRUE, require |-> TRUE, lot |-> 1,
         faults |-> {}, orders |-> 2, buys |-> 2, parts |-> TRUE, bound |-> 2]

Settings == {
  [Base EXCEPT !.faults = {"crash", "fetch"}, !.lookup = FALSE, !.write = FALSE],
  [Base EXCEPT !.faults = {"crash", "cancel"}, !.bound = 1],
  [Base EXCEPT !.faults = {"poll", "elsewhere"}, !.bound = 1],
  [Base EXCEPT !.faults = {"post", "fetch"}, !.bound = 1],
  [Base EXCEPT !.faults = {"elsewhere", "poll"}, !.lot = 2, !.orders = 1],
  [Base EXCEPT !.faults = {"elsewhere"}, !.lot = 3, !.buys = 1, !.parts = FALSE, !.bound = 1],
  [Base EXCEPT !.faults = {"elsewhere", "crash"}, !.lot = 2, !.orders = 1, !.parts = FALSE, !.bound = 3],
  [Base EXCEPT !.faults = {"crash", "post"}, !.orders = 3, !.public = FALSE, !.timeout = FALSE, !.require = FALSE]
}
=============================================================================
