--------------------------- MODULE MCAlertIntake ---------------------------
(* Instances of AlertIntake for TLC: ann is heard, eve is on the blacklist. *)
EXTENDS AlertIntake, TLC

CONSTANTS ann, eve, c1, c2, entry, mirror, relayed, add, other, exit, flatten, broken

MCRootOf == (c1 :> "SPX") @@ (c2 :> "ES")
MCNever == -9
MCPairs == {{"SPX", "ES"}}

P(who, what, of, price, channel, parse) ==
  [author |-> who, action |-> what, names |-> of, price |-> price, channel |-> channel,
   parse |-> parse, text |-> <<what, of, price>>, roll |-> FALSE, dear |-> FALSE]

(* An entry, its copy by a mirror, its copy in a source channel, an add at  *)
(* another price, an entry in the paired market, two exits, and an entry    *)
(* whose row cannot be stored.                                              *)
MCPost ==
  (entry :> P(ann, "BUY", {c1}, 1, "watched", "regex")) @@
  (mirror :> P(eve, "BUY", {c1}, 1, "watched", "regex")) @@
  (relayed :> P(ann, "BUY", {c1}, 1, "source", "regex")) @@
  (add :> P(ann, "BUY", {c1}, 2, "source", "model")) @@
  (other :> P(ann, "BUY", {c2}, 1, "watched", "regex")) @@
  (exit :> P(eve, "SELL", {c1}, 2, "watched", "tickerless")) @@
  (flatten :> P(ann, "SELL", {}, 2, "watched", "regex")) @@
  (broken :> P(ann, "BUY", {c2}, 2, "source", "model"))

MCGroups == {{entry, mirror}, {relayed}, {entry, add}, {entry, other}, {mirror, exit}, {add, flatten}, {broken}}

Plain ==
  [on |-> TRUE, manualHalt |-> FALSE, blacklist |-> {eve}, whitelist |-> {}, only |-> [r \in Roots |-> {ann, eve}],
   blocked |-> {}, blockExits |-> TRUE, ownerExit |-> TRUE, dropAtIngest |-> TRUE, closers |-> {},
   rollupBlock |-> FALSE, rollers |-> {}, correlation |-> TRUE, marks |-> FALSE, scaleIn |-> TRUE,
   hours |-> TRUE, direct |-> TRUE, execHistory |-> TRUE]
MCRules ==
  {Plain,
   [Plain EXCEPT !.dropAtIngest = FALSE, !.ownerExit = FALSE, !.direct = FALSE, !.marks = TRUE,
                 !.whitelist = {ann, eve}, !.correlation = FALSE]}
=============================================================================
