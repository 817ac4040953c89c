------------------------------ MODULE MCVenues ------------------------------
(* Each broker with what may go wrong, a few things at a time: IBKR in an   *)
(* exit and in a bracket, spreads in two flies, Tradier and Lime in an exit *)
(* and (Tradier) in a bracket.                                              *)
EXTENDS Venues

Calm == [start |-> "exit", limit |-> 2, confirm |-> TRUE, cancels |-> TRUE, parts |-> FALSE, refusals |-> FALSE,
         drops |-> FALSE, unreachable |-> FALSE, restarts |-> FALSE, timeouts |-> FALSE]

Settings == {
  [Calm EXCEPT !.drops = TRUE],
  [Calm EXCEPT !.refusals = TRUE, !.timeouts = TRUE],
  [Calm EXCEPT !.parts = TRUE, !.timeouts = TRUE],
  [Calm EXCEPT !.drops = TRUE, !.unreachable = TRUE, !.confirm = FALSE],
  [Calm EXCEPT !.start = "bracket", !.restarts = TRUE, !.parts = TRUE, !.cancels = FALSE],
  [Calm EXCEPT !.restarts = TRUE, !.drops = TRUE, !.timeouts = TRUE, !.cancels = FALSE],
  [Calm EXCEPT !.start = "bracket", !.drops = TRUE],
  [Calm EXCEPT !.start = "idle", !.limit = 0]
}

Quiet == [gate |-> TRUE, mirror |-> TRUE, overlap |-> FALSE, lossy |-> FALSE, parts |-> FALSE, tires |-> FALSE,
          restarts |-> FALSE, expiry |-> FALSE, keys |-> Keys, limit |-> 3]

Scenes == {
  [Quiet EXCEPT !.gate = FALSE, !.limit = 0],
  [Quiet EXCEPT !.limit = 0],
  [Quiet EXCEPT !.mirror = FALSE, !.expiry = TRUE],
  [Quiet EXCEPT !.overlap = TRUE, !.parts = TRUE, !.tires = TRUE, !.keys = {"fly"}, !.limit = 2],
  [Quiet EXCEPT !.mirror = FALSE, !.overlap = TRUE, !.lossy = TRUE, !.restarts = TRUE, !.tires = TRUE,
                !.keys = {"fly"}]
}

Plain == [broker |-> "tradier", start |-> "exit", limit |-> 2, confirm |-> TRUE, cancels |-> TRUE, parts |-> FALSE,
          drops |-> FALSE, errors |-> FALSE, restarts |-> FALSE, timeouts |-> FALSE]
Streaming == [Plain EXCEPT !.broker = "lime"]

Ways == {
  [Plain EXCEPT !.start = "idle", !.limit = 0],
  Plain,
  [Plain EXCEPT !.parts = TRUE, !.errors = TRUE, !.timeouts = TRUE, !.confirm = FALSE],
  [Plain EXCEPT !.parts = TRUE],
  [Plain EXCEPT !.restarts = TRUE],
  [Plain EXCEPT !.start = "whale", !.restarts = TRUE, !.timeouts = TRUE],
  [Plain EXCEPT !.start = "whale", !.parts = TRUE],
  [Plain EXCEPT !.start = "whale", !.errors = TRUE],
  [Streaming EXCEPT !.drops = TRUE],
  [Streaming EXCEPT !.drops = TRUE, !.timeouts = TRUE, !.cancels = FALSE],
  [Streaming EXCEPT !.drops = TRUE, !.errors = TRUE, !.parts = TRUE, !.timeouts = TRUE, !.limit = 1],
  [Streaming EXCEPT !.parts = TRUE, !.confirm = FALSE],
  [Streaming EXCEPT !.restarts = TRUE, !.timeouts = TRUE, !.limit = 1]
}
=============================================================================
