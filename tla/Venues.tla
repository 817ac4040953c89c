------------------------------- MODULE Venues -------------------------------
(***************************************************************************)
(* app/execution/broker_router.py: one broker is active.  With IBKR single *)
(* orders go to its executor and spreads are refused; with Tradier spreads *)
(* and single orders are traded, with Lime single orders only.             *)
(***************************************************************************)
EXTENDS IbkrOrders

CONSTANTS Keys, Analysts, Budget, Ceiling, Risks, Stated, SomeScenes, SomeWays

(* What an alert may state and a spread may lose, and the caps on them.     *)
ASSUME CapsAssumption == Budget \in Nat /\ Ceiling \in Nat /\ Risks \subseteq Nat /\ Stated \subseteq Nat

VARIABLES
  scene, flies, tickets, market, lots,
  way, legs, paper, known, polls, doubt, socket, news, spin, due, owed, stock, slips

Spreads == INSTANCE SpreadOrders
Rest == INSTANCE RestOrders

(* get_executor and the gates of SpreadExecutor.execute.                    *)
Chosen == IF set.start # "idle" THEN "ibkr" ELSE way.broker

(* Spreads and single orders of Tradier touch nothing of each other's: a    *)
(* behaviour trades one or the other.                                       *)
VenuesInit ==
  /\ Init /\ Spreads!Init /\ Rest!Init
  /\ scene.gate <=> Chosen = "tradier"
  /\ set.start # "idle" => way.start = "idle"
  /\ way.start # "idle" => scene.limit = 0
  /\ way.start = "idle" => way.broker = "tradier"

VenuesNext ==
  \/ /\ Next
     /\ UNCHANGED <<scene, flies, tickets, market, lots>>
     /\ UNCHANGED <<way, legs, paper, known, polls, doubt, socket, news, spin, due, owed, stock, slips>>
  \/ /\ Spreads!Next
     /\ UNCHANGED vars
     /\ UNCHANGED <<way, legs, paper, known, polls, doubt, socket, news, spin, due, owed, stock, slips>>
  \/ /\ Rest!Next
     /\ UNCHANGED vars /\ UNCHANGED <<scene, flies, tickets, market, lots>>

venues ==
  <<vars, scene, flies, tickets, market, lots,
    way, legs, paper, known, polls, doubt, socket, news, spin, due, owed, stock, slips>>

VenuesSpec == VenuesInit /\ [][VenuesNext]_venues /\ Fairness /\ Rest!Fairness

(* Whoever finds a fill, it is taken off its position once: at IBKR, at     *)
(* Tradier and Lime, and in a spread's row, which counts its FILLED orders. *)
AllBooked == BooksMatch /\ Rest!BooksOnce /\ Spreads!SpreadsAgree

(* An exit is not replaced while it may fill, at either kind of broker, and *)
(* what a spread's row counts is there to be closed.                        *)
NothingOversold == NeverShort /\ Rest!NotOversold /\ Spreads!SpreadsBacked

(* A cancel confirmed by Tradier or Lime hides no fill.                     *)
CancelsTruly == Rest!CancelsTruly

(* A row ends once its order has: found by a poll, a resumed task or a hook *)
(* at IBKR and Tradier, by a frame of the socket at Lime.                   *)
AllOrdersEnd == OrdersEnd /\ Rest!RowsEnd /\ Rest!FramesHeard
=============================================================================
