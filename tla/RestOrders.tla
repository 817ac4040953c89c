----------------------------- MODULE RestOrders -----------------------------
(***************************************************************************)
(* app/execution/tradier_broker.py and app/execution/lime_broker.py over   *)
(* their REST bridges: the SELL orders of one position, a plain exit or    *)
(* the bracket of a whale (two legs, one of which is sold).  Both know an  *)
(* order by a number they keep in memory.  Tradier is asked by GET; Lime   *)
(* tells through a socket, and is asked only by a task that finds the      *)
(* socket down.                                                            *)
(***************************************************************************)
EXTENDS Integers, Sequences, FiniteSets, FiniteSetsExt

CONSTANTS
  Total,       \* contracts held at first
  MaxFaults,   \* bound: restarts and drops of the socket
  SomeWays     \* the broker, how it starts, how many orders (a bound), what may go wrong

VARIABLES
  way,
  legs,        \* the Order rows; by: who booked the fill; struck: by cancel_order, on the
               \* broker's word or without it
  paper,       \* each order at the broker
  known,       \* _orders: the rows whose order can be addressed
  polls,       \* the tasks at each order: "placed", "blind" of the position, and "oco" for a bracket
  doubt,       \* a cancel_order at its await; cleared: the last one succeeded
  socket,
  news,        \* Lime: the last frame of each order, whether it is new, and whether the
               \* task waits for the next; coming: a frame is under way
  spin,        \* Lime: the order whose task holds the event loop
  due,         \* resumptions to come: the executor's, the application's
  owed,        \* the position row's remaining
  stock,       \* contracts in the account; a short position is negative
  slips        \* faults so far

Orders == DOMAIN legs
Over == {"filled", "dead"}
AtLeast0(n) == IF n > 0 THEN n ELSE 0
NoDoubt == [i |-> 0, cleared |-> FALSE]
Leg(role, qty) == [role |-> role, qty |-> qty, status |-> "PENDING", filled |-> 0, by |-> "none", struck |-> "no"]
Placed == [st |-> "working", sold |-> 0]
NoNews == [st |-> "none", sold |-> 0, fresh |-> FALSE, parked |-> FALSE, coming |-> FALSE]
Acked == [NoNews EXCEPT !.coming = way.broker = "lime" /\ socket = "up"]
Open(i) == legs[i].status = "PENDING"
Exit == Leg("exit", Total)
Awake == spin = 0

Init ==
  /\ way \in SomeWays
  /\ legs = IF way.start = "exit" THEN <<Exit>> ELSE <<>>
  /\ paper = [i \in Orders |-> Placed]
  /\ known = Orders
  /\ polls = [i \in Orders |-> {"placed"}]
  /\ doubt = NoDoubt
  /\ socket = "up"
  /\ news = [i \in Orders |-> [NoNews EXCEPT !.coming = way.broker = "lime"]]
  /\ spin = 0 /\ due = {}
  /\ owed = Total /\ stock = Total
  /\ slips = 0

-----------------------------------------------------------------------------
(* The broker *)

(* Lime sends a frame of a change, if there is a socket. *)
Tells(i) == [news EXCEPT ![i].coming = way.broker = "lime" /\ socket = "up"]

Sells(i, n) ==
  LET sold == paper[i].sold + n IN
  /\ paper[i].st = "working"
  /\ sold <= legs[i].qty /\ (way.parts \/ sold = legs[i].qty)
  /\ stock' = stock - n
  /\ paper' = [j \in Orders |->
       IF j = i THEN [paper[i] EXCEPT !.sold = sold, !.st = IF sold = legs[i].qty THEN "filled" ELSE @]
       ELSE IF legs[i].role # "exit" /\ legs[j].role # "exit" THEN [paper[j] EXCEPT !.st = "dead"] ELSE paper[j]]
  /\ news' = Tells(i)
  /\ UNCHANGED <<way, legs, known, polls, doubt, socket, spin, due, owed, slips>>

(* The order expires, is rejected, or obeys a cancel; it may do so at any   *)
(* time, so what becomes of a DELETE needs no state.                        *)
Stops(i) ==
  /\ paper[i].st = "working"
  /\ paper' = [paper EXCEPT ![i].st = "dead"]
  /\ news' = Tells(i)
  /\ UNCHANGED <<way, legs, known, polls, doubt, socket, spin, due, owed, stock, slips>>

(* The orders of one number: the legs of a bracket share the bracket's.     *)
Group(i) == IF legs[i].role = "exit" THEN {i} ELSE {j \in Orders : legs[j].role # "exit"}

(* What GET shows of an order; of a leg, whose number is the bracket's, the *)
(* bracket.                                                                 *)
Shown(i) ==
  LET g == Group(i)
      sold == {j \in g : paper[j].st = "filled"} IN
  [st |-> IF sold # {} THEN "filled" ELSE IF \A j \in g : paper[j].st = "dead" THEN "dead" ELSE "working",
   sold |-> IF sold # {} THEN paper[CHOOSE j \in sold : TRUE].sold ELSE paper[i].sold]

-----------------------------------------------------------------------------
(* Lime's socket *)

(* Mutant: the first frame of an order counts it, later ones do not. *)
NotedOnce(i) == [st |-> paper[i].st, sold |-> paper[i].sold, fresh |-> news[i].st = "none",
                 parked |-> news[i].parked, coming |-> FALSE]

(* _wake_order: the snapshot is replaced and its sequence number grows. *)
Noted(i) == [st |-> paper[i].st, sold |-> paper[i].sold, fresh |-> TRUE,
             parked |-> news[i].parked, coming |-> FALSE]

Frames(i) ==
  /\ Awake
  /\ news[i].coming /\ socket = "up"
  /\ news' = [news EXCEPT ![i] = Noted(i)]
  /\ UNCHANGED <<way, legs, paper, known, polls, doubt, socket, spin, due, owed, stock, slips>>

(* Frames under way are lost, and those of what happens till it is up.      *)
Drops ==
  /\ way.broker = "lime" /\ way.drops /\ slips < MaxFaults
  /\ Awake
  /\ socket = "up" /\ socket' = "down"
  /\ news' = [i \in Orders |-> [news[i] EXCEPT !.coming = FALSE]]
  /\ slips' = slips + 1
  /\ UNCHANGED <<way, legs, paper, known, polls, doubt, spin, due, owed, stock>>

Reconnects ==
  /\ way.broker = "lime"
  /\ Awake
  /\ socket = "down" /\ socket' = "up"
  /\ UNCHANGED <<way, legs, paper, known, polls, doubt, news, spin, due, owed, stock, slips>>

-----------------------------------------------------------------------------
(* _poll_order_fill *)

(* A turn of the task reads the order: at Tradier by GET; at Lime a frame   *)
(* it has not seen, or by GET when the socket is down and it does not wait  *)
(* for a frame already.  Who waits keeps the order's number.                *)
Hears(i) == way.broker = "lime" /\ news[i].fresh /\ (news[i].parked \/ (socket = "up" /\ i \in known))
Asks(i) == i \in known /\ (way.broker = "tradier" \/ (socket = "down" /\ ~news[i].parked))
Reads(i) == IF Hears(i) THEN [st |-> news[i].st, sold |-> news[i].sold] ELSE Shown(i)

At(i, t) == Awake /\ t \in polls[i] /\ t # "oco"

Leaves(i, t) ==
  /\ known' = known \ Group(i)
  /\ polls' = [polls EXCEPT ![i] = @ \ {t}]

(* The row of i is filled, and by the first that says so. *)
Filled(i, qty, t) ==
  [legs EXCEPT ![i] = [legs[i] EXCEPT !.status = "FILLED", !.filled = qty,
                                      !.by = IF legs[i].by # "none" THEN legs[i].by ELSE t]]

(* FILLED.  With a position the contracts come off it, those the row has    *)
(* not counted; without, the row alone is marked, with the whole quantity   *)
(* where the bracket tells none.                                            *)
Books(i, t) ==
  LET sold == IF legs[i].role = "exit" THEN Reads(i).sold ELSE legs[i].qty IN
  /\ At(i, t) /\ (Hears(i) \/ Asks(i))
  /\ Reads(i).st = "filled"
  /\ legs' = Filled(i, sold, t)
  /\ owed' = IF t = "blind" THEN owed ELSE AtLeast0(owed - AtLeast0(sold - legs[i].filled))
  /\ Leaves(i, t)
  /\ UNCHANGED <<way, paper, doubt, socket, news, spin, due, stock, slips>>

(* Any other end: the row takes it, whatever it was. *)
Ends(i, t) ==
  /\ At(i, t) /\ (Hears(i) \/ Asks(i))
  /\ Reads(i).st = "dead"
  /\ legs' = [legs EXCEPT ![i].status = "CANCELLED"]
  /\ Leaves(i, t)
  /\ UNCHANGED <<way, paper, doubt, socket, news, spin, due, owed, stock, slips>>

(* A frame of an order still working is taken, and the next waited for. *)
Waits(i, t) ==
  /\ At(i, t) /\ way.broker = "lime"
  /\ \/ Hears(i) /\ Reads(i).st = "working"
     \/ i \in known /\ socket = "up" /\ news[i].st # "none" /\ ~news[i].fresh /\ ~news[i].parked
  /\ news' = [news EXCEPT ![i].fresh = FALSE, ![i].parked = socket = "up" /\ i \in known]
  /\ UNCHANGED <<way, legs, paper, known, polls, doubt, socket, spin, due, owed, stock, slips>>

(* wait_order_update asked about an order of which no frame has come: it    *)
(* returns at once, and is called again at once.  Nothing else runs.        *)
Spins(i, t) ==
  /\ At(i, t) /\ way.broker = "lime" /\ i \in known
  /\ socket = "up" /\ news[i].st = "none"
  /\ spin' = i
  /\ UNCHANGED <<way, legs, paper, known, polls, doubt, socket, news, due, owed, stock, slips>>

(* Ten reads in a row fail: the row is marked, the order is left. *)
GivesUp(i, t) ==
  /\ way.errors
  /\ At(i, t) /\ Asks(i)
  /\ legs' = IF Open(i) THEN [legs EXCEPT ![i].status = "ERROR"] ELSE legs
  /\ Leaves(i, t)
  /\ UNCHANGED <<way, paper, doubt, socket, news, spin, due, owed, stock, slips>>

(* max_pending_minutes.  What the broker makes of the cancel is not waited  *)
(* for; if the order cannot be addressed none is sent.                      *)
TimesOut(i, t) ==
  /\ way.timeouts
  /\ t \in polls[i] /\ t # "oco"
  /\ Awake \/ spin = i
  /\ legs' = IF Open(i) THEN [legs EXCEPT ![i].status = "CANCELLED"] ELSE legs
  /\ spin' = 0
  /\ Leaves(i, t)
  /\ UNCHANGED <<way, paper, doubt, socket, news, due, owed, stock, slips>>

-----------------------------------------------------------------------------
(* The bracket *)

Bracket == {i \in Orders : legs[i].role # "exit"}

(* _maybe_place_whale_tp: the number is kept under the tag, so the rows,    *)
(* which carry the bracket's own, do not find it.  The POST may fail.       *)
Brackets ==
  /\ way.start = "whale" /\ legs = <<>>
  /\ legs' = <<Leg("TP", owed), Leg("SL", owed)>>
  /\ paper' = <<Placed, Placed>>
  /\ polls' = <<{"oco"}, {}>>
  /\ news' = <<NoNews, NoNews>>
  /\ UNCHANGED <<way, known, doubt, socket, spin, due, owed, stock, slips>>

(* Mutant: the other leg's row is left to itself. *)
ToldOne(done, sibling) == done

(* _mark_order_cancelled of the other leg. *)
Told(done, sibling) == [done EXCEPT ![sibling].status = IF @ = "PENDING" THEN "CANCELLED" ELSE @]

(* Mutant: the leg is booked whatever its row says. *)
BookableAlways(i) == TRUE

Bookable(i) == Open(i)

(* _poll_whale_oco: the first leg seen to have sold is booked for what it   *)
(* has sold by now, and the watch ends.  (The TP leg is listed first.)      *)
Watches ==
  LET sold == {i \in Bracket : paper[i].st # "dead" /\ paper[i].sold > 0}
      i == Min(sold)
      book == IF Bookable(i) THEN Filled(i, paper[i].sold, "oco") ELSE legs IN
  /\ Awake
  /\ Bracket # {} /\ "oco" \in polls[1]
  /\ \/ /\ sold # {}
        /\ legs' = Told(book, 3 - i)
        /\ owed' = IF Bookable(i) THEN AtLeast0(owed - paper[i].sold) ELSE owed
     \/ /\ \A j \in Bracket : paper[j].st = "dead"
        /\ legs' = [j \in Orders |-> IF j \in Bracket /\ Open(j) THEN [legs[j] EXCEPT !.status = "CANCELLED"]
                                                                 ELSE legs[j]]
        /\ owed' = owed
  /\ polls' = [polls EXCEPT ![1] = @ \ {"oco"}]
  /\ UNCHANGED <<way, paper, known, doubt, socket, news, spin, due, stock, slips>>

(* Twenty reads fail: the watch ends, the rows stay. *)
LosesSight ==
  /\ way.errors
  /\ Awake
  /\ Bracket # {} /\ "oco" \in polls[1]
  /\ polls' = [polls EXCEPT ![1] = @ \ {"oco"}]
  /\ UNCHANGED <<way, legs, paper, known, doubt, socket, news, spin, due, owed, stock, slips>>

-----------------------------------------------------------------------------
(* cancel_order and the replacement *)

(* The row is marked, unless a task has booked a fill meanwhile. *)
Strikes(i, word) ==
  IF legs[i].status = "FILLED" THEN UNCHANGED <<legs, known>> /\ doubt' = NoDoubt
  ELSE /\ legs' = [legs EXCEPT ![i] = [@ EXCEPT !.status = "CANCELLED", !.struck = word]]
       /\ known' = known \ Group(i)
       /\ doubt' = [NoDoubt EXCEPT !.cleared = TRUE]

Cancels(i) ==
  /\ way.cancels
  /\ Awake
  /\ Open(i) /\ doubt.i = 0
  /\ i \in known
  /\ doubt' = [i |-> i, cleared |-> FALSE]
  /\ UNCHANGED <<way, legs, paper, known, polls, socket, news, spin, due, owed, stock, slips>>

(* An order that cannot be addressed is cancelled in the row alone. *)
CancelsLocally(i) ==
  /\ way.cancels
  /\ Awake
  /\ Open(i) /\ doubt.i = 0
  /\ i \notin known
  /\ Strikes(i, "alone")
  /\ UNCHANGED <<way, paper, polls, socket, news, spin, due, owed, stock, slips>>

(* At Lime the last frame is believed before a GET is tried, and no frame   *)
(* is taken while it is.                                                    *)
Seen(i) == IF way.broker = "lime" /\ news[i].st # "none" THEN [st |-> news[i].st, sold |-> news[i].sold]
           ELSE Shown(i)

(* Mutant: a cancelled order that has sold a part counts as cancelled. *)
OutcomeByStatus(s) == CASE s.st = "filled" -> "FILLED" [] s.st = "dead" -> "CANCELLED" [] OTHER -> "UNCONFIRMED"

(* Mutant: no more waiting is as good as a word. *)
OutcomeAtOnce(s) == IF s.st = "filled" \/ s.sold > 0 THEN "FILLED" ELSE "CANCELLED"

(* _await_tradier_order_terminal, _await_lime_order_terminal. *)
Outcome(s) == IF s.st = "filled" \/ s.sold > 0 THEN "FILLED"
              ELSE IF s.st = "dead" THEN "CANCELLED" ELSE "UNCONFIRMED"

CancelEnds ==
  LET i == doubt.i
      word == Outcome(Seen(i)) IN
  /\ Awake
  /\ i # 0
  /\ \/ /\ word = "CANCELLED" \/ (word = "UNCONFIRMED" /\ ~way.confirm)
        /\ Strikes(i, word)
     \/ /\ word = "FILLED" \/ (word = "UNCONFIRMED" /\ way.confirm)
        /\ doubt' = NoDoubt
        /\ UNCHANGED <<legs, known>>
  /\ UNCHANGED <<way, paper, polls, socket, news, spin, due, owed, stock, slips>>

(* _place_sell of all that is left: no order is pending, or the one that    *)
(* was found is cancelled.                                                  *)
Places ==
  /\ Awake
  /\ owed > 0 /\ Len(legs) < way.limit
  /\ doubt.i = 0
  /\ doubt.cleared \/ (legs # <<>> /\ ~\E i \in Orders : Open(i))
  /\ legs' = Append(legs, Leg("exit", owed))
  /\ paper' = Append(paper, Placed)
  /\ known' = known \cup {Len(legs) + 1}
  /\ polls' = Append(polls, {"placed"})
  /\ news' = Append(news, Acked)
  /\ doubt' = NoDoubt
  /\ UNCHANGED <<way, socket, spin, due, owed, stock, slips>>

-----------------------------------------------------------------------------
(* The process *)

Restarts ==
  /\ way.restarts /\ slips < MaxFaults
  /\ known' = {} /\ doubt' = NoDoubt /\ spin' = 0
  /\ polls' = [i \in Orders |-> {}]
  /\ news' = [i \in Orders |-> NoNews]
  /\ socket' = IF way.broker = "lime" THEN "down" ELSE socket
  /\ due' = {"app"} \cup (IF way.broker = "tradier" THEN {"executor"} ELSE {})
  /\ slips' = slips + 1
  /\ UNCHANGED <<way, legs, paper, owed, stock>>

(* The application's resumption knows no positions. *)
Boots ==
  /\ Awake
  /\ "app" \in due /\ due' = due \ {"app"}
  /\ polls' = [i \in Orders |-> IF Open(i) THEN polls[i] \cup {"blind"} ELSE polls[i]]
  /\ UNCHANGED <<way, legs, paper, known, doubt, socket, news, spin, owed, stock, slips>>

(* resume_pending_orders of Tradier.  A bracket is watched again if it is   *)
(* whole.  A plain row carries our own number: the broker knows no such     *)
(* order, and the row is taken for cancelled.                               *)
Resumes ==
  LET whole == Bracket # {} /\ owed > 0 /\ \A i \in Bracket : Open(i) IN
  /\ "executor" \in due /\ due' = due \ {"executor"}
  /\ legs' = [i \in Orders |-> IF legs[i].role = "exit" /\ Open(i)
                               THEN [legs[i] EXCEPT !.status = "CANCELLED"] ELSE legs[i]]
  /\ known' = IF whole THEN known \cup Bracket ELSE known
  /\ polls' = IF whole THEN [polls EXCEPT ![1] = @ \cup {"oco"}] ELSE polls
  /\ UNCHANGED <<way, paper, doubt, socket, news, spin, owed, stock, slips>>

-----------------------------------------------------------------------------
Tasks == {"placed", "blind"}

Broker(i) == (\E n \in 1..Total : Sells(i, n)) \/ Stops(i)
Turns(i) == \E t \in Tasks : Books(i, t) \/ Ends(i, t) \/ Waits(i, t) \/ Spins(i, t)

Next ==
  \/ \E i \in Orders : Broker(i) \/ Frames(i)
  \/ Drops \/ Reconnects
  \/ \E i \in Orders : Turns(i)
  \/ \E i \in Orders, t \in Tasks : GivesUp(i, t) \/ TimesOut(i, t)
  \/ Brackets \/ Watches \/ LosesSight
  \/ \E i \in Orders : Cancels(i) \/ CancelsLocally(i)
  \/ CancelEnds \/ Places
  \/ Restarts \/ Boots \/ Resumes

All == 1..2

rest == <<way, legs, paper, known, polls, doubt, socket, news, spin, due, owed, stock, slips>>

(* Tasks read their orders and tire, resumptions run, cancels end, frames   *)
(* under way arrive and the socket is opened again.                         *)
Fairness ==
  /\ \A i \in All : WF_rest(i \in Orders /\ Frames(i))
  /\ \A i \in All : WF_rest(i \in Orders /\ Turns(i))
  /\ \A i \in All : WF_rest(i \in Orders /\ \E t \in Tasks : TimesOut(i, t))
  /\ WF_rest(Watches) /\ WF_rest(CancelEnds)
  /\ WF_rest(Reconnects) /\ WF_rest(Boots) /\ WF_rest(Resumes)

RestSpec == Init /\ [][Next]_rest

-----------------------------------------------------------------------------
(* Properties *)

(* The position has lost what the rows filled by tasks that knew it say,    *)
(* each once, though a bracket is watched again after a restart, and blind  *)
(* tasks race its watch for the same fill.                                  *)
Taken == UNION {{i} \X (1 .. legs[i].filled) : i \in {j \in Orders : legs[j].by \in {"placed", "oco"}}}
BooksOnce == Total - owed = Min({Total, Cardinality(Taken)})

(* When cancel_order says an order is cancelled on the broker's word, the   *)
(* order is over and has sold nothing: no part of a fill hides behind it.   *)
CancelsTruly ==
  \A i \in Orders : legs[i].struck = "CANCELLED" => paper[i] = [st |-> "dead", sold |-> 0]

(* An exit is not replaced while it may yet fill, so the account is never   *)
(* short.  (Where the caller asks for the broker's word, nothing else ends  *)
(* a row, and a dead order has sold nothing.)                               *)
Careful == way.start = "exit" /\ way.confirm /\ ~(way.errors \/ way.timeouts \/ way.restarts \/ way.parts)
NotOversold == Careful => stock >= 0

(* An order, or a bracket, that is over does not leave a row pending: at    *)
(* Tradier through restarts, if it can be read; at Lime, and where a        *)
(* restart finds one leg of a bracket booked, because tasks tire.           *)
Followed ==
  /\ way.broker = "tradier" => ~way.errors
  /\ way.broker = "lime" \/ (way.start = "whale" /\ way.restarts) => way.timeouts
RowsEnd ==
  \A i \in All :
    (Followed /\ i \in Orders /\ \A j \in Group(i) : paper[j].st \in Over) ~> (i \in Orders /\ ~Open(i))

(* A fill whose frame has come ends its row, though the frame came before   *)
(* the task waited, or the socket dropped before the task ran.              *)
FramesHeard ==
  \A i \in All :
    (~way.restarts /\ i \in Orders /\ news[i].st = "filled") ~> (i \in Orders /\ ~Open(i))
=============================================================================
