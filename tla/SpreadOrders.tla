---------------------------- MODULE SpreadOrders ----------------------------
(***************************************************************************)
(* app/execution/spread_executor.py: butterflies opened and closed as one  *)
(* multileg order through app/execution/tradier_sdk_bridge.py.  It has its *)
(* own pollers and writes its own rows; its orders carry no broker number  *)
(* before they are filled, so nothing else finds them again.               *)
(*                                                                         *)
(* A key names the strikes.  A row of a key is inserted once: the table    *)
(* takes no second one.                                                    *)
(***************************************************************************)
EXTENDS Integers, Sequences, FiniteSets

CONSTANTS
  Keys, Analysts,
  Budget, Ceiling,   \* spread_max_risk_dollars, spread_max_contracts
  Risks, Stated,     \* what one contract may lose; the count an alert states, 0 for none
  SomeScenes         \* the gates of execute, mirroring of the count, what may happen, and two
                     \* bounds: how many orders, over which keys

VARIABLES
  scene,
  flies,      \* the Position row of a key
  tickets,    \* the Order rows, and what has become of each's coroutine
  market,     \* each order at Tradier
  lots        \* combos in the account

desk == <<scene, flies, tickets, market, lots>>

Most(a, b) == IF a >= b THEN a ELSE b
Least(a, b) == IF a <= b THEN a ELSE b

Tickets == DOMAIN tickets
(* settled: what a row was closed of with no order behind it                *)
NoFly == [status |-> "none", author |-> "none", total |-> 0, remaining |-> 0, settled |-> 0]
Ticket(k, side, qty, who) ==
  [key |-> k, side |-> side, qty |-> qty, who |-> who, status |-> "PENDING", at |-> "posting"]
Unsent == [st |-> "none", done |-> 0]
Live(i) == market[i].st = "working"
Standing(k) == flies[k].status \in {"OPEN", "PARTIAL"}

Init ==
  /\ scene \in SomeScenes
  /\ flies = [k \in Keys |-> NoFly]
  /\ tickets = <<>> /\ market = <<>>
  /\ lots = [k \in Keys |-> 0]

(* _size: what both caps allow, and no more than is stated when counts are  *)
(* mirrored.                                                                *)
Size(risk, stated) ==
  Most(0, Least(Least(Ceiling, Budget \div risk), IF scene.mirror /\ stated > 0 THEN stated ELSE Ceiling))

Writes(ticket) ==
  /\ Len(tickets) < scene.limit
  /\ tickets' = Append(tickets, ticket)
  /\ market' = Append(market, Unsent)

(* _open: refused when the key has a row that is open, and only then.       *)
Opens(k, a, risk, stated) ==
  /\ scene.gate /\ k \in scene.keys
  /\ risk > 0 /\ Size(risk, stated) >= 1
  /\ ~Standing(k)
  /\ Writes(Ticket(k, "BUY", Size(risk, stated), a))
  /\ UNCHANGED <<scene, flies, lots>>

(* The fly an alert means: the one it names, of its author's; or his only   *)
(* one.                                                                     *)
Means(k, a, named) ==
  /\ Standing(k) /\ flies[k].author = a
  /\ named \/ {j \in Keys : Standing(j) /\ flies[j].author = a} = {k}

Parts(k) == {flies[k].remaining, Most(1, flies[k].remaining \div 2)}

Closing(k) ==
  \E i \in Tickets : tickets[i].key = k /\ tickets[i].side = "SELL" /\ tickets[i].status = "PENDING"

(* _close, and close_open_position of the dashboard.  Closes already sent   *)
(* do not count.  (Whose close it is does not matter after this.)           *)
Closes(k, a, named, qty) ==
  /\ scene.gate
  /\ Means(k, a, named) \/ (a = "operator" /\ Standing(k))
  /\ scene.overlap \/ ~Closing(k)
  /\ qty \in Parts(k)
  /\ Writes(Ticket(k, "SELL", qty, "none"))
  /\ UNCHANGED <<scene, flies, lots>>

(* _book_close *)
Reduced(fly, qty) ==
  LET rest == Most(0, fly.remaining - qty) IN
  [fly EXCEPT !.remaining = rest, !.status = IF rest = 0 THEN "CLOSED" ELSE "PARTIAL"]

(* The row is closed, and a FILLED order written that was never sent.       *)
WritesOff(k) ==
  /\ Len(tickets) < scene.limit
  /\ tickets' = Append(tickets, [Ticket(k, "SELL", flies[k].remaining, "none") EXCEPT
                                  !.status = "FILLED", !.at = "over"])
  /\ market' = Append(market, [Unsent EXCEPT !.st = "dead"])
  /\ flies' = [flies EXCEPT ![k] = Reduced(@, flies[k].remaining)]
  /\ UNCHANGED <<scene, lots>>

(* An alert of an expiry without worth. *)
ClosesWorthless(k, a, named) ==
  /\ scene.gate /\ scene.expiry
  /\ Means(k, a, named)
  /\ WritesOff(k)

SoldBefore(k) == \E i \in Tickets : tickets[i].key = k /\ tickets[i].side = "SELL" /\ tickets[i].status = "FILLED"

(* _close_if_expired of the monitor: what is left of a debit fly is written *)
(* off, unless the key has a FILLED SELL already: then the row just closes. *)
(* A credit fly waits for the operator's close, which writes no order.      *)
Expires(k) ==
  /\ scene.expiry /\ Standing(k)
  /\ ~SoldBefore(k) /\ WritesOff(k)

Settles(k) ==
  /\ scene.expiry /\ Standing(k)
  /\ flies' = [flies EXCEPT ![k] = [flies[k] EXCEPT !.status = "CLOSED", !.remaining = 0,
                                                    !.settled = @ + flies[k].remaining]]
  /\ UNCHANGED <<scene, tickets, market, lots>>

(* _place: previewed, then posted. *)
Posts(i) ==
  /\ tickets[i].at = "posting"
  /\ tickets' = [tickets EXCEPT ![i].at = "polling"]
  /\ market' = [market EXCEPT ![i].st = "working"]
  /\ UNCHANGED <<scene, flies, lots>>

(* The post raises: the order was refused, or its answer was lost.          *)
PostFails(i) ==
  /\ tickets[i].at = "posting"
  /\ tickets' = [tickets EXCEPT ![i].at = "over", ![i].status = "REJECTED"]
  /\ \E st \in {"dead"} \cup (IF scene.lossy THEN {"working"} ELSE {}) :
       market' = [market EXCEPT ![i].st = st]
  /\ UNCHANGED <<scene, flies, lots>>

(* Tradier *)
Trades(i, n) ==
  LET done == market[i].done + n
      whole == done = tickets[i].qty IN
  /\ Live(i)
  /\ done <= tickets[i].qty /\ (scene.parts \/ whole)
  /\ market' = [market EXCEPT ![i] = [st |-> IF whole THEN "filled" ELSE "working", done |-> done]]
  /\ lots' = [lots EXCEPT ![tickets[i].key] = IF tickets[i].side = "BUY" THEN @ + n ELSE @ - n]
  /\ UNCHANGED <<scene, flies, tickets>>

Lapses(i) ==
  /\ Live(i)
  /\ market' = [market EXCEPT ![i].st = "dead"]
  /\ UNCHANGED <<scene, flies, tickets, lots>>

(* Mutant: whatever ends is filled. *)
SoldAnyway(i) == market[i].st \in {"filled", "dead"}

Sold(i) == market[i].st = "filled"

(* Mutant: a key that was closed is opened in its old row. *)
FreeAgain(k) == ~Standing(k)

Free(k) == flies[k].status = "none"

(* _poll_open inserts the row; if the key has one the insertion fails, the  *)
(* task ends, and the order's row stays as it was.                          *)
BooksOpen(i) ==
  LET t == tickets[i]
      k == t.key IN
  /\ t.at = "polling" /\ t.side = "BUY"
  /\ Sold(i)
  /\ tickets' = [tickets EXCEPT ![i].at = "over", ![i].status = IF Free(k) THEN "FILLED" ELSE @]
  /\ flies' = IF Free(k) THEN [flies EXCEPT ![k] = [status |-> "OPEN", author |-> t.who,
                                                    total |-> t.qty, remaining |-> t.qty, settled |-> 0]]
              ELSE flies
  /\ UNCHANGED <<scene, market, lots>>

BooksClose(i) ==
  LET t == tickets[i] IN
  /\ t.at = "polling" /\ t.side = "SELL"
  /\ Sold(i)
  /\ tickets' = [tickets EXCEPT ![i].at = "over", ![i].status = "FILLED"]
  /\ flies' = [flies EXCEPT ![t.key] = Reduced(@, t.qty)]
  /\ UNCHANGED <<scene, market, lots>>

(* _fail_order of an order that ended unfilled. *)
Fails(i) ==
  /\ tickets[i].at = "polling"
  /\ market[i].st = "dead"
  /\ tickets' = [tickets EXCEPT ![i].at = "over", ![i].status = "CANCELLED"]
  /\ UNCHANGED <<scene, flies, market, lots>>

(* The poll's deadline: the row is left PENDING, the order alive.           *)
GivesUp(i) ==
  /\ scene.tires
  /\ tickets[i].at = "polling" /\ Live(i)
  /\ tickets' = [tickets EXCEPT ![i].at = "over"]
  /\ UNCHANGED <<scene, flies, market, lots>>

(* Nothing is resumed. *)
Restarts ==
  /\ scene.restarts
  /\ \E i \in Tickets : tickets[i].at # "over"
  /\ tickets' = [i \in Tickets |-> [tickets[i] EXCEPT !.at = "over"]]
  /\ UNCHANGED <<scene, flies, market, lots>>

Next ==
  \/ \E k \in Keys, a \in Analysts, risk \in Risks, stated \in Stated : Opens(k, a, risk, stated)
  \/ \E k \in Keys, a \in Analysts \cup {"operator"}, named \in BOOLEAN, qty \in 1..Ceiling :
       Closes(k, a, named, qty)
  \/ \E k \in Keys, a \in Analysts, named \in BOOLEAN : ClosesWorthless(k, a, named)
  \/ \E k \in Keys : Expires(k) \/ Settles(k)
  \/ \E i \in Tickets : Posts(i) \/ PostFails(i) \/ Lapses(i) \/ (\E n \in 1..Ceiling : Trades(i, n))
  \/ \E i \in Tickets : BooksOpen(i) \/ BooksClose(i) \/ Fails(i) \/ GivesUp(i)
  \/ Restarts

-----------------------------------------------------------------------------
(* Properties *)

Booked(k, side) ==
  LET booked == {i \in Tickets : tickets[i].key = k /\ tickets[i].side = side /\ tickets[i].status = "FILLED"} IN
  Cardinality(UNION {{i} \X (1 .. tickets[i].qty) : i \in booked})

(* A row counts what its FILLED orders say, one opening and all the closes, *)
(* whichever were in flight together, lost their poller or found the key    *)
(* taken, but for what was settled at the expiry without an order; and      *)
(* neither cap is passed.                                                   *)
SpreadsAgree ==
  \A k \in Keys :
    /\ flies[k].total = Booked(k, "BUY") /\ flies[k].total <= Ceiling
    /\ flies[k].remaining = Most(0, flies[k].total - Booked(k, "SELL") - flies[k].settled)

(* What a row counts is in the account, but for sales it has still to book: *)
(* while one close of a fly is under way at a time, orders end whole, in    *)
(* time, with the answers that were sent.                                   *)
Orderly == ~scene.overlap /\ ~scene.lossy /\ ~scene.parts /\ ~scene.tires /\ ~scene.restarts
Due(k) ==
  LET pending == {i \in Tickets : tickets[i].key = k /\ tickets[i].side = "SELL" /\ tickets[i].status = "PENDING"} IN
  Cardinality(UNION {{i} \X (1 .. market[i].done) : i \in pending})
SpreadsBacked == Orderly => \A k \in Keys : flies[k].remaining <= lots[k] + Due(k)
=============================================================================
