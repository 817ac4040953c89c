------------------------------ MODULE Recovery ------------------------------
(***************************************************************************)
(* app/monitors/reconciler.py with what it repairs: the rows of one        *)
(* contract's orders and position, the tasks that poll for fills, and the  *)
(* restart that forgets the tasks and resumes some (core/app.py).          *)
(*                                                                         *)
(* The broker's portfolio lags its own fills, and a pass of the reconciler *)
(* works on a portfolio it fetched before an await, then on fills it       *)
(* fetched in another.  A fetch may fail, a poll may give up, a cancel may *)
(* not arrive, the process may stop anywhere.                              *)
(***************************************************************************)
EXTENDS Integers, Sequences, FiniteSets

CONSTANTS
  SomeSettings        \* [public, lookup, write, timeout, require: BOOLEAN], the quantity of an
                      \* entry, and the bounds: whether an order is filled in parts, how
                      \* many order rows, how many of them BUYs, which faults (of crash,
                      \* fetch, poll, cancel, post, elsewhere), and how many of them

ASSUME RecoveryAssumption ==
  \A s \in SomeSettings : s.lot \in Nat \ {0} /\ {s.orders, s.bound} \subseteq Nat

VARIABLES
  set,         \* the settings
  rows,        \* order rows, in the order they were written
  broker,      \* the broker's order of each row
  task,        \* who polls it: a full task, that has its alert or position, a blind one
  placing,     \* the row whose POST is awaited; 0 for none
  pos,         \* the position row
  held,        \* contracts in the account
  shown,       \* the portfolio it answers with: contracts, and how many sales they count
  sales,       \* the account's history of sales
  misses,      \* _missing_position_misses
  reconciled,  \* _reconciled_once
  pass,        \* the reconciler's pass
  boot,        \* how far the process has come up
  faults,      \* history: faults so far
  cycle,       \* history: how often the position was opened
  stray,       \* history: did a POST raise while a task was polling its order?
  skewed       \* history: was a sale adopted that the next search may take again?

orders == <<rows, broker, task, placing>>
account == <<held, shown, sales>>
memory == <<misses, reconciled, pass, boot>>
history == <<faults, cycle, stray, skewed>>
vars == <<set, orders, pos, account, memory, history>>

Idle == [at |-> "idle"]
NoPosition == [row |-> "none", left |-> 0, recent |-> FALSE, since |-> 1, sales |-> 0, began |-> 0]
Open == pos.row = "open"

(* The rows a pass or an exit takes for live, and those a restart resumes.  *)
Working == {"PENDING", "PARTIALLY_FILLED"}
LiveSells == {i \in DOMAIN rows : rows[i].side = "SELL" /\ rows[i].status \in Working}

Init ==
  /\ set \in SomeSettings
  /\ rows = <<>> /\ broker = <<>> /\ task = <<>> /\ placing = 0
  /\ pos = NoPosition
  /\ held = 0 /\ shown = [qty |-> 0, sales |-> 0] /\ sales = <<>>
  /\ misses = 0 /\ reconciled = FALSE /\ pass = Idle /\ boot = "reconciling"
  /\ faults = 0 /\ cycle = 0 /\ stray = FALSE /\ skewed = FALSE

Fault(kind) == kind \in set.faults /\ faults < set.bound /\ faults' = faults + 1

-----------------------------------------------------------------------------
(* Orders *)

Bought == Cardinality({i \in DOMAIN rows : rows[i].side = "BUY"})

(* A row is committed before its order is sent.  A BUY waits for a pass of  *)
(* the reconciler; a SELL for any other to end.                             *)
Commits(side, lot) ==
  /\ boot \in {"resuming", "up"} /\ placing = 0
  /\ Len(rows) < set.orders
  /\ IF side = "BUY" THEN lot = set.lot /\ (reconciled \/ ~set.require) /\ Bought < set.buys
     ELSE Open /\ lot <= pos.left /\ LiveSells = {}
  /\ rows' = Append(rows, [side |-> side, qty |-> lot, status |-> "PENDING", filled |-> 0,
                          early |-> FALSE])
  /\ broker' = Append(broker, [at |-> "none", filled |-> 0])
  /\ task' = Append(task, {})
  /\ placing' = Len(rows) + 1
  /\ UNCHANGED <<set, pos, account, memory, history>>

(* The POST is accepted and a task begins to poll. *)
Posts ==
  /\ placing # 0
  /\ broker' = [broker EXCEPT ![placing].at = "working"]
  /\ task' = [task EXCEPT ![placing] = @ \cup {"full"}]
  /\ placing' = 0
  /\ UNCHANGED <<set, rows, pos, account, memory, history>>

(* The POST raises, and the order may have been accepted all the same: a    *)
(* task that a restart resumed while it was awaited goes on polling a row   *)
(* that reads REJECTED.                                                     *)
Reached == {broker, [broker EXCEPT ![placing].at = "working"]}

PostRaises ==
  /\ placing # 0
  /\ rows' = [rows EXCEPT ![placing].status = "REJECTED"]
  /\ broker' \in Reached
  /\ placing' = 0
  /\ stray' = (stray \/ task[placing] # {})
  /\ Fault("post")
  /\ UNCHANGED <<set, task, pos, account, memory, cycle, skewed>>

(* The broker fills n contracts, for a sale an entry of the account's       *)
(* history.  The portfolio shows it later.                                  *)
Fills(i, n) ==
  LET buy == rows[i].side = "BUY"
      now == broker[i].filled + n IN
  /\ broker[i].at = "working" /\ now <= rows[i].qty
  /\ buy \/ held >= n
  /\ set.parts \/ now = rows[i].qty
  /\ broker' = [broker EXCEPT ![i] = [at |-> IF now = rows[i].qty THEN "filled" ELSE "working", filled |-> now]]
  /\ held' = IF buy THEN held + n ELSE held - n
  /\ sales' = IF buy THEN sales ELSE Append(sales, n)
  /\ UNCHANGED <<set, rows, task, placing, pos, shown, memory, history>>

Drops(i) ==
  /\ broker[i].at = "working"
  /\ broker' = [broker EXCEPT ![i].at = "dead"]
  /\ UNCHANGED <<set, rows, task, placing, pos, account, memory, history>>

Portfolio == [qty |-> held, sales |-> Len(sales)]

Shows ==
  /\ shown # Portfolio
  /\ shown' = Portfolio
  /\ UNCHANGED <<set, orders, pos, held, sales, memory, history>>

SoldElsewhere ==
  /\ \E n \in 1..held : held' = held - n /\ sales' = Append(sales, n)
  /\ Fault("elsewhere")
  /\ UNCHANGED <<set, orders, pos, shown, memory, cycle, stray, skewed>>

-----------------------------------------------------------------------------
(* The task that polls an order *)

(* A row that opens, and one that closes: the sales so far are history.     *)
Opened(left) ==
  [row |-> "open", left |-> left, recent |-> FALSE, since |-> Len(rows) + 1, sales |-> 0, began |-> Len(sales)]
Closed == [pos EXCEPT !.row = "closed", !.left = 0, !.recent = TRUE, !.sales = Len(sales)]

(* Of what is sold no more is taken off than is left. *)
Sold(n) == IF pos.left <= n THEN Closed ELSE [pos EXCEPT !.left = @ - n]

(* What the row has not recorded of the order's fills. *)
Newly(i) == IF broker[i].filled > rows[i].filled THEN broker[i].filled - rows[i].filled ELSE 0

Returns(i, who) == task' = [task EXCEPT ![i] = @ \ {who}]

(* A task resumed by a restart knows neither alert nor position: it marks   *)
(* the row, and the position stays as it is.  A BUY's final fill reopens a  *)
(* closed row with all of it.                                               *)
BooksFill(i, who) ==
  /\ broker[i].at = "filled"
  /\ rows' = [rows EXCEPT ![i].status = "FILLED", ![i].filled = broker[i].filled]
  /\ pos' = IF who = "blind" THEN pos
            ELSE IF rows[i].side = "SELL" THEN Sold(Newly(i))
            ELSE IF Open THEN [pos EXCEPT !.left = @ + Newly(i)] ELSE Opened(broker[i].filled)
  /\ Returns(i, who)
  /\ cycle' = IF pos'.row = "open" /\ ~Open THEN cycle + 1 ELSE cycle
  /\ UNCHANGED <<set, broker, placing, account, memory, faults, stray, skewed>>

(* Of a partial fill only a BUY's is booked, and its row leaves PENDING.    *)
BooksPart(i, who) ==
  /\ broker[i].at = "working" /\ Newly(i) > 0
  /\ rows[i].side = "BUY" /\ who = "full"
  /\ rows' = [rows EXCEPT ![i].status = "PARTIALLY_FILLED", ![i].filled = broker[i].filled]
  /\ pos' = IF Open THEN [pos EXCEPT !.left = @ + Newly(i)] ELSE Opened(Newly(i))
  /\ cycle' = IF Open THEN cycle ELSE cycle + 1
  /\ UNCHANGED <<set, broker, task, placing, account, memory, faults, stray, skewed>>

SeesEnd(i, who) ==
  /\ broker[i].at = "dead"
  /\ rows' = [rows EXCEPT ![i].status = "CANCELLED"]
  /\ Returns(i, who)
  /\ UNCHANGED <<set, broker, placing, pos, account, memory, history>>

Ended(i, status) == [rows EXCEPT ![i].status = IF @ = "PENDING" THEN status ELSE @]

(* max_pending_minutes: cancelled, and the row says so whatever the broker  *)
(* answers.  Two tasks of one order started within seconds of each other    *)
(* and give it up together, long after its POST has ended.                  *)
TimesOut(i) ==
  /\ set.timeout /\ i # placing
  /\ \/ /\ broker' = [broker EXCEPT ![i].at = IF @ = "working" THEN "dead" ELSE @]
        /\ UNCHANGED faults
     \/ UNCHANGED broker /\ Fault("cancel")
  /\ rows' = Ended(i, "CANCELLED")
  /\ task' = [task EXCEPT ![i] = {}]
  /\ UNCHANGED <<set, placing, pos, account, memory, cycle, stray, skewed>>

(* Ten errors on end. *)
GivesUp(i) ==
  /\ i # placing
  /\ rows' = Ended(i, "ERROR")
  /\ task' = [task EXCEPT ![i] = {}]
  /\ Fault("poll")
  /\ UNCHANGED <<set, broker, placing, pos, account, memory, cycle, stray, skewed>>

Polls(i) ==
  /\ i \in DOMAIN rows
  /\ \E who \in task[i] :
       BooksFill(i, who) \/ BooksPart(i, who) \/ SeesEnd(i, who) \/ TimesOut(i) \/ GivesUp(i)

-----------------------------------------------------------------------------
(* The reconciler's pass *)

Fetched(answer, ended) ==
  [at |-> "fetched", qty |-> answer.qty, sales |-> answer.sales, ended |-> ended, left |-> 0]

(* get_portfolio.  It lists working orders, and of those that ended some.   *)
(* When it fails the pass goes on with a portfolio that is empty.           *)
Fetches ==
  /\ pass = Idle /\ (boot = "reconciling" => ~reconciled)
  /\ set.public
  /\ \/ \E ended \in {{}, {i \in DOMAIN rows : broker[i].at = "dead"}} : pass' = Fetched(shown, ended)
        /\ UNCHANGED faults
     \/ pass' = Fetched([qty |-> 0, sales |-> 0], {}) /\ Fault("fetch")
  /\ UNCHANGED <<set, orders, pos, account, misses, reconciled, boot, cycle, stray, skewed>>

(* On another broker a pass reports and changes nothing.                    *)
Shadows ==
  /\ pass = Idle
  /\ ~set.public
  /\ ~reconciled
  /\ reconciled' = TRUE
  /\ UNCHANGED <<set, orders, pos, account, misses, pass, boot, history>>

Struck == [i \in DOMAIN rows |->
             IF i \in pass.ended /\ rows[i].status \in Working
               THEN [rows[i] EXCEPT !.status = "CANCELLED"] ELSE rows[i]]

(* Mutant: any row that is open for contracts is taken at its word. *)
ReopensAtOnce == pass.qty > 0 /\ ~Open

(* A contract the portfolio has and no open row: inserted, or the closed    *)
(* row reopened unless it closed a moment ago.                              *)
Reopens == pass.qty > 0 /\ ~Open /\ ~(pos.row = "closed" /\ pos.recent)

(* A reopened row keeps the time it was opened at. *)
Reopened ==
  IF pos.row = "none" THEN Opened(pass.qty)
  ELSE [Opened(pass.qty) EXCEPT !.since = pos.since, !.began = pos.began]

Missing == pass.qty = 0 /\ Open
Gone == Missing /\ misses + 1 >= 2

(* Mutant: no SELL row, whatever its state. *)
DriftsNever == pass.qty > 0 /\ Open /\ ~\E i \in DOMAIN rows : rows[i].side = "SELL"

(* Another quantity, and no SELL in flight.                                 *)
Drifts == pass.qty > 0 /\ Open /\ LiveSells = {}

(* All of a pass but the lookup of what became of a position that is gone.  *)
Applies ==
  /\ pass.at = "fetched"
  /\ ~(Gone /\ set.lookup)
  /\ pos' = IF Reopens THEN Reopened
            ELSE IF Gone THEN Closed
            ELSE IF Drifts THEN [pos EXCEPT !.left = pass.qty] ELSE pos
  /\ misses' = IF Missing /\ ~Gone THEN misses + 1 ELSE 0
  /\ rows' = Struck
  /\ cycle' = IF Reopens THEN cycle + 1 ELSE cycle
  /\ reconciled' = TRUE
  /\ pass' = Idle
  /\ UNCHANGED <<set, broker, task, placing, account, boot, faults, stray, skewed>>

(* The position is read before the lookup's await.                          *)
Looks ==
  /\ pass.at = "fetched" /\ Gone /\ set.lookup
  /\ pass' = [pass EXCEPT !.at = "looking", !.left = pos.left]
  /\ misses' = 0
  /\ UNCHANGED <<set, orders, pos, account, reconciled, boot, history>>

(* Mutant: what the rows have is not looked at. *)
LocalSoldNone == 0

(* _local_sold_qty: of the rows placed since the position was opened; an    *)
(* adopted row was placed when its sale was made.                           *)
SoldQty(i) == IF rows[i].side = "SELL" /\ rows[i].status = "FILLED" THEN rows[i].filled ELSE 0
Total(s) == LET upto[n \in 0..Len(s)] == IF n = 0 THEN 0 ELSE upto[n - 1] + s[n] IN upto[Len(s)]
SoldRows == [i \in DOMAIN rows |-> SoldQty(i)]
LocalSold == Total([i \in DOMAIN rows |-> IF i >= pos.since /\ ~rows[i].early THEN SoldQty(i) ELSE 0])

First(k) == Total(SubSeq(sales, 1, k))
Earliest(S) == CHOOSE k \in S : \A j \in S : k <= j

(* The lookup passes over the sales the rows' sum covers, in order, and     *)
(* takes the first that it does not, all of it.                             *)
Unmatched == {k \in DOMAIN sales : First(k) > LocalSold}
Found == Earliest(Unmatched)

(* _adopt_sell_fill: into the latest SELL row that died or is pending, or   *)
(* new ones.  What it writes to a session is seen by the session's queries  *)
(* after the commit only: of several sales the last stays in the row.       *)
Adoptable == {i \in DOMAIN rows : rows[i].side = "SELL" /\ i >= pos.since
                                  /\ rows[i].status \in {"CANCELLED", "REJECTED", "PENDING"}}
Latest == CHOOSE i \in Adoptable : \A j \in Adoptable : j <= i

Sale(k, n) == [side |-> "SELL", qty |-> n, status |-> "FILLED", filled |-> n, early |-> k <= pos.began]

Adopts(rs, new) ==
  IF Adoptable # {}
    THEN /\ rows' = [rs EXCEPT ![Latest].status = "FILLED", ![Latest].filled = new[Len(new)].filled]
         /\ UNCHANGED <<broker, task>>
    ELSE /\ rows' = rs \o new
         /\ broker' = broker \o [k \in DOMAIN new |-> [at |-> "none", filled |-> new[k].filled]]
         /\ task' = task \o [k \in DOMAIN new |-> {}]

(* A row that is new and placed before the position was opened. *)
Untimely(k) == Adoptable = {} /\ k <= pos.began

(* The row is closed at the time of the k-th sale.  By then a portfolio may *)
(* show it, or may not yet.                                                 *)
ClosedAt(k) == {[pos EXCEPT !.row = "closed", !.left = 0, !.recent = r, !.sales = k] :
                 r \in {r \in BOOLEAN : r \/ shown.sales >= k}}

(* The position is closed, found or not.  A sale of less than it has left   *)
(* closes it without a time: its row has none, as long as it was open.      *)
Closes(found) ==
  /\ pass.at = "looking"
  /\ IF found THEN Adopts(Struck, <<Sale(Found, sales[Found])>>)
     ELSE rows' = Struck /\ UNCHANGED <<broker, task>>
  /\ pos' \in IF ~found THEN {Closed}
              ELSE IF pass.left <= sales[Found] THEN ClosedAt(Found)
              ELSE {[pos EXCEPT !.row = "closed", !.left = 0]}
  /\ skewed' = (skewed \/ (found /\ (First(Found - 1) # LocalSold \/ Untimely(Found))))
  /\ reconciled' = TRUE
  /\ pass' = Idle
  /\ UNCHANGED <<set, placing, account, misses, boot, cycle, stray>>

Resolves ==
  \/ Closes(Unmatched # {}) /\ UNCHANGED faults
  \/ Closes(FALSE) /\ Fault("fetch")

(* reconcile_reopen_min_closed_age_s: longer than any portfolio lags, and   *)
(* than any pass takes.                                                     *)
Ages ==
  /\ pos.recent
  /\ shown.sales >= pos.sales
  /\ pass # Idle => pass.sales >= pos.sales
  /\ pos' = [pos EXCEPT !.recent = FALSE]
  /\ UNCHANGED <<set, orders, account, memory, history>>

-----------------------------------------------------------------------------
(* The process *)

(* Everything in memory is lost, and the alerts wait for the first pass.    *)
(* An order whose POST was under way may have been accepted.                *)
Crashes ==
  /\ task' = [i \in DOMAIN task |-> {}]
  /\ placing' = 0
  /\ misses' = 0 /\ reconciled' = FALSE /\ pass' = Idle
  /\ boot' = "reconciling"
  /\ broker' \in IF placing = 0 THEN {broker} ELSE Reached
  /\ Fault("crash")
  /\ UNCHANGED <<set, rows, pos, account, cycle, stray, skewed>>

(* backfill_missing_sell_fills: when told to write, as much as the rows     *)
(* lack of the total is adopted, from the first sale on.                    *)
Lacking == IF Total(sales) > LocalSold THEN Total(sales) - LocalSold ELSE 0
Taken == Earliest({k \in DOMAIN sales : First(k) >= Lacking})
Takes == [k \in 1..Taken |-> Sale(k, IF k < Taken THEN sales[k] ELSE Lacking - First(Taken - 1))]

Recovers ==
  /\ Adopts(rows, Takes)
  /\ skewed' = (skewed \/ Untimely(1))
  /\ pos' \in IF pos.left > Lacking THEN {[pos EXCEPT !.left = @ - Lacking]} ELSE ClosedAt(Taken)

Backfills ==
  /\ boot = "reconciling"
  /\ reconciled /\ pass = Idle
  /\ IF set.write /\ set.public /\ Lacking > 0 /\ pos.row # "none" THEN Recovers
     ELSE UNCHANGED <<rows, broker, task, pos, skewed>>
  /\ boot' = "resuming"
  /\ UNCHANGED <<set, placing, account, misses, reconciled, pass, faults, cycle, stray>>

(* Mutant: entries are resumed, exits left to the reconciler. *)
ResumableBuys == {i \in DOMAIN rows : rows[i].status = "PENDING" /\ rows[i].side = "BUY"}

(* _resume_pending_orders takes the rows that are PENDING, those written in *)
(* the seconds it waits first included.                                     *)
Resumable == {i \in DOMAIN rows : rows[i].status = "PENDING"}

Resumes ==
  /\ boot = "resuming"
  /\ task' = [i \in DOMAIN task |-> IF i \in Resumable THEN task[i] \cup {"blind"} ELSE task[i]]
  /\ boot' = "up"
  /\ UNCHANGED <<set, rows, broker, placing, pos, account, misses, reconciled, pass, history>>

Watches == \E i \in DOMAIN rows : Polls(i)
Reconciles == Fetches \/ Shadows \/ Applies \/ Looks \/ Resolves
Boots == Backfills \/ Resumes

Next ==
  \/ \E side \in {"BUY", "SELL"} : \E lot \in {set.lot} \cup 1..pos.left : Commits(side, lot)
  \/ Posts \/ PostRaises
  \/ \E i \in DOMAIN rows : (\E n \in 1..rows[i].qty : Fills(i, n)) \/ Drops(i)
  \/ Shows \/ SoldElsewhere
  \/ Watches \/ Reconciles \/ Ages
  \/ Crashes \/ Boots

(* The loops run, the portfolio catches up, and time passes.                *)
Fairness ==
  /\ \A i \in 1..3 : WF_vars(Polls(i))
  /\ WF_vars(Posts) /\ WF_vars(Shows) /\ WF_vars(Ages)
  /\ WF_vars(Reconciles) /\ WF_vars(Boots)

Spec == Init /\ [][Next]_vars /\ Fairness

-----------------------------------------------------------------------------
(* Properties *)

(* A pass reopens a closed row only on a portfolio that counts every sale   *)
(* made up to the time the row says it was closed: one that the portfolio   *)
(* in hand has not seen is not undone, neither when the portfolio lags nor  *)
(* when the row was closed while the pass was under way.  That time is the  *)
(* closing itself, when all sales so far had been made; of a row that was   *)
(* closed with an adopted sale it is the sale's, and there is none when the *)
(* sale was less than the row had left.                                     *)
NoResurrection ==
  [][pass.at = "fetched" /\ pos.row = "closed" /\ pos'.row = "open" => \/ pass' = pass
                                                                      \/ pass.sales >= pos.sales]_vars

(* No sale is recorded twice: of the first position the rows' sales are no  *)
(* more than the account's, whoever recorded them: the task that saw the    *)
(* fill, the pass that found the position gone, or the backfill at startup. *)
(* There are three exceptions.  An order that was polled before its POST    *)
(* raised: its sale may be adopted into the row of the exit that replaced   *)
(* it, and is then booked a second time by the task.  A lookup that takes a *)
(* sale of which the rows have a part, or which is theirs and only came     *)
(* after one that is not.  And a row adopted of a sale made before the      *)
(* position was booked open, which the next search does not count.          *)
SoldOnce == cycle <= 1 /\ ~stray /\ ~skewed => Total(SoldRows) <= Total(sales)

(* Every order row that is pending ends, over restarts, lost POSTs, polls   *)
(* that give up and cancels that do not arrive.                             *)
Pending(i) == i \in DOMAIN rows /\ rows[i].status = "PENDING"
OrdersEnd == set.timeout => \A i \in 1..3 : Pending(i) ~> ~Pending(i)

(* However it was lost, the books come back to what the account holds.      *)
Agreed == pos.left = held
Converges == set.timeout /\ set.public => <>[]Agreed
=============================================================================
