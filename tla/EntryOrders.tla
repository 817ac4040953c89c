---------------------------- MODULE EntryOrders ----------------------------
(***************************************************************************)
(* The life of the BUY orders, in app/execution/public_executor.py: from   *)
(* an analyst's alert to a position row.                                   *)
(*                                                                         *)
(* An alert is handled by the queue worker (its job).  What the price      *)
(* refused is watched by a cooldown task (cool), what was placed is chased *)
(* by a re-peg watcher (peg), and the operator may resubmit it (over).     *)
(* Those four tasks of one alert know of each other only through the rows  *)
(* of the database, and each reads a row, awaits a quote or the broker,    *)
(* and acts.  The code between two awaits is one action.                   *)
(*                                                                         *)
(* Exits are one step here: ExitOrders has their life.  Prices are         *)
(* reduced to what the code compares: the quote ran away from the alert,   *)
(* or did not; OrderPricing has the arithmetic.                            *)
(***************************************************************************)
EXTENDS Integers, FiniteSets, FiniteSetsExt

CONSTANTS
  Buys, Sells,    \* alerts
  NoAlert,
  Contracts, ContractOf,
  Analysts,
  Qty,            \* contracts of every entry
  MaxRows,        \* bound: rows of the orders table
  MaxOpen,        \* max_open_positions
  MaxTrades,      \* max_daily_trades
  Repegged,       \* the alerts whose profile sets buy_repeg_enabled
  MaxAttempts,    \* buy_repeg_max_attempts
  CooldownOn,     \* slippage_cooldown_retry_seconds > 0
  Worlds          \* bound: who wrote which alert, what the operator may do to each
                  \* entry, and what may befall its orders, of the Troubles

Alerts == Buys \cup Sells

(* The broker fills in part, is slow to confirm a cancel or refuses the     *)
(* POST; the call raises though the broker takes the order; a cancel raises *)
(* in cancel_order, or is lost in the poller; the polls fail ten times.     *)
Troubles == {"partial", "slowCancel", "refuse", "ambiguous", "cancelRaises", "cancelLost", "pollErrors"}

ASSUME AlertAssumption ==
  /\ Buys \cap Sells = {}
  /\ NoAlert \notin Alerts
  /\ ContractOf \in [Alerts -> Contracts]
ASSUME SizeAssumption ==
  /\ {Qty, MaxRows, MaxOpen, MaxTrades} \subseteq Nat \ {0}
  /\ MaxAttempts \in Nat
  /\ Repegged \subseteq Buys
  /\ CooldownOn \in BOOLEAN
ASSUME WorldAssumption ==
  Worlds \subseteq [author : [Alerts -> Analysts],
                    operator : [Buys -> SUBSET {"strike", "resubmit"}],
                    faults : [Buys -> SUBSET Troubles]]

VARIABLES
  world,     \* one of the Worlds, for good
  alert,     \* Alert.status
  queue,     \* alerts in the order queue
  worker,    \* the alert the worker runs
  task,      \* of each BUY alert: its four tasks
  clearing,  \* of each SELL alert: the entries it found, and is still to cancel
  row,       \* the Order rows, in order of insertion
  rows,      \* how many there are
  broker,    \* what the broker has of each
  polling,   \* rows with a _poll_order_fill task
  pos,       \* the Position rows
  held,      \* contracts in the account
  slipped,   \* contracts with a SLIPPAGE_BLOCK inside the window
  reopened,  \* history: contracts whose row an order reopened with more than was new
  letgo,     \* history: orders nobody follows, though they are at work or not all booked
  misled     \* history: alerts of which a task was told by the rows to buy over an order

vars == <<world, alert, queue, worker, task, clearing, row, rows, broker, polling,
          pos, held, slipped, reopened, letgo, misled>>
books == <<pos, held, reopened>>
past == <<slipped, letgo>>
orders == <<row, rows, broker, polling>>
desk == <<queue, worker, clearing>>

Oids == 1..MaxRows
Kinds == {"job", "over", "cool", "peg"}

NoTask == [pc |-> "idle", cur |-> 0, saw |-> "NONE", tries |-> 0]
Asleep(o) == [pc |-> "asleep", cur |-> o, saw |-> "NONE", tries |-> 0]
NoRow == [alert |-> NoAlert, status |-> "NONE", filled |-> 0]
NoOrder == [state |-> "NONE", filled |-> 0]

AuthorOf == world.author
Operator == world.operator
Faults == world.faults

Init ==
  /\ world \in Worlds
  /\ alert = [a \in Alerts |-> "NEW"]
  /\ queue = {}
  /\ worker = NoAlert
  /\ task = [b \in Buys |-> [k \in Kinds |-> NoTask]]
  /\ clearing = [s \in Sells |-> [found |-> {}, todo |-> {}]]
  /\ row = [o \in Oids |-> NoRow]
  /\ rows = 0
  /\ broker = [o \in Oids |-> NoOrder]
  /\ polling = {}
  /\ pos = [c \in Contracts |-> [status |-> "NONE", left |-> 0, owner |-> NoAlert]]
  /\ held = [c \in Contracts |-> 0]
  /\ slipped = {}
  /\ reopened = {}
  /\ letgo = {}
  /\ misled = {}

-----------------------------------------------------------------------------
(* Helpers *)

Open == {c \in Contracts : pos[c].status = "OPEN" /\ pos[c].left > 0}
RowsOf(c) == {o \in 1..rows : ContractOf[row[o].alert] = c}
PendingOn(c) == {o \in RowsOf(c) : row[o].status = "PENDING"}

(* _pos_owned_by: an unowned row is anybody's. *)
Owns(a, c) == pos[c].owner \in {NoAlert, AuthorOf[a]}

(* What _check_buy_guards counts: open rows, and today's entries that are *)
(* PENDING or FILLED.                                                     *)
WithinCaps ==
  /\ Cardinality(Open) < MaxOpen
  /\ Cardinality({o \in 1..rows : row[o].status \in {"PENDING", "FILLED"}}) < MaxTrades

Turns(b, t) == task' = [task EXCEPT ![b] = t]
Goes(b, k, pc) == Turns(b, [task[b] EXCEPT ![k].pc = pc])
Is(b, k, pc) == task[b][k].pc = pc
Rests(b, k) == task[b][k].pc \in {"idle", "done"}
Marks(a, s) == alert' = [alert EXCEPT ![a] = s]

(* The worker is free and no exit is queued before an entry. *)
Takes(a) ==
  /\ worker = NoAlert
  /\ a \in queue
  /\ a \in Buys => queue \cap Sells = {}
  /\ queue' = queue \ {a}

(* A new Order row for task k of alert b, and its POST on the way. *)
Inserts(b, k, tries) ==
  /\ rows < MaxRows
  /\ rows' = rows + 1
  /\ row' = [row EXCEPT ![rows + 1] = [alert |-> b, status |-> "PENDING", filled |-> 0]]
  /\ broker' = [broker EXCEPT ![rows + 1].state = "SENT"]
  /\ Turns(b, [task[b] EXCEPT ![k] = [pc |-> "posting", cur |-> rows + 1, saw |-> "NONE", tries |-> tries]])
  /\ UNCHANGED polling

Skips(b, k) ==
  /\ Marks(b, "SKIPPED")
  /\ Goes(b, k, "done")
  /\ worker' = IF k = "job" THEN NoAlert ELSE worker

-----------------------------------------------------------------------------
(* The worker and _buy *)

(* The listener dispatches an alert it has stored. *)
Arrives(a) ==
  /\ alert[a] = "NEW"
  /\ Marks(a, "PENDING")
  /\ queue' = queue \cup {a}
  /\ UNCHANGED <<worker, task, clearing, orders, books, past>>

(* execute() of a BUY up to _buy: any of the filters in front may refuse    *)
(* it, and the caps must when they are reached.                             *)
Checks(b) ==
  /\ Takes(b)
  /\ \/ /\ Marks(b, "SKIPPED")
        /\ Goes(b, "job", "done")
        /\ UNCHANGED worker
     \/ /\ WithinCaps
        /\ worker' = b
        /\ Goes(b, "job", "checked")
        /\ UNCHANGED alert
  /\ UNCHANGED <<clearing, orders, books, past>>

(* _buy up to the quote: another analyst's row, and a contract whose price  *)
(* was refused a moment ago, are left alone.                                *)
Prices(b, k) ==
  /\ k \in {"job", "over"}
  /\ Is(b, k, "checked")
  /\ IF ContractOf[b] \in slipped \/ (ContractOf[b] \in Open /\ ~Owns(b, ContractOf[b]))
       THEN Skips(b, k)
       ELSE Goes(b, k, "quoting") /\ UNCHANGED <<alert, worker>>
  /\ UNCHANGED <<queue, clearing, orders, books, past>>

(* The quote is in: the price ran away and the cooldown task takes over, or *)
(* the order is placed.  Bound: an alert has one cooldown task, and one     *)
(* watcher, at a time.                                                      *)
RanAway(b, k) ==
  /\ k \in {"job", "over"}
  /\ Is(b, k, "quoting")
  /\ alert' = [alert EXCEPT ![b] = "SKIPPED"]
  /\ slipped' = slipped \cup {ContractOf[b]}
  /\ Turns(b, [task[b] EXCEPT ![k].pc = "done",
                               !["cool"] = IF CooldownOn /\ Rests(b, "cool") THEN Asleep(0) ELSE @])
  /\ worker' = IF k = "job" THEN NoAlert ELSE worker
  /\ UNCHANGED <<queue, clearing, orders, books, letgo>>

Places(b, k) ==
  /\ k \in {"job", "over"}
  /\ Is(b, k, "quoting")
  /\ Inserts(b, k, 0)
  /\ UNCHANGED <<alert, desk, books, past>>

(* Mutant: an order of the cooldown task is not polled. *)
PostReturnsUnpolled(b, k) ==
  LET o == task[b][k].cur IN
  /\ Is(b, k, "posting")
  /\ broker[o].state # "SENT"
  /\ polling' = IF k = "cool" THEN polling ELSE polling \cup {o}
  /\ Goes(b, k, IF k = "peg" THEN "asleep" ELSE "done")
  /\ worker' = IF k = "job" THEN NoAlert ELSE worker
  /\ UNCHANGED <<alert, queue, clearing, row, rows, broker, books, past>>

(* The broker took the order: it is polled, and the first order of an alert *)
(* with a re-peg profile is chased.                                         *)
PostReturns(b, k) ==
  LET o == task[b][k].cur IN
  /\ Is(b, k, "posting")
  /\ broker[o].state # "SENT"
  /\ polling' = polling \cup {o}
  /\ IF k = "peg"
       THEN Goes(b, "peg", "asleep")
       ELSE Turns(b, [task[b] EXCEPT
              ![k].pc = "done",
              !["peg"] = IF k \in {"job", "over"} /\ b \in Repegged /\ Rests(b, "peg")
                           THEN Asleep(o) ELSE @])
  /\ IF k \in {"job", "over"} THEN Marks(b, "PENDING") ELSE UNCHANGED alert
  /\ worker' = IF k = "job" THEN NoAlert ELSE worker
  /\ UNCHANGED <<queue, clearing, row, rows, broker, books, past>>

(* At work at the broker, or bought beyond what its row says.               *)
Loose(o) == broker[o].state \in {"SENT", "LIVE"} \/ broker[o].filled > row[o].filled
LetsGo(o) == letgo' = IF Loose(o)' THEN letgo \cup {o} ELSE letgo

(* The POST raises, refused or (504s, a lost answer) taken all the same.    *)
(* _handle_order_failure rejects the row and the alert; the cooldown task's *)
(* row is detached by then, and stays PENDING; the re-peg watcher returns   *)
(* and leaves both as they are.  Nobody polls the order.                    *)
PostFails(b, k) ==
  LET o == task[b][k].cur IN
  /\ Is(b, k, "posting")
  /\ \/ "refuse" \in Faults[b] /\ broker[o].state = "SENT" /\ broker' = [broker EXCEPT ![o].state = "DEAD"]
     \/ "ambiguous" \in Faults[b] /\ UNCHANGED broker
  /\ row' = IF k \in {"job", "over"} THEN [row EXCEPT ![o].status = "REJECTED"] ELSE row
  /\ IF k = "peg" THEN UNCHANGED alert ELSE Marks(b, "ERROR")
  /\ Goes(b, k, "done")
  /\ worker' = IF k = "job" THEN NoAlert ELSE worker
  /\ UNCHANGED <<queue, clearing, rows, polling, books, slipped>>
  /\ LetsGo(o)

-----------------------------------------------------------------------------
(* _retry_buy_on_slippage_cooldown *)

(* Another path opened the contract, or took the alert. *)
Overtaken(b) == ContractOf[b] \in Open \/ alert[b] # "SKIPPED"

CoolWakes(b) ==
  /\ Is(b, "cool", "asleep")
  /\ \/ Goes(b, "cool", IF Overtaken(b) THEN "done" ELSE "quoting")
     \/ Goes(b, "cool", "done")   \* the window is over
  /\ UNCHANGED <<alert, desk, orders, books, past>>

Cooled(b) ==
  /\ Is(b, "cool", "quoting")
  /\ \/ Goes(b, "cool", "asleep") /\ UNCHANGED <<alert, orders>>
     \/ Overtaken(b) /\ Goes(b, "cool", "done") /\ UNCHANGED <<alert, orders>>
     \/ ~Overtaken(b) /\ Inserts(b, "cool", 0) /\ Marks(b, "PENDING")
  /\ UNCHANGED <<desk, books, past>>

(* The window of the attempts outlasts the cooldown's. *)
Forgets(c) ==
  /\ c \in slipped
  /\ \A b \in Buys : ContractOf[b] = c => task[b]["cool"].pc \notin {"asleep", "quoting"}
  /\ slipped' = slipped \ {c}
  /\ UNCHANGED <<alert, desk, task, orders, books, letgo>>

-----------------------------------------------------------------------------
(* _repeg_buy *)

PegIs(b, pc) == Is(b, "peg", pc)
PegRow(b) == task[b]["peg"].cur

(* The watcher reads the status of its order, and asks for a quote. *)
PegWakes(b) ==
  /\ PegIs(b, "asleep")
  /\ IF task[b]["peg"].tries = MaxAttempts \/ row[PegRow(b)].status = "FILLED"
       THEN Goes(b, "peg", "done")
       ELSE Turns(b, [task[b] EXCEPT !["peg"].pc = "quoting", !["peg"].tries = @ + 1,
                                     !["peg"].saw = row[PegRow(b)].status])
  /\ UNCHANGED <<alert, desk, orders, books, past>>

(* No quote, or no reason to move; the cap is reached; cancel_order begins, *)
(* or refuses an order that ended meanwhile; an order that was not PENDING  *)
(* on waking is replaced without one.                                       *)
PegQuoted(b) ==
  /\ PegIs(b, "quoting")
  /\ \/ Goes(b, "peg", "asleep") /\ UNCHANGED <<alert, orders>>
     \/ Goes(b, "peg", "done") /\ UNCHANGED <<alert, orders>>
     \/ /\ task[b]["peg"].saw = "PENDING"
        /\ Goes(b, "peg", IF row[PegRow(b)].status \in {"PENDING", "PARTIALLY_FILLED"}
                            THEN "stopping" ELSE "asleep")
        /\ UNCHANGED <<alert, orders>>
     \/ /\ task[b]["peg"].saw # "PENDING"
        /\ Inserts(b, "peg", task[b]["peg"].tries)
        /\ Marks(b, "PENDING")
  /\ UNCHANGED <<desk, books, past>>

(* cancel_order: a fill raced the cancel, as the row or the broker says; or *)
(* the row is stamped CANCELLED, because the order is dead, because it did  *)
(* not die in time, or because the call raised and nobody asked the broker. *)
TradedHere(o) == row[o].status = "FILLED" \/ row[o].filled > 0
Traded(o) == broker[o].filled > 0 \/ TradedHere(o)
Dies(o) == broker[o].state = "DEAD" /\ ~Traded(o)
Raises(o) == "cancelRaises" \in Faults[row[o].alert] /\ ~TradedHere(o)
Lingers(o) == "slowCancel" \in Faults[row[o].alert] /\ ~Traded(o)
Stamped(o) == row' = [row EXCEPT ![o].status = "CANCELLED"]

(* Mutant: a cancel that is not confirmed is taken for done. *)
PegStoppedAnyway(b) ==
  LET o == PegRow(b) IN
  /\ PegIs(b, "stopping")
  /\ \/ Traded(o) /\ Goes(b, "peg", "done") /\ UNCHANGED row
     \/ broker[o].state # "DEAD" /\ Goes(b, "peg", "ready") /\ UNCHANGED row
     \/ (Dies(o) \/ Raises(o)) /\ Stamped(o) /\ Goes(b, "peg", "ready")
  /\ UNCHANGED <<alert, desk, rows, broker, polling, books, past>>

(* The watcher's cancel_order(require_confirmed_terminal) comes back.       *)
PegStopped(b) ==
  LET o == PegRow(b) IN
  /\ PegIs(b, "stopping")
  /\ \/ Traded(o) /\ Goes(b, "peg", "done") /\ UNCHANGED row
     \/ broker[o].state # "DEAD" /\ Goes(b, "peg", "asleep") /\ UNCHANGED row
     \/ (Dies(o) \/ Raises(o)) /\ Stamped(o) /\ Goes(b, "peg", "ready")
  /\ UNCHANGED <<alert, desk, rows, broker, polling, books, past>>

PegReplaces(b) ==
  /\ PegIs(b, "ready")
  /\ Inserts(b, "peg", task[b]["peg"].tries)
  /\ Marks(b, "PENDING")
  /\ UNCHANGED <<desk, books, past>>

-----------------------------------------------------------------------------
(* _poll_order_fill and the books *)

(* new contracts of order o go into the position row, which a closed one    *)
(* reopens with "all".                                                      *)
Books(o, new, all) ==
  LET b == row[o].alert
      c == ContractOf[b] IN
  /\ pos' = [pos EXCEPT ![c] =
       IF @.status = "OPEN"
         THEN [status |-> "OPEN", left |-> @.left + new,
               owner |-> IF @.owner = NoAlert THEN AuthorOf[b] ELSE @.owner]
         ELSE [status |-> "OPEN", left |-> all, owner |-> AuthorOf[b]]]
  /\ reopened' = IF pos[c].status # "OPEN" /\ all > new THEN reopened \cup {c} ELSE reopened
  /\ UNCHANGED held

(* Mutant: every fill is booked whole. *)
PollFilledWhole(o) ==
  /\ o \in polling
  /\ broker[o].state = "FILLED"
  /\ row' = [row EXCEPT ![o] = [@ EXCEPT !.status = "FILLED", !.filled = broker[o].filled]]
  /\ Books(o, broker[o].filled, broker[o].filled)
  /\ Marks(row[o].alert, "FILLED")
  /\ polling' = polling \ {o}
  /\ UNCHANGED <<desk, task, rows, broker, past>>

(* _finalize_buy_fill: a closed row is reopened with the whole order. *)
PollFilled(o) ==
  /\ o \in polling
  /\ broker[o].state = "FILLED"
  /\ row' = [row EXCEPT ![o] = [@ EXCEPT !.status = "FILLED", !.filled = broker[o].filled]]
  /\ Books(o, broker[o].filled - row[o].filled, broker[o].filled)
  /\ Marks(row[o].alert, "FILLED")
  /\ polling' = polling \ {o}
  /\ UNCHANGED <<desk, task, rows, broker, past>>

(* _finalize_partial_buy_fill *)
PollPartial(o) ==
  LET new == broker[o].filled - row[o].filled IN
  /\ o \in polling
  /\ broker[o].state = "LIVE"
  /\ new > 0
  /\ row' = [row EXCEPT ![o] = [@ EXCEPT !.status = "PARTIALLY_FILLED", !.filled = broker[o].filled]]
  /\ Books(o, new, new)
  /\ UNCHANGED <<alert, desk, task, rows, broker, polling, past>>

(* A terminal status without FILLED is stamped, and nothing is booked. *)
PollDead(o) ==
  /\ o \in polling
  /\ broker[o].state = "DEAD"
  /\ row' = [row EXCEPT ![o].status = "CANCELLED"]
  /\ Marks(row[o].alert, "CANCELLED")
  /\ polling' = polling \ {o}
  /\ UNCHANGED <<desk, task, rows, broker, books, slipped>>
  /\ LetsGo(o)

(* The poller ends with a stamp on what the database has as PENDING. *)
GivesUp(o, stamp) ==
  /\ o \in polling
  /\ IF row[o].status = "PENDING"
       THEN row' = [row EXCEPT ![o].status = stamp] /\ Marks(row[o].alert, stamp)
       ELSE UNCHANGED <<row, alert>>
  /\ polling' = polling \ {o}
  /\ UNCHANGED <<desk, task, rows, books, slipped>>

(* max_pending_minutes: the order is cancelled, unless it ended since the   *)
(* last poll or the cancel fails, which is the same to the poller.          *)
PollGivesUp(o) ==
  /\ GivesUp(o, "CANCELLED")
  /\ \/ broker[o].state = "LIVE" /\ broker' = [broker EXCEPT ![o].state = "DEAD"]
     \/ broker[o].state # "LIVE" /\ UNCHANGED broker
     \/ "cancelLost" \in Faults[row[o].alert] /\ UNCHANGED broker
  /\ LetsGo(o)

(* Ten polls in a row failed. *)
PollErrs(o) ==
  /\ "pollErrors" \in Faults[row[o].alert]
  /\ GivesUp(o, "ERROR")
  /\ UNCHANGED broker
  /\ LetsGo(o)

-----------------------------------------------------------------------------
(* The broker *)

Accepts(o) ==
  /\ broker[o].state = "SENT"
  /\ broker' = [broker EXCEPT ![o].state = "LIVE"]
  /\ UNCHANGED <<alert, desk, task, row, rows, polling, books, past>>

Buys1(o, n) ==
  /\ broker[o].state = "LIVE"
  /\ broker' = [broker EXCEPT ![o] = [state |-> IF n = Qty THEN "FILLED" ELSE "LIVE", filled |-> n]]
  /\ held' = [held EXCEPT ![ContractOf[row[o].alert]] = @ + n - broker[o].filled]
  /\ UNCHANGED <<alert, desk, task, row, rows, polling, pos, reopened, past>>

Fills(o) == Buys1(o, Qty)
FillsPart(o) == /\ "partial" \in Faults[row[o].alert]
                /\ broker[o].filled + 1 < Qty
                /\ Buys1(o, broker[o].filled + 1)

(* Cancelled, rejected or expired. *)
Kills(o) ==
  /\ broker[o].state = "LIVE"
  /\ broker' = [broker EXCEPT ![o].state = "DEAD"]
  /\ UNCHANGED <<alert, desk, task, row, rows, polling, books, past>>

-----------------------------------------------------------------------------
(* Exits and the operator *)

(* An exit sells what the row says; ExitOrders has its steps. *)
Exits(c) ==
  /\ c \in Open
  /\ held[c] >= pos[c].left
  /\ held' = [held EXCEPT ![c] = @ - pos[c].left]
  /\ pos' = [pos EXCEPT ![c] = [@ EXCEPT !.status = "CLOSED", !.left = 0]]
  /\ UNCHANGED reopened

(* The monitor or the operator sells. *)
AutoExits(c) ==
  /\ Exits(c)
  /\ UNCHANGED <<alert, desk, task, orders, past>>

(* The entries an exit of alert a may cancel: _cancel_pending_buys_for_alert. *)
Cancellable(a) == {o \in PendingOn(ContractOf[a]) : AuthorOf[row[o].alert] = AuthorOf[a]}

(* _sell_from_alert: sell what is held; leave another analyst's contracts   *)
(* and entries alone; or cancel the entries that are still pending.         *)
Sells1(s) ==
  LET c == ContractOf[s] IN
  /\ s \in Sells
  /\ Takes(s)
  /\ \/ c \in Open /\ Owns(s, c) /\ Exits(c) /\ Marks(s, "FILLED") /\ UNCHANGED <<worker, clearing>>
     \/ c \in Open /\ ~Owns(s, c) /\ Marks(s, "IGNORED") /\ UNCHANGED <<worker, clearing, books>>
     \/ /\ c \notin Open
        /\ worker' = s
        /\ clearing' = [clearing EXCEPT ![s] = [found |-> Cancellable(s), todo |-> Cancellable(s)]]
        /\ UNCHANGED <<alert, books>>
  /\ UNCHANGED <<task, orders, past>>

(* One cancel_order of the loop comes back; an order that ended before it   *)
(* refuses.                                                                 *)
Clears(s, o) ==
  /\ worker = s
  /\ o \in clearing[s].todo
  /\ clearing' = [clearing EXCEPT ![s].todo = @ \ {o}]
  /\ \/ (row[o].status # "PENDING" \/ Traded(o)) /\ UNCHANGED row
     \/ row[o].status = "PENDING" /\ (Dies(o) \/ Lingers(o) \/ Raises(o)) /\ Stamped(o)
  /\ UNCHANGED <<alert, queue, worker, task, rows, broker, polling, books, past>>

(* Mutant: the loop ends before it cancelled everything. *)
IgnoresEarly(s) ==
  /\ worker = s
  /\ Marks(s, "IGNORED")
  /\ worker' = NoAlert
  /\ UNCHANGED <<queue, clearing, task, orders, books, past>>

Ignores(s) ==
  /\ worker = s
  /\ clearing[s].todo = {}
  /\ Marks(s, "IGNORED")
  /\ worker' = NoAlert
  /\ UNCHANGED <<queue, clearing, task, orders, books, past>>

(* POST /api/alerts/{id}/cancel: the newest PENDING order of the contract   *)
(* is cancelled, whoever asked for it, and the alert stamped.               *)
Strikes(b) ==
  LET c == ContractOf[b]
      o == Max(PendingOn(c)) IN
  /\ "strike" \in Operator[b]
  /\ alert[b] \in {"PENDING", "ERROR"}
  /\ alert' = [alert EXCEPT ![b] = "CANCELLED"]
  /\ \/ (PendingOn(c) # {} => Traded(o)) /\ UNCHANGED row
     \/ PendingOn(c) # {} /\ (Dies(o) \/ Lingers(o) \/ Raises(o)) /\ Stamped(o)
  /\ UNCHANGED <<desk, task, rows, broker, polling, books, past>>

(* POST /api/alerts/{id}/resubmit: execute_override beside the queue. *)
Resubmits(b) ==
  /\ "resubmit" \in Operator[b]
  /\ Is(b, "over", "idle")
  /\ alert[b] \in {"SKIPPED", "ERROR", "CANCELLED"}
  /\ Marks(b, "PENDING")
  /\ Goes(b, "over", "checked")
  /\ UNCHANGED <<desk, orders, books, past>>

-----------------------------------------------------------------------------
JobStep(b) == Checks(b) \/ \E k \in {"job", "over"} : Prices(b, k) \/ RanAway(b, k) \/ Places(b, k)
PostStep(b) == \E k \in Kinds : PostReturns(b, k) \/ PostFails(b, k)
CoolStep(b) == CoolWakes(b) \/ Cooled(b)
PegStep(b) == PegWakes(b) \/ PegQuoted(b) \/ PegStopped(b) \/ PegReplaces(b)
PollStep(o) == PollFilled(o) \/ PollPartial(o) \/ PollDead(o) \/ PollGivesUp(o) \/ PollErrs(o)
BrokerStep(o) == Accepts(o) \/ Fills(o) \/ FillsPart(o) \/ Kills(o)

Step ==
  \/ \E a \in Alerts : Arrives(a)
  \/ \E b \in Buys : JobStep(b) \/ PostStep(b) \/ CoolStep(b) \/ PegStep(b) \/ Strikes(b) \/ Resubmits(b)
  \/ \E s \in Sells : Sells1(s) \/ Ignores(s) \/ \E o \in Oids : Clears(s, o)
  \/ \E o \in 1..rows : PollStep(o) \/ BrokerStep(o)
  \/ \E c \in Contracts : AutoExits(c) \/ Forgets(c)

(* A task of alert b is about to buy over an order that is at work or       *)
(* filled, and goes by the rows: its watcher replaces an order whose row is *)
(* PENDING no more; the operator's override begins beside something else.   *)
AtBroker(o) == broker[o].state \in {"SENT", "LIVE", "FILLED"}
OrdersOf(b) == {o \in 1..rows : row[o].alert = b}
Replacing(b) == PegIs(b, "ready") \/ (PegIs(b, "quoting") /\ task[b]["peg"].saw # "PENDING")
Overriding(b) == Is(b, "over", "checked") \/ Is(b, "over", "quoting")
Misleads(b) ==
  \/ Replacing(b) /\ row[PegRow(b)].status # "PENDING" /\ AtBroker(PegRow(b))
  \/ /\ Overriding(b)
     /\ \/ \E o \in OrdersOf(b) : AtBroker(o)
        \/ ~Is(b, "job", "done") \/ Is(b, "cool", "posting") \/ ~Rests(b, "peg")

Next ==
  /\ Step
  /\ misled' = misled \cup {b \in Buys : Misleads(b)'}
  /\ UNCHANGED world

Spec == Init /\ [][Next]_vars

-----------------------------------------------------------------------------
(* Properties *)

(* Nothing is booked twice: what the account holds is what the row says and *)
(* what was bought and no order's row has recorded, yet or for good,        *)
(* contract for contract.  The one way out is a closed row that the rest of *)
(* a half-booked order reopens whole.                                       *)
Unbooked(c) == UNION {{o} \X (row[o].filled + 1 .. broker[o].filled) : o \in RowsOf(c)}
BooksBalance == \A c \in Contracts \ reopened : held[c] = pos[c].left + Cardinality(Unbooked(c))

(* However many tasks work for it, an alert has one order at the broker     *)
(* that is at work or filled.  The ways out are two (Misleads): a row that  *)
(* says of a chased order that it is over, or filled in part, while it is   *)
(* at work or filled; and a resubmission beside something under way.        *)
Effective(b) == {o \in OrdersOf(b) : AtBroker(o)}
OneEntryPerAlert == \A b \in Buys \ misled : Cardinality(Effective(b)) <= 1

(* No order is lost: one that is at work, or of which more was bought than  *)
(* its row says, is polled, or its POST is still awaited by the task that   *)
(* placed it.  The ways out are those that let go of it: a POST that raised *)
(* though the order was taken, and a poller that gave up, failed ten times, *)
(* or met a dead order it had not booked to the end.                        *)
Awaited(o) == \E b \in Buys, k \in Kinds : Is(b, k, "posting") /\ task[b][k].cur = o
EveryOrderWatched == \A o \in 1..rows \ letgo : Loose(o) => o \in polling \/ Awaited(o)

(* The analyst has sold, so nothing of his that was waiting may fill late:  *)
(* when his SELL is over, each entry it found PENDING has traded or will    *)
(* not, or is stamped CANCELLED.                                            *)
ExitClearsEntries ==
  [][\A s \in Sells : (worker = s /\ worker' # s)
       => \A o \in clearing[s].found : Traded(o) \/ row[o].status \notin {"PENDING"}]_vars
=============================================================================
