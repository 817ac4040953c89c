----------------------------- MODULE IbkrOrders -----------------------------
(***************************************************************************)
(* app/execution/ibkr_broker.py over app/execution/ibkr_sdk_bridge.py: the *)
(* SELL orders of one position at IBKR.  The executor does not ask for an  *)
(* order's state, it looks at the Trade handle it keeps; a handle lives as *)
(* long as its session, and a session may drop, a process restart.  What   *)
(* was missed is found by the hook that runs on each connect.              *)
(*                                                                         *)
(* Two ways to start: an exit, and the two legs of a whale's bracket, of   *)
(* which the broker sells one; or nothing, when IBKR is not the broker.    *)
(***************************************************************************)
EXTENDS Integers, Sequences, FiniteSets

CONSTANTS
  Total,          \* contracts held at first
  Retries,        \* max_price_cap_retries
  MaxFaults,      \* bound: drops and restarts
  SomeSettings    \* switches, how it starts, how many orders (a bound), and which faults may come

ASSUME IbkrAssumption == Total \in Nat \ {0} /\ Retries \in Nat /\ MaxFaults \in Nat

VARIABLES
  set,
  rows,       \* the Order rows; by: who booked the fill, a task that knew the position or not
  broker,     \* each order at IBKR: its state, contracts sold, a cancel that has reached it
  handle,     \* _trades: none, live, or stale, and what a stale one shows
  tries,      \* re-placements left, and whether the adaptive algorithm is still used
  tasks,      \* _poll_order_fill per order: "placed", "resumed", or "blind" of the position
  journal,    \* _pending_cancels
  cancel,     \* a cancel_order at its await; cleared: the last one succeeded
  session,
  hook,       \* resume_pending_orders is due
  boot,       \* _resume_pending_orders of the application is due
  left,       \* the position row's remaining
  held,       \* contracts in the account; a short position is negative
  faults

orders == <<rows, broker, handle, tries, tasks>>
books == <<left, held>>
vars == <<set, orders, journal, cancel, session, hook, boot, books, faults>>

Ids == DOMAIN rows
Larger(a, b) == IF a >= b THEN a ELSE b
Smaller(a, b) == IF a <= b THEN a ELSE b

NoCancel == [i |-> 0, live |-> FALSE, st |-> "none", cleared |-> FALSE]
NoHandle == [at |-> "none", st |-> "none", sold |-> 0]
LiveHandle == [NoHandle EXCEPT !.at = "live"]
Sent == [st |-> "sent", sold |-> 0, cancel |-> FALSE]
Row(role, qty) == [role |-> role, qty |-> qty, status |-> "PENDING", filled |-> 0, by |-> "none"]

Working(b) == b.st \in {"sent", "working"}
Refusals == {"barred", "capped"}    \* of the algorithm, and of the price (error 202)
Over(st) == st \in Refusals \cup {"dead", "filled"}
Pending(i) == rows[i].status = "PENDING"

(* What a handle shows of its order. *)
View(i) == IF handle[i].at = "live" THEN [st |-> broker[i].st, sold |-> broker[i].sold]
           ELSE [st |-> handle[i].st, sold |-> handle[i].sold]

Init ==
  /\ set \in SomeSettings
  /\ rows = CASE set.start = "exit" -> <<Row("exit", Total)>>
              [] set.start = "bracket" -> <<Row("TP", Total), Row("SL", Total)>>
              [] OTHER -> <<>>
  /\ broker = [i \in Ids |-> Sent]
  /\ handle = [i \in Ids |-> LiveHandle]
  /\ tries = [i \in Ids |-> [left |-> Retries, plain |-> set.start # "exit"]]
  /\ tasks = [i \in Ids |-> {"placed"}]
  /\ journal = {} /\ cancel = NoCancel
  /\ session = "up" /\ hook = FALSE /\ boot = FALSE
  /\ left = Total /\ held = Total
  /\ faults = 0

-----------------------------------------------------------------------------
(* IBKR *)

Accepts(i) ==
  /\ broker[i].st = "sent"
  /\ broker' = [broker EXCEPT ![i].st = "working"]
  /\ UNCHANGED <<set, rows, handle, tries, tasks, journal, cancel, session, hook, boot, books, faults>>

(* An exit's limit is too far from the market, or its algorithm unwelcome.  *)
Refuses(i, why) ==
  /\ set.refusals
  /\ broker[i].st = "sent" /\ rows[i].role = "exit"
  /\ why = "barred" => ~tries[i].plain
  /\ broker' = [broker EXCEPT ![i].st = why]
  /\ UNCHANGED <<set, rows, handle, tries, tasks, journal, cancel, session, hook, boot, books, faults>>

(* The legs of a bracket are one group: what one sells, the other does not. *)
Sells(i, n) ==
  LET sold == broker[i].sold + n IN
  /\ broker[i].st = "working"
  /\ sold <= rows[i].qty /\ (set.parts \/ sold = rows[i].qty)
  /\ held' = held - n
  /\ broker' = [j \in Ids |->
       IF j = i THEN [broker[i] EXCEPT !.sold = sold, !.st = IF sold = rows[i].qty THEN "filled" ELSE @]
       ELSE IF {rows[i].role, rows[j].role} = {"TP", "SL"} /\ Working(broker[j])
         THEN [broker[j] EXCEPT !.st = "dead"] ELSE broker[j]]
  /\ UNCHANGED <<set, rows, handle, tries, tasks, journal, cancel, session, hook, boot, left, faults>>

Dies(i) ==
  /\ broker[i].st = "working"
  /\ broker' = [broker EXCEPT ![i].st = "dead"]
  /\ UNCHANGED <<set, rows, handle, tries, tasks, journal, cancel, session, hook, boot, books, faults>>

Obeys(i) ==
  /\ Working(broker[i]) /\ broker[i].cancel
  /\ broker' = [broker EXCEPT ![i].st = "dead"]
  /\ UNCHANGED <<set, rows, handle, tries, tasks, journal, cancel, session, hook, boot, books, faults>>

-----------------------------------------------------------------------------
(* _poll_order_fill, one look of one task *)


(* _finalize_sell_fill: what the row has not counted yet. *)
Newly(i, sold) == Larger(0, sold - rows[i].filled)

(* The order is over for this task: the handle goes with it. *)
Leaves(i, t) ==
  /\ handle' = [handle EXCEPT ![i] = NoHandle]
  /\ tasks' = [tasks EXCEPT ![i] = @ \ {t}]

Booked(i, sold, who) ==
  [rows EXCEPT ![i] = [rows[i] EXCEPT !.status = "FILLED", !.filled = sold,
                                      !.by = IF rows[i].by = "none" THEN who ELSE rows[i].by]]

(* FILLED: a task that knows the position takes the contracts off it.       *)
Books(i, t) ==
  LET sold == View(i).sold IN
  /\ View(i).st = "filled"
  /\ rows' = Booked(i, sold, IF t = "blind" THEN "blind" ELSE "known")
  /\ left' = IF t = "blind" THEN left ELSE Larger(0, left - Newly(i, sold))
  /\ Leaves(i, t)
  /\ UNCHANGED <<set, broker, tries, journal, cancel, session, hook, boot, held, faults>>

(* A refused order is sent again under its own number: once as a plain      *)
(* limit, and so many times one tick inside the cap.                        *)
Again(i) ==
  CASE View(i).st = "barred" -> ~tries[i].plain
    [] View(i).st = "capped" -> tries[i].left > 0
    [] OTHER -> FALSE

Replaces(i, t) ==
  /\ Again(i)
  /\ session = "up"
  /\ tries' = [tries EXCEPT ![i] = IF View(i).st = "barred" THEN [@ EXCEPT !.plain = TRUE]
                                                            ELSE [@ EXCEPT !.left = @ - 1]]
  /\ broker' = [broker EXCEPT ![i] = Sent]
  /\ handle' = [handle EXCEPT ![i] = LiveHandle]
  /\ cancel' = IF cancel.i = i THEN [cancel EXCEPT !.live = FALSE, !.st = "dead"] ELSE cancel
  /\ UNCHANGED <<set, rows, tasks, journal, session, hook, boot, books, faults>>

(* Any other end, or no session to send it again: the row takes the status  *)
(* of the order, whatever it had.                                           *)
Ends(i, t) ==
  /\ View(i).st = "dead" \/ (View(i).st \in Refusals /\ (~Again(i) \/ session = "down"))
  /\ rows' = [rows EXCEPT ![i].status = "CANCELLED"]
  /\ Leaves(i, t)
  /\ UNCHANGED <<set, broker, tries, journal, cancel, session, hook, boot, books, faults>>

(* With no handle the order is looked up in the session, by its reference.  *)
Recovers(i, t) ==
  /\ handle[i].at = "none"
  /\ session = "up"
  /\ handle' = [handle EXCEPT ![i] = LiveHandle]
  /\ UNCHANGED <<set, rows, broker, tries, tasks, journal, cancel, session, hook, boot, books, faults>>

(* Mutant: an exit rests as long as a bracket does. *)
TiresBlind(i, t) == set.timeouts /\ t = "blind"

(* The legs of a bracket and what the hook resumes have no limit. *)
Tires(i, t) == set.timeouts /\ (t = "blind" \/ (t = "placed" /\ rows[i].role = "exit"))

(* max_pending_minutes: a cancel is sent and not waited for. *)
TimesOut(i, t) ==
  /\ Tires(i, t)
  /\ broker' = [broker EXCEPT ![i].cancel = @ \/ (handle[i].at # "none" /\ session = "up")]
  /\ rows' = IF Pending(i) THEN [rows EXCEPT ![i].status = "CANCELLED"] ELSE rows
  /\ Leaves(i, t)
  /\ UNCHANGED <<set, tries, journal, cancel, session, hook, boot, books, faults>>

Looks(i, t) == t \in tasks[i] /\ (Books(i, t) \/ Replaces(i, t) \/ Ends(i, t) \/ Recovers(i, t))

-----------------------------------------------------------------------------
(* cancel_order and the replacement *)

(* The row is marked, unless its task has booked a fill meanwhile.          *)
Strikes(i) ==
  /\ journal' = journal \ {i}
  /\ IF rows[i].status = "FILLED"
       THEN UNCHANGED <<rows, handle>> /\ cancel' = NoCancel
       ELSE /\ rows' = [rows EXCEPT ![i].status = "CANCELLED"]
            /\ handle' = [handle EXCEPT ![i] = NoHandle]
            /\ cancel' = [NoCancel EXCEPT !.cleared = TRUE]

(* With a handle and a session the cancel is noted, sent and awaited.       *)
Cancels(i) ==
  /\ set.cancels
  /\ Pending(i) /\ cancel.i = 0
  /\ handle[i].at # "none" /\ session = "up"
  /\ journal' = journal \cup {i}
  /\ broker' = [broker EXCEPT ![i].cancel = TRUE]
  /\ cancel' = [i |-> i, live |-> handle[i].at = "live", st |-> View(i).st, cleared |-> FALSE]
  /\ UNCHANGED <<set, rows, handle, tries, tasks, session, hook, boot, books, faults>>

(* With no handle, or when the gateway cannot be reached, the row alone is  *)
(* cancelled.                                                               *)
CancelsLocally(i) ==
  /\ set.cancels
  /\ Pending(i) /\ cancel.i = 0
  /\ handle[i].at = "none" \/ (session = "down" /\ set.unreachable)
  /\ Strikes(i)
  /\ UNCHANGED <<set, broker, tries, tasks, session, hook, boot, books, faults>>

(* Mutant: the window closes, and the order is taken for dead. *)
BelievedAlways(st) == st # "filled"

(* What counts as cancelled when the window closes.                         *)
Believed(st) == st # "filled" /\ (Over(st) \/ ~set.confirm)

CancelEnds ==
  LET i == cancel.i
      st == IF cancel.live THEN broker[i].st ELSE cancel.st IN
  /\ i # 0
  /\ IF Believed(st) THEN Strikes(i)
     ELSE /\ journal' = IF st = "filled" THEN journal \ {i} ELSE journal
          /\ cancel' = NoCancel
          /\ UNCHANGED <<rows, handle>>
  /\ UNCHANGED <<set, broker, tries, tasks, session, hook, boot, books, faults>>

(* _place_sell of all that is left: no order is pending, or the one that    *)
(* was found is cancelled.  A re-peg asks for a plain limit, an exit that   *)
(* displaces another may be adaptive; the difference is in the refusals.    *)
Places ==
  /\ session = "up"
  /\ left > 0 /\ Len(rows) < set.limit
  /\ cancel.i = 0
  /\ cancel.cleared \/ ~\E i \in Ids : Pending(i)
  /\ rows' = Append(rows, Row("exit", left))
  /\ broker' = Append(broker, Sent)
  /\ handle' = Append(handle, LiveHandle)
  /\ \E plain \in {TRUE, ~set.refusals} :
       tries' = Append(tries, [left |-> Retries, plain |-> plain])
  /\ tasks' = Append(tasks, {"placed"})
  /\ cancel' = NoCancel
  /\ UNCHANGED <<set, journal, session, hook, boot, books, faults>>

-----------------------------------------------------------------------------
(* The session and the process *)

(* What only the old session's log tells of an order. *)
Forgotten == [i \in Ids |-> IF broker[i].st \in Refusals THEN [broker[i] EXCEPT !.st = "dead"] ELSE broker[i]]

(* The socket drops, and with it, perhaps, the requests under way.          *)
Drops ==
  /\ set.drops /\ faults < MaxFaults
  /\ session = "up" /\ session' = "down"
  /\ \E lost \in SUBSET {i \in Ids : Working(broker[i]) /\ broker[i].cancel} :
       broker' = [i \in Ids |-> IF i \in lost THEN [broker[i] EXCEPT !.cancel = FALSE] ELSE Forgotten[i]]
  /\ handle' = [i \in Ids |-> IF handle[i].at = "live"
                              THEN [at |-> "stale", st |-> broker[i].st, sold |-> broker[i].sold]
                              ELSE handle[i]]
  /\ cancel' = IF cancel.live THEN [cancel EXCEPT !.live = FALSE, !.st = broker[cancel.i].st] ELSE cancel
  /\ faults' = faults + 1
  /\ UNCHANGED <<set, rows, tries, tasks, journal, hook, boot, books>>

(* The watchdog, or whoever asks for the session first.  A new session is a *)
(* new object: old handles stay as they were.                               *)
Connects ==
  /\ session = "down"
  /\ session' = "up"
  /\ hook' = TRUE
  /\ UNCHANGED <<set, orders, journal, cancel, boot, books, faults>>

Restarts ==
  /\ set.restarts /\ faults < MaxFaults
  /\ broker' = Forgotten
  /\ handle' = [i \in Ids |-> NoHandle]
  /\ tasks' = [i \in Ids |-> {}]
  /\ journal' = {} /\ cancel' = NoCancel
  /\ session' = "down" /\ hook' = FALSE /\ boot' = TRUE
  /\ faults' = faults + 1
  /\ UNCHANGED <<set, rows, tries, books>>

(* The application's own resumption, which knows no positions. *)
Boots ==
  /\ boot /\ boot' = FALSE
  /\ tasks' = [i \in Ids |-> IF Pending(i) THEN tasks[i] \cup {"blind"} ELSE tasks[i]]
  /\ UNCHANGED <<set, rows, broker, handle, tries, journal, cancel, session, hook, books, faults>>

(* The executions the session lists for an order. *)
Counted(i) == broker[i].sold

(* Mutant: the fill of an order that is gone is not taken off the position. *)
TakenOffNone(gone) == 0

(* Orders that were filled, whole or in part, while nobody looked.          *)
TakenOff(gone) == Cardinality(UNION {{i} \X (rows[i].filled + 1 .. Counted(i)) : i \in gone})

(* Mutant: a cancel under way is not sent again. *)
ReissuedNone(b, i) == b

Reissued(b, i) == IF i \in journal /\ Working(b) THEN [b EXCEPT !.cancel = TRUE] ELSE b

(* resume_pending_orders.  With no row pending it does nothing at all; else *)
(* it sends the noted cancels again, and for a pending row with no handle   *)
(* either watches the order or books what became of it.  It waits only      *)
(* after a booking, and looks at each row anew: one step.                   *)
Resumes ==
  LET lost == {i \in Ids : Pending(i) /\ handle[i].at = "none"}
      live == {i \in lost : Working(broker[i])}
      sold == {i \in lost \ live : broker[i].sold > 0}
      gone == (lost \ live) \ sold IN
  /\ hook /\ session = "up"
  /\ hook' = FALSE
  /\ IF \A i \in Ids : ~Pending(i)
       THEN UNCHANGED <<rows, broker, handle, tasks, journal, left>>
       ELSE /\ journal' = {i \in journal : Working(broker[i])}
            /\ broker' = [i \in Ids |-> Reissued(broker[i], i)]
            /\ rows' = [i \in Ids |->
                 IF i \in sold
                   THEN [rows[i] EXCEPT !.status = "FILLED", !.filled = Counted(i), !.by = "known"]
                 ELSE IF i \in gone THEN [rows[i] EXCEPT !.status = "CANCELLED"] ELSE rows[i]]
            /\ left' = Larger(0, left - TakenOff(sold))
            /\ handle' = [i \in Ids |-> IF i \in live THEN LiveHandle ELSE handle[i]]
            /\ tasks' = [i \in Ids |-> IF i \in live THEN tasks[i] \cup {"resumed"} ELSE tasks[i]]
  /\ UNCHANGED <<set, tries, cancel, session, boot, held, faults>>

-----------------------------------------------------------------------------
AnyTask == {"placed", "resumed", "blind"}
All == 1..2

Market ==
  \E i \in Ids :
    Accepts(i) \/ Dies(i) \/ (\E why \in Refusals : Refuses(i, why)) \/ (\E n \in 1..Total : Sells(i, n))

Next ==
  \/ Market
  \/ \E i \in Ids : Obeys(i)
  \/ \E i \in Ids, t \in AnyTask : Looks(i, t)
  \/ \E i \in Ids, t \in AnyTask : t \in tasks[i] /\ TimesOut(i, t)
  \/ \E i \in Ids : Cancels(i) \/ CancelsLocally(i)
  \/ CancelEnds \/ Places
  \/ Drops \/ Connects \/ Restarts \/ Boots \/ Resumes

(* The broker obeys a cancel it has, tasks look at their orders and tire of *)
(* them, the watchdog brings a session back, and its hook runs.             *)
Fairness ==
  /\ \A i \in All : WF_vars(i \in Ids /\ Obeys(i))
  /\ \A i \in All : WF_vars(i \in Ids /\ \E t \in AnyTask : Looks(i, t))
  /\ \A i \in All : WF_vars(i \in Ids /\ \E t \in AnyTask : t \in tasks[i] /\ TimesOut(i, t))
  /\ WF_vars(CancelEnds)
  /\ WF_vars(Connects) /\ WF_vars(Boots) /\ WF_vars(Resumes)

Spec == Init /\ [][Next]_vars /\ Fairness

-----------------------------------------------------------------------------
(* Properties *)

(* Whoever books a fill -- the order's task, one the hook resumed, the hook *)
(* itself, several of them in any order -- takes its contracts off the      *)
(* position once; but for a fill that a task blind of the position finds    *)
(* first.                                                                   *)
Taken == UNION {{i} \X (1 .. rows[i].filled) : i \in {j \in Ids : rows[j].by = "known"}}
BooksMatch == Total - left = Smaller(Total, Cardinality(Taken))

(* A position is not sold twice: no exit replaces one that may yet fill,    *)
(* though sessions drop and cancels are lost.  (Where the cancel waits for  *)
(* the broker's word and can be sent, and nothing else ends a row.)         *)
Careful ==
  /\ set.start = "exit" /\ set.confirm
  /\ ~set.unreachable /\ ~set.restarts /\ ~set.timeouts /\ ~set.refusals /\ ~set.parts
NeverShort == Careful => held >= 0

(* A cancel that was noted reaches its order, through drops, unless the row *)
(* is ended by something else first: the row cannot stay pending, and its   *)
(* order live.                                                              *)
CancelLands ==
  \A i \in All :
    (~set.restarts /\ i \in journal) ~> (i \in Ids => ~Working(broker[i]) \/ ~Pending(i))

(* An order that is over does not leave its row pending, through restarts;  *)
(* and through drops if tasks tire.                                         *)
OrdersEnd ==
  \A i \in All :
    ((~set.drops \/ (set.timeouts /\ set.start = "exit")) /\ i \in Ids /\ Over(broker[i].st))
      ~> (i \in Ids /\ ~Pending(i))
=============================================================================
