----------------------------- MODULE ExitOrders -----------------------------
(***************************************************************************)
(* The life of the SELL orders on one option contract, in                  *)
(* app/execution/public_executor.py.                                       *)
(*                                                                         *)
(* One position of Lot contracts is held.  Exits are asked for by analyst  *)
(* alerts (the order-queue worker), by the position monitor, and by the    *)
(* operator; each calls _place_sell.  A successful placement may leave a   *)
(* re-peg watcher behind, and every placement the broker accepted leaves a *)
(* fill poller.  All of them are asyncio tasks on one event loop, so the   *)
(* code between two awaits is one action here, and everything else may run *)
(* at an await.                                                            *)
(*                                                                         *)
(* An exit request and the watcher it leaves behind are one lane: the      *)
(* request ends where the watcher begins.  Prices do not matter to what is *)
(* sold, so there are none; time is the nondeterminism of when a task is   *)
(* resumed.                                                                *)
(***************************************************************************)
EXTENDS Integers, FiniteSets

CONSTANTS
  Oids,         \* rows of the orders table the lanes may insert
  NoOid,        \* the absence of an order
  Exits,        \* lanes: the exit requests, and operator calls of the cancel endpoint
  TriggerOf,    \* the trigger class each lane carries
  Lot,          \* contracts held when the exits begin
  MaxAttempts,  \* close_all_repeg_max_attempts / partial_repeg_max_attempts
  AlertRepeg,   \* close_all_repeg_seconds > 0 and partial_repeg_seconds > 0
  AutoRepeg,    \* [trading] auto_exit_repeg_enabled
  Faults        \* what the broker and the clock may do to the lanes

(***************************************************************************)
(* STOP and RUNG are the triggers of AUTO_TRIGGERS: STOP those that        *)
(* _REPEG_EXIT_TRIGGERS names too, RUNG the profit rungs.  The ladder of   *)
(* _place_sell knows neither UNRANKED, the hybrid engine's (PANIC,         *)
(* SOFT_STOP, TRAIL_HIT...), nor WHALE, the resting target that the poller *)
(* of a whale's BUY places.  CANCEL is a call of                           *)
(* POST /api/orders/{id}/cancel.                                           *)
(***************************************************************************)
Triggers == {"STOP", "RUNG", "MANUAL", "DISCORD", "UNRANKED", "WHALE", "CANCEL"}

(***************************************************************************)
(* cancelRaises:  the broker's cancel call raises (404 for an order it has *)
(*                already filled or not yet indexed, a network error)      *)
(* postAmbiguous: the POST raises although the broker took the order       *)
(* partialFills:  an order may fill in part before it ends                 *)
(* pollTimeout:   max_pending_minutes passes while an order is polled      *)
(* pollErrors:    MAX_CONSECUTIVE_ERRORS polls in a row fail               *)
(* jobTimeout:    order_job_timeout_seconds passes while the queue worker  *)
(*                runs an exit                                             *)
(***************************************************************************)
FaultKinds == {"cancelRaises", "postAmbiguous", "partialFills",
               "pollTimeout", "pollErrors", "jobTimeout"}

ASSUME OidAssumption == NoOid \notin Oids
ASSUME LotAssumption == Lot \in Nat \ {0}
ASSUME LaneAssumption == /\ TriggerOf \in [Exits -> Triggers]
                         /\ MaxAttempts \in Nat
                         /\ AlertRepeg \in BOOLEAN
                         /\ AutoRepeg \in BOOLEAN
                         /\ Faults \subseteq FaultKinds

VARIABLES
  row,        \* the Order rows: status, trigger class, quantity, filled_qty
  remaining,  \* Position.remaining; the position is CLOSED iff it is 0
  broker,     \* what the broker holds for each order id
  held,       \* contracts in the brokerage account
  polling,    \* orders with a running _poll_order_fill task
  lane,       \* where each lane is, and its local variables
  raced       \* history: an exit was inserted while another was pending

vars == <<row, remaining, broker, held, polling, lane, raced>>

(***************************************************************************)
(* DEAD stands for CANCELLED, REJECTED, EXPIRED and ERROR, which no code   *)
(* of this component tells apart.                                          *)
(***************************************************************************)
RowStatus == {"NONE", "PENDING", "FILLED", "DEAD"}
Row == [status : RowStatus, trigger : Triggers, qty : 0..Lot, filled : 0..Lot]

(***************************************************************************)
(* SENT: the POST is on its way, or the broker has not indexed the order.  *)
(***************************************************************************)
BrokerOrder == [state : {"NONE", "SENT", "LIVE", "FILLED", "DEAD"},
                filled : 0..Lot]

(***************************************************************************)
(* call:   awaiting the cancel request or its terminal confirmation        *)
(* ready:  cancel_order said ok; its broadcast is being awaited            *)
(* post:   the row is inserted, the POST is awaited                        *)
(* watch:  a watcher asleep          quote:  a watcher awaiting the quote  *)
(* who called cancel_order is "by"; "all" tells _repeg_close_all_sell from *)
(* _repeg_partial_sell; "seen" is the status the watcher read on waking.   *)
(***************************************************************************)
Lane == [pc : {"idle", "call", "ready", "post", "watch", "quote", "done"},
         by : {"place", "watch", "user"},
         want : 0..Lot, old : Oids \cup {NoOid}, cur : Oids \cup {NoOid},
         tries : 0..MaxAttempts, all : BOOLEAN, seen : RowStatus]

NoRow == [status |-> "NONE", trigger |-> "CANCEL", qty |-> 0, filled |-> 0]
NoBrokerOrder == [state |-> "NONE", filled |-> 0]
IdleLane == [pc |-> "idle", by |-> "place", want |-> 0, old |-> NoOid,
             cur |-> NoOid, tries |-> 0, all |-> FALSE, seen |-> "NONE"]
DoneLane == [IdleLane EXCEPT !.pc = "done"]

Init ==
  /\ row = [o \in Oids |-> NoRow]
  /\ remaining = Lot
  /\ broker = [o \in Oids |-> NoBrokerOrder]
  /\ held = Lot
  /\ polling = {}
  /\ lane = [e \in Exits |-> IdleLane]
  /\ raced = FALSE

-----------------------------------------------------------------------------
(* Helpers *)

MinOf(a, b) == IF a <= b THEN a ELSE b
AtLeast0(n) == IF n >= 0 THEN n ELSE 0
Pending == {o \in Oids : row[o].status = "PENDING"}
Automatic(t) == t \in {"STOP", "RUNG"}

(* Who runs a request: the queue worker and the monitor loop each run one *)
(* at a time; an endpoint's call and a BUY's poller are tasks of their    *)
(* own.                                                                   *)
Runner(e) == CASE TriggerOf[e] = "DISCORD" -> "worker"
               [] TriggerOf[e] \in {"STOP", "RUNG", "UNRANKED"} -> "monitor"
               [] OTHER -> "own"
InRequest(e) == lane[e].pc \in {"call", "ready", "post"} /\ lane[e].tries = 0
RunnerIgnored(e) == TRUE  \* mutant: nobody is waited for
RunnerFree(e) == \/ Runner(e) = "own"
                 \/ \A f \in Exits : InRequest(f) => Runner(f) # Runner(e)

(* A placed exit is chased by a re-peg watcher. *)
Chased(e) == \/ TriggerOf[e] = "DISCORD" /\ AlertRepeg
             \/ TriggerOf[e] = "STOP" /\ AutoRepeg

(* _place_sell's idempotency ladder: a new SELL of class t and size q must *)
(* cancel the pending order o first, or may if o has gone stale by now.    *)
MustDisplace(t, q, o) ==
  \/ Automatic(t) /\ ~Automatic(row[o].trigger)
  \/ t = "MANUAL" /\ ~Automatic(row[o].trigger) /\ row[o].trigger # "MANUAL"
  \/ t = "DISCORD" /\ row[o].trigger = "DISCORD" /\ q >= row[o].qty
MayDisplace(t, q, o) ==
  \/ MustDisplace(t, q, o)
  \/ AutoRepeg /\ Automatic(row[o].trigger) /\ q >= row[o].qty

(* A watcher's loop: asleep again, or out of attempts. *)
Resumed(l) == IF l.tries < MaxAttempts THEN [l EXCEPT !.pc = "watch", !.old = NoOid]
                                       ELSE DoneLane

-----------------------------------------------------------------------------
(* _place_sell.  l is the lane's record as the caller left it; l.want the   *)
(* quantity asked for.                                                      *)

Goes(e, l) == lane' = [lane EXCEPT ![e] = l]
Ends(e) == Goes(e, DoneLane)

(* The row is committed before the broker is called. *)
Insert(e, l) ==
  \E o \in Oids :
    /\ row[o].status = "NONE"
    /\ row' = [row EXCEPT ![o] = [status |-> "PENDING", trigger |-> TriggerOf[e],
                                  qty |-> MinOf(l.want, remaining), filled |-> 0]]
    /\ broker' = [broker EXCEPT ![o].state = "SENT"]
    /\ raced' = (raced \/ Pending # {})
    /\ Goes(e, [l EXCEPT !.pc = "post", !.cur = o, !.old = NoOid])

(* cancel_order up to its first await; it raises unless the row is PENDING. *)
BeginCancel(e, l, o, by) ==
  /\ row[o].status = "PENDING"
  /\ Goes(e, [l EXCEPT !.pc = "call", !.old = o, !.by = by])
  /\ UNCHANGED <<row, broker, raced>>

(* From the top of _place_sell to its first await: the position is closed, *)
(* nothing is pending, a pending order is displaced, or the exit skipped.  *)
PlaceSell(e, l) ==
  \/ /\ remaining = 0
     /\ Ends(e)
     /\ UNCHANGED <<row, broker, raced>>
  \/ /\ remaining > 0
     /\ Pending = {}
     /\ Insert(e, l)
  \/ /\ remaining > 0
     /\ \E o \in Pending : /\ MayDisplace(TriggerOf[e], MinOf(l.want, remaining), o)
                           /\ BeginCancel(e, l, o, "place")
  \/ /\ remaining > 0
     /\ \E o \in Pending : ~MustDisplace(TriggerOf[e], MinOf(l.want, remaining), o)
     /\ Ends(e)
     /\ UNCHANGED <<row, broker, raced>>

(* An exit of q contracts is asked for. *)
Request(e, q) ==
  /\ lane[e].pc = "idle"
  /\ TriggerOf[e] # "CANCEL"
  /\ RunnerFree(e)
  /\ q <= remaining \/ remaining = 0
  /\ PlaceSell(e, [lane[e] EXCEPT !.want = q])
  /\ UNCHANGED <<remaining, held, polling>>

(* cancel_order said ok, so the replacement goes in: _place_sell looks at   *)
(* the position again, the watcher starts a _place_sell of its own.         *)
Replace(e) ==
  /\ lane[e].pc = "ready"
  /\ IF lane[e].by = "watch"
       THEN PlaceSell(e, lane[e])
       ELSE \/ remaining = 0 /\ Ends(e) /\ UNCHANGED <<row, broker, raced>>
            \/ remaining > 0 /\ Insert(e, lane[e])
  /\ UNCHANGED <<remaining, held, polling>>

(* Mutant: a replacement order is not polled. *)
PostReturnsUnpolled(e) ==
  LET l == lane[e]
  IN  /\ l.pc = "post"
      /\ polling' = IF l.tries > 0 THEN polling ELSE polling \cup {l.cur}
      /\ IF Chased(e) THEN Goes(e, Resumed([l EXCEPT !.all = TRUE])) ELSE Ends(e)
      /\ UNCHANGED <<row, remaining, broker, held, raced>>

(* The POST returned: a poller follows the order, a watcher may chase it.   *)
(* A request learns now which watcher it gets; a watcher's loop goes on.    *)
PostReturns(e) ==
  LET l == lane[e]
      whole == IF l.tries > 0 THEN l.all
                              ELSE TriggerOf[e] = "STOP" \/ l.want >= remaining
  IN  /\ l.pc = "post"
      /\ polling' = polling \cup {l.cur}
      /\ IF Chased(e) THEN Goes(e, Resumed([l EXCEPT !.all = whole])) ELSE Ends(e)
      /\ UNCHANGED <<row, remaining, broker, held, raced>>

(* The POST raised: the row is REJECTED and the exception ends the lane.    *)
(* The broker never took the order, unless the failure is ambiguous.        *)
PostFails(e) ==
  LET o == lane[e].cur
  IN  /\ lane[e].pc = "post"
      /\ \/ /\ broker[o].state = "SENT"
            /\ broker' = [broker EXCEPT ![o].state = "DEAD"]
         \/ /\ "postAmbiguous" \in Faults
            /\ UNCHANGED broker
      /\ row' = [row EXCEPT ![o].status = "DEAD"]
      /\ Ends(e)
      /\ UNCHANGED <<remaining, held, polling, raced>>

(* wait_for gives up on the job: whatever it awaited is cancelled, and the  *)
(* CancelledError passes every handler that would have repaired the row.    *)
JobTimesOut(e) ==
  /\ "jobTimeout" \in Faults
  /\ Runner(e) = "worker"
  /\ InRequest(e)
  /\ Ends(e)
  /\ UNCHANGED <<row, remaining, broker, held, polling, raced>>

-----------------------------------------------------------------------------
(* cancel_order, from its first await on *)

(* POST /api/orders/{id}/cancel for a pending order. *)
UserCancels(e, o) ==
  /\ lane[e].pc = "idle"
  /\ TriggerOf[e] = "CANCEL"
  /\ BeginCancel(e, lane[e], o, "user")
  /\ UNCHANGED <<remaining, held, polling>>

(* filled_during_cancel: no caller goes on. *)
CancelSeesFill(e) ==
  /\ lane[e].pc = "call"
  /\ broker[lane[e].old].filled > 0
  /\ Ends(e)
  /\ UNCHANGED <<row, remaining, broker, held, polling, raced>>

(* The tail of cancel_order: a fill the poller booked meanwhile wins, else  *)
(* the row is stamped CANCELLED and the caller gets ok.                     *)
Stamp(e) ==
  LET o == lane[e].old
  IN  /\ IF row[o].status = "FILLED"
           THEN Ends(e) /\ UNCHANGED row
           ELSE /\ row' = [row EXCEPT ![o].status = "DEAD"]
                /\ IF lane[e].by = "user" THEN Ends(e)
                                          ELSE Goes(e, [lane[e] EXCEPT !.pc = "ready"])
      /\ UNCHANGED <<remaining, broker, held, polling, raced>>

(* The order is seen terminal, with nothing filled. *)
CancelConfirmed(e) ==
  /\ lane[e].pc = "call"
  /\ broker[lane[e].old] = [state |-> "DEAD", filled |-> 0]
  /\ Stamp(e)

(* Mutant: unconfirmed is as good as confirmed. *)
CancelUnconfirmedGoesOn(e) ==
  /\ lane[e].pc = "call"
  /\ Stamp(e)

(* No terminal state was seen in time: the lanes that would place hold off, *)
(* the operator's cancel stamps the row all the same.                       *)
CancelUnconfirmed(e) ==
  /\ lane[e].pc = "call"
  /\ \/ /\ lane[e].by = "user"
        /\ Stamp(e)
     \/ /\ lane[e].by = "place"
        /\ Ends(e)
        /\ UNCHANGED <<row, remaining, broker, held, polling, raced>>
     \/ /\ lane[e].by = "watch"
        /\ Goes(e, Resumed(lane[e]))
        /\ UNCHANGED <<row, remaining, broker, held, polling, raced>>

(* The broker's cancel call raised: "marking cancelled locally anyway". *)
CancelRaises(e) ==
  /\ "cancelRaises" \in Faults
  /\ lane[e].pc = "call"
  /\ Stamp(e)

-----------------------------------------------------------------------------
(* The re-peg watchers *)

(* The watcher wakes, on its timer or on a reject, and asks for a quote. *)
Wakes(e) ==
  LET l == lane[e]
  IN  /\ l.pc = "watch"
      /\ IF row[l.cur].status = "FILLED" \/ remaining = 0
           THEN Ends(e)
           ELSE Goes(e, [l EXCEPT !.pc = "quote", !.tries = @ + 1,
                                  !.seen = row[l.cur].status])
      /\ UNCHANGED <<row, remaining, broker, held, polling, raced>>

(* With a quote: a pending order is cancelled first, one in any other       *)
(* status is replaced at once.  _repeg_close_all_sell reads the status      *)
(* again after the quote, _repeg_partial_sell uses the one it woke to.      *)
Quoted(e) ==
  LET l == lane[e]
      status == IF l.all THEN row[l.cur].status ELSE l.seen
  IN  /\ l.pc = "quote"
      /\ \/ /\ status = "PENDING"
            /\ BeginCancel(e, l, l.cur, "watch")
         \/ /\ status = "PENDING"
            /\ row[l.cur].status # "PENDING"
            /\ Goes(e, Resumed(l))
            /\ UNCHANGED <<row, broker, raced>>
         \/ /\ status # "PENDING"
            /\ PlaceSell(e, l)
      /\ UNCHANGED <<remaining, held, polling>>

(* Mutant: an attempt without a quote is not counted. *)
QuoteFailsFree(e) ==
  /\ lane[e].pc = "quote"
  /\ Goes(e, [lane[e] EXCEPT !.pc = "watch", !.tries = @ - 1])
  /\ UNCHANGED <<row, remaining, broker, held, polling, raced>>

(* No quote: the attempt is spent. *)
QuoteFails(e) ==
  /\ lane[e].pc = "quote"
  /\ Goes(e, Resumed(lane[e]))
  /\ UNCHANGED <<row, remaining, broker, held, polling, raced>>

-----------------------------------------------------------------------------
(* _poll_order_fill and _finalize_sell_fill *)

(* Mutant: the row is closed before the newly filled contracts are taken.   *)
PollFilledLate(o) ==
  /\ o \in polling
  /\ broker[o].state = "FILLED"
  /\ row' = [row EXCEPT ![o].status = "FILLED", ![o].filled = broker[o].filled]
  /\ polling' = polling \ {o}
  /\ UNCHANGED <<remaining, broker, held, lane, raced>>

(* FILLED is booked, whatever the row says; only what earlier polls did not *)
(* record is taken off the position.                                        *)
PollFilled(o) ==
  LET newly == IF broker[o].filled >= row[o].filled
                 THEN broker[o].filled - row[o].filled ELSE 0
  IN  /\ o \in polling
      /\ broker[o].state = "FILLED"
      /\ row' = [row EXCEPT ![o].status = "FILLED", ![o].filled = broker[o].filled]
      /\ remaining' = IF newly <= remaining THEN remaining - newly ELSE 0
      /\ polling' = polling \ {o}
      /\ UNCHANGED <<broker, held, lane, raced>>

(* Mutant: any terminal status counts as sold. *)
PollDeadBooks(o) ==
  /\ o \in polling
  /\ broker[o].state = "DEAD"
  /\ row' = [row EXCEPT ![o].status = "DEAD"]
  /\ remaining' = IF row[o].qty <= remaining THEN remaining - row[o].qty ELSE 0
  /\ polling' = polling \ {o}
  /\ UNCHANGED <<broker, held, lane, raced>>

(* Any other terminal status is copied to the row; a SELL's partial fill is *)
(* not looked at.                                                           *)
PollDead(o) ==
  /\ o \in polling
  /\ broker[o].state = "DEAD"
  /\ row' = [row EXCEPT ![o].status = "DEAD"]
  /\ polling' = polling \ {o}
  /\ UNCHANGED <<remaining, broker, held, lane, raced>>

(* The poller gives up, after max_pending_minutes (its cancel is not        *)
(* confirmed) or after ten errors in a row: a pending row is closed.        *)
PollGivesUp(o) ==
  /\ o \in polling
  /\ Faults \cap {"pollTimeout", "pollErrors"} # {}
  /\ row' = IF row[o].status = "PENDING" THEN [row EXCEPT ![o].status = "DEAD"] ELSE row
  /\ polling' = polling \ {o}
  /\ UNCHANGED <<remaining, broker, held, lane, raced>>

-----------------------------------------------------------------------------
(* The broker *)

Accepts(o) ==
  /\ broker[o].state = "SENT"
  /\ broker' = [broker EXCEPT ![o].state = "LIVE"]
  /\ UNCHANGED <<row, remaining, held, polling, lane, raced>>

Fills(o) ==
  /\ broker[o].state = "LIVE"
  /\ broker' = [broker EXCEPT ![o] = [state |-> "FILLED", filled |-> row[o].qty]]
  /\ held' = held - (row[o].qty - broker[o].filled)
  /\ UNCHANGED <<row, remaining, polling, lane, raced>>

FillsOne(o) ==
  /\ "partialFills" \in Faults
  /\ broker[o].state = "LIVE"
  /\ broker[o].filled + 1 < row[o].qty
  /\ broker' = [broker EXCEPT ![o].filled = @ + 1]
  /\ held' = held - 1
  /\ UNCHANGED <<row, remaining, polling, lane, raced>>

(* Cancelled as asked, or rejected or expired unasked. *)
Kills(o) ==
  /\ broker[o].state = "LIVE"
  /\ broker' = [broker EXCEPT ![o].state = "DEAD"]
  /\ UNCHANGED <<row, remaining, held, polling, lane, raced>>

-----------------------------------------------------------------------------
LaneStep(e) ==
  \/ \E q \in 1..Lot : Request(e, q)
  \/ \E o \in Oids : UserCancels(e, o)
  \/ Replace(e)
  \/ PostReturns(e)
  \/ PostFails(e)
  \/ JobTimesOut(e)
  \/ CancelSeesFill(e)
  \/ CancelConfirmed(e)
  \/ CancelUnconfirmed(e)
  \/ CancelRaises(e)
  \/ Wakes(e)
  \/ Quoted(e)
  \/ QuoteFails(e)

PollerStep(o) == PollFilled(o) \/ PollDead(o) \/ PollGivesUp(o)

BrokerStep(o) == Accepts(o) \/ Fills(o) \/ FillsOne(o) \/ Kills(o)

(* Nothing is left to run; resting orders are the broker's business. *)
Quiet ==
  /\ \A e \in Exits : \/ lane[e].pc = "done"
                      \/ lane[e].pc = "idle" /\ TriggerOf[e] = "CANCEL"
  /\ polling = {}
  /\ UNCHANGED vars

Next ==
  \/ \E e \in Exits : LaneStep(e)
  \/ \E o \in Oids : PollerStep(o) \/ BrokerStep(o)
  \/ Quiet

Spec == Init /\ [][Next]_vars

(* A lane that has begun is a task the event loop resumes and every await   *)
(* of its returns or times out; so is a poller, whose get_order answers.    *)
(* Nothing obliges anyone to ask for an exit, nor the broker to act.        *)
LaneGoesOn(e) ==
  \/ Replace(e) \/ PostReturns(e) \/ PostFails(e)
  \/ CancelSeesFill(e) \/ CancelConfirmed(e) \/ CancelUnconfirmed(e)
  \/ Wakes(e) \/ Quoted(e) \/ QuoteFails(e)

FairSpec == /\ Spec
            /\ \A e \in Exits : WF_vars(LaneGoesOn(e))
            /\ \A o \in Oids : WF_vars(PollerStep(o))

-----------------------------------------------------------------------------
(* Properties *)

(* A lane at work on an order has one, and a sleeping watcher has attempts  *)
(* left.                                                                    *)
LaneShape ==
  \A e \in Exits :
    /\ lane[e].pc \in {"call", "ready"} => /\ lane[e].old \in Oids
                                           /\ lane[e].by = "watch" => lane[e].cur \in Oids
    /\ lane[e].pc \in {"post", "watch", "quote"} => lane[e].cur \in Oids
    /\ lane[e].pc = "watch" => lane[e].tries < MaxAttempts

(* Every variable has its type. *)
TypeOK ==
  /\ row \in [Oids -> Row]
  /\ remaining \in 0..Lot
  /\ broker \in [Oids -> BrokerOrder]
  /\ held \in Int
  /\ polling \subseteq Oids
  /\ lane \in [Exits -> Lane]
  /\ raced \in BOOLEAN
  /\ LaneShape

(* No double-sell: whatever exits, watchers and displacements interleave,   *)
(* the account is sold short only after an exit was inserted while another  *)
(* was pending.  _place_sell looks for a pending order before it awaits the *)
(* cancel of the one it found, and not after: that is the one way in.       *)
NoOversell == ~raced => held >= 0

(* What the serialised order path of docs/ARCHITECTURE.md would make of it. *)
NeverShort == held >= 0

(* The confirmed-cancel contract: when cancel_order lets a lane go on to    *)
(* replace an order, that order is over at the broker and sold nothing.     *)
ReplacesOnlyTheDead ==
  \A e \in Exits : lane[e].pc = "ready" =>
    broker[lane[e].old] = [state |-> "DEAD", filled |-> 0]

(* A fill is never lost: while the broker has sold more of an order than    *)
(* the row records, a poller that will book it runs or is about to.         *)
FillWillBeBooked ==
  \A o \in Oids : broker[o].filled > row[o].filled =>
    \/ o \in polling
    \/ \E e \in Exits : lane[e].pc = "post" /\ lane[e].cur = o

(* A row that left PENDING without a fill has no live order behind it: the  *)
(* code reads such rows as "nothing can take contracts any more".           *)
DeadRowsAreDead ==
  \A o \in Oids : row[o].status = "DEAD" =>
    broker[o].state \in {"DEAD", "FILLED"}

(* The position row never claims fewer contracts than the account has: no   *)
(* fill is booked twice, under any fault.                                   *)
NeverOverbooks == remaining >= held

(* Once nothing is in flight the position row and the account agree, also   *)
(* when exits raced; of an account sold short the row says 0.               *)
BooksAgree ==
  (\A o \in Oids : o \notin polling /\ broker[o].state \notin {"SENT", "LIVE"})
    /\ (\A e \in Exits : lane[e].pc # "post")
  => remaining = AtLeast0(held)

(* A watcher never sends a second SELL while its own first one can still    *)
(* sell, or after it sold.                                                  *)
RepegsOnlyTheDead ==
  [][\A e \in Exits :
       (lane[e].cur # NoOid /\ lane'[e].cur \notin {NoOid, lane[e].cur}) =>
         broker[lane[e].cur] = [state |-> "DEAD", filled |-> 0]]_vars

(* Every exit comes to an end: no request waits forever on another, and no  *)
(* watcher chases forever.                                                  *)
EveryExitEnds ==
  \A e \in Exits : (lane[e].pc \notin {"idle", "done"}) ~> (lane[e].pc = "done")

(* The exits keep the promise of the ledger, whose variables are the ones   *)
(* of the same names here.                                                  *)
Ledger == INSTANCE ExitLedger
KeepsLedger == Ledger!Spec
KeepsFairLedger == Ledger!FairSpec

-----------------------------------------------------------------------------
(* The inductive invariant behind NoOversell *)

(* No order outlives its row: nobody stamps one that was not confirmed, and *)
(* orders fill in whole.                                                    *)
Clean ==
  /\ Faults \subseteq {"jobTimeout"}
  /\ \A e \in Exits : TriggerOf[e] # "CANCEL"

(* A lane at work wants something. *)
Wanting == \A e \in Exits : lane[e].pc \notin {"idle", "done"} => lane[e].want > 0

OnePending == \A o, p \in Pending : o = p

(* How a row and the broker's order may differ. *)
RowsFollowBroker ==
  \A o \in Oids :
    /\ row[o].status = "NONE" <=> broker[o].state = "NONE"
    /\ row[o].status = "FILLED" => broker[o].state = "FILLED"
    /\ row[o].status = "DEAD" => broker[o].state = "DEAD"
    /\ row[o].status # "NONE" => row[o].qty > 0
    /\ row[o].filled = IF row[o].status = "FILLED" THEN row[o].qty ELSE 0
    /\ broker[o].filled = IF broker[o].state = "FILLED" THEN row[o].qty ELSE 0

(* The one pending order accounts for all the position row does not know. *)
Accounts ==
  /\ held >= 0
  /\ \A o \in Pending :
       /\ broker[o].state = "FILLED" => remaining = held + row[o].qty
       /\ broker[o].state # "FILLED" => remaining = held
       /\ broker[o].state \in {"SENT", "LIVE"} => row[o].qty <= remaining
  /\ Pending = {} => remaining = held

ExitInv ==
  /\ TypeOK
  /\ Wanting
  /\ RowsFollowBroker
  /\ ~raced => OnePending /\ Accounts
=============================================================================
