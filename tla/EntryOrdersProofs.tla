-------------------------- MODULE EntryOrdersProofs --------------------------
(***************************************************************************)
(* Proofs about EntryOrders, for any alerts, contracts, settings and       *)
(* numbers of orders: an exit that cancelled its analyst's entries leaves  *)
(* none of those it found to fill unseen; an alert has one order at work   *)
(* or filled, unless a row misled a task of it; each order has its poller, *)
(* unless it was let go of; what is bought and sold is booked once.        *)
(***************************************************************************)
EXTENDS EntryOrders, FiniteSetTheorems, TLAPS

-----------------------------------------------------------------------------
(* The invariant *)

Statuses == {"NONE", "PENDING", "PARTIALLY_FILLED", "FILLED", "CANCELLED", "REJECTED", "ERROR"}
States == {"NONE", "SENT", "LIVE", "FILLED", "DEAD"}
RowSet == [alert : Alerts \cup {NoAlert}, status : Statuses, filled : Nat]
OrderSet == [state : States, filled : Nat]

TablesTyped ==
  /\ rows \in Nat /\ rows <= MaxRows
  /\ row \in [Oids -> RowSet]
  /\ broker \in [Oids -> OrderSet]

(* The worker is at the alert whose job is under way, and so at no exit.    *)
Shaped(t) == t = [pc |-> t.pc, cur |-> t.cur, saw |-> t.saw, tries |-> t.tries]
TaskShaped(t) == t = [k \in Kinds |-> t[k]] /\ \A k \in Kinds : Shaped(t[k])
TasksShaped == task = [b \in Buys |-> task[b]] /\ \A b \in Buys : TaskShaped(task[b])
Busy(b) == task[b]["job"].pc \in {"checked", "quoting", "posting"}
JobsTold == TasksShaped /\ \A b \in Buys : Busy(b) => worker = b

(* An entry an exit has dealt with. *)
Settled(o) == Traded(o) \/ row[o].status # "PENDING"
SweepKept ==
  /\ clearing \in [Sells -> [found : SUBSET (1..rows), todo : SUBSET (1..rows)]]
  /\ \A s \in Sells : \A o \in clearing[s].found \ clearing[s].todo : Settled(o)

ClearInv == TablesTyped /\ JobsTold /\ SweepKept

-----------------------------------------------------------------------------
(* What a step does to the orders *)

Inserted == \E b \in Buys, k \in Kinds : \E n : Inserts(b, k, n)
Ends(o) ==
  /\ UNCHANGED rows
  /\ row' = row \/ \E st \in Statuses \ {"PENDING"} : row' = [row EXCEPT ![o].status = st]
  /\ broker' = broker \/ \E y \in States : broker' = [broker EXCEPT ![o].state = y]
Polled(o) ==
  /\ UNCHANGED <<rows, broker>>
  /\ \E st \in Statuses \ {"PENDING"} :
       row' = [row EXCEPT ![o].status = st, ![o].filled = broker[o].filled]
Traded1(o) ==
  /\ UNCHANGED <<rows, row>>
  /\ \E y \in States, n \in Nat \ {0} : broker' = [broker EXCEPT ![o] = [state |-> y, filled |-> n]]

Moves ==
  \/ UNCHANGED <<row, rows, broker>>
  \/ Inserted
  \/ \E o : Ends(o)
  \/ \E o \in Oids : Polled(o) \/ Traded1(o)

(* What was dealt with stays so, whatever a step does to the tables.        *)
LEMMA MovesSettle ==
  ASSUME TablesTyped, Moves
  PROVE  /\ TablesTyped'
         /\ rows <= rows'
         /\ \A o \in 1..rows : Settled(o) => Settled(o)'
<1>1. 1..rows \subseteq Oids /\ MaxRows \in Nat
      BY SizeAssumption DEF TablesTyped, Oids
<1>2. CASE UNCHANGED <<row, rows, broker>>
      BY <1>2 DEF TablesTyped, Settled, Traded, TradedHere
<1>3. CASE Inserted
  <2>1. PICK b \in Buys, k \in Kinds : \E n : Inserts(b, k, n)
        BY <1>3 DEF Inserted
  <2>2. rows < MaxRows /\ rows' = rows + 1 /\ rows + 1 \in Oids
        BY <1>1, <2>1 DEF Inserts, TablesTyped, Oids
  <2>3. /\ row' = [row EXCEPT ![rows + 1] = [alert |-> b, status |-> "PENDING", filled |-> 0]]
        /\ broker' = [broker EXCEPT ![rows + 1].state = "SENT"]
        BY <2>1 DEF Inserts
  <2>4. TablesTyped'
        BY <1>1, <2>2, <2>3 DEF TablesTyped, RowSet, OrderSet, Alerts, Statuses, States
  <2>5. \A o \in 1..rows : row'[o] = row[o] /\ broker'[o] = broker[o]
        BY <1>1, <2>3 DEF TablesTyped
  <2>6. QED BY <1>1, <2>2, <2>4, <2>5 DEF Settled, Traded, TradedHere, TablesTyped
<1>4. ASSUME NEW o, Ends(o)
      PROVE  TablesTyped' /\ rows <= rows' /\ \A p \in 1..rows : Settled(p) => Settled(p)'
  <2>1. /\ row' \in [Oids -> RowSet]
        /\ \A p \in Oids : row'[p].filled = row[p].filled /\ (row'[p].status = row[p].status \/ row'[p].status # "PENDING")
        BY <1>4 DEF Ends, TablesTyped, RowSet
  <2>2. /\ broker' \in [Oids -> OrderSet]
        /\ \A p \in Oids : broker'[p].filled = broker[p].filled
        BY <1>4 DEF Ends, TablesTyped, OrderSet
  <2>3. rows' = rows
        BY <1>4 DEF Ends
  <2>4. \A p \in 1..rows : Settled(p) => Settled(p)'
        BY <1>1, <2>1, <2>2 DEF Settled, Traded, TradedHere
  <2>5. QED BY <2>1, <2>2, <2>3, <2>4 DEF TablesTyped
<1>5. ASSUME NEW o \in Oids, Polled(o)
      PROVE  TablesTyped' /\ rows <= rows' /\ \A p \in 1..rows : Settled(p) => Settled(p)'
  <2>1. PICK st \in Statuses \ {"PENDING"} :
          row' = [row EXCEPT ![o].status = st, ![o].filled = broker[o].filled]
        BY <1>5 DEF Polled
  <2>2. rows' = rows /\ broker' = broker /\ broker[o].filled \in Nat
        BY <1>5 DEF Polled, TablesTyped, OrderSet
  <2>3. row' \in [Oids -> RowSet] /\ row'[o].status = st /\ \A p \in Oids \ {o} : row'[p] = row[p]
        BY <2>1, <2>2 DEF TablesTyped, RowSet
  <2>4. \A p \in 1..rows : Settled(p) => Settled(p)'
        BY <1>1, <2>2, <2>3 DEF Settled, Traded, TradedHere
  <2>5. QED BY <2>2, <2>3, <2>4 DEF TablesTyped
<1>6. ASSUME NEW o \in Oids, Traded1(o)
      PROVE  TablesTyped' /\ rows <= rows' /\ \A p \in 1..rows : Settled(p) => Settled(p)'
  <2>1. PICK y \in States, n \in Nat \ {0} : broker' = [broker EXCEPT ![o] = [state |-> y, filled |-> n]]
        BY <1>6 DEF Traded1
  <2>2. rows' = rows /\ row' = row
        BY <1>6 DEF Traded1
  <2>3. broker' \in [Oids -> OrderSet] /\ broker'[o].filled > 0 /\ \A p \in Oids \ {o} : broker'[p] = broker[p]
        BY <2>1 DEF TablesTyped, OrderSet
  <2>4. \A p \in 1..rows : Settled(p) => Settled(p)'
        BY <1>1, <2>2, <2>3 DEF Settled, Traded, TradedHere
  <2>5. QED BY <2>2, <2>3, <2>4 DEF TablesTyped
<1>7. QED BY <1>2, <1>3, <1>4, <1>5, <1>6 DEF Moves

(* Every step is one of those. *)
LEMMA TakenMoves ==
  ASSUME TablesTyped, NEW o \in 1..rows, PollStep(o) \/ BrokerStep(o)
  PROVE  Moves
<1>1. o \in Oids /\ row[o] \in RowSet /\ broker[o] \in OrderSet /\ Qty \in Nat \ {0}
      BY SizeAssumption DEF TablesTyped, Oids
<1>2. CASE PollFilled(o)
  <2>1. row' = [row EXCEPT ![o].status = "FILLED", ![o].filled = broker[o].filled]
        BY <1>2 DEF PollFilled
  <2>2. UNCHANGED <<rows, broker>> /\ "FILLED" \in Statuses \ {"PENDING"}
        BY <1>2 DEF PollFilled, Statuses
  <2>3. QED BY <1>1, <2>1, <2>2 DEF Moves, Polled
<1>3. CASE PollPartial(o)
  <2>1. row' = [row EXCEPT ![o].status = "PARTIALLY_FILLED", ![o].filled = broker[o].filled]
        BY <1>3 DEF PollPartial
  <2>2. UNCHANGED <<rows, broker>> /\ "PARTIALLY_FILLED" \in Statuses \ {"PENDING"}
        BY <1>3 DEF PollPartial, Statuses
  <2>3. QED BY <1>1, <2>1, <2>2 DEF Moves, Polled
<1>4. CASE PollDead(o)
      BY <1>4 DEF PollDead, Moves, Ends, Statuses
<1>5. CASE PollGivesUp(o)
      BY <1>5 DEF PollGivesUp, GivesUp, Moves, Ends, Statuses, States
<1>e. CASE PollErrs(o)
      BY <1>e DEF PollErrs, GivesUp, Moves, Ends, Statuses, States
<1>6. CASE Accepts(o)
      BY <1>6 DEF Accepts, Moves, Ends, States
<1>7. CASE Fills(o)
      BY <1>1, <1>7 DEF Fills, Buys1, Moves, Traded1, States
<1>8. CASE FillsPart(o)
  <2>1. broker[o].filled + 1 \in Nat \ {0}
        BY <1>1 DEF OrderSet
  <2>2. QED BY <1>1, <1>8, <2>1 DEF FillsPart, Buys1, Moves, Traded1, States
<1>9. CASE Kills(o)
      BY <1>9 DEF Kills, Moves, Ends, States
<1>10. QED BY <1>2, <1>3, <1>4, <1>5, <1>e, <1>6, <1>7, <1>8, <1>9 DEF PollStep, BrokerStep

LEMMA WorkMoves ==
  ASSUME NEW b \in Buys,
         JobStep(b) \/ PostStep(b) \/ CoolStep(b) \/ PegStep(b) \/ Strikes(b) \/ Resubmits(b)
  PROVE  Moves
<1>1. "job" \in Kinds /\ "over" \in Kinds /\ "cool" \in Kinds /\ "peg" \in Kinds
      BY DEF Kinds
<1>2. CASE JobStep(b)
      BY <1>1, <1>2 DEF JobStep, Checks, Prices, RanAway, Places, orders, Moves, Inserted
<1>3. CASE PostStep(b)
  <2>1. PICK k \in Kinds : PostReturns(b, k) \/ PostFails(b, k)
        BY <1>3 DEF PostStep
  <2>2. CASE PostReturns(b, k)
        BY <2>2 DEF PostReturns, Moves
  <2>3. CASE PostFails(b, k)
        BY <2>3 DEF PostFails, Moves, Ends, Statuses, States
  <2>4. QED BY <2>1, <2>2, <2>3
<1>4. CASE CoolStep(b)
      BY <1>1, <1>4 DEF CoolStep, CoolWakes, Cooled, orders, Moves, Inserted
<1>5. CASE PegStep(b)
  <2>1. CASE PegStopped(b)
        BY <2>1 DEF PegStopped, Stamped, Moves, Ends, Statuses
  <2>2. CASE PegWakes(b) \/ PegQuoted(b) \/ PegReplaces(b)
        BY <1>1, <2>2 DEF PegWakes, PegQuoted, PegReplaces, orders, Moves, Inserted
  <2>3. QED BY <1>5, <2>1, <2>2 DEF PegStep
<1>6. CASE Strikes(b)
      BY <1>6 DEF Strikes, Stamped, Moves, Ends, Statuses
<1>7. CASE Resubmits(b)
      BY <1>7 DEF Resubmits, orders, Moves
<1>8. QED BY <1>2, <1>3, <1>4, <1>5, <1>6, <1>7

LEMMA StepMoves ==
  ASSUME TablesTyped, [Next]_vars
  PROVE  Moves
<1>1. CASE \E a \in Alerts : Arrives(a)
      BY <1>1 DEF Arrives, orders, Moves
<1>2. CASE \E b \in Buys : JobStep(b) \/ PostStep(b) \/ CoolStep(b) \/ PegStep(b) \/ Strikes(b) \/ Resubmits(b)
      BY <1>2, WorkMoves
<1>3. CASE \E s \in Sells : Sells1(s) \/ Ignores(s)
      BY <1>3 DEF Sells1, Ignores, orders, Moves
<1>4. CASE \E s \in Sells, o \in Oids : Clears(s, o)
      BY <1>4 DEF Clears, Stamped, Moves, Ends, Statuses
<1>5. CASE \E o \in 1..rows : PollStep(o) \/ BrokerStep(o)
      BY <1>5, TakenMoves
<1>6. CASE \E c \in Contracts : AutoExits(c) \/ Forgets(c)
      BY <1>6 DEF AutoExits, Forgets, orders, Moves
<1>7. CASE UNCHANGED vars
      BY <1>7 DEF vars, Moves
<1>8. QED BY <1>1, <1>2, <1>3, <1>4, <1>5, <1>6, <1>7 DEF Next, Step

-----------------------------------------------------------------------------
(* The worker *)

(* How the worker goes on: it stays, ends a job, begins one, begins an exit *)
(* or ends one.                                                             *)
NoneBegins(a) == Busy(a)' => Busy(a)
WorkerMoves ==
  /\ TasksShaped'
  /\ \/ worker' = worker /\ \A a \in Buys : NoneBegins(a)
     \/ /\ worker' = NoAlert
        /\ \E b \in Buys : Busy(b) /\ ~Busy(b)' /\ \A a \in Buys \ {b} : NoneBegins(a)
     \/ worker = NoAlert /\ worker' \in Buys /\ \A a \in Buys \ {worker'} : NoneBegins(a)
     \/ worker = NoAlert /\ worker' \in Sells /\ \A a \in Buys : NoneBegins(a)
     \/ (\E s \in Sells : Ignores(s)) /\ \A a \in Buys : NoneBegins(a)

LEMMA TurnsShaped ==
  ASSUME TasksShaped, NEW b \in Buys, NEW t, TaskShaped(t), Turns(b, t)
  PROVE  /\ TasksShaped'
         /\ \A a \in Buys : task'[a] = IF a = b THEN t ELSE task[a]
BY DEF TasksShaped, Turns

LEMMA GoesShaped ==
  ASSUME TasksShaped, NEW b \in Buys, NEW k \in Kinds, NEW pc, Goes(b, k, pc)
  PROVE  /\ TasksShaped'
         /\ \A a \in Buys \ {b} : task'[a] = task[a]
         /\ task'[b]["job"].pc = IF k = "job" THEN pc ELSE task[b]["job"].pc
<1> DEFINE t == [task[b] EXCEPT ![k].pc = pc]
<1>1. TaskShaped(task[b])
      BY DEF TasksShaped
<1>2. TaskShaped(t) /\ t["job"].pc = IF k = "job" THEN pc ELSE task[b]["job"].pc
      BY <1>1 DEF TaskShaped, Shaped, Kinds
<1>3. Turns(b, t)
      BY DEF Goes
<1> HIDE DEF t
<1>4. QED BY <1>2, <1>3, TurnsShaped

(* A task that is not the job takes a turn, beside the worker. *)
LEMMA OtherTurns ==
  ASSUME TasksShaped, NEW b \in Buys, NEW t, TaskShaped(t), Turns(b, t),
         t["job"] = task[b]["job"], worker' = worker
  PROVE  WorkerMoves
<1>1. TasksShaped' /\ \A a \in Buys : task'[a] = IF a = b THEN t ELSE task[a]
      BY TurnsShaped
<1>2. \A a \in Buys : NoneBegins(a)
      BY <1>1 DEF NoneBegins, Busy
<1>3. QED BY <1>1, <1>2 DEF WorkerMoves

LEMMA OtherGoes ==
  ASSUME TasksShaped, NEW b \in Buys, NEW k \in Kinds, k # "job", NEW pc, Goes(b, k, pc), worker' = worker
  PROVE  WorkerMoves
<1>1. /\ TasksShaped' /\ \A a \in Buys \ {b} : task'[a] = task[a]
      /\ task'[b]["job"].pc = task[b]["job"].pc
      BY GoesShaped
<1>2. \A a \in Buys : NoneBegins(a)
      BY <1>1 DEF NoneBegins, Busy
<1>3. QED BY <1>1, <1>2 DEF WorkerMoves

(* The job is over, and the worker free. *)
LEMMA JobEnds ==
  ASSUME TasksShaped, NEW b \in Buys, Busy(b), NEW t, TaskShaped(t), Turns(b, t),
         t["job"].pc = "done", worker' = NoAlert
  PROVE  WorkerMoves
<1>1. TasksShaped' /\ \A a \in Buys : task'[a] = IF a = b THEN t ELSE task[a]
      BY TurnsShaped
<1>2. ~Busy(b)' /\ \A a \in Buys \ {b} : NoneBegins(a)
      BY <1>1 DEF NoneBegins, Busy
<1>3. QED BY <1>1, <1>2 DEF WorkerMoves

(* The job goes on. *)
LEMMA JobGoesOn ==
  ASSUME TasksShaped, NEW b \in Buys, Busy(b), NEW t, TaskShaped(t), Turns(b, t), worker' = worker
  PROVE  WorkerMoves
<1>1. TasksShaped' /\ \A a \in Buys : task'[a] = IF a = b THEN t ELSE task[a]
      BY TurnsShaped
<1>2. \A a \in Buys : NoneBegins(a)
      BY <1>1 DEF NoneBegins, Busy
<1>3. QED BY <1>1, <1>2 DEF WorkerMoves

(* A task that turns from where the worker may be waiting for it. *)
LEMMA WorkTurns ==
  ASSUME TasksShaped, NEW b \in Buys, NEW k \in Kinds,
         task[b][k].pc \in {"checked", "quoting", "posting"},
         NEW t, TaskShaped(t), Turns(b, t),
         t[k].pc = "done", k # "job" => t["job"] = task[b]["job"],
         worker' = IF k = "job" THEN NoAlert ELSE worker
  PROVE  WorkerMoves
<1>1. CASE k = "job"
      BY <1>1, JobEnds DEF Busy
<1>2. CASE k # "job"
      BY <1>2, OtherTurns
<1>3. QED BY <1>1, <1>2

LEMMA InsertsTurns ==
  ASSUME TasksShaped, NEW b \in Buys, NEW k \in Kinds, NEW n, Inserts(b, k, n), worker' = worker,
         k = "job" => Busy(b)
  PROVE  WorkerMoves
<1> DEFINE t == [task[b] EXCEPT ![k] = [pc |-> "posting", cur |-> rows + 1, saw |-> "NONE", tries |-> n]]
<1>1. TaskShaped(task[b])
      BY DEF TasksShaped
<1>2. TaskShaped(t) /\ (k # "job" => t["job"] = task[b]["job"]) /\ Turns(b, t)
      BY <1>1 DEF TaskShaped, Shaped, Kinds, Inserts
<1> HIDE DEF t
<1>3. CASE k = "job"
      BY <1>2, <1>3, JobGoesOn
<1>4. CASE k # "job"
      BY <1>2, <1>4, OtherTurns
<1>5. QED BY <1>3, <1>4

LEMMA WorkTurnsBack ==
  ASSUME TasksShaped, NEW b \in Buys, NEW k \in Kinds,
         task[b][k].pc \in {"checked", "quoting", "posting"},
         Goes(b, k, "done"), worker' = IF k = "job" THEN NoAlert ELSE worker
  PROVE  WorkerMoves
<1> DEFINE t == [task[b] EXCEPT ![k].pc = "done"]
<1>1. TaskShaped(task[b])
      BY DEF TasksShaped
<1>2. TaskShaped(t) /\ t[k].pc = "done" /\ (k # "job" => t["job"] = task[b]["job"])
      BY <1>1 DEF TaskShaped, Shaped, Kinds
<1>3. Turns(b, t)
      BY DEF Goes
<1> HIDE DEF t
<1>4. QED BY <1>2, <1>3, WorkTurns

(* One task of an alert is over, and another starts anew. *)
LEMMA TwoTurns ==
  ASSUME NEW t, TaskShaped(t), NEW k \in Kinds, NEW j \in {"peg", "cool"}, j # k, NEW r, Shaped(r)
  PROVE  LET u == [t EXCEPT ![k].pc = "done", ![j] = r] IN
         TaskShaped(u) /\ u[k].pc = "done" /\ (k # "job" => u["job"] = t["job"])
<1> DEFINE v == [t EXCEPT ![k].pc = "done"]
           u == [v EXCEPT ![j] = r]
<1>1. TaskShaped(v) /\ v[k].pc = "done" /\ (k # "job" => v["job"] = t["job"])
      BY DEF TaskShaped, Shaped, Kinds
<1> HIDE DEF v
<1>2. j \in Kinds /\ j # "job"
      BY DEF Kinds
<1>3. u = [i \in Kinds |-> IF i = j THEN r ELSE v[i]]
      BY <1>1 DEF TaskShaped
<1>4. TaskShaped(u) /\ u[k].pc = "done" /\ (k # "job" => u["job"] = t["job"])
      BY <1>1, <1>2, <1>3 DEF TaskShaped, Kinds
<1>5. [t EXCEPT ![k].pc = "done", ![j] = r] = u
      BY DEF v
<1>6. QED BY <1>4, <1>5

LEMMA AsleepShaped ==
  ASSUME NEW o
  PROVE  Shaped(Asleep(o))
BY DEF Asleep, Shaped

LEMMA JobStepMoves ==
  ASSUME TasksShaped, NoAlert \notin Alerts, NEW b \in Buys, JobStep(b)
  PROVE  WorkerMoves
<1>1. "job" \in Kinds /\ "over" \in Kinds /\ "cool" \in Kinds /\ "peg" \in Kinds
      BY DEF Kinds
<1>2. CASE Checks(b)
  <2>1. worker = NoAlert
        BY <1>2 DEF Checks, Takes
  <2>2. PICK pc : Goes(b, "job", pc) /\ ((pc = "done" /\ worker' = worker) \/ (pc = "checked" /\ worker' = b))
        BY <1>2 DEF Checks
  <2>3. /\ TasksShaped' /\ \A a \in Buys \ {b} : task'[a] = task[a]
        /\ task'[b]["job"].pc = pc
        BY <1>1, <2>2, GoesShaped
  <2>4. \A a \in Buys \ {b} : NoneBegins(a)
        BY <2>3 DEF NoneBegins, Busy
  <2>5. CASE pc = "done" /\ worker' = worker
    <3>1. NoneBegins(b)
          BY <2>3, <2>5 DEF NoneBegins, Busy
    <3>2. QED BY <2>3, <2>4, <2>5, <3>1 DEF WorkerMoves
  <2>6. CASE pc = "checked" /\ worker' = b
        BY <2>1, <2>3, <2>4, <2>6 DEF WorkerMoves
  <2>7. QED BY <2>2, <2>5, <2>6
<1>3. ASSUME NEW k \in {"job", "over"}, Prices(b, k)
      PROVE  WorkerMoves
  <2>1. task[b][k].pc = "checked" /\ k \in Kinds
        BY <1>1, <1>3 DEF Prices, Is
  <2>2. CASE Skips(b, k)
        BY <2>1, <2>2, WorkTurnsBack DEF Skips
  <2>3. CASE Goes(b, k, "quoting") /\ UNCHANGED worker
    <3>1. CASE k = "job"
      <4>1. /\ TasksShaped' /\ \A a \in Buys \ {b} : task'[a] = task[a]
            BY <2>1, <2>3, GoesShaped
      <4>2. Busy(b) /\ \A a \in Buys : NoneBegins(a)
            BY <2>1, <3>1, <4>1 DEF NoneBegins, Busy
      <4>3. QED BY <2>3, <4>1, <4>2 DEF WorkerMoves
    <3>2. CASE k # "job"
          BY <2>1, <2>3, <3>2, OtherGoes
    <3>3. QED BY <3>1, <3>2
  <2>4. QED BY <1>3, <2>2, <2>3 DEF Prices
<1>4. ASSUME NEW k \in {"job", "over"}, RanAway(b, k)
      PROVE  WorkerMoves
  <2> DEFINE t == [task[b] EXCEPT ![k].pc = "done",
                                  !["cool"] = IF CooldownOn /\ Rests(b, "cool") THEN Asleep(0) ELSE @]
  <2>1. task[b][k].pc = "quoting" /\ k \in Kinds
        BY <1>1, <1>4 DEF RanAway, Is
  <2>2. TaskShaped(task[b])
        BY DEF TasksShaped
  <2>3. \A r : Shaped(r) => LET u == [task[b] EXCEPT ![k].pc = "done", !["cool"] = r] IN
          TaskShaped(u) /\ u[k].pc = "done" /\ (k # "job" => u["job"] = task[b]["job"])
        BY <2>1, <2>2, TwoTurns
  <2>4. TaskShaped(t) /\ t[k].pc = "done" /\ (k # "job" => t["job"] = task[b]["job"])
    <3>1. Shaped(task[b]["cool"]) /\ Shaped(Asleep(0))
          BY <1>1, <2>2, AsleepShaped DEF TaskShaped
    <3>2. QED BY <2>3, <3>1
  <2>5. Turns(b, t) /\ worker' = IF k = "job" THEN NoAlert ELSE worker
        BY <1>4 DEF RanAway
  <2> HIDE DEF t
  <2>6. QED BY <2>1, <2>4, <2>5, WorkTurns
<1>5. ASSUME NEW k \in {"job", "over"}, Places(b, k)
      PROVE  WorkerMoves
  <2>1. Inserts(b, k, 0) /\ worker' = worker /\ task[b][k].pc = "quoting" /\ k \in Kinds
        BY <1>1, <1>5 DEF Places, Is, desk
  <2>2. QED BY <2>1, InsertsTurns DEF Busy
<1>6. QED BY <1>2, <1>3, <1>4, <1>5 DEF JobStep

LEMMA PostStepMoves ==
  ASSUME TasksShaped, NEW b \in Buys, PostStep(b)
  PROVE  WorkerMoves
<1>1. PICK k \in Kinds : PostReturns(b, k) \/ PostFails(b, k)
      BY DEF PostStep
<1>2. task[b][k].pc = "posting" /\ worker' = IF k = "job" THEN NoAlert ELSE worker
      BY <1>1 DEF PostReturns, PostFails, Is
<1>3. CASE PostFails(b, k)
      BY <1>2, <1>3, WorkTurnsBack DEF PostFails
<1>4. CASE PostReturns(b, k)
  <2>1. CASE k = "peg"
        BY <1>2, <1>4, <2>1, OtherGoes DEF PostReturns
  <2>2. CASE k # "peg"
    <3> DEFINE o == task[b][k].cur
               t == [task[b] EXCEPT
                       ![k].pc = "done",
                       !["peg"] = IF k \in {"job", "over"} /\ b \in Repegged /\ Rests(b, "peg")
                                    THEN Asleep(o) ELSE @]
    <3>1. TaskShaped(task[b])
          BY DEF TasksShaped
    <3>2. \A r : Shaped(r) => LET u == [task[b] EXCEPT ![k].pc = "done", !["peg"] = r] IN
            TaskShaped(u) /\ u[k].pc = "done" /\ (k # "job" => u["job"] = task[b]["job"])
          BY <2>2, <3>1, TwoTurns
    <3>3. TaskShaped(t) /\ t[k].pc = "done" /\ (k # "job" => t["job"] = task[b]["job"])
      <4>1. Shaped(task[b]["peg"]) /\ Shaped(Asleep(o))
            BY <3>1, AsleepShaped DEF TaskShaped, Kinds
      <4>2. QED BY <3>2, <4>1
    <3>4. Turns(b, t)
          BY <1>4, <2>2 DEF PostReturns
    <3> HIDE DEF t
    <3>5. QED BY <1>2, <3>3, <3>4, WorkTurns
  <2>3. QED BY <2>1, <2>2
<1>5. QED BY <1>1, <1>3, <1>4

LEMMA BesideMoves ==
  ASSUME TasksShaped, NEW b \in Buys, CoolStep(b) \/ PegStep(b) \/ Resubmits(b)
  PROVE  WorkerMoves
<1>1. "over" \in Kinds /\ "cool" \in Kinds /\ "peg" \in Kinds
      BY DEF Kinds
<1>2. worker' = worker
      BY DEF CoolStep, CoolWakes, Cooled, PegStep, PegWakes, PegQuoted, PegStopped, PegReplaces, Resubmits, desk
<1>3. CASE \E k \in {"over", "cool", "peg"} : \E pc : Goes(b, k, pc)
  <2>1. PICK k \in {"over", "cool", "peg"} : \E pc : Goes(b, k, pc)
        BY <1>3
  <2>2. k \in Kinds /\ k # "job"
        BY <1>1
  <2>3. QED BY <1>2, <2>1, <2>2, OtherGoes
<1>4. CASE \E k \in {"cool", "peg"} : \E n : Inserts(b, k, n)
  <2>1. PICK k \in {"cool", "peg"} : \E n : Inserts(b, k, n)
        BY <1>4
  <2>2. QED BY <1>1, <1>2, <2>1, InsertsTurns
<1>5. CASE \E n, st : Turns(b, [task[b] EXCEPT !["peg"].pc = "quoting", !["peg"].tries = n, !["peg"].saw = st])
  <2>1. PICK n, st : Turns(b, [task[b] EXCEPT !["peg"].pc = "quoting", !["peg"].tries = n, !["peg"].saw = st])
        BY <1>5
  <2> DEFINE t == [task[b] EXCEPT !["peg"].pc = "quoting", !["peg"].tries = n, !["peg"].saw = st]
  <2>2. TaskShaped(task[b])
        BY DEF TasksShaped
  <2>3. TaskShaped(t) /\ t["job"] = task[b]["job"]
        BY <2>2 DEF TaskShaped, Shaped, Kinds
  <2> HIDE DEF t
  <2>4. QED BY <1>2, <2>1, <2>3, OtherTurns DEF t
<1>6. CASE CoolStep(b)
      BY <1>3, <1>4, <1>6 DEF CoolStep, CoolWakes, Cooled
<1>7. CASE PegWakes(b)
  <2>1. CASE Goes(b, "peg", "done")
        BY <1>3, <2>1
  <2>2. CASE ~Goes(b, "peg", "done")
    <3>1. Turns(b, [task[b] EXCEPT !["peg"].pc = "quoting", !["peg"].tries = task[b]["peg"].tries + 1,
                                   !["peg"].saw = row[PegRow(b)].status])
          BY <1>7, <2>2 DEF PegWakes
    <3>2. QED BY <1>5, <3>1
  <2>3. QED BY <2>1, <2>2
<1>8. CASE PegQuoted(b) \/ PegStopped(b) \/ PegReplaces(b)
      BY <1>3, <1>4, <1>8 DEF PegQuoted, PegStopped, PegReplaces
<1>9. CASE Resubmits(b)
      BY <1>3, <1>9 DEF Resubmits
<1>10. QED BY <1>6, <1>7, <1>8, <1>9 DEF PegStep

LEMMA StepWorker ==
  ASSUME TasksShaped, [Next]_vars
  PROVE  WorkerMoves
<1>1. CASE UNCHANGED task
  <2>1. TasksShaped' /\ \A a \in Buys : NoneBegins(a)
        BY <1>1 DEF TasksShaped, NoneBegins, Busy, TaskShaped, Shaped
  <2>2. CASE worker' = worker
        BY <2>1, <2>2 DEF WorkerMoves
  <2>3. CASE \E s \in Sells : Sells1(s) /\ worker' = s
        BY <2>1, <2>3 DEF WorkerMoves, Sells1, Takes
  <2>4. CASE \E s \in Sells : Ignores(s)
        BY <2>1, <2>4 DEF WorkerMoves
  <2>5. CASE \E b \in Buys : JobStep(b)
        BY <2>5, JobStepMoves, AlertAssumption
  <2>6. CASE \E b \in Buys : PostStep(b)
        BY <2>6, PostStepMoves
  <2>7. CASE \E b \in Buys : CoolStep(b) \/ PegStep(b) \/ Resubmits(b)
        BY <2>7, BesideMoves
  <2>8. CASE \E s \in Sells : Sells1(s)
    <3>1. worker' = worker \/ \E s \in Sells : Sells1(s) /\ worker' = s
          BY <2>8 DEF Sells1
    <3>2. QED BY <3>1, <2>2, <2>3
  <2>9. CASE \E a \in Alerts : Arrives(a)
        BY <2>2, <2>9 DEF Arrives
  <2>10. CASE \E b \in Buys : Strikes(b)
        BY <2>2, <2>10 DEF Strikes, desk
  <2>11. CASE \E s \in Sells, o \in Oids : Clears(s, o)
        BY <2>2, <2>11 DEF Clears
  <2>12. CASE \E o \in 1..rows : PollStep(o) \/ BrokerStep(o)
        BY <2>2, <2>12 DEF PollStep, PollFilled, PollPartial, PollDead, PollGivesUp, PollErrs, GivesUp,
                           BrokerStep, Accepts, Fills, FillsPart, Buys1, Kills, desk
  <2>13. CASE \E c \in Contracts : AutoExits(c) \/ Forgets(c)
        BY <2>2, <2>13 DEF AutoExits, Forgets, desk
  <2>14. CASE UNCHANGED vars
        BY <2>2, <2>14 DEF vars
  <2>15. QED BY <2>4, <2>5, <2>6, <2>7, <2>8, <2>9, <2>10, <2>11, <2>12, <2>13, <2>14 DEF Next, Step
<1>2. CASE ~UNCHANGED task
  <2>1. \/ \E b \in Buys : JobStep(b)
        \/ \E b \in Buys : PostStep(b)
        \/ \E b \in Buys : CoolStep(b) \/ PegStep(b) \/ Resubmits(b)
        BY <1>2 DEF Next, Step, vars, Arrives, Strikes, Sells1, Ignores, Clears, PollStep, PollFilled, PollPartial,
                    PollDead, PollGivesUp, PollErrs, GivesUp, BrokerStep, Accepts, Fills, FillsPart, Buys1, Kills, AutoExits, Forgets
  <2>2. QED BY <2>1, JobStepMoves, PostStepMoves, BesideMoves, AlertAssumption
<1>3. QED BY <1>1, <1>2

-----------------------------------------------------------------------------
(* The theorem *)

LEMMA JobsKept ==
  ASSUME JobsTold, [Next]_vars
  PROVE  /\ JobsTold'
         /\ \A s \in Sells : worker = s /\ worker' # s => Ignores(s)
<1>1. WorkerMoves
      BY StepWorker DEF JobsTold
<1>2. NoAlert \notin Buys /\ NoAlert \notin Sells /\ Buys \cap Sells = {}
      BY AlertAssumption DEF Alerts
<1>3. CASE worker' = worker /\ \A a \in Buys : NoneBegins(a)
      BY <1>1, <1>3 DEF JobsTold, WorkerMoves, NoneBegins
<1>4. ASSUME worker' = NoAlert,
             NEW b \in Buys, Busy(b), ~Busy(b)', \A a \in Buys \ {b} : NoneBegins(a)
      PROVE  JobsTold' /\ \A s \in Sells : worker # s
  <2>1. worker = b
        BY <1>4 DEF JobsTold
  <2>2. \A a \in Buys : ~Busy(a)'
        BY <1>4, <2>1 DEF JobsTold, NoneBegins
  <2>3. QED BY <1>1, <1>2, <2>1, <2>2 DEF JobsTold, WorkerMoves
<1>5. CASE worker = NoAlert /\ worker' \in Buys /\ \A a \in Buys \ {worker'} : NoneBegins(a)
      BY <1>1, <1>2, <1>5 DEF JobsTold, WorkerMoves, NoneBegins
<1>6. CASE worker = NoAlert /\ worker' \in Sells /\ \A a \in Buys : NoneBegins(a)
      BY <1>1, <1>2, <1>6 DEF JobsTold, WorkerMoves, NoneBegins
<1>7. ASSUME NEW s \in Sells, Ignores(s), \A a \in Buys : NoneBegins(a)
      PROVE  JobsTold' /\ \A u \in Sells : worker = u => Ignores(u)
  <2>1. worker = s
        BY <1>7 DEF Ignores
  <2>2. \A a \in Buys : ~Busy(a)'
        BY <1>2, <1>7, <2>1 DEF JobsTold, NoneBegins
  <2>3. QED BY <1>1, <1>7, <2>1, <2>2 DEF JobsTold, WorkerMoves
<1>8. QED BY <1>1, <1>3, <1>4, <1>5, <1>6, <1>7 DEF WorkerMoves

(* The sweep of an exit: it begins with nothing done, and drops an entry    *)
(* only when that is settled.                                               *)
LEMMA SweepMoves ==
  ASSUME TablesTyped, SweepKept, [Next]_vars
  PROVE  SweepKept'
<1>1. Moves
      BY StepMoves
<1>2. TablesTyped' /\ rows <= rows' /\ rows \in Nat /\ rows' \in Nat /\ \A o \in 1..rows : Settled(o) => Settled(o)'
      BY <1>1, MovesSettle DEF TablesTyped
<1>3. 1..rows \subseteq 1..rows'
      BY <1>2
<1>4. CASE UNCHANGED clearing
  <2>1. clearing' \in [Sells -> [found : SUBSET (1..rows'), todo : SUBSET (1..rows')]]
        BY <1>3, <1>4 DEF SweepKept
  <2>2. \A s \in Sells : \A o \in clearing'[s].found \ clearing'[s].todo : Settled(o)'
        BY <1>2, <1>4 DEF SweepKept
  <2>3. QED BY <2>1, <2>2 DEF SweepKept
<1>5. ASSUME NEW s \in Sells, Sells1(s), ~UNCHANGED clearing
      PROVE  SweepKept'
  <2>1. clearing' = [clearing EXCEPT ![s] = [found |-> Cancellable(s), todo |-> Cancellable(s)]]
        BY <1>5 DEF Sells1
  <2>2. Cancellable(s) \subseteq 1..rows
        BY DEF Cancellable, PendingOn, RowsOf
  <2>3. clearing' \in [Sells -> [found : SUBSET (1..rows'), todo : SUBSET (1..rows')]]
        BY <1>3, <2>1, <2>2 DEF SweepKept
  <2>4. \A u \in Sells : \A o \in clearing'[u].found \ clearing'[u].todo : Settled(o)'
        BY <1>2, <2>1 DEF SweepKept
  <2>5. QED BY <2>3, <2>4 DEF SweepKept
<1>6. ASSUME NEW s \in Sells, NEW o \in Oids, Clears(s, o)
      PROVE  SweepKept'
  <2>1. clearing' = [clearing EXCEPT ![s].todo = clearing[s].todo \ {o}] /\ o \in clearing[s].todo /\ rows' = rows
        BY <1>6 DEF Clears
  <2>2. o \in 1..rows
        BY <2>1 DEF SweepKept
  <2>3. Settled(o)'
    <3>1. CASE row[o].status # "PENDING" \/ Traded(o)
          BY <1>2, <2>2, <3>1 DEF Settled
    <3>2. CASE row' = [row EXCEPT ![o].status = "CANCELLED"]
          BY <3>2 DEF Settled, TablesTyped, RowSet
    <3>3. QED BY <1>6, <3>1, <3>2 DEF Clears, Stamped
  <2>4. /\ clearing' \in [Sells -> [found : SUBSET (1..rows), todo : SUBSET (1..rows)]]
        /\ \A u \in Sells : /\ clearing'[u].found = clearing[u].found
                            /\ clearing[u].todo \subseteq clearing'[u].todo \cup {o}
        BY <2>1 DEF SweepKept
  <2>5. \A u \in Sells : \A p \in clearing'[u].found \ clearing'[u].todo : Settled(p)'
    <3> SUFFICES ASSUME NEW u \in Sells, NEW p \in clearing'[u].found \ clearing'[u].todo
                 PROVE  Settled(p)'
        OBVIOUS
    <3>1. CASE p = o
          BY <2>3, <3>1
    <3>2. CASE p # o
      <4>1. p \in clearing[u].found \ clearing[u].todo /\ p \in 1..rows
            BY <2>4, <3>2 DEF SweepKept
      <4>2. QED BY <1>2, <4>1 DEF SweepKept
    <3>3. QED BY <3>1, <3>2
  <2>6. QED BY <2>1, <2>4, <2>5 DEF SweepKept
<1>7. UNCHANGED clearing \/ (\E s \in Sells : Sells1(s)) \/ \E s \in Sells, o \in Oids : Clears(s, o)
  <2>1. \A b \in Buys : JobStep(b) => UNCHANGED clearing
        BY DEF JobStep, Checks, Prices, RanAway, Places, desk
  <2>2. \A b \in Buys : PostStep(b) => UNCHANGED clearing
        BY DEF PostStep, PostReturns, PostFails
  <2>3. \A b \in Buys : CoolStep(b) \/ Strikes(b) \/ Resubmits(b) => UNCHANGED clearing
        BY DEF CoolStep, CoolWakes, Cooled, Strikes, Resubmits, desk
  <2>4. \A b \in Buys : PegStep(b) => UNCHANGED clearing
        BY DEF PegStep, PegWakes, PegQuoted, PegStopped, PegReplaces, desk
  <2>5. \A o \in 1..rows : PollStep(o) \/ BrokerStep(o) => UNCHANGED clearing
        BY DEF PollStep, PollFilled, PollPartial, PollDead, PollGivesUp, PollErrs, GivesUp,
               BrokerStep, Accepts, Fills, FillsPart, Buys1, Kills, desk
  <2>6. (\E a \in Alerts : Arrives(a)) \/ (\E s \in Sells : Ignores(s)) \/ (\E c \in Contracts : AutoExits(c) \/ Forgets(c))
          \/ UNCHANGED vars => UNCHANGED clearing
        BY DEF Arrives, Ignores, AutoExits, Forgets, desk, vars
  <2>7. QED BY <2>1, <2>2, <2>3, <2>4, <2>5, <2>6 DEF Next, Step
<1>8. QED BY <1>4, <1>5, <1>6, <1>7

LEMMA ClearStep ==
  ASSUME ClearInv, [Next]_vars
  PROVE  /\ ClearInv'
         /\ \A s \in Sells : worker = s /\ worker' # s => \A o \in clearing[s].found : Settled(o)
<1>1. TablesTyped'
      BY StepMoves, MovesSettle DEF ClearInv
<1>2. JobsTold' /\ \A s \in Sells : worker = s /\ worker' # s => Ignores(s)
      BY JobsKept DEF ClearInv
<1>3. SweepKept'
      BY SweepMoves DEF ClearInv
<1>4. \A s \in Sells : Ignores(s) => \A o \in clearing[s].found : Settled(o)
      BY DEF Ignores, ClearInv, SweepKept
<1>5. QED BY <1>1, <1>2, <1>3, <1>4 DEF ClearInv

LEMMA ClearStart ==
  ASSUME Init
  PROVE  ClearInv
<1>1. TablesTyped
      BY SizeAssumption DEF Init, TablesTyped, NoRow, NoOrder, RowSet, OrderSet, Statuses, States, Oids
<1>2. task = [b \in Buys |-> [k \in Kinds |-> NoTask]]
      BY DEF Init
<1>3. Shaped(NoTask) /\ NoTask.pc = "idle"
      BY DEF NoTask, Shaped
<1>4. TasksShaped
      BY <1>2, <1>3 DEF TasksShaped, TaskShaped
<1>5. \A b \in Buys : ~Busy(b)
      BY <1>2, <1>3 DEF Busy, Kinds
<1>6. SweepKept
      BY DEF Init, SweepKept
<1>7. QED BY <1>1, <1>4, <1>5, <1>6 DEF ClearInv, JobsTold

(* When the worker has done with an analyst's SELL that found nothing to    *)
(* sell, each of his entries that _cancel_pending_buys_for_alert found has  *)
(* traded or is no longer PENDING: whatever the pollers, the watchers, the  *)
(* cooldowns, the overrides and the operator did between its cancels.       *)
THEOREM ExitsClear == Spec => ExitClearsEntries
<1>1. Init => ClearInv
      BY ClearStart
<1>2. ClearInv /\ [Next]_vars => ClearInv'
      BY ClearStep
<1>3. ClearInv /\ [Next]_vars =>
        [\A s \in Sells : (worker = s /\ worker' # s)
           => \A o \in clearing[s].found : Traded(o) \/ row[o].status \notin {"PENDING"}]_vars
      BY ClearStep DEF Settled
<1>4. QED BY <1>1, <1>2, <1>3, PTL DEF Spec, ExitClearsEntries

-----------------------------------------------------------------------------
(* The desk: what the worker takes is a first job                           *)

Pc(b, k) == task[b][k].pc
Cur(b, k) == task[b][k].cur
At(o, b) == o \in 1..rows /\ row[o].alert = b

AlertsShaped == alert = [a \in Alerts |-> alert[a]]
JobOnce(b) ==
  /\ alert[b] = "NEW" \/ b \in queue => Pc(b, "job") = "idle"
  /\ b \in queue => alert[b] # "NEW"

DeskInv == TablesTyped /\ TasksShaped /\ AlertsShaped /\ \A b \in Buys : JobOnce(b)

-----------------------------------------------------------------------------
(* What a step does to the tasks *)

TurnsTo(b, k, pc) ==
  /\ \A j \in Kinds \ {k} : task'[b][j] = task[b][j]
  /\ task'[b][k].pc = pc /\ task'[b][k].cur = task[b][k].cur /\ task'[b][k].saw = task[b][k].saw

LEMMA GoesTells ==
  ASSUME TasksShaped, NEW b \in Buys, NEW k \in Kinds, NEW pc, Goes(b, k, pc)
  PROVE  /\ TasksShaped'
         /\ \A a \in Buys \ {b} : task'[a] = task[a]
         /\ \A j \in Kinds \ {k} : task'[b][j] = task[b][j]
         /\ task'[b][k].pc = pc /\ task'[b][k].cur = task[b][k].cur /\ task'[b][k].saw = task[b][k].saw
<1> DEFINE u == task[b]
           r == [u[k] EXCEPT !.pc = pc]
           t == [u EXCEPT ![k] = r]
<1>1. TaskShaped(u)
      BY DEF TasksShaped
<1>2. Turns(b, t)
      BY DEF Goes
<1> HIDE DEF u
<1>3. Shaped(r) /\ r.pc = pc /\ r.cur = u[k].cur /\ r.saw = u[k].saw
  <2>1. Shaped(u[k])
        BY <1>1 DEF TaskShaped
  <2>2. QED BY <2>1 DEF Shaped
<1> HIDE DEF r
<1>4. t[k] = r /\ TaskShaped(t) /\ \A j \in Kinds \ {k} : t[j] = u[j]
      BY <1>1, <1>3 DEF TaskShaped
<1> HIDE DEF t
<1>5. TasksShaped' /\ \A a \in Buys : task'[a] = IF a = b THEN t ELSE task[a]
      BY <1>2, <1>4, TurnsShaped
<1>6. QED BY <1>3, <1>4, <1>5 DEF u

LEMMA InsertsTells ==
  ASSUME TasksShaped, TablesTyped, NEW b \in Buys, NEW k \in Kinds, NEW n, Inserts(b, k, n)
  PROVE  /\ TasksShaped' /\ TablesTyped'
         /\ \A a \in Buys \ {b} : task'[a] = task[a]
         /\ \A j \in Kinds \ {k} : task'[b][j] = task[b][j]
         /\ task'[b][k].pc = "posting" /\ task'[b][k].cur = rows + 1
         /\ rows \in Nat /\ rows' = rows + 1 /\ rows + 1 \notin 1..rows /\ 1..rows' = (1..rows) \cup {rows + 1}
         /\ row'[rows + 1].alert = b /\ row'[rows + 1].status = "PENDING"
         /\ broker'[rows + 1].state = "SENT" /\ broker'[rows + 1].filled = broker[rows + 1].filled
         /\ \A o \in 1..rows : row'[o] = row[o] /\ broker'[o] = broker[o]
         /\ polling' = polling
<1>1. 1..rows \subseteq Oids /\ MaxRows \in Nat
      BY SizeAssumption DEF TablesTyped, Oids
<1>2. rows < MaxRows /\ rows' = rows + 1 /\ rows + 1 \in Oids /\ rows \in Nat
      BY <1>1 DEF Inserts, TablesTyped, Oids
<1>3. /\ row' = [row EXCEPT ![rows + 1] = [alert |-> b, status |-> "PENDING", filled |-> 0]]
      /\ broker' = [broker EXCEPT ![rows + 1].state = "SENT"]
      /\ polling' = polling
      BY DEF Inserts
<1>4. TablesTyped'
      BY <1>1, <1>2, <1>3 DEF TablesTyped, RowSet, OrderSet, Alerts, Statuses, States
<1>5. \A o \in 1..rows : row'[o] = row[o] /\ broker'[o] = broker[o]
      BY <1>1, <1>3 DEF TablesTyped
<1>6. /\ row'[rows + 1].alert = b /\ row'[rows + 1].status = "PENDING"
      /\ broker'[rows + 1].state = "SENT" /\ broker'[rows + 1].filled = broker[rows + 1].filled
      BY <1>2, <1>3 DEF TablesTyped, RowSet, OrderSet
<1>7. rows + 1 \notin 1..rows /\ 1..rows' = (1..rows) \cup {rows + 1}
      BY <1>2
<1> DEFINE r == [pc |-> "posting", cur |-> rows + 1, saw |-> "NONE", tries |-> n]
           t == [task[b] EXCEPT ![k] = r]
<1>8. TaskShaped(task[b])
      BY DEF TasksShaped
<1>9. Shaped(r) /\ r.pc = "posting" /\ r.cur = rows + 1
      BY DEF Shaped
<1> HIDE DEF r
<1>10. TaskShaped(t) /\ t[k] = r /\ \A j \in Kinds \ {k} : t[j] = task[b][j]
      BY <1>8, <1>9 DEF TaskShaped
<1>11. Turns(b, t)
      BY DEF Inserts, r
<1> HIDE DEF t
<1>12. /\ TasksShaped'
       /\ \A a \in Buys : task'[a] = IF a = b THEN t ELSE task[a]
      BY <1>10, <1>11, TurnsShaped
<1>13. QED BY <1>2, <1>3, <1>4, <1>5, <1>6, <1>7, <1>9, <1>10, <1>12

LEMMA EndsTells ==
  ASSUME TasksShaped, NEW b \in Buys, NEW k \in Kinds, NEW j \in Kinds, j # k, NEW r, Shaped(r),
         NEW t, t = [task[b] EXCEPT ![k].pc = "done", ![j] = r], Turns(b, t)
  PROVE  /\ TasksShaped'
         /\ \A a \in Buys \ {b} : task'[a] = task[a]
         /\ \A i \in Kinds \ {k, j} : task'[b][i] = task[b][i]
         /\ task'[b][k].pc = "done" /\ task'[b][j] = r
<1> DEFINE u == task[b]
           w == [u[k] EXCEPT !.pc = "done"]
           v == [u EXCEPT ![k] = w]
<1>1. TaskShaped(u)
      BY DEF TasksShaped
<1>2. t = [v EXCEPT ![j] = r]
      OBVIOUS
<1> HIDE DEF u
<1>3. Shaped(w) /\ w.pc = "done"
  <2>1. Shaped(u[k])
        BY <1>1 DEF TaskShaped
  <2>2. QED BY <2>1 DEF Shaped
<1> HIDE DEF w
<1>4. TaskShaped(v) /\ v[k] = w /\ \A i \in Kinds \ {k} : v[i] = u[i]
      BY <1>1, <1>3 DEF TaskShaped
<1> HIDE DEF v
<1>5. TaskShaped(t) /\ t[j] = r /\ t[k].pc = "done" /\ \A i \in Kinds \ {k, j} : t[i] = u[i]
      BY <1>2, <1>3, <1>4 DEF TaskShaped
<1>6. TasksShaped' /\ \A a \in Buys : task'[a] = IF a = b THEN t ELSE task[a]
      BY <1>5, TurnsShaped
<1>7. QED BY <1>5, <1>6 DEF u

LEMMA RanAwayTells ==
  ASSUME TasksShaped, NEW b \in Buys, NEW k \in {"job", "over"}, RanAway(b, k)
  PROVE  /\ TasksShaped'
         /\ \A a \in Buys \ {b} : task'[a] = task[a]
         /\ \A j \in Kinds \ {k, "cool"} : task'[b][j] = task[b][j]
         /\ task'[b][k].pc = "done"
         /\ task'[b]["cool"] = task[b]["cool"] \/ (Rests(b, "cool") /\ task'[b]["cool"].pc = "asleep")
<1>1. k \in Kinds /\ k # "cool" /\ "cool" \in Kinds
      BY DEF Kinds
<1> DEFINE r == IF CooldownOn /\ Rests(b, "cool") THEN Asleep(0) ELSE task[b]["cool"]
           t == [task[b] EXCEPT ![k].pc = "done", !["cool"] = r]
<1>2. Turns(b, t)
  <2>1. [task[b] EXCEPT ![k].pc = "done", !["cool"] = IF CooldownOn /\ Rests(b, "cool") THEN Asleep(0) ELSE @] = t
        BY <1>1
  <2>2. QED BY <2>1 DEF RanAway
<1>3. Shaped(r) /\ (r = task[b]["cool"] \/ (Rests(b, "cool") /\ r.pc = "asleep"))
      BY <1>1, AsleepShaped DEF TasksShaped, TaskShaped, Asleep
<1> HIDE DEF r
<1>4. QED BY <1>1, <1>2, <1>3, EndsTells

(* The task has its order polled and is over, and a watcher may begin.      *)
ReturnsTo(b, k) ==
  \/ k = "peg" /\ TurnsTo(b, "peg", "asleep")
  \/ /\ k # "peg" /\ task'[b][k].pc = "done"
     /\ \A j \in Kinds \ {k, "peg"} : task'[b][j] = task[b][j]
     /\ \/ task'[b]["peg"] = task[b]["peg"]
        \/ Rests(b, "peg") /\ task'[b]["peg"].pc = "asleep" /\ task'[b]["peg"].cur = task[b][k].cur

LEMMA ReturnsTells ==
  ASSUME TasksShaped, NEW b \in Buys, NEW k \in Kinds, PostReturns(b, k)
  PROVE  /\ TasksShaped'
         /\ \A a \in Buys \ {b} : task'[a] = task[a]
         /\ ReturnsTo(b, k)
<1>1. "peg" \in Kinds
      BY DEF Kinds
<1>2. CASE k = "peg"
  <2>1. Goes(b, "peg", "asleep")
        BY <1>2 DEF PostReturns
  <2>2. QED BY <1>1, <1>2, <2>1, GoesTells DEF TurnsTo, ReturnsTo
<1>3. CASE k # "peg"
  <2> DEFINE o == task[b][k].cur
             r == IF k \in {"job", "over"} /\ b \in Repegged /\ Rests(b, "peg") THEN Asleep(o) ELSE task[b]["peg"]
             t == [task[b] EXCEPT ![k].pc = "done", !["peg"] = r]
  <2>1. Turns(b, t)
    <3>1. [task[b] EXCEPT ![k].pc = "done",
                          !["peg"] = IF k \in {"job", "over"} /\ b \in Repegged /\ Rests(b, "peg")
                                       THEN Asleep(o) ELSE @] = t
          BY <1>3
    <3>2. QED BY <1>3, <3>1 DEF PostReturns
  <2>2. Shaped(r) /\ (r = task[b]["peg"] \/ (Rests(b, "peg") /\ r.pc = "asleep" /\ r.cur = o))
        BY <1>1, AsleepShaped DEF TasksShaped, TaskShaped, Asleep
  <2> HIDE DEF r
  <2>3. /\ TasksShaped'
        /\ \A a \in Buys \ {b} : task'[a] = task[a]
        /\ \A i \in Kinds \ {k, "peg"} : task'[b][i] = task[b][i]
        /\ task'[b][k].pc = "done" /\ task'[b]["peg"] = r
        BY <1>1, <1>3, <2>1, <2>2, EndsTells
  <2>4. QED BY <1>3, <2>2, <2>3 DEF ReturnsTo
<1>4. QED BY <1>2, <1>3

(* The watcher reads the status of its order.                               *)
ReadsRow(b) ==
  /\ \A j \in Kinds \ {"peg"} : task'[b][j] = task[b][j]
  /\ task'[b]["peg"].pc = "quoting" /\ task'[b]["peg"].cur = PegRow(b)
  /\ task'[b]["peg"].saw = row[PegRow(b)].status

LEMMA WakesTells ==
  ASSUME TasksShaped, NEW b \in Buys, PegWakes(b)
  PROVE  /\ TasksShaped'
         /\ \A a \in Buys \ {b} : task'[a] = task[a]
         /\ TurnsTo(b, "peg", "done") \/ ReadsRow(b)
<1>0. "peg" \in Kinds
      BY DEF Kinds
<1>1. CASE Goes(b, "peg", "done")
      BY <1>0, <1>1, GoesTells DEF TurnsTo
<1>2. CASE ~Goes(b, "peg", "done")
  <2> DEFINE u == task[b]
             st == row[PegRow(b)].status
             n == u["peg"].tries + 1
             r == [pc |-> "quoting", cur |-> u["peg"].cur, saw |-> st, tries |-> n]
             t == [u EXCEPT !["peg"] = r]
  <2>1. Turns(b, [u EXCEPT !["peg"].pc = "quoting", !["peg"].tries = n, !["peg"].saw = st])
        BY <1>2 DEF PegWakes
  <2>2. TaskShaped(u)
        BY DEF TasksShaped
  <2> HIDE DEF n, st, u
  <2>3. [u EXCEPT !["peg"].pc = "quoting", !["peg"].tries = n, !["peg"].saw = st] = t
    <3>1. u = [j \in Kinds |-> u[j]] /\ Shaped(u["peg"])
          BY <1>0, <2>2 DEF TaskShaped
    <3>2. [u EXCEPT !["peg"].pc = "quoting", !["peg"].tries = n, !["peg"].saw = st]
            = [u EXCEPT !["peg"] = [[[u["peg"] EXCEPT !.pc = "quoting"] EXCEPT !.tries = n] EXCEPT !.saw = st]]
          BY <1>0, <3>1
    <3> DEFINE q == u["peg"]
               q1 == [q EXCEPT !.pc = "quoting"]
               q2 == [q1 EXCEPT !.tries = n]
               q3 == [q2 EXCEPT !.saw = st]
    <3>3. q = [pc |-> q.pc, cur |-> q.cur, saw |-> q.saw, tries |-> q.tries]
          BY <3>1 DEF Shaped
    <3> HIDE DEF q
    <3>4. q1 = [pc |-> "quoting", cur |-> q.cur, saw |-> q.saw, tries |-> q.tries]
          BY <3>3
    <3> HIDE DEF q1
    <3>5. q2 = [pc |-> "quoting", cur |-> q.cur, saw |-> q.saw, tries |-> n]
          BY <3>4
    <3> HIDE DEF q2
    <3>6. q3 = [pc |-> "quoting", cur |-> q.cur, saw |-> st, tries |-> n]
          BY <3>5
    <3> HIDE DEF q3
    <3>7. QED BY <3>2, <3>6 DEF q, q1, q2, q3
  <2>4. Shaped(r) /\ r.pc = "quoting" /\ r.cur = u["peg"].cur /\ r.saw = st
        BY DEF Shaped
  <2> HIDE DEF r
  <2>5. TaskShaped(t) /\ t["peg"] = r /\ \A j \in Kinds \ {"peg"} : t[j] = u[j]
        BY <1>0, <2>2, <2>4 DEF TaskShaped
  <2>6. Turns(b, t)
        BY <2>1, <2>3
  <2> HIDE DEF t
  <2>7. TasksShaped' /\ \A a \in Buys : task'[a] = IF a = b THEN t ELSE task[a]
        BY <2>5, <2>6, TurnsShaped
  <2>8. QED BY <2>4, <2>5, <2>7 DEF u, st, ReadsRow, PegRow
<1>3. QED BY <1>1, <1>2

LEMMA Marked ==
  ASSUME AlertsShaped, NEW x, NEW s, Marks(x, s)
  PROVE  /\ AlertsShaped'
         /\ x \in Alerts => alert'[x] = s
         /\ \A a \in Alerts \ {x} : alert'[a] = alert[a]
BY DEF AlertsShaped, Marks

(* An alert is new once.                                                    *)
AlertMove == alert' = alert \/ \E x, s : s # "NEW" /\ Marks(x, s)
LEMMA AlertMoves ==
  ASSUME [Next]_vars
  PROVE  AlertMove
<1>1. CASE \E a \in Alerts : Arrives(a)
      BY <1>1 DEF Arrives, AlertMove
<1>2. ASSUME NEW b \in Buys, JobStep(b)
      PROVE  AlertMove
      BY <1>2 DEF JobStep, Checks, Prices, Skips, RanAway, Places, Marks, AlertMove
<1>3. ASSUME NEW b \in Buys, PostStep(b)
      PROVE  AlertMove
      BY <1>3 DEF PostStep, PostReturns, PostFails, AlertMove
<1>4. ASSUME NEW b \in Buys, CoolStep(b) \/ PegStep(b) \/ Resubmits(b)
      PROVE  AlertMove
      BY <1>4 DEF CoolStep, CoolWakes, Cooled, PegStep, PegWakes, PegQuoted, PegStopped, PegReplaces, Resubmits, AlertMove
<1>5. ASSUME NEW b \in Buys, Strikes(b)
      PROVE  AlertMove
      BY <1>5 DEF Strikes, Marks, AlertMove
<1>6. CASE \E s \in Sells : Sells1(s) \/ Ignores(s) \/ \E o \in Oids : Clears(s, o)
      BY <1>6 DEF Sells1, Ignores, Clears, AlertMove
<1>7. ASSUME NEW o \in 1..rows, PollStep(o)
      PROVE  AlertMove
      BY <1>7 DEF PollStep, PollFilled, PollPartial, PollDead, PollGivesUp, PollErrs, GivesUp, AlertMove
<1>8. CASE (\E o \in 1..rows : BrokerStep(o)) \/ (\E c \in Contracts : AutoExits(c) \/ Forgets(c)) \/ UNCHANGED vars
      BY <1>8 DEF BrokerStep, Accepts, Fills, FillsPart, Buys1, Kills, AutoExits, Forgets, vars, AlertMove
<1>9. QED BY <1>1, <1>2, <1>3, <1>4, <1>5, <1>6, <1>7, <1>8 DEF Next, Step

QueueMove == queue' \subseteq queue \/ \E a \in Alerts : Arrives(a)
LEMMA QueueMoves ==
  ASSUME [Next]_vars
  PROVE  QueueMove
<1>1. ASSUME NEW b \in Buys, JobStep(b) \/ PostStep(b)
      PROVE  QueueMove
      BY <1>1 DEF JobStep, Checks, Takes, Prices, RanAway, Places, PostStep, PostReturns, PostFails, desk, QueueMove
<1>2. ASSUME NEW b \in Buys, CoolStep(b) \/ PegStep(b) \/ Resubmits(b) \/ Strikes(b)
      PROVE  QueueMove
      BY <1>2 DEF CoolStep, CoolWakes, Cooled, PegStep, PegWakes, PegQuoted, PegStopped, PegReplaces, Resubmits,
                  Strikes, desk, QueueMove
<1>3. CASE \E s \in Sells : Sells1(s) \/ Ignores(s) \/ \E o \in Oids : Clears(s, o)
      BY <1>3 DEF Sells1, Takes, Ignores, Clears, QueueMove
<1>4. ASSUME NEW o \in 1..rows, PollStep(o) \/ BrokerStep(o)
      PROVE  QueueMove
      BY <1>4 DEF PollStep, PollFilled, PollPartial, PollDead, PollGivesUp, PollErrs, GivesUp,
                  BrokerStep, Accepts, Fills, FillsPart, Buys1, Kills, desk, QueueMove
<1>5. CASE (\E c \in Contracts : AutoExits(c) \/ Forgets(c)) \/ UNCHANGED vars
      BY <1>5 DEF AutoExits, Forgets, desk, vars, QueueMove
<1>6. CASE \E a \in Alerts : Arrives(a)
      BY <1>6 DEF QueueMove
<1>7. QED BY <1>1, <1>2, <1>3, <1>4, <1>5, <1>6 DEF Next, Step

(* The job of an alert begins when the worker takes it from the queue.      *)
JobMove(a) == Pc(a, "job")' = Pc(a, "job") \/ Pc(a, "job") # "idle" \/ (a \in queue /\ a \notin queue')
LEMMA JobMoves ==
  ASSUME TablesTyped, TasksShaped, [Next]_vars, NEW a \in Buys
  PROVE  JobMove(a)
<1>0. "job" \in Kinds /\ "over" \in Kinds /\ "cool" \in Kinds /\ "peg" \in Kinds
      BY DEF Kinds
<1>1. ASSUME NEW b \in Buys, NEW k \in Kinds, NEW pc, Goes(b, k, pc), k = "job" => Pc(b, k) # "idle"
      PROVE  JobMove(a)
  <2>1. task'[a] = task[a] \/ (a = b /\ (k = "job" \/ task'[a]["job"] = task[a]["job"]))
        BY <1>0, <1>1, GoesTells
  <2>2. QED BY <1>1, <2>1 DEF JobMove, Pc
<1>2. ASSUME NEW b \in Buys, NEW k \in Kinds, NEW n, Inserts(b, k, n), k = "job" => Pc(b, k) # "idle"
      PROVE  JobMove(a)
  <2>1. task'[a] = task[a] \/ (a = b /\ (k = "job" \/ task'[a]["job"] = task[a]["job"]))
        BY <1>0, <1>2, InsertsTells
  <2>2. QED BY <1>2, <2>1 DEF JobMove, Pc
<1>3. ASSUME NEW b \in Buys, Checks(b)
      PROVE  JobMove(a)
  <2>1. PICK pc : Goes(b, "job", pc)
        BY <1>3 DEF Checks
  <2>2. a # b => task'[a] = task[a]
        BY <1>0, <2>1, GoesTells
  <2>3. b \in queue /\ b \notin queue'
        BY <1>3 DEF Checks, Takes
  <2>4. QED BY <2>2, <2>3 DEF JobMove, Pc
<1>4. ASSUME NEW b \in Buys, NEW k \in {"job", "over"}, Prices(b, k) \/ Places(b, k)
      PROVE  JobMove(a)
  <2>1. k \in Kinds /\ Pc(b, k) # "idle"
        BY <1>0, <1>4 DEF Prices, Places, Is, Pc
  <2>2. (\E pc : Goes(b, k, pc)) \/ Inserts(b, k, 0)
        BY <1>4 DEF Prices, Skips, Places
  <2>3. QED BY <1>1, <1>2, <2>1, <2>2
<1>5. ASSUME NEW b \in Buys, NEW k \in {"job", "over"}, RanAway(b, k)
      PROVE  JobMove(a)
  <2>1. a # b => task'[a] = task[a]
        BY <1>5, RanAwayTells
  <2>2. k = "over" => task'[b]["job"] = task[b]["job"]
        BY <1>0, <1>5, RanAwayTells
  <2>3. k = "job" => Pc(b, "job") # "idle"
        BY <1>5 DEF RanAway, Is, Pc
  <2>4. QED BY <2>1, <2>2, <2>3 DEF JobMove, Pc
<1>6. ASSUME NEW b \in Buys, PostStep(b)
      PROVE  JobMove(a)
  <2>1. PICK k \in Kinds : PostReturns(b, k) \/ PostFails(b, k)
        BY <1>6 DEF PostStep
  <2>2. Pc(b, k) = "posting"
        BY <2>1 DEF PostReturns, PostFails, Is, Pc
  <2>3. CASE PostFails(b, k)
        BY <1>1, <2>2, <2>3 DEF PostFails
  <2>4. CASE PostReturns(b, k)
    <3>1. a # b => task'[a] = task[a]
          BY <2>4, ReturnsTells
    <3>2. k # "job" => task'[b]["job"] = task[b]["job"]
          BY <1>0, <2>4, ReturnsTells DEF ReturnsTo, TurnsTo
    <3>3. QED BY <2>2, <3>1, <3>2 DEF JobMove, Pc
  <2>5. QED BY <2>1, <2>3, <2>4
<1>7. ASSUME NEW b \in Buys, CoolStep(b) \/ PegQuoted(b) \/ PegStopped(b) \/ PegReplaces(b) \/ Resubmits(b)
      PROVE  JobMove(a)
  <2>1. \E k \in Kinds \ {"job"} : (\E pc : Goes(b, k, pc)) \/ \E n : Inserts(b, k, n)
        BY <1>0, <1>7 DEF CoolStep, CoolWakes, Cooled, PegQuoted, PegStopped, PegReplaces, Resubmits
  <2>2. QED BY <1>1, <1>2, <2>1
<1>8. ASSUME NEW b \in Buys, PegWakes(b)
      PROVE  JobMove(a)
  <2>1. task'[a] = task[a] \/ task'[a]["job"] = task[a]["job"]
        BY <1>0, <1>8, WakesTells DEF TurnsTo, ReadsRow
  <2>2. QED BY <2>1 DEF JobMove, Pc
<1>9. CASE UNCHANGED task
      BY <1>9 DEF JobMove, Pc
<1>10. CASE ~UNCHANGED task
  <2>1. \/ \E b \in Buys : JobStep(b)
        \/ \E b \in Buys : PostStep(b)
        \/ \E b \in Buys : CoolStep(b) \/ PegStep(b) \/ Resubmits(b)
        BY <1>10 DEF Next, Step, vars, Arrives, Strikes, Sells1, Ignores, Clears, PollStep, PollFilled, PollPartial,
                     PollDead, PollGivesUp, PollErrs, GivesUp, BrokerStep, Accepts, Fills, FillsPart, Buys1, Kills, AutoExits, Forgets
  <2>2. QED BY <2>1, <1>3, <1>4, <1>5, <1>6, <1>7, <1>8 DEF JobStep, PegStep
<1>11. QED BY <1>9, <1>10

LEMMA DeskStep ==
  ASSUME DeskInv, [Next]_vars
  PROVE  DeskInv'
<1>1. TablesTyped'
      BY StepMoves, MovesSettle DEF DeskInv
<1>2. TasksShaped'
      BY StepWorker DEF DeskInv, WorkerMoves
<1>3. AlertsShaped' /\ \A a \in Alerts : alert'[a] = "NEW" => alert[a] = "NEW"
  <2>1. CASE alert' = alert
        BY <2>1 DEF DeskInv, AlertsShaped
  <2>2. ASSUME NEW x, NEW s, s # "NEW", Marks(x, s)
        PROVE  AlertsShaped' /\ \A a \in Alerts : alert'[a] = "NEW" => alert[a] = "NEW"
        BY <2>2, Marked DEF DeskInv
  <2>3. QED BY <2>1, <2>2, AlertMoves DEF AlertMove
<1>4. ASSUME NEW a \in Buys
      PROVE  a \in queue' => a \in queue \/ (alert[a] = "NEW" /\ alert'[a] = "PENDING")
  <2>1. CASE queue' \subseteq queue
        BY <2>1
  <2>2. ASSUME NEW x \in Alerts, Arrives(x)
        PROVE  a \in queue' => a \in queue \/ (alert[a] = "NEW" /\ alert'[a] = "PENDING")
    <3>1. alert'[x] = "PENDING" /\ alert[x] = "NEW" /\ queue' = queue \cup {x}
          BY <2>2, Marked DEF Arrives, DeskInv
    <3>2. QED BY <3>1
  <2>3. QED BY <2>1, <2>2, QueueMoves DEF QueueMove
<1>5. ASSUME NEW a \in Buys
      PROVE  JobOnce(a)'
  <2>1. JobMove(a) /\ JobOnce(a) /\ a \in Alerts
        BY JobMoves DEF DeskInv, Alerts
  <2>2. QED BY <1>3, <1>4, <2>1 DEF JobOnce, JobMove
<1>6. QED BY <1>1, <1>2, <1>3, <1>5 DEF DeskInv

LEMMA DeskStart ==
  ASSUME Init
  PROVE  DeskInv
<1>1. TablesTyped /\ TasksShaped
      BY ClearStart DEF ClearInv, JobsTold
<1>2. AlertsShaped
      BY DEF Init, AlertsShaped
<1>3. queue = {} /\ \A b \in Buys : Pc(b, "job") = "idle"
      BY DEF Init, NoTask, Pc, Kinds
<1>4. QED BY <1>1, <1>2, <1>3 DEF DeskInv, JobOnce

-----------------------------------------------------------------------------
(* Every order followed *)

PostsOwn == \A b \in Buys, k \in Kinds : Pc(b, k) = "posting" => At(Cur(b, k), b)
Followed(o) == o \in polling \/ Awaited(o)

WatchInv ==
  /\ DeskInv
  /\ polling \subseteq 1..rows
  /\ PostsOwn
  /\ EveryOrderWatched

(* A POST that is awaited stays so, or its order is polled, let go of or    *)
(* over; and no other begins.                                               *)
Awaits(a, j) ==
  /\ Pc(a, j)' = "posting" => Pc(a, j) = "posting" /\ Cur(a, j)' = Cur(a, j)
  /\ Pc(a, j) = "posting" => \/ Pc(a, j)' = "posting"
                             \/ \A o \in 1..rows : o = Cur(a, j) /\ o \notin polling' /\ o \notin letgo' => ~Loose(o)'
Relieves ==
  /\ rows' = rows /\ polling' \subseteq 1..rows /\ letgo \subseteq letgo'
  /\ \A o \in 1..rows : row'[o].alert = row[o].alert /\ (Loose(o)' => Loose(o))
  /\ \A o \in polling : o \in polling' \/ o \in letgo' \/ ~Loose(o)'
  /\ \A a \in Buys, j \in Kinds : Awaits(a, j)

LEMMA RelievedWatch ==
  ASSUME WatchInv, DeskInv', Relieves
  PROVE  WatchInv'
<1>1. PostsOwn'
  <2> SUFFICES ASSUME NEW a \in Buys, NEW j \in Kinds, Pc(a, j)' = "posting"
               PROVE  At(Cur(a, j), a)'
      BY DEF PostsOwn
  <2>1. Pc(a, j) = "posting" /\ Cur(a, j)' = Cur(a, j)
        BY DEF Relieves, Awaits
  <2>2. At(Cur(a, j), a)
        BY <2>1 DEF WatchInv, PostsOwn
  <2>3. QED BY <2>1, <2>2 DEF At, Relieves
<1>2. EveryOrderWatched'
  <2> SUFFICES ASSUME NEW o \in 1..rows', o \notin letgo', Loose(o)'
               PROVE  o \in polling' \/ Awaited(o)'
      BY DEF EveryOrderWatched
  <2>1. o \in 1..rows /\ o \notin letgo /\ Loose(o)
        BY DEF Relieves
  <2>2. CASE o \in polling
        BY <2>2 DEF Relieves
  <2>3. ASSUME NEW b \in Buys, NEW k \in Kinds, Is(b, k, "posting"), task[b][k].cur = o
        PROVE  o \in polling' \/ Awaited(o)'
    <3>1. Pc(b, k) = "posting" /\ Cur(b, k) = o /\ Awaits(b, k)
          BY <2>3 DEF Is, Pc, Cur, Relieves
    <3>2. CASE Pc(b, k)' = "posting"
          BY <3>1, <3>2 DEF Awaits, Awaited, Is, Pc, Cur
    <3>3. CASE Pc(b, k)' # "posting"
          BY <2>1, <3>1, <3>3 DEF Awaits
    <3>4. QED BY <3>2, <3>3
  <2>4. QED BY <2>1, <2>2, <2>3 DEF WatchInv, EveryOrderWatched, Awaited
<1>3. QED BY <1>1, <1>2 DEF WatchInv, Relieves

(* A task that awaits no POST turns, and the orders stay.                   *)
Held == UNCHANGED <<row, rows, broker, polling, letgo>>
LEMMA HeldWatch ==
  ASSUME WatchInv, DeskInv', Held, \A a \in Buys, j \in Kinds : Awaits(a, j)
  PROVE  WatchInv'
BY RelievedWatch DEF Held, Relieves, Loose, WatchInv

LEMMA GoesWatch ==
  ASSUME WatchInv, DeskInv', Held, NEW b \in Buys, NEW k \in Kinds, Pc(b, k) # "posting",
         NEW pc, pc # "posting", Goes(b, k, pc)
  PROVE  WatchInv'
<1>1. /\ \A a \in Buys \ {b} : task'[a] = task[a]
      /\ \A j \in Kinds \ {k} : task'[b][j] = task[b][j]
      /\ task'[b][k].pc = pc
      BY GoesTells DEF WatchInv, DeskInv
<1>2. \A a \in Buys, j \in Kinds : Awaits(a, j)
      BY <1>1 DEF Awaits, Pc, Cur
<1>3. QED BY <1>2, HeldWatch

LEMMA InsertsWatch ==
  ASSUME WatchInv, DeskInv', NEW b \in Buys, NEW k \in Kinds, Pc(b, k) # "posting",
         NEW n, Inserts(b, k, n), letgo' = letgo
  PROVE  WatchInv'
<1>1. /\ \A a \in Buys \ {b} : task'[a] = task[a]
      /\ \A j \in Kinds \ {k} : task'[b][j] = task[b][j]
      /\ task'[b][k].pc = "posting" /\ task'[b][k].cur = rows + 1
      /\ rows' = rows + 1 /\ 1..rows' = (1..rows) \cup {rows + 1}
      /\ row'[rows + 1].alert = b
      /\ \A o \in 1..rows : row'[o] = row[o] /\ broker'[o] = broker[o]
      /\ polling' = polling
      BY InsertsTells DEF WatchInv, DeskInv
<1>2. \A a \in Buys, j \in Kinds : \/ a = b /\ j = k
                                   \/ Pc(a, j)' = Pc(a, j) /\ Cur(a, j)' = Cur(a, j)
      BY <1>1 DEF Pc, Cur
<1>3. PostsOwn'
  <2> SUFFICES ASSUME NEW a \in Buys, NEW j \in Kinds, Pc(a, j)' = "posting"
               PROVE  At(Cur(a, j), a)'
      BY DEF PostsOwn
  <2>1. CASE a = b /\ j = k
        BY <1>1, <2>1 DEF At, Cur
  <2>2. CASE ~(a = b /\ j = k)
    <3>1. Pc(a, j) = "posting" /\ Cur(a, j)' = Cur(a, j)
          BY <1>2, <2>2
    <3>2. At(Cur(a, j), a)
          BY <3>1 DEF WatchInv, PostsOwn
    <3>3. QED BY <1>1, <3>1, <3>2 DEF At
  <2>3. QED BY <2>1, <2>2
<1>4. EveryOrderWatched'
  <2> SUFFICES ASSUME NEW o \in 1..rows', o \notin letgo', Loose(o)'
               PROVE  o \in polling' \/ Awaited(o)'
      BY DEF EveryOrderWatched
  <2>1. CASE o = rows + 1
        BY <1>1, <2>1 DEF Awaited, Is
  <2>2. CASE o # rows + 1
    <3>1. o \in 1..rows /\ o \notin letgo /\ Loose(o)
          BY <1>1, <2>2 DEF Loose
    <3>2. ASSUME NEW a \in Buys, NEW j \in Kinds, Is(a, j, "posting"), task[a][j].cur = o
          PROVE  Awaited(o)'
      <4>1. Pc(a, j)' = Pc(a, j) /\ Cur(a, j)' = Cur(a, j)
            BY <1>2, <3>2 DEF Is, Pc
      <4>2. QED BY <3>2, <4>1 DEF Awaited, Is, Pc, Cur
    <3>3. QED BY <1>1, <3>1, <3>2 DEF WatchInv, EveryOrderWatched, Awaited
  <2>3. QED BY <2>1, <2>2
<1>5. QED BY <1>1, <1>3, <1>4 DEF WatchInv

LEMMA WorkWatch ==
  ASSUME WatchInv, DeskInv', NEW b \in Buys, JobStep(b) \/ CoolStep(b) \/ Resubmits(b)
  PROVE  WatchInv'
<1>0. "job" \in Kinds /\ "over" \in Kinds /\ "cool" \in Kinds
      BY DEF Kinds
<1>1. CASE Checks(b)
  <2>1. PICK pc \in {"done", "checked"} : Goes(b, "job", pc)
        BY <1>1 DEF Checks
  <2>2. Held
        BY <1>1 DEF Checks, Held, orders, past
  <2>3. Pc(b, "job") # "posting"
        BY <1>1 DEF Checks, Takes, WatchInv, DeskInv, JobOnce
  <2>4. QED BY <1>0, <2>1, <2>2, <2>3, GoesWatch
<1>2. ASSUME NEW k \in {"job", "over"}, Prices(b, k)
      PROVE  WatchInv'
  <2>1. PICK pc \in {"done", "quoting"} : Goes(b, k, pc)
        BY <1>2 DEF Prices, Skips
  <2>2. Held /\ Pc(b, k) # "posting"
        BY <1>2 DEF Prices, Is, Pc, Held, orders, past
  <2>3. QED BY <1>0, <2>1, <2>2, GoesWatch
<1>3. ASSUME NEW k \in {"job", "over"}, RanAway(b, k)
      PROVE  WatchInv'
  <2>1. Held /\ Pc(b, k) # "posting"
        BY <1>3 DEF RanAway, Is, Pc, Held, orders
  <2>2. /\ \A a \in Buys \ {b} : task'[a] = task[a]
        /\ \A j \in Kinds \ {k, "cool"} : task'[b][j] = task[b][j]
        /\ task'[b][k].pc = "done"
        /\ task'[b]["cool"] = task[b]["cool"] \/ (Rests(b, "cool") /\ task'[b]["cool"].pc = "asleep")
        BY <1>3, RanAwayTells DEF WatchInv, DeskInv
  <2>3. \A a \in Buys, j \in Kinds : Awaits(a, j)
        BY <2>1, <2>2 DEF Awaits, Pc, Cur, Rests
  <2>4. QED BY <2>1, <2>3, HeldWatch
<1>4. ASSUME NEW k \in {"job", "over"}, Places(b, k)
      PROVE  WatchInv'
  <2>1. Inserts(b, k, 0) /\ letgo' = letgo /\ Pc(b, k) # "posting"
        BY <1>4 DEF Places, Is, Pc, past
  <2>2. QED BY <1>0, <2>1, InsertsWatch
<1>5. CASE CoolWakes(b)
  <2>1. PICK pc \in {"done", "quoting"} : Goes(b, "cool", pc)
        BY <1>5 DEF CoolWakes
  <2>2. Held /\ Pc(b, "cool") # "posting"
        BY <1>5 DEF CoolWakes, Is, Pc, Held, orders, past
  <2>3. QED BY <1>0, <2>1, <2>2, GoesWatch
<1>6. CASE Cooled(b)
  <2>1. Pc(b, "cool") # "posting" /\ letgo' = letgo
        BY <1>6 DEF Cooled, Is, Pc, past
  <2>2. CASE Inserts(b, "cool", 0)
        BY <1>0, <2>1, <2>2, InsertsWatch
  <2>3. CASE ~Inserts(b, "cool", 0)
    <3>1. PICK pc \in {"asleep", "done"} : Goes(b, "cool", pc)
          BY <1>6, <2>3 DEF Cooled
    <3>2. Held
          BY <1>6, <2>1, <2>3 DEF Cooled, Held, orders
    <3>3. QED BY <1>0, <2>1, <3>1, <3>2, GoesWatch
  <2>4. QED BY <2>2, <2>3
<1>7. CASE Resubmits(b)
  <2>1. Held /\ Pc(b, "over") # "posting" /\ Goes(b, "over", "checked")
        BY <1>7 DEF Resubmits, Is, Pc, Held, orders, past
  <2>2. QED BY <1>0, <2>1, GoesWatch
<1>8. QED BY <1>1, <1>2, <1>3, <1>4, <1>5, <1>6, <1>7 DEF JobStep, CoolStep

(* A cancel that comes back stamps the row, or leaves it.                   *)
LEMMA StampedRow ==
  ASSUME TablesTyped, NEW o, row' = row \/ Stamped(o)
  PROVE  \A p \in Oids : /\ row'[p].alert = row[p].alert /\ row'[p].filled = row[p].filled
                         /\ row'[p].status = row[p].status \/ (p = o /\ row'[p].status = "CANCELLED")
<1>1. CASE row' = row
      BY <1>1
<1>2. CASE Stamped(o)
  <2>1. row' = [row EXCEPT ![o].status = "CANCELLED"]
        BY <1>2 DEF Stamped
  <2>2. QED BY <2>1 DEF TablesTyped, RowSet
<1>3. QED BY <1>1, <1>2

LEMMA PegWatch ==
  ASSUME WatchInv, DeskInv', NEW b \in Buys, PegStep(b)
  PROVE  WatchInv'
<1>0. "peg" \in Kinds
      BY DEF Kinds
<1>1. Pc(b, "peg") # "posting" /\ letgo' = letgo
      BY DEF PegStep, PegWakes, PegQuoted, PegStopped, PegReplaces, PegIs, Is, Pc, past
<1>2. CASE PegWakes(b)
  <2>1. /\ \A a \in Buys \ {b} : task'[a] = task[a]
        /\ \A j \in Kinds \ {"peg"} : task'[b][j] = task[b][j]
        /\ task'[b]["peg"].pc \in {"done", "quoting"}
        BY <1>2, WakesTells DEF TurnsTo, ReadsRow, WatchInv, DeskInv
  <2>2. \A a \in Buys, j \in Kinds : Awaits(a, j)
        BY <1>1, <2>1 DEF Awaits, Pc, Cur
  <2>3. Held
        BY <1>2 DEF PegWakes, Held, orders, past
  <2>4. QED BY <2>2, <2>3, HeldWatch
<1>3. CASE \E n : Inserts(b, "peg", n)
      BY <1>0, <1>1, <1>3, InsertsWatch
<1>4. CASE PegQuoted(b) /\ ~\E n : Inserts(b, "peg", n)
  <2>1. PICK pc \in {"asleep", "done", "stopping"} : Goes(b, "peg", pc)
        BY <1>4 DEF PegQuoted
  <2>2. Held
        BY <1>1, <1>4 DEF PegQuoted, Held, orders
  <2>3. QED BY <1>0, <1>1, <2>1, <2>2, GoesWatch
<1>5. CASE PegStopped(b)
  <2>1. PICK pc \in {"asleep", "done", "ready"} : Goes(b, "peg", pc)
        BY <1>5 DEF PegStopped
  <2>2. /\ \A a \in Buys \ {b} : task'[a] = task[a]
        /\ \A j \in Kinds \ {"peg"} : task'[b][j] = task[b][j]
        /\ task'[b]["peg"].pc = pc
        BY <1>0, <2>1, GoesTells DEF WatchInv, DeskInv
  <2>3. \A a \in Buys, j \in Kinds : Awaits(a, j)
        BY <1>1, <2>1, <2>2 DEF Awaits, Pc, Cur
  <2>4. /\ UNCHANGED <<rows, broker, polling>>
        /\ row' = row \/ Stamped(PegRow(b))
        BY <1>5 DEF PegStopped
  <2>5. \A p \in Oids : row'[p].alert = row[p].alert /\ row'[p].filled = row[p].filled
        BY <2>4, StampedRow DEF WatchInv, DeskInv
  <2>6. 1..rows \subseteq Oids
        BY SizeAssumption DEF WatchInv, DeskInv, TablesTyped, Oids
  <2>7. Relieves
        BY <1>1, <2>3, <2>4, <2>5, <2>6 DEF Relieves, Loose, WatchInv
  <2>8. QED BY <2>7, RelievedWatch
<1>6. QED BY <1>2, <1>3, <1>4, <1>5 DEF PegStep, PegReplaces

LEMMA ReturnsWatch ==
  ASSUME WatchInv, DeskInv', NEW b \in Buys, NEW k \in Kinds, PostReturns(b, k)
  PROVE  WatchInv'
<1>0. "peg" \in Kinds
      BY DEF Kinds
<1>1. /\ UNCHANGED <<row, rows, broker>> /\ letgo' = letgo /\ polling' = polling \cup {Cur(b, k)}
      /\ Pc(b, k) = "posting"
      BY DEF PostReturns, past, Is, Pc, Cur
<1>2. Cur(b, k) \in 1..rows
      BY <1>1 DEF WatchInv, PostsOwn, At
<1>3. (\A a \in Buys \ {b} : task'[a] = task[a]) /\ ReturnsTo(b, k)
      BY ReturnsTells DEF WatchInv, DeskInv
<1>4. \A a \in Buys, j \in Kinds : Awaits(a, j)
      BY <1>0, <1>1, <1>3 DEF Awaits, ReturnsTo, TurnsTo, Rests, Pc, Cur
<1>5. Relieves
      BY <1>1, <1>2, <1>4 DEF Relieves, Loose, WatchInv
<1>6. QED BY <1>5, RelievedWatch

(* A POST that raised: the tables, but for the order's row and its end.     *)
LEMMA FailsTells ==
  ASSUME TablesTyped, NEW b \in Buys, NEW k \in Kinds, PostFails(b, k)
  PROVE  \A p \in Oids : /\ row'[p].alert = row[p].alert /\ row'[p].filled = row[p].filled
                         /\ broker'[p].filled = broker[p].filled
                         /\ broker'[p].state = broker[p].state \/ broker'[p].state = "DEAD"
<1> DEFINE o == task[b][k].cur
<1>1. /\ broker' = broker \/ broker' = [broker EXCEPT ![o].state = "DEAD"]
      /\ row' = row \/ row' = [row EXCEPT ![o].status = "REJECTED"]
      BY DEF PostFails
<1> HIDE DEF o
<1>2. \A p \in Oids : row'[p].alert = row[p].alert /\ row'[p].filled = row[p].filled
      BY <1>1 DEF TablesTyped, RowSet
<1>3. \A p \in Oids : /\ broker'[p].filled = broker[p].filled
                      /\ broker'[p].state = broker[p].state \/ broker'[p].state = "DEAD"
      BY <1>1 DEF TablesTyped, OrderSet
<1>4. QED BY <1>2, <1>3

LEMMA FailsWatch ==
  ASSUME WatchInv, DeskInv', NEW b \in Buys, NEW k \in Kinds, PostFails(b, k)
  PROVE  WatchInv'
<1>1. /\ UNCHANGED <<rows, polling>> /\ LetsGo(Cur(b, k)) /\ Pc(b, k) = "posting" /\ Goes(b, k, "done")
      BY DEF PostFails, Is, Pc, Cur
<1>2. /\ \A a \in Buys \ {b} : task'[a] = task[a]
      /\ \A j \in Kinds \ {k} : task'[b][j] = task[b][j]
      /\ task'[b][k].pc = "done" /\ task'[b][k].cur = task[b][k].cur
      BY <1>1, GoesTells DEF WatchInv, DeskInv
<1>3. \A p \in Oids : /\ row'[p].alert = row[p].alert /\ row'[p].filled = row[p].filled
                      /\ broker'[p].filled = broker[p].filled
                      /\ broker'[p].state = broker[p].state \/ broker'[p].state = "DEAD"
      BY FailsTells DEF WatchInv, DeskInv
<1>4. 1..rows \subseteq Oids
      BY SizeAssumption DEF WatchInv, DeskInv, TablesTyped, Oids
<1>5. PICK c : c = Cur(b, k)
      OBVIOUS
<1>6. letgo' = IF Loose(c)' THEN letgo \cup {c} ELSE letgo
      BY <1>1, <1>2, <1>5 DEF LetsGo, Loose, Cur
<1>7. \A a \in Buys, j \in Kinds : Awaits(a, j)
      BY <1>1, <1>2, <1>5, <1>6 DEF Awaits, Pc, Cur
<1>8. \A o \in 1..rows : row'[o].alert = row[o].alert /\ (Loose(o)' => Loose(o))
      BY <1>3, <1>4 DEF Loose
<1>9. Relieves
      BY <1>1, <1>6, <1>7, <1>8 DEF Relieves, WatchInv
<1>10. QED BY <1>9, RelievedWatch

(* A poll writes the row of its order, may end it at the broker and the     *)
(* task with it, and then lets go of what is loose.                         *)
LEMMA PollTells ==
  ASSUME TablesTyped, NEW o \in 1..rows, PollStep(o)
  PROVE  /\ UNCHANGED <<task, rows, queue>> /\ letgo \subseteq letgo'
         /\ o \in polling /\ (polling' = polling \/ polling' = polling \ {o})
         /\ \A p \in Oids \ {o} : broker'[p] = broker[p] /\ row'[p] = row[p]
         /\ row'[o].alert = row[o].alert
         /\ broker'[o].state = broker[o].state \/ broker'[o].state = "DEAD"
         /\ Loose(o)' => Loose(o)
         /\ o \notin polling' => o \in letgo' \/ ~Loose(o)'
<1>0. o \in Oids /\ row[o] \in RowSet /\ broker[o] \in OrderSet
      BY SizeAssumption DEF TablesTyped, Oids
<1>1. CASE PollFilled(o)
  <2>1. row'[o].filled = broker[o].filled /\ row'[o].alert = row[o].alert /\ \A p \in Oids \ {o} : row'[p] = row[p]
        BY <1>0, <1>1 DEF PollFilled, TablesTyped, RowSet
  <2>2. broker' = broker /\ broker[o].state = "FILLED" /\ broker[o].filled \in Nat
        BY <1>0, <1>1 DEF PollFilled, OrderSet
  <2>3. ~Loose(o)'
        BY <2>1, <2>2 DEF Loose
  <2>4. QED BY <1>1, <2>1, <2>2, <2>3 DEF PollFilled, desk, past
<1>2. CASE PollPartial(o)
  <2>1. row'[o].alert = row[o].alert /\ \A p \in Oids \ {o} : row'[p] = row[p]
        BY <1>0, <1>2 DEF PollPartial, TablesTyped, RowSet
  <2>2. broker' = broker /\ Loose(o) /\ polling' = polling
        BY <1>2 DEF PollPartial, Loose
  <2>3. QED BY <1>2, <2>1, <2>2 DEF PollPartial, desk, past
<1>3. CASE PollDead(o)
  <2>1. /\ row'[o].alert = row[o].alert /\ row'[o].filled = row[o].filled
        /\ \A p \in Oids \ {o} : row'[p] = row[p]
        BY <1>0, <1>3 DEF PollDead, TablesTyped, RowSet
  <2>2. broker' = broker /\ UNCHANGED <<task, rows, queue>> /\ o \in polling /\ polling' = polling \ {o} /\ LetsGo(o)
        BY <1>3 DEF PollDead, desk
  <2>3. (Loose(o)' => Loose(o)) /\ (o \in letgo' \/ ~Loose(o)') /\ letgo \subseteq letgo'
        BY <2>1, <2>2 DEF Loose, LetsGo
  <2>4. QED BY <2>1, <2>2, <2>3
<1>4. ASSUME NEW st, GivesUp(o, st), LetsGo(o), broker' = broker \/ broker' = [broker EXCEPT ![o].state = "DEAD"]
      PROVE  /\ UNCHANGED <<task, rows, queue>> /\ letgo \subseteq letgo'
             /\ o \in polling /\ polling' = polling \ {o}
             /\ \A p \in Oids \ {o} : broker'[p] = broker[p] /\ row'[p] = row[p]
             /\ row'[o].alert = row[o].alert
             /\ broker'[o].state = broker[o].state \/ broker'[o].state = "DEAD"
             /\ Loose(o)' => Loose(o)
             /\ o \in letgo' \/ ~Loose(o)'
  <2>1. /\ row'[o].alert = row[o].alert /\ row'[o].filled = row[o].filled
        /\ \A p \in Oids \ {o} : row'[p] = row[p]
    <3>1. row' = row \/ row' = [row EXCEPT ![o].status = st]
          BY <1>4 DEF GivesUp
    <3>2. QED BY <1>0, <3>1 DEF TablesTyped, RowSet
  <2>2. /\ broker'[o].filled = broker[o].filled /\ (broker'[o].state = broker[o].state \/ broker'[o].state = "DEAD")
        /\ \A p \in Oids \ {o} : broker'[p] = broker[p]
        BY <1>0, <1>4 DEF TablesTyped, OrderSet
  <2>3. UNCHANGED <<task, rows, queue>> /\ o \in polling /\ polling' = polling \ {o}
        BY <1>4 DEF GivesUp, desk
  <2>4. (Loose(o)' => Loose(o)) /\ (o \in letgo' \/ ~Loose(o)') /\ letgo \subseteq letgo'
        BY <1>4, <2>1, <2>2 DEF Loose, LetsGo
  <2>5. QED BY <2>1, <2>2, <2>3, <2>4
<1>5. CASE PollGivesUp(o)
  <2>1. GivesUp(o, "CANCELLED") /\ LetsGo(o) /\ (broker' = broker \/ broker' = [broker EXCEPT ![o].state = "DEAD"])
        BY <1>5 DEF PollGivesUp
  <2>2. QED BY <1>4, <2>1
<1>6. CASE PollErrs(o)
  <2>1. GivesUp(o, "ERROR") /\ LetsGo(o) /\ broker' = broker
        BY <1>6 DEF PollErrs
  <2>2. QED BY <1>4, <2>1
<1>7. QED BY <1>1, <1>2, <1>3, <1>5, <1>6 DEF PollStep

(* The broker moves what is at work there.                                  *)
LEMMA BrokerTells ==
  ASSUME TablesTyped, NEW o \in 1..rows, BrokerStep(o)
  PROVE  /\ UNCHANGED <<alert, queue, task, row, rows, polling, letgo>>
         /\ \A p \in Oids \ {o} : broker'[p] = broker[p]
         /\ broker[o].state \in {"SENT", "LIVE"}
<1>0. o \in Oids
      BY SizeAssumption DEF TablesTyped, Oids
<1>1. broker[o].state \in {"SENT", "LIVE"} /\ UNCHANGED <<alert, queue, task, row, rows, polling, letgo>>
      BY DEF BrokerStep, Accepts, Fills, FillsPart, Buys1, Kills, desk, past
<1>2. \A p \in Oids \ {o} : broker'[p] = broker[p]
      BY <1>0 DEF BrokerStep, Accepts, Fills, FillsPart, Buys1, Kills, TablesTyped
<1>3. QED BY <1>1, <1>2

(* A cancel the operator's endpoint or an exit's sweep asked for.           *)
LEMMA AsideTells ==
  ASSUME TablesTyped, (\E b \in Buys : Strikes(b)) \/ (\E s \in Sells, o \in Oids : Clears(s, o))
  PROVE  /\ UNCHANGED <<queue, task, rows, broker, polling, letgo>>
         /\ \A p \in Oids : row'[p].alert = row[p].alert /\ row'[p].filled = row[p].filled
<1>1. UNCHANGED <<queue, task, rows, broker, polling, letgo>>
      BY DEF Strikes, Clears, desk, past
<1>2. ASSUME NEW b \in Buys, Strikes(b)
      PROVE  \E o : row' = row \/ Stamped(o)
      BY <1>2 DEF Strikes
<1>3. \E o : row' = row \/ Stamped(o)
      BY <1>2 DEF Clears
<1>4. QED BY <1>1, <1>3, StampedRow

LEMMA RestTells ==
  ASSUME \/ \E a \in Alerts : Arrives(a)
         \/ \E s \in Sells : Sells1(s) \/ Ignores(s)
         \/ \E c \in Contracts : AutoExits(c) \/ Forgets(c)
         \/ UNCHANGED vars
  PROVE  UNCHANGED <<task, row, rows, broker, polling, letgo>>
BY DEF Arrives, Sells1, Ignores, AutoExits, Forgets, orders, past, vars

LEMMA AsideWatch ==
  ASSUME WatchInv, DeskInv', UNCHANGED <<task, rows>>,
         \/ \E o \in 1..rows : PollStep(o) \/ BrokerStep(o)
         \/ \E b \in Buys : Strikes(b)
         \/ \E s \in Sells, o \in Oids : Clears(s, o)
  PROVE  WatchInv'
<1>0. 1..rows \subseteq Oids /\ TablesTyped /\ polling \subseteq 1..rows
      BY SizeAssumption DEF WatchInv, DeskInv, TablesTyped, Oids
<1>1. \A a \in Buys, j \in Kinds : Awaits(a, j)
      BY DEF Awaits, Pc, Cur
<1>2. ASSUME NEW o \in 1..rows, PollStep(o)
      PROVE  Relieves
  <2>1. /\ letgo \subseteq letgo' /\ polling' \subseteq polling /\ polling \subseteq polling' \cup {o}
        /\ \A p \in Oids \ {o} : broker'[p] = broker[p] /\ row'[p] = row[p]
        /\ row'[o].alert = row[o].alert
        /\ Loose(o)' => Loose(o)
        /\ o \notin polling' => o \in letgo' \/ ~Loose(o)'
        BY <1>0, <1>2, PollTells
  <2>2. \A p \in 1..rows : row'[p].alert = row[p].alert /\ (Loose(p)' => Loose(p))
    <3>1. ASSUME NEW p \in 1..rows, p # o
          PROVE  row'[p].alert = row[p].alert /\ (Loose(p)' => Loose(p))
          BY <1>0, <2>1, <3>1 DEF Loose
    <3>2. QED BY <2>1, <3>1
  <2>3. QED BY <1>0, <1>1, <2>1, <2>2 DEF Relieves
<1>3. ASSUME NEW o \in 1..rows, BrokerStep(o)
      PROVE  Relieves
  <2>1. /\ UNCHANGED <<row, polling, letgo>>
        /\ \A p \in Oids \ {o} : broker'[p] = broker[p]
        /\ broker[o].state \in {"SENT", "LIVE"}
        BY <1>0, <1>3, BrokerTells
  <2>2. QED BY <1>0, <1>1, <2>1 DEF Relieves, Loose
<1>4. CASE (\E b \in Buys : Strikes(b)) \/ (\E s \in Sells, o \in Oids : Clears(s, o))
  <2>1. /\ UNCHANGED <<broker, polling, letgo>>
        /\ \A p \in Oids : row'[p].alert = row[p].alert /\ row'[p].filled = row[p].filled
        BY <1>0, <1>4, AsideTells
  <2>2. \A p \in 1..rows : row'[p].alert = row[p].alert /\ (Loose(p)' => Loose(p))
        BY <1>0, <2>1 DEF Loose
  <2>3. rows' = rows
        OBVIOUS
  <2>4. Relieves
        BY <1>0, <1>1, <2>1, <2>2, <2>3 DEF Relieves
  <2>5. QED BY <2>4, RelievedWatch
<1>5. QED BY <1>2, <1>3, <1>4, RelievedWatch

LEMMA WatchStep ==
  ASSUME WatchInv, [Next]_vars
  PROVE  WatchInv'
<1>1. DeskInv'
      BY DeskStep DEF WatchInv
<1>2. ASSUME NEW b \in Buys, PostStep(b)
      PROVE  WatchInv'
  <2>1. PICK k \in Kinds : PostReturns(b, k) \/ PostFails(b, k)
        BY <1>2 DEF PostStep
  <2>2. QED BY <1>1, <2>1, ReturnsWatch, FailsWatch
<1>3. CASE \/ \E o \in 1..rows : PollStep(o) \/ BrokerStep(o)
           \/ \E b \in Buys : Strikes(b)
           \/ \E s \in Sells, o \in Oids : Clears(s, o)
  <2>1. TablesTyped
        BY DEF WatchInv, DeskInv
  <2>2. UNCHANGED <<task, rows>>
        BY <1>3, <2>1, PollTells, BrokerTells, AsideTells
  <2>3. QED BY <1>1, <1>3, <2>2, AsideWatch
<1>4. CASE \/ \E a \in Alerts : Arrives(a)
           \/ \E s \in Sells : Sells1(s) \/ Ignores(s)
           \/ \E c \in Contracts : AutoExits(c) \/ Forgets(c)
           \/ UNCHANGED vars
  <2>1. UNCHANGED <<task, row, rows, broker, polling, letgo>>
        BY <1>4, RestTells
  <2>2. \A a \in Buys, j \in Kinds : Awaits(a, j)
        BY <2>1 DEF Awaits, Pc, Cur
  <2>3. QED BY <1>1, <2>1, <2>2, HeldWatch DEF Held
<1>5. ASSUME NEW b \in Buys, JobStep(b) \/ CoolStep(b) \/ Resubmits(b) \/ PegStep(b)
      PROVE  WatchInv'
      BY <1>1, <1>5, WorkWatch, PegWatch
<1>6. QED BY <1>2, <1>3, <1>4, <1>5 DEF Next, Step

LEMMA WatchStart ==
  ASSUME Init
  PROVE  WatchInv
<1>1. rows = 0 /\ polling = {} /\ 1..rows = {} /\ \A b \in Buys, k \in Kinds : Pc(b, k) = "idle"
      BY DEF Init, NoTask, Pc
<1>2. QED BY <1>1, DeskStart DEF WatchInv, PostsOwn, EveryOrderWatched

(* An order that is at work, or bought beyond what its row says, has a      *)
(* _poll_order_fill task, or its POST is awaited by the task that placed    *)
(* it; unless a POST raised over it, or its poller gave up, failed ten      *)
(* times or found it dead, which are the ends the code has for a poller.    *)
(* No turn of the worker, the cooldown, the watcher, the override, an exit  *)
(* or the operator loses one.                                               *)
THEOREM NoneUnwatched == Spec => []EveryOrderWatched
<1>1. Init => WatchInv
      BY WatchStart
<1>2. WatchInv /\ [Next]_vars => WatchInv'
      BY WatchStep
<1>3. WatchInv => EveryOrderWatched
      BY DEF WatchInv
<1>4. QED BY <1>1, <1>2, <1>3, PTL DEF Spec

-----------------------------------------------------------------------------
(* One entry of each alert                                                  *)
(*                                                                          *)
(* The tasks of an alert take turns: each begins where no order of the      *)
(* alert is at work any more.  The invariant says so of each of them, of    *)
(* the alerts that were never misled.                                       *)

NoneOf(b) == \A o \in 1..rows : row[o].alert # b
NoneLive(b) == \A o \in 1..rows : row[o].alert = b => ~AtBroker(o)
OnlyLive(b, o) == \A p \in 1..rows : row[p].alert = b /\ AtBroker(p) => p = o
OneLive(b) == \A o, p \in 1..rows : row[o].alert = b /\ row[p].alert = b /\ AtBroker(o) /\ AtBroker(p) => o = p

(* A task that is on its way to an order, or has one to look after.         *)
Acts(b, k) ==
  Pc(b, k) \in IF k = "cool" THEN {"posting"}
               ELSE {"checked", "quoting", "posting", "asleep", "stopping", "ready"}
Chasing(b) == Pc(b, "peg") \in {"asleep", "quoting", "stopping", "ready"}

(* The job comes first.                                                     *)
JobFirst(b) ==
  /\ Pc(b, "job") # "done" => /\ Pc(b, "over") = "idle" /\ Pc(b, "cool") = "idle" /\ Pc(b, "peg") = "idle"
                              /\ alert[b] # "SKIPPED"
  /\ Pc(b, "job") \notin {"posting", "done"} => NoneOf(b)

(* One task acts at a time, and none while the alert is skipped.            *)
Alone(b) == \A j, k \in Kinds : Acts(b, j) /\ Acts(b, k) => j = k
ActsOpen(b) == alert[b] = "SKIPPED" => NoneLive(b) /\ \A k \in Kinds : ~Acts(b, k)

PostsAlone(b) == \A k \in Kinds : Pc(b, k) = "posting" => At(Cur(b, k), b) /\ OnlyLive(b, Cur(b, k))
ChasesAlone(b) == Chasing(b) => At(Cur(b, "peg"), b) /\ OnlyLive(b, Cur(b, "peg"))
BuysLast(b) == Replacing(b) \/ Overriding(b) => NoneLive(b)

Entry(b) ==
  /\ JobFirst(b) /\ Alone(b) /\ ActsOpen(b)
  /\ PostsAlone(b) /\ ChasesAlone(b) /\ BuysLast(b) /\ OneLive(b)

OneInv == DeskInv /\ \A b \in Buys \ misled : Entry(b)

-----------------------------------------------------------------------------
(* What a step does to the entries of an alert *)

(* No new order, and none that is at the broker again.                      *)
Ebbs == rows' = rows /\ \A o \in 1..rows : row'[o].alert = row[o].alert /\ (AtBroker(o)' => AtBroker(o))

(* The step is another alert's, or nobody's.                                *)
QuietFor(b) ==
  /\ task'[b] = task[b]
  /\ 1..rows \subseteq 1..rows'
  /\ \A o \in 1..rows : row'[o].alert = row[o].alert /\ (AtBroker(o)' => AtBroker(o))
  /\ \A o \in (1..rows') \ (1..rows) : row'[o].alert # b
  /\ alert'[b] = alert[b] \/ alert'[b] # "SKIPPED"

LEMMA QuietEntry ==
  ASSUME NEW b \in Buys, Entry(b), QuietFor(b)
  PROVE  Entry(b)'
<1> USE DEF QuietFor, Pc, Cur
<1>1. /\ NoneOf(b) => NoneOf(b)'
      /\ NoneLive(b) => NoneLive(b)'
      /\ \A o : OnlyLive(b, o) => OnlyLive(b, o)'
      /\ \A o : At(o, b) => At(o, b)'
      BY DEF NoneOf, NoneLive, OnlyLive, At
<1>2. JobFirst(b)'
      BY <1>1 DEF Entry, JobFirst
<1>3. Alone(b)' /\ ActsOpen(b)'
      BY <1>1 DEF Entry, Alone, ActsOpen, Acts
<1>4. PostsAlone(b)'
      BY <1>1 DEF Entry, PostsAlone
<1>5. ChasesAlone(b)'
      BY <1>1 DEF Entry, ChasesAlone, Chasing
<1>6. BuysLast(b)'
      BY <1>1 DEF Entry, BuysLast, Replacing, Overriding, PegIs, Is
<1>7. OneLive(b)'
      BY DEF Entry, OneLive
<1>8. QED BY <1>2, <1>3, <1>4, <1>5, <1>6, <1>7 DEF Entry

(* A task of b goes on and inserts nothing: what is left to show.           *)
LEMMA GoesOn ==
  ASSUME NEW b \in Buys, Entry(b), Ebbs,
         JobFirst(b)', Alone(b)', ActsOpen(b)', BuysLast(b)',
         \A k \in Kinds : Pc(b, k)' = "posting" => Pc(b, k) = "posting" /\ Cur(b, k)' = Cur(b, k),
         NEW c, c = Cur(b, "peg")', Chasing(b)' => At(c, b) /\ OnlyLive(b, c)
  PROVE  Entry(b)'
<1>1. \A o : (OnlyLive(b, o) => OnlyLive(b, o)') /\ (At(o, b) => At(o, b)')
      BY DEF Ebbs, OnlyLive, At
<1>2. OneLive(b)'
      BY DEF Entry, OneLive, Ebbs
<1>3. PostsAlone(b)'
  <2> SUFFICES ASSUME NEW k \in Kinds, Pc(b, k)' = "posting"
               PROVE  At(Cur(b, k), b)' /\ OnlyLive(b, Cur(b, k))'
      BY DEF PostsAlone
  <2>1. PICK o : o = Cur(b, k)
        OBVIOUS
  <2>2. Cur(b, k)' = o /\ At(o, b) /\ OnlyLive(b, o)
        BY <2>1 DEF Entry, PostsAlone
  <2>3. At(o, b)' /\ OnlyLive(b, o)'
        BY <1>1, <2>2
  <2>4. QED BY <2>2, <2>3 DEF At, OnlyLive
<1>4. ChasesAlone(b)'
  <2> SUFFICES ASSUME Chasing(b)'
               PROVE  At(Cur(b, "peg"), b)' /\ OnlyLive(b, Cur(b, "peg"))'
      BY DEF ChasesAlone
  <2>1. At(c, b)' /\ OnlyLive(b, c)'
        BY <1>1
  <2>2. QED BY <2>1 DEF At, OnlyLive
<1>5. QED BY <1>2, <1>3, <1>4 DEF Entry

Kin == /\ "job" \in Kinds /\ "over" \in Kinds /\ "cool" \in Kinds /\ "peg" \in Kinds
       /\ \A k \in Kinds : k \in {"job", "over", "cool", "peg"}
LEMMA KinHolds == Kin
BY DEF Kin, Kinds

LEMMA EbbsNone ==
  ASSUME NEW b \in Buys, Ebbs
  PROVE  (NoneOf(b) => NoneOf(b)') /\ (NoneLive(b) => NoneLive(b)')
BY DEF Ebbs, NoneOf, NoneLive

(* The worker takes the alert.                                              *)
LEMMA ChecksEntry ==
  ASSUME NEW b \in Buys, Entry(b), Ebbs, Pc(b, "job") = "idle",
         \/ TurnsTo(b, "job", "done") /\ alert'[b] = "SKIPPED"
         \/ TurnsTo(b, "job", "checked") /\ alert'[b] = alert[b]
  PROVE  Entry(b)'
<1> USE KinHolds DEF TurnsTo, Pc, Cur, Kin
<1>1. /\ Pc(b, "over") = "idle" /\ Pc(b, "cool") = "idle" /\ Pc(b, "peg") = "idle"
      /\ alert[b] # "SKIPPED" /\ NoneOf(b)
      BY DEF Entry, JobFirst
<1>2. NoneOf(b)' /\ NoneLive(b)'
      BY <1>1, EbbsNone DEF NoneOf, NoneLive
<1>3. Pc(b, "over")' = "idle" /\ Pc(b, "cool")' = "idle" /\ Pc(b, "peg")' = "idle" /\ Pc(b, "job")' \in {"done", "checked"}
      BY <1>1
<1>4. JobFirst(b)'
      BY <1>1, <1>2, <1>3 DEF JobFirst
<1>5. \A k \in Kinds \ {"job"} : ~Acts(b, k)'
      BY <1>3 DEF Acts
<1>6. Alone(b)'
      BY <1>5 DEF Alone
<1>7. ActsOpen(b)'
  <2>1. Pc(b, "job")' = "done" => ~Acts(b, "job")'
        BY DEF Acts
  <2>2. QED BY <1>1, <1>2, <1>5, <2>1 DEF ActsOpen
<1>8. BuysLast(b)'
      BY <1>2 DEF BuysLast
<1>9. ~Chasing(b)' /\ \A k \in Kinds : Pc(b, k)' # "posting"
      BY <1>3 DEF Chasing
<1>10. QED BY <1>4, <1>6, <1>7, <1>8, <1>9, GoesOn

(* The worker's job, or the override, goes on to the quote or ends at it.   *)
LEMMA WorkEntry ==
  ASSUME NEW b \in Buys, Entry(b), Ebbs,
         NEW k \in {"job", "over"}, Pc(b, k) \in {"checked", "quoting"},
         \A j \in Kinds \ {k, "cool"} : task'[b][j] = task[b][j],
         task'[b]["cool"] = task[b]["cool"] \/ task'[b]["cool"].pc = "asleep",
         \/ /\ task'[b][k].pc = "quoting" /\ alert'[b] = alert[b]
            /\ task'[b]["cool"] = task[b]["cool"]
         \/ task'[b][k].pc = "done" /\ alert'[b] = "SKIPPED"
  PROVE  Entry(b)'
<1> USE KinHolds DEF Pc, Cur, Kin
<1>1. Acts(b, k) /\ \A j \in Kinds \ {k} : ~Acts(b, j)
      BY DEF Entry, Alone, Acts
<1>2. NoneLive(b) /\ alert[b] # "SKIPPED"
  <2>1. k = "over" => NoneLive(b)
        BY DEF Entry, BuysLast, Overriding, Is
  <2>2. k = "job" => NoneLive(b)
        BY DEF Entry, JobFirst, NoneOf, NoneLive
  <2>3. QED BY <1>1, <2>1, <2>2 DEF Entry, ActsOpen
<1>3. NoneLive(b)'
      BY <1>2, EbbsNone
<1>4. \A j \in Kinds \ {k} : ~Acts(b, j)'
  <2>1. \A j \in Kinds \ {k, "cool"} : ~Acts(b, j)'
        BY <1>1 DEF Acts
  <2>2. ~Acts(b, "cool")'
        BY <1>1 DEF Acts
  <2>3. QED BY <2>1, <2>2
<1>5. Alone(b)'
      BY <1>4 DEF Alone
<1>6. ActsOpen(b)'
  <2>1. task'[b][k].pc = "done" => ~Acts(b, k)'
        BY DEF Acts
  <2>2. QED BY <1>2, <1>3, <1>4, <2>1 DEF ActsOpen
<1>7. JobFirst(b)'
  <2>1. CASE k = "over"
    <3>1. Pc(b, "job") = "done" /\ Pc(b, "job")' = "done"
          BY <2>1 DEF Entry, JobFirst
    <3>2. QED BY <3>1 DEF JobFirst
  <2>2. CASE k = "job"
    <3>1. /\ Pc(b, "over") = "idle" /\ Pc(b, "cool") = "idle" /\ Pc(b, "peg") = "idle" /\ NoneOf(b)
          BY <2>2 DEF Entry, JobFirst
    <3>2. NoneOf(b)'
          BY <3>1, EbbsNone
    <3>3. QED BY <1>2, <2>2, <3>1, <3>2 DEF JobFirst
  <2>3. QED BY <2>1, <2>2
<1>8. BuysLast(b)'
      BY <1>3 DEF BuysLast
<1>9. ~Chasing(b)' /\ \A j \in Kinds : Pc(b, j)' = "posting" => Pc(b, j) = "posting" /\ Cur(b, j)' = Cur(b, j)
  <2>1. ~Chasing(b)'
        BY <1>4 DEF Chasing, Acts
  <2>2. \A j \in Kinds : Pc(b, j)' # "posting"
        BY <1>4 DEF Acts
  <2>3. QED BY <2>1, <2>2
<1>10. QED BY <1>5, <1>6, <1>7, <1>8, <1>9, GoesOn

(* The cooldown wakes, waits on or ends.                                    *)
LEMMA CoolEntry ==
  ASSUME NEW b \in Buys, Entry(b), Ebbs, alert'[b] = alert[b],
         Pc(b, "cool") \in {"asleep", "quoting"},
         NEW pc \in {"asleep", "quoting", "done"}, TurnsTo(b, "cool", pc)
  PROVE  Entry(b)'
<1> USE KinHolds DEF Pc, Cur, Kin, TurnsTo
<1>1. \A k \in Kinds : Acts(b, k)' => Acts(b, k)
      BY DEF Acts
<1>2. Alone(b)'
      BY <1>1 DEF Entry, Alone
<1>3. NoneLive(b) => NoneLive(b)'
      BY EbbsNone
<1>4. ActsOpen(b)'
      BY <1>1, <1>3 DEF Entry, ActsOpen
<1>5. Pc(b, "job") = "done" /\ Pc(b, "job")' = "done"
      BY DEF Entry, JobFirst
<1>6. JobFirst(b)'
      BY <1>5 DEF JobFirst
<1>7. BuysLast(b)'
      BY <1>3 DEF Entry, BuysLast, Replacing, Overriding, PegIs, Is
<1>8. /\ Chasing(b)' => Chasing(b) /\ Cur(b, "peg")' = Cur(b, "peg")
      /\ \A k \in Kinds : Pc(b, k)' = "posting" => Pc(b, k) = "posting" /\ Cur(b, k)' = Cur(b, k)
      BY DEF Chasing
<1>9. PICK c : c = Cur(b, "peg")'
      OBVIOUS
<1>10. Chasing(b)' => At(c, b) /\ OnlyLive(b, c)
      BY <1>8, <1>9 DEF Entry, ChasesAlone
<1>11. QED BY <1>2, <1>4, <1>6, <1>7, <1>8, <1>9, <1>10, GoesOn

(* The watcher wakes, asks, cancels or ends; it replaces only what is dead. *)
LEMMA PegEntry ==
  ASSUME NEW b \in Buys, Entry(b), Ebbs, alert'[b] = alert[b],
         Pc(b, "peg") \in {"asleep", "quoting", "stopping"},
         Pc(b, "peg")' \in {"asleep", "quoting", "stopping", "ready", "done"},
         \A j \in Kinds \ {"peg"} : task'[b][j] = task[b][j],
         NEW c, c = Cur(b, "peg"), Cur(b, "peg")' = c,
         Replacing(b)' => ~AtBroker(c)
  PROVE  Entry(b)'
<1> USE KinHolds DEF Pc, Cur, Kin
<1>1. \A k \in Kinds : Acts(b, k)' => Acts(b, k)
      BY DEF Acts
<1>2. Alone(b)'
      BY <1>1 DEF Entry, Alone
<1>3. NoneLive(b) => NoneLive(b)'
      BY EbbsNone
<1>4. ActsOpen(b)'
      BY <1>1, <1>3 DEF Entry, ActsOpen
<1>5. Pc(b, "job") = "done" /\ Pc(b, "job")' = "done"
      BY DEF Entry, JobFirst
<1>6. JobFirst(b)'
      BY <1>5 DEF JobFirst
<1>7. At(c, b) /\ OnlyLive(b, c)
      BY DEF Entry, ChasesAlone, Chasing
<1>8. BuysLast(b)'
  <2>1. Replacing(b)' => NoneLive(b)
        BY <1>7 DEF OnlyLive, NoneLive
  <2>2. Overriding(b)' => Overriding(b)
        BY DEF Overriding, Is
  <2>3. QED BY <1>3, <2>1, <2>2 DEF Entry, BuysLast
<1>9. \A k \in Kinds : Pc(b, k)' = "posting" => Pc(b, k) = "posting" /\ Cur(b, k)' = Cur(b, k)
  <2>1. Acts(b, "peg") /\ \A j \in Kinds \ {"peg"} : ~Acts(b, j)
        BY DEF Entry, Alone, Acts
  <2>2. \A j \in Kinds \ {"peg"} : Pc(b, j)' # "posting"
        BY <2>1 DEF Acts
  <2>3. QED BY <2>2
<1>10. QED BY <1>2, <1>4, <1>6, <1>7, <1>8, <1>9, GoesOn

(* An override begins beside nothing: otherwise the alert is misled.        *)
LEMMA ResubmitsEntry ==
  ASSUME NEW b \in Buys, Entry(b), Ebbs, alert'[b] = "PENDING", TurnsTo(b, "over", "checked"), ~Misleads(b)'
  PROVE  Entry(b)'
<1> USE KinHolds DEF Pc, Cur, Kin, TurnsTo
<1>1. /\ NoneLive(b)' /\ Pc(b, "job")' = "done" /\ Pc(b, "cool")' # "posting"
      /\ Pc(b, "peg")' \in {"idle", "done"}
      BY DEF Misleads, Overriding, OrdersOf, Is, Rests, NoneLive
<1>2. \A k \in Kinds \ {"over"} : ~Acts(b, k)'
      BY <1>1 DEF Acts
<1>3. Alone(b)'
      BY <1>2 DEF Alone
<1>4. JobFirst(b)' /\ ActsOpen(b)' /\ BuysLast(b)'
      BY <1>1 DEF JobFirst, ActsOpen, BuysLast
<1>5. ~Chasing(b)' /\ \A k \in Kinds : Pc(b, k)' # "posting"
      BY <1>1 DEF Chasing
<1>6. QED BY <1>3, <1>4, <1>5, GoesOn

(* A POST returns: the order is chased, or the task has done with it.       *)
LEMMA ReturnsEntry ==
  ASSUME NEW b \in Buys, Entry(b), Ebbs, NEW k \in Kinds, Pc(b, k) = "posting", ReturnsTo(b, k),
         alert'[b] \in {alert[b], "PENDING", "ERROR"}
  PROVE  Entry(b)'
<1> USE KinHolds DEF Pc, Cur, Kin
<1>1. Acts(b, k) /\ \A j \in Kinds \ {k} : ~Acts(b, j)
      BY DEF Entry, Alone, Acts
<1>2. alert'[b] # "SKIPPED"
      BY <1>1 DEF Entry, ActsOpen
<1>3. PICK c : c = Cur(b, k)
      OBVIOUS
<1>4. At(c, b) /\ OnlyLive(b, c)
      BY <1>3 DEF Entry, PostsAlone
<1>5. /\ \A j \in Kinds \ {"peg"} : ~Acts(b, j)'
      /\ Pc(b, "peg")' \notin {"posting", "quoting", "stopping", "ready"}
      /\ Chasing(b)' => Cur(b, "peg")' = c
  <2>1. CASE k = "peg" /\ TurnsTo(b, "peg", "asleep")
        BY <1>1, <1>3, <2>1 DEF TurnsTo, Acts
  <2>2. CASE k # "peg" /\ task'[b]["peg"] = task[b]["peg"] /\ task'[b][k].pc = "done"
             /\ \A j \in Kinds \ {k, "peg"} : task'[b][j] = task[b][j]
        BY <1>1, <2>2 DEF Acts, Chasing
  <2>3. CASE k # "peg" /\ task'[b]["peg"].pc = "asleep" /\ task'[b]["peg"].cur = c /\ task'[b][k].pc = "done"
             /\ \A j \in Kinds \ {k, "peg"} : task'[b][j] = task[b][j]
        BY <1>1, <2>3 DEF Acts
  <2>4. QED BY <1>3, <2>1, <2>2, <2>3 DEF ReturnsTo
<1>6. Alone(b)'
      BY <1>5 DEF Alone
<1>7. Pc(b, "job")' = "done"
  <2>1. CASE k = "job"
        BY <2>1 DEF ReturnsTo
  <2>2. CASE k # "job"
        BY <2>2 DEF ReturnsTo, TurnsTo, Entry, JobFirst
  <2>3. QED BY <2>1, <2>2
<1>8. JobFirst(b)' /\ ActsOpen(b)'
      BY <1>2, <1>7 DEF JobFirst, ActsOpen
<1>9. BuysLast(b)'
  <2>1. ~Replacing(b)'
        BY <1>5 DEF Replacing, PegIs, Is
  <2>2. ~Overriding(b)'
        BY <1>5 DEF Overriding, Is, Acts
  <2>3. QED BY <2>1, <2>2 DEF BuysLast
<1>10. \A j \in Kinds : Pc(b, j)' # "posting"
  <2>1. \A j \in Kinds \ {"peg"} : Pc(b, j)' # "posting"
        BY <1>5 DEF Acts
  <2>2. QED BY <1>5, <2>1
<1>11. PICK d : d = Cur(b, "peg")'
       OBVIOUS
<1>12. Chasing(b)' => At(d, b) /\ OnlyLive(b, d)
       BY <1>4, <1>5, <1>11
<1>13. QED BY <1>6, <1>8, <1>9, <1>10, <1>11, <1>12, GoesOn

(* A POST raised: the task has done with it.                                *)
LEMMA FailsEntry ==
  ASSUME NEW b \in Buys, Entry(b), Ebbs, NEW k \in Kinds, Pc(b, k) = "posting", TurnsTo(b, k, "done"),
         alert'[b] \in {alert[b], "ERROR"}
  PROVE  Entry(b)'
<1> USE KinHolds DEF Pc, Cur, Kin, TurnsTo
<1>1. Acts(b, k) /\ \A j \in Kinds \ {k} : ~Acts(b, j)
      BY DEF Entry, Alone, Acts
<1>2. \A j \in Kinds : ~Acts(b, j)'
  <2>1. ~Acts(b, k)'
        BY DEF Acts
  <2>2. QED BY <1>1, <2>1 DEF Acts
<1>3. alert'[b] # "SKIPPED"
      BY <1>1 DEF Entry, ActsOpen
<1>4. Alone(b)' /\ ActsOpen(b)'
      BY <1>2, <1>3 DEF Alone, ActsOpen
<1>5. Pc(b, "job")' = "done"
      BY DEF Entry, JobFirst
<1>6. JobFirst(b)'
      BY <1>5 DEF JobFirst
<1>7. ~Chasing(b)' /\ ~Replacing(b)' /\ ~Overriding(b)' /\ \A j \in Kinds : Pc(b, j)' # "posting"
  <2>1. ~Acts(b, "peg")' /\ ~Acts(b, "over")'
        BY <1>2
  <2>2. \A j \in Kinds : Pc(b, j)' # "posting"
        BY <1>2 DEF Acts
  <2>3. QED BY <2>1, <2>2 DEF Chasing, Replacing, Overriding, PegIs, Is, Acts
<1>8. BuysLast(b)'
      BY <1>7 DEF BuysLast
<1>9. QED BY <1>4, <1>6, <1>7, <1>8, GoesOn

(* A task that finds nothing of its alert at the broker places an order.    *)
LEMMA InsertsEntry ==
  ASSUME TasksShaped, TablesTyped, NEW b \in Buys, Entry(b), NoneLive(b),
         NEW k \in Kinds, NEW n, Inserts(b, k, n), alert'[b] # "SKIPPED", Pc(b, k) \notin {"idle", "done"},
         \A j \in Kinds \ {k} : ~Acts(b, j)
  PROVE  Entry(b)'
<1> USE KinHolds DEF Kin
<1>1. /\ \A j \in Kinds \ {k} : task'[b][j] = task[b][j]
      /\ task'[b][k].pc = "posting" /\ task'[b][k].cur = rows + 1
      /\ 1..rows' = (1..rows) \cup {rows + 1}
      /\ row'[rows + 1].alert = b
      /\ \A o \in 1..rows : row'[o] = row[o] /\ broker'[o] = broker[o]
      BY InsertsTells
<1>2. PICK m : m = rows + 1
      OBVIOUS
<1>3. At(m, b)' /\ OnlyLive(b, m)' /\ OneLive(b)'
  <2>1. \A o \in 1..rows' : row'[o].alert = b /\ AtBroker(o)' => o = m
        BY <1>1, <1>2 DEF NoneLive, AtBroker
  <2>2. m \in 1..rows' /\ row'[m].alert = b
        BY <1>1, <1>2
  <2>3. QED BY <2>1, <2>2 DEF At, OnlyLive, OneLive
<1>4. \A j \in Kinds \ {k} : ~Acts(b, j)'
      BY <1>1 DEF Acts, Pc
<1>5. Alone(b)' /\ ActsOpen(b)'
      BY <1>4 DEF Alone, ActsOpen
<1>6. JobFirst(b)'
  <2>1. CASE k = "job"
        BY <1>1, <2>1 DEF Entry, JobFirst, Pc
  <2>2. CASE k # "job"
        BY <1>1, <2>2 DEF Entry, JobFirst, Pc
  <2>3. QED BY <2>1, <2>2
<1>7. \A j \in Kinds : Pc(b, j)' = "posting" => j = k
      BY <1>4 DEF Acts
<1>8. PostsAlone(b)'
  <2> SUFFICES ASSUME NEW j \in Kinds, Pc(b, j)' = "posting"
               PROVE  At(Cur(b, j), b)' /\ OnlyLive(b, Cur(b, j))'
      BY DEF PostsAlone
  <2>1. Cur(b, j)' = m
        BY <1>1, <1>2, <1>7 DEF Cur
  <2>2. QED BY <1>3, <2>1 DEF At, OnlyLive
<1>9. ~Chasing(b)' /\ ~Replacing(b)' /\ ~Overriding(b)'
  <2>1. \A j \in {"over", "peg"} : Pc(b, j)' = "posting" \/ ~Acts(b, j)'
        BY <1>1, <1>4 DEF Pc
  <2>2. QED BY <2>1 DEF Chasing, Replacing, Overriding, PegIs, Is, Acts, Pc
<1>10. ChasesAlone(b)' /\ BuysLast(b)'
       BY <1>9 DEF ChasesAlone, BuysLast
<1>11. QED BY <1>3, <1>5, <1>6, <1>8, <1>10 DEF Entry

-----------------------------------------------------------------------------
(* The steps *)

(* What alert b does leaves the entries of another alone.                   *)
LEMMA OthersEntry ==
  ASSUME NEW a \in Buys, Entry(a), task'[a] = task[a], Ebbs, alert'[a] = alert[a] \/ alert'[a] # "SKIPPED"
  PROVE  Entry(a)'
BY QuietEntry DEF QuietFor, Ebbs

LEMMA InsertsQuiet ==
  ASSUME TasksShaped, TablesTyped, NEW b \in Buys, NEW k \in Kinds, NEW n, Inserts(b, k, n),
         NEW a \in Buys \ {b}, Entry(a), alert'[a] = alert[a]
  PROVE  Entry(a)'
<1>1. /\ task'[a] = task[a]
      /\ rows \in Nat /\ 1..rows' = (1..rows) \cup {rows + 1}
      /\ row'[rows + 1].alert = b
      /\ \A o \in 1..rows : row'[o] = row[o] /\ broker'[o] = broker[o]
      BY InsertsTells
<1>2. \A o \in (1..rows') \ (1..rows) : o = rows + 1
      BY <1>1
<1>3. QuietFor(a)
      BY <1>1, <1>2 DEF QuietFor, AtBroker
<1>4. QED BY <1>3, QuietEntry

LEMMA JobEntry ==
  ASSUME DeskInv, NEW b \in Buys, JobStep(b), NEW a \in Buys, Entry(a)
  PROVE  Entry(a)'
<1>0. TasksShaped /\ TablesTyped /\ AlertsShaped /\ Kin /\ a \in Alerts /\ b \in Alerts
      BY KinHolds DEF DeskInv, Alerts
<1>1. CASE Checks(b)
  <2>1. Ebbs
        BY <1>1 DEF Checks, orders, Ebbs, AtBroker
  <2>2. Pc(b, "job") = "idle"
        BY <1>1 DEF Checks, Takes, DeskInv, JobOnce
  <2>3. PICK pc \in {"done", "checked"} : Goes(b, "job", pc) /\ (pc = "done" => Marks(b, "SKIPPED")) /\ (pc = "checked" => alert' = alert)
        BY <1>1 DEF Checks
  <2>4. TurnsTo(b, "job", pc) /\ (a # b => task'[a] = task[a])
        BY <1>0, <2>3, GoesTells DEF TurnsTo, Kin
  <2>5. (pc = "done" => alert'[b] = "SKIPPED") /\ (pc = "checked" => alert'[b] = alert[b]) /\ (a # b => alert'[a] = alert[a])
        BY <1>0, <2>3, Marked
  <2>6. CASE a = b
        BY <2>1, <2>2, <2>4, <2>5, <2>6, ChecksEntry
  <2>7. CASE a # b
        BY <2>1, <2>4, <2>5, <2>7, OthersEntry
  <2>8. QED BY <2>6, <2>7
<1>2. ASSUME NEW k \in {"job", "over"}, Prices(b, k)
      PROVE  Entry(a)'
  <2>1. Ebbs /\ Pc(b, k) = "checked" /\ k \in Kinds /\ k # "cool"
        BY <1>0, <1>2 DEF Prices, orders, Ebbs, AtBroker, Is, Pc, Kin
  <2>2. PICK pc \in {"done", "quoting"} : Goes(b, k, pc) /\ (pc = "done" => Marks(b, "SKIPPED")) /\ (pc = "quoting" => alert' = alert)
        BY <1>2 DEF Prices, Skips
  <2>3. TurnsTo(b, k, pc) /\ (a # b => task'[a] = task[a])
        BY <1>0, <2>1, <2>2, GoesTells DEF TurnsTo
  <2>4. (pc = "done" => alert'[b] = "SKIPPED") /\ (pc = "quoting" => alert'[b] = alert[b]) /\ (a # b => alert'[a] = alert[a])
        BY <1>0, <2>2, Marked
  <2>5. CASE a = b
    <3>1. task'[b]["cool"] = task[b]["cool"] /\ task'[b][k].pc = pc /\ \A j \in Kinds \ {k, "cool"} : task'[b][j] = task[b][j]
          BY <1>0, <2>1, <2>3 DEF TurnsTo, Kin
    <3>2. QED BY <2>1, <2>4, <2>5, <3>1, WorkEntry
  <2>6. CASE a # b
        BY <2>1, <2>3, <2>4, <2>6, OthersEntry
  <2>7. QED BY <2>5, <2>6
<1>3. ASSUME NEW k \in {"job", "over"}, RanAway(b, k)
      PROVE  Entry(a)'
  <2>1. Ebbs /\ Pc(b, k) = "quoting" /\ Marks(b, "SKIPPED")
        BY <1>3 DEF RanAway, orders, Ebbs, AtBroker, Is, Pc, Marks
  <2>2. /\ a # b => task'[a] = task[a]
        /\ \A j \in Kinds \ {k, "cool"} : task'[b][j] = task[b][j]
        /\ task'[b][k].pc = "done"
        /\ task'[b]["cool"] = task[b]["cool"] \/ task'[b]["cool"].pc = "asleep"
        BY <1>0, <1>3, RanAwayTells
  <2>3. alert'[b] = "SKIPPED" /\ (a # b => alert'[a] = alert[a])
        BY <1>0, <2>1, Marked
  <2>4. CASE a = b
        BY <2>1, <2>2, <2>3, <2>4, WorkEntry
  <2>5. CASE a # b
        BY <2>1, <2>2, <2>3, <2>5, OthersEntry
  <2>6. QED BY <2>4, <2>5
<1>4. ASSUME NEW k \in {"job", "over"}, Places(b, k)
      PROVE  Entry(a)'
  <2>1. Inserts(b, k, 0) /\ alert' = alert /\ Pc(b, k) = "quoting" /\ k \in Kinds
        BY <1>0, <1>4 DEF Places, Is, Pc, Kin
  <2>2. CASE a = b
    <3>1. Acts(b, k) /\ \A j \in Kinds \ {k} : ~Acts(b, j)
          BY <2>1, <2>2 DEF Entry, Alone, Acts
    <3>2. NoneLive(b)
      <4>1. CASE k = "over"
            BY <2>1, <2>2, <4>1 DEF Entry, BuysLast, Overriding, Is, Pc
      <4>2. CASE k = "job"
            BY <2>1, <2>2, <4>2 DEF Entry, JobFirst, NoneOf, NoneLive
      <4>3. QED BY <4>1, <4>2
    <3>3. alert'[b] # "SKIPPED"
          BY <2>1, <2>2, <3>1 DEF Entry, ActsOpen
    <3>4. QED BY <1>0, <2>1, <2>2, <3>1, <3>2, <3>3, InsertsEntry
  <2>3. CASE a # b
        BY <1>0, <2>1, <2>3, InsertsQuiet
  <2>4. QED BY <2>2, <2>3
<1>5. QED BY <1>1, <1>2, <1>3, <1>4 DEF JobStep

LEMMA CoolsEntry ==
  ASSUME DeskInv, NEW b \in Buys, CoolStep(b), NEW a \in Buys, Entry(a)
  PROVE  Entry(a)'
<1>0. TasksShaped /\ TablesTyped /\ AlertsShaped /\ Kin /\ a \in Alerts /\ b \in Alerts
      BY KinHolds DEF DeskInv, Alerts
<1>1. Pc(b, "cool") \in {"asleep", "quoting"}
      BY DEF CoolStep, CoolWakes, Cooled, Is, Pc
<1>2. ASSUME NEW pc \in {"asleep", "quoting", "done"}, Goes(b, "cool", pc), alert' = alert, UNCHANGED orders
      PROVE  Entry(a)'
  <2>1. Ebbs
        BY <1>2 DEF orders, Ebbs, AtBroker
  <2>2. TurnsTo(b, "cool", pc) /\ (a # b => task'[a] = task[a])
        BY <1>0, <1>2, GoesTells DEF TurnsTo, Kin
  <2>3. CASE a = b
        BY <1>1, <1>2, <2>1, <2>2, <2>3, CoolEntry
  <2>4. CASE a # b
        BY <1>2, <2>1, <2>2, <2>4, OthersEntry
  <2>5. QED BY <2>3, <2>4
<1>3. CASE ~Overtaken(b) /\ Inserts(b, "cool", 0) /\ Marks(b, "PENDING") /\ Pc(b, "cool") = "quoting"
  <2>1. alert'[b] = "PENDING" /\ (a # b => alert'[a] = alert[a])
        BY <1>0, <1>3, Marked
  <2>2. CASE a = b
    <3>1. alert[b] = "SKIPPED"
          BY <1>3 DEF Overtaken
    <3>2. NoneLive(b) /\ \A j \in Kinds \ {"cool"} : ~Acts(b, j)
          BY <2>2, <3>1 DEF Entry, ActsOpen
    <3>3. QED BY <1>0, <1>3, <2>1, <2>2, <3>2, InsertsEntry DEF Kin
  <2>3. CASE a # b
        BY <1>0, <1>3, <2>1, <2>3, InsertsQuiet DEF Kin
  <2>4. QED BY <2>2, <2>3
<1>4. CASE CoolWakes(b)
      BY <1>2, <1>4 DEF CoolWakes
<1>5. CASE Cooled(b)
      BY <1>2, <1>3, <1>5 DEF Cooled, Is, Pc
<1>6. QED BY <1>4, <1>5 DEF CoolStep

LEMMA PegsEntry ==
  ASSUME DeskInv, NEW b \in Buys, PegStep(b), NEW a \in Buys, Entry(a), ~Misleads(a)'
  PROVE  Entry(a)'
<1>0. TasksShaped /\ TablesTyped /\ AlertsShaped /\ Kin /\ a \in Alerts /\ b \in Alerts
      BY KinHolds DEF DeskInv, Alerts
<1>1. Pc(b, "peg") \in {"asleep", "quoting", "stopping", "ready"}
      BY DEF PegStep, PegWakes, PegQuoted, PegStopped, PegReplaces, PegIs, Is, Pc
<1>2. PICK c : c = Cur(b, "peg")
      OBVIOUS
<1>3. ASSUME Pc(b, "peg") \in {"asleep", "quoting", "stopping"}, alert' = alert, Ebbs,
             Pc(b, "peg")' \in {"asleep", "quoting", "stopping", "ready", "done"}, Cur(b, "peg")' = c,
             \A j \in Kinds \ {"peg"} : task'[b][j] = task[b][j],
             a # b => task'[a] = task[a],
             a = b /\ Replacing(b)' => ~AtBroker(c)
      PROVE  Entry(a)'
  <2>1. CASE a = b
        BY <1>2, <1>3, <2>1, PegEntry
  <2>2. CASE a # b
        BY <1>3, <2>2, OthersEntry
  <2>3. QED BY <2>1, <2>2
<1>4. ASSUME NEW pc \in {"asleep", "stopping", "done"}, Goes(b, "peg", pc), alert' = alert, UNCHANGED orders,
             Pc(b, "peg") \in {"asleep", "quoting", "stopping"}
      PROVE  Entry(a)'
  <2>1. Ebbs
        BY <1>4 DEF orders, Ebbs, AtBroker
  <2>2. TurnsTo(b, "peg", pc) /\ (a # b => task'[a] = task[a])
        BY <1>0, <1>4, GoesTells DEF TurnsTo, Kin
  <2>3. Pc(b, "peg")' = pc /\ Cur(b, "peg")' = c /\ ~Replacing(b)' /\ \A j \in Kinds \ {"peg"} : task'[b][j] = task[b][j]
        BY <1>2, <2>2 DEF TurnsTo, Pc, Cur, Replacing, PegIs, Is
  <2>4. QED BY <1>3, <1>4, <2>1, <2>2, <2>3
<1>5. CASE PegWakes(b)
  <2>1. Ebbs /\ alert' = alert /\ UNCHANGED <<row, broker>> /\ Pc(b, "peg") = "asleep"
        BY <1>5 DEF PegWakes, orders, Ebbs, AtBroker, PegIs, Is, Pc
  <2>2. (a # b => task'[a] = task[a]) /\ (TurnsTo(b, "peg", "done") \/ ReadsRow(b))
        BY <1>0, <1>5, WakesTells
  <2>3. /\ \A j \in Kinds \ {"peg"} : task'[b][j] = task[b][j]
        /\ Pc(b, "peg")' \in {"quoting", "done"} /\ Cur(b, "peg")' = c
        BY <1>2, <2>2 DEF TurnsTo, ReadsRow, PegRow, Pc, Cur
  <2>4. a = b /\ Replacing(b)' => ~AtBroker(c)
    <3> SUFFICES ASSUME a = b, Replacing(b)'
                 PROVE  ~AtBroker(c)
        OBVIOUS
    <3>1. ReadsRow(b) /\ task'[b]["peg"].saw # "PENDING"
          BY <2>2 DEF TurnsTo, ReadsRow, Replacing, PegIs, Is
    <3>2. PegRow(b)' = c /\ row[c].status # "PENDING"
          BY <1>2, <2>3, <3>1 DEF ReadsRow, PegRow, Cur
    <3>3. ~(row'[c].status # "PENDING" /\ AtBroker(c)')
          BY <3>2 DEF Misleads, PegRow, AtBroker
    <3>4. QED BY <2>1, <3>2, <3>3 DEF AtBroker
  <2>5. QED BY <1>3, <2>1, <2>2, <2>3, <2>4
<1>6. CASE PegStopped(b)
  <2>1. Pc(b, "peg") = "stopping" /\ alert' = alert /\ UNCHANGED <<rows, broker, polling>>
        BY <1>6 DEF PegStopped, PegIs, Is, Pc
  <2>2. CASE (Goes(b, "peg", "done") \/ Goes(b, "peg", "asleep")) /\ UNCHANGED row
        BY <1>4, <2>1, <2>2 DEF orders
  <2>3. CASE ~((Goes(b, "peg", "done") \/ Goes(b, "peg", "asleep")) /\ UNCHANGED row)
    <3>1. Stamped(c) /\ Goes(b, "peg", "ready")
          BY <1>2, <1>6, <2>3 DEF PegStopped, PegRow, Cur
    <3>2. TurnsTo(b, "peg", "ready") /\ (a # b => task'[a] = task[a])
          BY <1>0, <3>1, GoesTells DEF TurnsTo, Kin
    <3>3. /\ Pc(b, "peg")' = "ready" /\ Cur(b, "peg")' = c
          /\ \A j \in Kinds \ {"peg"} : task'[b][j] = task[b][j]
          BY <1>2, <3>2 DEF TurnsTo, Pc, Cur
    <3>4. \A p \in Oids : /\ row'[p].alert = row[p].alert /\ row'[p].filled = row[p].filled
                          /\ row'[p].status = row[p].status \/ (p = c /\ row'[p].status = "CANCELLED")
          BY <1>0, <3>1, StampedRow
    <3>5. 1..rows \subseteq Oids
          BY <1>0, SizeAssumption DEF TablesTyped, Oids
    <3>6. Ebbs
          BY <2>1, <3>4, <3>5 DEF Ebbs, AtBroker
    <3>7. a = b /\ Replacing(b)' => ~AtBroker(c)
      <4> SUFFICES ASSUME a = b, Replacing(b)'
                   PROVE  ~AtBroker(c)
          OBVIOUS
      <4>1. c \in Oids
            BY <1>2, <2>1, <3>5 DEF Entry, ChasesAlone, Chasing, At
      <4>2. row'[c].status = "CANCELLED"
            BY <1>0, <3>1, <4>1 DEF Stamped, TablesTyped, RowSet
      <4>3. PegRow(b)' = c
            BY <3>3 DEF PegRow, Cur
      <4>4. ~AtBroker(c)'
            BY <4>2, <4>3 DEF Misleads, PegRow, AtBroker
      <4>5. QED BY <2>1, <4>4 DEF AtBroker
    <3>8. QED BY <1>3, <2>1, <3>2, <3>3, <3>6, <3>7
  <2>4. QED BY <2>2, <2>3
<1>7. CASE /\ Pc(b, "peg") = "ready" \/ (Pc(b, "peg") = "quoting" /\ task[b]["peg"].saw # "PENDING")
           /\ \E n : Inserts(b, "peg", n)
           /\ Marks(b, "PENDING")
  <2>1. PICK n : Inserts(b, "peg", n)
        BY <1>7
  <2>2. alert'[b] = "PENDING" /\ (a # b => alert'[a] = alert[a])
        BY <1>0, <1>7, Marked
  <2>3. CASE a = b
    <3>1. NoneLive(b)
          BY <1>7, <2>3 DEF Entry, BuysLast, Replacing, PegIs, Is, Pc
    <3>2. \A j \in Kinds \ {"peg"} : ~Acts(b, j)
          BY <1>0, <1>1, <2>3 DEF Entry, Alone, Acts, Kin
    <3>3. QED BY <1>0, <1>1, <2>1, <2>2, <2>3, <3>1, <3>2, InsertsEntry DEF Kin
  <2>4. CASE a # b
        BY <1>0, <2>1, <2>2, <2>4, InsertsQuiet DEF Kin
  <2>5. QED BY <2>3, <2>4
<1>8. CASE PegQuoted(b)
  <2>1. Pc(b, "peg") = "quoting"
        BY <1>8 DEF PegQuoted, PegIs, Is, Pc
  <2>2. QED BY <1>4, <1>7, <1>8, <2>1 DEF PegQuoted
<1>9. CASE PegReplaces(b)
      BY <1>7, <1>9 DEF PegReplaces, PegIs, Is, Pc
<1>10. QED BY <1>5, <1>6, <1>8, <1>9 DEF PegStep

LEMMA PostsEntry ==
  ASSUME DeskInv, NEW b \in Buys, PostStep(b), NEW a \in Buys, Entry(a)
  PROVE  Entry(a)'
<1>0. TasksShaped /\ TablesTyped /\ AlertsShaped /\ Kin /\ a \in Alerts /\ b \in Alerts
      BY KinHolds DEF DeskInv, Alerts
<1>1. PICK k \in Kinds : PostReturns(b, k) \/ PostFails(b, k)
      BY DEF PostStep
<1>2. Pc(b, k) = "posting"
      BY <1>1 DEF PostReturns, PostFails, Is, Pc
<1>3. CASE PostReturns(b, k)
  <2>1. Ebbs
        BY <1>3 DEF PostReturns, Ebbs, AtBroker
  <2>2. ReturnsTo(b, k) /\ (a # b => task'[a] = task[a])
        BY <1>0, <1>3, ReturnsTells
  <2>3. alert' = alert \/ Marks(b, "PENDING")
        BY <1>3 DEF PostReturns
  <2>4. alert'[b] \in {alert[b], "PENDING", "ERROR"} /\ (a # b => alert'[a] = alert[a])
        BY <1>0, <2>3, Marked
  <2>5. CASE a = b
        BY <1>2, <2>1, <2>2, <2>4, <2>5, ReturnsEntry
  <2>6. CASE a # b
        BY <2>1, <2>2, <2>4, <2>6, OthersEntry
  <2>7. QED BY <2>5, <2>6
<1>4. CASE PostFails(b, k)
  <2>1. rows' = rows /\ Goes(b, k, "done") /\ (alert' = alert \/ Marks(b, "ERROR"))
        BY <1>4 DEF PostFails
  <2>2. 1..rows \subseteq Oids
        BY <1>0, SizeAssumption DEF TablesTyped, Oids
  <2>3. \A p \in Oids : /\ row'[p].alert = row[p].alert
                        /\ broker'[p].state = broker[p].state \/ broker'[p].state = "DEAD"
        BY <1>0, <1>4, FailsTells
  <2>4. Ebbs
        BY <2>1, <2>2, <2>3 DEF Ebbs, AtBroker
  <2>5. TurnsTo(b, k, "done") /\ (a # b => task'[a] = task[a])
        BY <1>0, <2>1, GoesTells DEF TurnsTo
  <2>6. alert'[b] \in {alert[b], "ERROR"} /\ (a # b => alert'[a] = alert[a])
        BY <1>0, <2>1, Marked
  <2>7. CASE a = b
        BY <1>2, <2>4, <2>5, <2>6, <2>7, FailsEntry
  <2>8. CASE a # b
        BY <2>4, <2>5, <2>6, <2>8, OthersEntry
  <2>9. QED BY <2>7, <2>8
<1>5. QED BY <1>1, <1>3, <1>4

LEMMA OverEntry ==
  ASSUME DeskInv, NEW b \in Buys, Resubmits(b), NEW a \in Buys, Entry(a), ~Misleads(a)'
  PROVE  Entry(a)'
<1>0. TasksShaped /\ TablesTyped /\ AlertsShaped /\ Kin /\ a \in Alerts /\ b \in Alerts
      BY KinHolds DEF DeskInv, Alerts
<1>1. Ebbs /\ Marks(b, "PENDING") /\ Goes(b, "over", "checked")
      BY DEF Resubmits, orders, Ebbs, AtBroker
<1>2. TurnsTo(b, "over", "checked") /\ (a # b => task'[a] = task[a])
      BY <1>0, <1>1, GoesTells DEF TurnsTo, Kin
<1>3. alert'[b] = "PENDING" /\ (a # b => alert'[a] = alert[a])
      BY <1>0, <1>1, Marked
<1>4. CASE a = b
      BY <1>1, <1>2, <1>3, <1>4, ResubmitsEntry
<1>5. CASE a # b
      BY <1>1, <1>2, <1>3, <1>5, OthersEntry
<1>6. QED BY <1>4, <1>5

(* Nobody's task: the alert may be stamped, but is not skipped.             *)
AlertsOn == alert' = alert \/ \E x, s : s # "SKIPPED" /\ Marks(x, s)
LEMMA AsideAlerts ==
  ASSUME \/ \E o \in 1..rows : PollStep(o) \/ BrokerStep(o)
         \/ \E b \in Buys : Strikes(b)
         \/ \E s \in Sells, o \in Oids : Clears(s, o)
         \/ \E a \in Alerts : Arrives(a)
         \/ \E s \in Sells : Sells1(s) \/ Ignores(s)
         \/ \E c \in Contracts : AutoExits(c) \/ Forgets(c)
  PROVE  AlertsOn
<1>1. ASSUME NEW o \in 1..rows, PollStep(o)
      PROVE  AlertsOn
      BY <1>1 DEF PollStep, PollFilled, PollPartial, PollDead, PollGivesUp, PollErrs, GivesUp, AlertsOn
<1>2. CASE \E o \in 1..rows : BrokerStep(o)
      BY <1>2 DEF BrokerStep, Accepts, Fills, FillsPart, Buys1, Kills, AlertsOn
<1>3. CASE (\E b \in Buys : Strikes(b)) \/ (\E s \in Sells, o \in Oids : Clears(s, o))
      BY <1>3 DEF Strikes, Clears, Marks, AlertsOn
<1>4. CASE (\E a \in Alerts : Arrives(a)) \/ (\E s \in Sells : Sells1(s) \/ Ignores(s))
      BY <1>4 DEF Arrives, Sells1, Ignores, AlertsOn
<1>5. CASE \E c \in Contracts : AutoExits(c) \/ Forgets(c)
      BY <1>5 DEF AutoExits, Forgets, AlertsOn
<1>6. QED BY <1>1, <1>2, <1>3, <1>4, <1>5

LEMMA AsideEntry ==
  ASSUME DeskInv, NEW a \in Buys, Entry(a),
         \/ \E o \in 1..rows : PollStep(o) \/ BrokerStep(o)
         \/ \E b \in Buys : Strikes(b)
         \/ \E s \in Sells, o \in Oids : Clears(s, o)
         \/ \E x \in Alerts : Arrives(x)
         \/ \E s \in Sells : Sells1(s) \/ Ignores(s)
         \/ \E c \in Contracts : AutoExits(c) \/ Forgets(c)
  PROVE  Entry(a)'
<1>0. TasksShaped /\ TablesTyped /\ AlertsShaped /\ a \in Alerts
      BY DEF DeskInv, Alerts
<1>1. 1..rows \subseteq Oids
      BY <1>0, SizeAssumption DEF TablesTyped, Oids
<1>2. alert'[a] = alert[a] \/ alert'[a] # "SKIPPED"
      BY <1>0, AsideAlerts, Marked DEF AlertsOn
<1>3. ASSUME NEW o \in 1..rows, PollStep(o)
      PROVE  Entry(a)'
  <2>1. /\ UNCHANGED <<task, rows>>
        /\ \A p \in Oids \ {o} : broker'[p] = broker[p] /\ row'[p] = row[p]
        /\ row'[o].alert = row[o].alert
        /\ broker'[o].state = broker[o].state \/ broker'[o].state = "DEAD"
        BY <1>0, <1>3, PollTells
  <2>2. Ebbs
        BY <1>1, <2>1 DEF Ebbs, AtBroker
  <2>3. QED BY <1>2, <2>1, <2>2, OthersEntry
<1>4. ASSUME NEW o \in 1..rows, BrokerStep(o)
      PROVE  Entry(a)'
  <2>1. /\ UNCHANGED <<task, row, rows>>
        /\ \A p \in Oids \ {o} : broker'[p] = broker[p]
        /\ broker[o].state \in {"SENT", "LIVE"}
        BY <1>0, <1>4, BrokerTells
  <2>2. Ebbs
        BY <1>1, <2>1 DEF Ebbs, AtBroker
  <2>3. QED BY <1>2, <2>1, <2>2, OthersEntry
<1>5. CASE (\E b \in Buys : Strikes(b)) \/ (\E s \in Sells, o \in Oids : Clears(s, o))
  <2>1. UNCHANGED <<task, rows, broker>> /\ \A p \in Oids : row'[p].alert = row[p].alert
        BY <1>0, <1>5, AsideTells
  <2>2. Ebbs
        BY <1>1, <2>1 DEF Ebbs, AtBroker
  <2>3. QED BY <1>2, <2>1, <2>2, OthersEntry
<1>6. CASE \/ \E x \in Alerts : Arrives(x)
           \/ \E s \in Sells : Sells1(s) \/ Ignores(s)
           \/ \E c \in Contracts : AutoExits(c) \/ Forgets(c)
  <2>1. UNCHANGED <<task, row, rows, broker>>
        BY <1>6, RestTells
  <2>2. Ebbs
        BY <2>1 DEF Ebbs, AtBroker
  <2>3. QED BY <1>2, <2>1, <2>2, OthersEntry
<1>7. QED BY <1>3, <1>4, <1>5, <1>6

LEMMA OneStep ==
  ASSUME OneInv, [Next]_vars
  PROVE  OneInv'
<1>1. DeskInv /\ DeskInv'
      BY DeskStep DEF OneInv
<1>2. ASSUME NEW a \in Buys, a \notin misled'
      PROVE  Entry(a)'
  <2>1. CASE UNCHANGED vars
    <3>1. Entry(a) /\ task' = task /\ row' = row /\ rows' = rows /\ broker' = broker /\ alert' = alert
          BY <1>2, <2>1 DEF OneInv, vars
    <3>2. Ebbs
          BY <3>1 DEF Ebbs, AtBroker
    <3>3. QED BY <3>1, <3>2, OthersEntry
  <2>2. CASE Next
    <3>1. Step /\ ~Misleads(a)' /\ Entry(a)
          BY <1>2, <2>2 DEF Next, OneInv
    <3>2. CASE \E b \in Buys : JobStep(b)
          BY <1>1, <3>1, <3>2, JobEntry
    <3>3. CASE \E b \in Buys : PostStep(b)
          BY <1>1, <3>1, <3>3, PostsEntry
    <3>4. CASE \E b \in Buys : CoolStep(b)
          BY <1>1, <3>1, <3>4, CoolsEntry
    <3>5. CASE \E b \in Buys : PegStep(b)
          BY <1>1, <3>1, <3>5, PegsEntry
    <3>6. CASE \E b \in Buys : Resubmits(b)
          BY <1>1, <3>1, <3>6, OverEntry
    <3>7. CASE \/ \E o \in 1..rows : PollStep(o) \/ BrokerStep(o)
               \/ \E b \in Buys : Strikes(b)
               \/ \E s \in Sells, o \in Oids : Clears(s, o)
               \/ \E x \in Alerts : Arrives(x)
               \/ \E s \in Sells : Sells1(s) \/ Ignores(s)
               \/ \E c \in Contracts : AutoExits(c) \/ Forgets(c)
          BY <1>1, <3>1, <3>7, AsideEntry
    <3>8. QED BY <3>1, <3>2, <3>3, <3>4, <3>5, <3>6, <3>7 DEF Step
  <2>3. QED BY <2>1, <2>2
<1>3. QED BY <1>1, <1>2 DEF OneInv

LEMMA OneStart ==
  ASSUME Init
  PROVE  OneInv
<1>1. /\ 1..rows = {}
      /\ \A b \in Buys, k \in Kinds : Pc(b, k) = "idle"
      /\ \A b \in Buys : alert[b] = "NEW"
      BY DEF Init, NoTask, Pc, Alerts
<1>2. ASSUME NEW b \in Buys
      PROVE  Entry(b)
  <2>1. \A k \in Kinds : Pc(b, k) = "idle" /\ ~Acts(b, k)
        BY <1>1 DEF Acts
  <2>2. Kin
        BY KinHolds
  <2>3. JobFirst(b) /\ Alone(b) /\ ActsOpen(b) /\ OneLive(b)
        BY <1>1, <2>1, <2>2 DEF JobFirst, Alone, ActsOpen, OneLive, NoneOf, Kin
  <2>4. PostsAlone(b)
        BY <2>1 DEF PostsAlone
  <2>5. ChasesAlone(b) /\ BuysLast(b)
        BY <1>1, <2>1, <2>2 DEF ChasesAlone, Chasing, BuysLast, NoneLive, Kin
  <2>6. QED BY <2>3, <2>4, <2>5 DEF Entry
<1>3. QED BY <1>2, DeskStart DEF OneInv

(* However many tasks work for an alert (the worker's job, the cooldown     *)
(* that retries what slipped, the re-peg watcher that replaces what does    *)
(* not fill, the operator's override), at most one order of it is at work   *)
(* or filled: each of _buy, _retry_buy_on_slippage_cooldown, _repeg_buy and *)
(* execute_override places where no order of the alert is live any more;    *)
(* but for an alert whose rows once told a task so while the broker had     *)
(* one (Misleads).                                                          *)
THEOREM OneAtATime == Spec => []OneEntryPerAlert
<1>1. Init => OneInv
      BY OneStart
<1>2. OneInv /\ [Next]_vars => OneInv'
      BY OneStep
<1>3. OneInv => OneEntryPerAlert
  <2> SUFFICES ASSUME OneInv, NEW b \in Buys \ misled
               PROVE  Cardinality(Effective(b)) <= 1
      BY DEF OneEntryPerAlert
  <2>1. \A o, p \in Effective(b) : o = p
    <3>1. OneLive(b)
          BY DEF OneInv, Entry
    <3>2. QED BY <3>1 DEF OneLive, Effective, OrdersOf
  <2>2. CASE Effective(b) = {}
        BY <2>2, FS_EmptySet
  <2>3. ASSUME NEW o \in Effective(b)
        PROVE  Cardinality(Effective(b)) <= 1
    <3>1. Effective(b) = {o}
          BY <2>1, <2>3
    <3>2. Cardinality({o}) = 1
          BY FS_Singleton
    <3>3. QED BY <3>1, <3>2
  <2>4. QED BY <2>2, <2>3
<1>4. QED BY <1>1, <1>2, <1>3, PTL DEF Spec

-----------------------------------------------------------------------------
(* The books *)

(* The contracts bought and not booked, of orders r and b of which there    *)
(* are n: Unbooked, of one state or the next.                               *)
Tickets(c, r, b, n) ==
  UNION {{o} \X (r[o].filled + 1 .. b[o].filled) : o \in {p \in 1..n : ContractOf[r[p].alert] = c}}
TicketsBut(o, c, r, b, n) == {u \in Tickets(c, r, b, n) : u[1] # o}

Balanced(c) ==
  /\ IsFiniteSet(Unbooked(c))
  /\ c \notin reopened => held[c] = pos[c].left + Cardinality(Unbooked(c))
  /\ pos[c].status # "OPEN" => pos[c].left = 0

(* No order is booked beyond what was bought, nor has bought beyond what    *)
(* was asked for.                                                           *)
OrdersBooked ==
  /\ \A o \in 1..rows : /\ row[o].alert \in Buys
                        /\ row[o].filled <= broker[o].filled
                        /\ broker[o].filled <= Qty
  /\ \A o \in Oids \ (1..rows) : broker[o].filled = 0

PosSet == [status : {"NONE", "OPEN", "CLOSED"}, left : Int, owner : Analysts \cup {NoAlert}]
BooksInv ==
  /\ TablesTyped
  /\ world \in Worlds
  /\ pos \in [Contracts -> PosSet]
  /\ held \in [Contracts -> Int]
  /\ OrdersBooked
  /\ \A c \in Contracts : Balanced(c)

LEMMA Shelf ==
  ASSUME NEW o, NEW m \in Nat, NEW n \in Nat, m <= n
  PROVE  /\ IsFiniteSet({o} \X (m + 1 .. n))
         /\ Cardinality({o} \X (m + 1 .. n)) = n - m
<1>1. IsFiniteSet({o}) /\ Cardinality({o}) = 1
      BY FS_Singleton
<1>2. /\ IsFiniteSet(m + 1 .. n)
      /\ Cardinality(m + 1 .. n) = IF m + 1 > n THEN 0 ELSE n - (m + 1) + 1
      BY FS_Interval
<1>3. Cardinality(m + 1 .. n) = n - m
      BY <1>2
<1>4. /\ IsFiniteSet({o} \X (m + 1 .. n))
      /\ Cardinality({o} \X (m + 1 .. n)) = Cardinality({o}) * Cardinality(m + 1 .. n)
      BY <1>1, <1>2, FS_Product
<1>5. QED BY <1>1, <1>3, <1>4

(* The tickets of one order, and the others.                                *)
LEMMA OneShelf ==
  ASSUME NEW c, NEW r, NEW b, NEW n \in Nat, NEW o \in 1..n, ContractOf[r[o].alert] = c,
         r[o].filled \in Nat, b[o].filled \in Nat, r[o].filled <= b[o].filled
  PROVE  /\ IsFiniteSet(TicketsBut(o, c, r, b, n)) <=> IsFiniteSet(Tickets(c, r, b, n))
         /\ IsFiniteSet(Tickets(c, r, b, n)) =>
              /\ Cardinality(Tickets(c, r, b, n)) = Cardinality(TicketsBut(o, c, r, b, n)) + (b[o].filled - r[o].filled)
              /\ Cardinality(TicketsBut(o, c, r, b, n)) \in Nat
<1> DEFINE T == Tickets(c, r, b, n)
           E == TicketsBut(o, c, r, b, n)
           C == {o} \X (r[o].filled + 1 .. b[o].filled)
<1>1. IsFiniteSet(C) /\ Cardinality(C) = b[o].filled - r[o].filled
      BY Shelf
<1>2. T = E \cup C
  <2>1. ASSUME NEW u \in T PROVE u \in E \cup C
    <3>1. PICK p \in 1..n : u \in {p} \X (r[p].filled + 1 .. b[p].filled)
          BY <2>1 DEF Tickets
    <3>2. QED BY <2>1, <3>1 DEF TicketsBut
  <2>2. C \subseteq T
        BY DEF Tickets
  <2>3. QED BY <2>1, <2>2 DEF TicketsBut
<1>3. E \cap C = {} /\ E \in SUBSET T
      BY DEF TicketsBut
<1> HIDE DEF T, E, C
<1>4. IsFiniteSet(T) => IsFiniteSet(E)
      BY <1>3, FS_Subset
<1>5. ASSUME IsFiniteSet(E)
      PROVE  /\ IsFiniteSet(T)
             /\ Cardinality(T) = Cardinality(E) + Cardinality(C)
             /\ Cardinality(E) \in Nat
  <2>1. /\ IsFiniteSet(E \cup C)
        /\ Cardinality(E \cup C) = Cardinality(E) + Cardinality(C) - Cardinality(E \cap C)
        BY <1>1, <1>5, FS_Union
  <2>2. Cardinality(E \cap C) = 0
        BY <1>3, FS_EmptySet
  <2>3. Cardinality(E) \in Nat /\ Cardinality(C) \in Nat
        BY <1>1, <1>5, FS_CardinalityType
  <2>4. QED BY <1>2, <2>1, <2>2, <2>3
<1>6. QED BY <1>1, <1>4, <1>5 DEF T, E

LEMMA TicketsOf == \A c : Unbooked(c) = Tickets(c, row, broker, rows)
BY DEF Unbooked, Tickets, RowsOf

LEMMA TicketsNext == \A c : Unbooked(c)' = Tickets(c, row', broker', rows')
BY DEF Unbooked, Tickets, RowsOf

(* Nothing bought, nothing booked.                                          *)
LEMMA SameTickets ==
  ASSUME NEW c, rows' = rows,
         \A p \in 1..rows : /\ row'[p].alert = row[p].alert
                            /\ row'[p].filled = row[p].filled
                            /\ broker'[p].filled = broker[p].filled
  PROVE  Unbooked(c)' = Unbooked(c)
<1>1. {p \in 1..rows : ContractOf[row'[p].alert] = c} = {p \in 1..rows : ContractOf[row[p].alert] = c}
      OBVIOUS
<1>2. \A p \in 1..rows : {p} \X (row'[p].filled + 1 .. broker'[p].filled)
                           = {p} \X (row[p].filled + 1 .. broker[p].filled)
      OBVIOUS
<1>3. Tickets(c, row', broker', rows) = Tickets(c, row, broker, rows)
      BY <1>1, <1>2 DEF Tickets
<1>4. QED BY <1>3, TicketsOf, TicketsNext

(* Order o buys or is booked.                                               *)
LEMMA TicketsChange ==
  ASSUME TablesTyped, TablesTyped', NEW o \in 1..rows, rows' = rows,
         row[o].filled <= broker[o].filled, row'[o].filled <= broker'[o].filled,
         \A p \in 1..rows : /\ row'[p].alert = row[p].alert
                            /\ p # o => row'[p] = row[p] /\ broker'[p] = broker[p],
         NEW k, k = ContractOf[row[o].alert], IsFiniteSet(Unbooked(k))
  PROVE  /\ IsFiniteSet(Unbooked(k)') /\ Cardinality(Unbooked(k)') \in Nat
         /\ Cardinality(Unbooked(k)') - (broker'[o].filled - row'[o].filled)
              = Cardinality(Unbooked(k)) - (broker[o].filled - row[o].filled)
         /\ \A c : c # k => Unbooked(c)' = Unbooked(c)
<1>1. /\ row[o].filled \in Nat /\ broker[o].filled \in Nat
      /\ row'[o].filled \in Nat /\ broker'[o].filled \in Nat /\ rows \in Nat
  <2>1. o \in Oids
        BY SizeAssumption DEF TablesTyped, Oids
  <2>2. QED BY <2>1 DEF TablesTyped, RowSet, OrderSet
<1>2. ContractOf[row'[o].alert] = k
      OBVIOUS
<1>3. TicketsBut(o, k, row', broker', rows) = TicketsBut(o, k, row, broker, rows)
  <2>1. \A p \in 1..rows : p # o => {p} \X (row'[p].filled + 1 .. broker'[p].filled)
                                      = {p} \X (row[p].filled + 1 .. broker[p].filled)
        OBVIOUS
  <2>2. \A u : u \in TicketsBut(o, k, row, broker, rows)
                 <=> \E p \in 1..rows : /\ p # o /\ ContractOf[row[p].alert] = k
                                        /\ u \in {p} \X (row[p].filled + 1 .. broker[p].filled)
        BY DEF TicketsBut, Tickets
  <2>3. \A u : u \in TicketsBut(o, k, row', broker', rows)
                 <=> \E p \in 1..rows : /\ p # o /\ ContractOf[row'[p].alert] = k
                                        /\ u \in {p} \X (row'[p].filled + 1 .. broker'[p].filled)
        BY DEF TicketsBut, Tickets
  <2>4. \A u : u \in TicketsBut(o, k, row', broker', rows) <=> u \in TicketsBut(o, k, row, broker, rows)
        BY <2>1, <2>2, <2>3
  <2>5. QED BY <2>4 DEF TicketsBut
<1>4. IsFiniteSet(Tickets(k, row, broker, rows))
      BY TicketsOf
<1>5. /\ IsFiniteSet(TicketsBut(o, k, row, broker, rows))
      /\ Cardinality(Tickets(k, row, broker, rows))
           = Cardinality(TicketsBut(o, k, row, broker, rows)) + (broker[o].filled - row[o].filled)
      /\ Cardinality(TicketsBut(o, k, row, broker, rows)) \in Nat
      BY <1>1, <1>4, OneShelf
<1>6. /\ IsFiniteSet(Tickets(k, row', broker', rows))
      /\ Cardinality(Tickets(k, row', broker', rows))
           = Cardinality(TicketsBut(o, k, row', broker', rows)) + (broker'[o].filled - row'[o].filled)
      BY <1>1, <1>2, <1>3, <1>5, OneShelf
<1>7. Tickets(k, row, broker, rows) = Unbooked(k) /\ Tickets(k, row', broker', rows) = Unbooked(k)'
      BY TicketsOf, TicketsNext
<1>8. ASSUME NEW c, c # k PROVE Unbooked(c)' = Unbooked(c)
  <2>1. \A p \in 1..rows : ContractOf[row[p].alert] = c =>
           {p} \X (row'[p].filled + 1 .. broker'[p].filled) = {p} \X (row[p].filled + 1 .. broker[p].filled)
        BY <1>8
  <2>2. {p \in 1..rows : ContractOf[row'[p].alert] = c} = {p \in 1..rows : ContractOf[row[p].alert] = c}
        OBVIOUS
  <2>3. Tickets(c, row', broker', rows) = Tickets(c, row, broker, rows)
        BY <2>1, <2>2 DEF Tickets
  <2>4. QED BY <2>3, TicketsOf, TicketsNext
<1>9. /\ IsFiniteSet(Unbooked(k)') /\ Cardinality(Unbooked(k)') \in Nat
      /\ Cardinality(Unbooked(k)') - (broker'[o].filled - row'[o].filled)
           = Cardinality(Unbooked(k)) - (broker[o].filled - row[o].filled)
      BY <1>1, <1>3, <1>5, <1>6, <1>7
<1>10. QED BY <1>8, <1>9

LEMMA StillBooks ==
  ASSUME BooksInv, TablesTyped', world' = world, UNCHANGED books, rows' = rows,
         \A o \in Oids : /\ row'[o].alert = row[o].alert
                         /\ row'[o].filled = row[o].filled
                         /\ broker'[o].filled = broker[o].filled
  PROVE  BooksInv'
<1>1. 1..rows \subseteq Oids
      BY SizeAssumption DEF BooksInv, TablesTyped, Oids
<1>2. \A c : Unbooked(c)' = Unbooked(c)
      BY <1>1, SameTickets
<1>3. ASSUME NEW c \in Contracts PROVE Balanced(c)'
      BY <1>2 DEF BooksInv, Balanced, books
<1>4. OrdersBooked'
      BY <1>1 DEF BooksInv, OrdersBooked
<1>5. QED BY <1>3, <1>4 DEF BooksInv, books

LEMMA InsertBooks ==
  ASSUME BooksInv, TablesTyped', world' = world, UNCHANGED books,
         NEW b \in Buys, NEW k \in Kinds, NEW n, Inserts(b, k, n)
  PROVE  BooksInv'
<1> DEFINE i == rows + 1
<1>1. /\ rows \in Nat /\ rows' = i /\ i \in Oids /\ i \notin 1..rows
      /\ 1..rows \subseteq Oids /\ 1..i = (1..rows) \cup {i}
      BY SizeAssumption DEF Inserts, BooksInv, TablesTyped, Oids
<1>2. /\ row' = [row EXCEPT ![i] = [alert |-> b, status |-> "PENDING", filled |-> 0]]
      /\ broker' = [broker EXCEPT ![i].state = "SENT"]
      BY DEF Inserts
<1> HIDE DEF i
<1>3. /\ row'[i].alert = b /\ row'[i].filled = 0 /\ broker'[i].filled = broker[i].filled
      /\ \A o \in Oids : o # i => row'[o] = row[o] /\ broker'[o] = broker[o]
      BY <1>1, <1>2 DEF BooksInv, TablesTyped, OrderSet
<1>4. broker[i].filled = 0
      BY <1>1 DEF BooksInv, OrdersBooked
<1>5. ASSUME NEW c PROVE Unbooked(c)' = Unbooked(c)
  <2>1. {i} \X (row'[i].filled + 1 .. broker'[i].filled) = {}
    <3>1. row'[i].filled + 1 .. broker'[i].filled = {}
          BY <1>3, <1>4
    <3>2. QED BY <3>1
  <2>2. \A o \in 1..rows : /\ ContractOf[row'[o].alert] = ContractOf[row[o].alert]
                           /\ {o} \X (row'[o].filled + 1 .. broker'[o].filled)
                                = {o} \X (row[o].filled + 1 .. broker[o].filled)
        BY <1>1, <1>3
  <2>3. \A u : u \in Tickets(c, row, broker, rows)
                 <=> \E o \in 1..rows : /\ ContractOf[row[o].alert] = c
                                        /\ u \in {o} \X (row[o].filled + 1 .. broker[o].filled)
        BY DEF Tickets
  <2>4. \A u : u \in Tickets(c, row', broker', i)
                 <=> \E o \in 1..i : /\ ContractOf[row'[o].alert] = c
                                     /\ u \in {o} \X (row'[o].filled + 1 .. broker'[o].filled)
        BY DEF Tickets
  <2>5. \A u : u \in Tickets(c, row', broker', i) <=> u \in Tickets(c, row, broker, rows)
        BY <1>1, <2>1, <2>2, <2>3, <2>4
  <2>6. Tickets(c, row', broker', i) = Tickets(c, row, broker, rows)
        BY <2>5 DEF Tickets
  <2>7. QED BY <1>1, <2>6, TicketsOf, TicketsNext
<1>6. ASSUME NEW c \in Contracts PROVE Balanced(c)'
      BY <1>5 DEF BooksInv, Balanced, books
<1>7. OrdersBooked'
  <2>1. Qty \in Nat
        BY SizeAssumption
  <2>2. QED BY <1>1, <1>3, <1>4, <2>1 DEF BooksInv, OrdersBooked
<1>8. QED BY <1>6, <1>7 DEF BooksInv, books

(* The broker buys for order o, up to n contracts.                          *)
LEMMA BuyBooks ==
  ASSUME BooksInv, TablesTyped', world' = world, NEW o \in 1..rows, NEW n \in Nat,
         broker[o].filled <= n, n <= Qty, Buys1(o, n)
  PROVE  BooksInv'
<1>0. PICK k : k = ContractOf[row[o].alert]
      OBVIOUS
<1>1. /\ o \in Oids /\ 1..rows \subseteq Oids /\ rows' = rows /\ row' = row /\ k \in Contracts
      /\ row[o].filled \in Nat /\ broker[o].filled \in Nat /\ row[o].filled <= broker[o].filled
  <2>1. o \in Oids /\ 1..rows \subseteq Oids
        BY SizeAssumption DEF BooksInv, TablesTyped, Oids
  <2>2. k \in Contracts
        BY <1>0, AlertAssumption DEF BooksInv, OrdersBooked, Alerts
  <2>3. QED BY <2>1, <2>2 DEF Buys1, BooksInv, OrdersBooked, TablesTyped, RowSet, OrderSet
<1>2. /\ broker'[o].filled = n
      /\ \A p \in Oids : p # o => broker'[p] = broker[p]
      BY <1>1 DEF Buys1, BooksInv, TablesTyped
<1>3. /\ held' = [held EXCEPT ![k] = held[k] + n - broker[o].filled]
      /\ pos' = pos /\ reopened' = reopened
      BY <1>0, <1>1 DEF Buys1
<1>4. IsFiniteSet(Unbooked(k)) /\ (k \notin reopened => held[k] = pos[k].left + Cardinality(Unbooked(k)))
      BY <1>1 DEF BooksInv, Balanced
<1>5. /\ IsFiniteSet(Unbooked(k)') /\ Cardinality(Unbooked(k)') \in Nat
      /\ Cardinality(Unbooked(k)') - (broker'[o].filled - row'[o].filled)
           = Cardinality(Unbooked(k)) - (broker[o].filled - row[o].filled)
      /\ \A c : c # k => Unbooked(c)' = Unbooked(c)
  <2>1. row'[o].filled <= broker'[o].filled
        BY <1>1, <1>2
  <2>2. \A p \in 1..rows : /\ row'[p].alert = row[p].alert
                           /\ p # o => row'[p] = row[p] /\ broker'[p] = broker[p]
        BY <1>1, <1>2
  <2>3. TablesTyped
        BY DEF BooksInv
  <2>4. QED BY <1>0, <1>1, <1>4, <2>1, <2>2, <2>3, TicketsChange
<1>6. held[k] \in Int /\ pos[k].left \in Int /\ Cardinality(Unbooked(k)) \in Nat
  <2>1. held[k] \in Int /\ pos[k].left \in Int
        BY <1>1 DEF BooksInv, PosSet
  <2>2. QED BY <1>4, <2>1, FS_CardinalityType
<1>7. held' \in [Contracts -> Int] /\ held'[k] = held[k] + n - broker[o].filled
  <2>1. held \in [Contracts -> Int]
        BY DEF BooksInv
  <2>2. held[k] + n - broker[o].filled \in Int
        BY <1>1, <1>6
  <2>3. QED BY <1>1, <1>3, <2>1, <2>2
<1>8. k \notin reopened => held'[k] = pos[k].left + Cardinality(Unbooked(k)')
  <2>1. held'[k] = held[k] + n - broker[o].filled
        BY <1>7
  <2>2. Cardinality(Unbooked(k)') = Cardinality(Unbooked(k)) + n - broker[o].filled
        BY <1>1, <1>2, <1>5, <1>6
  <2>3. QED BY <1>1, <1>4, <1>6, <2>1, <2>2
<1>9. ASSUME NEW c \in Contracts PROVE Balanced(c)'
  <2>1. CASE c = k
        BY <1>1, <1>3, <1>5, <1>8, <2>1 DEF BooksInv, Balanced
  <2>2. CASE c # k
    <3>1. held'[c] = held[c] /\ Unbooked(c)' = Unbooked(c)
          BY <1>3, <1>5, <2>2 DEF BooksInv
    <3>2. QED BY <1>3, <3>1 DEF BooksInv, Balanced
  <2>3. QED BY <2>1, <2>2
<1>10. OrdersBooked'
       BY <1>1, <1>2 DEF BooksInv, OrdersBooked
<1>11. QED BY <1>3, <1>7, <1>9, <1>10 DEF BooksInv

(* A poll books what is new of order o; a closed row it reopens with more   *)
(* is given up.                                                             *)
LEMMA PollBooks ==
  ASSUME BooksInv, TablesTyped', world' = world, NEW o \in 1..rows, NEW st,
         UNCHANGED <<rows, broker>>,
         row' = [row EXCEPT ![o] = [@ EXCEPT !.status = st, !.filled = broker[o].filled]],
         NEW all \in Int, all >= broker[o].filled - row[o].filled,
         Books(o, broker[o].filled - row[o].filled, all)
  PROVE  BooksInv'
<1> DEFINE new == broker[o].filled - row[o].filled
           b == row[o].alert
<1>0. PICK k : k = ContractOf[row[o].alert]
      OBVIOUS
<1>1. /\ o \in Oids /\ 1..rows \subseteq Oids /\ k \in Contracts
      /\ row[o].filled \in Nat /\ broker[o].filled \in Nat /\ row[o].filled <= broker[o].filled
      /\ AuthorOf[b] \in Analysts
  <2>1. o \in Oids /\ 1..rows \subseteq Oids
        BY SizeAssumption DEF BooksInv, TablesTyped, Oids
  <2>2. b \in Alerts
        BY DEF BooksInv, OrdersBooked, Alerts
  <2>3. k \in Contracts
        BY <1>0, <2>2, AlertAssumption
  <2>4. AuthorOf[b] \in Analysts
        BY <2>2, WorldAssumption DEF BooksInv, AuthorOf
  <2>5. QED BY <2>1, <2>3, <2>4 DEF BooksInv, OrdersBooked, TablesTyped, RowSet, OrderSet
<1>2. /\ row'[o].filled = broker[o].filled /\ row'[o].alert = row[o].alert
      /\ \A p \in Oids : p # o => row'[p] = row[p]
      BY <1>1 DEF BooksInv, TablesTyped, RowSet
<1>3. /\ IsFiniteSet(Unbooked(k)) /\ (k \notin reopened => held[k] = pos[k].left + Cardinality(Unbooked(k)))
      /\ pos[k].status # "OPEN" => pos[k].left = 0
      BY <1>1 DEF BooksInv, Balanced
<1>4. /\ IsFiniteSet(Unbooked(k)') /\ Cardinality(Unbooked(k)') \in Nat
      /\ Cardinality(Unbooked(k)') - (broker'[o].filled - row'[o].filled)
           = Cardinality(Unbooked(k)) - (broker[o].filled - row[o].filled)
      /\ \A c : c # k => Unbooked(c)' = Unbooked(c)
  <2>1. row'[o].filled <= broker'[o].filled
        BY <1>1, <1>2
  <2>2. \A p \in 1..rows : /\ row'[p].alert = row[p].alert
                           /\ p # o => row'[p] = row[p] /\ broker'[p] = broker[p]
        BY <1>1, <1>2
  <2>3. TablesTyped
        BY DEF BooksInv
  <2>4. QED BY <1>0, <1>1, <1>3, <2>1, <2>2, <2>3, TicketsChange
<1>5. new \in Nat /\ Cardinality(Unbooked(k)') = Cardinality(Unbooked(k)) - new
  <2>1. Cardinality(Unbooked(k)) \in Nat
        BY <1>3, FS_CardinalityType
  <2>2. QED BY <1>1, <1>2, <1>4, <2>1
<1> HIDE DEF new
<1>6. /\ held' = held
      /\ reopened' = IF pos[k].status # "OPEN" /\ all > new THEN reopened \cup {k} ELSE reopened
      /\ pos' = [pos EXCEPT ![k] =
           IF pos[k].status = "OPEN"
             THEN [status |-> "OPEN", left |-> pos[k].left + new,
                   owner |-> IF pos[k].owner = NoAlert THEN AuthorOf[b] ELSE pos[k].owner]
             ELSE [status |-> "OPEN", left |-> all, owner |-> AuthorOf[b]]]
  <2>1. pos \in [Contracts -> PosSet]
        BY DEF BooksInv
  <2>2. QED BY <1>0, <1>1, <2>1 DEF Books, new
<1>7. pos[k] \in PosSet /\ pos[k].left \in Int /\ pos \in [Contracts -> PosSet]
      BY <1>1 DEF BooksInv, PosSet
<1>8. /\ pos'[k].status = "OPEN" /\ pos'[k] \in PosSet
      /\ pos[k].status = "OPEN" => pos'[k].left = pos[k].left + new
      /\ pos[k].status # "OPEN" => pos'[k].left = all
      /\ \A c \in Contracts : c # k => pos'[c] = pos[c]
      BY <1>1, <1>5, <1>6, <1>7 DEF PosSet
<1>9. k \notin reopened' => held'[k] = pos'[k].left + Cardinality(Unbooked(k)')
  <2> SUFFICES ASSUME k \notin reopened'
               PROVE  held[k] = pos'[k].left + Cardinality(Unbooked(k)')
      BY <1>6
  <2>1. k \notin reopened /\ (pos[k].status # "OPEN" => all <= new)
        BY <1>5, <1>6
  <2>2. pos'[k].left = pos[k].left + new
    <3>1. all >= new
          BY DEF new
    <3>2. QED BY <1>3, <1>5, <1>8, <2>1, <3>1
  <2>3. held[k] = pos[k].left + Cardinality(Unbooked(k)) /\ Cardinality(Unbooked(k)) \in Nat
        BY <1>3, <2>1, FS_CardinalityType
  <2>4. QED BY <1>5, <1>7, <2>2, <2>3
<1>10. ASSUME NEW c \in Contracts PROVE Balanced(c)'
  <2>1. CASE c = k
        BY <1>4, <1>8, <1>9, <2>1 DEF Balanced
  <2>2. CASE c # k
    <3>1. /\ pos'[c] = pos[c] /\ held'[c] = held[c] /\ Unbooked(c)' = Unbooked(c)
          /\ c \notin reopened' => c \notin reopened
          BY <1>4, <1>6, <1>8, <2>2
    <3>2. QED BY <3>1 DEF BooksInv, Balanced
  <2>3. QED BY <2>1, <2>2
<1>11. OrdersBooked'
       BY <1>1, <1>2 DEF BooksInv, OrdersBooked
<1>12. pos' \in [Contracts -> PosSet]
       BY <1>1, <1>6, <1>7, <1>8
<1>13. QED BY <1>6, <1>10, <1>11, <1>12 DEF BooksInv

LEMMA ExitBooks ==
  ASSUME BooksInv, world' = world, NEW k \in Contracts, Exits(k), UNCHANGED <<row, rows, broker>>
  PROVE  BooksInv'
<1>1. /\ held' = [held EXCEPT ![k] = held[k] - pos[k].left]
      /\ pos' = [pos EXCEPT ![k] = [pos[k] EXCEPT !.status = "CLOSED", !.left = 0]]
      /\ reopened' = reopened
      BY DEF Exits, BooksInv
<1>2. pos[k] \in PosSet /\ pos[k].left \in Int /\ held[k] \in Int
      BY DEF BooksInv, PosSet
<1>3. /\ held'[k] = held[k] - pos[k].left /\ pos'[k].left = 0 /\ pos'[k] \in PosSet
      /\ \A c \in Contracts : c # k => held'[c] = held[c] /\ pos'[c] = pos[c]
      /\ held' \in [Contracts -> Int]
  <2>1. held \in [Contracts -> Int] /\ pos \in [Contracts -> PosSet]
        BY DEF BooksInv
  <2>2. held[k] - pos[k].left \in Int
        BY <1>2
  <2>3. held'[k] = held[k] - pos[k].left /\ held' \in [Contracts -> Int]
        BY <1>1, <2>1, <2>2
  <2>a. ASSUME NEW p \in PosSet
        PROVE  [p EXCEPT !.status = "CLOSED", !.left = 0]
                 = [status |-> "CLOSED", left |-> 0, owner |-> p.owner]
    <3>1. PICK q \in PosSet : q = [p EXCEPT !.status = "CLOSED"]
          BY DEF PosSet
    <3>2. q.owner = p.owner /\ q.status = "CLOSED"
          BY ONLY <2>a, <3>1 DEF PosSet
    <3>3. [q EXCEPT !.left = 0] = [status |-> "CLOSED", left |-> 0, owner |-> p.owner]
          BY ONLY <3>2, q \in PosSet DEF PosSet
    <3>4. QED BY <3>1, <3>3
  <2>b. pos'[k] = [status |-> "CLOSED", left |-> 0, owner |-> pos[k].owner]
    <3>1. pos'[k] = [pos[k] EXCEPT !.status = "CLOSED", !.left = 0]
          BY <1>1, <2>1
    <3>2. QED BY ONLY <1>2, <2>a, <3>1
  <2>4. pos'[k] \in PosSet
    <3>1. pos[k].owner \in Analysts \cup {NoAlert}
          BY <1>2 DEF PosSet
    <3>2. QED BY ONLY <2>b, <3>1 DEF PosSet
  <2>6. pos'[k].left = 0
        BY ONLY <2>b
  <2>7. \A c \in Contracts : c # k => held'[c] = held[c] /\ pos'[c] = pos[c]
        BY <1>1, <2>1
  <2>8. QED BY <2>3, <2>4, <2>6, <2>7
<1>4. pos' \in [Contracts -> PosSet]
      BY <1>1, <1>3 DEF BooksInv
<1>5. ASSUME NEW c \in Contracts PROVE Balanced(c)'
  <2>1. Unbooked(c)' = Unbooked(c)
        BY DEF Unbooked, RowsOf
  <2>2. CASE c = k
    <3>1. IsFiniteSet(Unbooked(k)) /\ (k \notin reopened => held[k] = pos[k].left + Cardinality(Unbooked(k)))
          BY DEF BooksInv, Balanced
    <3>2. Cardinality(Unbooked(k)) \in Nat
          BY <3>1, FS_CardinalityType
    <3>3. k \notin reopened => held'[k] = 0 + Cardinality(Unbooked(k))
          BY <1>2, <1>3, <3>1, <3>2
    <3>4. QED BY <1>1, <1>3, <2>1, <2>2, <3>1, <3>3 DEF Balanced
  <2>3. CASE c # k
        BY <1>1, <1>3, <2>1, <2>3 DEF BooksInv, Balanced
  <2>4. QED BY <2>2, <2>3
<1>6. OrdersBooked' /\ TablesTyped'
      BY DEF BooksInv, OrdersBooked, TablesTyped
<1>7. QED BY <1>3, <1>4, <1>5, <1>6 DEF BooksInv

(* What a step does to the books.                                           *)
Untouched ==
  /\ UNCHANGED books
  /\ \/ Inserted
     \/ /\ rows' = rows
        /\ \A o \in Oids : /\ row'[o].alert = row[o].alert
                           /\ row'[o].filled = row[o].filled
                           /\ broker'[o].filled = broker[o].filled

LEMMA TasksUntouched ==
  ASSUME TablesTyped, NEW b \in Buys,
         JobStep(b) \/ PostStep(b) \/ CoolStep(b) \/ PegStep(b) \/ Strikes(b) \/ Resubmits(b)
  PROVE  Untouched
<1>1. "job" \in Kinds /\ "over" \in Kinds /\ "cool" \in Kinds /\ "peg" \in Kinds
      BY DEF Kinds
<1>2. CASE JobStep(b)
      BY <1>1, <1>2 DEF JobStep, Checks, Prices, RanAway, Places, orders, Untouched, Inserted
<1>3. CASE PostStep(b)
  <2>1. PICK k \in Kinds : PostReturns(b, k) \/ PostFails(b, k)
        BY <1>3 DEF PostStep
  <2>2. CASE PostReturns(b, k)
        BY <2>2 DEF PostReturns, Untouched
  <2>3. CASE PostFails(b, k)
    <3>1. /\ UNCHANGED books /\ rows' = rows
          /\ \A o \in Oids : /\ row'[o].alert = row[o].alert
                            /\ row'[o].filled = row[o].filled
                            /\ broker'[o].filled = broker[o].filled
          BY <2>3, FailsTells DEF PostFails
    <3>2. QED BY <3>1 DEF Untouched
  <2>4. QED BY <2>1, <2>2, <2>3
<1>4. CASE CoolStep(b)
      BY <1>1, <1>4 DEF CoolStep, CoolWakes, Cooled, orders, Untouched, Inserted
<1>5. CASE PegStep(b)
  <2>1. CASE PegStopped(b)
        BY <2>1, StampedRow DEF PegStopped, Untouched
  <2>2. CASE PegWakes(b) \/ PegQuoted(b) \/ PegReplaces(b)
        BY <1>1, <2>2 DEF PegWakes, PegQuoted, PegReplaces, orders, Untouched, Inserted
  <2>3. QED BY <1>5, <2>1, <2>2 DEF PegStep
<1>6. CASE Strikes(b)
      BY <1>6, StampedRow DEF Strikes, books, Untouched
<1>7. CASE Resubmits(b)
      BY <1>7 DEF Resubmits, orders, Untouched
<1>8. QED BY <1>2, <1>3, <1>4, <1>5, <1>6, <1>7

LEMMA UntouchedBooks ==
  ASSUME BooksInv, TablesTyped', world' = world, Untouched
  PROVE  BooksInv'
<1>1. CASE Inserted
      BY <1>1, InsertBooks DEF Inserted, Untouched
<1>2. CASE ~Inserted
      BY <1>2, StillBooks DEF Untouched
<1>3. QED BY <1>1, <1>2

LEMMA OrderBooks ==
  ASSUME BooksInv, TablesTyped', world' = world, NEW o \in 1..rows, PollStep(o) \/ BrokerStep(o)
  PROVE  BooksInv'
<1>0. /\ o \in Oids /\ Qty \in Nat
      /\ row[o].filled \in Nat /\ broker[o].filled \in Nat
      /\ row[o].filled <= broker[o].filled /\ broker[o].filled <= Qty
  <2>1. o \in Oids
        BY SizeAssumption DEF BooksInv, TablesTyped, Oids
  <2>2. QED BY <2>1, SizeAssumption DEF BooksInv, OrdersBooked, TablesTyped, RowSet, OrderSet
<1>1. CASE PollFilled(o)
  <2>1. broker[o].filled \in Int /\ broker[o].filled >= broker[o].filled - row[o].filled
        BY <1>0
  <2>2. QED BY <1>1, <2>1, PollBooks DEF PollFilled
<1>2. CASE PollPartial(o)
  <2>1. /\ broker[o].filled - row[o].filled \in Int
        /\ broker[o].filled - row[o].filled >= broker[o].filled - row[o].filled
        BY <1>0
  <2>2. QED BY <1>2, <2>1, PollBooks DEF PollPartial
<1>3. CASE PollDead(o) \/ PollGivesUp(o) \/ PollErrs(o) \/ Accepts(o) \/ Kills(o)
  <2>1. TablesTyped
        BY DEF BooksInv
  <2>2. CASE PollDead(o)
        BY <2>1, <2>2, UntouchedBooks DEF PollDead, Untouched, TablesTyped, RowSet
  <2>3. CASE PollGivesUp(o) \/ PollErrs(o)
    <3>1. /\ UNCHANGED books /\ rows' = rows
          /\ row' = row \/ \E st : row' = [row EXCEPT ![o].status = st]
          /\ broker' = broker \/ broker' = [broker EXCEPT ![o].state = "DEAD"]
          BY <2>3 DEF PollGivesUp, PollErrs, GivesUp
    <3>2. \A p \in Oids : row'[p].alert = row[p].alert /\ row'[p].filled = row[p].filled
          BY <1>0, <2>1, <3>1 DEF TablesTyped, RowSet
    <3>3. \A p \in Oids : broker'[p].filled = broker[p].filled
          BY <1>0, <2>1, <3>1 DEF TablesTyped, OrderSet
    <3>4. QED BY <3>1, <3>2, <3>3, UntouchedBooks DEF Untouched
  <2>4. CASE Accepts(o) \/ Kills(o)
        BY <2>1, <2>4, UntouchedBooks DEF Accepts, Kills, Untouched, TablesTyped, OrderSet
  <2>5. QED BY <1>3, <2>2, <2>3, <2>4
<1>4. CASE Fills(o)
      BY <1>0, <1>4, BuyBooks DEF Fills
<1>5. CASE FillsPart(o)
  <2>1. broker[o].filled + 1 \in Nat /\ broker[o].filled <= broker[o].filled + 1 /\ broker[o].filled + 1 <= Qty
        BY <1>0, <1>5 DEF FillsPart
  <2>2. QED BY <1>5, <2>1, BuyBooks DEF FillsPart
<1>6. QED BY <1>1, <1>2, <1>3, <1>4, <1>5 DEF PollStep, BrokerStep

LEMMA BooksStep ==
  ASSUME BooksInv, [Next]_vars
  PROVE  BooksInv'
<1>0. TablesTyped /\ TablesTyped' /\ world' = world
  <2>1. TablesTyped
        BY DEF BooksInv
  <2>2. QED BY <2>1, StepMoves, MovesSettle DEF Next, vars
<1>1. CASE \E a \in Alerts : Arrives(a)
      BY <1>0, <1>1, UntouchedBooks DEF Arrives, orders, Untouched
<1>2. CASE \E b \in Buys : JobStep(b) \/ PostStep(b) \/ CoolStep(b) \/ PegStep(b) \/ Strikes(b) \/ Resubmits(b)
      BY <1>0, <1>2, TasksUntouched, UntouchedBooks
<1>3. ASSUME NEW s \in Sells, Sells1(s) PROVE BooksInv'
  <2>1. CASE ContractOf[s] \in Open /\ Exits(ContractOf[s])
    <3>1. ContractOf[s] \in Contracts
          BY <2>1 DEF Open
    <3>2. QED BY <1>0, <1>3, <2>1, <3>1, ExitBooks DEF Sells1, orders
  <2>2. CASE UNCHANGED books
        BY <1>0, <1>3, <2>2, UntouchedBooks DEF Sells1, orders, Untouched
  <2>3. QED BY <1>3, <2>1, <2>2 DEF Sells1
<1>4. CASE \E s \in Sells : Ignores(s)
      BY <1>0, <1>4, UntouchedBooks DEF Ignores, orders, Untouched
<1>5. CASE \E s \in Sells, o \in Oids : Clears(s, o)
      BY <1>0, <1>5, StampedRow, UntouchedBooks DEF Clears, Untouched
<1>6. CASE \E o \in 1..rows : PollStep(o) \/ BrokerStep(o)
      BY <1>0, <1>6, OrderBooks
<1>7. CASE \E c \in Contracts : AutoExits(c)
      BY <1>0, <1>7, ExitBooks DEF AutoExits, orders
<1>8. CASE (\E c \in Contracts : Forgets(c)) \/ UNCHANGED vars
      BY <1>0, <1>8, UntouchedBooks DEF Forgets, vars, books, orders, Untouched
<1>9. QED BY <1>1, <1>2, <1>3, <1>4, <1>5, <1>6, <1>7, <1>8 DEF Next, Step

LEMMA BooksStart == Init => BooksInv
<1> SUFFICES ASSUME Init PROVE BooksInv
    OBVIOUS
<1>1. TablesTyped
      BY ClearStart DEF ClearInv
<1>2. /\ rows = 0 /\ 1..rows = {}
      /\ \A o \in Oids : broker[o].filled = 0
      BY DEF Init, NoOrder
<1>3. OrdersBooked
      BY <1>2 DEF OrdersBooked
<1>4. ASSUME NEW c \in Contracts PROVE Balanced(c)
  <2>1. Unbooked(c) = {}
        BY <1>2 DEF Unbooked, RowsOf
  <2>2. IsFiniteSet(Unbooked(c)) /\ Cardinality(Unbooked(c)) = 0
        BY <2>1, FS_EmptySet
  <2>3. QED BY <2>2 DEF Init, Balanced
<1>5. QED BY <1>1, <1>3, <1>4 DEF Init, BooksInv, PosSet

(* _finalize_buy_fill and _finalize_partial_buy_fill book each contract     *)
(* once: but for a row that a half-booked order reopened whole, the account *)
(* holds what the row says and what was bought and is recorded by no        *)
(* order's row, yet or (an order nobody follows any more) for good; for any *)
(* alerts, tasks, faults, exits and doings of the operator.  That nothing   *)
(* is lost is not said here but by NoneUnwatched, and only so far.          *)
THEOREM EntriesBookedOnce == Spec => []BooksBalance
<1>1. BooksInv => BooksBalance
      BY DEF BooksInv, Balanced, BooksBalance
<1>2. BooksInv /\ [Next]_vars => BooksInv'
      BY BooksStep
<1>3. QED BY <1>1, <1>2, BooksStart, PTL DEF Spec

==============================================================================
