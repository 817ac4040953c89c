---------------------------- MODULE WorkerProofs ----------------------------
(***************************************************************************)
(* Proofs about the worker of OrderQueue and about the checks of DailyHalt *)
(* that it runs.                                                           *)
(*                                                                         *)
(* The queue: types, one execution at a time, and the order of the lanes.  *)
(* The tickets are what makes the order inductive: no two jobs share one   *)
(* and the next number is above all of them.                               *)
(*                                                                         *)
(* The halt: that the global and its row agree holds for any number of     *)
(* checks at a time; that a check sees no halt but today's needs them one  *)
(* after another, as the worker runs them.                                 *)
(***************************************************************************)
EXTENDS OrderQueue, DailyHalt, TLAPS

(* The queue *)

(* No two jobs were queued under one number. *)
Distinct == \A j, k \in Jobs : ticket[j] = ticket[k] /\ ticket[j] # NoTicket => j = k

QueueInv == QueueTypeOK /\ Distinct /\ LaneOrder

(* Every variable keeps its type, and no two jobs share a ticket. *)
LEMMA StepKeepsTypes == QueueTypeOK /\ Distinct /\ [QueueNext]_queueVars => QueueTypeOK' /\ Distinct'
<1> SUFFICES ASSUME QueueTypeOK, Distinct, [QueueNext]_queueVars
             PROVE  QueueTypeOK' /\ Distinct'
    OBVIOUS
<1> USE JobAssumption
<1>1. CASE Starts
      BY <1>1 DEF Starts, QueueTypeOK, Distinct
<1>2. ASSUME NEW j \in Jobs, Dispatches(j)
      PROVE  QueueTypeOK' /\ Distinct'
      BY <1>2 DEF Dispatches, QueueTypeOK, Distinct, NoTicket
<1>3. ASSUME NEW j \in Jobs, Takes(j) \/ Returns(j) \/ Wedges(j) \/ Abandons(j)
      PROVE  QueueTypeOK' /\ Distinct'
      BY <1>3 DEF Takes, Returns, Wedges, Abandons, QueueTypeOK, Distinct
<1>4. CASE UNCHANGED queueVars
      BY <1>4 DEF queueVars, QueueTypeOK, Distinct
<1>5. QED BY <1>1, <1>2, <1>3, <1>4 DEF QueueNext

(* The lanes stay in order whatever the step. *)
LEMMA StepKeepsLanes == QueueInv /\ [QueueNext]_queueVars => LaneOrder'
<1> SUFFICES ASSUME QueueTypeOK, Distinct, LaneOrder, [QueueNext]_queueVars
             PROVE  LaneOrder'
    BY DEF QueueInv
<1> USE JobAssumption
<1>1. CASE Starts \/ UNCHANGED queueVars
      BY <1>1 DEF Starts, queueVars, LaneOrder, SameLane
<1>2. ASSUME NEW j \in Jobs, Dispatches(j)
      PROVE  LaneOrder'
      BY <1>2 DEF Dispatches, QueueTypeOK, LaneOrder, SameLane, NoTicket
<1>3. ASSUME NEW j \in Jobs, Takes(j)
      PROVE  LaneOrder'
  <2>1. ASSUME NEW k \in Jobs, state[k] = "queued", k # j, SameLane(k, j)
        PROVE  ~(ticket[k] < ticket[j])
        BY <1>3, <2>1 DEF Takes, Queued, Before, Earlier, SameLane, QueueTypeOK, NoTicket
  <2>2. QED BY <1>3, <2>1 DEF Takes, QueueTypeOK, LaneOrder, SameLane
<1>4. ASSUME NEW j \in Jobs, Returns(j) \/ Wedges(j) \/ Abandons(j)
      PROVE  LaneOrder'
      BY <1>4 DEF Returns, Wedges, Abandons, QueueTypeOK, LaneOrder, SameLane
<1>5. QED BY <1>1, <1>2, <1>3, <1>4 DEF QueueNext

(* QueueTypeOK, tickets and lanes together are inductive. *)
LEMMA QueueInductive == QueueSpec => []QueueInv
<1>1. QueueInit => QueueInv
  <2>1. QueueInit => QueueTypeOK
    <3> SUFFICES ASSUME QueueInit PROVE QueueTypeOK
        OBVIOUS
    <3>1. ticket \in [Jobs -> {NoTicket} \cup (0..seq - 1)]
          BY ZenonT(20) DEF QueueInit
    <3>2. QED BY <3>1 DEF QueueInit, QueueTypeOK
  <2>2. QueueInit => Distinct /\ LaneOrder BY DEF QueueInit, Distinct, LaneOrder
  <2>3. QED BY <2>1, <2>2 DEF QueueInv
<1>2. QueueInv /\ [QueueNext]_queueVars => QueueInv'
      BY StepKeepsTypes, StepKeepsLanes DEF QueueInv
<1>3. QED BY <1>1, <1>2, PTL DEF QueueSpec

(* In one lane nothing overtakes: a job is served only after all that were *)
(* dispatched to its lane before it, however the dispatches, returns,      *)
(* timeouts and fallbacks interleave and for any number of jobs.           *)
THEOREM LanesInOrder == QueueSpec => []LaneOrder
<1>1. QueueInv => LaneOrder BY DEF QueueInv
<1>2. QED BY <1>1, QueueInductive, PTL

(* Every variable keeps its type. *)
THEOREM QueueTypes == QueueSpec => []QueueTypeOK
<1>1. QueueInv => QueueTypeOK BY DEF QueueInv
<1>2. QED BY <1>1, QueueInductive, PTL

(* The worker has one execution in hand at most, a wedged one included. *)
THEOREM WorkerIsSerial == QueueSpec => []OneAtATime
<1>1. QueueInit => OneAtATime
      BY DEF QueueInit, OneAtATime, AtWork
<1>2. QueueTypeOK /\ OneAtATime /\ [QueueNext]_queueVars => OneAtATime'
  <2> SUFFICES ASSUME QueueTypeOK, OneAtATime, [QueueNext]_queueVars
               PROVE  OneAtATime'
      OBVIOUS
  <2>1. CASE Starts \/ UNCHANGED queueVars
        BY <2>1 DEF Starts, queueVars, OneAtATime, AtWork
  <2>2. ASSUME NEW j \in Jobs, Dispatches(j)
        PROVE  OneAtATime'
        BY <2>2 DEF Dispatches, QueueTypeOK, OneAtATime, AtWork
  <2>3. ASSUME NEW j \in Jobs, Takes(j)
        PROVE  OneAtATime'
        BY <2>3 DEF Takes, QueueTypeOK, OneAtATime, AtWork
  <2>4. ASSUME NEW j \in Jobs, Returns(j) \/ Wedges(j) \/ Abandons(j)
        PROVE  OneAtATime'
        BY <2>4 DEF Returns, Wedges, Abandons, QueueTypeOK, OneAtATime, AtWork
  <2>5. QED BY <2>1, <2>2, <2>3, <2>4 DEF QueueNext
<1>3. QED BY <1>1, <1>2, QueueTypes, PTL DEF QueueSpec

(* The worker begins no entry while an exit is queued. *)
THEOREM NoEntryBeforeExits == QueueSpec => ExitsFirst
<1>1. QueueTypeOK /\ [QueueNext]_queueVars =>
        [\A j \in Jobs : (state[j] = "queued" /\ state'[j] = "running" /\ j \notin ExitJobs)
                           => Queued \cap ExitJobs = {}]_queueVars
  <2> SUFFICES ASSUME QueueTypeOK, QueueNext, NEW j \in Jobs,
                      state[j] = "queued", state'[j] = "running", j \notin ExitJobs
               PROVE  Queued \cap ExitJobs = {}
      OBVIOUS
  <2>1. Takes(j)
        BY DEF QueueNext, Starts, Dispatches, Takes, Returns, Wedges, Abandons, QueueTypeOK
  <2>2. QED BY <2>1 DEF Takes, Before, SameLane, Queued
<1>2. QED BY <1>1, QueueTypes, PTL DEF QueueSpec, ExitsFirst

-----------------------------------------------------------------------------
(* The halt *)

(* The one worker. *)
Serial == \A c, d \in Checks : c = d

(* A process that has not read the row knows of no halt, and checks nothing. *)
Cold == ~loaded => halt = NoDate /\ \A c \in Checks : at[c].phase \in Ends

HaltInv == TypeOK /\ Cold /\ SavedAgrees

(* Past the reset a check meets its own day's halt or none; past the second *)
(* look, none.                                                              *)
Fresh == \A c \in Checks : /\ Is(c, "dated") => halt \in {NoDate, at[c].today}
                           /\ Is(c, "room") => halt = NoDate

(* Time does not run backwards. *)
LEMMA DayGrows == \A t \in Nat : NewYork(t) \in Nat /\ NewYork(t) =< NewYork(t + 1)
BY DEF NewYork

(* A check's record. *)
Check(day) == [phase : Under \cup Ends, side : {"BUY", "SELL"}, today : 0..day]

(* TypeOK in two halves. *)
Scalars ==
  /\ clock \in 0..LastTurn
  /\ booked \in Losses /\ marked \in Losses /\ limit \in Limits
  /\ manual \in BOOLEAN /\ enabled \in BOOLEAN /\ loaded \in BOOLEAN /\ reliable \in BOOLEAN
  /\ halt \in {NoDate} \cup 0..Today
  /\ saved \in {NoDate} \cup 0..Today

LEMMA Halves == TypeOK <=> Scalars /\ at \in [Checks -> Check(Today)]
BY DEF TypeOK, Scalars, Check

(* One check's record is replaced, or its phase. *)
LEMMA Replaced ==
  ASSUME NEW day, at \in [Checks -> Check(day)], NEW c \in Checks, NEW r \in Check(day),
         at' = [at EXCEPT ![c] = r]
  PROVE  at' \in [Checks -> Check(day)]
OBVIOUS

LEMMA Gone ==
  ASSUME NEW day, at \in [Checks -> Check(day)], NEW c \in Checks,
         NEW p \in Under \cup Ends, Goes(c, p)
  PROVE  at' \in [Checks -> Check(day)]
BY DEF Goes, Check

(* What one check may move of the database, and what it leaves. *)
LEMMA PersistsEither ==
  ASSUME NEW d, Persists(d)
  PROVE  saved' \in {d, saved} /\ (reliable => saved' = d)
BY DEF Persists, Works

LEMMA HaltStarts == Init => HaltInv
<1> SUFFICES ASSUME Init PROVE HaltInv
    OBVIOUS
<1>0. Today = 0
      BY DEF Init, Today, NewYork
<1>1. at \in [Checks -> Check(Today)]
  <2>1. [phase |-> "passed", side |-> "SELL", today |-> 0] \in Check(Today)
        BY <1>0 DEF Check, Ends
  <2>2. QED BY <2>1, Zenon DEF Init
<1>2. TypeOK
  <2>1. Scalars
    <3>1. 0 \in 0..LastTurn
          BY HaltAssumption
    <3>2. QED BY <1>0, <3>1, HaltAssumption DEF Init, Scalars, NoDate
  <2>2. QED BY <1>1, <2>1, Halves
<1>3. QED BY <1>2 DEF Init, HaltInv, Cold, SavedAgrees, Ends

(* The types of what a check moves. *)
LEMMA CheckKeepsInv ==
  ASSUME HaltInv, NEW c \in Checks, CheckStep(c)
  PROVE  HaltInv'
<1> USE HaltAssumption DEF HaltInv
<1>0. Today \in Nat
      BY DayGrows DEF TypeOK, Today
<1>1. ASSUME NEW side \in {"BUY", "SELL"}, Asks(c, side)
      PROVE  HaltInv'
  <2>1. halt' \in {halt, saved} /\ saved' \in {saved, NoDate} /\ loaded' = TRUE
        BY <1>1, PersistsEither DEF Asks, Loads, process, TypeOK
  <2>2. reliable => saved' = halt'
        BY <1>1, PersistsEither DEF Asks, Loads, process, TypeOK, Cold, SavedAgrees
  <2>3. TypeOK'
    <3>1. Today' = Today /\ Scalars'
          BY <1>0, <1>1, <2>1, Halves DEF Asks, Scalars, world, Today
    <3>2. [phase |-> "asked", side |-> side, today |-> 0] \in Check(Today)
          BY <1>0 DEF Check, Under
    <3>3. at' \in [Checks -> Check(Today)]
          BY <1>1, <3>2, Halves, Replaced DEF Asks
    <3>4. QED BY <3>1, <3>3, Halves DEF TypeOK, Scalars, Check
  <2>4. QED BY <1>1, <2>1, <2>2, <2>3 DEF Cold, SavedAgrees, Asks
<1>2. CASE Screens(c)
  <2>1. PICK p \in Under \cup Ends : Goes(c, p)
        BY <1>2 DEF Screens, Under, Ends
  <2>2. TypeOK'
        BY <1>2, <2>1 DEF Screens, Goes, TypeOK, world, process, Today
  <2>3. loaded
        BY <1>2 DEF Screens, Is, Cold, Ends
  <2>4. QED BY <1>2, <2>2, <2>3 DEF Screens, Cold, SavedAgrees, process, TypeOK
<1>3. CASE NewDay(c)
  <2>1. loaded /\ loaded' = loaded
        BY <1>3 DEF NewDay, Is, Cold, Ends
  <2>2. halt' \in {halt, NoDate} /\ saved' \in {saved, NoDate}
        BY <1>3, PersistsEither DEF NewDay
  <2>3. reliable => saved' = halt'
        BY <1>3, <2>1, PersistsEither DEF NewDay, SavedAgrees
  <2>4. TypeOK'
    <3>1. Today' = Today /\ Scalars'
          BY <1>0, <1>3, <2>1, <2>2, Halves DEF NewDay, Scalars, world, Today
    <3>2. [phase |-> "dated", side |-> at[c].side, today |-> Today] \in Check(Today)
          BY <1>0, Halves DEF Check, Under
    <3>3. at' \in [Checks -> Check(Today)]
          BY <1>3, <3>2, Halves, Replaced DEF NewDay
    <3>4. QED BY <3>1, <3>3, Halves DEF TypeOK, Scalars, Check
  <2>5. QED BY <1>3, <2>1, <2>3, <2>4 DEF NewDay, Cold, SavedAgrees, TypeOK
<1>4. CASE Rechecks(c)
  <2>1. loaded /\ loaded' = loaded
        BY <1>4 DEF Rechecks, Is, Cold, Ends
  <2>2. halt' \in {halt, NoDate} /\ saved' \in {saved, NoDate}
        BY <1>4, PersistsEither DEF Rechecks
  <2>3. reliable => saved' = halt'
        BY <1>4, <2>1, PersistsEither DEF Rechecks, SavedAgrees
  <2>4. PICK p \in Under \cup Ends : Goes(c, p)
        BY <1>4 DEF Rechecks, GoesOn, Under, Ends
  <2>5. TypeOK'
        BY <1>4, <2>1, <2>2, <2>4 DEF Rechecks, Goes, TypeOK, world, Today
  <2>6. QED BY <1>4, <2>1, <2>3, <2>5 DEF Rechecks, Cold, SavedAgrees, TypeOK
<1>5. CASE Caps(c)
  <2>1. loaded /\ loaded' = loaded
        BY <1>5 DEF Trips, Caps, Is, Cold, Ends
  <2>2. halt' \in {halt, at[c].today} /\ saved' \in {saved, at[c].today}
        BY <1>5, PersistsEither DEF Trips, Caps
  <2>3. reliable => saved' = halt'
        BY <1>5, <2>1, PersistsEither DEF Trips, Caps, SavedAgrees
  <2>4. PICK p \in Under \cup Ends : Goes(c, p)
        BY <1>5 DEF Trips, Caps, Under, Ends
  <2>5. TypeOK'
    <3>1. at[c].today \in 0..Today
          BY Halves DEF Check
    <3>2. Today' = Today /\ Scalars'
          BY <1>5, <2>1, <2>2, <3>1, Halves DEF Trips, Caps, Scalars, world, Today
    <3>3. at' \in [Checks -> Check(Today)]
          BY <2>4, Halves, Gone
    <3>4. QED BY <3>2, <3>3, Halves DEF TypeOK, Scalars, Check
  <2>6. reliable' = reliable
        BY <1>5 DEF Trips, Caps
  <2>7. QED BY <2>1, <2>3, <2>5, <2>6 DEF Cold, SavedAgrees
<1>6. QED BY <1>1, <1>2, <1>3, <1>4, <1>5 DEF CheckStep

(* What goes on around the checks. *)
LEMMA WorldKeepsInv ==
  ASSUME HaltInv, Restarts \/ Turns \/ Moves \/ Configures \/ UNCHANGED vars
  PROVE  HaltInv'
<1> USE HaltAssumption DEF HaltInv
<1>1. CASE Restarts
  <2>1. at' \in [Checks -> Check(Today)]
        BY <1>1, Halves DEF Restarts, Check, Ends
  <2>2. Today' = Today /\ Scalars'
        BY <1>1, Halves DEF Restarts, Scalars, world, Today
  <2>3. TypeOK'
        BY <2>1, <2>2, Halves DEF TypeOK, Scalars, Check
  <2>4. \A c \in Checks : at'[c].phase \in Ends
        BY <1>1, Halves DEF Restarts, Check, Ends
  <2>5. QED BY <1>1, <2>3, <2>4 DEF Restarts, Cold, SavedAgrees
<1>2. CASE Turns
  <2>1. Today \in Nat /\ Today' \in Nat /\ Today =< Today'
        BY <1>2, DayGrows DEF Turns, TypeOK, Today
  <2>2. /\ clock' \in 0..LastTurn
        /\ booked' \in Losses
        BY <1>2 DEF Turns, TypeOK
  <2>3. at' \in [Checks -> [phase : Under \cup Ends, side : {"BUY", "SELL"}, today : 0..Today']]
        BY <1>2, <2>1 DEF Turns, TypeOK
  <2>4. QED BY <1>2, <2>1, <2>2, <2>3 DEF Turns, TypeOK, process, Cold, SavedAgrees
<1>3. CASE Moves \/ Configures
      BY <1>3 DEF Moves, Configures, TypeOK, process, Today, Cold, SavedAgrees
<1>4. CASE UNCHANGED vars
      BY <1>4 DEF vars, world, process, TypeOK, Today, Cold, SavedAgrees
<1>5. QED BY <1>1, <1>2, <1>3, <1>4

(* Types, memory and the row, for any number of checks at a time. *)
LEMMA HaltInductive == Spec => []HaltInv
<1>1. HaltInv /\ [Next]_vars => HaltInv'
      BY CheckKeepsInv, WorldKeepsInv DEF Next
<1>2. QED BY <1>1, HaltStarts, PTL DEF Spec

(* Every variable keeps its type; the days in memory, in the row and in a  *)
(* check have begun in New York.                                            *)
THEOREM HaltTypes == Spec => []TypeOK
<1>1. HaltInv => TypeOK BY DEF HaltInv
<1>2. QED BY <1>1, HaltInductive, PTL

(* _trading_halted and its row in system_state agree through restarts,      *)
(* midnights and concurrent checks, unless a database call has failed.      *)
THEOREM HaltIsSaved == Spec => []SavedAgrees
<1>1. HaltInv => SavedAgrees BY DEF HaltInv
<1>2. QED BY <1>1, HaltInductive, PTL

-----------------------------------------------------------------------------
(* One check at a time *)

(* A serial check finds the halt as the last one, or the load, left it. *)
LEMMA FreshStep ==
  ASSUME Serial, HaltInv, Fresh, [Next]_vars
  PROVE  Fresh'
<1>1. ASSUME NEW c \in Checks, CheckStep(c)
      PROVE  Fresh'
  <2>0. \A d \in Checks : d = c
        BY <1>1 DEF Serial
  <2>1. ASSUME NEW side \in {"BUY", "SELL"}, Asks(c, side)
        PROVE  Fresh'
        BY <2>0, <2>1 DEF Asks, Fresh, Is, HaltInv, TypeOK
  <2>2. CASE Screens(c)
        BY <2>0, <2>2 DEF Screens, Goes, Fresh, Is, HaltInv, TypeOK
  <2>3. CASE NewDay(c)
        BY <2>0, <2>3 DEF NewDay, Fresh, Is, HaltInv, TypeOK
  <2>4. CASE Rechecks(c)
        BY <2>0, <2>4 DEF Rechecks, GoesOn, Goes, Fresh, Is, HaltInv, TypeOK
  <2>5. CASE Caps(c)
        BY <2>0, <2>5 DEF Trips, Caps, Goes, Fresh, Is, HaltInv, TypeOK
  <2>6. QED BY <1>1, <2>1, <2>2, <2>3, <2>4, <2>5 DEF CheckStep
<1>2. CASE Restarts
      BY <1>2 DEF Restarts, Fresh, Is, HaltInv, TypeOK, Ends
<1>3. CASE Turns \/ Moves \/ Configures \/ UNCHANGED vars
      BY <1>3 DEF Turns, Moves, Configures, vars, process, Fresh, Is
<1>4. QED BY <1>1, <1>2, <1>3 DEF Next

LEMMA FreshInductive ==
  ASSUME Serial
  PROVE  Spec => [](HaltInv /\ Fresh)
<1>1. Init => Fresh BY DEF Init, Fresh, Is
<1>2. HaltInv /\ Fresh /\ [Next]_vars => Fresh'
      BY FreshStep
<1>3. QED BY <1>1, <1>2, HaltInductive, PTL DEF Spec

(* No entry passes under a halt set for its day, in this process or in one  *)
(* before it.                                                               *)
THEOREM EntriesStayHalted ==
  ASSUME Serial
  PROVE  Spec => NoBuyWhileHalted
<1>1. HaltInv /\ Fresh /\ [Next]_vars =>
        [\A c \in Checks : reliable /\ Is(c, "room") /\ at'[c].phase = "passed"
                             => saved # at[c].today]_vars
  <2> SUFFICES ASSUME HaltInv, Fresh, NEW c \in Checks, reliable, Is(c, "room")
               PROVE  saved # at[c].today
      OBVIOUS
  <2>1. loaded /\ halt = NoDate
        BY DEF HaltInv, Cold, Fresh, Is, Ends
  <2>2. QED BY <2>1 DEF HaltInv, SavedAgrees, NoDate, TypeOK
<1>2. QED BY <1>1, FreshInductive, PTL DEF Spec, NoBuyWhileHalted

(* Only today's halt refuses, even when reads and writes of the row fail. *)
THEOREM HaltsEndOvernight ==
  ASSUME Serial
  PROVE  Spec => NoStaleHalt
<1>1. HaltInv /\ Fresh /\ [Next]_vars =>
        [\A c \in Checks : Is(c, "dated") /\ at'[c].phase = "halted"
                             => halt = at[c].today]_vars
  <2> SUFFICES ASSUME HaltInv, Fresh, Next, NEW c \in Checks, Is(c, "dated"),
                      at'[c].phase = "halted"
               PROVE  halt = at[c].today
      OBVIOUS
  <2>1. halt # NoDate
    <3>1. ASSUME NEW d \in Checks, CheckStep(d), d # c PROVE FALSE
          BY <3>1 DEF Serial
    <3>2. ASSUME CheckStep(c) PROVE Rechecks(c)
          BY <3>2 DEF CheckStep, Asks, Screens, NewDay, Caps, Is, Ends
    <3>3. CASE Rechecks(c)
      <4>1. ASSUME NEW p, Goes(c, p) PROVE at'[c].phase = p
            BY <4>1, Halves DEF Goes, HaltInv, Check
      <4>2. ~GoesOn(c)
            BY <4>1 DEF GoesOn
      <4>3. QED BY <3>3, <4>2 DEF Rechecks
    <3>4. CASE Restarts
          BY <3>4 DEF Restarts, Is, Ends
    <3>5. CASE Turns \/ Moves \/ Configures
          BY <3>5 DEF Turns, Moves, Configures, Is
    <3>6. QED BY <3>1, <3>2, <3>3, <3>4, <3>5 DEF Next
  <2>2. QED BY <2>1 DEF Fresh
<1>2. QED BY <1>1, FreshInductive, PTL DEF Spec, NoStaleHalt

-----------------------------------------------------------------------------
(* The halt implements one that is never forgotten *)

LEMMA StepKeepsHalt ==
  ASSUME Serial, HaltInv, Fresh, [Next]_vars
  PROVE  [Halt!Next]_(Halt!vars)
<1> DEFINE Stopped == reliable /\ saved = Today
<1> USE DEF Halt!Next, Halt!vars, Halt!Trips, Halt!Lifts, Halt!Moves, Halt!Dawns
<1>0. Today \in Nat /\ Past \in BOOLEAN /\ Past' \in BOOLEAN
      BY DayGrows DEF HaltInv, TypeOK, Today, Past
<1>1. ASSUME NEW c \in Checks, NEW side \in {"BUY", "SELL"}, Asks(c, side)
      PROVE  [Halt!Next]_(Halt!vars)
  <2>1. Past' = Past /\ Today' = Today /\ reliable' = reliable
        BY <1>1 DEF Asks, world, Past, Today
  <2>2. reliable => (saved' = Today <=> saved = Today)
        BY <1>0, <1>1, PersistsEither DEF Asks, Loads, process, NoDate
  <2>3. QED BY <2>1, <2>2
<1>2. ASSUME NEW c \in Checks, Screens(c)
      PROVE  [Halt!Next]_(Halt!vars)
      BY <1>2 DEF Screens, world, Past, Today
<1>3. ASSUME NEW c \in Checks, NewDay(c)
      PROVE  [Halt!Next]_(Halt!vars)
  <2>1. Past' = Past /\ Today' = Today /\ reliable' = reliable
        BY <1>3 DEF NewDay, world, Past, Today
  <2>2. loaded
        BY <1>3 DEF NewDay, HaltInv, Cold, Is, Ends
  <2>3. reliable => (saved' = Today <=> saved = Today)
        BY <1>0, <1>3, <2>2, PersistsEither DEF NewDay, HaltInv, SavedAgrees, NoDate
  <2>4. QED BY <2>1, <2>3
<1>4. ASSUME NEW c \in Checks, Rechecks(c)
      PROVE  [Halt!Next]_(Halt!vars)
  <2>1. Past' = Past /\ Today' = Today /\ reliable' = reliable
        BY <1>4 DEF Rechecks, world, Past, Today
  <2>2. CASE saved' = saved
        BY <2>1, <2>2
  <2>3. CASE saved' # saved
    <3>1. ~Past /\ saved' = NoDate
          BY <1>4, <2>3, PersistsEither DEF Rechecks
    <3>2. QED BY <1>0, <2>1, <3>1 DEF NoDate
  <2>4. QED BY <2>2, <2>3
<1>5. ASSUME NEW c \in Checks, Caps(c)
      PROVE  [Halt!Next]_(Halt!vars)
  <2>1. Past' = Past /\ Today' = Today /\ reliable' = reliable
        BY <1>5 DEF Trips, Caps, world, Past, Today
  <2>2. reliable => saved = NoDate
        BY <1>5 DEF Trips, Caps, HaltInv, Cold, SavedAgrees, Fresh, Is, Ends
  <2>3. saved' = saved \/ (Past /\ (reliable => saved' = at[c].today))
        BY <1>5, PersistsEither DEF Trips, Caps
  <2>4. QED BY <1>0, <2>1, <2>2, <2>3 DEF NoDate
<1>6. CASE Restarts \/ UNCHANGED vars
      BY <1>6 DEF Restarts, vars, world, Past, Today
<1>7. CASE Turns
  <2>1. Today' \in Nat /\ Today =< Today' /\ reliable' = reliable /\ saved' = saved
        BY <1>7, DayGrows DEF Turns, HaltInv, TypeOK, Today
  <2>2. saved \in {NoDate} \cup 0..Today
        BY DEF HaltInv, TypeOK
  <2>3. CASE Today' = Today
        BY <1>0, <2>1, <2>3
  <2>4. CASE Today' # Today
        BY <1>0, <2>1, <2>2, <2>4 DEF NoDate
  <2>5. QED BY <2>3, <2>4
<1>8. CASE Moves \/ Configures
  <2>1. Today' = Today /\ saved' = saved /\ reliable' = reliable
        BY <1>8 DEF Moves, Configures, Today
  <2>2. QED BY <1>0, <2>1
<1>9. QED BY <1>1, <1>2, <1>3, <1>4, <1>5, <1>6, <1>7, <1>8 DEF Next, CheckStep

(* With a database that works, restarts and midnights included, the halt is *)
(* one that stops entries until a loss within the limit is seen or the day  *)
(* is over.                                                                 *)
THEOREM HaltKept ==
  ASSUME Serial
  PROVE  Spec => KeepsHalt
<1>1. Init => Halt!Init
  <2> SUFFICES ASSUME Init PROVE Halt!Init
      OBVIOUS
  <2>1. Today = 0
        BY DEF Init, Today, NewYork
  <2>2. Past \in BOOLEAN
        BY HaltAssumption DEF Init, Past
  <2>3. QED BY <2>1, <2>2 DEF Init, NoDate, Halt!Init
<1>2. HaltInv /\ Fresh /\ [Next]_vars => [Halt!Next]_(Halt!vars)
      BY StepKeepsHalt
<1>3. QED BY <1>1, <1>2, FreshInductive, PTL DEF Spec, KeepsHalt, Halt!Spec
=============================================================================
