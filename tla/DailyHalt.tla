----------------------------- MODULE DailyHalt -----------------------------
(***************************************************************************)
(* app/risk/guardrails.py: the daily loss limit and the halt it sets, seen *)
(* by the checks of alerts.  A check runs in a thread of its own while the *)
(* event loop goes on booking fills and marks, so each of its readings is  *)
(* a step.  The halt is kept in a module global and, across restarts, in a *)
(* row of system_state.                                                    *)
(*                                                                         *)
(* The other guardrails are one unexplained refusal.                       *)
(***************************************************************************)
EXTENDS Integers

CONSTANTS
  Checks,      \* the threads that may run a check: one when a worker serialises
  Losses,      \* what a part of the daily loss may be; a gain is negative
  Limits,      \* max_daily_loss, as the operator may set it
  LastTurn     \* bound: half days until the model ends

ASSUME HaltAssumption == /\ Losses \subseteq Int /\ 0 \in Losses
                         /\ Limits \subseteq Nat \ {0} /\ Limits # {}
                         /\ LastTurn \in Nat

VARIABLES
  clock,     \* counts midnights of New York and of UTC, in turn
  booked,    \* the loss realised since UTC midnight
  marked,    \* the loss on open positions at their current marks
  limit,     \* max_daily_loss
  manual,    \* manual_halt
  enabled,   \* guardrails_enabled
  halt,      \* _halt_date, and _trading_halted when there is one
  loaded,    \* _halt_loaded
  saved,     \* the row of system_state
  reliable,  \* does the database never fail?
  at         \* where each check is, or how it ended

process == <<halt, loaded>>
world == <<booked, marked, limit, manual, enabled>>
vars == <<clock, world, process, saved, reliable, at>>

NoDate == -1
Under == {"asked", "screened", "dated", "room"}
Ends == {"passed", "manual", "halted", "max loss", "refused"}

(* The clock starts on a New York morning.  Eight in the evening there is   *)
(* the next day in UTC.                                                     *)
NewYork(c) == c \div 2
UTC(c) == (c + 1) \div 2
Today == NewYork(clock)

(* _calculate_daily_pnl, and the comparison with the limit. *)
Past == booked + marked >= limit

(* A database call works, or raises and is caught. *)
Works == IF reliable THEN {TRUE} ELSE BOOLEAN

Init ==
  /\ clock = 0
  /\ booked = 0 /\ marked = 0 /\ limit \in Limits
  /\ manual = FALSE /\ enabled = TRUE
  /\ halt = NoDate /\ loaded = FALSE /\ saved = NoDate
  /\ reliable \in BOOLEAN
  /\ at = [c \in Checks |-> [phase |-> "passed", side |-> "SELL", today |-> 0]]

-----------------------------------------------------------------------------
(* A check *)

Goes(c, p) == at' = [at EXCEPT ![c].phase = p]
Is(c, p) == at[c].phase = p
Buys(c) == at[c].side = "BUY"

(* Mutant: only memory. *)
PersistsNot(d) == UNCHANGED saved

(* _persist_halt: the write may fail, and memory holds what it holds. *)
Persists(d) == \E works \in Works : saved' = IF works THEN d ELSE saved

(* _ensure_halt_loaded, once in a process: today's halt is restored, an     *)
(* older one deleted, and a failed read is no halt.                         *)
Loads ==
  /\ ~loaded
  /\ loaded' = TRUE
  /\ \/ saved = Today /\ halt' = saved /\ UNCHANGED saved
     \/ saved # Today /\ saved # NoDate /\ UNCHANGED halt /\ Persists(NoDate)
     \/ saved = NoDate /\ UNCHANGED <<halt, saved>>
     \/ ~reliable /\ UNCHANGED <<halt, saved>>

Asks(c, side) ==
  /\ at[c].phase \in Ends
  /\ at' = [at EXCEPT ![c] = [phase |-> "asked", side |-> side, today |-> 0]]
  /\ Loads \/ (loaded /\ UNCHANGED <<process, saved>>)
  /\ UNCHANGED <<clock, world, reliable>>

(* The manual halt, the master switch, and the filters before the day's. *)
Screens(c) ==
  /\ Is(c, "asked")
  /\ \/ Buys(c) /\ manual /\ Goes(c, "manual")
     \/ ~(Buys(c) /\ manual) /\ ~enabled /\ Goes(c, "passed")
     \/ ~(Buys(c) /\ manual) /\ enabled /\ \E p \in {"refused", "screened"} : Goes(c, p)
  /\ UNCHANGED <<clock, world, process, saved, reliable>>

(* Mutant: yesterday's halt goes on. *)
NewDayKeeps(c) ==
  /\ Is(c, "screened")
  /\ at' = [at EXCEPT ![c] = [phase |-> "dated", side |-> at[c].side, today |-> Today]]
  /\ UNCHANGED <<clock, world, halt, loaded, saved, reliable>>

(* "Reset halt on a new ET trading day." *)
NewDay(c) ==
  /\ Is(c, "screened")
  /\ at' = [at EXCEPT ![c] = [phase |-> "dated", side |-> at[c].side, today |-> Today]]
  /\ IF halt \notin {NoDate, Today}
       THEN halt' = NoDate /\ Persists(NoDate)
       ELSE UNCHANGED <<halt, saved>>
  /\ UNCHANGED <<clock, world, loaded, reliable>>

(* What a check that the halt let by meets next: a BUY the room for it, and *)
(* either side one of the other refusals.                                   *)
GoesOn(c) == \E p \in {"refused", IF Buys(c) THEN "room" ELSE "passed"} : Goes(c, p)

(* Mutant: a halt is lifted without a look at the loss. *)
RechecksBlind(c) ==
  /\ Is(c, "dated")
  /\ halt' = NoDate
  /\ IF halt = NoDate THEN UNCHANGED saved ELSE Persists(NoDate)
  /\ GoesOn(c)
  /\ UNCHANGED <<clock, world, loaded, reliable>>

(* "Trading halted?": the loss is looked at again, for a SELL as for a BUY. *)
Rechecks(c) ==
  /\ Is(c, "dated")
  /\ \/ halt = NoDate /\ GoesOn(c) /\ UNCHANGED <<halt, saved>>
     \/ halt # NoDate /\ ~Past /\ halt' = NoDate /\ Persists(NoDate) /\ GoesOn(c)
     \/ halt # NoDate /\ (Past \/ ~reliable) /\ Goes(c, "halted") /\ UNCHANGED <<halt, saved>>
  /\ UNCHANGED <<clock, world, loaded, reliable>>

(* "MAX LOSS" sets the halt, for the day the check read before. *)
Trips(c) == halt' = at[c].today /\ Persists(at[c].today)

(* _check_buy_guards, and what its last reason sets. *)
Caps(c) ==
  /\ Is(c, "room")
  /\ \/ Past /\ Goes(c, "max loss") /\ Trips(c)
     \/ ~Past /\ Goes(c, "passed") /\ UNCHANGED <<halt, saved>>
     \/ Goes(c, "refused") /\ UNCHANGED <<halt, saved>>
  /\ UNCHANGED <<clock, world, loaded, reliable>>

-----------------------------------------------------------------------------
(* Around it *)

(* The process dies, its checks with it. *)
Restarts ==
  /\ loaded' = FALSE
  /\ halt' = NoDate
  /\ at' = [c \in Checks |-> IF at[c].phase \in Ends THEN at[c] ELSE
                [phase |-> "refused", side |-> at[c].side, today |-> at[c].today]]
  /\ UNCHANGED <<clock, world, saved, reliable>>

(* A midnight passes; after the one in UTC nothing has been realised yet. *)
Turns ==
  /\ clock < LastTurn
  /\ clock' = clock + 1
  /\ booked' = IF UTC(clock') # UTC(clock) THEN 0 ELSE booked
  /\ UNCHANGED <<marked, limit, manual, enabled, process, saved, reliable, at>>

(* A fill is booked, or marks move, or the two at once. *)
Moves ==
  /\ booked' \in Losses /\ marked' \in Losses
  /\ UNCHANGED <<clock, limit, manual, enabled, process, saved, reliable, at>>

(* config_manager reloads what the operator edited. *)
Configures ==
  /\ limit' \in Limits /\ manual' \in BOOLEAN /\ enabled' \in BOOLEAN
  /\ UNCHANGED <<clock, booked, marked, process, saved, reliable, at>>

CheckStep(c) == \/ \E side \in {"BUY", "SELL"} : Asks(c, side)
                \/ Screens(c) \/ NewDay(c) \/ Rechecks(c) \/ Caps(c)

Next == \/ \E c \in Checks : CheckStep(c)
        \/ Restarts \/ Turns \/ Moves \/ Configures

Spec == Init /\ [][Next]_vars

-----------------------------------------------------------------------------
(* Properties *)

(* Every variable has its type, and a check's day is one that has begun. *)
TypeOK ==
  /\ clock \in 0..LastTurn
  /\ booked \in Losses /\ marked \in Losses /\ limit \in Limits
  /\ manual \in BOOLEAN /\ enabled \in BOOLEAN /\ loaded \in BOOLEAN /\ reliable \in BOOLEAN
  /\ halt \in {NoDate} \cup 0..Today
  /\ saved \in {NoDate} \cup 0..Today
  /\ at \in [Checks -> [phase : Under \cup Ends, side : {"BUY", "SELL"}, today : 0..Today]]

(* The row and the global agree whenever the process has read the row, over *)
(* restarts, midnights and every way a halt is set or lifted.               *)
SavedAgrees == reliable /\ loaded => saved = halt

(* An entry never passes under a halt set for the day it is checked on,     *)
(* though the process that set it may have died since.                      *)
NoBuyWhileHalted ==
  [][\A c \in Checks : reliable /\ Is(c, "room") /\ at'[c].phase = "passed"
                         => saved # at[c].today]_vars

(* Whatever the database does, no alert is refused for an earlier day's halt. *)
NoStaleHalt ==
  [][\A c \in Checks : Is(c, "dated") /\ at'[c].phase = "halted"
                         => halt = at[c].today]_vars

(* The halt, its global, its row and the restarts are a halt that is never  *)
(* forgotten, as long as the database works.                                *)
Halt == INSTANCE TradingHalt WITH
  stopped <- reliable /\ saved = Today,
  past <- Past,
  day <- Today
KeepsHalt == Halt!Spec
=============================================================================
