----------------------------- MODULE GuardChain -----------------------------
(***************************************************************************)
(* app/risk/guardrails.py without the daily loss limit, which is in        *)
(* DailyHalt: what check_guardrails refuses, and what it remembers of what *)
(* it let pass.                                                            *)
(*                                                                         *)
(* A check refuses an alert when any gate does; the order of the gates     *)
(* decides only the wording.  Some gates read the books, some the memory   *)
(* of this process (recent, hashes, traded, the stop-loss table), and one  *)
(* the alert rows, which outlive it.  Time counts in ticks.                *)
(***************************************************************************)
EXTENDS Integers, FiniteSets

CONSTANTS
  Contracts, NoContract,
  RootOf,      \* the underlying of a contract
  Pairs,       \* sets of two underlyings that track one market
  Authors, Nobody,
  Never,       \* a time before all others
  MaxTime,     \* bound: the clock
  DupWindow, CrossWindow, Cooldown,     \* dedup, cross-channel dedup, trade cooldown
  StopMinutes, PanicMinutes, MaxStops,  \* the stop-loss table's
  MaxOpen, MaxTrades

Roots == {RootOf[c] : c \in Contracts}

ASSUME GuardAssumption ==
  /\ NoContract \notin Contracts
  /\ Nobody \notin Authors
  /\ Pairs \subseteq SUBSET Roots
  /\ {MaxTime, DupWindow, CrossWindow, Cooldown, StopMinutes, PanicMinutes,
      MaxStops, MaxOpen, MaxTrades} \subseteq Nat
  /\ Never \in Int /\ \A w \in {DupWindow, CrossWindow, Cooldown} : Never + w < 0

VARIABLES
  now,
  rules,    \* the configuration
  pos,      \* the position rows
  recent,   \* _recent_alerts
  hashes,   \* _recent_content_hashes
  traded,   \* _last_trade_time
  banned,   \* _sl_cooldown: when a root's ban ends
  stops,    \* _sl_count_today
  reconciled

memory == <<recent, hashes, traded, banned, stops>>
guardVars == <<now, rules, pos, memory, reconciled>>

Actions == {"BUY", "SELL"}

NoPosition == [open |-> FALSE, owner |-> Nobody, mark |-> "none", since |-> 0]

(* What identifies a signal: compute_content_hash.                          *)
Content(a) == <<a.contract, a.action, a.price>>

-----------------------------------------------------------------------------
(* Gates on who says it *)

Holds(who, c) == c \in Contracts /\ pos[c].open /\ pos[c].owner \in {Nobody, who}

(* blacklisted_sell_may_exit: an exit of a contract that is his.            *)
MayExit(a) == a.action = "SELL" /\ rules.ownerExit /\ Holds(a.author, a.contract)

(* check_analyst_filter: the whitelist, or else the blacklist, and the      *)
(* list of the underlying.                                                  *)
Trusted(a) ==
  /\ IF rules.whitelist # {} THEN a.author \in rules.whitelist ELSE a.author \notin rules.blacklist
  /\ a.contract \in Contracts => a.author \in rules.only[RootOf[a.contract]]

(* check_rollup_block *)
Rolls(a) == rules.rollupBlock /\ a.roll /\ a.author \notin rules.rollers

(* Mutant: what the ingest let through is let through. *)
SpeaksOnce(a) == a.action = "BUY" => Trusted(a) /\ ~Rolls(a)

(* An exit is refused to a blacklisted author who does not hold the         *)
(* contract, and a flatten-everything to all but the listed.                *)
Speaks(a) ==
  /\ a.contract \in Contracts => RootOf[a.contract] \notin rules.blocked
  /\ a.action = "BUY" => Trusted(a) /\ ~Rolls(a)
  /\ a.action = "SELL" =>
       /\ a.author \in rules.blacklist /\ rules.blockExits => MayExit(a)
       /\ a.contract = NoContract /\ rules.closers # {} => a.author \in rules.closers

-----------------------------------------------------------------------------
(* Gates on entries *)

Open == {c \in Contracts : pos[c].open}

(* check_sl_cooldown *)
Banned(c) == now < banned[RootOf[c]] \/ (MaxStops > 0 /\ stops[RootOf[c]] >= MaxStops)

(* _check_correlation_conflict *)
Conflicts(c) ==
  rules.correlation /\ \E d \in Open : RootOf[d] # RootOf[c] /\ {RootOf[c], RootOf[d]} \in Pairs

(* _check_stale_marks: a position nobody has priced, and not a fresh one.   *)
Blind == rules.marks /\ \E c \in Open : pos[c].mark = "none" /\ pos[c].since < now

(* _check_scale_in, asked only when the contract was bought a moment ago.   *)
ScalesIn(c) == rules.scaleIn /\ recent[c, "BUY"] # Never /\ pos[c].open /\ pos[c].mark = "up"

(* _check_duplicate, with its two ways around: an add to a winner, and a    *)
(* SELL of what is open.                                                    *)
Repeats(a) ==
  /\ a.contract \in Contracts
  /\ ~(a.action = "BUY" /\ ScalesIn(a.contract))
  /\ ~(a.action = "SELL" /\ pos[a.contract].open)
  /\ recent[a.contract, a.action] >= now - DupWindow

(* The content in this process's memory.                                    *)
Copies(a) == hashes[Content(a)] >= now - CrossWindow

(* _check_cooldown *)
Cools(c) == now - traded[c] < Cooldown

(* The content in the rows: those of the window but the alert's own and the *)
(* backfilled ones.                                                         *)
InRows(a, rows) ==
  \E r \in rows : /\ r.id # a.id
                  /\ Content(r) = Content(a)
                  /\ r.at >= now - CrossWindow
                  /\ r.status # "HISTORICAL"

(* _check_buy_guards: cost, copies, open positions, today's entries.        *)
Capped(a, rows, entries) ==
  \/ a.dear
  \/ InRows(a, rows)
  \/ ~ScalesIn(a.contract) /\ Cardinality(Open) >= MaxOpen
  \/ entries >= MaxTrades

(* Mutant: the copy in the rows is not looked for. *)
EntersUnchecked(a, rows, entries) ==
  /\ ~Banned(a.contract) /\ ~Conflicts(a.contract) /\ ~Blind
  /\ reconciled /\ rules.hours
  /\ ~Cools(a.contract)
  /\ ~Capped(a, {}, entries)

Enters(a, rows, entries) ==
  /\ ~Banned(a.contract)
  /\ ~Conflicts(a.contract)
  /\ ~Blind
  /\ reconciled
  /\ rules.hours
  /\ ~Cools(a.contract)
  /\ ~Capped(a, rows, entries)

(* check_guardrails, apart from the daily loss.                             *)
Passes(a, rows, entries) ==
  /\ ~(a.action = "BUY" /\ rules.manualHalt)
  /\ rules.on =>
       /\ Speaks(a)
       /\ ~Repeats(a)
       /\ ~Copies(a)
       /\ a.action = "BUY" => Enters(a, rows, entries)

-----------------------------------------------------------------------------
(* What is remembered *)

(* _record_alert; with the guardrails off nothing is.                       *)
Records(a) ==
  IF ~rules.on THEN UNCHANGED memory
  ELSE /\ IF a.contract \in Contracts
            THEN /\ recent' = [recent EXCEPT ![<<a.contract, a.action>>] = now]
                 /\ traded' = [traded EXCEPT ![a.contract] = now]
            ELSE UNCHANGED <<recent, traded>>
       /\ hashes' = [hashes EXCEPT ![Content(a)] = now]
       /\ UNCHANGED <<banned, stops>>

(* Mutant: only the stop that uses up the day's number bans. *)
BansLast(c, reason) ==
  LET r == RootOf[c] IN
  /\ stops' = [stops EXCEPT ![r] = @ + 1]
  /\ banned' = IF stops'[r] >= MaxStops THEN [banned EXCEPT ![r] = now + StopMinutes] ELSE banned
  /\ UNCHANGED <<recent, hashes, traded>>

(* record_sl_exit: a ban from the last stop, which may end before the one   *)
(* it replaces; a trail costs nothing.                                      *)
Bans(c, reason) ==
  LET r == RootOf[c]
      m == IF reason = "PANIC" THEN PanicMinutes ELSE StopMinutes IN
  /\ IF reason = "TRAIL_HIT" THEN UNCHANGED <<banned, stops>>
     ELSE /\ banned' = IF m > 0 THEN [banned EXCEPT ![r] = now + m] ELSE banned
          /\ stops' = [stops EXCEPT ![r] = @ + 1]
  /\ UNCHANGED <<recent, hashes, traded>>

(* A process that starts remembers nothing.                                 *)
Forgotten(contents) ==
  /\ recent = [k \in Contracts \X Actions |-> Never]
  /\ hashes = [k \in contents |-> Never]
  /\ traded = [c \in Contracts |-> Never]
  /\ banned = [r \in Roots |-> 0]
  /\ stops = [r \in Roots |-> 0]

Forgets ==
  /\ recent' = [k \in DOMAIN recent |-> Never]
  /\ hashes' = [k \in DOMAIN hashes |-> Never]
  /\ traded' = [c \in Contracts |-> Never]
  /\ banned' = [r \in Roots |-> 0]
  /\ stops' = [r \in Roots |-> 0]

GuardInit(contents, someRules) ==
  /\ now = 0
  /\ rules \in someRules
  /\ pos = [c \in Contracts |-> NoPosition]
  /\ Forgotten(contents)
  /\ reconciled = FALSE
=============================================================================
