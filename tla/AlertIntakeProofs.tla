------------------------- MODULE AlertIntakeProofs -------------------------
(***************************************************************************)
(* Proofs about AlertIntake, for any posts, configurations, windows, bans  *)
(* and number of restarts.  The four memories of copies play no part in    *)
(* them but the guardrails' two: the hashes of this process, and the rows. *)
(***************************************************************************)
EXTENDS AlertIntake, FiniteSetTheorems, TLAPS

-----------------------------------------------------------------------------
(* What messages bring about *)

(* A message is about a post; what the forwarder is busy with, too.         *)
MessagesFine ==
  /\ now \in Nat
  /\ at \in [Posts -> Int] /\ \A p \in Posts : at[p] =< now
  /\ \A m \in parsing : m.post \in Posts
  /\ relay \in [post : Posts \cup {NoPost}, stage : {"idle", "direct", "await", "hook"}]
  /\ relay.stage # "idle" => relay.post \in Posts

(* A row as the listener writes it. *)
Proper(r) ==
  /\ r.action \in Actions
  /\ r.action = "BUY" => r.contract \in Contracts
  /\ Content(r) \in Contents
  /\ r.at \in Int /\ r.at =< now

(* A message leaves the rows, or brings a new one, which may be queued, or  *)
(* stamped and not.                                                         *)
Adds(r, stored) ==
  /\ Proper(r) /\ Proper(stored)
  /\ stored.id = r.id
  /\ \A q \in rows : q.id # r.id
  /\ rows' = rows \cup {stored}
  /\ queue' = queue \/ (queue' = queue \cup {r} /\ stored = r)
Took == UNCHANGED <<rows, queue>> \/ \E r, stored : Adds(r, stored)

LEMMA StoresAdds ==
  ASSUME MessagesFine, NEW m, m.post \in Posts, ~Known(m),
         NEW c \in Contracts \cup {NoContract}, Post[m.post].action = "BUY" => c \in Contracts,
         Stores(m, c)
  PROVE  Took
<1> DEFINE row == RowOf(m, c, IF m.hist THEN "HISTORICAL" ELSE "PENDING")
           barred == rules.dropAtIngest /\ row.author \in rules.blacklist /\ ~MayExit(row)
           stored == IF barred THEN [row EXCEPT !.status = "SKIPPED"] ELSE row
<1>1. /\ row.id = m.id /\ row.action = Post[m.post].action /\ row.contract = c
      /\ row.price = Post[m.post].price /\ row.at = IF m.via = "own" THEN at[m.post] ELSE now
      BY DEF RowOf
<1>2. /\ stored.id = row.id /\ stored.action = row.action /\ stored.contract = row.contract
      /\ stored.price = row.price /\ stored.at = row.at
      BY DEF RowOf
<1>3. Proper(row)
  <2>1. row.action \in Actions
        BY <1>1, IntakeAssumption DEF Actions
  <2>2. row.at \in Int /\ row.at =< now
        BY <1>1 DEF MessagesFine
  <2>3. Content(row) \in Contents
        BY <1>1, <2>1 DEF Content, Contents
  <2>4. QED BY <1>1, <2>1, <2>2, <2>3 DEF Proper
<1>4. Proper(stored)
      BY <1>2, <1>3 DEF Proper, Content
<1>5. \A q \in rows : q.id # row.id
      BY <1>1 DEF Known
<1>6. rows' = rows \cup {stored}
      BY DEF Stores
<1>7. queue' = queue \/ (queue' = queue \cup {row} /\ stored = row)
      BY DEF Stores
<1>8. Adds(row, stored)
      BY <1>2, <1>3, <1>4, <1>5, <1>6, <1>7 DEF Adds
<1>9. QED BY <1>8 DEF Took

LEMMA ProcessesTook ==
  ASSUME MessagesFine, NEW m, m.post \in Posts, Processes(m)
  PROVE  Took
<1> DEFINE p == m.post
           c == IF Parsed(p) = {} THEN NoContract ELSE CHOOSE d \in Parsed(p) : TRUE
<1>1. CASE Post[p].parse = "tickerless" /\ Cardinality(Meant(p)) # 1
      BY <1>1 DEF Processes, Alarms, Took
<1>2. CASE ~(Post[p].parse = "tickerless" /\ Cardinality(Meant(p)) # 1)
  <2>1. Parsed(p) \subseteq Contracts
        BY IntakeAssumption DEF Parsed, Meant
  <2>2. Post[p].action = "BUY" => Parsed(p) # {}
    <3>1. Cardinality({}) = 0
          BY FS_EmptySet
    <3>2. CASE Post[p].parse = "tickerless"
      <4>1. Cardinality(Meant(p)) = 1
            BY <1>2, <3>2
      <4>2. Meant(p) # {}
            BY <3>1, <4>1
      <4>3. QED BY <3>2, <4>2 DEF Parsed
    <3>3. CASE Post[p].parse # "tickerless"
          BY <3>3, IntakeAssumption DEF Parsed
    <3>4. QED BY <3>2, <3>3
  <2>3. c \in Contracts \cup {NoContract} /\ (Post[p].action = "BUY" => c \in Contracts)
        BY <2>1, <2>2
  <2>4. Ingests(m, c)
        BY <1>2 DEF Processes
  <2>5. CASE UNCHANGED <<rows, queue>>
        BY <2>5 DEF Took
  <2>6. CASE ~UNCHANGED <<rows, queue>>
    <3>1. ~Copy(m, c) /\ Stores(m, c)
          BY <2>4, <2>6 DEF Ingests
    <3>2. ~Known(m)
          BY <3>1 DEF Copy
    <3>3. QED BY <2>3, <3>1, <3>2, StoresAdds
  <2>7. QED BY <2>5, <2>6
<1>3. QED BY <1>1, <1>2

LEMMA ReadsTook ==
  ASSUME MessagesFine, NEW m, m.post \in Posts, Reads(m)
  PROVE  Took /\ \A n \in parsing' : n.post \in Posts
<1>1. CASE Post[m.post].parse = "model"
      BY <1>1 DEF Reads, Took, MessagesFine
<1>2. CASE Post[m.post].parse # "model"
  <2>1. Processes(m) /\ UNCHANGED parsing
        BY <1>2 DEF Reads
  <2>2. QED BY <2>1, ProcessesTook DEF MessagesFine
<1>3. QED BY <1>1, <1>2

Messages ==
  \/ \E p \in Posts : Appears(p) \/ Delivers(p) \/ Backfills(p) \/ Relays(p)
  \/ \E m \in parsing : ModelAnswers(m)
  \/ Injects \/ Hooks

Apart == <<guardVars, busy, trades, life, accepted, stopped>>

(* All that a message does but to rows and queue is its own affair.         *)
LEMMA MessagesTook ==
  ASSUME MessagesFine, Messages
  PROVE  Took /\ MessagesFine' /\ UNCHANGED Apart
<1> USE DEF Apart
<1>1. CASE \E p \in Posts : Appears(p)
  <2>1. PICK p \in Posts : Appears(p)
        BY <1>1
  <2>2. UNCHANGED Apart /\ UNCHANGED <<rows, queue, parsing, relay, now>>
        BY <2>1 DEF Appears, desk, history, guardVars
  <2>3. at' = [at EXCEPT ![p] = now]
        BY <2>1 DEF Appears
  <2>4. at' \in [Posts -> Int] /\ \A q \in Posts : at'[q] =< now
        BY <2>3 DEF MessagesFine
  <2>5. QED BY <2>2, <2>4 DEF MessagesFine, Took
<1>2. CASE \E p \in Posts : Delivers(p)
  <2>1. PICK p \in Posts : Delivers(p)
        BY <1>2
  <2>2. Reads(Message(p, "own", FALSE)) /\ Message(p, "own", FALSE).post \in Posts
        BY <2>1 DEF Delivers, Message
  <2>3. Took /\ \A n \in parsing' : n.post \in Posts
        BY <2>2, ReadsTook
  <2>4. UNCHANGED Apart /\ UNCHANGED <<at, relay, now>>
        BY <2>1 DEF Delivers, guardVars
  <2>5. QED BY <2>3, <2>4 DEF MessagesFine
<1>3. CASE \E p \in Posts : Backfills(p)
  <2>1. PICK p \in Posts : Backfills(p)
        BY <1>3
  <2>2. Reads(Message(p, "own", TRUE)) /\ Message(p, "own", TRUE).post \in Posts
        BY <2>1 DEF Backfills, Message
  <2>3. Took /\ \A n \in parsing' : n.post \in Posts
        BY <2>2, ReadsTook
  <2>4. UNCHANGED Apart /\ UNCHANGED <<at, relay, now>>
        BY <2>1 DEF Backfills, guardVars
  <2>5. QED BY <2>3, <2>4 DEF MessagesFine
<1>4. CASE \E p \in Posts : Relays(p)
  <2>1. PICK p \in Posts : Relays(p)
        BY <1>4
  <2>2. UNCHANGED Apart /\ UNCHANGED <<rows, queue, at, parsing, now>>
        BY <2>1 DEF Relays, desk, history, guardVars
  <2>3. \/ UNCHANGED relay
        \/ relay' = [post |-> p, stage |-> "direct"]
        \/ relay' = [post |-> p, stage |-> "hook"]
        BY <2>1 DEF Relays
  <2>4. QED BY <2>2, <2>3 DEF MessagesFine, Took
<1>5. CASE \E m \in parsing : ModelAnswers(m)
  <2>1. PICK m \in parsing : ModelAnswers(m)
        BY <1>5
  <2>2. m.post \in Posts
        BY <2>1 DEF MessagesFine
  <2>3. UNCHANGED Apart /\ UNCHANGED <<at, now>> /\ parsing' = parsing \ {m}
        BY <2>1 DEF ModelAnswers, guardVars
  <2>4. Took
    <3>1. CASE Processes(m)
          BY <2>2, <3>1, ProcessesTook
    <3>2. CASE Alarms(m)
          BY <3>2 DEF Alarms, Took
    <3>3. QED BY <2>1, <3>1, <3>2 DEF ModelAnswers
  <2>5. \/ UNCHANGED relay
        \/ relay' = [post |-> m.post, stage |-> "hook"]
        \/ relay' = IdleRelay
        BY <2>1 DEF ModelAnswers, Returns
  <2>6. QED BY <2>2, <2>3, <2>4, <2>5 DEF MessagesFine, IdleRelay
<1>6. CASE Injects
  <2> DEFINE m == Message(relay.post, "own", FALSE)
  <2>1. m.post = relay.post /\ relay.post \in Posts
        BY <1>6 DEF Injects, Message, MessagesFine
  <2>2. Took /\ \A n \in parsing' : n.post \in Posts
        BY <1>6, <2>1, ReadsTook DEF Injects
  <2>3. UNCHANGED Apart /\ UNCHANGED <<at, now>>
        BY <1>6 DEF Injects, guardVars
  <2>4. \/ relay' = [post |-> relay.post, stage |-> "await"]
        \/ relay' = [post |-> relay.post, stage |-> "hook"]
        \/ relay' = IdleRelay
    <3>1. relay = [post |-> relay.post, stage |-> relay.stage]
          BY DEF MessagesFine
    <3>2. CASE Post[m.post].parse = "model"
      <4>1. relay' = [relay EXCEPT !.stage = "await"]
            BY <1>6, <3>2 DEF Injects
      <4>2. QED BY <3>1, <4>1
    <3>3. CASE Post[m.post].parse # "model"
          BY <1>6, <2>1, <3>3 DEF Injects, Returns
    <3>4. QED BY <3>2, <3>3
  <2>5. relay' \in [post : Posts \cup {NoPost}, stage : {"idle", "direct", "await", "hook"}]
        BY <2>1, <2>4 DEF IdleRelay
  <2>6. relay'.stage # "idle" => relay'.post \in Posts
        BY <2>1, <2>4 DEF IdleRelay
  <2>7. QED BY <2>2, <2>3, <2>5, <2>6 DEF MessagesFine
<1>7. CASE Hooks
  <2> DEFINE p == relay.post
  <2>1. p \in Posts
        BY <1>7 DEF Hooks, MessagesFine
  <2>2. UNCHANGED Apart /\ UNCHANGED <<at, now>>
        BY <1>7 DEF Hooks, guardVars
  <2>3. relay' = IdleRelay \/ UNCHANGED relay
        BY <1>7 DEF Hooks
  <2>4. Took /\ \A n \in parsing' : n.post \in Posts
    <3>1. Message(p, "hook", FALSE).post \in Posts /\ Message(p, "hook2", FALSE).post \in Posts
          BY <2>1 DEF Message
    <3>2. CASE Reads(Message(p, "hook", FALSE)) \/ Reads(Message(p, "hook2", FALSE))
          BY <3>1, <3>2, ReadsTook
    <3>3. CASE UNCHANGED <<rows, queue, parsing>>
          BY <3>3 DEF Took, MessagesFine
    <3>4. QED BY <1>7, <3>2, <3>3 DEF Hooks
  <2>5. QED BY <2>1, <2>2, <2>3, <2>4 DEF MessagesFine, IdleRelay
<1>8. QED BY <1>1, <1>2, <1>3, <1>4, <1>5, <1>6, <1>7 DEF Messages

-----------------------------------------------------------------------------
(* What is remembered *)

(* Rows have an id each, and none is accepted twice; what this process has  *)
(* accepted it knows by its content.                                        *)
RowsKept ==
  /\ life \in Nat
  /\ hashes \in [Contents -> Int]
  /\ \A r \in rows : Proper(r)
  /\ \A r, q \in rows : r.id = q.id => r = q
  /\ queue \subseteq rows
  /\ \A x \in accepted : /\ x.row \in rows \ queue
                         /\ x.at \in Int /\ x.row.at =< x.at /\ x.at =< now
                         /\ x.life \in Nat /\ x.life =< life
  /\ rules.on => \A x \in accepted : x.life = life => x.at =< hashes[Content(x.row)]

(* The ban of a stop that counted has run out, or lasts as long as its kind *)
(* says; a later stop's may be the shorter.                                 *)
BansKept ==
  /\ banned \in [Roots -> Int]
  /\ stopped \in [Roots -> Int]
  /\ \A r \in Roots : stopped[r] # Never =>
       \E m \in {StopMinutes, PanicMinutes} : stopped[r] + m =< banned[r] \/ stopped[r] + m =< now

(* What the guardrails found of a barred author's exit still holds of it.   *)
BusyKept ==
  busy # NoRow /\ rules.on /\ rules.blockExits /\ busy.action = "SELL" /\ busy.author \in rules.blacklist
    => rules.ownerExit /\ busy.contract \in Contracts

IntakeInv == MessagesFine /\ RowsKept /\ BansKept /\ BusyKept /\ NoDoubleEntry

LEMMA Starts == Init => IntakeInv
<1> SUFFICES ASSUME Init PROVE IntakeInv
    OBVIOUS
<1> USE DEF Init, GuardInit, Forgotten
<1>1. Never \in Int /\ Never < 0
      BY GuardAssumption
<1>2. MessagesFine
      BY <1>1 DEF MessagesFine, IdleRelay
<1>3. RowsKept
      BY <1>1 DEF RowsKept
<1>4. BansKept
      BY <1>1 DEF BansKept
<1>5. BusyKept
      BY DEF BusyKept
<1>6. NoDoubleEntry
      BY DEF NoDoubleEntry, Entered
<1>7. QED BY <1>2, <1>3, <1>4, <1>5, <1>6 DEF IntakeInv

(* A message leaves what is remembered as it is. *)
LEMMA MessagesKeep ==
  ASSUME IntakeInv, Messages
  PROVE  IntakeInv'
<1>1. Took /\ MessagesFine' /\ UNCHANGED Apart
      BY MessagesTook DEF IntakeInv
<1>2. UNCHANGED <<now, rules, pos, hashes, banned, busy, life, accepted, stopped>>
      BY <1>1 DEF Apart, guardVars, memory
<1>3. RowsKept'
  <2>1. CASE UNCHANGED <<rows, queue>>
        BY <1>2, <2>1 DEF IntakeInv, RowsKept, Proper
  <2>2. CASE \E r, stored : Adds(r, stored)
    <3>1. PICK r, stored : Adds(r, stored)
          BY <2>2
    <3>2. rows' = rows \cup {stored} /\ stored \notin rows
          BY <3>1 DEF Adds
    <3>3. \A q \in rows' : Proper(q)'
          BY <1>2, <3>1, <3>2 DEF IntakeInv, RowsKept, Proper, Adds
    <3>4. \A q, s \in rows' : q.id = s.id => q = s
          BY <3>1, <3>2 DEF IntakeInv, RowsKept, Adds
    <3>5. queue' \subseteq queue \cup {stored} /\ queue' \subseteq rows'
          BY <3>1, <3>2 DEF IntakeInv, RowsKept, Adds
    <3>6. \A x \in accepted : x.row \in rows' \ queue'
          BY <3>2, <3>5 DEF IntakeInv, RowsKept
    <3>7. QED BY <1>2, <3>3, <3>4, <3>5, <3>6 DEF IntakeInv, RowsKept
  <2>3. QED BY <1>1, <2>1, <2>2 DEF Took
<1>4. BansKept' /\ BusyKept' /\ NoDoubleEntry'
      BY <1>2 DEF IntakeInv, BansKept, BusyKept, NoDoubleEntry, Entered
<1>5. QED BY <1>1, <1>3, <1>4 DEF IntakeInv

(* An entry the guardrails let pass has no earlier one of its content near. *)
LEMMA LetPass ==
  ASSUME IntakeInv, rules.on, NEW r \in rows, Passes(r, rows, Entries), r.action = "BUY",
         NEW x \in accepted, Content(x.row) = Content(r), x.row \notin queue, r \in queue,
         x.life = life \/ x.row.status # "HISTORICAL"
  PROVE  now - x.row.at > CrossWindow
<1>1. /\ x.row \in rows /\ x.row.at \in Int /\ x.at \in Int /\ x.row.at =< x.at
      /\ now \in Int /\ CrossWindow \in Nat
      BY GuardAssumption DEF IntakeInv, RowsKept, MessagesFine, Proper
<1>2. CASE x.life = life
  <2>1. x.at =< hashes[Content(r)]
        BY <1>2 DEF IntakeInv, RowsKept
  <2>2. hashes[Content(r)] \in Int
        BY DEF IntakeInv, RowsKept, Proper
  <2>3. ~(hashes[Content(r)] >= now - CrossWindow)
        BY DEF Passes, Copies
  <2>4. QED BY <1>1, <2>1, <2>2, <2>3
<1>3. CASE x.row.status # "HISTORICAL"
  <2>1. ~InRows(r, rows)
        BY DEF Passes, Enters, Capped
  <2>2. x.row.id # r.id
        BY <1>1 DEF IntakeInv, RowsKept
  <2>3. ~(x.row.at >= now - CrossWindow)
        BY <1>1, <1>3, <2>1, <2>2 DEF InRows
  <2>4. QED BY <1>1, <2>3
<1>4. QED BY <1>2, <1>3

LEMMA ChecksKeep ==
  ASSUME IntakeInv, NEW r \in rows, Checks(r)
  PROVE  IntakeInv'
<1>1. /\ UNCHANGED <<now, rules, at, parsing, relay, rows, life, banned, stopped>>
      /\ queue' = queue \ {r} /\ r \in queue
      BY DEF Checks, intake, Records, memory
<1>2. MessagesFine' /\ BansKept'
      BY <1>1 DEF IntakeInv, MessagesFine, BansKept
<1>3. CASE ~Passes(r, rows, Entries)
  <2>1. UNCHANGED <<busy, hashes, accepted>>
        BY <1>3 DEF Checks, memory
  <2>2. RowsKept'
        BY <1>1, <2>1 DEF IntakeInv, RowsKept, Proper
  <2>3. BusyKept' /\ NoDoubleEntry'
        BY <1>1, <2>1 DEF IntakeInv, BusyKept, NoDoubleEntry, Entered
  <2>4. QED BY <1>2, <2>2, <2>3 DEF IntakeInv
<1>4. CASE Passes(r, rows, Entries)
  <2> DEFINE new == [row |-> r, at |-> now, life |-> life]
  <2>1. busy' = r /\ Records(r) /\ accepted' = accepted \cup {new}
        BY <1>4 DEF Checks
  <2>2. Proper(r) /\ now \in Nat /\ life \in Nat
        BY DEF IntakeInv, RowsKept, MessagesFine
  <2>3. /\ hashes' \in [Contents -> Int]
        /\ rules.on => hashes' = [hashes EXCEPT ![Content(r)] = now]
    <3>1. CASE rules.on
      <4>1. hashes' = [hashes EXCEPT ![Content(r)] = now]
            BY <2>1, <3>1 DEF Records
      <4>2. Content(r) \in Contents /\ hashes \in [Contents -> Int] /\ now \in Int
            BY <2>2 DEF IntakeInv, RowsKept, Proper
      <4>3. hashes' \in [Contents -> Int]
            BY <4>1, <4>2
      <4>4. QED BY <4>1, <4>3
    <3>2. CASE ~rules.on
          BY <2>1, <3>2 DEF Records, memory, IntakeInv, RowsKept
    <3>3. QED BY <3>1, <3>2
  <2>4. RowsKept'
    <3>1. \A x \in accepted' : /\ x.row \in rows' \ queue'
                              /\ x.at \in Int /\ x.row.at =< x.at /\ x.at =< now
                              /\ x.life \in Nat /\ x.life =< life
          BY <1>1, <2>1, <2>2 DEF IntakeInv, RowsKept, Proper
    <3>2. ASSUME rules.on, NEW x \in accepted', x.life = life
          PROVE  x.at =< hashes'[Content(x.row)]
      <4>1. Content(r) \in Contents /\ Content(x.row) \in Contents
            BY <1>1, <2>2, <3>1 DEF IntakeInv, RowsKept, Proper
      <4>2. CASE Content(x.row) = Content(r)
            BY <2>3, <3>1, <3>2, <4>1, <4>2 DEF IntakeInv, RowsKept
      <4>3. CASE Content(x.row) # Content(r)
        <5>1. x \in accepted
              BY <2>1, <4>3
        <5>2. QED BY <2>3, <3>2, <4>1, <4>3, <5>1 DEF IntakeInv, RowsKept
      <4>4. QED BY <4>2, <4>3
    <3>3. QED BY <1>1, <2>3, <3>1, <3>2 DEF IntakeInv, RowsKept, Proper
  <2>5. BusyKept'
    <3>1. SUFFICES ASSUME rules.on, rules.blockExits, r.action = "SELL", r.author \in rules.blacklist
                   PROVE  rules.ownerExit /\ r.contract \in Contracts
          BY <1>1, <2>1 DEF BusyKept
    <3>2. MayExit(r)
          BY <1>4, <3>1 DEF Passes, Speaks
    <3>3. QED BY <3>2 DEF MayExit, Holds
  <2>6. NoDoubleEntry'
    <3>1. SUFFICES ASSUME rules.on, NEW x \in accepted', NEW y \in accepted',
                          x.row.action = "BUY", y.row.action = "BUY",
                          x # y, Content(x.row) = Content(y.row),
                          x.life = y.life \/ (x.life < y.life /\ x.row.status # "HISTORICAL")
                   PROVE  y.at - x.row.at > CrossWindow \/ x.at - y.row.at > CrossWindow
          BY <1>1 DEF NoDoubleEntry, Entered
    <3>2. CASE x \in accepted /\ y \in accepted
          BY <3>1, <3>2 DEF IntakeInv, NoDoubleEntry, Entered
    <3>3. CASE x \in accepted /\ y = new
      <4>1. x.row \notin queue /\ (x.life = life \/ x.row.status # "HISTORICAL")
            BY <3>1, <3>3 DEF IntakeInv, RowsKept
      <4>2. now - x.row.at > CrossWindow
            BY <1>1, <1>4, <3>1, <3>3, <4>1, LetPass
      <4>3. QED BY <3>3, <4>2
    <3>4. CASE y \in accepted /\ x = new
      <4>1. y.row \notin queue /\ y.life = life
            BY <2>2, <3>1, <3>4 DEF IntakeInv, RowsKept
      <4>2. now - y.row.at > CrossWindow
            BY <1>1, <1>4, <3>1, <3>4, <4>1, LetPass
      <4>3. QED BY <3>4, <4>2
    <3>5. QED BY <2>1, <3>1, <3>2, <3>3, <3>4
  <2>7. QED BY <1>2, <2>4, <2>5, <2>6 DEF IntakeInv
<1>5. QED BY <1>3, <1>4

(* The other steps of the desk: trades, fills, marks, reconciliation.       *)
Desk ==
  \/ \E r \in rows : Buys(r) \/ Sells(r)
  \/ \E r \in buys : Fills(r) \/ Lapses(r)
  \/ \E c \in Contracts : Sold(c)
  \/ \E c \in Contracts, m \in Marked : MarksTo(c, m)
  \/ Reconciles

LEMMA DeskKeeps ==
  ASSUME IntakeInv, Desk
  PROVE  IntakeInv'
<1>1. /\ UNCHANGED <<now, rules, at, parsing, relay, rows, life, banned, stopped, hashes, accepted, queue>>
      /\ busy' \in {busy, NoRow}
      BY DEF Desk, Buys, Sells, Fills, Lapses, Sold, MarksTo, Reconciles, guardVars, intake, memory, desk, history
<1>2. MessagesFine' /\ BansKept'
      BY <1>1 DEF IntakeInv, MessagesFine, BansKept
<1>3. RowsKept'
      BY <1>1 DEF IntakeInv, RowsKept, Proper
<1>4. BusyKept' /\ NoDoubleEntry'
      BY <1>1 DEF IntakeInv, BusyKept, NoDoubleEntry, Entered
<1>5. QED BY <1>2, <1>3, <1>4 DEF IntakeInv

LEMMA StopsKeep ==
  ASSUME IntakeInv, NEW c \in Contracts, NEW reason, StopsOut(c, reason)
  PROVE  IntakeInv'
<1>1. UNCHANGED <<now, rules, at, parsing, relay, rows, life, hashes, accepted, queue, busy>>
      BY DEF StopsOut, Bans, intake, desk
<1>2. MessagesFine' /\ RowsKept'
      BY <1>1 DEF IntakeInv, MessagesFine, RowsKept, Proper
<1>3. BusyKept' /\ NoDoubleEntry'
      BY <1>1 DEF IntakeInv, BusyKept, NoDoubleEntry, Entered
<1>4. BansKept'
  <2>1. CASE reason = "TRAIL_HIT"
        BY <1>1, <2>1 DEF StopsOut, Bans, IntakeInv, BansKept
  <2>2. CASE reason # "TRAIL_HIT"
    <3> DEFINE m == IF reason = "PANIC" THEN PanicMinutes ELSE StopMinutes
               q == RootOf[c]
    <3>1. q \in Roots /\ m \in Nat /\ m \in {StopMinutes, PanicMinutes} /\ now \in Nat
          BY GuardAssumption DEF Roots, IntakeInv, MessagesFine
    <3>2. stopped' = [stopped EXCEPT ![q] = now]
          BY <2>2 DEF StopsOut
    <3>3. banned' = IF m > 0 THEN [banned EXCEPT ![q] = now + m] ELSE banned
          BY <2>2 DEF StopsOut, Bans
    <3>4. banned' \in [Roots -> Int] /\ stopped' \in [Roots -> Int]
          BY <3>1, <3>2, <3>3 DEF IntakeInv, BansKept
    <3>5. ASSUME NEW r \in Roots, stopped'[r] # Never
          PROVE  \E n \in {StopMinutes, PanicMinutes} :
                   stopped'[r] + n =< banned'[r] \/ stopped'[r] + n =< now
      <4>1. CASE r = q
        <5>1. stopped'[r] = now
              BY <3>1, <3>2, <4>1 DEF IntakeInv, BansKept
        <5>2. CASE m > 0
          <6>1. banned'[r] = now + m
                BY <3>1, <3>3, <4>1, <5>2 DEF IntakeInv, BansKept
          <6>2. QED BY <3>1, <5>1, <6>1
        <5>3. CASE ~(m > 0)
          <6>1. m = 0
                BY <3>1, <5>3
          <6>2. QED BY <3>1, <5>1, <6>1
        <5>4. QED BY <5>2, <5>3
      <4>2. CASE r # q
        <5>1. stopped'[r] = stopped[r] /\ banned'[r] = banned[r]
              BY <3>1, <3>2, <3>3, <4>2 DEF IntakeInv, BansKept
        <5>2. QED BY <3>5, <5>1 DEF IntakeInv, BansKept
      <4>3. QED BY <4>1, <4>2
    <3>6. QED BY <1>1, <3>4, <3>5 DEF BansKept
  <2>3. QED BY <2>1, <2>2
<1>5. QED BY <1>2, <1>3, <1>4 DEF IntakeInv

LEMMA TicksKeep ==
  ASSUME IntakeInv, Ticks
  PROVE  IntakeInv'
<1>1. /\ UNCHANGED <<rules, at, parsing, relay, rows, life, hashes, accepted, queue, busy, banned, stopped>>
      /\ now' = now + 1 /\ now \in Nat
      BY DEF Ticks, intake, desk, memory, history, IntakeInv, MessagesFine
<1>2. MessagesFine'
      BY <1>1 DEF IntakeInv, MessagesFine
<1>3. RowsKept'
  <2>1. \A r \in rows : Proper(r)'
        BY <1>1 DEF IntakeInv, RowsKept, Proper
  <2>2. \A x \in accepted : x.at =< now'
        BY <1>1 DEF IntakeInv, RowsKept
  <2>3. QED BY <1>1, <2>1, <2>2 DEF IntakeInv, RowsKept
<1>4. BansKept'
  <2>1. ASSUME NEW r \in Roots, stopped[r] # Never
        PROVE  \E n \in {StopMinutes, PanicMinutes} :
                 stopped[r] + n =< banned[r] \/ stopped[r] + n =< now + 1
    <3>1. stopped[r] \in Int /\ StopMinutes \in Nat /\ PanicMinutes \in Nat
          BY GuardAssumption DEF IntakeInv, BansKept
    <3>2. PICK n \in {StopMinutes, PanicMinutes} : stopped[r] + n =< banned[r] \/ stopped[r] + n =< now
          BY <2>1 DEF IntakeInv, BansKept
    <3>3. QED BY <1>1, <3>1, <3>2
  <2>2. QED BY <1>1, <2>1 DEF IntakeInv, BansKept
<1>5. BusyKept' /\ NoDoubleEntry'
      BY <1>1 DEF IntakeInv, BusyKept, NoDoubleEntry, Entered
<1>6. QED BY <1>2, <1>3, <1>4, <1>5 DEF IntakeInv

LEMMA RestartsKeep ==
  ASSUME IntakeInv, Restarts
  PROVE  IntakeInv'
<1>1. /\ UNCHANGED <<now, rules, at, rows, accepted>>
      /\ parsing' = {} /\ relay' = IdleRelay /\ queue' = {} /\ busy' = NoRow
      /\ life' = life + 1
      /\ hashes' = [k \in DOMAIN hashes |-> Never]
      /\ banned' = [r \in Roots |-> 0] /\ stopped' = [r \in Roots |-> Never]
      BY DEF Restarts, Forgets
<1>2. Never \in Int
      BY GuardAssumption
<1>3. MessagesFine'
      BY <1>1 DEF IntakeInv, MessagesFine, IdleRelay
<1>4. RowsKept'
  <2>1. \A r \in rows : Proper(r)'
        BY <1>1 DEF IntakeInv, RowsKept, Proper
  <2>2. hashes' \in [Contents -> Int]
        BY <1>1, <1>2 DEF IntakeInv, RowsKept
  <2>3. \A x \in accepted : x.life =< life' /\ x.life # life'
        BY <1>1 DEF IntakeInv, RowsKept
  <2>4. QED BY <1>1, <2>1, <2>2, <2>3 DEF IntakeInv, RowsKept
<1>5. BansKept'
      BY <1>1, <1>2 DEF BansKept
<1>6. BusyKept' /\ NoDoubleEntry'
      BY <1>1 DEF IntakeInv, BusyKept, NoDoubleEntry, Entered
<1>7. QED BY <1>3, <1>4, <1>5, <1>6 DEF IntakeInv

LEMMA IntakeInductive == Spec => []IntakeInv
<1>1. IntakeInv /\ [Next]_vars => IntakeInv'
  <2>1. SUFFICES ASSUME IntakeInv, [Next]_vars PROVE IntakeInv'
        OBVIOUS
  <2>2. CASE Messages
        BY <2>1, <2>2, MessagesKeep
  <2>3. CASE \E r \in rows : Checks(r)
        BY <2>1, <2>3, ChecksKeep
  <2>4. CASE Desk
        BY <2>1, <2>4, DeskKeeps
  <2>5. CASE \E c \in Contracts, reason \in Reasons : StopsOut(c, reason)
        BY <2>1, <2>5, StopsKeep
  <2>6. CASE Ticks
        BY <2>1, <2>6, TicksKeep
  <2>7. CASE Restarts
        BY <2>1, <2>7, RestartsKeep
  <2>8. CASE UNCHANGED vars
    <3>1. UNCHANGED <<now, rules, at, parsing, relay, rows, life, hashes, accepted, queue, busy, banned, stopped>>
          BY <2>8 DEF vars, guardVars, intake, desk, memory, history
    <3>2. MessagesFine' /\ RowsKept' /\ BansKept'
          BY <2>1, <3>1 DEF IntakeInv, MessagesFine, RowsKept, BansKept, Proper
    <3>3. BusyKept' /\ NoDoubleEntry'
          BY <2>1, <3>1 DEF IntakeInv, BusyKept, NoDoubleEntry, Entered
    <3>4. QED BY <3>2, <3>3 DEF IntakeInv
  <2>9. QED BY <2>1, <2>2, <2>3, <2>4, <2>5, <2>6, <2>7, <2>8 DEF Next, Messages, Desk
<1>2. QED BY Starts, <1>1, PTL DEF Spec

-----------------------------------------------------------------------------
(* What the listener remembers of contents *)

(* An alert of this content was stored and not barred, or is one that the   *)
(* database refused.                                                        *)
Accounted(k) ==
  \/ \E r \in rows : Content(r) = k /\ r.status # "SKIPPED"
  \/ \E q \in Faulty : at[q] # Never /\ \E c \in Post[q].names \cup {NoContract} : k = ContentOf(q, c)

BookKept ==
  /\ seen \in [Contents -> Int]
  /\ \A r \in rows : r.id[1] = r.post
  /\ \A k \in Contents : seen[k] # Never => Accounted(k)
  /\ DroppedForAnother

(* What is under way is of posts that have appeared. *)
Appeared(m) == m.post \in Posts /\ m.id[1] = m.post /\ at[m.post] # Never
CarryKept ==
  /\ copies \in [Posts -> Int]
  /\ \A p \in Posts : copies[p] > 0 => at[p] # Never
  /\ \A m \in parsing : Appeared(m)
  /\ relay.stage # "idle" => at[relay.post] # Never

DropInv == BookKept /\ CarryKept

(* Contents stay accounted for and drops explained while rows are only      *)
(* added and posts only appear.                                             *)
LEMMA MoreAccounts ==
  ASSUME MessagesFine, rows \subseteq rows', \A p \in Posts : at[p] # Never => at'[p] = at[p]
  PROVE  /\ \A k : Accounted(k) => Accounted(k)'
         /\ DroppedForAnother /\ dropped' = dropped => DroppedForAnother'
<1>1. Faulty \subseteq Posts
      BY IntakeAssumption
<1>2. \A k : Accounted(k) => Accounted(k)'
      BY <1>1 DEF Accounted, ContentOf, Content
<1>3. DroppedForAnother /\ dropped' = dropped => DroppedForAnother'
      BY <1>1 DEF DroppedForAnother, ContentOf, Content
<1>4. QED BY <1>2, <1>3

LEMMA SeenOf ==
  ASSUME MessagesFine, BookKept, NEW k \in Contents, Seen(k)
  PROVE  Accounted(k)
<1>1. /\ now \in Nat /\ IngestWindow \in Nat /\ Never \in Int /\ Never + IngestWindow < 0
      /\ seen[k] \in Int
      BY IntakeAssumption, GuardAssumption DEF MessagesFine, BookKept
<1>2. seen[k] # Never
      BY <1>1 DEF Seen
<1>3. QED BY <1>2 DEF BookKept

LEMMA IngestsBook ==
  ASSUME MessagesFine, BookKept, NEW m, Appeared(m),
         NEW c \in Post[m.post].names \cup {NoContract}, Ingests(m, c), UNCHANGED <<now, at>>
  PROVE  BookKept'
<1> DEFINE k == ContentOf(m.post, c)
<1>1. k \in Contents /\ Faulty \subseteq Posts
      BY IntakeAssumption DEF Appeared, ContentOf, Contents, Actions
<1>2. now \in Int /\ now # Never /\ Never \in Int
      BY GuardAssumption DEF MessagesFine
<1>3. \A p \in Posts : at[p] # Never => at'[p] = at[p]
      OBVIOUS
<1>4. CASE Copy(m, c) /\ UNCHANGED <<seen, rows>>
           /\ dropped' = (IF m.hist THEN dropped ELSE dropped \cup {<<m.post, k>>})
  <2>1. rows \subseteq rows'
        BY <1>4
  <2>2. \A j \in Contents : seen'[j] # Never => Accounted(j)'
        BY <1>3, <1>4, <2>1, MoreAccounts DEF BookKept
  <2>3. ~m.hist => \/ \E r \in rows : r.post = m.post
                  \/ Accounted(k)
    <3>1. CASE Known(m)
      <4>1. PICK r \in rows : r.id = m.id
            BY <3>1 DEF Known
      <4>2. r.post = m.post
            BY <4>1 DEF BookKept, Appeared
      <4>3. QED BY <4>2
    <3>2. CASE ~m.hist /\ Seen(k)
          BY <1>1, <3>2, SeenOf
    <3>3. QED BY <1>4, <3>1, <3>2 DEF Copy
  <2>4. DroppedForAnother'
    <3>1. ASSUME NEW d \in dropped'
          PROVE  \/ \E r \in rows' : r.post = d[1] \/ (Content(r) = d[2] /\ r.status # "SKIPPED")
                 \/ \E q \in Faulty : at'[q] # Never /\ \E e \in Post[q].names \cup {NoContract} : d[2] = ContentOf(q, e)
      <4>1. CASE d \in dropped
            BY <1>4, <4>1 DEF BookKept, DroppedForAnother
      <4>2. CASE d = <<m.post, k>> /\ ~m.hist
        <5>1. d[1] = m.post /\ d[2] = k
              BY <4>2
        <5>2. QED BY <1>4, <2>3, <4>2, <5>1 DEF Accounted
      <4>3. QED BY <1>4, <3>1, <4>1, <4>2
    <3>2. QED BY <3>1 DEF DroppedForAnother, ContentOf, Content
  <2>5. QED BY <1>4, <2>2, <2>4 DEF BookKept
<1>5. CASE Raises(m, c) /\ UNCHANGED <<rows, dropped>>
           /\ seen' = (IF m.hist THEN seen ELSE [seen EXCEPT ![k] = now])
  <2>1. m.post \in Faulty
        BY <1>5 DEF Raises
  <2>2. Accounted(k)
        BY <2>1 DEF Accounted, Appeared
  <2>3. /\ seen' \in [Contents -> Int]
        /\ \A j \in Contents : seen'[j] # Never => seen[j] # Never \/ j = k
        BY <1>1, <1>2, <1>5 DEF BookKept
  <2>4. QED BY <1>3, <1>5, <2>2, <2>3, MoreAccounts DEF BookKept
<1>6. CASE Stores(m, c) /\ UNCHANGED dropped
  <2> DEFINE row == RowOf(m, c, IF m.hist THEN "HISTORICAL" ELSE "PENDING")
             barred == rules.dropAtIngest /\ row.author \in rules.blacklist /\ ~MayExit(row)
             stored == IF barred THEN [row EXCEPT !.status = "SKIPPED"] ELSE row
  <2>1. /\ rows' = rows \cup {stored}
        /\ seen' = (IF barred THEN [seen EXCEPT ![k] = Never]
                    ELSE IF m.hist THEN seen ELSE [seen EXCEPT ![k] = now])
        BY <1>6 DEF Stores
  <2>2. /\ stored.id = m.id /\ stored.post = m.post
        /\ row.status # "SKIPPED" /\ Content(row) = k
        BY DEF RowOf, Content, ContentOf
  <2>3. ~barred => Content(stored) = k /\ stored.status # "SKIPPED"
        BY <2>2
  <2> HIDE DEF stored, barred
  <2>4. /\ seen' \in [Contents -> Int]
        /\ \A j \in Contents : seen'[j] # Never => seen[j] # Never \/ (j = k /\ ~barred)
        BY <1>1, <1>2, <2>1 DEF BookKept
  <2>5. ~barred => Accounted(k)'
        BY <2>1, <2>3 DEF Accounted, Content
  <2>6. /\ \A j : Accounted(j) => Accounted(j)'
        /\ DroppedForAnother'
        BY <1>3, <1>6, <2>1, MoreAccounts DEF BookKept
  <2>7. \A r \in rows' : r.id[1] = r.post
        BY <2>1, <2>2 DEF BookKept, Appeared
  <2>8. QED BY <2>4, <2>5, <2>6, <2>7 DEF BookKept
<1>7. QED BY <1>4, <1>5, <1>6 DEF Ingests

LEMMA ReadsBook ==
  ASSUME MessagesFine, BookKept, NEW m, Appeared(m), UNCHANGED <<now, at>>,
         Processes(m) \/ Alarms(m) \/ Reads(m)
  PROVE  BookKept'
<1>1. ASSUME UNCHANGED <<seen, rows, dropped>>
      PROVE  BookKept'
      BY <1>1 DEF BookKept, Accounted, DroppedForAnother, Content, ContentOf
<1>2. CASE Alarms(m)
      BY <1>1, <1>2 DEF Alarms
<1>3. CASE Processes(m)
  <2> DEFINE c == IF Parsed(m.post) = {} THEN NoContract ELSE CHOOSE d \in Parsed(m.post) : TRUE
  <2>1. c \in Post[m.post].names \cup {NoContract}
        BY DEF Parsed, Meant
  <2>2. Alarms(m) \/ Ingests(m, c)
        BY <1>3 DEF Processes
  <2>3. QED BY <1>2, <2>1, <2>2, IngestsBook
<1>4. CASE Reads(m)
      BY <1>1, <1>3, <1>4 DEF Reads
<1>5. QED BY <1>2, <1>3, <1>4

LEMMA ReadsCarry ==
  ASSUME MessagesFine, NEW m, Appeared(m), \A n \in parsing : Appeared(n), UNCHANGED at, Reads(m)
  PROVE  \A n \in parsing' : Appeared(n)'
BY DEF Reads, Appeared

(* What an analyst, the gateway, the forwarder and the model do.            *)
LEMMA MessagesDrop ==
  ASSUME MessagesFine, DropInv, Messages
  PROVE  DropInv'
<1> USE DEF DropInv
<1>1. ASSUME UNCHANGED <<seen, rows, dropped, at>>
      PROVE  BookKept'
      BY <1>1 DEF BookKept, Accounted, DroppedForAnother, Content, ContentOf
<1>2. CASE \E p \in Posts : Appears(p)
  <2>1. PICK p \in Posts : Appears(p)
        BY <1>2
  <2>2. /\ at' = [at EXCEPT ![p] = now] /\ at[p] = Never
        /\ copies' = [copies EXCEPT ![p] = IF p \in Replayed THEN 2 ELSE 1]
        /\ UNCHANGED <<parsing, relay, seen, rows, dropped>>
        BY <2>1 DEF Appears, history
  <2>3. now # Never /\ now \in Int
        BY GuardAssumption DEF MessagesFine
  <2>4. \A q \in Posts : at[q] # Never => at'[q] = at[q]
        BY <2>2 DEF MessagesFine
  <2>5. BookKept'
    <3>1. (\A k : Accounted(k) => Accounted(k)') /\ DroppedForAnother'
          BY <2>2, <2>4, MoreAccounts DEF BookKept
    <3>2. QED BY <2>2, <3>1 DEF BookKept
  <2>6. CarryKept'
    <3>1. at'[p] # Never
          BY <2>2, <2>3 DEF MessagesFine
    <3>2. /\ copies' \in [Posts -> Int]
          /\ \A q \in Posts : copies'[q] > 0 => at'[q] # Never
          BY <2>2, <2>4, <3>1 DEF CarryKept
    <3>3. \A m \in parsing' : Appeared(m)'
          BY <2>2, <2>4 DEF CarryKept, Appeared
    <3>4. relay'.stage # "idle" => at'[relay'.post] # Never
          BY <2>2, <2>4 DEF CarryKept, MessagesFine
    <3>5. QED BY <3>2, <3>3, <3>4 DEF CarryKept
  <2>7. QED BY <2>5, <2>6
<1>3. CASE \E p \in Posts : Delivers(p) \/ Backfills(p)
  <2>1. PICK p \in Posts : Delivers(p) \/ Backfills(p)
        BY <1>3
  <2>2. PICK hist \in BOOLEAN : Reads(Message(p, "own", hist))
        BY <2>1 DEF Delivers, Backfills
  <2>3. /\ at[p] # Never /\ UNCHANGED <<now, at, relay>>
        /\ copies' = copies \/ copies' = [copies EXCEPT ![p] = copies[p] - 1]
        BY <2>1 DEF Delivers, Backfills, CarryKept, guardVars
  <2>4. Appeared(Message(p, "own", hist))
        BY <2>3 DEF Appeared, Message
  <2>5. BookKept'
        BY <2>2, <2>3, <2>4, ReadsBook
  <2>6. /\ copies' \in [Posts -> Int]
        /\ \A q \in Posts : copies'[q] > 0 => at'[q] # Never
        BY <2>3 DEF CarryKept
  <2>7. \A m \in parsing' : Appeared(m)'
        BY <2>2, <2>3, <2>4, ReadsCarry DEF CarryKept
  <2>8. QED BY <2>3, <2>5, <2>6, <2>7 DEF CarryKept
<1>4. CASE \E p \in Posts : Relays(p)
  <2>1. PICK p \in Posts : Relays(p)
        BY <1>4
  <2>2. /\ UNCHANGED <<at, parsing, seen, rows, dropped>>
        /\ copies[p] > 0 /\ copies' = [copies EXCEPT ![p] = copies[p] - 1]
        /\ relay' = relay \/ relay'.post = p
        BY <2>1 DEF Relays, history
  <2>3. CarryKept'
    <3>1. /\ copies' \in [Posts -> Int]
          /\ \A q \in Posts : copies'[q] > 0 => at'[q] # Never
          BY <2>2 DEF CarryKept
    <3>2. at[p] # Never
          BY <2>2 DEF CarryKept
    <3>3. QED BY <2>2, <3>1, <3>2 DEF CarryKept, Appeared
  <2>4. QED BY <1>1, <2>2, <2>3
<1>5. CASE \E m \in parsing : ModelAnswers(m)
  <2>1. PICK m \in parsing : ModelAnswers(m)
        BY <1>5
  <2>2. Appeared(m)
        BY DEF CarryKept
  <2>3. UNCHANGED <<now, at, copies>> /\ parsing' = parsing \ {m}
        BY <2>1 DEF ModelAnswers, guardVars
  <2>4. Processes(m) \/ Alarms(m)
        BY <2>1 DEF ModelAnswers
  <2>5. BookKept'
        BY <2>2, <2>3, <2>4, ReadsBook
  <2>6. relay' = relay \/ relay'.post = m.post \/ relay'.stage = "idle"
        BY <2>1 DEF ModelAnswers, Returns, IdleRelay
  <2>7. relay'.stage # "idle" => at'[relay'.post] # Never
        BY <2>2, <2>3, <2>6 DEF CarryKept, Appeared
  <2>8. QED BY <2>3, <2>5, <2>7 DEF CarryKept, Appeared
<1>6. CASE Injects \/ Hooks
  <2> DEFINE p == relay.post
  <2>1. /\ relay.stage # "idle" /\ UNCHANGED <<now, at, copies>>
        /\ relay' = IdleRelay \/ relay' = relay \/ relay'.post = p
        BY <1>6 DEF Injects, Hooks, Returns, Message, guardVars, MessagesFine
  <2>2. p \in Posts /\ at[p] # Never
        BY <2>1 DEF CarryKept, MessagesFine
  <2>3. (\E via : Reads(Message(p, via, FALSE))) \/ UNCHANGED <<seen, rows, dropped, parsing>>
        BY <1>6 DEF Injects, Hooks
  <2>4. \A via : Appeared(Message(p, via, FALSE))
        BY <2>2 DEF Appeared, Message
  <2>5. BookKept' /\ \A m \in parsing' : Appeared(m)'
    <3>1. CASE UNCHANGED <<seen, rows, dropped, parsing>>
          BY <1>1, <2>1, <3>1 DEF CarryKept, Appeared
    <3>2. CASE \E via : Reads(Message(p, via, FALSE))
      <4>1. PICK via : Reads(Message(p, via, FALSE))
            BY <3>2
      <4>2. Appeared(Message(p, via, FALSE))
            BY <2>4
      <4>3. BookKept'
            BY <2>1, <4>1, <4>2, ReadsBook
      <4>4. \A m \in parsing' : Appeared(m)'
            BY <2>1, <4>1, <4>2, ReadsCarry DEF CarryKept
      <4>5. QED BY <4>3, <4>4
    <3>3. QED BY <2>3, <3>1, <3>2
  <2>6. relay'.stage # "idle" => at'[relay'.post] # Never
        BY <2>1, <2>2 DEF IdleRelay, CarryKept
  <2>7. QED BY <2>1, <2>5, <2>6 DEF CarryKept
<1>7. QED BY <1>2, <1>3, <1>4, <1>5, <1>6 DEF Messages

(* The desk and the clock leave it all; a restart forgets but the rows.     *)
LEMMA OthersDrop ==
  ASSUME MessagesFine, DropInv, [Next]_vars, ~Messages
  PROVE  DropInv'
<1>1. CASE Restarts
  <2>1. /\ UNCHANGED <<at, copies, rows, dropped>>
        /\ parsing' = {} /\ relay' = IdleRelay /\ seen' = [k \in Contents |-> Never]
        BY <1>1 DEF Restarts
  <2>2. Never \in Int
        BY GuardAssumption
  <2>3. BookKept'
    <3>1. seen' \in [Contents -> Int] /\ \A k \in Contents : seen'[k] = Never
          BY <2>1, <2>2
    <3>2. DroppedForAnother'
          BY <2>1 DEF DropInv, BookKept, DroppedForAnother, Content, ContentOf
    <3>3. QED BY <2>1, <3>1, <3>2 DEF DropInv, BookKept
  <2>4. CarryKept'
        BY <2>1 DEF DropInv, CarryKept, IdleRelay
  <2>5. QED BY <2>3, <2>4 DEF DropInv
<1>2. CASE ~Restarts
  <2>1. UNCHANGED <<at, copies, parsing, relay, seen, rows, dropped>>
        BY <1>2 DEF Next, Messages, Checks, Buys, Sells, Fills, Lapses, Sold, MarksTo, StopsOut, Reconciles, Ticks,
           vars, intake, history
  <2>2. BookKept'
        BY <2>1 DEF DropInv, BookKept, Accounted, DroppedForAnother, Content, ContentOf
  <2>3. CarryKept'
        BY <2>1 DEF DropInv, CarryKept, Appeared
  <2>4. QED BY <2>2, <2>3 DEF DropInv
<1>3. QED BY <1>1, <1>2

LEMMA DropInductive == Spec => [](MessagesFine /\ DropInv)
<1>1. Init => DropInv
  <2>1. SUFFICES ASSUME Init PROVE DropInv
        OBVIOUS
  <2>2. Never \in Int
        BY GuardAssumption
  <2>3. BookKept
        BY <2>1, <2>2 DEF Init, BookKept, DroppedForAnother
  <2>4. CarryKept
        BY <2>1 DEF Init, CarryKept, IdleRelay
  <2>5. QED BY <2>3, <2>4 DEF DropInv
<1>2. DropInv /\ IntakeInv /\ [Next]_vars => DropInv'
      BY MessagesDrop, OthersDrop DEF IntakeInv
<1>3. IntakeInv => MessagesFine
      BY DEF IntakeInv
<1>4. QED BY <1>1, <1>2, <1>3, IntakeInductive, PTL DEF Spec

-----------------------------------------------------------------------------
(* Theorems *)

(* Copies of one signal, however they arrive, are one entry: of any two of  *)
(* one content the second came after the window, over any number of         *)
(* restarts.  (An entry that a run of the process took from the channel's   *)
(* history is known to that run alone.)                                     *)
THEOREM CopiesEnterOnce == Spec => []NoDoubleEntry
<1>1. IntakeInv => NoDoubleEntry
      BY DEF IntakeInv
<1>2. QED BY <1>1, IntakeInductive, PTL

(* An exit by alert sells its author's own, under any switches.             *)
THEOREM ExitsStayHome == Spec => NoForeignExit
<1>1. IntakeInv /\ [Next]_vars =>
        [\A c \in Contracts :
           c \in selling' \ selling /\ busy # NoRow /\ busy' = NoRow =>
             /\ pos[c].owner \in {Nobody, busy.author}
             /\ rules.on /\ rules.blockExits /\ busy.author \in rules.blacklist =>
                  rules.ownerExit /\ busy.contract = c]_vars
  <2>1. SUFFICES ASSUME IntakeInv, Next, NEW c \in Contracts,
                        c \in selling' \ selling, busy # NoRow, busy' = NoRow
                 PROVE  /\ pos[c].owner \in {Nobody, busy.author}
                        /\ rules.on /\ rules.blockExits /\ busy.author \in rules.blacklist =>
                             rules.ownerExit /\ busy.contract = c
        OBVIOUS
  <2>2. CASE \E r \in rows : Sells(r)
    <3>1. PICK r \in rows : Sells(r)
          BY <2>2
    <3>2. busy = r /\ r.action = "SELL"
          BY <3>1 DEF Sells, Exit
    <3>3. c \in Closes(r)
          BY <2>1, <3>1 DEF Sells
    <3>4. Holds(r.author, c) /\ (r.contract = NoContract \/ r.contract = c)
          BY <3>3 DEF Closes
    <3>5. pos[c].owner \in {Nobody, r.author}
          BY <3>4 DEF Holds
    <3>6. ASSUME rules.on, rules.blockExits, busy.author \in rules.blacklist
          PROVE  rules.ownerExit /\ busy.contract = c
      <4>1. rules.ownerExit /\ r.contract \in Contracts
            BY <2>1, <3>2, <3>6 DEF IntakeInv, BusyKept
      <4>2. QED BY <3>2, <3>4, <4>1, GuardAssumption
    <3>7. QED BY <3>2, <3>5, <3>6
  <2>3. CASE Messages
    <3>1. UNCHANGED Apart
          BY <2>1, <2>3, MessagesTook DEF IntakeInv
    <3>2. UNCHANGED busy
          BY <3>1 DEF Apart
    <3>3. QED BY <2>1, <3>2
  <2>4. CASE \E r \in rows : Checks(r) \/ Buys(r)
        BY <2>1, <2>4 DEF Checks, Buys, trades
  <2>5. CASE Reconciles \/ Ticks \/ Restarts
        BY <2>1, <2>5 DEF Reconciles, Ticks, Restarts, desk, trades
  <2>6. CASE \E r \in buys : Fills(r) \/ Lapses(r)
        BY <2>1, <2>6 DEF Fills, Lapses
  <2>7. CASE \E d \in Contracts : Sold(d)
        BY <2>1, <2>7 DEF Sold
  <2>8. CASE \E d \in Contracts, m \in Marked : MarksTo(d, m)
        BY <2>1, <2>8 DEF MarksTo, desk
  <2>9. CASE \E d \in Contracts, reason \in Reasons : StopsOut(d, reason)
        BY <2>1, <2>9 DEF StopsOut
  <2>10. QED BY <2>1, <2>2, <2>3, <2>4, <2>5, <2>6, <2>7, <2>8, <2>9 DEF Next, Messages
<1>2. QED BY <1>1, IntakeInductive, PTL DEF Spec, NoForeignExit

(* No entry is let pass under a ban, for any lengths of bans and any order  *)
(* of stops.                                                                *)
THEOREM BansBar == Spec => NoRevengeEntry
<1>1. IntakeInv /\ [Next]_vars =>
        [\A x \in accepted' \ accepted :
           rules.on /\ x.row.action = "BUY" /\ stopped[RootOf[x.row.contract]] # Never =>
             \E m \in {StopMinutes, PanicMinutes} : now - stopped[RootOf[x.row.contract]] >= m]_vars
  <2>1. SUFFICES ASSUME IntakeInv, Next, NEW x \in accepted' \ accepted,
                        rules.on, x.row.action = "BUY", stopped[RootOf[x.row.contract]] # Never
                 PROVE  \E m \in {StopMinutes, PanicMinutes} :
                          now - stopped[RootOf[x.row.contract]] >= m
        OBVIOUS
  <2>2. CASE \E r \in rows : Checks(r)
    <3>1. PICK r \in rows : Checks(r)
          BY <2>2
    <3>2. Passes(r, rows, Entries) /\ x.row = r
          BY <2>1, <3>1 DEF Checks
    <3>3. ~Banned(r.contract) /\ r.contract \in Contracts
          BY <2>1, <3>2 DEF Passes, Enters, IntakeInv, RowsKept, Proper
    <3> DEFINE q == RootOf[r.contract]
    <3>4. q \in Roots /\ ~(now < banned[q])
          BY <3>3 DEF Banned, Roots
    <3>5. stopped[q] \in Int /\ banned[q] \in Int /\ now \in Int
          BY <2>1, <3>4 DEF IntakeInv, BansKept, MessagesFine
    <3>6. StopMinutes \in Nat /\ PanicMinutes \in Nat
          BY GuardAssumption
    <3>7. PICK m \in {StopMinutes, PanicMinutes} : stopped[q] + m =< banned[q] \/ stopped[q] + m =< now
          BY <2>1, <3>2, <3>4 DEF IntakeInv, BansKept
    <3>8. now - stopped[q] >= m
          BY <3>4, <3>5, <3>6, <3>7
    <3>9. QED BY <3>2, <3>8
  <2>3. CASE Messages
    <3>1. UNCHANGED Apart
          BY <2>1, <2>3, MessagesTook DEF IntakeInv
    <3>2. UNCHANGED accepted
          BY <3>1 DEF Apart
    <3>3. QED BY <2>1, <3>2
  <2>4. CASE Desk
        BY <2>1, <2>4 DEF Desk, Buys, Sells, Fills, Lapses, Sold, MarksTo, Reconciles, history
  <2>5. CASE \E c \in Contracts, reason \in Reasons : StopsOut(c, reason)
        BY <2>1, <2>5 DEF StopsOut
  <2>6. CASE Ticks \/ Restarts
        BY <2>1, <2>6 DEF Ticks, Restarts, history
  <2>7. QED BY <2>1, <2>2, <2>3, <2>4, <2>5, <2>6 DEF Next, Messages, Desk
<1>2. QED BY <1>1, IntakeInductive, PTL DEF Spec, NoRevengeEntry

(* What process_message takes for a copy is one: of a content remembered an *)
(* alert was stored that no blacklist barred, or the database refused the   *)
(* row.  For any windows, replays, backfills and restarts, through every    *)
(* way into the pipeline.                                                   *)
THEOREM CopiesAreOfAnother == Spec => []DroppedForAnother
<1>1. DropInv => DroppedForAnother
      BY DEF DropInv, BookKept
<1>2. QED BY <1>1, DropInductive, PTL
=============================================================================
