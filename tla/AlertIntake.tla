---------------------------- MODULE AlertIntake ----------------------------
(***************************************************************************)
(* From a message in a Discord channel to an order: the gateway client and *)
(* the forwarder (app/ingest/discord_listener.py, forwarder.py), the       *)
(* guardrails, and the worker that trades what they let pass.              *)
(*                                                                         *)
(* One signal reaches the listener more than once: posted in two channels, *)
(* relayed as a webhook's message under an id of its own, mirrored by a    *)
(* peer, replayed after a reconnect, backfilled after a restart.  Three    *)
(* memories tell copies apart: the forwarder's of texts, the listener's of *)
(* contents, and the guardrails'; and two keys of the alert rows, the      *)
(* message id and the content.                                             *)
(***************************************************************************)
EXTENDS GuardChain

CONSTANTS
  Posts, NoPost,
  Post,           \* what each says, and where
  Groups,         \* bound: the sets of posts that appear in one behaviour
  SomeRules,      \* the configurations
  IngestWindow, ForwardWindow,
  Replayed,       \* posts the gateway or a mirror may deliver twice
  Backfilled,     \* posts within the history limit of a restart
  StopBound,      \* bound: the stops of one underlying
  Doomed,         \* bound: contracts whose orders may end unfilled
  Faulty,         \* posts whose row the database fails to store
  Marked, Reasons,   \* what a mark may come to, and why the monitor sells
  MaxRestarts

ASSUME IntakeAssumption ==
  /\ NoPost \notin Posts
  /\ {IngestWindow, ForwardWindow, MaxRestarts} \subseteq Nat
  /\ Never + ForwardWindow < 0 /\ Never + IngestWindow < 0
  /\ Replayed \cup Backfilled \cup Faulty \subseteq Posts
  /\ \A p \in Posts : /\ Post[p].action \in {"BUY", "SELL"}
                      /\ Post[p].names \subseteq Contracts
                      /\ Post[p].action = "BUY" => Post[p].names # {}

VARIABLES
  at,         \* when a post appeared in its channel, Never before
  copies,     \* how often the gateway still owes a delivery
  parsing,    \* messages whose text is with the model
  relay,      \* the source post the forwarder is busy with, and how
  texts,      \* _forwarded_hashes
  seen,       \* _recent_content of the listener
  rows,       \* the alert rows
  queue,      \* rows dispatched to the worker
  busy,       \* the row the worker checked and has not traded
  buys,       \* rows whose entry is placed and not filled
  filled,     \* how many entries have filled
  selling,    \* contracts a sale of which is placed and not filled
  alarmed,    \* _seen of unparsed_alarm
  life,       \* restarts so far
  accepted,   \* history: what passed the guardrails, when, in which life
  dropped,    \* history: posts whose live delivery was taken for a copy
  stopped     \* history: the last counted stop of a root in this life

trades == <<buys, filled, selling>>
intake == <<at, copies, parsing, relay, texts, seen, rows, alarmed>>
desk == <<queue, busy, trades>>
history == <<accepted, dropped, stopped>>
vars == <<guardVars, intake, desk, life, history>>

(* The message as it arrives: the post's own id, or the webhook's.          *)
Message(p, via, hist) == [post |-> p, id |-> <<p, via>>, via |-> via, hist |-> hist]

NoRow == [id |-> <<NoPost, "own">>, post |-> NoPost]
IdleRelay == [post |-> NoPost, stage |-> "idle"]

(* A post that names one contract; one without a ticker names several.      *)
Named(p) == IF Post[p].names = {} THEN NoContract ELSE CHOOSE c \in Post[p].names : TRUE
ContentOf(p, c) == <<c, Post[p].action, Post[p].price>>
Contents == (Contracts \cup {NoContract}) \X Actions \X {Post[p].price : p \in Posts}

Init ==
  /\ GuardInit(Contents, SomeRules)
  /\ at = [p \in Posts |-> Never]
  /\ copies = [p \in Posts |-> 0]
  /\ parsing = {}
  /\ relay = IdleRelay
  /\ texts = [p \in {Post[q].text : q \in Posts} |-> Never]
  /\ seen = [k \in Contents |-> Never]
  /\ rows = {}
  /\ queue = {}
  /\ busy = NoRow
  /\ buys = {}
  /\ filled = 0
  /\ selling = {}
  /\ alarmed = {}
  /\ life = 0
  /\ accepted = {}
  /\ dropped = {}
  /\ stopped = [r \in Roots |-> Never]

-----------------------------------------------------------------------------
(* _persist_alert and what process_message does with its answer *)

RowOf(m, c, status) ==
  [id |-> m.id, post |-> m.post, author |-> Post[m.post].author, action |-> Post[m.post].action,
   contract |-> c, price |-> Post[m.post].price, roll |-> Post[m.post].roll, dear |-> Post[m.post].dear,
   at |-> IF m.via = "own" THEN at[m.post] ELSE now, status |-> status]

Known(m) == \E r \in rows : r.id = m.id
Seen(k) == seen[k] >= now - IngestWindow

(* Mutant: the content of a dropped alert is not forgotten. *)
StoresPoisoned(m, c) ==
  LET k == ContentOf(m.post, c)
      row == RowOf(m, c, IF m.hist THEN "HISTORICAL" ELSE "PENDING")
      barred == row.author \in rules.blacklist /\ ~MayExit(row) IN
  /\ seen' = IF m.hist THEN seen ELSE [seen EXCEPT ![k] = now]
  /\ rows' = rows \cup {IF barred THEN [row EXCEPT !.status = "SKIPPED"] ELSE row}
  /\ queue' = IF barred \/ (m.hist /\ ~rules.execHistory) THEN queue ELSE queue \cup {row}

(* The row is stored and dispatched; a blacklisted author's is stored, its  *)
(* content forgotten for the sake of a later copy, and goes no further.     *)
Stores(m, c) ==
  LET k == ContentOf(m.post, c)
      row == RowOf(m, c, IF m.hist THEN "HISTORICAL" ELSE "PENDING")
      barred == rules.dropAtIngest /\ row.author \in rules.blacklist /\ ~MayExit(row) IN
  /\ seen' = IF barred THEN [seen EXCEPT ![k] = Never]
             ELSE IF m.hist THEN seen ELSE [seen EXCEPT ![k] = now]
  /\ rows' = rows \cup {IF barred THEN [row EXCEPT !.status = "SKIPPED"] ELSE row}
  /\ queue' = IF barred \/ (m.hist /\ ~rules.execHistory) THEN queue ELSE queue \cup {row}

(* A message taken for a copy: a known id, or a content of a moment ago.    *)
Copy(m, c) == Known(m) \/ (~m.hist /\ Seen(ContentOf(m.post, c)))

(* The database does not store the row, and the pipeline raises.            *)
Raises(m, c) == ~Copy(m, c) /\ m.post \in Faulty

(* A message whose contract is c.  The content is remembered before the row *)
(* is stored, and stays so when that fails.                                 *)
Ingests(m, c) ==
  LET k == ContentOf(m.post, c) IN
  \/ /\ Copy(m, c)
     /\ dropped' = IF m.hist THEN dropped ELSE dropped \cup {<<m.post, k>>}
     /\ UNCHANGED <<seen, rows, queue>>
  \/ /\ Raises(m, c)
     /\ seen' = IF m.hist THEN seen ELSE [seen EXCEPT ![k] = now]
     /\ UNCHANGED <<rows, queue, dropped>>
  \/ /\ ~Copy(m, c) /\ m.post \notin Faulty
     /\ Stores(m, c)
     /\ UNCHANGED dropped

(* alarm_if_order_shaped: once for a text.                                  *)
Alarms(m) ==
  /\ alarmed' = alarmed \cup {Post[m.post].text}
  /\ UNCHANGED <<seen, rows, queue, dropped>>

(* _resolve_missing_ticker: the one contract of those it may mean that the  *)
(* author holds.                                                            *)
Meant(p) == {c \in Post[p].names : Holds(Post[p].author, c)}

Parsed(p) == IF Post[p].parse = "tickerless" THEN Meant(p) ELSE Post[p].names

(* process_message once the text is read: one contract, all of them (a      *)
(* flatten), or nothing that can be an order.                               *)
Processes(m) ==
  LET p == m.post IN
  IF Post[p].parse = "tickerless" /\ Cardinality(Meant(p)) # 1
    THEN Alarms(m)
    ELSE /\ Ingests(m, IF Parsed(p) = {} THEN NoContract ELSE CHOOSE c \in Parsed(p) : TRUE)
         /\ UNCHANGED alarmed

(* Read on the spot, or with the model for a while.                         *)
Reads(m) ==
  IF Post[m.post].parse = "model"
    THEN parsing' = parsing \cup {m} /\ UNCHANGED <<seen, rows, queue, dropped, alarmed>>
    ELSE Processes(m) /\ UNCHANGED parsing

Marks(p) == texts' = [texts EXCEPT ![Post[p].text] = now]

(* inject_forwarded returns when the pipeline has.  When that raised, the   *)
(* webhook follows; else the text is marked, whatever became of it.         *)
Returns(p, raised) ==
  IF raised THEN relay' = [post |-> p, stage |-> "hook"] /\ UNCHANGED texts
            ELSE relay' = IdleRelay /\ Marks(p)

Awaited(m) == relay = [post |-> m.post, stage |-> "await"] /\ m.via = "own"

(* The model answers, or has no answer.                                     *)
ModelAnswers(m) ==
  /\ m \in parsing
  /\ parsing' = parsing \ {m}
  /\ \/ /\ Processes(m)
        /\ IF Awaited(m) THEN Returns(m.post, Raises(m, Named(m.post))) ELSE UNCHANGED <<relay, texts>>
     \/ /\ Alarms(m)
        /\ IF Awaited(m) THEN Returns(m.post, FALSE) ELSE UNCHANGED <<relay, texts>>
  /\ UNCHANGED <<guardVars, at, copies, busy, trades, life, accepted, stopped>>

-----------------------------------------------------------------------------
(* Deliveries *)

Watched(p) == Post[p].channel = "watched"

(* An analyst posts. *)
Appears(p) ==
  /\ at[p] = Never
  /\ \E g \in Groups : {q \in Posts : at[q] # Never} \cup {p} \subseteq g
  /\ at' = [at EXCEPT ![p] = now]
  /\ copies' = [copies EXCEPT ![p] = IF p \in Replayed THEN 2 ELSE 1]
  /\ UNCHANGED <<guardVars, parsing, relay, texts, seen, rows, alarmed, desk, life, history>>

(* on_message of a watched channel, or a peer's mirror. *)
Delivers(p) ==
  /\ Watched(p)
  /\ copies[p] > 0
  /\ copies' = [copies EXCEPT ![p] = @ - 1]
  /\ Reads(Message(p, "own", FALSE))
  /\ UNCHANGED <<guardVars, at, relay, texts, busy, trades, life, accepted, stopped>>

(* backfill_history, after a restart. *)
Backfills(p) ==
  /\ Watched(p)
  /\ p \in Backfilled
  /\ life > 0
  /\ at[p] # Never
  /\ Reads(Message(p, "own", TRUE))
  /\ UNCHANGED <<guardVars, at, copies, relay, texts, busy, trades, life, accepted, stopped>>

(* The forwarder takes the next message of a source channel: a text it      *)
(* relayed a moment ago, a direct dispatch, or the webhook.                 *)
Relays(p) ==
  /\ ~Watched(p)
  /\ relay = IdleRelay
  /\ copies[p] > 0
  /\ copies' = [copies EXCEPT ![p] = @ - 1]
  /\ IF texts[Post[p].text] >= now - ForwardWindow THEN UNCHANGED relay
     ELSE relay' = [post |-> p, stage |-> IF rules.direct THEN "direct" ELSE "hook"]
  /\ UNCHANGED <<guardVars, at, parsing, texts, seen, rows, alarmed, desk, life, history>>

(* The listener is called in process. *)
Injects ==
  LET m == Message(relay.post, "own", FALSE) IN
  /\ relay.stage = "direct"
  /\ Reads(m)
  /\ IF Post[m.post].parse = "model"
       THEN relay' = [relay EXCEPT !.stage = "await"] /\ UNCHANGED texts
       ELSE Returns(m.post, Post[m.post].parse = "regex" /\ Raises(m, Named(m.post)))
  /\ UNCHANGED <<guardVars, at, copies, busy, trades, life, accepted, stopped>>

(* send_to_webhook: the copy appears in the watched channel, once more when *)
(* the answer was lost and the POST repeated; or it fails, and the message  *)
(* is gone.                                                                 *)
Hooks ==
  LET p == relay.post IN
  /\ relay.stage = "hook"
  /\ \/ Reads(Message(p, "hook", FALSE)) /\ Marks(p) /\ relay' = IdleRelay
     \/ p \in Replayed /\ Reads(Message(p, "hook2", FALSE)) /\ UNCHANGED <<texts, relay>>
     \/ relay' = IdleRelay /\ UNCHANGED <<texts, seen, rows, queue, dropped, alarmed, parsing>>
  /\ UNCHANGED <<guardVars, at, copies, busy, trades, life, accepted, stopped>>

-----------------------------------------------------------------------------
(* The worker *)

Free == busy = NoRow
Exit(r) == r.action = "SELL"

(* The order rows of today's entries that work or have filled.              *)
Entries == Cardinality(buys) + filled

(* execute() of a row: exits first, the guardrails in a thread.             *)
Checks(r) ==
  /\ Free
  /\ r \in queue
  /\ ~Exit(r) => \A q \in queue : ~Exit(q)
  /\ queue' = queue \ {r}
  /\ IF Passes(r, rows, Entries)
       THEN /\ busy' = r
            /\ Records(r)
            /\ accepted' = accepted \cup {[row |-> r, at |-> now, life |-> life]}
       ELSE UNCHANGED <<busy, memory, accepted>>
  /\ UNCHANGED <<now, rules, pos, reconciled, intake, trades, life, dropped, stopped>>

(* _buy: not into another's position. *)
Buys(r) ==
  /\ busy = r
  /\ ~Exit(r)
  /\ buys' = IF pos[r.contract].open /\ ~Holds(r.author, r.contract) THEN buys ELSE buys \cup {r}
  /\ busy' = NoRow
  /\ UNCHANGED <<guardVars, intake, queue, filled, selling, life, history>>

(* _match_open_positions and _scope_to_owner: what the exit may close. *)
Closes(r) == {c \in IF r.contract = NoContract THEN Contracts ELSE {r.contract} : Holds(r.author, c)}

Sells(r) ==
  /\ busy = r
  /\ Exit(r)
  /\ selling' = selling \cup Closes(r)
  /\ busy' = NoRow
  /\ UNCHANGED <<guardVars, intake, queue, buys, filled, life, history>>

-----------------------------------------------------------------------------
(* The rest of the process, and the world *)

(* The poller books an entry.  A row that is open already keeps its owner. *)
Fills(r) ==
  /\ r \in buys
  /\ buys' = buys \ {r}
  /\ filled' = filled + 1
  /\ pos' = [pos EXCEPT ![r.contract] =
       IF @.open THEN @ ELSE [open |-> TRUE, owner |-> r.author, mark |-> "none", since |-> now]]
  /\ UNCHANGED <<now, rules, memory, reconciled, intake, queue, busy, selling, life, history>>

(* An entry ends unfilled: cancelled, rejected or expired.                  *)
Lapses(r) ==
  /\ r \in buys /\ r.contract \in Doomed
  /\ buys' = buys \ {r}
  /\ UNCHANGED <<guardVars, intake, queue, busy, filled, selling, life, history>>

(* The poller books an exit, or finds it dead. *)
Sold(c) ==
  /\ c \in selling
  /\ selling' = selling \ {c}
  /\ \/ pos' = [pos EXCEPT ![c] = NoPosition]
     \/ c \in Doomed /\ UNCHANGED pos
  /\ UNCHANGED <<now, rules, memory, reconciled, intake, queue, busy, buys, filled, life, history>>

(* The monitor marks a position. *)
MarksTo(c, m) ==
  /\ pos[c].open
  /\ pos[c].mark # m
  /\ pos' = [pos EXCEPT ![c].mark = m]
  /\ UNCHANGED <<now, rules, memory, reconciled, intake, desk, life, history>>

(* The monitor places a stop's sale; the ban counts from there, whatever    *)
(* becomes of the sale.                                                     *)
StopsOut(c, reason) ==
  /\ pos[c].open /\ c \notin selling
  /\ stops[RootOf[c]] < StopBound
  /\ selling' = selling \cup {c}
  /\ Bans(c, reason)
  /\ stopped' = IF reason = "TRAIL_HIT" THEN stopped ELSE [stopped EXCEPT ![RootOf[c]] = now]
  /\ UNCHANGED <<now, rules, pos, reconciled, intake, queue, busy, buys, filled, life, accepted, dropped>>

Reconciles ==
  /\ ~reconciled
  /\ reconciled' = TRUE
  /\ UNCHANGED <<now, rules, pos, memory, intake, desk, life, history>>

Ticks ==
  /\ now < MaxTime
  /\ now' = now + 1
  /\ UNCHANGED <<rules, pos, memory, reconciled, intake, desk, life, history>>

(* What is in memory is gone: windows, queue, messages at work.  Orders at  *)
(* the broker fill all the same.                                            *)
Restarts ==
  /\ life < MaxRestarts
  /\ life' = life + 1
  /\ Forgets
  /\ parsing' = {}
  /\ relay' = IdleRelay
  /\ texts' = [t \in DOMAIN texts |-> Never]
  /\ seen' = [k \in Contents |-> Never]
  /\ alarmed' = {}
  /\ queue' = {}
  /\ busy' = NoRow
  /\ reconciled' = FALSE
  /\ stopped' = [r \in Roots |-> Never]
  /\ UNCHANGED <<now, rules, pos, at, copies, rows, trades, accepted, dropped>>

Next ==
  \/ \E p \in Posts : Appears(p) \/ Delivers(p) \/ Backfills(p) \/ Relays(p)
  \/ \E m \in parsing : ModelAnswers(m)
  \/ Injects \/ Hooks
  \/ \E r \in rows : Checks(r) \/ Buys(r) \/ Sells(r)
  \/ \E r \in buys : Fills(r) \/ Lapses(r)
  \/ \E c \in Contracts : \/ Sold(c)
                          \/ \E m \in Marked : MarksTo(c, m)
                          \/ \E reason \in Reasons : StopsOut(c, reason)
  \/ Reconciles \/ Ticks \/ Restarts

Spec == Init /\ [][Next]_vars

-----------------------------------------------------------------------------
(* Properties *)

Entered == {x \in accepted : x.row.action = "BUY"}

(* One signal, one entry: of two entries of one content the later was let   *)
(* pass when the earlier alert was older than the window, though the        *)
(* process forgot all it remembers in between.  (A backfilled row is not    *)
(* looked for: of its entry only the process that made it knows.)           *)
NoDoubleEntry ==
  rules.on => \A x, y \in Entered :
    /\ x # y /\ Content(x.row) = Content(y.row)
    /\ x.life = y.life \/ (x.life < y.life /\ x.row.status # "HISTORICAL")
    => y.at - x.row.at > CrossWindow \/ x.at - y.row.at > CrossWindow

(* The listener takes a live message for a copy only of an alert that was   *)
(* stored and not barred, or of itself: a barred author's copy never costs  *)
(* an allowed author's.  (A row the database refused does.)                 *)
DroppedForAnother ==
  \A d \in dropped :
    \/ \E r \in rows : r.post = d[1] \/ (Content(r) = d[2] /\ r.status # "SKIPPED")
    \/ \E q \in Faulty : at[q] # Never /\ \E c \in Post[q].names \cup {NoContract} : d[2] = ContentOf(q, c)

(* A sale by an alert is of what is the author's or nobody's, and, where    *)
(* the blacklist is to stop exits, none of a blacklisted author's but of a  *)
(* contract he names under the exception for owners.                        *)
NoForeignExit ==
  [][\A c \in Contracts :
       c \in selling' \ selling /\ busy # NoRow /\ busy' = NoRow =>
         /\ pos[c].owner \in {Nobody, busy.author}
         /\ rules.on /\ rules.blockExits /\ busy.author \in rules.blacklist =>
              rules.ownerExit /\ busy.contract = c]_vars

(* After a stop that counts, nothing of that underlying is let pass for the *)
(* shorter of the two bans, whatever stops follow and however entries and   *)
(* fills overlap, as long as the process lives.                             *)
NoRevengeEntry ==
  [][\A x \in accepted' \ accepted :
       rules.on /\ x.row.action = "BUY" /\ stopped[RootOf[x.row.contract]] # Never =>
         \E m \in {StopMinutes, PanicMinutes} : now - stopped[RootOf[x.row.contract]] >= m]_vars
=============================================================================
