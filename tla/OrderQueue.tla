----------------------------- MODULE OrderQueue -----------------------------
(***************************************************************************)
(* app/execution/order_queue.py: the one worker that runs every analyst    *)
(* order, exits before entries, and the callers' fallback to a task of     *)
(* their own when it is not there or its queue is full.                    *)
(*                                                                         *)
(* A job is a call of dispatch_execution and what it hands over.  Jobs do  *)
(* nothing here but last; EntryGate gives the buying ones a body.          *)
(***************************************************************************)
EXTENDS Integers, FiniteSets, SequencesExt

CONSTANTS Jobs,
          NoJob,
          ExitJobs,    \* the jobs dispatched with PRIORITY_EXIT
          MaxSize,     \* of the PriorityQueue
          JobTimeout   \* order_job_timeout_seconds > 0

ASSUME JobAssumption == /\ NoJob \notin Jobs
                        /\ ExitJobs \subseteq Jobs
                        /\ MaxSize \in Nat \ {0}
                        /\ JobTimeout \in BOOLEAN

VARIABLES
  state,   \* of each job: not yet dispatched, in the queue, run by the worker,
           \* awaiting something that never comes, run aside of it, over
  ticket,  \* the sequence number each job was queued with
  seq,     \* _seq: the next number
  up       \* is_running()

queueVars == <<state, ticket, seq, up>>

NoTicket == -1

QueueInit ==
  /\ state = [j \in Jobs |-> "new"]
  /\ ticket = [j \in Jobs |-> NoTicket]
  /\ seq = 0
  /\ up = FALSE

Queued == {j \in Jobs : state[j] = "queued"}
AtWork == {j \in Jobs : state[j] \in {"running", "wedged"}}

(* The order of the heap: (priority, seq). *)
Earlier(j, k) == ticket[j] < ticket[k]
SameLane(j, k) == j \in ExitJobs <=> k \in ExitJobs

(* Mutants: arrival order alone; the newest of a lane first. *)
BeforeFIFO(j, k) == Earlier(j, k)
BeforeLIFO(j, k) == \/ j \in ExitJobs /\ k \notin ExitJobs
                    \/ SameLane(j, k) /\ Earlier(k, j)
Before(j, k) == \/ j \in ExitJobs /\ k \notin ExitJobs
                \/ SameLane(j, k) /\ Earlier(j, k)

-----------------------------------------------------------------------------
(* start_order_worker; a second call finds the worker alive. *)
Starts == /\ ~up
          /\ up' = TRUE
          /\ UNCHANGED <<state, ticket, seq>>

(* dispatch_execution, and its callers' create_task when it returns False.  *)
(* The number is drawn before the queue turns out to be full.               *)
Dispatches(j) ==
  /\ state[j] = "new"
  /\ seq' = IF up THEN seq + 1 ELSE seq
  /\ IF up /\ Cardinality(Queued) < MaxSize
       THEN /\ state' = [state EXCEPT ![j] = "queued"]
            /\ ticket' = [ticket EXCEPT ![j] = seq]
       ELSE /\ state' = [state EXCEPT ![j] = "aside"]
            /\ UNCHANGED ticket
  /\ UNCHANGED up

(* The worker takes the least of the heap. *)
Takes(j) ==
  /\ up
  /\ AtWork = {}
  /\ state[j] = "queued"
  /\ \A k \in Queued \ {j} : Before(j, k)
  /\ state' = [state EXCEPT ![j] = "running"]
  /\ UNCHANGED <<ticket, seq, up>>

(* The job returned or raised; the worker outlives either. *)
Returns(j) ==
  /\ state[j] \in {"running", "aside"}
  /\ state' = [state EXCEPT ![j] = "over"]
  /\ UNCHANGED <<ticket, seq, up>>

(* The job awaits an answer that does not come. *)
Wedges(j) ==
  /\ state[j] = "running"
  /\ state' = [state EXCEPT ![j] = "wedged"]
  /\ UNCHANGED <<ticket, seq, up>>

(* Mutant: only a job that would have returned is ever abandoned. *)
AbandonsNone(j) == JobTimeout /\ Returns(j)

(* wait_for cancels the job; the worker abandons it and goes on. *)
Abandons(j) ==
  /\ JobTimeout
  /\ state[j] \in {"running", "wedged"}
  /\ state' = [state EXCEPT ![j] = "over"]
  /\ UNCHANGED <<ticket, seq, up>>

QueueNext == \/ Starts
             \/ \E j \in Jobs : Dispatches(j) \/ Takes(j) \/ Returns(j) \/ Wedges(j) \/ Abandons(j)

QueueSpec == QueueInit /\ [][QueueNext]_queueVars

(* The worker takes what is queued, and wait_for's timer goes off; a job    *)
(* may take for ever.                                                       *)
FairSpec == /\ QueueSpec
            /\ WF_queueVars(\E j \in Jobs : Takes(j))
            /\ \A j \in Jobs : WF_queueVars(Abandons(j))

-----------------------------------------------------------------------------
(* Properties *)

(* Every variable has its type; only a queued job got a ticket. *)
QueueTypeOK ==
  /\ state \in [Jobs -> {"new", "queued", "running", "wedged", "aside", "over"}]
  /\ seq \in Nat
  /\ ticket \in [Jobs -> {NoTicket} \cup (0..seq - 1)]
  /\ up \in BOOLEAN
  /\ \A j \in Jobs : state[j] \in {"queued", "running", "wedged"} => ticket[j] # NoTicket
  /\ \A j \in Jobs : state[j] = "new" => ticket[j] = NoTicket

(* Analyst SELL ladders run in the order they were dispatched: no job waits *)
(* while a later one of its lane has been served.                           *)
LaneOrder ==
  \A j, k \in Jobs :
    /\ state[j] = "queued"
    /\ SameLane(j, k)
    /\ ticket[j] < ticket[k]
    => state[k] = "queued"

(* One execution at a time, except those run aside. *)
OneAtATime == \A j, k \in AtWork : j = k

(* No entry begins while an exit waits. *)
ExitsFirst ==
  [][\A j \in Jobs : (state[j] = "queued" /\ state'[j] = "running" /\ j \notin ExitJobs)
                       => Queued \cap ExitJobs = {}]_queueVars

(* A stuck job never freezes the queue: with the timeout on, every queued   *)
(* exit and entry is served in the end.                                     *)
EveryJobServed == \A j \in Jobs : (state[j] = "queued") ~> (state[j] = "over")

(* The heap of (priority, seq) tuples and the worker loop are two lanes and *)
(* a server.                                                                *)
LaneOf(S) == SetToSortSeq(S, Earlier)
Lanes == INSTANCE TwoLanes WITH
  exits <- LaneOf(Queued \cap ExitJobs),
  entries <- LaneOf(Queued \ ExitJobs),
  serving <- IF AtWork = {} THEN NoJob ELSE CHOOSE j \in Jobs : j \in AtWork
KeepsFairLanes == Lanes!FairSpec
=============================================================================
