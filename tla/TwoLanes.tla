------------------------------ MODULE TwoLanes ------------------------------
(***************************************************************************)
(* What the order queue promises: two first-come-first-served lanes and    *)
(* one server, which turns to the entries only when no exit waits.         *)
(***************************************************************************)
EXTENDS Sequences

CONSTANTS Jobs, NoJob

VARIABLES exits, entries,  \* the jobs waiting in each lane
          serving          \* the job being served, or NoJob

vars == <<exits, entries, serving>>

Init == exits = <<>> /\ entries = <<>> /\ serving = NoJob

Arrives(j) ==
  /\ UNCHANGED serving
  /\ \/ exits' = Append(exits, j) /\ UNCHANGED entries
     \/ entries' = Append(entries, j) /\ UNCHANGED exits

Serves ==
  /\ serving = NoJob
  /\ \/ /\ exits # <<>>
        /\ serving' = Head(exits) /\ exits' = Tail(exits)
        /\ UNCHANGED entries
     \/ /\ exits = <<>> /\ entries # <<>>
        /\ serving' = Head(entries) /\ entries' = Tail(entries)
        /\ UNCHANGED exits

Leaves == serving # NoJob /\ serving' = NoJob /\ UNCHANGED <<exits, entries>>

Next == (\E j \in Jobs : Arrives(j)) \/ Serves \/ Leaves

Spec == Init /\ [][Next]_vars
FairSpec == Spec /\ WF_vars(Serves) /\ WF_vars(Leaves)
=============================================================================
