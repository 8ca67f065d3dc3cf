---------------------------- MODULE TrainPromise ----------------------------
(***************************************************************************)
(* What a merge train promises to the people who watch the forge, with no  *)
(* word of passes, mirrors, cursors or parks: it lands a merge request     *)
(* once, while it is open, at a head that was reviewed; and a delivered    *)
(* Task is one whose merge requests all merged.  Module MergeTrain shows   *)
(* that the driver keeps it.                                               *)
(***************************************************************************)
EXTENDS Naturals

CONSTANT Repos

VARIABLES
  forge,        \* the merge requests: their state, their head, who merged them
  reviewed,     \* the commits a review was given of
  delivered     \* the Task is done

vars == <<forge, reviewed, delivered>>

Init ==
  /\ forge = [r \in Repos |-> [st |-> "open", head |-> 1, by |-> "nobody"]]
  /\ reviewed = {}
  /\ delivered = FALSE

Open(r) == forge[r].st = "open"

\* Commits are reviewed, heads of now or of before: never one not yet pushed.
Review ==
  /\ \E commits \in SUBSET UNION {{r} \X (1..forge[r].head) : r \in Repos} :
       reviewed' = reviewed \cup commits
  /\ UNCHANGED <<forge, delivered>>

Push(r) ==
  /\ Open(r)
  /\ forge' = [forge EXCEPT ![r].head = @ + 1]
  /\ UNCHANGED <<reviewed, delivered>>

\* A human merges or closes a merge request.
Settle(r) ==
  /\ Open(r)
  /\ forge' \in {[forge EXCEPT ![r].st = "merged", ![r].by = "human"],
                 [forge EXCEPT ![r].st = "closed"]}
  /\ UNCHANGED <<reviewed, delivered>>

Land(r) ==
  /\ Open(r)
  /\ <<r, forge[r].head>> \in reviewed
  /\ forge' = [forge EXCEPT ![r].st = "merged", ![r].by = "train"]
  /\ UNCHANGED <<reviewed, delivered>>

Deliver ==
  /\ \A r \in Repos : forge[r].st = "merged"
  /\ delivered' = TRUE
  /\ UNCHANGED <<forge, reviewed>>

Next ==
  \/ Review \/ Deliver
  \/ \E r \in Repos : Push(r) \/ Settle(r) \/ Land(r)

Spec == Init /\ [][Next]_vars
=============================================================================
