---------------------------- MODULE CourseImport ----------------------------
(***************************************************************************)
(* What the course-processing service of apps/server promises, free of the *)
(* way it keeps the promise: a request to process a course folder ends     *)
(* exactly once, either by publishing its result as the durable course     *)
(* snapshot or by being abandoned, and a request withdrawn before its      *)
(* point of no return never publishes.  ProcessingJobs implements this     *)
(* module.                                                                 *)
(***************************************************************************)
CONSTANTS Jobs,  \* processing requests
          None   \* no request: the snapshot the service started from

VARIABLES outcome,    \* outcome[j]: how far request j has come
          withdrawn,  \* requests withdrawn before their point of no return
          current     \* the request whose result is the snapshot on disk

vars == <<outcome, withdrawn, current>>

Outcomes == {"none", "pending", "published", "abandoned"}

TypeOK == /\ outcome \in [Jobs -> Outcomes]
          /\ withdrawn \subseteq Jobs
          /\ current \in Jobs \cup {None}

Init == /\ outcome = [j \in Jobs |-> "none"]
        /\ withdrawn = {}
        /\ current = None

Request(j) == /\ outcome[j] = "none"
              /\ outcome' = [outcome EXCEPT ![j] = "pending"]
              /\ UNCHANGED <<withdrawn, current>>

Withdraw(j) == /\ outcome[j] = "pending"
               /\ withdrawn' = withdrawn \cup {j}
               /\ UNCHANGED <<outcome, current>>

Publish(j) == /\ outcome[j] = "pending"
              /\ j \notin withdrawn
              /\ outcome' = [outcome EXCEPT ![j] = "published"]
              /\ current' = j
              /\ UNCHANGED withdrawn

\* A failure abandons one request; a crash abandons all that are pending.
Abandon(S) == /\ \A j \in S : outcome[j] \in {"none", "pending"}
              /\ outcome' = [j \in Jobs |-> IF j \in S THEN "abandoned" ELSE outcome[j]]
              /\ UNCHANGED <<withdrawn, current>>

Next == \/ \E j \in Jobs : Request(j) \/ Withdraw(j) \/ Publish(j)
        \/ \E S \in SUBSET Jobs : Abandon(S)

Spec == Init /\ [][Next]_vars

-----------------------------------------------------------------------------

\* A withdrawn request is never the course the learner sees.
WithdrawnNeverPublished ==
  \A j \in withdrawn : outcome[j] # "published" /\ current # j

\* Every pending request ends.
Settles == \A j \in Jobs : outcome[j] = "pending" ~> outcome[j] \in {"published", "abandoned"}
=============================================================================
