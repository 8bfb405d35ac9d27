----------------------------- MODULE Collection -----------------------------
(***************************************************************************)
(* The life of a collection job as its owner sees it, whatever runs it.    *)
(* Both job managers implement it: the local one (backend/jobs.py) and the *)
(* public relay (backend/public_jobs.py).                                  *)
(***************************************************************************)
CONSTANT Jobs

VARIABLE life

Ended == {"completed", "partial", "cancelled", "failed", "interrupted"}
Lives == {"new", "active", "stopping", "gone"} \cup Ended

(* A stop that was accepted is final: the job can only end as stopped, failed
   or interrupted.  An ended job keeps its outcome until it is forgotten. *)
Follows(from) ==
  CASE from = "new"      -> {"active"}
    [] from = "active"   -> {"stopping", "gone"} \cup Ended
    [] from = "stopping" -> {"cancelled", "failed", "interrupted", "gone"}
    [] from \in Ended    -> {"gone"}
    [] from = "gone"     -> {}

Init == life = [j \in Jobs |-> "new"]

Next ==
  /\ life' \in [Jobs -> Lives]
  /\ \A j \in Jobs : life'[j] = life[j] \/ life'[j] \in Follows(life[j])

Spec == Init /\ [][Next]_life

(* Every job ends. *)
Ends == \A j \in Jobs : life[j] \in {"active", "stopping"} ~> life[j] \in Ended \cup {"gone"}
=============================================================================
