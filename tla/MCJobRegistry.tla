--------------------------- MODULE MCJobRegistry ---------------------------
(* Two jobs of one owner and one of nobody's; two waits for the same job.  *)
EXTENDS JobRegistry

CONSTANTS j1, j2, j3, o1, w1, w2

MCJobs == {j1, j2, j3}
MCOwners == {o1}
MCJobOwner == [j \in MCJobs |-> IF j = j3 THEN Unowned ELSE o1]
MCWaits == {w1, w2}
MCWaitOn == [w \in MCWaits |-> j1]
=============================================================================
