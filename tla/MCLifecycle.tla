---------------------------- MODULE MCLifecycle ----------------------------
(* Two calls for one identity: the smallest instance in which they race.   *)
EXTENDS Lifecycle

CONSTANTS c1, c2, i1, o1

MCCreations == {c1, c2}
MCIds == {i1}
MCResumes == {c2}
MCOwners == {o1}
MCOwnerOf == [c \in MCCreations |-> o1]
MCIdOf == [c \in MCCreations |-> i1]
=============================================================================
