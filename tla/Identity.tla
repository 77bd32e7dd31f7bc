------------------------------ MODULE Identity ------------------------------
(***************************************************************************)
(* What the agent factory promises about one session identity, whatever    *)
(* else happens: the identity has one holder at a time, an agent is listed *)
(* under it only while that agent's creation holds it, and a creation      *)
(* holds and is listed at most once.  `Lifecycle' implements this.         *)
(*                                                                         *)
(* The holder is the creation that owns the backend's write claim; `listed' *)
(* is the entry of the agent and session registries.  These are the        *)
(* identity's two registrations, in two packages that do not know of each  *)
(* other (JsonlBackendTracker.writers, AgentRegistry.store).               *)
(***************************************************************************)
CONSTANTS
  Creations,     \* calls of createAgent and resume
  Ids,           \* session identities
  None

VARIABLES
  holder,        \* per identity: the creation that holds its write claim
  listed,        \* per identity: the creation whose agent is registered
  retired        \* creations that have given their identity up

vars == <<holder, listed, retired>>

Init ==
  /\ holder = [i \in Ids |-> None]
  /\ listed = [i \in Ids |-> None]
  /\ retired = {}

Claim(i, c) ==
  /\ holder[i] = None /\ c \notin retired
  /\ \A j \in Ids : holder[j] # c
  /\ holder' = [holder EXCEPT ![i] = c]
  /\ UNCHANGED <<listed, retired>>

List(i, c) ==
  /\ holder[i] = c /\ listed[i] = None
  /\ listed' = [listed EXCEPT ![i] = c]
  /\ UNCHANGED <<holder, retired>>

(* Giving the identity up ends the claim and the registration together:    *)
(* nobody finds the identity claimable and still listed, or the reverse.   *)
GiveUp(i, c) ==
  /\ holder[i] = c /\ listed[i] \in {None, c}
  /\ holder' = [holder EXCEPT ![i] = None]
  /\ listed' = [listed EXCEPT ![i] = None]
  /\ retired' = retired \cup {c}

Next == \E i \in Ids, c \in Creations : Claim(i, c) \/ List(i, c) \/ GiveUp(i, c)

Spec == Init /\ [][Next]_vars
=============================================================================
