---------------------------- MODULE MCAgentLoop ----------------------------
(* A small instance of AgentLoop: one message per public entry, followup,  *)
(* steer and inject.                                                       *)
EXTENDS AgentLoop

CONSTANTS prompt, steering, context, call

MCMessages == {prompt, steering, context}
MCPrompts == {prompt}
MCWaking == {prompt, steering}
MCCalls == {call}

(* The teardowns that meet a driver a user has already aborted.            *)
DisposeAborted ==
  teardown = "no" /\ teardown' = "started" => phase = "running" /\ abort = "user"

AbortedDisposalSpec == Init /\ [][Next /\ DisposeAborted]_vars
=============================================================================
