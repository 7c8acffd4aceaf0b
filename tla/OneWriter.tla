------------------------------- MODULE OneWriter -------------------------------
(****************************************************************************)
(* What the turns of the agent promise (internal/agent/turns.go): one job at  *)
(* a time writes to a container.                                             *)
(****************************************************************************)
CONSTANTS Jobs, Containers

VARIABLE writing   \* the jobs writing to each container

Init == writing = [c \in Containers |-> {}]

Begin(j, c) ==
  /\ writing[c] = {}
  /\ writing' = [writing EXCEPT ![c] = {j}]

End(j, c) ==
  /\ j \in writing[c]
  /\ writing' = [writing EXCEPT ![c] = @ \ {j}]

\* A job ends and the one that waited longest begins.
Handover(i, j, c) ==
  /\ i \in writing[c]
  /\ writing' = [writing EXCEPT ![c] = {j}]

\* The agent stops: whatever was being written is cut off.
Stop == writing' = [c \in Containers |-> {}]

Next ==
  \/ \E j \in Jobs, c \in Containers : Begin(j, c) \/ End(j, c)
  \/ \E i, j \in Jobs, c \in Containers : Handover(i, j, c)
  \/ Stop

Spec == Init /\ [][Next]_writing
================================================================================
