------------------------------ MODULE MCWorkers ------------------------------
(***************************************************************************)
(* What the draft worker and the client of the gateway must get done at     *)
(* last.  They share no variable, so a behaviour is about one of them: the  *)
(* drafts move only if the client was stopped before it opened a socket.    *)
(* Every attempt of every job stores at most one row, so Jobs * Attempts    *)
(* ids of drafts never run out; sockets are as many as the failures the     *)
(* bounds allow need.                                                       *)
(***************************************************************************)
EXTENDS DraftRefinement, GatewayClient

CONSTANT m1

OneMessage == {m1}
ASSUME EnoughSockets == Cardinality(Sockets) >= 1 + MaxDrops + MaxRefusals

\* What the proofs about serial requests start from.
ASSUME OneAtATime == Serial

MCInit == Init /\ GatewayInit

MCNext ==
  \/ closed /\ (\A s \in Sockets : sockets[s] = "unused") /\ Next /\ UNCHANGED gatewayVars
  \/ received = {} /\ GatewayNext /\ UNCHANGED vars

MCSpec ==
  /\ MCInit /\ [][MCNext]_<<vars, gatewayVars>>
  /\ Fairness /\ GatewayFairness
==============================================================================
