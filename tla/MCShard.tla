------------------------------ MODULE MCShard ------------------------------
(* Shard with bounds on the number of acknowledged writes and on the term. *)
EXTENDS Shard

CONSTANTS MaxWrites, MaxTerm

Bounded == /\ Len(acked') <= MaxWrites
           /\ \A r \in Replicas : replicas'[r].currentTerm <= MaxTerm

\* Next, every action within the bounds.
MCPut == \E k \in Keys, v \in Values : put(k, v) /\ Bounded
MCErase == \E k \in Keys : erase(k) /\ Bounded
MCGet == \E k \in Keys : get(k) /\ Bounded
MCFail == \E r \in Replicas : fail_replica(r) /\ Bounded
MCRecover == \E r \in Replicas : recover_replica(r) /\ Bounded
MCElect == elect_leader /\ Bounded
MCRestart == Restart /\ Bounded

MCNext == MCPut \/ MCErase \/ MCGet \/ MCFail \/ MCRecover \/ MCElect \/ MCRestart

MCSpec == Init /\ [][MCNext]_vars
=============================================================================
