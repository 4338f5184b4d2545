--------------------------- MODULE MCShardFaults ---------------------------
(* ShardFaults with bounds on the length of the logs and on the terms.     *)
EXTENDS ShardFaults

CONSTANTS MaxWrites, MaxTerm

Bounded == \A r \in Replicas : /\ \A i \in DOMAIN replicas'[r].log : i <= MaxWrites
                               /\ replicas'[r].currentTerm <= MaxTerm

MCWrite == \E k \in Keys, v \in Values \cup {NoValue} : put_or_erase(k, v) /\ Bounded
MCFail == \E r \in Replicas : fail_replica(r) /\ Bounded
MCRecover == \E r \in Replicas : recover_replica(r) /\ Bounded
MCElect == elect_leader /\ Bounded
MCBoot == Boot /\ Bounded

MCNext == MCWrite \/ MCFail \/ MCRecover \/ MCElect \/ MCBoot

MCSpec == Init /\ [][MCNext]_vars
=============================================================================
