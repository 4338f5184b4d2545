----------------------------- MODULE MCGateway -----------------------------
(* Gateway with a bound on the requests, in effect when MaxCount is large   *)
(* enough for the metrics to count them; with MaxCount = 0 the metrics stay *)
(* at 0 and requests come without end.                                      *)
EXTENDS Gateway, TLC

CONSTANTS MaxRequests,  \* about keys
          MaxOthers     \* answers after which there are no others

\* The hash values of the keys: different shards when there are two.
Hashes == [k \in Keys |-> IF k = CHOOSE j \in Keys : TRUE THEN 6 ELSE 7]

MCRequest == \E t \in Threads : KeyRequests < MaxRequests /\ Request(t)

Room == metrics["requests"] < MaxOthers

MCAnswerAtOnce == \E t \in Threads : Room /\ AnswerAtOnce(t)

MCTurnAway == \E t \in Threads, reason \in {"auth_failures", "rate_limited"} :
                  Room /\ TurnAway(t, reason)

MCAdminister == \E t \in Threads : Room /\ Administer(t)

MCStep == \E t \in Threads : Step(t)

MCNext == \/ MCRequest \/ MCAnswerAtOnce \/ MCTurnAway \/ MCAdminister
          \/ MCStep \/ Tick

MCSpec == Init /\ [][MCNext]_vars

MCFairSpec == MCSpec /\ Fairness

ThreadSymmetry == Permutations(Threads)
=============================================================================
