--------------------------- MODULE CircuitBreaker ---------------------------
(***************************************************************************)
(* One circuit breaker (class CircuitBreaker of src/gateway.cpp).  Its     *)
(* methods are called under Gateway::breaker_mutex_, one at a time.        *)
(*                                                                         *)
(*   failures  consecutive_failures_.  It is only ever compared with the   *)
(*             threshold and reset, so it stops counting there.            *)
(*   age       the time since opened_at_, which stops at OpenDuration:     *)
(*             the code only asks whether that much has passed.            *)
(***************************************************************************)
EXTENDS Integers

CONSTANTS FailureThreshold,  \* failure_threshold_
          OpenDuration       \* open_duration_, in ticks

ASSUME BreakerAssumption == /\ FailureThreshold \in Nat \ {0}
                            /\ OpenDuration \in Nat \ {0}

Breaker == [state : {"Closed", "Open", "HalfOpen"},
            failures : 0 .. FailureThreshold,
            age : 0 .. OpenDuration]

FreshBreaker == [state |-> "Closed", failures |-> 0, age |-> OpenDuration]

\* Mutant: an open breaker lets requests through at once.
Allows_Always(b) == TRUE

\* The result of allow_request, and the breaker it leaves.
Allows(b) == b.state = "Open" => b.age >= OpenDuration

allow_request(b) ==
    IF b.state = "Open" /\ b.age >= OpenDuration
    THEN [b EXCEPT !.state = "HalfOpen"] ELSE b

\* Mutant: the failure counter is not reset.
record_success_KeepsCount(b) == [b EXCEPT !.state = "Closed"]

\* Mutant: the state is not reset.
record_success_KeepsState(b) == [b EXCEPT !.failures = 0]

record_success(b) == [b EXCEPT !.failures = 0, !.state = "Closed"]

record_failure(b) ==
    LET n == IF b.failures < FailureThreshold THEN b.failures + 1
             ELSE b.failures
    IN  IF b.state = "HalfOpen" \/ n >= FailureThreshold
        THEN [state |-> "Open", failures |-> n, age |-> 0]
        ELSE [b EXCEPT !.failures = n]

\* Time passes.
Aged(b) == [b EXCEPT !.age = IF @ < OpenDuration THEN @ + 1 ELSE @]
=============================================================================
