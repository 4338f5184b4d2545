------------------------------ MODULE Gateway ------------------------------
(***************************************************************************)
(* The gateway (class Gateway of src/gateway.cpp): requests handled        *)
(* concurrently, one thread each, in front of the shards of Cluster, with  *)
(* one circuit breaker per shard and the counters of Metrics.              *)
(*                                                                         *)
(* The code between two lock acquisitions touches nothing shared but the   *)
(* counters and is one step: handle up to the breaker, allow_request, the  *)
(* call of the cluster, the recording of its result, the sleep.  The rate  *)
(* limit is RateLimiter's; here a request is admitted or refused.          *)
(***************************************************************************)
EXTENDS Cluster, CircuitBreaker, FiniteSets

CONSTANTS Threads,     \* requests in progress at a time
          MaxRetries,  \* max_retries_
          MaxCount     \* the metrics stop counting here

ASSUME GatewayAssumption == /\ IsFiniteSet(Threads) /\ Threads # {}
                            /\ MaxRetries \in Nat /\ MaxCount \in Nat

VARIABLES breakers,  \* breakers_
          threads,   \* per thread, the request it handles or has answered
          metrics,   \* the counters of Metrics
          leaked,    \* history: calls of a shard since its breaker opened
          troubled   \* history: shards that have been without a majority

vars == <<tables, majority, failed, breakers, threads, metrics, leaked, troubled>>

Counters == {"requests", "auth_failures", "rate_limited", "gets", "puts",
             "deletes", "retries", "circuit_open", "gateway_failures"}

Count(counted) ==
    metrics' = [c \in Counters |-> IF c \in counted /\ metrics[c] < MaxCount
                                   THEN metrics[c] + 1 ELSE metrics[c]]

CounterOf(op) == CASE op = "GET" -> "gets" [] op = "PUT" -> "puts"
                   [] op = "DELETE" -> "deletes"

\* A thread: where it is in handle, its request, attempt, and the status and
\* value it got from the cluster or, once idle, has answered with.
Thread(pc, op, key, value, attempt, status) ==
    [pc |-> pc, op |-> op, key |-> key, value |-> value,
     attempt |-> attempt, status |-> status]

\* A thread that has no request, or has answered one that is not about a key.
NoRequest == Thread("idle", "none", NoValue, NoValue, 0, 0)

Become(t, thread) == threads' = [threads EXCEPT ![t] = thread]

\* The thread goes on with its request.
Goes(t, pc, attempt, status) ==
    LET th == threads[t]
    IN  Become(t, Thread(pc, th.op, th.key, th.value, attempt, status))

shard(t) == shard_for_key(threads[t].key)

\* finish: the request is counted and answered.
Answer(t, status, counted) ==
    /\ Goes(t, "idle", 0, status)
    /\ Count(counted \cup {"requests"})

\* Histories kept by every step that changes a breaker.
BreakersBecome(s, b) ==
    /\ breakers' = [breakers EXCEPT ![s] = b]
    /\ leaked' = IF b.state = "Open" THEN leaked ELSE [leaked EXCEPT ![s] = 0]
-----------------------------------------------------------------------------
(* handle.                                                                 *)

\* What is answered without a change but to the counters (and the bucket, which
\* is RateLimiter's).  Before the token is checked: /healthz and /metrics (200).
\* Past the rate limit: a key of bad length (400), a method that is not known
\* (405), a value that is too long (413), an administrative request whose shard
\* id is no number (400), any other route (404), and /admin/cluster (200), which
\* takes the mutexes of the shards, but only to read.
AnswerAtOnce(t) ==
    /\ threads[t].pc = "idle"
    /\ Become(t, NoRequest)
    /\ Count({"requests"})
    /\ UNCHANGED <<tables, majority, failed, breakers, leaked, troubled>>

\* No token or a wrong one (401), or too many requests (429).
TurnAway(t, reason) ==
    /\ threads[t].pc = "idle"
    /\ Become(t, NoRequest)
    /\ Count({"requests", reason})
    /\ UNCHANGED <<tables, majority, failed, breakers, leaked, troubled>>

\* A request about a key reaches execute_with_resilience.
HandleKey(t, op, key, value) ==
    /\ threads[t].pc = "idle"
    /\ Become(t, Thread("asking", op, key, value, 0, 0))
    /\ Count({CounterOf(op)})
    /\ UNCHANGED <<tables, majority, failed, breakers, leaked, troubled>>

LostMajority == {s \in Shards : ~majority'[s]}

\* POST /admin/fail and /admin/recover: 200, 404 or, on an exception, 400.
HandleReplica(t, recover, id, known) ==
    /\ threads[t].pc = "idle"
    /\ \E ok \in BOOLEAN : IF recover THEN recover_replica(id, known, ok)
                           ELSE fail_replica(id, known, ok)
    /\ Become(t, NoRequest)
    /\ Count({"requests"})
    /\ troubled' = troubled \cup LostMajority
    /\ UNCHANGED <<breakers, leaked>>

\* POST /admin/elect: 200, 503 when no leader was elected, or 400.
HandleElect(t, id) ==
    /\ threads[t].pc = "idle"
    /\ (\E ok \in BOOLEAN : elect(id, ok)) \/ elect_Throws(id)
    /\ Become(t, NoRequest)
    /\ Count({"requests"})
    /\ UNCHANGED <<breakers, leaked, troubled>>
-----------------------------------------------------------------------------
(* execute_with_resilience.                                                *)

\* Mutant: one breaker, that of shard 0, for all shards.
breaker_for_First(s) == 0

\* The index of the shard's breaker in breakers_.
breaker_for(s) == s

Allow(t) ==
    LET s == breaker_for(shard(t))
        b == breakers[s]
    IN  /\ threads[t].pc = "asking"
        /\ \/ /\ Allows(b)
              /\ Goes(t, "calling", 0, 0)
              /\ BreakersBecome(s, allow_request(b))
              /\ UNCHANGED metrics
           \/ /\ ~Allows(b)
              /\ Answer(t, 503, {"circuit_open"})
              /\ UNCHANGED <<breakers, leaked>>
        /\ UNCHANGED <<tables, majority, failed, troubled>>

\* The cluster is called.  An exception leaves handle without finish: nothing
\* is recorded, and the HTTP server answers 400.
Call(t) ==
    LET th == threads[t]
        s == shard(t)
    IN  /\ th.pc = "calling"
        /\ \E result \in Results :
              /\ CASE th.op = "GET" -> get(th.key, result)
                   [] th.op = "PUT" -> put(th.key, th.value, result)
                   [] th.op = "DELETE" -> erase(th.key, result)
              /\ Become(t, Thread(IF result = Thrown THEN "idle" ELSE "called",
                                  th.op, th.key,
                                  IF th.op = "GET" THEN result.value ELSE th.value,
                                  IF result = Thrown THEN 0 ELSE th.attempt,
                                  result.status))
        /\ leaked' = IF breakers[breaker_for(s)].state = "Open"
                     THEN [leaked EXCEPT ![s] = @ + 1] ELSE leaked
        /\ UNCHANGED <<breakers, metrics, troubled>>

\* Mutant: the loop goes on after a success.
TriesAgain_NoBreak(t) == threads[t].attempt < MaxRetries

\* Mutant: one retry too many.
TriesAgain_OneMore(t) ==
    threads[t].status >= 500 /\ threads[t].attempt <= MaxRetries

\* The loop goes on: a failure, and attempts left.
TriesAgain(t) == threads[t].status >= 500 /\ threads[t].attempt < MaxRetries

\* The result is recorded: an answer, or another attempt after a sleep.
Record(t) ==
    LET s == breaker_for(shard(t))
        status == threads[t].status
    IN  /\ threads[t].pc = "called"
        /\ BreakersBecome(s, IF status < 500 THEN record_success(breakers[s])
                             ELSE record_failure(breakers[s]))
        /\ \/ /\ TriesAgain(t)
              /\ Goes(t, "sleeping", threads[t].attempt, status)
              /\ Count({"retries"})
           \/ /\ ~TriesAgain(t)
              /\ Answer(t, status, IF status < 500 THEN {} ELSE {"gateway_failures"})
        /\ UNCHANGED <<tables, majority, failed, troubled>>

\* Mutant: the attempts are not counted.
Wake_SameAttempt(t) ==
    /\ threads[t].pc = "sleeping"
    /\ Goes(t, "calling", threads[t].attempt, 0)
    /\ UNCHANGED <<tables, majority, failed, breakers, metrics, leaked, troubled>>

\* The sleep ends.  It is far shorter than a tick of the breakers' clock, but
\* nothing depends on that.
Wake(t) ==
    /\ threads[t].pc = "sleeping"
    /\ Goes(t, "calling", threads[t].attempt + 1, 0)
    /\ UNCHANGED <<tables, majority, failed, breakers, metrics, leaked, troubled>>

\* Time passes; once every breaker's age has stopped this changes nothing.
Tick ==
    /\ breakers' = [s \in Shards |-> Aged(breakers[s])]
    /\ UNCHANGED <<tables, majority, failed, threads, metrics, leaked, troubled>>
-----------------------------------------------------------------------------
Init ==
    /\ tables = [s \in Shards |-> [k \in Keys |-> NoValue]]
    /\ majority = [s \in Shards |-> TRUE]
    /\ failed = {}
    /\ breakers = [s \in Shards |-> FreshBreaker]
    /\ threads = [t \in Threads |-> NoRequest]
    /\ metrics = [c \in Counters |-> 0]
    /\ leaked = [s \in Shards |-> 0]
    /\ troubled = {}

\* A client sends a request about a key.
Request(t) ==
    \E k \in Keys : \/ \E op \in {"GET", "DELETE"} : HandleKey(t, op, k, NoValue)
                    \/ \E v \in Values : HandleKey(t, "PUT", k, v)

\* An administrator sends a request.
Administer(t) ==
    \E id \in ShardIds :
        \/ HandleElect(t, id)
        \/ \E recover, known \in BOOLEAN : HandleReplica(t, recover, id, known)

\* A thread goes on with its request.
Step(t) == Allow(t) \/ Call(t) \/ Record(t) \/ Wake(t)

Next == \/ \E t \in Threads :
              \/ AnswerAtOnce(t) \/ Request(t) \/ Administer(t) \/ Step(t)
              \/ \E reason \in {"auth_failures", "rate_limited"} : TurnAway(t, reason)
        \/ Tick

\* The scheduler does not abandon a thread, calls of the cluster and sleeps
\* end, and time passes.  Nobody has to send requests or repair a shard.
Fairness == (\A t \in Threads : WF_vars(Step(t))) /\ WF_vars(Tick)

Spec == Init /\ [][Next]_vars

FairSpec == Spec /\ Fairness
-----------------------------------------------------------------------------
(* Properties.                                                             *)

Ops == {"GET", "PUT", "DELETE"}

\* Types.
TypeOK ==
    /\ tables \in [Shards -> [Keys -> Values \cup {NoValue}]]
    /\ majority \in [Shards -> BOOLEAN]
    /\ failed \subseteq Shards
    /\ breakers \in [Shards -> Breaker]
    /\ threads \in [Threads ->
          [pc : {"idle", "asking", "calling", "called", "sleeping"},
           op : Ops \cup {"none"},
           key : Keys \cup {NoValue}, value : Values \cup {NoValue},
           attempt : 0 .. MaxRetries, status : Nat]]
    /\ metrics \in [Counters -> Nat]
    /\ leaked \in [Shards -> Nat]
    /\ troubled \subseteq Shards

\* A breaker is closed exactly while fewer than FailureThreshold failures in a
\* row are on record, in whatever order the threads that were let through
\* record their results, late ones and those of a half-open breaker included
\* (record_success, record_failure).
ClosedBelowThreshold ==
    \A s \in Shards : breakers[s].state = "Closed"
                         <=> breakers[s].failures < FailureThreshold

\* An open breaker shields its shard: from the moment it opens until it is
\* half-open, or closed by a late success, the shard is called only by requests
\* that were let through before, their retries included, which makes one attempt
\* of the thread that opened it less than all attempts of all threads (the retry
\* loop of execute_with_resilience does not ask the breaker again).
OpenShields ==
    \A s \in Shards :
        leaked[s] < Cardinality(Threads) * (MaxRetries + 1)

\* A shard that always had its majority, and whose databases never failed, has
\* an untouched breaker, and no request for one of its keys was refused,
\* whatever happens to the other shards (breaker_for, shard_for_key).
HealthyShardServes ==
    \A s \in Shards \ (troubled \cup failed) :
        /\ breakers[s].state = "Closed" /\ breakers[s].failures = 0
        /\ \A t \in Threads : threads[t].op \in Ops /\ shard(t) = s =>
                                  threads[t].status \notin {400, 503}

KeyRequests == metrics["gets"] + metrics["puts"] + metrics["deletes"]

\* The counters agree with each other: a request that failed for good was
\* tried again MaxRetries times, no other one more often than that, and one
\* that the breaker turned away not at all (the order of inc_retry,
\* inc_gateway_failure and inc_circuit_open in execute_with_resilience).
MetricsAddUp ==
    /\ MaxRetries * metrics["gateway_failures"] <= metrics["retries"]
    /\ metrics["retries"] <= MaxRetries * (KeyRequests - metrics["circuit_open"])
    /\ metrics["circuit_open"] + metrics["gateway_failures"] <= KeyRequests

\* A thread as its client sees it.
AsCall(th) ==
    LET phase == IF th.pc = "idle" THEN "answered"
                 ELSE IF th.pc = "called" /\ th.status < 500 THEN "performed"
                 ELSE "waiting"
    IN  IF th.op \in Ops
        THEN [phase |-> phase, op |-> th.op, key |-> th.key, value |-> th.value,
              status |-> IF phase = "waiting" THEN 0 ELSE th.status]
        ELSE [phase |-> "none", op |-> "none", key |-> NoValue,
              value |-> NoValue, status |-> 0]

ClientMap == [k \in Keys |-> tables[shard_for_key(k)][k]]

ClientCalls == [t \in Threads |-> AsCall(threads[t])]

Clients == INSTANCE ConcurrentKV WITH kv <- ClientMap, calls <- ClientCalls

\* The clients' view: a linearizable map.  A request that succeeds took effect
\* at the call that succeeded and at no other attempt; one that is answered
\* with 503, by the breaker or after its retries, took no effect.
ImplementsConcurrentKV == Clients!Spec

\* Every request is answered: the retry loop of execute_with_resilience ends.
EveryRequestAnswered ==
    \A t \in Threads : threads[t].pc # "idle" ~> threads[t].pc = "idle"

\* A breaker closes again and stays closed once its shard keeps its majority,
\* provided that clients keep asking: nothing but a request, let through after
\* OpenDuration, closes a breaker.
BreakerRecovers ==
    \A s \in Shards :
        /\ <>[](majority[s])
        /\ []<>(\E t \in Threads : threads[t].pc = "asking" /\ shard(t) = s)
        => <>[](breakers[s].state = "Closed")
=============================================================================
