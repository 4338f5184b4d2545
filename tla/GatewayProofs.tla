---------------------------- MODULE GatewayProofs ----------------------------
(***************************************************************************)
(* The gateway for any number of threads, shards, keys and retries, all    *)
(* thresholds and runs of any length: its breakers, the isolation of the   *)
(* shards from each other, its counters, and that its clients see one map. *)
(***************************************************************************)
EXTENDS Gateway, FiniteSetTheorems, TLAPS

\* The steps are first-order reasoning unless they say otherwise.
USE Zenon

\* What a thread holds, depending on where it is.
Busy == {"asking", "calling", "called", "sleeping"}

ThreadOK(th) ==
    /\ th.pc \in Busy => th.op \in Ops
    /\ th.op \in Ops => th.key \in Keys
    /\ th.pc \in Busy /\ th.op = "PUT" => th.value \in Values
    /\ th.pc \in Busy \ {"called"} /\ th.op # "PUT" => th.value = NoValue
    /\ th.pc \in {"asking", "calling"} => th.status = 0
    /\ th.pc = "called" => th.status \in {200, 201, 404, 503}
    /\ th.pc = "called" /\ th.status = 503 /\ th.op # "PUT" => th.value = NoValue
    /\ th.pc = "sleeping" => th.status = 503 /\ th.attempt < MaxRetries
    /\ th.pc = "idle" => th.attempt = 0

ThreadSet == [pc : {"idle", "asking", "calling", "called", "sleeping"},
              op : Ops \cup {"none"},
              key : Keys \cup {NoValue}, value : Values \cup {NoValue},
              attempt : 0 .. MaxRetries, status : Nat]

\* Breakers.
Sound(b) == b.state = "Closed" <=> b.failures < FailureThreshold

\* The shards are isolated from each other; one that is not troubled has its
\* majority.
Isolated ==
    /\ \A s \in Shards \ troubled : majority[s]
    /\ HealthyShardServes

IInv == /\ TypeOK
        /\ \A t \in Threads : ThreadOK(threads[t])
        /\ ClosedBelowThreshold
        /\ Isolated
-----------------------------------------------------------------------------
\* A key has its shard.
LEMMA KeyHasShard ==
    ASSUME NEW key \in Keys
    PROVE  shard_for_key(key) \in Shards
  BY ClusterAssumption, SMT DEF shard_for_key, Shards

\* The methods of a breaker keep it closed exactly below the threshold.
LEMMA BreakerSteps ==
    ASSUME NEW b \in Breaker, Sound(b)
    PROVE  /\ allow_request(b) \in Breaker /\ Sound(allow_request(b))
           /\ record_success(b) \in Breaker /\ Sound(record_success(b))
           /\ record_failure(b) \in Breaker /\ Sound(record_failure(b))
           /\ Aged(b) \in Breaker /\ Sound(Aged(b))
  <1> USE BreakerAssumption DEF Breaker, Sound
  <1>1. allow_request(b) \in Breaker /\ Sound(allow_request(b))
    BY DEF allow_request
  <1>2. record_success(b) \in Breaker /\ Sound(record_success(b))
    <2>0. [b EXCEPT !.failures = 0] \in Breaker
      BY SMT
    <2>1. PICK c \in Breaker : c = [b EXCEPT !.failures = 0]
      BY <2>0
    <2>2. record_success(b) = [c EXCEPT !.state = "Closed"] /\ c.failures = 0
      BY <2>1 DEF record_success
    <2> QED  BY <2>2, SMT
  <1>3. record_failure(b) \in Breaker /\ Sound(record_failure(b))
    BY SMT DEF record_failure
  <1>4. Aged(b) \in Breaker /\ Sound(Aged(b))
    BY SMT DEF Aged
  <1> QED  BY <1>1, <1>2, <1>3, <1>4

\* What they do to a breaker without failures.
LEMMA UntouchedBreaker ==
    ASSUME NEW b \in Breaker, b.state = "Closed", b.failures = 0
    PROVE  /\ Allows(b) /\ allow_request(b) = b
           /\ record_success(b).state = "Closed" /\ record_success(b).failures = 0
           /\ Aged(b).state = "Closed" /\ Aged(b).failures = 0
  BY DEF Breaker, Allows, allow_request, record_success, Aged

\* Counters stay natural numbers.
LEMMA Counting ==
    ASSUME metrics \in [Counters -> Nat], NEW counted, Count(counted)
    PROVE  metrics' \in [Counters -> Nat]
  BY SMT DEF Count

\* The fields of a thread have their types.
LEMMA ThreadTypes ==
    ASSUME NEW th \in ThreadSet
    PROVE  /\ th.op \in Ops \cup {"none"} /\ th.key \in Keys \cup {NoValue}
           /\ th.value \in Values \cup {NoValue} /\ th.attempt \in 0 .. MaxRetries
           /\ th.status \in Nat /\ 0 \in 0 .. MaxRetries
  BY GatewayAssumption, SMT DEF ThreadSet

\* A step that gives thread t a new content and leaves the other threads alone.
LEMMA OneThread ==
    ASSUME IInv, NEW t \in Threads, NEW th \in ThreadSet, ThreadOK(th),
           threads' = [threads EXCEPT ![t] = th]
    PROVE  /\ threads' \in [Threads -> ThreadSet]
           /\ \A u \in Threads : ThreadOK(threads'[u])
           /\ threads'[t] = th
           /\ \A u \in Threads \ {t} : threads'[u] = threads[u]
  BY DEF IInv, TypeOK, ThreadSet

\* The initial states.
LEMMA InitInvariant == Init => IInv
  <1> SUFFICES ASSUME Init PROVE IInv
    OBVIOUS
  <1>1. FreshBreaker \in Breaker /\ Sound(FreshBreaker)
    BY BreakerAssumption, SMT DEF FreshBreaker, Breaker, Sound
  <1>2. TypeOK
    BY <1>1, GatewayAssumption, SMT DEF Init, TypeOK, NoRequest, Thread, Ops
  <1>3. \A t \in Threads : ThreadOK(threads[t])
    BY ZenonT(40) DEF Init, NoRequest, Thread, ThreadOK, Busy, Ops
  <1>4. ClosedBelowThreshold
    BY <1>1 DEF Init, ClosedBelowThreshold, Sound
  <1>5. Isolated
    BY DEF Init, Isolated, HealthyShardServes, FreshBreaker, NoRequest, Thread, Ops
  <1> QED  BY <1>2, <1>3, <1>4, <1>5 DEF IInv
-----------------------------------------------------------------------------
\* A step of thread t keeps the shards isolated when it leaves the breakers of
\* healthy shards as they were and gets no refusal from one of these shards.
LEMMA StillIsolated ==
    ASSUME IInv, NEW t \in Threads,
           majority' = majority, troubled' = troubled, failed \subseteq failed',
           \A u \in Threads \ {t} : threads'[u] = threads[u],
           \A s \in Shards \ (troubled \cup failed') :
               breakers'[s].state = "Closed" /\ breakers'[s].failures = 0,
           threads'[t].op \in Ops /\ threads'[t].status \in {400, 503} =>
               shard_for_key(threads'[t].key) \in troubled \cup failed'
    PROVE  Isolated'
  <1>1. \A s \in Shards \ troubled' : majority'[s]
    BY DEF IInv, Isolated
  <1>2. ASSUME NEW s \in Shards \ (troubled' \cup failed'), NEW u \in Threads,
               threads'[u].op \in Ops, shard_for_key(threads'[u].key) = s
        PROVE  threads'[u].status \notin {400, 503}
    <2>1. CASE u = t
      BY <1>2, <2>1, SMT
    <2>2. CASE u # t
      <3>1. threads'[u] = threads[u] /\ s \in Shards \ (troubled \cup failed)
        BY <2>2
      <3> QED  BY <1>2, <3>1, SMT DEF IInv, Isolated, HealthyShardServes, shard
    <2> QED  BY <2>1, <2>2, ZenonT(40)
  <1> QED  BY <1>1, <1>2, SMT DEF Isolated, HealthyShardServes, shard

\* What is so far of a healthy shard's breaker.
LEMMA UnusedBreakers ==
    ASSUME IInv
    PROVE  \A s \in Shards \ (troubled \cup failed) :
               breakers[s].state = "Closed" /\ breakers[s].failures = 0
  BY SMT DEF IInv, Isolated, HealthyShardServes

\* handle, for requests that do not go to execute_with_resilience: the thread
\* is left with an answer that is not about a key, the breakers are not used.
LEMMA OtherRequests ==
    ASSUME IInv, NEW t \in Threads,
           \/ AnswerAtOnce(t)
           \/ \E reason \in {"auth_failures", "rate_limited"} : TurnAway(t, reason)
           \/ Administer(t)
    PROVE  /\ IInv'
           /\ threads[t].pc = "idle"
           /\ tables' = tables
           /\ failed' = failed \/ StorageFaults
           /\ \E th \in ThreadSet : /\ threads' = [threads EXCEPT ![t] = th]
                                    /\ th.op \notin Ops
  <1>1. NoRequest \in ThreadSet /\ ThreadOK(NoRequest) /\ NoRequest.op \notin Ops
    BY GatewayAssumption, SMT DEF NoRequest, Thread, ThreadSet, ThreadOK, Busy, Ops
  <1>2. /\ threads[t].pc = "idle"
        /\ threads' = [threads EXCEPT ![t] = NoRequest]
        /\ \E counted : Count(counted)
        /\ tables' = tables /\ UNCHANGED <<breakers, leaked>>
    BY DEF AnswerAtOnce, TurnAway, Administer, HandleElect, HandleReplica, Become,
           fail_replica, recover_replica, elect, elect_Throws
  <1>3. /\ majority' \in [Shards -> BOOLEAN] /\ failed' \subseteq Shards
        /\ failed \subseteq failed'
        /\ failed' = failed \/ StorageFaults
        /\ troubled \subseteq troubled' /\ troubled' \subseteq Shards
        /\ \A s \in Shards \ troubled' : majority'[s]
    <2>1. CASE UNCHANGED <<majority, failed, troubled>>
      BY <2>1 DEF IInv, TypeOK, Isolated
    <2>2. ASSUME NEW id \in ShardIds, HandleElect(t, id)
          PROVE  /\ UNCHANGED <<majority, troubled>>
                 /\ \/ failed' = failed
                    \/ StorageFaults /\ id \in Shards /\ failed' = failed \cup {id}
      BY <2>2 DEF HandleElect, elect, elect_Throws, Throws
    <2>3. ASSUME NEW id \in ShardIds, NEW recover \in BOOLEAN, NEW known \in BOOLEAN,
                 HandleReplica(t, recover, id, known)
          PROVE  /\ \/ majority' = majority
                    \/ /\ id \in Shards
                       /\ \E m \in BOOLEAN : majority' = [majority EXCEPT ![id] = m]
                 /\ \/ failed' = failed
                    \/ StorageFaults /\ id \in Shards /\ failed' = failed \cup {id}
                 /\ troubled' = troubled \cup {s \in Shards : ~majority'[s]}
      BY <2>3 DEF HandleReplica, fail_replica, recover_replica, Throws, LostMajority
    <2> QED  BY <2>1, <2>2, <2>3, SMT
                DEF AnswerAtOnce, TurnAway, Administer, IInv, TypeOK, Isolated
  <1>4. /\ threads' \in [Threads -> ThreadSet]
        /\ \A u \in Threads : ThreadOK(threads'[u])
        /\ threads'[t].op \notin Ops
        /\ \A u \in Threads \ {t} : threads'[u] = threads[u]
    BY <1>1, <1>2, OneThread
  <1>5. TypeOK'
    BY <1>2, <1>3, <1>4, Counting DEF IInv, TypeOK, ThreadSet
  <1>6. ClosedBelowThreshold'
    BY <1>2 DEF IInv, ClosedBelowThreshold
  <1>7. Isolated'
    BY <1>2, <1>3, <1>4, SMT DEF IInv, Isolated, HealthyShardServes, shard
  <1> QED  BY <1>1, <1>2, <1>3, <1>4, <1>5, <1>6, <1>7 DEF IInv

\* A request about a key.
LEMMA KeyRequest ==
    ASSUME IInv, NEW t \in Threads, NEW k \in Keys,
           \/ \E op \in {"GET", "DELETE"} : HandleKey(t, op, k, NoValue)
           \/ \E v \in Values : HandleKey(t, "PUT", k, v)
    PROVE  IInv'
  <1>1. PICK op \in Ops, v \in Values \cup {NoValue} :
           /\ HandleKey(t, op, k, v)
           /\ IF op = "PUT" THEN v \in Values ELSE v = NoValue
    BY DEF Ops
  <1> DEFINE th == Thread("asking", op, k, v, 0, 0)
  <1>2. th \in ThreadSet /\ ThreadOK(th) /\ th.status = 0
    <2>1. /\ th \in ThreadSet /\ th.status = 0 /\ th.pc = "asking" /\ th.op = op
          /\ th.key = k /\ th.value = v
      BY GatewayAssumption, SMT DEF Thread, ThreadSet, Ops
    <2> HIDE DEF th
    <2> QED  BY <1>1, <2>1 DEF ThreadOK, Busy, Ops
  <1>3. threads' = [threads EXCEPT ![t] = th]
    BY <1>1 DEF HandleKey, Become
  <1> HIDE DEF th
  <1>4. /\ threads' \in [Threads -> ThreadSet]
        /\ \A u \in Threads : ThreadOK(threads'[u])
        /\ threads'[t].status = 0
        /\ \A u \in Threads \ {t} : threads'[u] = threads[u]
    BY <1>2, <1>3, OneThread
  <1>5. UNCHANGED <<tables, majority, failed, breakers, leaked, troubled>>
    BY <1>1 DEF HandleKey
  <1>6. TypeOK'
    BY <1>1, <1>4, <1>5, Counting DEF IInv, TypeOK, ThreadSet, HandleKey
  <1>7. ClosedBelowThreshold'
    BY <1>5 DEF IInv, ClosedBelowThreshold
  <1>8. Isolated'
    BY <1>4, <1>5, UnusedBreakers, StillIsolated, SMT
  <1> QED  BY <1>4, <1>6, <1>7, <1>8 DEF IInv

\* A step that gives breaker s a sound new content.
LEMMA OneBreaker ==
    ASSUME IInv, NEW s \in Shards, NEW b \in Breaker, Sound(b), BreakersBecome(s, b)
    PROVE  /\ breakers' \in [Shards -> Breaker] /\ leaked' \in [Shards -> Nat]
           /\ ClosedBelowThreshold'
           /\ breakers'[s] = b
           /\ \A r \in Shards \ {s} : breakers'[r] = breakers[r]
  BY DEF IInv, TypeOK, BreakersBecome, ClosedBelowThreshold, Sound

\* The breaker that is asked or told of a result.
LEMMA ItsBreaker ==
    ASSUME IInv, NEW t \in Threads, threads[t].pc \in Busy
    PROVE  /\ breaker_for(shard(t)) = shard(t) /\ shard(t) \in Shards
           /\ breakers[shard(t)] \in Breaker /\ Sound(breakers[shard(t)])
           /\ threads[t].key \in Keys /\ threads[t].op \in Ops
  <1>1. threads[t].key \in Keys /\ threads[t].op \in Ops
    BY ZenonT(40) DEF IInv, ThreadOK
  <1>2. shard(t) \in Shards
    BY <1>1, KeyHasShard DEF shard
  <1> QED  BY <1>1, <1>2 DEF IInv, TypeOK, ClosedBelowThreshold, Sound, breaker_for

\* The breaker is asked.
LEMMA Asking ==
    ASSUME IInv, NEW t \in Threads, Allow(t)
    PROVE  IInv'
  <1> DEFINE s == shard(t)
             th == threads[t]
  <1>1. /\ th.pc = "asking" /\ th \in ThreadSet /\ ThreadOK(th) /\ th.op \in Ops
        /\ s \in Shards /\ breaker_for(s) = s
        /\ breakers[s] \in Breaker /\ Sound(breakers[s])
        /\ UNCHANGED <<tables, majority, failed, troubled>>
    BY ItsBreaker DEF Allow, Busy, IInv, TypeOK, ThreadSet
  <1>0. /\ th.op \in Ops \cup {"none"} /\ th.key \in Keys \cup {NoValue}
        /\ th.value \in Values \cup {NoValue} /\ 0 \in 0 .. MaxRetries
    BY <1>1, ThreadTypes
  <1>2. CASE Allows(breakers[s])
    <2> DEFINE new == Thread("calling", th.op, th.key, th.value, 0, 0)
    <2>1. /\ threads' = [threads EXCEPT ![t] = new]
          /\ BreakersBecome(s, allow_request(breakers[s]))
          /\ UNCHANGED metrics
      BY <1>1, <1>2 DEF Allow, Goes, Become
    <2>2. new \in ThreadSet /\ ThreadOK(new) /\ new.status = 0 /\ new.key = th.key
      <3>1. /\ new \in ThreadSet /\ new.status = 0 /\ new.pc = "calling"
            /\ new.op = th.op /\ new.key = th.key /\ new.value = th.value
        BY <1>0 DEF Thread, ThreadSet
      <3> HIDE DEF new
      <3> QED  BY <1>1, <3>1, SMT DEF ThreadOK, Busy
    <2> HIDE DEF new
    <2>3. /\ threads' \in [Threads -> ThreadSet]
          /\ \A u \in Threads : ThreadOK(threads'[u])
          /\ threads'[t] = new
          /\ \A u \in Threads \ {t} : threads'[u] = threads[u]
      BY <2>1, <2>2, OneThread
    <2>4. /\ breakers' \in [Shards -> Breaker] /\ leaked' \in [Shards -> Nat]
          /\ ClosedBelowThreshold'
          /\ breakers'[s] = allow_request(breakers[s])
          /\ \A r \in Shards \ {s} : breakers'[r] = breakers[r]
      BY <1>1, <2>1, BreakerSteps, OneBreaker
    <2>5. TypeOK'
      BY <1>1, <2>1, <2>3, <2>4 DEF IInv, TypeOK, ThreadSet
    <2>6. \A r \in Shards \ (troubled \cup failed) :
             breakers'[r].state = "Closed" /\ breakers'[r].failures = 0
      BY <1>1, <2>4, UnusedBreakers, UntouchedBreaker, SMT
    <2>7. Isolated'
      BY <1>1, <2>2, <2>3, <2>6, StillIsolated, SMT
    <2> QED  BY <2>3, <2>4, <2>5, <2>7 DEF IInv
  <1>3. CASE ~Allows(breakers[s])
    <2> DEFINE new == Thread("idle", th.op, th.key, th.value, 0, 503)
    <2>1. /\ threads' = [threads EXCEPT ![t] = new]
          /\ \E counted : Count(counted)
          /\ UNCHANGED <<breakers, leaked>>
      BY <1>1, <1>3 DEF Allow, Answer, Goes, Become
    <2>2. new \in ThreadSet /\ ThreadOK(new) /\ new.key = th.key
      <3>1. /\ new \in ThreadSet /\ new.pc = "idle" /\ new.attempt = 0
            /\ new.op = th.op /\ new.key = th.key
        BY <1>0, SMT DEF Thread, ThreadSet
      <3> HIDE DEF new
      <3> QED  BY <1>1, <3>1, ZenonT(40) DEF ThreadOK, Busy
    <2> HIDE DEF new
    <2>3. /\ threads' \in [Threads -> ThreadSet]
          /\ \A u \in Threads : ThreadOK(threads'[u])
          /\ threads'[t] = new
          /\ \A u \in Threads \ {t} : threads'[u] = threads[u]
      BY <2>1, <2>2, OneThread
    <2>4. TypeOK' /\ ClosedBelowThreshold'
      BY <1>1, <2>1, <2>3, Counting
         DEF IInv, TypeOK, ThreadSet, ClosedBelowThreshold
    <2>5. s \in troubled \cup failed
      BY <1>1, <1>3, UntouchedBreaker, SMT DEF IInv, Isolated, HealthyShardServes
    <2>6. Isolated'
      BY <1>1, <2>1, <2>2, <2>3, <2>5, UnusedBreakers, StillIsolated, ZenonT(40)
         DEF shard
    <2> QED  BY <2>3, <2>4, <2>6 DEF IInv
  <1> QED  BY <1>2, <1>3

\* The results of the cluster, and what each of them tells.
LEMMA ClusterResults ==
    ASSUME NEW result \in Results
    PROVE  /\ result.status \in {200, 201, 404, 503, 400}
           /\ result.value \in Values \cup {NoValue}
           /\ result.status = 503 => result = Unavailable /\ result.value = NoValue
           /\ result.status = 400 <=> result = Thrown
  BY SMT DEF Results, Result, Unavailable, Thrown

\* A call of the cluster.
LEMMA ClusterCall ==
    ASSUME IInv, NEW t \in Threads, Call(t)
    PROVE  LET th == threads[t]
               s == shard(t)
           IN  /\ tables' \in [Shards -> [Keys -> Values \cup {NoValue}]]
               /\ UNCHANGED <<majority, breakers, metrics, troubled>>
               /\ leaked' \in [Shards -> Nat]
               /\ failed' = failed \/ (StorageFaults /\ failed' = failed \cup {s})
               /\ \E result \in Results :
                     /\ CASE th.op = "GET" -> get(th.key, result)
                          [] th.op = "PUT" -> put(th.key, th.value, result)
                          [] th.op = "DELETE" -> erase(th.key, result)
                     /\ result = Unavailable => ~majority[s] \/ s \in failed
                     /\ result = Thrown => StorageFaults /\ s \in failed'
                     /\ threads' = [threads EXCEPT ![t] =
                           Thread(IF result = Thrown THEN "idle" ELSE "called",
                                  th.op, th.key,
                                  IF th.op = "GET" THEN result.value ELSE th.value,
                                  IF result = Thrown THEN 0 ELSE th.attempt,
                                  result.status)]
  <1> DEFINE th == threads[t]
             s == shard(t)
  <1>1. /\ th.pc = "calling" /\ th \in ThreadSet /\ ThreadOK(th) /\ th.op \in Ops
        /\ th.key \in Keys /\ s = shard_for_key(th.key)
        /\ s \in Shards /\ breaker_for(s) = s
        /\ th.op = "PUT" => th.value \in Values
    BY ItsBreaker, SMT DEF Call, Busy, IInv, TypeOK, ThreadSet, ThreadOK, shard
  <1>2. leaked' \in [Shards -> Nat]
    BY <1>1, SMT DEF Call, IInv, TypeOK
  <1>3. PICK result \in Results :
           /\ CASE th.op = "GET" -> get(th.key, result)
                [] th.op = "PUT" -> put(th.key, th.value, result)
                [] th.op = "DELETE" -> erase(th.key, result)
           /\ threads' = [threads EXCEPT ![t] =
                 Thread(IF result = Thrown THEN "idle" ELSE "called", th.op, th.key,
                        IF th.op = "GET" THEN result.value ELSE th.value,
                        IF result = Thrown THEN 0 ELSE th.attempt, result.status)]
    BY DEF Call, Become
  <1>5. CASE th.op = "GET"
    <2>1. get(th.key, result)
      BY <1>3, <1>5
    <2>2. UNCHANGED <<tables, majority>>
      BY <2>1 DEF get
    <2>3. failed' = failed \/ (StorageFaults /\ failed' = failed \cup {s})
      BY <1>1, <2>1 DEF get, Throws
    <2>4. /\ result = Unavailable => ~majority[s] \/ s \in failed
          /\ result = Thrown => StorageFaults /\ s \in failed'
      BY <1>1, <2>1, SMT DEF get, Throws, Refuses, Result, Unavailable, Thrown
    <2> QED  BY <1>2, <1>3, <2>2, <2>3, <2>4 DEF Call, IInv, TypeOK
  <1>6. CASE th.op # "GET"
    <2>1. PICK v \in Values \cup {NoValue},
               done \in {Result(201, NoValue), Result(200, NoValue)} :
             Write(th.key, v, done, result)
      <3>1. CASE th.op = "PUT"
        <4>1. put(th.key, th.value, result)
          BY <1>3, <3>1
        <4> QED  BY <1>1, <3>1, <4>1 DEF put
      <3>2. CASE th.op = "DELETE"
        <4>1. erase(th.key, result)
          BY <1>3, <3>2
        <4>2. NoValue \in Values \cup {NoValue}
          OBVIOUS
        <4> QED  BY <4>1, <4>2, SMT DEF erase
      <3> QED  BY <1>1, <1>6, <3>1, <3>2 DEF Ops
    <2>2. /\ tables' \in {tables, [tables EXCEPT ![s][th.key] = v]}
          /\ UNCHANGED majority
      BY <1>1, <2>1 DEF Write
    <2>3. failed' = failed \/ (StorageFaults /\ failed' = failed \cup {s})
      BY <1>1, <2>1 DEF Write, Throws
    <2>4. /\ result = Unavailable => ~majority[s] \/ s \in failed
          /\ result = Thrown => StorageFaults /\ s \in failed'
      BY <1>1, <2>1, SMT DEF Write, Throws, Refuses, Result, Unavailable, Thrown
    <2>5. tables' \in [Shards -> [Keys -> Values \cup {NoValue}]]
      <3>1. tables \in [Shards -> [Keys -> Values \cup {NoValue}]]
        BY DEF IInv, TypeOK
      <3>2. [tables[s] EXCEPT ![th.key] = v] \in [Keys -> Values \cup {NoValue}]
        BY <1>1, <3>1
      <3> QED  BY <1>1, <2>2, <3>1, <3>2
    <2> QED  BY <1>2, <1>3, <2>2, <2>3, <2>4, <2>5 DEF Call
  <1> QED  BY <1>5, <1>6

\* The call keeps the invariant: a shard that refuses or throws is none of those
\* that nothing has happened to.
LEMMA Calling ==
    ASSUME IInv, NEW t \in Threads, Call(t)
    PROVE  IInv'
  <1> DEFINE s == shard(t)
             th == threads[t]
  <1>1. PICK result \in Results :
           /\ result = Unavailable => ~majority[s] \/ s \in failed
           /\ result = Thrown => s \in failed'
           /\ threads' = [threads EXCEPT ![t] =
                 Thread(IF result = Thrown THEN "idle" ELSE "called", th.op, th.key,
                        IF th.op = "GET" THEN result.value ELSE th.value,
                        IF result = Thrown THEN 0 ELSE th.attempt, result.status)]
    BY ClusterCall
  <1>0. /\ tables' \in [Shards -> [Keys -> Values \cup {NoValue}]]
        /\ UNCHANGED <<majority, breakers, metrics, troubled>>
        /\ leaked' \in [Shards -> Nat]
        /\ failed' = failed \/ failed' = failed \cup {s}
    BY ClusterCall
  <1> DEFINE new == Thread(IF result = Thrown THEN "idle" ELSE "called", th.op, th.key,
                           IF th.op = "GET" THEN result.value ELSE th.value,
                           IF result = Thrown THEN 0 ELSE th.attempt, result.status)
  <1>2. /\ th.pc = "calling" /\ th \in ThreadSet /\ ThreadOK(th) /\ th.op \in Ops
        /\ s \in Shards
    BY ItsBreaker DEF Call, Busy, IInv, TypeOK, ThreadSet
  <1>3. /\ new \in ThreadSet /\ ThreadOK(new) /\ new.key = th.key
        /\ new.status \in {400, 503} => s \in troubled \cup failed'
    <2>1. /\ result.status \in {200, 201, 404, 503, 400}
          /\ result.value \in Values \cup {NoValue}
          /\ result.status = 503 => result = Unavailable /\ result.value = NoValue
          /\ result.status = 400 <=> result = Thrown
      BY ClusterResults
    <2>0. /\ th.op \in Ops \cup {"none"} /\ th.key \in Keys \cup {NoValue}
          /\ th.value \in Values \cup {NoValue} /\ th.attempt \in 0 .. MaxRetries
          /\ 0 \in 0 .. MaxRetries
      BY <1>2, ThreadTypes
    <2>2. /\ new \in ThreadSet /\ new.key = th.key /\ new.status = result.status
          /\ new.op = th.op
          /\ new.pc = IF result = Thrown THEN "idle" ELSE "called"
          /\ new.value = IF th.op = "GET" THEN result.value ELSE th.value
          /\ new.attempt = IF result = Thrown THEN 0 ELSE th.attempt
      BY <2>0, <2>1, SMT DEF Thread, ThreadSet
    <2> HIDE DEF new
    <2>3. ThreadOK(new)
      BY <1>2, <2>1, <2>2, SMT DEF ThreadOK, Busy
    <2>4. new.status \in {400, 503} => s \in troubled \cup failed'
      BY <1>0, <1>1, <1>2, <2>1, <2>2, SMT DEF IInv, Isolated
    <2> QED  BY <2>2, <2>3, <2>4
  <1>4. threads' = [threads EXCEPT ![t] = new]
    BY <1>1
  <1> HIDE DEF new
  <1>5. /\ threads' \in [Threads -> ThreadSet]
        /\ \A u \in Threads : ThreadOK(threads'[u])
        /\ threads'[t] = new
        /\ \A u \in Threads \ {t} : threads'[u] = threads[u]
    BY <1>3, <1>4, OneThread, ZenonT(40)
  <1>6. failed \subseteq failed' /\ failed' \subseteq Shards
    BY <1>0, <1>2 DEF IInv, TypeOK
  <1>7. TypeOK' /\ ClosedBelowThreshold'
    BY <1>0, <1>5, <1>6 DEF IInv, TypeOK, ThreadSet, ClosedBelowThreshold
  <1>8. Isolated'
    <2>1. \A r \in Shards \ (troubled \cup failed') :
             breakers'[r].state = "Closed" /\ breakers'[r].failures = 0
      BY <1>0, <1>6, UnusedBreakers
    <2> QED  BY <1>0, <1>3, <1>5, <1>6, <2>1, StillIsolated, SMT DEF shard
  <1> QED  BY <1>5, <1>7, <1>8 DEF IInv

\* The result is recorded.
LEMMA Recording ==
    ASSUME IInv, NEW t \in Threads, Record(t)
    PROVE  IInv'
  <1> DEFINE s == shard(t)
             th == threads[t]
             b == IF th.status < 500 THEN record_success(breakers[s])
                  ELSE record_failure(breakers[s])
  <1>1. /\ th.pc = "called" /\ th \in ThreadSet /\ ThreadOK(th) /\ th.op \in Ops
        /\ s \in Shards /\ breaker_for(s) = s
        /\ breakers[s] \in Breaker /\ Sound(breakers[s])
        /\ th.status \in {200, 201, 404, 503}
        /\ UNCHANGED <<tables, majority, failed, troubled>>
    BY ItsBreaker, SMT DEF Record, Busy, IInv, TypeOK, ThreadSet, ThreadOK
  <1>2. BreakersBecome(s, b)
    BY <1>1, ZenonT(40) DEF Record
  <1>3. /\ breakers' \in [Shards -> Breaker] /\ leaked' \in [Shards -> Nat]
        /\ ClosedBelowThreshold'
        /\ breakers'[s] = b
        /\ \A r \in Shards \ {s} : breakers'[r] = breakers[r]
    <2>1. b \in Breaker /\ Sound(b)
      BY <1>1, BreakerSteps, SMT
    <2> HIDE DEF b
    <2> QED  BY <1>1, <1>2, <2>1, OneBreaker, ZenonT(40)
  <1>4. PICK new \in ThreadSet : /\ threads' = [threads EXCEPT ![t] = new]
                                 /\ ThreadOK(new)
                                 /\ new.key = th.key /\ new.status = th.status
    <2>0. /\ th.op \in Ops \cup {"none"} /\ th.key \in Keys \cup {NoValue}
          /\ th.value \in Values \cup {NoValue} /\ th.attempt \in 0 .. MaxRetries
          /\ th.status \in Nat /\ 0 \in 0 .. MaxRetries
      BY <1>1, ThreadTypes, SMT
    <2>1. CASE TriesAgain(t)
      <3> DEFINE new == Thread("sleeping", th.op, th.key, th.value, th.attempt, th.status)
      <3>1. threads' = [threads EXCEPT ![t] = new]
        BY <2>1 DEF Record, Goes, Become
      <3>2. /\ new \in ThreadSet /\ new.pc = "sleeping" /\ new.op = th.op
            /\ new.key = th.key /\ new.value = th.value
            /\ new.attempt = th.attempt /\ new.status = th.status
        BY <2>0 DEF Thread, ThreadSet
      <3>3. th.status = 503 /\ th.attempt < MaxRetries
        BY <1>1, <2>1, SMT DEF TriesAgain
      <3> HIDE DEF new
      <3>4. ThreadOK(new)
        BY <1>1, <3>2, <3>3, SMT DEF ThreadOK, Busy
      <3> QED  BY <3>1, <3>2, <3>4
    <2>2. CASE ~TriesAgain(t)
      <3> DEFINE new == Thread("idle", th.op, th.key, th.value, 0, th.status)
      <3>1. threads' = [threads EXCEPT ![t] = new]
        BY <2>2 DEF Record, Answer, Goes, Become
      <3>2. /\ new \in ThreadSet /\ new.pc = "idle" /\ new.op = th.op
            /\ new.key = th.key /\ new.attempt = 0 /\ new.status = th.status
        BY <2>0 DEF Thread, ThreadSet
      <3> HIDE DEF new
      <3>3. ThreadOK(new)
        BY <1>1, <3>2, ZenonT(40) DEF ThreadOK, Busy
      <3> QED  BY <3>1, <3>2, <3>3
    <2> QED  BY <2>1, <2>2
  <1>5. /\ threads' \in [Threads -> ThreadSet]
        /\ \A u \in Threads : ThreadOK(threads'[u])
        /\ threads'[t] = new
        /\ \A u \in Threads \ {t} : threads'[u] = threads[u]
    BY <1>4, OneThread
  <1>6. \E counted : Count(counted)
    BY DEF Record, Answer
  <1>7. TypeOK'
    BY <1>1, <1>3, <1>5, <1>6, Counting, ZenonT(40) DEF IInv, TypeOK, ThreadSet
  <1>8. Isolated'
    <2>1. ASSUME s \notin troubled \cup failed
          PROVE  breakers'[s].state = "Closed" /\ breakers'[s].failures = 0
      <3>1. th.status < 500 /\ breakers[s].state = "Closed" /\ breakers[s].failures = 0
        BY <1>1, <2>1, SMT DEF IInv, Isolated, HealthyShardServes
      <3> QED  BY <1>1, <1>3, <3>1, UntouchedBreaker, SMT
    <2>2. \A r \in Shards \ (troubled \cup failed) :
             breakers'[r].state = "Closed" /\ breakers'[r].failures = 0
      BY <1>3, <2>1, UnusedBreakers, ZenonT(40)
    <2>3. new.status \in {400, 503} => s \in troubled \cup failed
      BY <1>1, <1>4, SMT DEF IInv, Isolated, HealthyShardServes
    <2> QED  BY <1>1, <1>4, <1>5, <2>2, <2>3, StillIsolated, SMT DEF shard
  <1> QED  BY <1>3, <1>5, <1>7, <1>8 DEF IInv

\* A sleep ends.
LEMMA Waking ==
    ASSUME IInv, NEW t \in Threads, Wake(t)
    PROVE  IInv'
  <1> DEFINE th == threads[t]
             new == Thread("calling", th.op, th.key, th.value, th.attempt + 1, 0)
  <1>1. /\ th.pc = "sleeping" /\ th \in ThreadSet /\ ThreadOK(th)
        /\ UNCHANGED <<tables, majority, failed, breakers, metrics, leaked, troubled>>
    BY DEF Wake, IInv, TypeOK, ThreadSet
  <1>2. threads' = [threads EXCEPT ![t] = new]
    BY DEF Wake, Goes, Become
  <1>3. new \in ThreadSet /\ ThreadOK(new) /\ new.status = 0
    <2>0. /\ th.op \in Ops \cup {"none"} /\ th.key \in Keys \cup {NoValue}
          /\ th.value \in Values \cup {NoValue}
          /\ th.attempt \in 0 .. MaxRetries /\ th.attempt < MaxRetries
      BY <1>1, ThreadTypes, SMTT(30) DEF ThreadOK
    <2>1. /\ new \in ThreadSet /\ new.pc = "calling" /\ new.op = th.op
          /\ new.key = th.key /\ new.value = th.value /\ new.status = 0
      BY <2>0, GatewayAssumption, SMT DEF Thread, ThreadSet
    <2> HIDE DEF new
    <2> QED  BY <1>1, <2>1, SMT DEF ThreadOK, Busy
  <1> HIDE DEF new
  <1>4. /\ threads' \in [Threads -> ThreadSet]
        /\ \A u \in Threads : ThreadOK(threads'[u])
        /\ threads'[t] = new
        /\ \A u \in Threads \ {t} : threads'[u] = threads[u]
    BY <1>2, <1>3, OneThread
  <1>5. TypeOK' /\ ClosedBelowThreshold'
    BY <1>1, <1>4 DEF IInv, TypeOK, ThreadSet, ClosedBelowThreshold
  <1>6. Isolated'
    BY <1>1, <1>3, <1>4, UnusedBreakers, StillIsolated, SMT
  <1> QED  BY <1>4, <1>5, <1>6 DEF IInv

\* Time passes.
LEMMA Ticking ==
    ASSUME IInv, Tick
    PROVE  IInv'
  <1>1. \A s \in Shards : /\ breakers[s] \in Breaker /\ Sound(breakers[s])
                          /\ breakers'[s] = Aged(breakers[s])
    BY DEF Tick, IInv, TypeOK, ClosedBelowThreshold, Sound
  <1>2. \A s \in Shards : breakers'[s] \in Breaker /\ Sound(breakers'[s])
    BY <1>1, BreakerSteps
  <1>3. UNCHANGED <<tables, majority, failed, threads, metrics, leaked, troubled>>
    BY DEF Tick
  <1>4. breakers' \in [Shards -> Breaker]
    BY <1>2 DEF Tick
  <1>5. TypeOK' /\ (\A t \in Threads : ThreadOK(threads'[t]))
    BY <1>3, <1>4 DEF IInv, TypeOK
  <1>6. ClosedBelowThreshold'
    BY <1>2 DEF ClosedBelowThreshold, Sound
  <1>7. Isolated'
    <2>1. ASSUME NEW s \in Shards \ (troubled \cup failed)
          PROVE  breakers'[s].state = "Closed" /\ breakers'[s].failures = 0
      <3>1. breakers[s].state = "Closed" /\ breakers[s].failures = 0
        BY SMT DEF IInv, Isolated, HealthyShardServes
      <3> QED  BY <1>1, <3>1, UntouchedBreaker
    <2> QED  BY <1>3, <2>1, SMT DEF IInv, Isolated, HealthyShardServes, shard
  <1> QED  BY <1>5, <1>6, <1>7 DEF IInv

\* Every step keeps the invariant.
LEMMA StepInvariant == IInv /\ [Next]_vars => IInv'
  <1> SUFFICES ASSUME IInv, [Next]_vars PROVE IInv'
    OBVIOUS
  <1>1. CASE UNCHANGED vars
    BY <1>1, SMT DEF vars, IInv, TypeOK, ThreadOK, ClosedBelowThreshold, Isolated,
                HealthyShardServes, shard
  <1>2. CASE Tick
    BY <1>2, Ticking
  <1>3. ASSUME NEW t \in Threads,
               \/ AnswerAtOnce(t) \/ Request(t) \/ Administer(t) \/ Step(t)
               \/ \E reason \in {"auth_failures", "rate_limited"} : TurnAway(t, reason)
        PROVE  IInv'
    BY <1>3, OtherRequests, KeyRequest, Asking, Calling, Recording, Waking
       DEF Request, Step
  <1> QED  BY <1>1, <1>2, <1>3 DEF Next

\* The invariant always holds.
LEMMA Invariant == Spec => []IInv
  BY InitInvariant, StepInvariant, PTL DEF Spec

\* A breaker is closed exactly while fewer failures in a row than its
\* threshold are on record, for any number of threads and in whatever order
\* they record their results (record_success, record_failure).
THEOREM BreakersSound == Spec => []ClosedBelowThreshold
  <1>1. IInv => ClosedBelowThreshold
    BY DEF IInv
  <1> QED  BY <1>1, Invariant, PTL

\* A shard that always had its majority and no SQLite error serves every
\* request for its keys, whatever happens to the other shards (breaker_for).
THEOREM ShardsIsolated == Spec => []HealthyShardServes
  <1>1. IInv => HealthyShardServes
    BY DEF IInv, Isolated
  <1> QED  BY <1>1, Invariant, PTL
-----------------------------------------------------------------------------
(* What the threads may still do to a shard, and have done to the counters, *)
(* as sets of pairs, whose sizes are the sums over the threads.             *)

\* Types.
THEOREM TypesKept == Spec => []TypeOK
  <1>1. IInv => TypeOK
    BY DEF IInv
  <1> QED  BY <1>1, Invariant, PTL

\* The calls of the cluster a thread can still make before it asks a breaker.
CallsLeft(th) ==
    IF th.pc = "calling" THEN MaxRetries - th.attempt + 1
    ELSE IF (th.pc = "called" /\ th.status >= 500) \/ th.pc = "sleeping"
    THEN MaxRetries - th.attempt ELSE 0

Left(th, s) ==
    IF th.pc \in Busy /\ shard_for_key(th.key) = s THEN CallsLeft(th) ELSE 0

\* One pair for each call of shard s that is left.
Calls(ths, s) ==
    {p \in Threads \X (1 .. MaxRetries + 1) : p[2] <= Left(ths[p[1]], s)}

Most == Cardinality(Threads) * (MaxRetries + 1)

\* While a breaker is open the calls made since it opened, and those left, are
\* together less than all threads can make.
Shielded ==
    \A s \in Shards :
        IF breakers[s].state = "Open"
        THEN leaked[s] + Cardinality(Calls(threads, s)) < Most
        ELSE leaked[s] = 0

\* The numbers of calls left are what they should be.
LEMMA LeftTypes ==
    ASSUME NEW th \in ThreadSet, ThreadOK(th), NEW s
    PROVE  Left(th, s) \in 0 .. MaxRetries + 1
  <1>1. /\ th.attempt \in 0 .. MaxRetries /\ MaxRetries \in Nat
        /\ th.pc = "sleeping" => th.attempt < MaxRetries
    BY GatewayAssumption DEF ThreadSet, ThreadOK
  <1>2. CallsLeft(th) \in 0 .. MaxRetries + 1
    BY <1>1, SMT DEF CallsLeft
  <1> QED  BY <1>1, <1>2, SMT DEF Left

\* Sets of calls are finite, and never larger than all calls.
LEMMA CallsFinite ==
    ASSUME NEW ths, NEW s
    PROVE  /\ IsFiniteSet(Calls(ths, s)) /\ Cardinality(Calls(ths, s)) \in Nat
           /\ Most \in Nat /\ Most > 0
           /\ IsFiniteSet(Threads \X (1 .. MaxRetries + 1))
           /\ Cardinality(Threads \X (1 .. MaxRetries + 1)) = Most
  <1> DEFINE I == 1 .. MaxRetries + 1
             P == Threads \X I
  <1>1. IsFiniteSet(Threads) /\ Threads # {} /\ MaxRetries \in Nat
    BY GatewayAssumption
  <1>2. IsFiniteSet(I) /\ Cardinality(I) = MaxRetries + 1
    BY <1>1, FS_Interval, SMT
  <1>3. IsFiniteSet(P) /\ Cardinality(P) = Most
    <2> HIDE DEF I
    <2> QED  BY <1>1, <1>2, FS_Product DEF Most
  <1>4. Calls(ths, s) \in SUBSET P
    BY DEF Calls
  <1> HIDE DEF P
  <1>5. IsFiniteSet(Calls(ths, s)) /\ Cardinality(Calls(ths, s)) \in Nat
    BY <1>3, <1>4, FS_Subset, FS_CardinalityType
  <1>6. Cardinality(Threads) \in Nat /\ Cardinality(Threads) # 0
    BY <1>1, FS_CardinalityType, FS_EmptySet
  <1>7. Most \in Nat /\ Most > 0
    BY <1>1, <1>6, SMT DEF Most
  <1> QED  BY <1>3, <1>5, <1>7 DEF P

\* One thread has fewer calls left, or as many as before.
LEMMA FewerCalls ==
    ASSUME NEW ths, NEW new, NEW s, NEW t \in Threads,
           \A u \in Threads \ {t} : new[u] = ths[u],
           Left(new[t], s) \in Nat, Left(ths[t], s) \in 0 .. MaxRetries + 1,
           Left(new[t], s) <= Left(ths[t], s)
    PROVE  /\ Cardinality(Calls(new, s)) <= Cardinality(Calls(ths, s))
           /\ Left(new[t], s) < Left(ths[t], s) =>
                 Cardinality(Calls(new, s)) + 1 <= Cardinality(Calls(ths, s))
  <1> DEFINE A == Calls(ths, s)
             B == Calls(new, s)
             m == Left(ths[t], s)
             n == Left(new[t], s)
             p == <<t, m>>
  <1>1. IsFiniteSet(A) /\ Cardinality(A) \in Nat
    BY CallsFinite
  <1>2. B \subseteq A
    <2>1. ASSUME NEW q \in Threads \X (1 .. MaxRetries + 1), q[2] <= Left(new[q[1]], s)
          PROVE  q[2] <= Left(ths[q[1]], s)
      <3>1. q[1] \in Threads /\ q[2] \in Nat
        BY SMT
      <3>2. CASE q[1] = t
        BY <2>1, <3>1, <3>2, SMT
      <3>3. CASE q[1] # t
        BY <2>1, <3>1, <3>3
      <3> QED  BY <3>2, <3>3
    <2> QED  BY <2>1 DEF Calls
  <1>3. ASSUME n < m
        PROVE  p \in A /\ p \notin B
    <2>1. p \in Threads \X (1 .. MaxRetries + 1) /\ p[1] = t /\ p[2] = m
      BY <1>3, GatewayAssumption, SMT
    <2>2. m <= m /\ ~(m <= n)
      BY <1>3, SMT
    <2> HIDE DEF p, m, n
    <2> QED  BY <2>1, <2>2 DEF Calls, m, n
  <1> HIDE DEF A, B, p
  <1>4. Cardinality(B) <= Cardinality(A)
    BY <1>1, <1>2, FS_Subset
  <1>5. ASSUME n < m
        PROVE  Cardinality(B) + 1 <= Cardinality(A)
    <2>1. IsFiniteSet(A \ {p}) /\ Cardinality(A \ {p}) = Cardinality(A) - 1
      BY <1>1, <1>3, <1>5, FS_RemoveElement
    <2>2. B \in SUBSET (A \ {p})
      BY <1>2, <1>3, <1>5
    <2>3. IsFiniteSet(B) /\ Cardinality(B) <= Cardinality(A \ {p})
      BY <2>1, <2>2, FS_Subset
    <2>4. Cardinality(B) \in Nat
      BY <2>3, FS_CardinalityType
    <2> QED  BY <1>1, <2>1, <2>3, <2>4, SMT
  <1> QED  BY <1>4, <1>5 DEF A, B

\* A thread that has used one attempt cannot make all the calls there are.
LEMMA NotAllCalls ==
    ASSUME NEW ths, NEW s, NEW t \in Threads, Left(ths[t], s) \in 0 .. MaxRetries
    PROVE  Cardinality(Calls(ths, s)) < Most
  <1> DEFINE P == Threads \X (1 .. MaxRetries + 1)
             p == <<t, MaxRetries + 1>>
             A == Calls(ths, s)
  <1>1. /\ IsFiniteSet(P) /\ Cardinality(P) = Most /\ Most \in Nat
        /\ IsFiniteSet(A) /\ Cardinality(A) \in Nat
    BY CallsFinite
  <1>2. p \in P /\ p \notin A
    <2>1. p \in P /\ p[1] = t /\ p[2] = MaxRetries + 1
      BY GatewayAssumption, SMT
    <2>2. ~(MaxRetries + 1 <= Left(ths[t], s))
      BY GatewayAssumption, SMT
    <2> HIDE DEF p
    <2> QED  BY <2>1, <2>2 DEF Calls
  <1>3. A \subseteq P
    BY DEF Calls
  <1> HIDE DEF P, p, A
  <1>4. IsFiniteSet(P \ {p}) /\ Cardinality(P \ {p}) = Most - 1
    BY <1>1, <1>2, FS_RemoveElement
  <1>5. A \in SUBSET (P \ {p})
    BY <1>2, <1>3
  <1>6. Cardinality(A) <= Cardinality(P \ {p})
    BY <1>4, <1>5, FS_Subset
  <1> QED  BY <1>1, <1>4, <1>6, SMT DEF A

\* What a step of thread t may do to the breaker of shard s and its history.
Shields(s, t) ==
    LET now == breakers[s].state = "Open"
        next == breakers'[s].state = "Open"
        m == Left(threads[t], s)
        n == Left(threads'[t], s)
    IN  \/ ~next /\ leaked'[s] = 0
        \/ now /\ next /\ leaked'[s] = leaked[s] /\ n <= m
        \/ now /\ next /\ leaked'[s] = leaked[s] + 1 /\ n < m
        \/ ~now /\ next /\ leaked'[s] = leaked[s] /\ n <= MaxRetries

\* The threads before and after a step.
LEMMA ThreadsNow ==
    ASSUME IInv, NEW t \in Threads
    PROVE  threads[t] \in ThreadSet /\ ThreadOK(threads[t])
  BY DEF IInv, TypeOK, ThreadSet

LEMMA ThreadsNext ==
    ASSUME IInv', NEW t \in Threads
    PROVE  threads'[t] \in ThreadSet /\ ThreadOK(threads'[t])
  <1>1. threads'[t] \in ThreadSet
    BY DEF IInv, TypeOK, ThreadSet
  <1>2. ThreadOK(threads'[t])
    BY ZenonT(40) DEF IInv, ThreadOK
  <1> QED  BY <1>1, <1>2

LEMMA ShieldKept ==
    ASSUME IInv, IInv', Shielded, NEW t \in Threads,
           \A u \in Threads \ {t} : threads'[u] = threads[u],
           \A s \in Shards : Shields(s, t)
    PROVE  Shielded'
  <1> SUFFICES ASSUME NEW s \in Shards
               PROVE  IF breakers'[s].state = "Open"
                      THEN leaked'[s] + Cardinality(Calls(threads', s)) < Most
                      ELSE leaked'[s] = 0
    BY DEF Shielded, Calls, Left, CallsLeft
  <1> DEFINE m == Left(threads[t], s)
             n == Left(threads'[t], s)
             a == Cardinality(Calls(threads, s))
             b == Cardinality(Calls(threads', s))
  <1>1. m \in 0 .. MaxRetries + 1 /\ n \in 0 .. MaxRetries + 1
    <2>1. /\ threads[t] \in ThreadSet /\ ThreadOK(threads[t])
          /\ threads'[t] \in ThreadSet /\ ThreadOK(threads'[t])
      BY ThreadsNow, ThreadsNext
    <2> QED  BY <2>1, LeftTypes
  <1>2. a \in Nat /\ b \in Nat /\ Most \in Nat /\ leaked[s] \in Nat /\ MaxRetries \in Nat
    BY CallsFinite, GatewayAssumption DEF IInv, TypeOK
  <1>3. /\ n <= m => b <= a
        /\ n < m => b + 1 <= a
    BY <1>1, <1>2, FewerCalls, SMT
  <1>4. n <= MaxRetries => b < Most
    BY <1>1, <1>2, NotAllCalls, SMT
  <1>5. \/ breakers'[s].state # "Open" /\ leaked'[s] = 0
        \/ /\ breakers[s].state = "Open" /\ breakers'[s].state = "Open"
           /\ leaked'[s] = leaked[s] /\ n <= m
        \/ /\ breakers[s].state = "Open" /\ breakers'[s].state = "Open"
           /\ leaked'[s] = leaked[s] + 1 /\ n < m
        \/ /\ breakers[s].state # "Open" /\ breakers'[s].state = "Open"
           /\ leaked'[s] = leaked[s] /\ n <= MaxRetries
    BY DEF Shields
  <1>6. IF breakers[s].state = "Open" THEN leaked[s] + a < Most ELSE leaked[s] = 0
    BY DEF Shielded
  <1> HIDE DEF m, n, a, b
  <1>7. IF breakers'[s].state = "Open" THEN leaked'[s] + b < Most ELSE leaked'[s] = 0
    BY <1>1, <1>2, <1>3, <1>4, <1>5, <1>6, SMT
  <1> QED  BY <1>7 DEF b

\* A step that leaves the breakers alone, and the thread with no more calls.
LEMMA BreakersAlone ==
    ASSUME IInv, Shielded, NEW t \in Threads, UNCHANGED <<breakers, leaked>>,
           NEW s \in Shards, Left(threads'[t], s) <= Left(threads[t], s)
    PROVE  Shields(s, t)
  BY DEF Shields, Shielded

\* Every step of the gateway keeps the shards shielded.
LEMMA ShieldStep ==
    ASSUME IInv, IInv', Shielded, [Next]_vars
    PROVE  Shielded'
  <1>1. CASE UNCHANGED vars
    <2>1. threads' = threads /\ breakers' = breakers /\ leaked' = leaked
      BY <1>1 DEF vars
    <2>2. SUFFICES ASSUME NEW s \in Shards
                   PROVE  IF breakers'[s].state = "Open"
                          THEN leaked'[s] + Cardinality(Calls(threads', s)) < Most
                          ELSE leaked'[s] = 0
      BY DEF Shielded, Calls, Left, CallsLeft
    <2> QED  BY <2>1 DEF Shielded
  <1>2. CASE Tick
    <2>1. UNCHANGED <<threads, leaked>>
      BY <1>2 DEF Tick
    <2>2. \A s \in Shards : breakers'[s].state = breakers[s].state
      BY <1>2, SMT DEF Tick, Aged, IInv, TypeOK, Breaker
    <2>3. SUFFICES ASSUME NEW s \in Shards
                   PROVE  IF breakers'[s].state = "Open"
                          THEN leaked'[s] + Cardinality(Calls(threads', s)) < Most
                          ELSE leaked'[s] = 0
      BY DEF Shielded, Calls, Left, CallsLeft
    <2> QED  BY <2>1, <2>2 DEF Shielded
  <1>3. ASSUME NEW t \in Threads,
               \/ AnswerAtOnce(t)
               \/ \E reason \in {"auth_failures", "rate_limited"} : TurnAway(t, reason)
               \/ Administer(t)
        PROVE  Shielded'
    <2>1. UNCHANGED <<breakers, leaked>> /\ threads[t].pc = "idle"
          /\ threads' = [threads EXCEPT ![t] = NoRequest]
      BY <1>3 DEF AnswerAtOnce, TurnAway, Administer, HandleElect, HandleReplica,
                         Become
    <2>2. threads'[t].pc = "idle" /\ \A u \in Threads \ {t} : threads'[u] = threads[u]
      BY <2>1 DEF IInv, TypeOK, NoRequest, Thread
    <2>3. \A s : Left(threads[t], s) = 0 /\ Left(threads'[t], s) = 0
      BY <2>1, <2>2 DEF Left, Busy
    <2> QED  BY <2>1, <2>2, <2>3, BreakersAlone, ShieldKept, SMT
  <1>4. ASSUME NEW t \in Threads, Request(t)
        PROVE  Shielded'
    <2>1. PICK op, k, v : HandleKey(t, op, k, v)
      BY <1>4 DEF Request
    <2>2. UNCHANGED <<breakers, leaked>> /\ threads[t].pc = "idle"
          /\ threads' = [threads EXCEPT ![t] = Thread("asking", op, k, v, 0, 0)]
      BY <2>1 DEF HandleKey, Become
    <2>3. threads'[t].pc = "asking" /\ \A u \in Threads \ {t} : threads'[u] = threads[u]
      BY <2>2 DEF IInv, TypeOK, Thread
    <2>4. \A s : Left(threads[t], s) = 0 /\ Left(threads'[t], s) = 0
      BY <2>2, <2>3 DEF Left, CallsLeft, Busy
    <2> QED  BY <2>2, <2>3, <2>4, BreakersAlone, ShieldKept, SMT
  <1>5. ASSUME NEW t \in Threads, Allow(t)
        PROVE  Shielded'
    <2> DEFINE th == threads[t]
               s == shard(t)
               b == breakers[s]
    <2>1. /\ th.pc = "asking" /\ s \in Shards /\ breaker_for(s) = s /\ b \in Breaker
      BY <1>5, ItsBreaker DEF Allow, Busy
    <2>2. PICK pc, status :
             /\ pc \in {"calling", "idle"}
             /\ threads' = [threads EXCEPT
                              ![t] = Thread(pc, th.op, th.key, th.value, 0, status)]
             /\ \/ pc = "calling" /\ Allows(b) /\ BreakersBecome(s, allow_request(b))
                \/ pc = "idle" /\ UNCHANGED <<breakers, leaked>>
      BY <1>5, <2>1, SMT DEF Allow, Goes, Become, Answer
    <2>3. /\ threads'[t].pc = pc /\ threads'[t].key = th.key
          /\ \A u \in Threads \ {t} : threads'[u] = threads[u]
      BY <2>2 DEF IInv, TypeOK, Thread
    <2>4. \A r : Left(th, r) = 0 /\ (r # s \/ pc = "idle" => Left(threads'[t], r) = 0)
      BY <2>1, <2>3 DEF Left, CallsLeft, Busy, shard
    <2>5. ASSUME NEW r \in Shards
          PROVE  Shields(r, t)
      <3>1. CASE pc = "idle"
        BY <2>2, <2>4, <3>1, BreakersAlone, SMT
      <3>2. CASE pc = "calling"
        <4>1. BreakersBecome(s, allow_request(b)) /\ Allows(b)
          BY <2>2, <3>2
        <4>2. allow_request(b).state # "Open"
          BY <2>1, <4>1 DEF allow_request, Allows, Breaker
        <4>3. /\ breakers' = [breakers EXCEPT ![s] = allow_request(b)]
              /\ leaked' = [leaked EXCEPT ![s] = 0]
          BY <4>1, <4>2 DEF BreakersBecome
        <4>4. CASE r = s
          <5>1. breakers'[s] = allow_request(b) /\ leaked'[s] = 0
            BY <2>1, <4>3 DEF IInv, TypeOK
          <5> QED  BY <4>2, <4>4, <5>1 DEF Shields
        <4>5. CASE r # s
          <5>1. breakers'[r] = breakers[r] /\ leaked'[r] = leaked[r]
            BY <4>3, <4>5 DEF IInv, TypeOK
          <5>2. Left(threads'[t], r) <= Left(threads[t], r)
            BY <2>4, <4>5, SMT
          <5> QED  BY <5>1, <5>2 DEF Shields, Shielded
        <4> QED  BY <4>4, <4>5
      <3> QED  BY <2>2, <3>1, <3>2
    <2> QED  BY <2>3, <2>5, ShieldKept
  <1>6. ASSUME NEW t \in Threads, Call(t)
        PROVE  Shielded'
    <2> DEFINE th == threads[t]
               s == shard(t)
    <2>1. /\ th.pc = "calling" /\ s \in Shards /\ breaker_for(s) = s
          /\ th \in ThreadSet
      BY <1>6, ItsBreaker DEF Call, Busy, IInv, TypeOK, ThreadSet
    <2>0. PICK pc \in {"called", "idle"} : \E value, attempt, status :
             /\ threads' = [threads EXCEPT
                              ![t] = Thread(pc, th.op, th.key, value, attempt, status)]
             /\ pc = "called" => attempt = th.attempt
      BY <1>6 DEF Call, Become
    <2>2. PICK value, attempt, status :
             /\ threads' = [threads EXCEPT
                              ![t] = Thread(pc, th.op, th.key, value, attempt, status)]
             /\ pc = "called" => attempt = th.attempt
      BY <2>0
    <2>3. /\ breakers' = breakers
          /\ leaked' = IF breakers[s].state = "Open"
                       THEN [leaked EXCEPT ![s] = @ + 1] ELSE leaked
      BY <1>6, <2>1 DEF Call
    <2>4. /\ threads'[t].pc = pc /\ threads'[t].key = th.key
          /\ threads'[t].attempt = attempt
          /\ \A u \in Threads \ {t} : threads'[u] = threads[u]
      BY <2>2 DEF IInv, TypeOK, Thread
    <2>5. \A r : r # s => Left(th, r) = 0 /\ Left(threads'[t], r) = 0
      BY <2>1, <2>4 DEF Left, shard
    <2>6. Left(threads'[t], s) < Left(th, s)
      <3>1. th.attempt \in 0 .. MaxRetries /\ MaxRetries \in Nat
        BY <2>1, GatewayAssumption DEF ThreadSet
      <3>2. Left(th, s) = MaxRetries - th.attempt + 1
        BY <2>1 DEF Left, CallsLeft, shard, Busy
      <3>3. Left(threads'[t], s) \in {0, MaxRetries - th.attempt}
        BY <2>2, <2>4 DEF Left, CallsLeft, Busy
      <3> QED  BY <3>1, <3>2, <3>3, SMT
    <2>7. ASSUME NEW r \in Shards
          PROVE  Shields(r, t)
      <3>1. CASE r = s /\ breakers[s].state = "Open"
        <4>1. leaked'[s] = leaked[s] + 1
          BY <2>1, <2>3, <3>1 DEF IInv, TypeOK
        <4> QED  BY <2>3, <2>6, <3>1, <4>1 DEF Shields
      <3>2. CASE r # s /\ breakers[r].state = "Open"
        <4>1. leaked'[r] = leaked[r]
          BY <2>3, <3>2 DEF IInv, TypeOK
        <4>2. Left(threads'[t], r) <= Left(th, r)
          BY <2>5, <3>2, SMT
        <4> QED  BY <2>3, <3>2, <4>1, <4>2 DEF Shields
      <3>3. CASE breakers[r].state # "Open"
        <4>1. leaked'[r] = leaked[r] /\ leaked[r] = 0
          BY <2>3, <3>3 DEF IInv, TypeOK, Shielded
        <4> QED  BY <2>3, <3>3, <4>1 DEF Shields
      <3> QED  BY <3>1, <3>2, <3>3
    <2> QED  BY <2>4, <2>7, ShieldKept
  <1>7. ASSUME NEW t \in Threads, Record(t)
        PROVE  Shielded'
    <2> DEFINE th == threads[t]
               s == shard(t)
               b == IF th.status < 500 THEN record_success(breakers[s])
                    ELSE record_failure(breakers[s])
    <2>1. /\ th.pc = "called" /\ s \in Shards /\ breaker_for(s) = s
          /\ breakers[s] \in Breaker /\ th \in ThreadSet
      BY <1>7, ItsBreaker DEF Record, Busy, IInv, TypeOK, ThreadSet
    <2>2. BreakersBecome(s, b)
      BY <1>7, <2>1, ZenonT(40) DEF Record
    <2>0. PICK pc \in {"sleeping", "idle"} : \E attempt :
             /\ threads' = [threads EXCEPT ![t] =
                               Thread(pc, th.op, th.key, th.value, attempt, th.status)]
             /\ pc = "sleeping" => attempt = th.attempt
      BY <1>7 DEF Record, Goes, Answer, Become
    <2>3. PICK attempt :
             /\ threads' = [threads EXCEPT ![t] =
                               Thread(pc, th.op, th.key, th.value, attempt, th.status)]
             /\ pc = "sleeping" => attempt = th.attempt
      BY <2>0
    <2>4. /\ threads'[t].pc = pc /\ threads'[t].key = th.key
          /\ threads'[t].attempt = attempt
          /\ \A u \in Threads \ {t} : threads'[u] = threads[u]
      BY <2>3 DEF IInv, TypeOK, Thread
    <2>5. \A r : r # s => Left(th, r) = 0 /\ Left(threads'[t], r) = 0
      BY <2>1, <2>4 DEF Left, shard
    <2>6. b.state = "Open" => th.status >= 500
      BY <2>1, SMT DEF record_success, Breaker, ThreadSet
    <2>7. /\ Left(threads'[t], s) <= MaxRetries
          /\ th.status >= 500 => Left(threads'[t], s) <= Left(th, s)
      <3>1. th.attempt \in 0 .. MaxRetries /\ MaxRetries \in Nat
        BY <2>1, GatewayAssumption DEF ThreadSet
      <3>2. th.status >= 500 => Left(th, s) = MaxRetries - th.attempt
        BY <2>1 DEF Left, CallsLeft, shard, Busy
      <3>3. Left(threads'[t], s) \in {0, MaxRetries - th.attempt}
        BY <2>3, <2>4 DEF Left, CallsLeft, Busy
      <3> QED  BY <3>1, <3>2, <3>3, SMT
    <2> HIDE DEF b
    <2>8. ASSUME NEW r \in Shards
          PROVE  Shields(r, t)
      <3>1. CASE r = s
        <4>1. breakers'[s] = b
          BY <2>1, <2>2 DEF BreakersBecome, IInv, TypeOK
        <4>2. CASE b.state = "Open"
          <5>1. leaked' = leaked
            BY <2>2, <4>2 DEF BreakersBecome
          <5> QED  BY <2>6, <2>7, <3>1, <4>1, <4>2, <5>1, ZenonT(40) DEF Shields
        <4>3. CASE b.state # "Open"
          <5>1. leaked'[s] = 0
            BY <2>1, <2>2, <4>3 DEF BreakersBecome, IInv, TypeOK
          <5> QED  BY <3>1, <4>1, <4>3, <5>1 DEF Shields
        <4> QED  BY <4>2, <4>3
      <3>2. CASE r # s
        <4>1. breakers'[r] = breakers[r] /\ leaked'[r] = leaked[r]
          BY <2>2, <3>2 DEF BreakersBecome, IInv, TypeOK
        <4>2. Left(threads'[t], r) <= Left(th, r)
          BY <2>5, <3>2, SMT
        <4> QED  BY <4>1, <4>2 DEF Shields, Shielded
      <3> QED  BY <3>1, <3>2
    <2> QED  BY <2>4, <2>8, ShieldKept
  <1>8. ASSUME NEW t \in Threads, Wake(t)
        PROVE  Shielded'
    <2> DEFINE th == threads[t]
    <2>1. /\ th.pc = "sleeping" /\ th \in ThreadSet /\ UNCHANGED <<breakers, leaked>>
      BY <1>8 DEF Wake, IInv, TypeOK, ThreadSet
    <2>2. threads' = [threads EXCEPT ![t] =
                         Thread("calling", th.op, th.key, th.value, th.attempt + 1, 0)]
      BY <1>8 DEF Wake, Goes, Become
    <2>3. /\ threads'[t].pc = "calling" /\ threads'[t].key = th.key
          /\ threads'[t].attempt = th.attempt + 1
          /\ \A u \in Threads \ {t} : threads'[u] = threads[u]
      BY <2>2 DEF IInv, TypeOK, Thread
    <2>4. th.attempt \in 0 .. MaxRetries /\ MaxRetries \in Nat
      BY <2>1, GatewayAssumption DEF ThreadSet
    <2>5. ASSUME NEW s \in Shards
          PROVE  Left(threads'[t], s) <= Left(th, s)
      <3>1. CallsLeft(th) = MaxRetries - th.attempt
        BY <2>1 DEF CallsLeft
      <3>2. CallsLeft(threads'[t]) = MaxRetries - (th.attempt + 1) + 1
        BY <2>3 DEF CallsLeft
      <3> QED  BY <2>1, <2>3, <2>4, <3>1, <3>2, SMT DEF Left, Busy
    <2> QED  BY <2>1, <2>3, <2>5, BreakersAlone, ShieldKept
  <1> QED  BY <1>1, <1>2, <1>3, <1>4, <1>5, <1>6, <1>7, <1>8 DEF Next, Step

\* An open breaker shields its shard: for any number of threads and retries the
\* calls a shard gets while its breaker is open are those of requests that
\* were let through before, and so fewer than Cardinality(Threads) *
\* (MaxRetries + 1) (execute_with_resilience, which asks the breaker once).
THEOREM BreakersShield == Spec => []OpenShields
  <1>1. Init => Shielded
    BY SMT DEF Init, Shielded, FreshBreaker
  <1>2. IInv /\ IInv' /\ Shielded /\ [Next]_vars => Shielded'
    BY ShieldStep
  <1>3. IInv /\ Shielded => OpenShields
    <2> SUFFICES ASSUME IInv, Shielded, NEW s \in Shards PROVE leaked[s] < Most
      BY DEF OpenShields, Most
    <2>1. /\ Cardinality(Calls(threads, s)) \in Nat /\ Most \in Nat /\ Most > 0
          /\ leaked[s] \in Nat
      BY CallsFinite DEF IInv, TypeOK
    <2> QED  BY <2>1, SMT DEF Shielded
  <1> QED  BY <1>1, <1>2, <1>3, Invariant, PTL DEF Spec
-----------------------------------------------------------------------------
(* The counters.                                                           *)

\* The retries that the request of a thread has been counted for.
Retried(th) == IF th.pc \in {"calling", "called"} THEN th.attempt
               ELSE IF th.pc = "sleeping" THEN th.attempt + 1 ELSE 0

Retries(ths) == {p \in Threads \X (1 .. MaxRetries) : p[2] <= Retried(ths[p[1]])}

InProgress(ths) == {t \in Threads : ths[t].pc \in Busy}

\* No counter has reached the bound.
Uncapped(m) == \A c \in Counters : m[c] < MaxCount

\* gf requests that failed for good and co that were turned away, of k; i in
\* progress, with d of the r retries.
Bal(gf, r, co, k, i, d) ==
    /\ MaxRetries * gf + d <= r
    /\ r <= MaxRetries * (k - co - i) + d
    /\ co + gf + i <= k

Balance(m, ths) ==
    Bal(m["gateway_failures"], m["retries"], m["circuit_open"],
        m["gets"] + m["puts"] + m["deletes"],
        Cardinality(InProgress(ths)), Cardinality(Retries(ths)))

\* A request arrives, is turned away, tries again, ends, or fails for good.
LEMMA BalanceSteps ==
    ASSUME NEW gf \in Nat, NEW r \in Nat, NEW co \in Nat, NEW k \in Nat,
           NEW i \in Nat, NEW d \in Nat, Bal(gf, r, co, k, i, d)
    PROVE  /\ Bal(gf, r, co, k + 1, i + 1, d)
           /\ i > 0 => Bal(gf, r, co + 1, k, i - 1, d)
           /\ Bal(gf, r + 1, co, k, i, d + 1)
           /\ \A n \in 0 .. MaxRetries :
                 i > 0 /\ n <= d => Bal(gf, r, co, k, i - 1, d - n)
           /\ i > 0 /\ MaxRetries <= d => Bal(gf + 1, r, co, k, i - 1, d - MaxRetries)
  <1> DEFINE x == k - co - i
  <1>0. MaxRetries \in Nat
    BY GatewayAssumption
  <1>1. /\ MaxRetries * gf + d <= r /\ r <= MaxRetries * x + d
        /\ co + gf + i <= k /\ x \in Nat
    BY SMT DEF Bal
  <1>2. /\ MaxRetries * (x + 1) = MaxRetries * x + MaxRetries
        /\ MaxRetries * (gf + 1) = MaxRetries * gf + MaxRetries
        /\ MaxRetries * x \in Nat /\ MaxRetries * gf \in Nat
    BY <1>0, <1>1, SMT
  <1>3. /\ (k + 1) - co - (i + 1) = x /\ k - (co + 1) - (i - 1) = x
        /\ k - co - (i - 1) = x + 1
    BY SMT
  <1> DEFINE y == x + 1
             z == gf + 1
             mx == MaxRetries * x
             my == MaxRetries * y
             mg == MaxRetries * gf
             mz == MaxRetries * z
  <1>4. my = mx + MaxRetries /\ mz = mg + MaxRetries /\ mx \in Nat /\ mg \in Nat
    BY <1>2
  <1>5. mg + d <= r /\ r <= mx + d
    BY <1>1
  <1>6. Bal(gf, r, co, k + 1, i + 1, d)
    <2>1. co + gf + (i + 1) <= k + 1
      BY <1>1, SMT
    <2> QED  BY <1>1, <1>3, <2>1 DEF Bal
  <1>7. i > 0 => Bal(gf, r, co + 1, k, i - 1, d)
    <2>1. (co + 1) + gf + (i - 1) <= k
      BY <1>1, SMT
    <2> QED  BY <1>1, <1>3, <2>1 DEF Bal
  <1>8. Bal(gf, r + 1, co, k, i, d + 1)
    <2> HIDE DEF mx, mg
    <2>1. mg + (d + 1) <= r + 1 /\ r + 1 <= mx + (d + 1)
      BY <1>4, <1>5, SMT
    <2> QED  BY <1>1, <2>1 DEF Bal, mx, mg
  <1>9. ASSUME NEW n \in 0 .. MaxRetries, i > 0, n <= d
        PROVE  Bal(gf, r, co, k, i - 1, d - n)
    <2> HIDE DEF mx, my, mg
    <2>1. mg + (d - n) <= r /\ r <= my + (d - n)
      BY <1>0, <1>4, <1>5, <1>9, SMT
    <2>2. co + gf + (i - 1) <= k
      BY <1>1, SMT
    <2> QED  BY <1>3, <2>1, <2>2 DEF Bal, my, y, mg
  <1>10. ASSUME i > 0, MaxRetries <= d
         PROVE  Bal(gf + 1, r, co, k, i - 1, d - MaxRetries)
    <2> HIDE DEF mx, my, mg, mz
    <2>1. mz + (d - MaxRetries) <= r /\ r <= my + (d - MaxRetries)
      BY <1>0, <1>4, <1>5, <1>10, SMT
    <2>2. co + (gf + 1) + (i - 1) <= k
      BY <1>1, SMT
    <2> QED  BY <1>3, <2>1, <2>2 DEF Bal, my, y, mz, z
  <1> QED  BY <1>6, <1>7, <1>8, <1>9, <1>10

\* What a step adds to the counters, as long as they count.
LEMMA CountedUp ==
    ASSUME metrics \in [Counters -> Nat], NEW counted, Count(counted), Uncapped(metrics')
    PROVE  /\ Uncapped(metrics)
           /\ \A c \in Counters : metrics'[c] = IF c \in counted THEN metrics[c] + 1
                                                ELSE metrics[c]
  <1>1. MaxCount \in Nat
    BY GatewayAssumption
  <1>2. ASSUME NEW c \in Counters
        PROVE  /\ metrics[c] < MaxCount
               /\ metrics'[c] = IF c \in counted THEN metrics[c] + 1 ELSE metrics[c]
    <2>1. metrics[c] \in Nat /\ metrics'[c] < MaxCount
      BY DEF Uncapped
    <2>2. metrics'[c] = IF c \in counted /\ metrics[c] < MaxCount
                        THEN metrics[c] + 1 ELSE metrics[c]
      BY DEF Count
    <2> QED  BY <1>1, <2>1, <2>2
  <1> QED  BY <1>2 DEF Uncapped

\* The two sets are finite, and a request is not tried more often than it may.
LEMMA Sums ==
    ASSUME NEW ths
    PROVE  /\ IsFiniteSet(InProgress(ths)) /\ Cardinality(InProgress(ths)) \in Nat
           /\ IsFiniteSet(Retries(ths)) /\ Cardinality(Retries(ths)) \in Nat
           /\ Cardinality(Retries(ths)) <= MaxRetries * Cardinality(InProgress(ths))
  <1> DEFINE A == InProgress(ths)
             J == 1 .. MaxRetries
             B == Retries(ths)
  <1>1. IsFiniteSet(Threads) /\ MaxRetries \in Nat
    BY GatewayAssumption
  <1>2. A \in SUBSET Threads
    BY DEF InProgress
  <1>3. B \in SUBSET (A \X J)
    <2>1. ASSUME NEW p \in Threads \X J, p[2] <= Retried(ths[p[1]])
          PROVE  p \in A \X J
      <3>1. p[1] \in Threads /\ p[2] \in J /\ p = <<p[1], p[2]>>
        BY SMT
      <3>2. Retried(ths[p[1]]) # 0
        BY <2>1, <3>1, SMT
      <3>3. p[1] \in A
        BY <3>1, <3>2 DEF InProgress, Retried, Busy
      <3> QED  BY <3>1, <3>3
    <2> QED  BY <2>1 DEF Retries
  <1>4. IsFiniteSet(J) /\ Cardinality(J) = MaxRetries
    BY <1>1, FS_Interval, SMT
  <1> HIDE DEF A, B, J
  <1>5. IsFiniteSet(A) /\ Cardinality(A) \in Nat
    BY <1>1, <1>2, FS_Subset, FS_CardinalityType
  <1>6. IsFiniteSet(A \X J) /\ Cardinality(A \X J) = Cardinality(A) * Cardinality(J)
    BY <1>4, <1>5, FS_Product
  <1>7. IsFiniteSet(B) /\ Cardinality(B) <= Cardinality(A \X J)
    BY <1>3, <1>6, FS_Subset
  <1>8. Cardinality(B) \in Nat
    BY <1>7, FS_CardinalityType
  <1>9. Cardinality(A) * Cardinality(J) = MaxRetries * Cardinality(A)
    BY <1>1, <1>4, <1>5, SMT
  <1> QED  BY <1>5, <1>6, <1>7, <1>8, <1>9 DEF A, B

\* The balance says what MetricsAddUp says.
LEMMA BalanceAddsUp ==
    ASSUME IInv, Balance(metrics, threads)
    PROVE  MetricsAddUp
  <1> DEFINE gf == metrics["gateway_failures"]
             r == metrics["retries"]
             co == metrics["circuit_open"]
             k == metrics["gets"] + metrics["puts"] + metrics["deletes"]
             i == Cardinality(InProgress(threads))
             d == Cardinality(Retries(threads))
             x == k - co - i
  <1>1. gf \in Nat /\ r \in Nat /\ co \in Nat /\ k \in Nat
    BY SMT DEF IInv, TypeOK, Counters
  <1>2. i \in Nat /\ d \in Nat /\ d <= MaxRetries * i /\ MaxRetries \in Nat
    BY Sums, GatewayAssumption
  <1>3. MaxRetries * gf + d <= r /\ r <= MaxRetries * x + d /\ co + gf + i <= k
    BY DEF Balance, Bal
  <1> HIDE DEF gf, r, co, k, i, d
  <1>4. x \in Nat
    BY <1>1, <1>2, <1>3, SMT
  <1>5. MaxRetries * (x + i) = MaxRetries * x + MaxRetries * i /\ x + i = k - co
    BY <1>1, <1>2, <1>4, SMT
  <1>6. MaxRetries * gf \in Nat /\ MaxRetries * x \in Nat /\ MaxRetries * i \in Nat
    BY <1>1, <1>2, <1>4, SMT
  <1> DEFINE mg == MaxRetries * gf
             mx == MaxRetries * x
             mi == MaxRetries * i
             mk == MaxRetries * (k - co)
  <1>7. mk = mx + mi /\ mg \in Nat /\ mx \in Nat /\ mi \in Nat /\ d <= mi
        /\ mg + d <= r /\ r <= mx + d
    BY <1>2, <1>3, <1>5, <1>6
  <1> HIDE DEF mg, mx, mi, mk, x
  <1>8. mg <= r /\ r <= mk
    BY <1>1, <1>2, <1>7, SMT
  <1>9. co + gf <= k
    BY <1>1, <1>2, <1>3, SMT
  <1> QED  BY <1>8, <1>9 DEF MetricsAddUp, KeyRequests, mg, mk, gf, r, co, k

\* One thread starts or ends a request.
LEMMA ProgressStep ==
    ASSUME NEW ths, NEW new, NEW t \in Threads,
           \A u \in Threads \ {t} : new[u] = ths[u]
    PROVE  LET i == Cardinality(InProgress(ths))
               j == Cardinality(InProgress(new))
           IN  /\ (ths[t].pc \in Busy <=> new[t].pc \in Busy) => j = i
               /\ ths[t].pc \notin Busy /\ new[t].pc \in Busy => j = i + 1
               /\ ths[t].pc \in Busy /\ new[t].pc \notin Busy => i > 0 /\ j = i - 1
  <1> DEFINE A == InProgress(ths)
             B == InProgress(new)
             i == Cardinality(A)
             j == Cardinality(B)
  <1>1. IsFiniteSet(A) /\ i \in Nat
    BY Sums
  <1>2. t \in A <=> ths[t].pc \in Busy
    BY DEF InProgress
  <1>3. \A u : u \in B <=> IF u = t THEN new[t].pc \in Busy ELSE u \in A
    BY DEF InProgress
  <1> HIDE DEF A, B
  <1>4. CASE ths[t].pc \in Busy <=> new[t].pc \in Busy
    <2>1. B = A
      BY <1>2, <1>3, <1>4
    <2> QED  BY <1>4, <2>1 DEF A, B
  <1>5. CASE ths[t].pc \notin Busy /\ new[t].pc \in Busy
    <2>1. B = A \cup {t} /\ t \notin A
      BY <1>2, <1>3, <1>5
    <2>2. j = i + 1
      BY <1>1, <2>1, FS_AddElement
    <2> QED  BY <1>5, <2>2 DEF A, B
  <1>6. CASE ths[t].pc \in Busy /\ new[t].pc \notin Busy
    <2>1. B = A \ {t} /\ t \in A
      BY <1>2, <1>3, <1>6
    <2>2. j = i - 1
      BY <1>1, <2>1, FS_RemoveElement
    <2>3. i # 0
      BY <1>1, <2>1, FS_EmptySet
    <2>4. i > 0
      BY <1>1, <2>3, SMT
    <2> QED  BY <1>6, <2>2, <2>4 DEF A, B
  <1> QED  BY <1>4, <1>5, <1>6

\* One thread counts a retry, or ends its request.
LEMMA RetriesStep ==
    ASSUME NEW ths, NEW new, NEW t \in Threads,
           \A u \in Threads \ {t} : new[u] = ths[u],
           Retried(ths[t]) \in 0 .. MaxRetries, Retried(new[t]) \in 0 .. MaxRetries
    PROVE  LET d == Cardinality(Retries(ths))
               e == Cardinality(Retries(new))
               n == Retried(ths[t])
               m == Retried(new[t])
           IN  /\ m = n => e = d
               /\ m = n + 1 => e = d + 1
               /\ m = 0 => n <= d /\ e = d - n
  <1> DEFINE A == Retries(ths)
             B == Retries(new)
             d == Cardinality(A)
             e == Cardinality(B)
             n == Retried(ths[t])
             m == Retried(new[t])
             P == Threads \X (1 .. MaxRetries)
  <1>1. IsFiniteSet(A) /\ d \in Nat /\ n \in 0 .. MaxRetries /\ m \in 0 .. MaxRetries
        /\ MaxRetries \in Nat
    BY Sums, GatewayAssumption
  <1>2. \A p \in P : /\ p[1] # t => (p \in B <=> p \in A)
                     /\ p[1] = t => (p \in A <=> p[2] <= n) /\ (p \in B <=> p[2] <= m)
    BY DEF Retries
  <1>3. A \subseteq P /\ B \subseteq P
    BY DEF Retries
  <1>4. \A p \in P : p = <<p[1], p[2]>> /\ p[2] \in 1 .. MaxRetries
    BY SMT
  <1>5. \A x \in 1 .. MaxRetries : <<t, x>> \in P /\ <<t, x>>[1] = t /\ <<t, x>>[2] = x
    OBVIOUS
  <1> HIDE DEF A, B, P, n, m
  <1>6. ASSUME m = n
        PROVE  e = d
    <2>1. B = A
      BY <1>2, <1>3, <1>6
    <2> QED  BY <2>1
  <1>7. ASSUME m = n + 1
        PROVE  e = d + 1
    <2> DEFINE q == <<t, m>>
    <2>1. m \in 1 .. MaxRetries /\ ~(m <= n) /\ m <= m
      BY <1>1, <1>7, SMT
    <2>2. q \in P /\ q[1] = t /\ q[2] = m
      BY <1>5, <2>1
    <2>3. q \notin A /\ q \in B
      <3> HIDE DEF q
      <3> QED  BY <1>2, <2>1, <2>2
    <2>4. ASSUME NEW p \in P, p # q
          PROVE  p \in A <=> p \in B
      <3>1. CASE p[1] # t
        BY <1>2, <3>1
      <3>2. CASE p[1] = t
        <4>1. p[2] # m /\ p[2] \in 1 .. MaxRetries
          BY <1>4, <2>4, <3>2
        <4>2. p[2] <= m <=> p[2] <= n
          BY <1>1, <1>7, <4>1, SMT
        <4> QED  BY <1>2, <3>2, <4>2
      <3> QED  BY <3>1, <3>2
    <2> HIDE DEF q
    <2>5. B = A \cup {q}
      BY <1>3, <2>3, <2>4
    <2> QED  BY <1>1, <2>3, <2>5, FS_AddElement
  <1>8. ASSUME m = 0
        PROVE  n <= d /\ e = d - n
    <2> DEFINE I == 1 .. n
               T == {t} \X I
    <2>1. IsFiniteSet(I) /\ Cardinality(I) = n
      <3>1. n \in Nat /\ n \in Int /\ 1 \in Int
        BY <1>1, SMT
      <3> HIDE DEF n
      <3>2. IsFiniteSet(I) /\ Cardinality(I) = IF 1 > n THEN 0 ELSE n - 1 + 1
        BY <3>1, FS_Interval
      <3> QED  BY <3>1, <3>2, SMT
    <2>2. IsFiniteSet({t}) /\ Cardinality({t}) = 1
      BY FS_Singleton
    <2>3. IsFiniteSet(T) /\ Cardinality(T) = n
      <3> HIDE DEF I
      <3>1. IsFiniteSet(T) /\ Cardinality(T) = Cardinality({t}) * Cardinality(I)
        BY <2>1, <2>2, FS_Product
      <3> HIDE DEF T
      <3> QED  BY <1>1, <2>1, <2>2, <3>1, SMT
    <2>4. \A p \in T : p[1] = t /\ p[2] \in 1 .. n /\ p \in P
      BY <1>1, SMT DEF P
    <2>5. \A p \in P : p[1] = t /\ p[2] <= n => p \in T
      BY <1>1, <1>4, SMT
    <2>6. T \subseteq A
      BY <1>1, <1>2, <2>4, SMT
    <2>7. B = A \ T
      <3>1. ASSUME NEW p \in P
            PROVE  p \in B <=> p \in A /\ p \notin T
        <4>1. CASE p[1] # t
          BY <1>2, <2>4, <4>1
        <4>2. CASE p[1] = t
          <5>1. ~(p[2] <= m)
            BY <1>4, <1>8, SMT
          <5> QED  BY <1>2, <2>5, <4>2, <5>1
        <4> QED  BY <4>1, <4>2
      <3> QED  BY <1>3, <3>1
    <2> HIDE DEF T
    <2>8. A \cap T = T
      BY <2>6
    <2>9. e = d - n
      BY <1>1, <2>3, <2>7, <2>8, FS_Difference, ZenonT(40)
    <2>10. n <= d
      BY <1>1, <2>3, <2>6, FS_Subset
    <2> QED  BY <2>9, <2>10
  <1> QED  BY <1>6, <1>7, <1>8 DEF A, B, n, m

\* The counters that the balance is about.
Same(m, k) ==
    \A c \in {"gateway_failures", "retries", "circuit_open", "gets", "puts", "deletes"} :
        k[c] = m[c]

\* The retries counted for a thread.
LEMMA RetriedTypes ==
    ASSUME NEW th \in ThreadSet, ThreadOK(th)
    PROVE  Retried(th) \in 0 .. MaxRetries
  BY GatewayAssumption, SMT DEF ThreadSet, ThreadOK, Retried

\* A step that neither the counters nor the sums notice.
LEMMA BalanceKept ==
    ASSUME Balance(metrics, threads), IInv, IInv', NEW t \in Threads,
           \A u \in Threads \ {t} : threads'[u] = threads[u],
           Same(metrics, metrics'),
           threads[t].pc \in Busy <=> threads'[t].pc \in Busy,
           Retried(threads'[t]) = Retried(threads[t])
    PROVE  Balance(metrics', threads')
  <1>1. Cardinality(InProgress(threads')) = Cardinality(InProgress(threads))
    BY ProgressStep
  <1>2. Retried(threads[t]) \in 0 .. MaxRetries
    BY RetriedTypes DEF IInv, TypeOK, ThreadSet
  <1>3. Cardinality(Retries(threads')) = Cardinality(Retries(threads))
    BY <1>2, RetriesStep, SMTT(30)
  <1> QED  BY <1>1, <1>3 DEF Balance, Same

\* Every step keeps the counters balanced.
LEMMA BalanceStep ==
    ASSUME IInv, IInv', Uncapped(metrics) => Balance(metrics, threads), [Next]_vars,
           Uncapped(metrics')
    PROVE  Balance(metrics', threads')
  <1> DEFINE gf == metrics["gateway_failures"]
             r == metrics["retries"]
             co == metrics["circuit_open"]
             k == metrics["gets"] + metrics["puts"] + metrics["deletes"]
             i == Cardinality(InProgress(threads))
             d == Cardinality(Retries(threads))
  <1>a. /\ metrics \in [Counters -> Nat] /\ MaxRetries \in Nat
        /\ gf \in Nat /\ r \in Nat /\ co \in Nat /\ k \in Nat /\ i \in Nat /\ d \in Nat
    BY Sums, GatewayAssumption, SMT DEF IInv, TypeOK, Counters
  <1>b. Balance(metrics, threads) => Bal(gf, r, co, k, i, d)
    BY DEF Balance
  <1>c. \A t \in Threads : /\ Retried(threads[t]) \in 0 .. MaxRetries
                           /\ Retried(threads'[t]) \in 0 .. MaxRetries
    BY ThreadsNow, ThreadsNext, RetriedTypes
  <1>1. CASE UNCHANGED vars
    <2>1. metrics' = metrics /\ threads' = threads
      BY <1>1 DEF vars
    <2> QED  BY <2>1
  <1>2. CASE Tick
    <2>1. metrics' = metrics /\ threads' = threads
      BY <1>2 DEF Tick
    <2> QED  BY <2>1
  <1>3. ASSUME NEW t \in Threads,
               \/ AnswerAtOnce(t)
               \/ \E reason \in {"auth_failures", "rate_limited"} : TurnAway(t, reason)
               \/ Administer(t)
        PROVE  Balance(metrics', threads')
    <2>1. PICK counted \in SUBSET {"requests", "auth_failures", "rate_limited"} :
             Count(counted)
      <3>1. \E reason \in {"auth_failures", "rate_limited"} :
               Count({"requests"}) \/ Count({"requests", reason})
        BY <1>3 DEF AnswerAtOnce, TurnAway, Administer, HandleElect, HandleReplica
      <3> QED  BY <3>1
    <2>2. threads[t].pc = "idle" /\ threads' = [threads EXCEPT ![t] = NoRequest]
      BY <1>3 DEF AnswerAtOnce, TurnAway, Administer, HandleElect, HandleReplica,
                         Become
    <2>3. threads'[t].pc = "idle" /\ \A u \in Threads \ {t} : threads'[u] = threads[u]
      BY <2>2 DEF IInv, TypeOK, NoRequest, Thread
    <2>4. Uncapped(metrics) /\ Same(metrics, metrics')
      BY <1>a, <2>1, CountedUp DEF Same, Counters
    <2>5. Retried(threads'[t]) = Retried(threads[t])
      BY <2>2, <2>3 DEF Retried
    <2> QED  BY <2>2, <2>3, <2>4, <2>5, BalanceKept DEF Busy
  <1>4. ASSUME NEW t \in Threads, Request(t)
        PROVE  Balance(metrics', threads')
    <2>0. PICK op \in Ops : \E key, v : HandleKey(t, op, key, v)
      BY <1>4 DEF Request, Ops
    <2>1. PICK key, v : HandleKey(t, op, key, v)
      BY <2>0
    <2>2. /\ threads[t].pc = "idle" /\ Count({CounterOf(op)})
          /\ threads' = [threads EXCEPT ![t] = Thread("asking", op, key, v, 0, 0)]
      BY <2>1 DEF HandleKey, Become
    <2>3. threads'[t].pc = "asking" /\ \A u \in Threads \ {t} : threads'[u] = threads[u]
      BY <2>2 DEF IInv, TypeOK, Thread
    <2>4. PICK c \in {"gets", "puts", "deletes"} : Count({c})
      BY <2>2 DEF CounterOf, Ops
    <2>5. /\ Uncapped(metrics)
          /\ \A x \in Counters : metrics'[x] = IF x \in {c} THEN metrics[x] + 1
                                               ELSE metrics[x]
      BY <1>a, <2>4, CountedUp
    <2>6. /\ metrics'["gateway_failures"] = gf /\ metrics'["retries"] = r
          /\ metrics'["circuit_open"] = co
          /\ metrics'["gets"] + metrics'["puts"] + metrics'["deletes"] = k + 1
      BY <1>a, <2>4, <2>5, SMT DEF Counters
    <2>7. Cardinality(InProgress(threads')) = i + 1
      <3>1. threads[t].pc \notin Busy /\ threads'[t].pc \in Busy
        BY <2>2, <2>3 DEF Busy
      <3> QED  BY <2>3, <3>1, ProgressStep
    <2>8. Cardinality(Retries(threads')) = d
      <3>1. Retried(threads'[t]) = Retried(threads[t])
        BY <2>2, <2>3 DEF Retried
      <3> QED  BY <1>c, <2>3, <3>1, RetriesStep, SMTT(30)
    <2> HIDE DEF gf, r, co, k, i, d
    <2>9. Bal(gf, r, co, k + 1, i + 1, d)
      BY <1>a, <1>b, <2>5, BalanceSteps
    <2> QED  BY <2>6, <2>7, <2>8, <2>9 DEF Balance
  <1>5. ASSUME NEW t \in Threads, Allow(t)
        PROVE  Balance(metrics', threads')
    <2> DEFINE th == threads[t]
    <2>0. PICK pc \in {"calling", "idle"} : \E status :
             /\ threads' = [threads EXCEPT
                              ![t] = Thread(pc, th.op, th.key, th.value, 0, status)]
             /\ \/ pc = "calling" /\ metrics' = metrics
                \/ pc = "idle" /\ Count({"circuit_open"} \cup {"requests"})
      BY <1>5, ZenonT(40) DEF Allow, Goes, Become, Answer
    <2>1. PICK status :
             /\ threads' = [threads EXCEPT
                              ![t] = Thread(pc, th.op, th.key, th.value, 0, status)]
             /\ \/ pc = "calling" /\ metrics' = metrics
                \/ pc = "idle" /\ Count({"circuit_open"} \cup {"requests"})
      BY <2>0
    <2>2. th.pc = "asking"
      BY <1>5 DEF Allow
    <2>3. /\ threads'[t].pc = pc /\ threads'[t].attempt = 0
          /\ \A u \in Threads \ {t} : threads'[u] = threads[u]
      BY <2>1 DEF IInv, TypeOK, Thread
    <2>4. Retried(th) = 0 /\ Retried(threads'[t]) = 0
      BY <2>1, <2>2, <2>3 DEF Retried
    <2>5. CASE pc = "calling"
      <3>1. metrics' = metrics /\ Same(metrics, metrics')
        BY <2>1, <2>5 DEF Same
      <3> QED  BY <2>2, <2>3, <2>4, <2>5, <3>1, BalanceKept DEF Busy
    <2>6. CASE pc = "idle"
      <3>1. Count({"circuit_open"} \cup {"requests"})
        BY <2>1, <2>6
      <3>2. /\ Uncapped(metrics)
            /\ \A x \in Counters : metrics'[x] =
                  IF x \in {"circuit_open"} \cup {"requests"} THEN metrics[x] + 1
                  ELSE metrics[x]
        BY <1>a, <3>1, CountedUp, ZenonT(40)
      <3>3. /\ metrics'["gateway_failures"] = gf /\ metrics'["retries"] = r
            /\ metrics'["circuit_open"] = co + 1
            /\ metrics'["gets"] + metrics'["puts"] + metrics'["deletes"] = k
        BY <1>a, <3>2 DEF Counters
      <3>4. i > 0 /\ Cardinality(InProgress(threads')) = i - 1
        <4>1. threads[t].pc \in Busy /\ threads'[t].pc \notin Busy
          BY <2>2, <2>3, <2>6 DEF Busy
        <4> QED  BY <2>3, <4>1, ProgressStep
      <3>5. Cardinality(Retries(threads')) = d
        <4>1. Retried(threads'[t]) = Retried(threads[t])
          BY <2>4
        <4> QED  BY <1>c, <2>3, <4>1, RetriesStep, SMTT(30)
      <3> HIDE DEF gf, r, co, k, i, d
      <3>6. Bal(gf, r, co + 1, k, i - 1, d)
        BY <1>a, <1>b, <3>2, <3>4, BalanceSteps
      <3> QED  BY <3>3, <3>4, <3>5, <3>6 DEF Balance
    <2> QED  BY <2>1, <2>5, <2>6
  <1>6. ASSUME NEW t \in Threads, Call(t)
        PROVE  Balance(metrics', threads')
    <2> DEFINE th == threads[t]
    <2>0. PICK pc \in {"called", "idle"} : \E value, attempt, status :
             /\ threads' = [threads EXCEPT
                              ![t] = Thread(pc, th.op, th.key, value, attempt, status)]
             /\ pc = "called" => attempt = th.attempt
      BY <1>6 DEF Call, Become
    <2>1. PICK value, attempt, status :
             /\ threads' = [threads EXCEPT
                              ![t] = Thread(pc, th.op, th.key, value, attempt, status)]
             /\ pc = "called" => attempt = th.attempt
      BY <2>0
    <2>2. th.pc = "calling" /\ metrics' = metrics
      BY <1>6 DEF Call
    <2>3. /\ threads'[t].pc = pc /\ threads'[t].attempt = attempt
          /\ \A u \in Threads \ {t} : threads'[u] = threads[u]
      BY <2>1 DEF IInv, TypeOK, Thread
    <2>4. CASE pc = "called"
      <3>1. Same(metrics, metrics') /\ Retried(threads'[t]) = Retried(th)
        BY <2>1, <2>2, <2>3, <2>4 DEF Same, Retried
      <3> QED  BY <2>2, <2>3, <2>4, <3>1, BalanceKept DEF Busy
    <2>5. CASE pc = "idle"
      <3> DEFINE n == Retried(th)
      <3>1. i > 0 /\ Cardinality(InProgress(threads')) = i - 1
        <4>1. threads[t].pc \in Busy /\ threads'[t].pc \notin Busy
          BY <2>2, <2>3, <2>5 DEF Busy
        <4> QED  BY <2>3, <4>1, ProgressStep
      <3>2. Retried(threads'[t]) = 0 /\ n \in 0 .. MaxRetries
        BY <1>c, <2>3, <2>5 DEF Retried
      <3>3. n <= d /\ Cardinality(Retries(threads')) = d - n
        BY <1>c, <2>3, <3>2, RetriesStep, SMTT(30)
      <3> HIDE DEF gf, r, co, k, i, d, n
      <3>4. Bal(gf, r, co, k, i - 1, d - n)
        BY <1>a, <1>b, <2>2, <3>1, <3>2, <3>3, BalanceSteps
      <3> QED  BY <2>2, <3>1, <3>3, <3>4 DEF Balance, gf, r, co, k
    <2> QED  BY <2>1, <2>4, <2>5
  <1>7. ASSUME NEW t \in Threads, Record(t)
        PROVE  Balance(metrics', threads')
    <2> DEFINE th == threads[t]
               n == Retried(th)
    <2>1. th.pc = "called" /\ n = th.attempt /\ th.status \in Nat
          /\ th.attempt \in 0 .. MaxRetries
      BY <1>7 DEF Record, Retried, IInv, TypeOK
    <2>0. PICK pc \in {"sleeping", "idle"} : \E attempt :
             /\ threads' = [threads EXCEPT ![t] =
                               Thread(pc, th.op, th.key, th.value, attempt, th.status)]
             /\ \/ /\ pc = "sleeping" /\ attempt = th.attempt /\ Count({"retries"})
                \/ /\ pc = "idle" /\ ~TriesAgain(t)
                   /\ Count((IF th.status < 500 THEN {} ELSE {"gateway_failures"})
                            \cup {"requests"})
      BY <1>7 DEF Record, Goes, Answer, Become
    <2>2. PICK attempt :
             /\ threads' = [threads EXCEPT ![t] =
                               Thread(pc, th.op, th.key, th.value, attempt, th.status)]
             /\ \/ /\ pc = "sleeping" /\ attempt = th.attempt /\ Count({"retries"})
                \/ /\ pc = "idle" /\ ~TriesAgain(t)
                   /\ Count((IF th.status < 500 THEN {} ELSE {"gateway_failures"})
                            \cup {"requests"})
      BY <2>0
    <2>3. /\ threads'[t].pc = pc /\ threads'[t].attempt = attempt
          /\ \A u \in Threads \ {t} : threads'[u] = threads[u]
      BY <2>2 DEF IInv, TypeOK, Thread
    <2>4. CASE pc = "sleeping"
      <3>1. Count({"retries"}) /\ attempt = th.attempt
        BY <2>2, <2>4
      <3>2. /\ Uncapped(metrics)
            /\ \A x \in Counters : metrics'[x] = IF x \in {"retries"} THEN metrics[x] + 1
                                                 ELSE metrics[x]
        BY <1>a, <3>1, CountedUp
      <3>3. /\ metrics'["gateway_failures"] = gf /\ metrics'["retries"] = r + 1
            /\ metrics'["circuit_open"] = co
            /\ metrics'["gets"] + metrics'["puts"] + metrics'["deletes"] = k
        BY <1>a, <3>2 DEF Counters
      <3>4. Cardinality(InProgress(threads')) = i
        BY <2>1, <2>3, <2>4, ProgressStep DEF Busy
      <3>5. Retried(threads'[t]) = n + 1
        BY <2>1, <2>3, <2>4, <3>1 DEF Retried
      <3>6. Cardinality(Retries(threads')) = d + 1
        BY <1>c, <2>3, <3>5, RetriesStep, SMTT(30)
      <3> HIDE DEF gf, r, co, k, i, d
      <3>7. Bal(gf, r + 1, co, k, i, d + 1)
        BY <1>a, <1>b, <3>2, BalanceSteps
      <3> QED  BY <3>3, <3>4, <3>6, <3>7 DEF Balance
    <2>5. CASE pc = "idle"
      <3> DEFINE S == (IF th.status < 500 THEN {} ELSE {"gateway_failures"})
                      \cup {"requests"}
      <3>1. Count(S) /\ ~TriesAgain(t)
        BY <2>2, <2>5
      <3>2. /\ Uncapped(metrics)
            /\ \A x \in Counters : metrics'[x] = IF x \in S THEN metrics[x] + 1
                                                 ELSE metrics[x]
        <4> HIDE DEF S
        <4> QED  BY <1>a, <3>1, CountedUp
      <3>3. /\ metrics'["retries"] = r /\ metrics'["circuit_open"] = co
            /\ metrics'["gets"] + metrics'["puts"] + metrics'["deletes"] = k
            /\ metrics'["gateway_failures"] = IF th.status < 500 THEN gf ELSE gf + 1
        BY <1>a, <3>2, SMT DEF Counters
      <3>4. i > 0 /\ Cardinality(InProgress(threads')) = i - 1
        <4>1. threads[t].pc \in Busy /\ threads'[t].pc \notin Busy
          BY <2>1, <2>3, <2>5 DEF Busy
        <4> QED  BY <2>3, <4>1, ProgressStep
      <3>5. Retried(threads'[t]) = 0 /\ n \in 0 .. MaxRetries
        BY <1>c, <2>3, <2>5 DEF Retried
      <3>6. n <= d /\ Cardinality(Retries(threads')) = d - n
        BY <1>c, <2>3, <3>5, RetriesStep, SMTT(30)
      <3>7. ~(th.status < 500) => n = MaxRetries
        <4>1. ~(threads[t].status >= 500 /\ threads[t].attempt < MaxRetries)
          BY <3>1 DEF TriesAgain
        <4> HIDE DEF n
        <4> QED  BY <2>1, <4>1, GatewayAssumption, SMT
      <3> HIDE DEF gf, r, co, k, i, d, n, S
      <3>8. CASE th.status < 500
        <4>1. Bal(gf, r, co, k, i - 1, d - n)
          BY <1>a, <1>b, <3>2, <3>4, <3>5, <3>6, BalanceSteps
        <4> QED  BY <3>3, <3>4, <3>6, <3>8, <4>1 DEF Balance
      <3>9. CASE ~(th.status < 500)
        <4>1. n = MaxRetries
          BY <3>7, <3>9
        <4>2. Bal(gf + 1, r, co, k, i - 1, d - MaxRetries)
          BY <1>a, <1>b, <3>2, <3>4, <3>6, <4>1, BalanceSteps
        <4> QED  BY <3>3, <3>4, <3>6, <3>9, <4>1, <4>2 DEF Balance
      <3> QED  BY <3>8, <3>9
    <2> QED  BY <2>2, <2>4, <2>5
  <1>8. ASSUME NEW t \in Threads, Wake(t)
        PROVE  Balance(metrics', threads')
    <2> DEFINE th == threads[t]
    <2>1. th.pc = "sleeping" /\ metrics' = metrics
      BY <1>8 DEF Wake
    <2>2. threads' = [threads EXCEPT ![t] =
                         Thread("calling", th.op, th.key, th.value, th.attempt + 1, 0)]
      BY <1>8 DEF Wake, Goes, Become
    <2>3. /\ threads'[t].pc = "calling" /\ threads'[t].attempt = th.attempt + 1
          /\ \A u \in Threads \ {t} : threads'[u] = threads[u]
      BY <2>2 DEF IInv, TypeOK, Thread
    <2>4. Same(metrics, metrics') /\ Retried(threads'[t]) = Retried(th)
      BY <2>1, <2>3 DEF Same, Retried
    <2> QED  BY <2>1, <2>3, <2>4, BalanceKept DEF Busy
  <1> QED  BY <1>1, <1>2, <1>3, <1>4, <1>5, <1>6, <1>7, <1>8 DEF Next, Step

\* The counters agree with each other, for any number of requests in progress,
\* as long as none has reached the bound at which the model stops counting (the
\* order of inc_retry, inc_gateway_failure and inc_circuit_open in
\* execute_with_resilience).
THEOREM CountersAgree ==
    Spec => []((\A c \in Counters : metrics[c] < MaxCount) => MetricsAddUp)
  <1> DEFINE Inv == Uncapped(metrics) => Balance(metrics, threads)
  <1>1. Init => Inv
    <2> SUFFICES ASSUME Init PROVE Balance(metrics, threads)
      OBVIOUS
    <2>1. \A c \in Counters : metrics[c] = 0
      BY DEF Init
    <2>2. InProgress(threads) = {} /\ Retries(threads) = {}
      BY SMT DEF Init, InProgress, Retries, Retried, NoRequest, Thread, Busy
    <2>3. Cardinality(InProgress(threads)) = 0 /\ Cardinality(Retries(threads)) = 0
      BY <2>2, FS_EmptySet
    <2>4. Bal(0, 0, 0, 0 + 0 + 0, 0, 0)
      BY GatewayAssumption, SMT DEF Bal
    <2>5. {"gateway_failures", "retries", "circuit_open", "gets", "puts", "deletes"}
             \subseteq Counters
      BY DEF Counters
    <2> QED  BY <2>1, <2>3, <2>4, <2>5 DEF Balance
  <1>2. IInv /\ IInv' /\ Inv /\ [Next]_vars => Inv'
    <2>1. Inv' = (Uncapped(metrics') => Balance(metrics', threads'))
      BY DEF Balance, Uncapped, InProgress, Retries, Retried
    <2> QED  BY <2>1, BalanceStep
  <1>3. IInv /\ Inv => ((\A c \in Counters : metrics[c] < MaxCount) => MetricsAddUp)
    BY BalanceAddsUp DEF Uncapped
  <1> HIDE DEF Inv
  <1> QED  BY <1>1, <1>2, <1>3, Invariant, PTL DEF Spec
-----------------------------------------------------------------------------
(* The gateway implements ConcurrentKV as long as no SQLite call fails.    *)

\* A thread that gets a new content is a client that gets a new call.
LEMMA OneCall ==
    ASSUME IInv, NEW t \in Threads, NEW th, threads' = [threads EXCEPT ![t] = th]
    PROVE  /\ ClientCalls' = [ClientCalls EXCEPT ![t] = AsCall(th)]
           /\ ClientCalls[t] = AsCall(threads[t])
  <1>1. threads \in [Threads -> ThreadSet]
    BY DEF IInv, TypeOK, ThreadSet
  <1>2. /\ threads'[t] = th
        /\ \A u \in Threads \ {t} : threads'[u] = threads[u]
    BY <1>1, SMTT(30)
  <1>3. ClientCalls' = [u \in Threads |-> AsCall(threads'[u])]
    BY DEF ClientCalls, AsCall
  <1>4. ClientCalls = [u \in Threads |-> AsCall(threads[u])]
    BY DEF ClientCalls
  <1> QED  BY <1>2, <1>3, <1>4, SMT

\* The call of a thread with a request about a key, from the thread's fields:
\* it is answered, ...
LEMMA CallAnswered ==
    ASSUME NEW th, NEW op \in Ops, NEW key, NEW value, NEW status,
           th.pc = "idle", th.op = op, th.key = key, th.value = value,
           th.status = status
    PROVE  AsCall(th) = Clients!Call("answered", op, key, value, status)
  BY DEF AsCall, Clients!Call

\* ... it has taken effect, ...
LEMMA CallPerformed ==
    ASSUME NEW th, NEW op \in Ops, NEW key, NEW value, NEW status,
           th.pc = "called", th.op = op, th.key = key, th.value = value,
           th.status = status, status < 500
    PROVE  AsCall(th) = Clients!Call("performed", op, key, value, status)
  BY ZenonT(40) DEF AsCall, Clients!Call

\* ... or it waits.
LEMMA CallWaiting ==
    ASSUME NEW th, NEW op \in Ops, NEW key, NEW value,
           th.pc \in Busy, th.op = op, th.key = key, th.value = value,
           th.pc = "called" => th.status = 503
    PROVE  AsCall(th) = Clients!Call("waiting", op, key, value, 0)
  <1>1. th.pc # "idle" /\ ~(th.pc = "called" /\ th.status < 500)
    BY SMT DEF Busy
  <1> QED  BY <1>1 DEF AsCall, Clients!Call

\* The client of an idle thread may send a request.
LEMMA IdleIsFree ==
    ASSUME NEW t \in Threads, threads[t].pc = "idle"
    PROVE  Clients!Free(t)
  BY DEF Clients!Free, ClientCalls, AsCall

\* handle, up to the breaker: a request arrives.
LEMMA RefinesRequest ==
    ASSUME IInv, NEW t \in Threads, Request(t)
    PROVE  Clients!Next /\ failed' = failed
  <1>1. PICK k \in Keys, op \in Ops, v \in Values \cup {NoValue} :
           /\ HandleKey(t, op, k, v)
           /\ IF op = "PUT" THEN v \in Values ELSE v = NoValue
    BY DEF Request, Ops
  <1> DEFINE th == Thread("asking", op, k, v, 0, 0)
             call == Clients!Call("waiting", op, k, v, 0)
  <1>2. threads' = [threads EXCEPT ![t] = th] /\ tables' = tables /\ failed' = failed
    BY <1>1 DEF HandleKey, Become
  <1>3. AsCall(th) = call
    <2>1. /\ th.pc = "asking" /\ th.op = op /\ th.key = k /\ th.value = v
      BY DEF Thread
    <2> HIDE DEF th
    <2>2. th.pc \in Busy /\ th.pc # "called"
      BY <2>1 DEF Busy
    <2> QED  BY <2>1, <2>2, CallWaiting, SMTT(30)
  <1>4. call \in Clients!Requests
    BY <1>1, SMT DEF Clients!Requests, Ops
  <1>5. ClientMap' = ClientMap
    BY <1>2 DEF ClientMap
  <1>6. Clients!Free(t)
    BY <1>1, IdleIsFree DEF HandleKey
  <1>7. ClientCalls' = [ClientCalls EXCEPT ![t] = call]
    BY <1>2, <1>3, OneCall
  <1> HIDE DEF th, call
  <1>8. Clients!Invoke(t, call)
    BY <1>5, <1>6, <1>7 DEF Clients!Invoke
  <1> QED  BY <1>2, <1>4, <1>8 DEF Clients!Next

\* Every other request is none of the map's.
LEMMA RefinesOther ==
    ASSUME IInv, NEW t \in Threads, ~StorageFaults,
           \/ AnswerAtOnce(t)
           \/ \E reason \in {"auth_failures", "rate_limited"} : TurnAway(t, reason)
           \/ Administer(t)
    PROVE  Clients!Next /\ failed' = failed
  <1>1. PICK th \in ThreadSet : /\ threads' = [threads EXCEPT ![t] = th]
                                /\ th.op \notin Ops
    BY OtherRequests
  <1>2. tables' = tables /\ failed' = failed /\ threads[t].pc = "idle"
    BY OtherRequests
  <1>3. AsCall(th) = Clients!NoCall
    BY <1>1 DEF AsCall, Clients!NoCall
  <1>4. ClientMap' = ClientMap
    BY <1>2 DEF ClientMap
  <1>5. ClientCalls' = [ClientCalls EXCEPT ![t] = Clients!NoCall]
    BY <1>1, <1>3, OneCall
  <1>6. Clients!Invoke(t, Clients!NoCall)
    BY <1>2, <1>4, <1>5, IdleIsFree DEF Clients!Invoke
  <1> QED  BY <1>2, <1>6 DEF Clients!Next

\* A thread that goes on with its request unseen, or gives it up with a 503.
LEMMA RefinesWaiting ==
    ASSUME IInv, NEW t \in Threads, threads[t].pc \in Busy,
           threads[t].pc = "called" => threads[t].status = 503,
           NEW pc, NEW attempt, NEW status, Goes(t, pc, attempt, status),
           \/ pc \in {"calling", "sleeping"}
           \/ pc = "idle" /\ status = 503,
           tables' = tables
    PROVE  [Clients!Next]_Clients!vars
  <1> DEFINE th == threads[t]
             new == Thread(pc, th.op, th.key, th.value, attempt, status)
  <1>1. threads' = [threads EXCEPT ![t] = new]
    BY DEF Goes, Become
  <1>2. th \in ThreadSet /\ ThreadOK(th) /\ th.op \in Ops
    BY SMT DEF IInv, TypeOK, ThreadSet, ThreadOK, Busy
  <1>3. AsCall(th) = Clients!Call("waiting", th.op, th.key, th.value, 0)
    BY <1>2, CallWaiting, SMT
  <1>0. /\ new.pc = pc /\ new.op = th.op /\ new.key = th.key /\ new.value = th.value
        /\ new.status = status
    BY DEF Thread
  <1> HIDE DEF new
  <1>4. ClientMap' = ClientMap
    BY DEF ClientMap
  <1>5. /\ ClientCalls' = [ClientCalls EXCEPT ![t] = AsCall(new)]
        /\ ClientCalls[t] = AsCall(th)
    BY <1>1, OneCall, ZenonT(40)
  <1>6. CASE pc \in {"calling", "sleeping"}
    <2>1. AsCall(new) = AsCall(th)
      <3>1. new.pc \in Busy /\ new.pc # "called"
        BY <1>0, <1>6 DEF Busy
      <3> QED  BY <1>0, <1>2, <1>3, <3>1, CallWaiting, SMTT(30)
    <2>2. ClientCalls' = ClientCalls
      BY <1>5, <2>1, ZenonT(40) DEF ClientCalls
    <2> QED  BY <1>4, <2>2 DEF Clients!vars
  <1>7. CASE pc = "idle" /\ status = 503
    <2>1. AsCall(new) = Clients!Call("answered", th.op, th.key, th.value, 503)
      BY <1>0, <1>2, <1>7, CallAnswered, SMTT(30)
    <2>2. LET c == ClientCalls[t]
          IN  /\ c.phase = "waiting"
              /\ AsCall(new) = Clients!Call("answered", c.op, c.key, c.value, 503)
      BY <1>3, <1>5, <2>1, SMT DEF Clients!Call
    <2>3. Clients!Refuse(t)
      BY <1>4, <1>5, <2>2 DEF Clients!Refuse
    <2> QED  BY <2>3 DEF Clients!Next
  <1> QED  BY <1>6, <1>7

\* The breaker lets the request through, or refuses it.
LEMMA RefinesAllow ==
    ASSUME IInv, NEW t \in Threads, Allow(t)
    PROVE  [Clients!Next]_Clients!vars /\ failed' = failed
  <1>1. /\ threads[t].pc = "asking" /\ tables' = tables /\ failed' = failed
        /\ Goes(t, "calling", 0, 0) \/ Goes(t, "idle", 0, 503)
    BY DEF Allow, Answer
  <1> QED  BY <1>1, RefinesWaiting, ZenonT(40) DEF Busy

\* A sleep ends.
LEMMA RefinesWake ==
    ASSUME IInv, NEW t \in Threads, Wake(t)
    PROVE  [Clients!Next]_Clients!vars /\ failed' = failed
  <1>1. /\ threads[t].pc = "sleeping" /\ tables' = tables /\ failed' = failed
        /\ Goes(t, "calling", threads[t].attempt + 1, 0)
    BY DEF Wake
  <1> QED  BY <1>1, RefinesWaiting DEF Busy

\* A result is recorded: a success is answered, a failure retried or answered.
LEMMA RefinesRecord ==
    ASSUME IInv, NEW t \in Threads, Record(t)
    PROVE  [Clients!Next]_Clients!vars /\ failed' = failed
  <1> DEFINE th == threads[t]
             new == Thread("idle", th.op, th.key, th.value, 0, th.status)
  <1>1. /\ th.pc = "called" /\ th \in ThreadSet /\ th.op \in Ops
        /\ th.status \in {200, 201, 404, 503}
        /\ tables' = tables /\ failed' = failed
    BY SMTT(30) DEF Record, IInv, TypeOK, ThreadSet, ThreadOK, Busy
  <1>2. CASE th.status = 503
    <2>1. \/ Goes(t, "sleeping", th.attempt, 503)
          \/ Goes(t, "idle", 0, 503)
      BY <1>2 DEF Record, Answer
    <2> QED  BY <1>1, <1>2, <2>1, RefinesWaiting, SMT DEF Busy
  <1>3. CASE th.status # 503
    <2>1. threads' = [threads EXCEPT ![t] = new]
      BY <1>1, <1>3, SMT DEF Record, TriesAgain, Answer, Goes, Become
    <2>2. /\ ClientCalls' = [ClientCalls EXCEPT ![t] = AsCall(new)]
          /\ ClientCalls[t] = AsCall(th)
      BY <2>1, OneCall
    <2>3. /\ AsCall(th) = Clients!Call("performed", th.op, th.key, th.value, th.status)
          /\ AsCall(new) = Clients!Call("answered", th.op, th.key, th.value, th.status)
      <3>1. /\ new.pc = "idle" /\ new.op = th.op /\ new.key = th.key
            /\ new.value = th.value /\ new.status = th.status
        BY DEF Thread
      <3>2. th.status < 500
        BY <1>1, <1>3, SMT
      <3> HIDE DEF new
      <3>3. AsCall(th) = Clients!Call("performed", th.op, th.key, th.value, th.status)
        BY <1>1, <3>2, CallPerformed, SMTT(30)
      <3>4. AsCall(new) = Clients!Call("answered", th.op, th.key, th.value, th.status)
        BY <1>1, <3>1, CallAnswered, SMTT(30)
      <3> QED  BY <3>3, <3>4
    <2>4. /\ ClientCalls[t].phase = "performed"
          /\ [ClientCalls[t] EXCEPT !.phase = "answered"] = AsCall(new)
      BY <2>2, <2>3, SMT DEF Clients!Call
    <2>5. ClientCalls' = [ClientCalls EXCEPT ![t].phase = "answered"]
      BY <2>2, <2>4 DEF ClientCalls
    <2>6. ClientMap' = ClientMap
      BY <1>1 DEF ClientMap
    <2>7. Clients!Respond(t)
      BY <2>4, <2>5, <2>6 DEF Clients!Respond
    <2> QED  BY <1>1, <2>7 DEF Clients!Next
  <1> QED  BY <1>2, <1>3

\* A write without SQLite errors is done or refused.
LEMMA WriteOutcome ==
    ASSUME ~StorageFaults, NEW key, NEW value, NEW result,
           NEW done \in {Result(200, NoValue), Result(201, NoValue)},
           Write(key, value, done, result)
    PROVE  \/ result = Unavailable /\ tables' = tables
           \/ /\ result = done /\ result # Unavailable
              /\ tables' = [tables EXCEPT ![shard_for_key(key)][key] = value]
  <1>1. done # Unavailable
    BY SMT DEF Result, Unavailable
  <1> QED  BY <1>1 DEF Write, Throws

\* The cluster is called: the call that succeeds is the moment at which the
\* request takes effect, one that is refused is not seen.
LEMMA RefinesCall ==
    ASSUME IInv, NEW t \in Threads, Call(t), ~StorageFaults, failed = {}
    PROVE  [Clients!Next]_Clients!vars /\ failed' = failed
  <1> DEFINE th == threads[t]
             s == shard(t)
  <1>1. /\ th.pc = "calling" /\ th \in ThreadSet /\ ThreadOK(th) /\ th.op \in Ops
        /\ th.key \in Keys /\ s \in Shards /\ s = shard_for_key(th.key)
    BY ItsBreaker DEF Call, Busy, IInv, TypeOK, ThreadSet, shard
  <1>2. failed' = failed
    BY ClusterCall
  <1>3. PICK result \in Results :
           /\ CASE th.op = "GET" -> get(th.key, result)
                [] th.op = "PUT" -> put(th.key, th.value, result)
                [] th.op = "DELETE" -> erase(th.key, result)
           /\ result # Thrown
           /\ threads' = [threads EXCEPT ![t] =
                 Thread("called", th.op, th.key,
                        IF th.op = "GET" THEN result.value ELSE th.value,
                        th.attempt, result.status)]
    <2>1. PICK result \in Results :
           /\ CASE th.op = "GET" -> get(th.key, result)
                [] th.op = "PUT" -> put(th.key, th.value, result)
                [] th.op = "DELETE" -> erase(th.key, result)
           /\ result = Thrown => StorageFaults
           /\ threads' = [threads EXCEPT ![t] =
                 Thread(IF result = Thrown THEN "idle" ELSE "called", th.op, th.key,
                        IF th.op = "GET" THEN result.value ELSE th.value,
                        IF result = Thrown THEN 0 ELSE th.attempt, result.status)]
      BY ClusterCall
    <2> QED  BY <2>1
  <1> DEFINE new == Thread("called", th.op, th.key,
                           IF th.op = "GET" THEN result.value ELSE th.value,
                           th.attempt, result.status)
  <1>4. /\ ClientCalls' = [ClientCalls EXCEPT ![t] = AsCall(new)]
        /\ ClientCalls[t] = AsCall(th)
    BY <1>3, OneCall, ZenonT(40)
  <1>0. /\ new.pc = "called" /\ new.op = th.op /\ new.key = th.key
        /\ new.value = IF th.op = "GET" THEN result.value ELSE th.value
        /\ new.status = result.status
    BY DEF Thread
  <1> HIDE DEF new
  <1>5. AsCall(th) = Clients!Call("waiting", th.op, th.key, th.value, 0)
    <2>1. th.pc \in Busy /\ th.pc # "called"
      BY <1>1 DEF Busy
    <2> QED  BY <1>1, <2>1, CallWaiting, SMTT(30)
  <1>6. /\ ClientMap[th.key] = tables[s][th.key]
        /\ tables \in [Shards -> [Keys -> Values \cup {NoValue}]]
    BY <1>1 DEF ClientMap, IInv, TypeOK
  <1>7. /\ ClientCalls[t].phase = "waiting" /\ ClientCalls[t].op = th.op
        /\ ClientCalls[t].key = th.key /\ ClientCalls[t].value = th.value
    BY <1>4, <1>5, SMT DEF Clients!Call
  <1>8. /\ th.op = "GET" => get(th.key, result)
        /\ th.op = "PUT" => put(th.key, th.value, result)
        /\ th.op = "DELETE" => erase(th.key, result)
    BY <1>3
  <1>9. CASE result = Unavailable
    <2>1. tables' = tables
      <3>1. CASE th.op = "GET"
        BY <1>8, <3>1 DEF get
      <3>2. CASE th.op = "PUT"
        BY <1>8, <1>9, <3>2, WriteOutcome, SMT DEF put
      <3>3. CASE th.op = "DELETE"
        BY <1>8, <1>9, <3>3, WriteOutcome, SMT DEF erase
      <3> QED  BY <1>1, <3>1, <3>2, <3>3 DEF Ops
    <2>2. ClientMap' = ClientMap
      BY <2>1 DEF ClientMap
    <2>3. AsCall(new) = AsCall(th)
      <3>1. new.status = 503 /\ new.value = th.value
        <4>1. result.status = 503 /\ result.value = NoValue
          BY <1>9 DEF Unavailable, Result
        <4> QED  BY <1>0, <1>1, <4>1, SMT DEF ThreadOK, Busy
      <3>2. new.pc \in Busy
        BY <1>0 DEF Busy
      <3> QED  BY <1>0, <1>1, <1>5, <3>1, <3>2, CallWaiting, SMTT(30)
    <2>4. ClientCalls' = ClientCalls
      BY <1>4, <2>3, ZenonT(40) DEF ClientCalls
    <2> QED  BY <1>2, <2>2, <2>4 DEF Clients!vars
  <1>10. CASE th.op = "GET" /\ result # Unavailable
    <2>1. /\ tables' = tables
          /\ result = Result(IF tables[s][th.key] = NoValue THEN 404 ELSE 200,
                             tables[s][th.key])
      BY <1>1, <1>3, <1>10, SMT DEF get
    <2>2. ClientMap' = ClientMap
      BY <2>1 DEF ClientMap
    <2>3. AsCall(new) = Clients!Call("performed", "GET", th.key, ClientMap[th.key],
                                     IF ClientMap[th.key] = NoValue THEN 404 ELSE 200)
      <3>1. /\ new.value = ClientMap[th.key]
            /\ new.status = IF ClientMap[th.key] = NoValue THEN 404 ELSE 200
            /\ new.status < 500
        <4>1. /\ result.value = tables[s][th.key]
              /\ result.status = IF tables[s][th.key] = NoValue THEN 404 ELSE 200
          BY <2>1 DEF Result
        <4>2. result.value = ClientMap[th.key]
          BY <1>6, <4>1
        <4>3. result.status = IF ClientMap[th.key] = NoValue THEN 404 ELSE 200
          BY <1>6, <4>1, SMT
        <4> QED  BY <1>0, <1>10, <4>2, <4>3, SMT
      <3> QED  BY <1>0, <1>1, <1>10, <3>1, CallPerformed, SMTT(30)
    <2>4. Clients!Perform(t)
      BY <1>4, <1>7, <1>10, <2>2, <2>3, ZenonT(40) DEF Clients!Perform
    <2> QED  BY <1>2, <2>4 DEF Clients!Next
  <1>11. ASSUME th.op \in {"PUT", "DELETE"}, result # Unavailable
         PROVE  Clients!Perform(t)
    <2> DEFINE value == IF th.op = "PUT" THEN th.value ELSE NoValue
               status == IF th.op = "PUT" THEN 201 ELSE 200
    <2>1. /\ tables' = [tables EXCEPT ![s][th.key] = value]
          /\ result.status = status
      <3>1. CASE th.op = "PUT"
        <4>1. result = Result(201, NoValue)
          BY <1>8, <1>11, <3>1, WriteOutcome, SMT DEF put
        <4>2. tables' = [tables EXCEPT ![s][th.key] = th.value]
          BY <1>1, <1>8, <1>11, <3>1, WriteOutcome, SMT DEF put
        <4> QED  BY <3>1, <4>1, <4>2 DEF Result
      <3>2. CASE th.op = "DELETE"
        <4>1. result = Result(200, NoValue)
          BY <1>8, <1>11, <3>2, WriteOutcome, SMT DEF erase
        <4>2. tables' = [tables EXCEPT ![s][th.key] = NoValue]
          BY <1>1, <1>8, <1>11, <3>2, WriteOutcome, SMT DEF erase
        <4> QED  BY <3>2, <4>1, <4>2 DEF Result
      <3> QED  BY <1>11, <3>1, <3>2
    <2>2. \A k \in Keys : tables'[shard_for_key(k)][k] =
                             IF k = th.key THEN value ELSE tables[shard_for_key(k)][k]
      BY <1>1, <1>6, <2>1, KeyHasShard, SMT
    <2>3. ClientMap' = [ClientMap EXCEPT ![th.key] = value]
      BY <1>1, <2>2, ZenonT(40) DEF ClientMap
    <2>4. AsCall(new) = Clients!Call("performed", th.op, th.key, value, status)
      <3>1. new.value = value /\ new.status = status /\ new.status < 500
        BY <1>0, <1>1, <1>11, <2>1, SMT DEF ThreadOK, Busy
      <3> QED  BY <1>0, <1>1, <3>1, CallPerformed, SMTT(30)
    <2>5. CASE th.op = "PUT"
      <3>1. /\ ClientMap' = [ClientMap EXCEPT ![ClientCalls[t].key] = ClientCalls[t].value]
            /\ ClientCalls' = [ClientCalls EXCEPT ![t] =
                  Clients!Call("performed", "PUT", ClientCalls[t].key, ClientCalls[t].value, 201)]
        BY <1>4, <1>7, <2>3, <2>4, <2>5
      <3> QED  BY <1>7, <2>5, <3>1, SMTT(30) DEF Clients!Perform
    <2>6. CASE th.op = "DELETE"
      <3>1. /\ ClientMap' = [ClientMap EXCEPT ![ClientCalls[t].key] = NoValue]
            /\ ClientCalls' = [ClientCalls EXCEPT ![t] =
                  Clients!Call("performed", "DELETE", ClientCalls[t].key, NoValue, 200)]
        BY <1>4, <1>7, <2>3, <2>4, <2>6
      <3> QED  BY <1>7, <2>6, <3>1, SMTT(30) DEF Clients!Perform
    <2> QED  BY <1>11, <2>5, <2>6
  <1> QED  BY <1>1, <1>2, <1>9, <1>10, <1>11 DEF Ops, Clients!Next

\* Every step of the gateway is one of ConcurrentKV or is not seen there.
LEMMA StepRefines ==
    ASSUME IInv, [Next]_vars, ~StorageFaults, failed = {}
    PROVE  [Clients!Next]_Clients!vars /\ failed' = {}
  <1>1. CASE UNCHANGED vars \/ Tick
    <2>1. UNCHANGED <<tables, threads, failed>>
      BY <1>1 DEF vars, Tick
    <2> QED  BY <2>1, SMT DEF Clients!vars, ClientMap, ClientCalls, AsCall
  <1>2. ASSUME NEW t \in Threads,
               \/ AnswerAtOnce(t) \/ Request(t) \/ Administer(t) \/ Step(t)
               \/ \E reason \in {"auth_failures", "rate_limited"} : TurnAway(t, reason)
        PROVE  [Clients!Next]_Clients!vars /\ failed' = {}
    <2>1. CASE Request(t)
      BY <2>1, RefinesRequest
    <2>2. CASE Step(t)
      BY <2>2, RefinesAllow, RefinesCall, RefinesRecord, RefinesWake DEF Step
    <2>3. CASE \/ AnswerAtOnce(t) \/ Administer(t)
               \/ \E reason \in {"auth_failures", "rate_limited"} : TurnAway(t, reason)
      BY <2>3, RefinesOther
    <2> QED  BY <1>2, <2>1, <2>2, <2>3
  <1> QED  BY <1>1, <1>2, SMTT(30) DEF Next

\* As long as no SQLite call fails, the gateway's clients see one linearizable
\* map: a request that succeeds takes effect once, at the call that succeeded,
\* and one answered with 503 never does (execute_with_resilience).
THEOREM ClientsSeeOneMap ==
    ASSUME ~StorageFaults
    PROVE  Spec => ImplementsConcurrentKV
  <1> DEFINE Faultless == failed = {}
  <1>1. Init => Clients!Init /\ Faultless
    <2> SUFFICES ASSUME Init PROVE Clients!Init /\ failed = {}
      OBVIOUS
    <2>1. AsCall(NoRequest) = Clients!NoCall
      BY DEF AsCall, NoRequest, Thread, Clients!NoCall, Ops
    <2>2. ClientCalls = [t \in Threads |-> Clients!NoCall]
      BY <2>1 DEF Init, ClientCalls
    <2>3. ClientMap = [k \in Keys |-> NoValue]
      BY KeyHasShard DEF Init, ClientMap
    <2> QED  BY <2>2, <2>3 DEF Init, Clients!Init
  <1>2. IInv /\ Faultless /\ [Next]_vars => [Clients!Next]_Clients!vars /\ Faultless'
    BY StepRefines
  <1> HIDE DEF Faultless
  <1> QED  BY <1>1, <1>2, Invariant, PTL
              DEF Spec, ImplementsConcurrentKV, Clients!Spec
=============================================================================
