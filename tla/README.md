# A TLA+ model of the fault-tolerant sharded key-value store

This directory specifies the store in TLA+, model-checks it with TLC and proves
its main safety properties, and two refinements, with TLAPS.

## The system and its parts

One process holds everything. An HTTP server (`src/http_server.cpp`) hands each
request, on a thread of its own, to a gateway (`src/gateway.cpp`), which
authorises it, applies a rate limit per client, asks the circuit breaker of the
key's shard and calls the cluster, with retries. The cluster
(`src/cluster.cpp`) routes the key to a shard by its hash. A shard is a group of
N replicas (`src/raft.cpp`), each on a SQLite database of its own
(`src/sqlite_store.cpp`): it elects a leader, replicates every write to the
online followers, commits with a majority and otherwise takes the write back.
Administrative requests take replicas offline, bring them back and ask for an
election. `src/main.cpp` constructs and destroys these objects and turns SIGINT
and SIGTERM into a stop of the server.

| Part | Source | Modules | Proofs |
|---|---|---|---|
| tables of a replica | `sqlite_store.cpp` | `SqliteStore` | |
| replica | `raft.cpp` | `RaftReplica` | in `ShardReplication`, `FaultSteps` |
| shard: election, replication, administration, restart | `cluster.cpp` 9-298 | `ShardSteps`, `Shard` | `ShardReplication`, `ShardProofs` |
| the same, cut short by crashes and SQLite errors | and `raft.cpp`, `sqlite_store.cpp` | `ShardFaults` | `FaultSteps`, `FaultElections`, `FaultWrites`, `FaultProofs` |
| what a shard promises | | `KVService` (abstract) | |
| cluster: routing | `cluster.cpp` 300-352 | `Cluster` | |
| rate limit | `gateway.cpp` 12-28, 200-204 | `RateLimiter` | `ServerProofs` |
| circuit breaker | `gateway.cpp` 30-69 | `CircuitBreaker` | in `GatewayProofs` |
| gateway: dispatch, retries, counters | `gateway.cpp`, `metrics.cpp` | `Gateway` | `GatewayProofs` |
| what the gateway promises | | `ConcurrentKV` (abstract) | |
| HTTP server, signals, shutdown | `http_server.cpp`, `main.cpp` | `HttpServer` | `ServerProofs` |
| the address of a client | `http_server.cpp` 81-95, 108 | `AcceptLoop` | |

The modules are stacked as the program is. `Gateway` extends `Cluster` and
`CircuitBreaker`; `Cluster` takes for a shard what `Shard` and `ShardFaults` show
it to be; `HttpServer` leaves to `Gateway` what a request is answered, and to
`AcceptLoop` what it says about its client.

## How the modules correspond to the code

**SqliteStore** describes the `kv` and `raft_log` tables and the statements on
them. `raft_log` is a function from indexes to entries, with any domain: that a
table never has a gap is checked and proved (`TypeOK`), not assumed. The order of
the code's apply loops is kept by `ApplyEntries`: each key holds what the last
entry applied for it wrote.

**RaftReplica** has one operator per method. A method holds the replica's mutex
from its first line to its last, so it is a function of the replica's state and
its arguments; a method that also returns a result has a second operator for it
(`VoteGranted`, `AppendAccepted`). `persist_state` ends every method that changes
the term, the vote, the commit index or the applied index, so between two methods
the `meta` table equals the fields and only the fields are kept. The loops over a
range of indexes differ in the code in what they do at a missing row: `UpToGap`
stops there (`commit_to`, `append_entries`), `Present` skips it
(`install_snapshot`, `load_state`).

**ShardSteps** holds what the two models of a shard have in common, as operators
without variables. `EnsureLeader` is `ensure_leader_locked`: the choice of the
candidate (`Candidate`, the first maximum in the order of `Behind`), the new term
(`NextTerm`, offline replicas included), the votes, defeat (`Defeated`) or
victory (`Crowned`) with the synchronisation of the online followers.
`Acknowledging`, `Sent`, `RolledBack` and `Committed` are the parts of
`replicate_command_locked`. The turns of a loop over the followers touch
different replicas and read only the leader, so a loop is one function over the
replicas.

**Shard** has one action per public method, because each holds the shard's mutex
throughout and every replica is reached through its shard only:

| Action | Code |
|---|---|
| `put`, `erase` (through `Write`) | `replicate_command_locked`: election if needed, `append_local`, the follower loop with its catch-up by snapshot, then rollback (`RolledBack`) or commit and heartbeat (`Committed`) |
| `get` | `Shard::get` |
| `fail_replica`, `recover_replica`, `elect_leader` | the methods of these names |
| `Restart` | the process stops between two operations; the constructor runs on the databases it left |

`acked`, a history variable, is the sequence of the acknowledged entries; `reply`
is the result of the last operation, as a client sees it. An unknown replica id
makes `fail_replica` and `recover_replica` return false and change nothing, which
is a stuttering step. The value of a DELETE entry, an empty string in the code,
is `NoValue`. Terms and indexes are 64-bit in the code and natural numbers here:
they grow by one per election and write, and an overflow is out of reach.

**ShardFaults** has the same operations, each of which may end after any of its
SQL statements. A replica gets a field `meta` for the rows on disk, and for every
method there is the set of the states it passes through between two statements:
`Persisting` (four rows), `Voting`, `Appending`, `Committing`, `Installing`
(`clear_all` as one transaction, then row by row and entry by entry), `Loading`.
`Midway` lifts them to a loop over replicas, and `Electing`, `Sending` and
`Ending` to the operation. An operation then completes, or ends by `Error` (the
exception leaves it in the middle, the client gets 400 and the process goes on
with its memory and its disk as they are) or by `Crash` (memory is gone). `Boot`
is the constructor, and may crash too. `put` and `erase`, which differ in the
command they pass on, are one action here, and `served`, a history variable, is
the last leader with its term.

**KVService** is what a shard promises: one map, changed by acknowledged writes
at once and by nothing else. `Shard` instantiates it with the map that the
acknowledged writes add up to.

**Cluster** has the operations of class `Cluster`, with their results as
parameters. A shard is one map and whether a majority of its replicas is online.
With a majority requests succeed, without one writes are refused and reads may
be: this is `ImplementsService` and `AvailableWithMajority`. Once a SQLite call
has failed on a shard (`failed`; only if `StorageFaults`) it may also refuse
with a majority and its reads may return anything. The process does not restart
in this module, so what a crash leaves behind stays with `ShardFaults`. `fnv1a_64`
is a constant, any function on the keys.

**RateLimiter** is `TokenBucket` and `allowed_by_rate_limit`. Tokens are counted
in units of which a request costs `Token`, so that a tick refills a fraction of a
request, as the code's doubles do; their rounding is left out.

**CircuitBreaker** has one operator per method. The failure counter is only
compared with the threshold and reset, and the time since the breaker opened is
only compared with the open duration, so both stop there.

**Gateway** models concurrent requests. A thread takes one step between two
acquisitions of a lock, because in between it touches nothing shared but the
atomic counters:

| Action | Code |
|---|---|
| `AnswerAtOnce`, `TurnAway` | the requests that `handle` answers without a change but to the counters: pages, the status of the cluster, errors, 401 and 429 |
| `HandleReplica`, `HandleElect` | the administrative requests |
| `HandleKey` | a GET, PUT or DELETE of a key, up to `execute_with_resilience` |
| `Allow` | `allow_request`, under the breakers' mutex |
| `Call` | one attempt: the cluster is called and holds its shard's mutex |
| `Record` | `record_success` or `record_failure`, then the answer, or the sleep before another attempt |
| `Wake` | the sleep ends |
| `Tick` | time passes |

An exception out of the cluster leaves `handle` without `finish`, as in the code:
no result is recorded and the request is not counted. Whether the rate limit
admits a request is left open here.

**ConcurrentKV** is what the gateway promises: a linearizable map. A request
waits, takes effect at one moment (`Perform`) and is answered; or it is refused
with 503 without having taken effect. `Gateway` maps a thread to its call
(`AsCall`): it has been performed once the cluster's answer, below 500, is there.

**HttpServer** models `run`, `stop`, the detached `handle_client` threads, `main`
and `handle_signal`. Each access of `running_`, `g_server` and the socket is a
step of its own. A signal handler runs on any thread that exists, which does not
move meanwhile; so the main thread may be interrupted inside `accept` by the very
handler that stops it. A request is modelled by how much of its headers and body
has arrived, not by its bytes. `touched` notes a use of objects that `main` has
destroyed, `late` that somebody was active at that moment.

**AcceptLoop** takes the step `Accept` of `HttpServer` apart. `run` writes the
client's address to `ip_buffer`, a local of its loop, and gives the new thread a
pointer to it; the thread makes the string `remote_ip` when it starts to run. The
two race. What the thread reads is what is in the place of the buffer at that
time, or, while the main thread is writing there, the old text, the new one or
neither.

**MCShard**, **MCShardFaults**, **MCRateLimiter** and **MCGateway** add the
bounds, in the guards of the actions, and nothing else. **MCHttpServer** adds
nothing: `HttpServer` is finite, and so is `AcceptLoop`.

## Properties

| Property | What it says |
|---|---|
| `Shard!TypeOK` | types; every `raft_log` table is without gaps |
| `AckedOnMajority` | a majority of the databases holds every acknowledged write, in order, committed |
| `NoTraceOfRejected` | between operations every log is a committed and applied prefix of the acknowledged writes: a refused write is nowhere |
| `StateMatchesLog` | a replica's `kv` table is what its committed entries add up to, whichever methods applied them |
| `LeaderIsUpToDate` | the leader is unique, online, has the largest term and every acknowledged write, and so has everybody online under it |
| `AvailableWithMajority` | a request is refused only without a majority; no election with a majority fails, no follower refuses an entry, `append_local` never throws; a write is acknowledged only with a majority |
| `CommittedForever` | no step takes back what a replica has committed |
| `TermsAdvance` | terms never go back; a new leader's term is one that no replica had seen |
| `ImplementsService` | a shard implements `KVService` |
| `AckedSurvives` | whoever leads has every acknowledged write, after crashes in the middle of anything |
| `ElectionsSucceed` | what a crash leaves on disk never makes an election fail that has a majority |
| `LeaderTermsAdvance` | a new leader's term is greater than that of the leader before, so no two leaders share one, although `install_snapshot` forgets terms and votes and a crash may come before it writes them again |
| `RefusalCleansUp` | a write that is refused with a majority online, because of an entry that a crash left behind, removes that entry; a value already applied to `kv` stays (`ReadsCommitted`) |
| `RateBound` | in every window of time a client's admitted requests cost no more than the burst plus the rate for the length of the window |
| `BucketIsTightest` | a bucket holds exactly what the tightest window leaves: nothing is refused that the limit allows |
| `Gateway!TypeOK` | types; a request makes at most `MaxRetries` more attempts |
| `ClosedBelowThreshold` | a breaker is closed exactly while fewer failures in a row than its threshold are on record, in whatever order results arrive |
| `OpenShields` | the calls that reach a shard while its breaker is open, until it is half-open or a late success closes it, are less than the attempts of the threads there are |
| `HealthyShardServes` | a shard to which nothing happened has an untouched breaker and refuses nothing, whatever happens to the others |
| `ImplementsConcurrentKV` | the gateway implements `ConcurrentKV`: with retries, breaker and several shards its clients see one linearizable map |
| `MetricsAddUp` | the counters of requests, retries, refusals and failures agree with each other at every moment |
| `EveryRequestAnswered` | every request is answered |
| `BreakerRecovers` | a breaker closes for good once its shard keeps its majority and is asked again and again |
| `ClosedOnce`, `SocketReleased` | the listening socket is closed at most once, and is not left open at the end |
| `WholeRequests` | the gateway gets bodies of exactly the declared length, within the limit |
| `DestroyedUntouched` | only those who were active when `main` destroyed its objects may use them afterwards, or anybody if `run` threw |
| `StopEndsProcess` | a stop that finds the server running ends the process |
| `ConnectionsClosed` | every accepted connection is closed, or the process ends |

Two of these are weaker than one might wish, because the code is.
`DestroyedUntouched` excepts the detached threads, for which nobody waits, and
the way out of `run` by an exception, on which `g_server` is not reset. And
`StopEndsProcess` is about stops that find `running_` true: a signal that arrives
before `run` has set it is lost.

## Runs

State counts are of distinct states.

| Run | Instance | Shows |
|---|---|---|
| `shard3` (`MCShard3.cfg`) | 3 replicas, 1 key, 1 value, 2 writes, terms up to 3; 77,821 states | the invariants and the action properties of `Shard`, and that it implements `KVService` |
| `shard4` (`MCShard4.cfg`) | 4 replicas, 1 write, terms up to 2; 40,705 states | durability and rollback where half of the replicas is no majority |
| `shard_crashes` (`MCShardFaults.cfg`) | 3 replicas, 1 key, deletions, logs up to 2, terms up to 3, 2 crashes; 44,845 states | the four properties of `ShardFaults` |
| `shard_errors` (`MCShardErrors.cfg`) | 3 replicas, deletions, logs up to 1, terms up to 2, 1 error and 1 crash; 44,303 states | `LeaderTermsAdvance`, where memory and disk differ when the crash comes |
| `rate_limit` (`MCRateLimiter.cfg`) | 2 clients, a request every 1.5 ticks, bursts of 2 and a third, 7 moments, 4 admissions each; 100,268 states | the limit and its exactness |
| `gateway_breakers` (`MCGatewayBreakers.cfg`) | 2 threads, 2 shards with a key each, threshold 2, 1 retry, SQLite errors, 3 requests about keys among others; 822,417 states, threads symmetric | the breakers under every order of asking and recording, the isolation of the shards, the counters |
| `gateway_clients` (`MCGatewayClients.cfg`) | 2 threads, 1 shard, threshold 2, 1 retry, requests without end; 38,808 states | refinement of `ConcurrentKV` and the two liveness properties |
| `http_server` (`MCHttpServer.cfg`) | 2 connections, 2 signals; 128,233 states | all properties of `HttpServer` |
| `shard_reads` (`MCShardReads.cfg`), `shard_dirty_read` (`MCShardDirty.cfg`), `shard_lost_write` (`MCShardLost.cfg`), `client_address` (`AcceptLoop.cfg`) | as above; 2 clients, 2 connections | one violated property each, see below |

*Why the bounds are enough to be interesting.*

- `Shard`: three terms are the initial election and two more, with failures,
  recoveries and restarts, which cost no bound, anywhere between them: two
  changes of leader, or a change of leader and a restart. Two writes let a
  replica be behind by zero, one or two entries, so that it is brought up by an
  append or a snapshot; a PUT and a DELETE of one key tell a replayed table from
  a stale one. Keys do not interact in a shard; that several of them make one map
  is part of the proved refinement. Refused writes are not bounded. Four replicas are the smallest
  even group in which two disjoint halves are more than single replicas, and the
  smallest in which a rolled-back entry had reached a follower.
- `ShardFaults`: two crashes let the second hit the start after the first, or the
  operation that meets what the first left. The bound is on the length of the
  logs, so an uncommitted entry and a second one on top of it both fit. Its
  crash properties are about logs and indexes; they do not look at values, so
  writes are deletions.
- `RateLimiter`: the rate, the cost and the burst have no common divisor, so
  buckets reach every remainder; four admissions exceed a burst.
- `Gateway`: two threads are a late result and a probe, and two shards the one in
  trouble and the other. With a threshold of 2 the threads may open a breaker
  together, each by one failure; or one of them opens it at its second attempt
  while attempts of the other are still to come, which is what `OpenShields`
  counts. In `gateway_breakers` the counters are part of the state, so requests
  are bounded: `MaxRequests` are about keys, and the others (pages, refusals,
  administration) come while at most `MaxOthers` have been answered. In
  `gateway_clients` the counters are left out (`MaxCount = 0`) and requests come
  without end, as the liveness properties need.
- `HttpServer`: two signals and the destructor are three concurrent callers of
  `stop`; two connections are one that a handler runs on and another.

Deadlock checking is on in the runs of `Shard` and `Gateway` (in the latter the
clock always ticks, and `EveryRequestAnswered` says what matters). It is off where the
model stops at a bound that counts something (crashes and terms, the clock) and
in `HttpServer` and `AcceptLoop`, where the process ends. Symmetry is used for
threads and only with safety properties: replicas are ordered (`max_element`
returns the first maximum), so they are not symmetric.

### The violated properties

- `ReadsNeedMajority` (`shard_reads`). `docs/FAILURE_MODES.md` line 7 says that
  with two replicas offline "Reads/writes requiring a leader are rejected with
  HTTP 503 because no majority exists." In the code a sitting leader stays leader
  when its followers go offline, and `get` asks for a leader only. The answer is
  right all the same (`ImplementsService`); the documented status differs.
- `ReadsCommitted` (`shard_dirty_read`). Line 17 says "Reads are served from the
  elected leader's committed state." `commit_to` writes the `kv` table before the
  commit index, so after a crash in between reads return a value that is not
  committed, and may still be discarded.
- `AckedSurvives` with a SQLite error (`shard_lost_write`). `recover_replica` sets
  the replica online and then empties and refills its database. If a statement
  fails in between, the emptied replica stays online, and when the leader goes
  next it may vote a replica into office that lacks an acknowledged write.
  `README.md` line 26 promises an election "without losing committed data", and
  `docs/ARCHITECTURE.md` line 73 that a replica rebuilds its state "before
  participating again."
- `OwnAddress` (`client_address`). `docs/ARCHITECTURE.md` line 27 has clients
  identified "through `X-Client-Id` or remote IP". The thread of a connection
  reads the address from `ip_buffer` of the accept loop after the loop may have
  gone on: it then takes its client for the next one, or for none, and the request
  is charged to another bucket of the rate limit.

Three more differences can be read off the actions; no run is devoted to them.
With a SQLite error `ElectionsSucceed` fails too: the candidate is chosen by commit
index, the votes go by the end of the log, and an `install_snapshot` that fails
after its appends leaves a full log with commit index 0, so that the replica is
never the candidate and refuses the one there is. `docs/FAILURE_MODES.md` line 10
says that a breaker is opened "for five seconds"; a request that was let through
before and succeeds late closes it at once (`Record`), and that ends the window
of `OpenShields`. And `src/metrics.cpp` line 26
calls its first counter "Total HTTP requests."; a request that ends by an exception
is not counted there (`Call`).

## Fairness

A shard has no thread of its own: every step is the effect of a request, and
every operation ends within its call. So no fairness is assumed in `Shard` and
`ShardFaults`; `AvailableWithMajority` says as a safety property what would
otherwise be a liveness one.

`Gateway`: weak fairness of each thread's steps within its request (`Step`) and of
`Tick`. The threads are threads of the operating system, which schedules them;
the cluster's operations hold no lock across a wait and loop over replicas and
entries only; the sleeps are finite; the clock is the steady clock. Nothing is
assumed of clients and administrators: that a shard keeps its majority and that
its breaker is asked again are premises of `BreakerRecovers`. Weak fairness is
enough, because a step of a thread stays enabled until the thread takes it.

`HttpServer`: weak fairness of the main thread, of every caller of `stop` and of
every connection. A connection moves because `recv` and `send` have a timeout.
`accept` has none, so `MainStep` includes its return only once the socket has
been shut down (`AcceptEnds`); that somebody connects, or that a signal arrives,
is not assumed.

## What is proved

The theorems hold for all values of the constants and behaviours of any length.

| Theorem | Statement |
|---|---|
| `ShardProofs`: `Invariant` | `Spec => []IInv` |
| `TypeCorrect`, `Durable`, `RejectedLeavesNoTrace`, `StateMachineSafe`, `LeaderComplete`, `Available` | `TypeOK`, `AckedOnMajority`, `NoTraceOfRejected`, `StateMatchesLog`, `LeaderIsUpToDate`, `AvailableWithMajority` are invariants of `Shard` |
| `CommittedNeverLost`, `TermsGrow` | `CommittedForever`, `TermsAdvance` |
| `Refinement` | `Shard` implements `KVService` |
| `FaultElections`: `LeaderTermsGrow` | `LeaderTermsAdvance`, with crashes and with failing statements |
| `FaultProofs`: `WritesSurvive`, `ElectionsWork`, `RefusalsClean` | `AckedSurvives`, `ElectionsSucceed` and `RefusalCleansUp` hold as long as no statement has failed, whatever crashes there are |
| `ServerProofs`: `LimitHolds`, `LimitExact` | `RateBound` and `BucketIsTightest` are invariants |
| `GatewayProofs`: `TypesKept`, `BreakersSound`, `BreakersShield`, `ShardsIsolated` | `TypeOK`, `ClosedBelowThreshold`, `OpenShields` and `HealthyShardServes` are invariants |
| `CountersAgree` | `MetricsAddUp` holds while no counter has reached `MaxCount`, the bound that keeps them finite for TLC |
| `ClientsSeeOneMap` | without SQLite errors `Gateway` implements `ConcurrentKV` |
| `ServerProofs`: `SocketSafe`, `SocketNotLeaked`, `RequestsWhole`, `DestructionSafe` | `ClosedOnce`, `SocketReleased`, `WholeRequests`, `DestroyedUntouched` are invariants |

*Assumptions on the constants.* `NAssumption` (the constructor throws for less
than one replica), `NoReplicaAssumption` (the empty string is no replica's id),
`NoValueAssumption` (the absence of a row is no value); `ClusterAssumption` (at
least one shard, hashes are natural numbers), `BreakerAssumption` (threshold and
duration are not 0), `GatewayAssumption` (finitely many threads and at least one;
the bounds on attempts and counters are natural numbers), `RateAssumption`
(natural numbers, a request costs something), `ServerAssumption` (limits are natural numbers; the
names of the main thread and of the destructor are no other's). `ClientsSeeOneMap`
assumes in addition that `StorageFaults` is false. TLC evaluates all but the last
on every run.

### Shard

*The inductive invariant.* None of the properties is inductive alone. That the
candidate of an election wins, for instance, needs that its log is as up to date
as every voter's, which needs that no log holds an uncommitted entry; that its log
is complete needs that a majority of the databases is, and so on round. `IInv`
(module `ShardProofs`) ties them together. `Consistent(replicas, acked)`: every
replica holds exactly a committed and applied prefix of `acked`, its `kv` table
is what that prefix adds up to, and a majority holds all of `acked`.
`Leads(replicas, leaderId, acked)`: with a leader, everybody online holds all of
`acked` and nobody has a larger term; without one, nobody is in the role of
leader. To these it adds the types of `metrics` and `reply` and
`AvailableWithMajority`.

*The argument*, bottom up:

1. `ShardReplication`, replicas: what each method does to a replica whose log is
   a committed prefix. Appending, then discarding, gives the old log; appending,
   then committing, extends table and log by one entry; installing a snapshot of
   an up-to-date leader makes the follower up to date.
2. `ShardReplication`, elections: two majorities intersect, so a majority online
   includes an up-to-date replica; the first maximum of `Behind` exists and is up
   to date; everybody online votes for it; after `Crowned` everybody online is
   level with it, in a term nobody had seen.
3. `ShardReplication`, writes: the follower loop, rollback and commit preserve
   `Consistent` and `Leads`.
4. `ShardProofs`: the action `Write` as a whole and the reply it gives, then the
   other actions, one lemma each; then `IInv`, its consequences and the
   refinement, in which `put` and `erase` map to `Put`, `Erase` or `Reject`, `get`
   to `Get` or `Reject`, and everything else to `Administer`.

### Shard under crashes and errors

The states in the middle of an operation are what is hard here. `FaultSteps` says,
method by method, which combinations of old and new fields a replica can be caught
with (`Between`), and what it means for a shard to hold what it has committed.
`FaultElections` and `FaultWrites` follow an election and a write through all the
states in which they can be cut short. The invariant of the terms is at the end of
`FaultElections`, that of durability in `FaultProofs`. Since these replicas carry their
`meta` rows, and their logs may hold entries that were never committed, the lemmas
about `Shard` do not apply, and `IInv` is false: after a crash a log is no longer a
prefix of the acknowledged writes, and a follower may have an empty database.

*Terms*. `Terms` is inductive: no disk is ahead of memory, the
term of the last leader is on some disk, and a leader's own term is on its own.
`NextTerm` takes the maximum over all replicas, also those offline, so a new
leader's term is above that of the last one although single replicas forget
theirs. The last leader's disk is never the one that is emptied while it leads,
and whoever replaces it has written a larger term by the time it is. This
needs nothing of the logs, and so holds with failing statements too.

*Durability*. The acknowledged writes are in a log `C` that the
shard has committed (`Durable`), where

- every database fits `C` (`Fit`): its committed entries are a prefix of `C`, and
  unless they are all of `C`, its log is not after `C` in the order of the votes;
- some database has committed all of `C`; a majority has while the process runs
  (`Wide`), and all replicas are online before it runs again;
- terms do not decrease along a log, and some replica knows a term that no entry
  is beyond; a leader's is such a term, and nobody's log is more than an entry of
  that term ahead of `C` (`LeaderOK`).

The second half of `Fit` is why elections succeed. The candidate is an online
replica with the largest commit index, thus one that has committed `C`; the votes
compare the ends of the logs, and a log that has not committed `C` does not beat
it. Among those that have, the candidate is the one with the last log (`Behind`
compares it next). It is also why uncommitted entries do no harm: they can be in
the log of a replica that has committed `C`, where an election either spreads or
drops them, or in one that has not, which cannot win with them.

A write leads from `C` to `C` or to `C` with the new entry (`Wrote`), and every
state it passes through is safe for one of the two (`Safe`): the entry is in `C`
from the moment the leader has its commit index on disk, and before that a crash
leaves it uncommitted. If a crash comes after it, one database may have committed
the entry and no other; `Wide` is false then, but every replica is started
again, and the election of `Boot` finds that one. A write is refused with a
majority online only if a crash left the leader an uncommitted entry that the
followers lack; `discard_uncommitted` then removes both entries, and nobody
online has anything uncommitted (`Clean`).

With failing statements this is false (see `shard_lost_write`): the process goes on
with a replica whose database was emptied, so that `Wide` may be lost while
others are offline. So the theorems have the premise `faults.errors = 0`, which is
what `shard_crashes` checks with `MaxErrors = 0`.

### Rate limiter

`RateBound` speaks of the past, the decision of the bucket, so `LimiterInv` relates the
two: at its last refill a bucket held no more than any window left (`Bounded`) and
exactly what some window, or the burst, left (`Attained`). Time adds the same to
the bucket as to every window, up to the burst; a request that is admitted takes
the same from the bucket as from every window it falls in and opens one more; a
refusal changes neither.

### Gateway

`ClosedBelowThreshold` is inductive by itself. For `HealthyShardServes` the
invariant adds what a thread holds at each point (`ThreadOK`: a result that is
recorded is 200, 201, 404 or 503, a sleeping thread has attempts left), and that
a shard not in `troubled` has its majority. Then a shard in neither `troubled` nor
`failed` cannot answer 503, only its own threads reach its breaker, and a breaker
without failures lets everything through.

The refinement goes action by action (`RefinesRequest`, `RefinesAllow`,
`RefinesCall`, ...): a call of the cluster that succeeds is `Perform`, its
recording `Respond`, a refusal by the breaker or after the last attempt `Refuse`,
a request that is not about a key `Invoke(t, NoCall)`; attempts that are refused,
sleeps and the clock are not seen. It needs that the key a thread works on, and
the value of a PUT, do not change over its attempts, which `ThreadOK` and the
definition of `Goes` give.

`OpenShields` and `MetricsAddUp` are about all threads together. A sum over the
threads is written as the cardinality of a set of pairs, a thread and the number
of an attempt (`Calls`, `Retries`), and a lemma says what a step of one thread
does to it. `Shielded`: while a breaker is open, the calls that have reached its
shard since it opened and those that threads can still make without asking it are
together less than all threads can make. A call moves one from the second to the
first, and the thread whose failure opened the breaker has used one before.
`Balance` is `MetricsAddUp` with the requests in progress and the retries they have
made taken into account.

### HTTP server

`IInv` says who is responsible for the socket: while `running_` is true nobody is
in `stop` past the exchange, afterwards at most one caller is between the exchange
and the close (`OneHolder`), and an open socket has such a caller, or a server
that still runs, or a main thread that has not started the loop (`Released`).
`Users` says who can still reach the objects: after a return of `run` the pointer
is null, and if nobody was active at the destruction nobody is afterwards.

### Only model-checked

Every invariant and safety property of the passing runs is proved. The liveness
properties (`EveryRequestAnswered`, `BreakerRecovers`, `StopEndsProcess`,
`ConnectionsClosed`) stay with TLC: liveness under fairness and ENABLED are out of
the prover's reach. So is induction over recursive definitions, which is why the
apply loops are written with `Max` over a set of indexes. Durability after failing
statements is not proved because it does not hold.

## What is not modelled

- Power failure: with `synchronous=NORMAL` the last commits may be lost when the
  machine, not the process, fails. What is lost depends on SQLite and the file
  system.
- SELECT statements that fail. They change nothing themselves, and mostly the
  exception leaves the operation as that of the statement before or after does.
  Not so in `request_vote`, which raises the term and clears the vote in
  memory before it looks at its log: a SELECT that fails there leaves this.
- Restarts of the process as the gateway's clients see them: `Gateway` starts once.
- The rounding of the token buckets' doubles, and the growth of `buckets_`, from
  which nothing is ever removed.
- The sum of the latencies, log lines, status pages and the text of the metrics.
- `parse_config`, `env_or`, `split_path`, `json_escape`, `to_lower`, the parsing
  of the request line and of the headers: sequential conversions of strings.
- The hash: `fnv1a_64` is a parameter, since nothing depends on its values but
  which keys share a shard.
