------------------------------ MODULE Cluster ------------------------------
(***************************************************************************)
(* The cluster (class Cluster of src/cluster.cpp): the shards, and the     *)
(* routing of keys to them.  A shard is what Shard.tla was shown to be for *)
(* its clients, one map, together with whether a majority of its replicas  *)
(* is online.  With a majority every request succeeds; without one a write *)
(* is refused and a read is answered or refused, as a leader elected       *)
(* earlier is still there or not (AvailableWithMajority,                   *)
(* ImplementsService).                                                     *)
(*                                                                         *)
(* Once a SQLite call has failed a shard may refuse requests and elections *)
(* with a majority online, too, and its reads may return anything          *)
(* (ShardFaults.tla).                                                      *)
(*                                                                         *)
(* An operation has its result as last parameter.  It is one step: a shard *)
(* holds its mutex throughout.                                             *)
(***************************************************************************)
EXTENDS Integers

CONSTANTS ShardCount, Keys, Values, NoValue,
          fnv1a_64,      \* the hash, a function on Keys
          StorageFaults  \* whether SQLite calls may fail

ASSUME ClusterAssumption == /\ ShardCount \in Nat \ {0}
                            /\ fnv1a_64 \in [Keys -> Nat]
                            /\ NoValue \notin Values
                            /\ StorageFaults \in BOOLEAN

VARIABLES tables,   \* per shard, the map its acknowledged writes add up to
          majority, \* per shard, whether a majority of its replicas is online
          failed    \* the shards on which a SQLite call has failed

Shards == 0 .. ShardCount - 1

\* Ids an administrator may send: one of them names no shard.
ShardIds == 0 .. ShardCount

shard_for_key(key) == fnv1a_64[key] % ShardCount

\* The fields of OperationResult that the gateway acts on.
Result(status, value) == [status |-> status, value |-> value]

Unavailable == Result(503, NoValue)

\* A SQLite error: the operation throws, and a write may have happened.
Thrown == Result(400, NoValue)

Results == {Result(200, v) : v \in Values \cup {NoValue}} \cup
           {Result(201, NoValue), Result(404, NoValue), Unavailable, Thrown}

\* A shard that may refuse, and one on which a SQLite call fails now.
Refuses(s) == ~majority[s] \/ s \in failed

Throws(s) == StorageFaults /\ failed' = failed \cup {s}

Write(key, value, done, result) ==
    LET s == shard_for_key(key)
        written == [tables EXCEPT ![s][key] = value]
    IN  /\ \/ majority[s] /\ result = done /\ tables' = written /\ UNCHANGED failed
           \/ Refuses(s) /\ result = Unavailable /\ UNCHANGED <<tables, failed>>
           \/ Throws(s) /\ result = Thrown /\ tables' \in {tables, written}
        /\ UNCHANGED majority

put(key, value, result) == Write(key, value, Result(201, NoValue), result)

erase(key, result) == Write(key, NoValue, Result(200, NoValue), result)

get(key, result) ==
    LET s == shard_for_key(key)
        readable == IF s \in failed THEN Values \cup {NoValue} ELSE {tables[s][key]}
    IN  /\ \/ /\ \E value \in readable :
                    result = Result(IF value = NoValue THEN 404 ELSE 200, value)
              /\ UNCHANGED failed
           \/ Refuses(s) /\ result = Unavailable /\ UNCHANGED failed
           \/ Throws(s) /\ result = Thrown
        /\ UNCHANGED <<tables, majority>>

\* fail_replica and recover_replica are FALSE for a shard or a replica there
\* is not; known says whether the shard has the replica.
fail_replica(id, known, result) ==
    /\ result = (id \in Shards /\ known)
    /\ \/ UNCHANGED majority
       \/ result /\ majority' = [majority EXCEPT ![id] = FALSE]
    /\ UNCHANGED <<tables, failed>>

\* With result = FALSE it may also have thrown, the replica being online by then.
recover_replica(id, known, result) ==
    /\ \/ result = (id \in Shards /\ known) /\ UNCHANGED failed
       \/ ~result /\ id \in Shards /\ known /\ Throws(id)
    /\ \/ UNCHANGED majority
       \/ id \in Shards /\ known /\ majority' = [majority EXCEPT ![id] = TRUE]
    /\ UNCHANGED tables

\* elect: a leader elected earlier is kept even when the majority is gone.
elect(id, result) ==
    /\ IF result THEN id \in Shards ELSE id \in Shards => Refuses(id)
    /\ UNCHANGED <<tables, majority, failed>>

\* elect throws.
elect_Throws(id) == id \in Shards /\ Throws(id) /\ UNCHANGED <<tables, majority>>
=============================================================================
