------------------------------- MODULE Shard -------------------------------
(***************************************************************************)
(* One shard (class Shard of src/cluster.cpp): N replicas in one process   *)
(* and the leader they elected.  Every public method takes the shard's     *)
(* mutex for its whole duration, so an operation is one action, made of    *)
(* calls to the methods of RaftReplica.  Replicas go offline and come back *)
(* between operations (fail_replica, recover_replica), and the process may *)
(* stop between two operations and start again on the same databases.      *)
(***************************************************************************)
EXTENDS ShardSteps

VARIABLES replicas,  \* replicas_: id -> RaftReplica
          leaderId,  \* leader_id_
          metrics,   \* the two counters of Metrics that a shard increments
          reply,     \* the result of the operation just performed
          acked      \* history: the entries of the acknowledged writes

vars == <<replicas, leaderId, metrics, reply, acked>>

\* The map that the acknowledged writes add up to.
AckedKV == ApplyEntries(EmptyKV, acked, DOMAIN acked)

Service == INSTANCE KVService WITH kv <- AckedKV
-----------------------------------------------------------------------------
Sh == [replicas |-> replicas, leader |-> leaderId]

\* metrics_.inc_election, when EnsureLeader elected a leader.
Elections(sh) == IF sh.leader \notin {NoReplica, leaderId} THEN 1 ELSE 0

Become(sh) == replicas' = sh.replicas /\ leaderId' = sh.leader

\* put and erase.
Write(command, key, value) ==
    LET sh == EnsureLeader(Sh)
        l == sh.leader
        reps == sh.replicas
        index == last_log_index(reps[l].log) + 1
        leader == append_local(reps[l], command, key, value)
        acks == Acknowledging(reps, l, leader, index)
        refused == Cardinality(Online(reps) \ ({l} \cup acks))
        counted == [elections |-> metrics.elections + Elections(sh),
                    replicationFailures |-> metrics.replicationFailures + refused]
    IN  \/ /\ ~CanAppend(sh)
           /\ Become(sh)
           /\ metrics' = [metrics EXCEPT !.elections = @ + Elections(sh)]
           /\ reply' = Service!Reply(command, key, value,
                                     IF HasLeader(sh) THEN 400 ELSE 503)
           /\ UNCHANGED acked
        \/ /\ CanAppend(sh)
           /\ Cardinality(acks) + 1 < Quorum
           /\ replicas' = RolledBack(reps, l, leader, index, acks)
           /\ leaderId' = l
           /\ metrics' = counted
           /\ reply' = Service!Reply(command, key, value, 503)
           /\ UNCHANGED acked
        \/ /\ CanAppend(sh)
           /\ Cardinality(acks) + 1 >= Quorum
           /\ replicas' = Committed(reps, l, leader, index, acks)
           /\ leaderId' = l
           /\ metrics' = counted
           /\ reply' = Service!Reply(command, key, value,
                                     IF command = "DELETE" THEN 200 ELSE 201)
           /\ acked' = Append(acked, leader.log[index])

put(key, value) == Write("PUT", key, value)

\* Mutant: the key is passed as the value, too.
erase_KeyAsValue(key) == Write("DELETE", key, key)

erase(key) == Write("DELETE", key, NoValue)

get(key) ==
    LET sh == EnsureLeader(Sh)
        value == sh.replicas[sh.leader].kv[key]
    IN  /\ Become(sh)
        /\ metrics' = [metrics EXCEPT !.elections = @ + Elections(sh)]
        /\ reply' = IF ~HasLeader(sh)
                    THEN Service!Reply("GET", key, NoValue, 503)
                    ELSE Service!Reply("GET", key, value,
                                       IF value = NoValue THEN 404 ELSE 200)
        /\ UNCHANGED acked

fail_replica(r) ==
    /\ replicas' = [replicas EXCEPT ![r] = set_online(@, FALSE)]
    /\ leaderId' = IF leaderId = r THEN NoReplica ELSE leaderId
    /\ reply' = Service!NoReply
    /\ UNCHANGED <<metrics, acked>>

\* Mutant: the arguments of sync_follower_locked swapped.
recover_replica_Swapped(r) ==
    LET back == [replicas EXCEPT ![r] = set_online(@, TRUE)]
        sh == EnsureLeader([replicas |-> back, leader |-> leaderId])
    IN  /\ replicas' =
               IF HasLeader(sh) /\ sh.leader # r
               THEN [sh.replicas EXCEPT
                        ![sh.leader] = sync_follower(@, sh.replicas[r])]
               ELSE sh.replicas
        /\ leaderId' = sh.leader
        /\ metrics' = [metrics EXCEPT !.elections = @ + Elections(sh)]
        /\ reply' = Service!NoReply
        /\ UNCHANGED acked

recover_replica(r) ==
    LET back == [replicas EXCEPT ![r] = set_online(@, TRUE)]
        sh == EnsureLeader([replicas |-> back, leader |-> leaderId])
    IN  /\ replicas' =
               IF HasLeader(sh) /\ sh.leader # r
               THEN [sh.replicas EXCEPT
                        ![r] = sync_follower(@, sh.replicas[sh.leader])]
               ELSE sh.replicas
        /\ leaderId' = sh.leader
        /\ metrics' = [metrics EXCEPT !.elections = @ + Elections(sh)]
        /\ reply' = Service!NoReply
        /\ UNCHANGED acked

elect_leader ==
    LET sh == EnsureLeader(Sh)
    IN  /\ Become(sh)
        /\ metrics' = [metrics EXCEPT !.elections = @ + Elections(sh)]
        /\ reply' = Service!Reply("ELECT", NoValue, NoValue,
                                  IF HasLeader(sh) THEN 200 ELSE 503)
        /\ UNCHANGED acked

\* The constructor on the databases of the replicas in reps: every replica
\* comes up online, then a first election.
Start(reps) ==
    EnsureLeader([replicas |-> [r \in Replicas |-> load_state(reps[r])],
                  leader |-> NoReplica])

\* The process stops between two operations and is started again.
Restart ==
    LET sh == Start(replicas)
    IN  /\ Become(sh)
        /\ metrics' = [elections |-> IF HasLeader(sh) THEN 1 ELSE 0,
                       replicationFailures |-> 0]
        /\ reply' = Service!NoReply
        /\ UNCHANGED acked

Init ==
    LET sh == Start([r \in Replicas |-> FreshReplica])
    IN  /\ replicas = sh.replicas
        /\ leaderId = sh.leader
        /\ metrics = [elections |-> IF HasLeader(sh) THEN 1 ELSE 0,
                      replicationFailures |-> 0]
        /\ reply = Service!NoReply
        /\ acked = <<>>

Next == \/ \E k \in Keys, v \in Values : put(k, v)
        \/ \E k \in Keys : erase(k)
        \/ \E k \in Keys : get(k)
        \/ \E r \in Replicas : fail_replica(r)
        \/ \E r \in Replicas : recover_replica(r)
        \/ elect_leader
        \/ Restart

Spec == Init /\ [][Next]_vars
-----------------------------------------------------------------------------
(* Properties.                                                             *)

Ops == {"none", "PUT", "DELETE", "GET", "ELECT"}

\* Types.  Replica says of every raft_log table that it has rows exactly at
\* 1..n for some n: no append, truncation or snapshot leaves a gap, on which
\* the loops of commit_to, append_entries and install_snapshot would disagree.
TypeOK ==
    /\ replicas \in [Replicas -> Replica]
    /\ leaderId \in Replicas \cup {NoReplica}
    /\ metrics \in [elections : Nat, replicationFailures : Nat]
    /\ reply \in [op : Ops, key : Keys \cup {NoValue},
                  value : Values \cup {NoValue}, status : Nat]
    /\ acked \in Seq(Entry)

\* The replica holds and has committed every acknowledged write.
UpToDate(r) == replicas[r].log = acked /\ replicas[r].commitIndex = Len(acked)

\* Durability: a majority of the databases, offline replicas included, hold
\* every write that replicate_command_locked acknowledged, in the order of the
\* acknowledgements, as committed entries.
AckedOnMajority == 2 * Cardinality({r \in Replicas : UpToDate(r)}) > N

\* A write that was answered with an error leaves no trace: between two
\* operations every log, on an offline replica too, is a prefix of the
\* acknowledged writes, all of it committed and applied, so no entry is left
\* for a later election or append to commit (the discard_uncommitted calls).
NoTraceOfRejected ==
    \A r \in Replicas :
        /\ replicas[r].commitIndex \in 0 .. Len(acked)
        /\ replicas[r].log = [i \in 1 .. replicas[r].commitIndex |-> acked[i]]
        /\ replicas[r].lastApplied = replicas[r].commitIndex

\* State machine safety: whatever mix of commit_to, append_entries and
\* install_snapshot brought a replica to its commit index, its kv table is
\* what the first commitIndex acknowledged writes add up to.
StateMatchesLog ==
    \A r \in Replicas :
        replicas[r].kv =
            ApplyEntries(EmptyKV, acked, 1 .. replicas[r].commitIndex)

\* The replica that serves reads and writes has every acknowledged write, is
\* the only one in the role of leader and has the largest term, and every
\* online replica is level with it; without a leader_id_ nobody leads.
LeaderIsUpToDate ==
    /\ \A r \in Replicas : replicas[r].role = "Leader" <=> r = leaderId
    /\ leaderId # NoReplica =>
          /\ replicas[leaderId].online
          /\ \A r \in Replicas :
                /\ replicas[r].currentTerm <= replicas[leaderId].currentTerm
                /\ replicas[r].online => UpToDate(r)

\* A request is turned away only while no majority is online: an election
\* held with a majority online always succeeds, a follower of a leader never
\* refuses an entry and append_local never throws.  A write is acknowledged
\* only while a majority is online.
AvailableWithMajority ==
    LET majority == 2 * Cardinality(Online(replicas)) > N
    IN  /\ reply.status = 503 => ~majority
        /\ reply.status # 400
        /\ reply.op \in {"PUT", "DELETE"} /\ reply.status \in {200, 201} => majority
        /\ metrics.replicationFailures = 0

\* What docs/FAILURE_MODES.md says of two offline replicas out of three: reads
\* are rejected, too, "because no majority exists".  The get of the code asks
\* for a leader only, and a leader that was elected with a majority stays one
\* when its followers go offline.
ReadsNeedMajority ==
    reply.op = "GET" /\ reply.status \in {200, 404} =>
        2 * Cardinality(Online(replicas)) > N

\* What a replica has committed it keeps, entry by entry, through elections,
\* snapshots and restarts.
CommittedStays ==
    \A r \in Replicas :
        /\ replicas'[r].commitIndex >= replicas[r].commitIndex
        /\ \A i \in 1 .. replicas[r].commitIndex :
              replicas'[r].log[i] = replicas[r].log[i]

CommittedForever == [][CommittedStays]_vars

\* No replica's term goes back, and a leader that takes over has a term that
\* no replica, online or not, had seen before: two leaders never share a term,
\* although install_snapshot makes a follower forget its vote.
TermStep ==
    /\ \A r \in Replicas : replicas'[r].currentTerm >= replicas[r].currentTerm
    /\ leaderId' \notin {NoReplica, leaderId} =>
          \A r \in Replicas :
              replicas'[leaderId'].currentTerm > replicas[r].currentTerm

TermsAdvance == [][TermStep]_vars

\* The clients of a shard see a single map: acknowledged writes take effect in
\* order, reads return the last acknowledged value, refused requests change
\* nothing, and failures, recoveries, elections and restarts are invisible.
ImplementsService == Service!Spec
=============================================================================
