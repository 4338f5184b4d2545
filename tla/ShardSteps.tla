----------------------------- MODULE ShardSteps -----------------------------
(***************************************************************************)
(* The two protocols of a shard (class Shard of src/cluster.cpp), as       *)
(* functions of the state of its replicas: the election of a leader and    *)
(* the replication of a command, made of calls to RaftReplica.             *)
(*                                                                         *)
(* A shard in the middle of an operation is a record [replicas, leader].   *)
(***************************************************************************)
EXTENDS RaftReplica, FiniteSets

\* Mutant: half of the replicas, rounded down, will do.
Quorum_Half == N \div 2

Quorum == N \div 2 + 1

Online(reps) == {r \in Replicas : reps[r].online}
-----------------------------------------------------------------------------
(* Election: ensure_leader_locked.                                         *)

\* current_leader_locked finds a replica.
HasLeader(sh) == sh.leader # NoReplica /\ sh.replicas[sh.leader].online

\* The comparison of max_element.
Behind(a, b) ==
    \/ a.commitIndex < b.commitIndex
    \/ /\ a.commitIndex = b.commitIndex
       /\ \/ last_log_term(a.log) < last_log_term(b.log)
          \/ /\ last_log_term(a.log) = last_log_term(b.log)
             /\ last_log_index(a.log) < last_log_index(b.log)

\* Mutant: the first online replica stands, however far behind it is.
Candidate_First(reps) ==
    CHOOSE c \in Online(reps) : \A r \in Online(reps) : c <= r

\* max_element returns the first of the largest elements.
Candidate(reps) ==
    CHOOSE c \in Online(reps) :
        \A r \in Online(reps) : IF r < c THEN Behind(reps[r], reps[c])
                                         ELSE ~Behind(reps[c], reps[r])

\* Mutant: an election in the term that has already been used.
NextTerm_SameTerm(reps) == Max({1} \cup {reps[r].currentTerm : r \in Replicas})

\* Offline replicas count too.
NextTerm(reps) == Max({1} \cup {reps[r].currentTerm + 1 : r \in Replicas})

\* Mutant: followers are left as they are.
sync_follower_Nothing(follower, leader) == follower

\* sync_follower_locked
sync_follower(follower, leader) ==
    install_snapshot(follower, export_snapshot(leader))

\* The replicas that vote for c, and replica r once it was asked to.
Voters(reps, c, term) ==
    {r \in Online(reps) :
        VoteGranted(reps[r], term, c, last_log_index(reps[c].log),
                    last_log_term(reps[c].log))}

AfterVote(reps, r, c, term) ==
    request_vote(IF r = c THEN set_role(reps[c], "Candidate") ELSE reps[r],
                 term, c, last_log_index(reps[c].log),
                 last_log_term(reps[c].log))

\* The winner is made leader, everybody else a follower, and the online
\* followers install the winner's committed log.
Crowned(reps, c, term) ==
    LET winner == set_role(AfterVote(reps, c, c, term), "Leader")
    IN  [r \in Replicas |->
            IF r = c THEN winner
            ELSE sync_follower(set_role(AfterVote(reps, r, c, term), "Follower"),
                               winner)]

\* The candidate steps back.
Defeated(reps, c, term) ==
    [r \in Replicas |->
        IF r = c THEN set_role(AfterVote(reps, c, c, term), "Follower")
        ELSE AfterVote(reps, r, c, term)]

Elect(reps) ==
    LET c == Candidate(reps)
        term == NextTerm(reps)
    IN  IF Cardinality(Voters(reps, c, term)) < Quorum
        THEN [replicas |-> Defeated(reps, c, term), leader |-> NoReplica]
        ELSE [replicas |-> Crowned(reps, c, term), leader |-> c]

EnsureLeader(sh) ==
    IF HasLeader(sh) THEN sh
    ELSE IF Cardinality(Online(sh.replicas)) < Quorum
         THEN [sh EXCEPT !.leader = NoReplica]
         ELSE Elect(sh.replicas)
-----------------------------------------------------------------------------
(* Replication: replicate_command_locked, once the leader l has appended   *)
(* an entry at index to its log.  A follower's turn of the loop reads the  *)
(* leader and writes the follower, so the turns are independent.           *)

\* A follower that is not exactly at the leader's commit index is
\* synchronised first.
Levelled(follower, leader) ==
    IF \/ follower.commitIndex # leader.commitIndex
       \/ last_log_index(follower.log) # leader.commitIndex
    THEN sync_follower(follower, leader) ELSE follower

\* The followers that accept the entry.
Acknowledging(reps, l, leader, index) ==
    {r \in Online(reps) \ {l} :
        AppendAccepted(Levelled(reps[r], leader), leader.currentTerm, index - 1,
                       term_at(leader, index - 1))}

\* A follower after its turn; an offline one ignores both calls.
Sent(follower, l, leader, index) ==
    append_entries(Levelled(follower, leader), leader.currentTerm, l, index - 1,
                   term_at(leader, index - 1),
                   [i \in {index} |-> leader.log[i]], leader.commitIndex)

\* Mutant: only the leader drops the entry.
RolledBack_LeaderOnly(reps, l, leader, index, acks) ==
    [r \in Replicas |->
        IF r = l THEN discard_uncommitted(leader)
        ELSE Sent(reps[r], l, leader, index)]

\* Mutant: only the followers drop the entry.
RolledBack_FollowersOnly(reps, l, leader, index, acks) ==
    [r \in Replicas |->
        IF r = l THEN leader
        ELSE IF r \in acks THEN discard_uncommitted(Sent(reps[r], l, leader, index))
        ELSE Sent(reps[r], l, leader, index)]

\* No majority: the entry is removed again.
RolledBack(reps, l, leader, index, acks) ==
    [r \in Replicas |->
        IF r = l THEN discard_uncommitted(leader)
        ELSE IF r \in acks THEN discard_uncommitted(Sent(reps[r], l, leader, index))
        ELSE Sent(reps[r], l, leader, index)]

\* A majority: the leader commits, then its followers, by a heartbeat.
Committed(reps, l, leader, index, acks) ==
    [r \in Replicas |->
        IF r = l THEN commit_to(leader, index)
        ELSE IF r \in acks
             THEN append_entries(Sent(reps[r], l, leader, index),
                                 leader.currentTerm, l, index,
                                 leader.log[index].term, EmptyLog, index)
        ELSE Sent(reps[r], l, leader, index)]

\* append_local throws unless it runs on an online leader; the HTTP server
\* turns the exception into a response with status 400.
CanAppend(sh) == HasLeader(sh) /\ sh.replicas[sh.leader].role = "Leader"
=============================================================================
