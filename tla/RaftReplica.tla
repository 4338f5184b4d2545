---------------------------- MODULE RaftReplica ----------------------------
(***************************************************************************)
(* One replica of a shard (src/raft.cpp): its volatile fields, its         *)
(* persistent Raft metadata and the tables of its store.  Every method of  *)
(* the class holds the replica's mutex from its first line to its last, so *)
(* a method is a function from the replica's state (and its arguments) to  *)
(* the next state, plus a result where it returns one.                     *)
(*                                                                         *)
(* persist_state, which ends every method that changes currentTerm,        *)
(* votedFor, commitIndex or lastApplied, copies these four fields to the   *)
(* meta table.  Between two methods the copies are therefore equal to the  *)
(* fields, and this module keeps the fields only.                          *)
(***************************************************************************)
EXTENDS SqliteStore

CONSTANTS N,          \* the number of replicas of a shard
          NoReplica   \* the empty string as a replica id

ASSUME NAssumption == N \in Nat \ {0}

\* replicas_ is a vector: the order of the ids is the order of the loops.
Replicas == 0 .. N - 1

ASSUME NoReplicaAssumption == NoReplica \notin Replicas

Roles == {"Follower", "Candidate", "Leader"}

Replica == [online : BOOLEAN, role : Roles, currentTerm : Nat,
            votedFor : Replicas \cup {NoReplica}, commitIndex : Nat,
            lastApplied : Nat, log : LogTable, kv : KVTable]

\* A replica opened on an empty database.
FreshReplica ==
    [online |-> TRUE, role |-> "Follower", currentTerm |-> 0,
     votedFor |-> NoReplica, commitIndex |-> 0, lastApplied |-> 0,
     log |-> EmptyLog, kv |-> EmptyKV]

Smaller(a, b) == IF a < b THEN a ELSE b
Larger(a, b) == IF a < b THEN b ELSE a
-----------------------------------------------------------------------------
\* The entries with index in I are applied and lastApplied follows them.
Apply(r, I) == [r EXCEPT !.kv = ApplyEntries(@, r.log, I),
                         !.lastApplied = Max({@} \cup I)]

\* The indexes visited by a loop over from..to that breaks at a missing row.
UpToGap(log, from, to) == {i \in from .. to : from .. i \subseteq DOMAIN log}

\* The indexes visited by a loop over from..to that skips missing rows.
Present(log, from, to) == (from .. to) \cap DOMAIN log

set_online(r, online) ==
    [r EXCEPT !.online = online, !.role = IF online THEN @ ELSE "Follower"]

set_role(r, role) == [r EXCEPT !.role = role]

\* 0 for index 0, -1 for a missing row.
term_at(r, index) ==
    IF index = 0 THEN 0
    ELSE IF index \in DOMAIN r.log THEN r.log[index].term ELSE -1
-----------------------------------------------------------------------------
\* The result of request_vote.
VoteGranted(r, term, candidate, lastIndex, lastTerm) ==
    /\ r.online
    /\ term >= r.currentTerm
    /\ \/ lastTerm > last_log_term(r.log)
       \/ /\ lastTerm = last_log_term(r.log)
          /\ lastIndex >= last_log_index(r.log)
    /\ term > r.currentTerm \/ r.votedFor \in {NoReplica, candidate}

\* The state request_vote leaves.  A newer term is adopted, and the vote of
\* the old one forgotten, whether or not the vote is granted.
request_vote(r, term, candidate, lastIndex, lastTerm) ==
    IF ~r.online \/ term < r.currentTerm THEN r
    ELSE LET newer == term > r.currentTerm
         IN  [r EXCEPT
                !.currentTerm = term,
                !.role = IF newer THEN "Follower" ELSE @,
                !.votedFor =
                    IF VoteGranted(r, term, candidate, lastIndex, lastTerm)
                    THEN candidate ELSE IF newer THEN NoReplica ELSE @]

\* The loop of append_entries over the entries of the message, a table with
\* consecutive indexes.  Rows from the first conflicting one on are dropped,
\* rows that agree are kept, missing rows are inserted.
MergeLog(log, entries) ==
    LET conflict == {i \in DOMAIN entries \cap DOMAIN log :
                        log[i].term # entries[i].term}
        kept == {j \in DOMAIN log : \A i \in conflict : j < i}
    IN  [j \in kept \cup DOMAIN entries |->
            IF j \in kept THEN log[j] ELSE entries[j]]

\* The result of append_entries.
AppendAccepted(r, term, prevIndex, prevTerm) ==
    /\ r.online
    /\ term >= r.currentTerm
    /\ prevIndex > 0 => term_at(r, prevIndex) = prevTerm

\* The state append_entries leaves: unchanged when the replica is offline or
\* ahead of the sender's term; term, role and vote only when the previous
\* entry does not match; otherwise the entries are merged and the log is
\* applied up to the leader's commit index.
append_entries(r, term, leader, prevIndex, prevTerm, entries, leaderCommit) ==
    LET heard == [r EXCEPT !.currentTerm = term, !.role = "Follower",
                           !.votedFor = leader]
        merged == [heard EXCEPT !.log = MergeLog(@, entries)]
        commit == Smaller(leaderCommit, last_log_index(merged.log))
    IN  IF ~r.online \/ term < r.currentTerm THEN r
        ELSE IF ~AppendAccepted(r, term, prevIndex, prevTerm) THEN heard
        ELSE IF commit <= r.commitIndex THEN merged
        ELSE [Apply(merged, UpToGap(merged.log, r.lastApplied + 1, commit))
                EXCEPT !.commitIndex = commit]
-----------------------------------------------------------------------------
\* The entry append_local creates; its index is last_log_index + 1.
NewEntry(r, command, key, value) ==
    [term |-> r.currentTerm, command |-> command, key |-> key, value |-> value]

append_local(r, command, key, value) ==
    [r EXCEPT !.log = append_log(@, last_log_index(@) + 1,
                                 NewEntry(r, command, key, value))]

\* Mutant: the commit index moves and nothing is applied.
commit_to_WithoutApply(r, index) ==
    IF ~r.online THEN r
    ELSE [r EXCEPT !.commitIndex = Larger(@, index), !.lastApplied = Larger(@, index)]

commit_to(r, index) ==
    LET target == Smaller(index, last_log_index(r.log))
    IN  IF ~r.online THEN r
        ELSE [Apply(r, UpToGap(r.log, r.lastApplied + 1, target))
                EXCEPT !.commitIndex = Larger(@, target)]

discard_uncommitted(r) ==
    [r EXCEPT !.log = truncate_log_from(@, r.commitIndex + 1)]

\* The code keeps the first commitIndex rows; without gaps these are the
\* rows with an index of at most commitIndex.
export_snapshot(r) ==
    [term |-> r.currentTerm, commitIndex |-> r.commitIndex,
     log |-> truncate_log_from(r.log, r.commitIndex + 1)]

\* Mutant: lastApplied is not reset, so a lagging replica replays only the
\* entries it had not applied, on the emptied table.
install_snapshot_FromLastApplied(r, snapshot) ==
    LET target == Smaller(snapshot.commitIndex, last_log_index(snapshot.log))
        cleared == [r EXCEPT !.currentTerm = Larger(@, snapshot.term),
                             !.votedFor = NoReplica, !.role = "Follower",
                             !.kv = EmptyKV, !.log = snapshot.log]
    IN  IF ~r.online THEN r
        ELSE [Apply(cleared, Present(cleared.log, r.lastApplied + 1, target))
                EXCEPT !.commitIndex = target]

\* clear_all, then the snapshot's rows, then the state machine from scratch.
install_snapshot(r, snapshot) ==
    LET target == Smaller(snapshot.commitIndex, last_log_index(snapshot.log))
        cleared == [r EXCEPT !.currentTerm = Larger(@, snapshot.term),
                             !.votedFor = NoReplica, !.role = "Follower",
                             !.lastApplied = 0, !.kv = EmptyKV,
                             !.log = snapshot.log]
    IN  IF ~r.online THEN r
        ELSE [Apply(cleared, Present(cleared.log, 1, target))
                EXCEPT !.commitIndex = target]

\* A new RaftReplica on the database r left: the constructor and load_state.
load_state(r) ==
    LET opened == [r EXCEPT !.online = TRUE, !.role = "Follower"]
    IN  IF r.lastApplied >= r.commitIndex THEN opened
        ELSE Apply(opened, Present(r.log, r.lastApplied + 1, r.commitIndex))
=============================================================================
