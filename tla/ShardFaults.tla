---------------------------- MODULE ShardFaults ----------------------------
(***************************************************************************)
(* A shard whose operations are cut short.  Shard.tla takes an operation   *)
(* as one step; here it may end after any of the SQL statements that it    *)
(* executes on the databases of its replicas, in one of two ways:          *)
(*                                                                         *)
(*   Crash   the process dies.  What is on disk remains, and the process   *)
(*           is started again (and may die again while it starts).         *)
(*   Error   a statement fails, and the exception leaves the operation;    *)
(*           the HTTP server answers 400, and the process goes on with     *)
(*           what is in memory and on disk at that moment.                 *)
(*                                                                         *)
(* The tables kv and raft_log have no copy in memory.  The four fields of  *)
(* a replica that persist_state writes to the meta table do, and the field *)
(* meta is added to a replica's record for the rows on disk.  A statement  *)
(* is on disk when it returns: the loss of the last commits that           *)
(* synchronous=NORMAL allows when the machine fails is left out, and so    *)
(* are failing SELECTs.                                                    *)
(***************************************************************************)
EXTENDS ShardSteps

CONSTANTS MaxCrashes, MaxErrors  \* how many of them there are

VARIABLES replicas, leaderId,
          reply,     \* the result of the last operation: Done, or how it failed
          up,        \* the process is running
          faults,    \* how many crashes and errors there were
          acks,      \* history: index and entry of the acknowledged writes
          served     \* history: term and replica of the last leader

vars == <<replicas, leaderId, reply, up, faults, acks, served>>

\* Results are told apart only when they are errors.
Done == [op |-> "none", status |-> 200]

Failed(op, status) == [op |-> op, status |-> status]

\* Missing rows of the meta table are read as these.
NoMeta == [currentTerm |-> 0, votedFor |-> NoReplica, commitIndex |-> 0,
           lastApplied |-> 0]

\* The database file is there and empty.
NewReplica == [online |-> TRUE, role |-> "Follower", currentTerm |-> 0,
               votedFor |-> NoReplica, commitIndex |-> 0, lastApplied |-> 0,
               log |-> EmptyLog, kv |-> EmptyKV, meta |-> NoMeta]

\* Mutant: the term stays in memory.
persist_state_NoTerm(r) ==
    [r EXCEPT !.meta = [currentTerm |-> @.currentTerm, votedFor |-> r.votedFor,
                        commitIndex |-> r.commitIndex, lastApplied |-> r.lastApplied]]

\* Mutant: the commit index stays in memory.
persist_state_NoCommit(r) ==
    [r EXCEPT !.meta = [currentTerm |-> r.currentTerm, votedFor |-> r.votedFor,
                        commitIndex |-> @.commitIndex, lastApplied |-> @.lastApplied]]

\* persist_state, and the states it passes through.
persist_state(r) ==
    [r EXCEPT !.meta = [currentTerm |-> r.currentTerm, votedFor |-> r.votedFor,
                        commitIndex |-> r.commitIndex, lastApplied |-> r.lastApplied]]

Persisting(r) ==
    LET m1 == [r.meta EXCEPT !.currentTerm = r.currentTerm]
        m2 == [m1 EXCEPT !.votedFor = r.votedFor]
        m3 == [m2 EXCEPT !.commitIndex = r.commitIndex]
    IN  {[r EXCEPT !.meta = m] : m \in {r.meta, m1, m2, m3}} \cup {persist_state(r)}

\* The states of a loop that applies the entries with index in I.
Applying(r, I) == {Apply(r, {i \in I : i <= j}) : j \in I \cup {0}}

\* What the process finds on disk.
OnDisk(r) ==
    [r EXCEPT !.online = TRUE, !.role = "Follower",
              !.currentTerm = r.meta.currentTerm, !.votedFor = r.meta.votedFor,
              !.commitIndex = r.meta.commitIndex, !.lastApplied = r.meta.lastApplied]
-----------------------------------------------------------------------------
(* The states a method passes through, given the state new it would leave. *)

Voting(r, new) == {r} \cup Persisting(new)

Appending(r, new) ==
    LET heard == [r EXCEPT !.currentTerm = new.currentTerm, !.role = new.role,
                           !.votedFor = new.votedFor]
        merged == [heard EXCEPT !.log = new.log]
    IN  {r, heard} \cup Applying(merged, r.lastApplied + 1 .. new.lastApplied)
            \cup Persisting(new)

Committing(r, new) ==
    Applying(r, r.lastApplied + 1 .. new.lastApplied) \cup Persisting(new)

\* install_snapshot: clear_all is one transaction and takes the meta table
\* with it; then row by row, entry by entry.
Installed(r, snapshot) == [install_snapshot(r, snapshot) EXCEPT !.meta = NoMeta]

Installing(r, snapshot) ==
    LET new == Installed(r, snapshot)
        cleared == [new EXCEPT !.commitIndex = 0, !.lastApplied = 0, !.kv = EmptyKV]
    IN  {r} \cup {[cleared EXCEPT !.log = SubSeq(@, 1, j)] : j \in 0 .. Len(new.log)}
            \cup Applying(cleared, 1 .. new.lastApplied) \cup Persisting(new)

Loading(r, new) ==
    IF r.lastApplied >= r.commitIndex THEN {r}
    ELSE Applying(r, Present(r.log, r.lastApplied + 1, r.commitIndex))
            \cup Persisting(new)

\* The states of a loop over the replicas in I, in order, that takes each
\* from before to after: some are done, one is in progress, the others wait.
Midway(I, before, after, progress) ==
    UNION {{[i \in Replicas |-> IF i = r THEN p
                                ELSE IF i < r /\ i \in I THEN after[i]
                                ELSE before[i]] : p \in progress[r]} : r \in I}
-----------------------------------------------------------------------------
(* ensure_leader_locked.                                                   *)

HoldsElection(sh) ==
    ~HasLeader(sh) /\ Cardinality(Online(sh.replicas)) >= Quorum

PersistedOn(reps, I) ==
    [r \in Replicas |-> IF r \in I THEN persist_state(reps[r]) ELSE reps[r]]

\* Its outcome when nothing fails.
WithLeader(sh) ==
    IF ~HoldsElection(sh) THEN EnsureLeader(sh)
    ELSE LET done == EnsureLeader(sh)
         IN  [done EXCEPT !.replicas = PersistedOn(@, Online(@))]

\* The states it passes through: the votes, then the snapshots.
Electing(sh) ==
    LET reps == sh.replicas
        online == Online(reps)
        c == Candidate(reps)
        term == NextTerm(reps)
        standing == [reps EXCEPT ![c] = set_role(@, "Candidate")]
        asked == [r \in Replicas |-> AfterVote(reps, r, c, term)]
        voted == PersistedOn(asked, online)
        crowned == [r \in Replicas |->
                       set_role(voted[r], IF r = c THEN "Leader" ELSE "Follower")]
        won == WithLeader(sh).leader = c
    IN  IF ~HoldsElection(sh) THEN {}
        ELSE {[replicas |-> x, leader |-> sh.leader] :
                 x \in Midway(online, standing, voted,
                              [r \in online |-> Voting(standing[r], asked[r])])}
             \cup (IF ~won THEN {} ELSE
             {[replicas |-> x, leader |-> c] :
                 x \in Midway(online \ {c}, crowned, WithLeader(sh).replicas,
                              [r \in online |->
                                  Installing(crowned[r], export_snapshot(crowned[c]))])})
-----------------------------------------------------------------------------
(* How an operation ends: sh is the state it leaves when nothing fails, mid *)
(* the set of those it passes through.                                      *)

Become(sh) ==
    /\ replicas' = sh.replicas /\ leaderId' = sh.leader
    /\ served' = IF HasLeader(sh)
                 THEN <<sh.replicas[sh.leader].currentTerm, sh.leader>>
                 ELSE served

Completes(sh, answer, acknowledged) ==
    /\ Become(sh)
    /\ reply' = answer
    /\ acks' = acks \cup acknowledged
    /\ UNCHANGED <<up, faults>>

Error(mid, op) ==
    /\ faults.errors < MaxErrors
    /\ \E sh \in mid : Become(sh)
    /\ reply' = Failed(op, 400)
    /\ faults' = [faults EXCEPT !.errors = @ + 1]
    /\ UNCHANGED <<up, acks>>

Crash(mid) ==
    /\ faults.crashes < MaxCrashes
    /\ replicas' \in {[r \in Replicas |-> OnDisk(sh.replicas[r])] : sh \in mid}
    /\ leaderId' = NoReplica
    /\ reply' = Done
    /\ up' = FALSE
    /\ faults' = [faults EXCEPT !.crashes = @ + 1]
    /\ UNCHANGED <<acks, served>>

Sh == [replicas |-> replicas, leader |-> leaderId]
-----------------------------------------------------------------------------
(* replicate_command_locked.                                               *)

\* What the operation is about, once sh has a leader: the leader with the new
\* entry, and the followers that accept it.
Context(sh, command, key, value) ==
    LET l == sh.leader
        leader == append_local(sh.replicas[l], command, key, value)
        index == last_log_index(leader.log)
    IN  [l |-> l, leader |-> leader, index |-> index,
         acks |-> Acknowledging(sh.replicas, l, leader, index),
         followers |-> Online(sh.replicas) \ {l}]

Replicated(c) == Cardinality(c.acks) + 1 >= Quorum

\* The outcome, when nothing fails.
Replicate(sh, c) ==
    [sh EXCEPT !.replicas =
        IF Replicated(c)
        THEN PersistedOn(Committed(@, c.l, c.leader, c.index, c.acks),
                         c.followers \cup {c.l})
        ELSE PersistedOn(RolledBack(@, c.l, c.leader, c.index, c.acks),
                         c.followers)]

\* The states of the loop over the followers, ...
Sending(sh, c) ==
    LET reps == sh.replicas
        snapshot == export_snapshot(c.leader)
        synced == {r \in c.followers : Levelled(reps[r], c.leader) # reps[r]}
        level == [r \in Replicas |->
                     IF r \in synced THEN persist_state(Installed(reps[r], snapshot))
                     ELSE reps[r]]
        sent == [r \in Replicas |-> Sent(level[r], c.l, c.leader, c.index)]
    IN  Midway(c.followers, [reps EXCEPT ![c.l] = c.leader],
               PersistedOn(sent, c.followers),
               [r \in c.followers |->
                   (IF r \in synced THEN Installing(reps[r], snapshot) ELSE {})
                   \cup Appending(level[r], sent[r])])

\* ... and of the end: the leader, then the followers that accepted, commit
\* the entry or drop it.
Ending(sh, c) ==
    LET sent == [PersistedOn([r \in Replicas |->
                                Sent(sh.replicas[r], c.l, c.leader, c.index)],
                             c.followers) EXCEPT ![c.l] = c.leader]
        done == Replicate(sh, c).replicas
        l == c.l
    IN  {[sent EXCEPT ![l] = p] :
            p \in IF Replicated(c)
                  THEN Committing(c.leader, commit_to(c.leader, c.index))
                  ELSE {c.leader}}
        \cup Midway(c.acks, [sent EXCEPT ![l] = done[l]], done,
                    [r \in c.acks |->
                        IF Replicated(c)
                        THEN Appending(sent[r], [done[r] EXCEPT !.meta = sent[r].meta])
                        ELSE {sent[r]}])

Writing(sh, c) ==
    {sh} \cup {[sh EXCEPT !.replicas = x] : x \in Sending(sh, c) \cup Ending(sh, c)}

Write(command, key, value) ==
    LET sh == WithLeader(Sh)
        c == Context(sh, command, key, value)
        mid == Electing(Sh) \cup (IF CanAppend(sh) THEN Writing(sh, c) ELSE {})
        done == IF CanAppend(sh) THEN Replicate(sh, c) ELSE sh
    IN  \/ /\ CanAppend(sh) /\ Replicated(c)
           /\ Completes(done, Done, {<<c.index, c.leader.log[c.index]>>})
        \/ /\ CanAppend(sh) /\ ~Replicated(c)
           /\ Completes(done, Failed("write", 503), {})
        \/ /\ ~CanAppend(sh)
           /\ Completes(done, Failed("write", IF HasLeader(sh) THEN 400 ELSE 503), {})
        \/ Error(mid, "write")
        \/ Crash(mid \cup {done})
-----------------------------------------------------------------------------
\* put, and erase, which has no value.
put_or_erase(key, value) ==
    up /\ Write(IF value = NoValue THEN "DELETE" ELSE "PUT", key, value)

\* What the constructor, get and elect_leader answer.
Elected(sh) == IF HasLeader(sh) THEN Done ELSE Failed("elect", 503)

\* get and elect_leader change the same: they see to it that there is a leader.
elect_leader ==
    LET sh == WithLeader(Sh)
    IN  /\ up
        /\ \/ Completes(sh, Elected(sh), {})
           \/ Error(Electing(Sh), "elect")
           \/ Crash(Electing(Sh))

fail_replica(r) ==
    /\ up
    /\ Completes([replicas |-> [replicas EXCEPT ![r] = set_online(@, FALSE)],
                  leader |-> IF leaderId = r THEN NoReplica ELSE leaderId],
                 Done, {})

recover_replica(r) ==
    LET back == [Sh EXCEPT !.replicas[r] = set_online(@, TRUE)]
        sh == WithLeader(back)
        syncs == HasLeader(sh) /\ sh.leader # r
        snapshot == export_snapshot(sh.replicas[sh.leader])
        mid == Electing(back) \cup
               (IF syncs THEN {[sh EXCEPT !.replicas[r] = p] :
                                  p \in Installing(sh.replicas[r], snapshot)} ELSE {})
        done == IF syncs
                THEN [sh EXCEPT !.replicas[r] = persist_state(Installed(@, snapshot))]
                ELSE sh
    IN  /\ up
        /\ \/ Completes(done, Done, {})
           \/ Error(mid, "recover")
           \/ Crash(mid \cup {done})

\* The process starts: load_state on every database, then an election.  An
\* exception here ends the process like a crash.
Boot ==
    LET loaded == [r \in Replicas |->
                      IF replicas[r].lastApplied < replicas[r].commitIndex
                      THEN persist_state(load_state(replicas[r])) ELSE replicas[r]]
        started == [replicas |-> loaded, leader |-> NoReplica]
        sh == WithLeader(started)
    IN  /\ ~up
        /\ \/ /\ Become(sh)
              /\ reply' = Elected(sh)
              /\ up' = TRUE
              /\ UNCHANGED <<faults, acks>>
           \/ Crash(Electing(started) \cup
                    {[started EXCEPT !.replicas = x] :
                        x \in Midway(Replicas, replicas, loaded,
                                     [r \in Replicas |->
                                         Loading(replicas[r], load_state(replicas[r]))])})

Init ==
    /\ replicas = [r \in Replicas |-> NewReplica]
    /\ leaderId = NoReplica
    /\ reply = Done
    /\ up = FALSE
    /\ faults = [crashes |-> 0, errors |-> 0]
    /\ acks = {}
    /\ served = <<0, NoReplica>>

Next == \/ \E k \in Keys, v \in Values \cup {NoValue} : put_or_erase(k, v)
        \/ \E r \in Replicas : fail_replica(r) \/ recover_replica(r)
        \/ elect_leader
        \/ Boot

Spec == Init /\ [][Next]_vars
-----------------------------------------------------------------------------
(* Properties.                                                             *)

Leader == replicas[leaderId]

Majority == 2 * Cardinality(Online(replicas)) > N

\* Durability: whenever a leader serves the shard its committed log has every
\* write that was acknowledged, where it was acknowledged, although crashes hit
\* any statement of any operation and install_snapshot empties a follower's
\* database before it fills it again.  Failing statements break this: a replica
\* that recover_replica could not fill stays online, and votes.
AckedSurvives ==
    leaderId # NoReplica =>
        \A a \in acks : /\ a[1] <= Leader.commitIndex
                        /\ a[1] \in DOMAIN Leader.log
                        /\ Leader.log[a[1]] = a[2]

\* The databases a crash leaves behind never lock the shard out: an election,
\* the one of the constructor included, fails only for want of a majority.
\* Those a failing statement leaves may: the candidate is the replica with the
\* largest commit index, the votes go by the end of the log, and
\* install_snapshot sets the first to 0 long before it is done with the second.
ElectionsSucceed ==
    reply = Failed("elect", 503) => ~Majority

\* A leader's term is larger than those of all leaders before it, and so no two
\* leaders share a term, although a follower whose database was being
\* replaced at a crash has forgotten its term and its vote, and a failing
\* statement leaves terms in memory that are not on disk.
LeaderTermsAdvance ==
    [][served' # served => served'[1] > served[1]]_vars

\* A write that is refused although a majority is online leaves no entry
\* behind: one that a crash left uncommitted makes the followers refuse
\* the next write, which then removes both (discard_uncommitted), so that the
\* retry of the gateway succeeds.  A value that commit_to had applied by then
\* stays in the kv table (ReadsCommitted).
RefusalCleansUp ==
    reply = Failed("write", 503) /\ Majority =>
        \A r \in Online(replicas) :
            last_log_index(replicas[r].log) = replicas[r].commitIndex

\* What docs/FAILURE_MODES.md says of reads: they are served from the leader's
\* committed state.
ReadsCommitted ==
    leaderId # NoReplica =>
        Leader.kv = ApplyEntries(EmptyKV, Leader.log, 1 .. Leader.commitIndex)
=============================================================================
