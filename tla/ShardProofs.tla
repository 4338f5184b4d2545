---------------------------- MODULE ShardProofs -----------------------------
(***************************************************************************)
(* The properties of Shard, for every number of replicas and every set of  *)
(* keys and values. IInv, the inductive invariant, describes a shard       *)
(* between two operations. Every operation is shown to preserve it and to  *)
(* move the shard forward (Moves); the invariants and action properties of *)
(* Shard follow, and that a shard implements KVService.                    *)
(***************************************************************************)
EXTENDS ShardReplication

\* The steps are first-order reasoning unless they say otherwise.
USE Zenon

(* The inductive invariant.                                                *)

Metric == [elections : Nat, replicationFailures : Nat]

ReplyType == [op : Ops, key : Keys \cup {NoValue},
              value : Values \cup {NoValue}, status : Nat]

\* The replicas are consistent with the acknowledged writes and the leader
\* leads; the invariants of Shard follow from it.
IInv == /\ Consistent(replicas, acked)
        /\ Leads(replicas, leaderId, acked)
        /\ metrics \in Metric
        /\ reply \in ReplyType
        /\ AvailableWithMajority

\* What every step does to the replicas, the leader and the history.
Moves(reps, l, A, next, m, B) ==
    /\ Consistent(next, B)
    /\ Leads(next, m, B)
    /\ Forward(reps, next)
    /\ B = A \/ \E e \in Entry : B = Append(A, e)
    /\ m \notin {NoReplica, l} =>
          \A r \in Replicas : reps[r].currentTerm < next[m].currentTerm

\* Whoever is online stays counted.
LEMMA SameOnlineSet ==
    ASSUME NEW reps \in [Replicas -> Replica], NEW next, SameOnline(reps, next)
    PROVE  Online(next) = Online(reps)
  BY DEF SameOnline, Online

\* The leader and the followers that acknowledged are those who are online,
\* and nobody refused.
LEMMA CountAcks ==
    ASSUME NEW S \in SUBSET Replicas, NEW l \in S
    PROVE  /\ Cardinality(S \ {l}) + 1 = Cardinality(S)
           /\ Cardinality(S \ ({l} \cup (S \ {l}))) = 0
           /\ Cardinality(S) \in Nat
  <1>1. IsFiniteSet(S) /\ Cardinality(S) \in Nat
    BY ReplicasFinite
  <1>2. Cardinality(S \ {l}) = Cardinality(S) - 1
    BY <1>1, FS_RemoveElement
  <1>3. S \ ({l} \cup (S \ {l})) = {}
    OBVIOUS
  <1>4. Cardinality({}) = 0
    BY FS_EmptySet
  <1> QED
    BY <1>1, <1>2, <1>3, <1>4, SMT

\* Two moves in a row that add nothing to the history.
LEMMA ForwardTwice ==
    ASSUME NEW f \in [Replicas -> Replica], NEW g \in [Replicas -> Replica],
           NEW h \in [Replicas -> Replica], Forward(f, g), Forward(g, h)
    PROVE  Forward(f, h)
  <1>1. \A r \in Replicas :
           /\ f[r].currentTerm \in Nat /\ f[r].commitIndex \in Nat
           /\ g[r].currentTerm \in Nat /\ g[r].commitIndex \in Nat
           /\ h[r].currentTerm \in Nat /\ h[r].commitIndex \in Nat
    BY DEF Replica
  <1> QED
    BY <1>1, SMT DEF Forward

\* An operation that first makes sure of a leader (reaching mid) and then moves
\* on without changing the leader.
LEMMA ThenMoves ==
    ASSUME NEW reps \in [Replicas -> Replica], NEW l, NEW A,
           NEW mid, NEW m \in Replicas \cup {NoReplica},
           Consistent(mid, A), Forward(reps, mid),
           m \notin {NoReplica, l} =>
              \A r \in Replicas : reps[r].currentTerm < mid[m].currentTerm,
           NEW next, NEW B, B = A \/ \E e \in Entry : B = Append(A, e),
           Consistent(next, B), Leads(next, m, B), Forward(mid, next)
    PROVE  Moves(reps, l, A, next, m, B)
  <1>1. mid \in [Replicas -> Replica] /\ next \in [Replicas -> Replica]
    BY DEF Consistent
  <1>2. Forward(reps, next)
    BY ONLY <1>1, reps \in [Replicas -> Replica], Forward(reps, mid),
            Forward(mid, next), ForwardTwice
  <1>3. ASSUME m \notin {NoReplica, l}, NEW r \in Replicas
        PROVE  reps[r].currentTerm < next[m].currentTerm
    <2>1. /\ reps[r].currentTerm \in Nat /\ mid[m].currentTerm \in Nat
          /\ next[m].currentTerm \in Nat /\ m \in Replicas
      BY <1>1, <1>3 DEF Replica
    <2>2. reps[r].currentTerm < mid[m].currentTerm
      BY <1>3
    <2>3. mid[m].currentTerm <= next[m].currentTerm
      BY <2>1 DEF Forward
    <2> QED BY ONLY <2>1, <2>2, <2>3
  <1> QED
    BY <1>2, <1>3 DEF Moves

\* What EnsureLeader finds or makes of a shard that satisfies the invariant.
LEMMA EnsureHere ==
    ASSUME IInv, NEW sh, sh = EnsureLeader(Sh)
    PROVE  /\ Consistent(sh.replicas, acked)
           /\ Leads(sh.replicas, sh.leader, acked)
           /\ Forward(replicas, sh.replicas)
           /\ Online(sh.replicas) = Online(replicas)
           /\ HasLeader(sh) <=> sh.leader # NoReplica
           /\ CanAppend(sh) <=> HasLeader(sh)
           /\ ~HasLeader(sh) => ~(2 * Cardinality(Online(replicas)) > N)
           /\ sh.leader \in Replicas \cup {NoReplica}
           /\ sh.leader \notin {NoReplica, leaderId} =>
                 \A r \in Replicas :
                    replicas[r].currentTerm < sh.replicas[sh.leader].currentTerm
           /\ Elections(sh) \in Nat
  <1>1. sh = EnsureLeader([replicas |-> replicas, leader |-> leaderId])
    BY DEF Sh
  <1>2. /\ Consistent(replicas, acked) /\ Leads(replicas, leaderId, acked)
        /\ replicas \in [Replicas -> Replica]
    BY DEF IInv, Consistent
  <1>3. /\ Consistent(sh.replicas, acked)
        /\ Leads(sh.replicas, sh.leader, acked)
        /\ SameOnline(replicas, sh.replicas)
        /\ Forward(replicas, sh.replicas)
        /\ HasLeader(sh) <=> sh.leader # NoReplica
        /\ ~HasLeader(sh) => ~(2 * Cardinality(Online(replicas)) > N)
        /\ sh.leader \notin {NoReplica, leaderId} =>
              \A r \in Replicas :
                 replicas[r].currentTerm < sh.replicas[sh.leader].currentTerm
    BY ONLY <1>1, <1>2, EnsureStep
  <1>4. Online(sh.replicas) = Online(replicas)
    BY <1>2, <1>3, SameOnlineSet
  <1>5. sh.leader \in Replicas \cup {NoReplica}
    BY <1>3 DEF Leads, LeadsExcept
  <1>6. CanAppend(sh) <=> HasLeader(sh)
    <2>1. HasLeader(sh) => sh.leader \in Replicas
      BY <1>3, <1>5
    <2>2. \A r \in Replicas : sh.replicas[r].role = "Leader" <=> r = sh.leader
      BY <1>3 DEF Leads, LeadsExcept
    <2> QED BY ONLY <2>1, <2>2 DEF CanAppend
  <1>7. Elections(sh) \in Nat
    BY DEF Elections
  <1> QED
    BY ONLY <1>3, <1>4, <1>5, <1>6, <1>7

\* A write that is turned away before anything is appended.
LEMMA RefusedWrite ==
    ASSUME IInv, NEW command \in Commands, NEW key \in Keys,
           NEW value \in Values \cup {NoValue},
           NEW sh, sh = EnsureLeader(Sh), ~CanAppend(sh), Become(sh),
           metrics' = [metrics EXCEPT !.elections = @ + Elections(sh)],
           reply' = Service!Reply(command, key, value,
                                  IF HasLeader(sh) THEN 400 ELSE 503),
           acked' = acked
    PROVE  /\ Moves(replicas, leaderId, acked, replicas', leaderId', acked')
           /\ metrics' \in Metric /\ reply' \in ReplyType
           /\ AvailableWithMajority'
  <1>1. /\ Consistent(sh.replicas, acked)
        /\ Leads(sh.replicas, sh.leader, acked)
        /\ Forward(replicas, sh.replicas)
        /\ Online(sh.replicas) = Online(replicas)
        /\ ~HasLeader(sh) /\ ~(2 * Cardinality(Online(replicas)) > N)
        /\ sh.leader \notin {NoReplica, leaderId} =>
              \A r \in Replicas :
                 replicas[r].currentTerm < sh.replicas[sh.leader].currentTerm
        /\ Elections(sh) \in Nat
    BY EnsureHere
  <1>2. replicas' = sh.replicas /\ leaderId' = sh.leader
    BY DEF Become
  <1>3. Moves(replicas, leaderId, acked, replicas', leaderId', acked')
    BY <1>1, <1>2 DEF Moves
  <1>4. metrics \in Metric /\ metrics.replicationFailures = 0
    BY DEF IInv, AvailableWithMajority
  <1>5. metrics' \in Metric /\ metrics'.replicationFailures = 0
    BY <1>1, <1>4, SMT DEF Metric
  <1>6. /\ reply' = [op |-> command, key |-> key, value |-> value, status |-> 503]
        /\ reply' \in ReplyType
    BY <1>1, SMT DEF Service!Reply, ReplyType, Ops, Commands
  <1>7. AvailableWithMajority'
    BY <1>1, <1>2, <1>5, <1>6, SMTT(20) DEF AvailableWithMajority
  <1> QED
    BY <1>3, <1>5, <1>6, <1>7

\* What becomes of a write that the leader appended.
Outcome(reps, l, leader, index, acks) ==
    \/ /\ Cardinality(acks) + 1 < Quorum
       /\ replicas' = RolledBack(reps, l, leader, index, acks)
       /\ acked' = acked
    \/ /\ Cardinality(acks) + 1 >= Quorum
       /\ replicas' = Committed(reps, l, leader, index, acks)
       /\ acked' = Append(acked, leader.log[index])

\* What has happened by the end of that write, whose entry is e.
Settles(reps, l, leader, index, acks, e) ==
    /\ Moves(replicas, leaderId, acked, replicas', leaderId', acked')
    /\ Online(replicas') = Online(replicas)
    /\ Cardinality(Online(reps) \ ({l} \cup acks)) = 0
    /\ Cardinality(acks) + 1 >= Quorum <=>
          2 * Cardinality(Online(replicas)) > N
    /\ leader.log[index] = e

\* A write that was appended: acknowledged by a majority or rolled back.
LEMMA AppendedWrite ==
    ASSUME IInv, NEW command \in Commands, NEW key \in Keys,
           NEW value \in Values \cup {NoValue},
           NEW sh, sh = EnsureLeader(Sh), CanAppend(sh),
           NEW l, l = sh.leader, NEW reps, reps = sh.replicas,
           NEW index, index = last_log_index(reps[l].log) + 1,
           NEW leader, leader = append_local(reps[l], command, key, value),
           NEW acks, acks = Acknowledging(reps, l, leader, index),
           leaderId' = l, Outcome(reps, l, leader, index, acks),
           NEW e, e = NewEntry(reps[l], command, key, value)
    PROVE  Settles(reps, l, leader, index, acks, e)
  <1> DEFINE B == Append(acked, e)
             n == Len(acked)
  <1>1. /\ Consistent(reps, acked)
        /\ Leads(reps, l, acked)
        /\ Forward(replicas, reps)
        /\ Online(reps) = Online(replicas)
        /\ l \in Replicas
        /\ l \notin {NoReplica, leaderId} =>
              \A r \in Replicas : replicas[r].currentTerm < reps[l].currentTerm
    <2>1. sh = EnsureLeader(Sh) /\ l = sh.leader /\ reps = sh.replicas /\ CanAppend(sh)
          /\ IInv
      BY SMTT(20)
    <2> QED BY ONLY <2>1, EnsureHere
  <1>2. replicas \in [Replicas -> Replica] /\ reps \in [Replicas -> Replica]
    BY <1>1, SMTT(20) DEF IInv, Consistent
  <1>3. l # NoReplica /\ reps[l].online /\ reps[l].commitIndex = n
    BY <1>1, NoReplicaAssumption, SMTT(20) DEF Leads, LeadsExcept
  <1>4. l \in Online(reps) /\ Online(reps) \in SUBSET Replicas
    BY <1>1, <1>3 DEF Online
  <1>5. Turns(reps, l, leader, B, e, n)
    <2>1. /\ e = NewEntry(reps[l], command, key, value)
          /\ B = Append(acked, e) /\ n = Len(acked)
          /\ leader = append_local(reps[l], command, key, value)
      OBVIOUS
    <2> HIDE DEF B, n
    <2> QED BY ONLY <1>1, <2>1, SentStep, ZenonT(30)
  <1> HIDE DEF B, n
  <1>6. /\ index = n + 1 /\ leader.log[index] = e /\ e \in Entry
        /\ acks = Online(reps) \ {l}
    <2>1. /\ last_log_index(reps[l].log) = n /\ leader.log[n + 1] = e /\ e \in Entry
          /\ Acknowledging(reps, l, leader, n + 1) = Online(reps) \ {l}
      BY <1>5 DEF Turns
    <2> QED BY <2>1, SMTT(20)
  <1>7. /\ Cardinality(acks) + 1 = Cardinality(Online(reps))
        /\ Cardinality(Online(reps) \ ({l} \cup acks)) = 0
        /\ Cardinality(Online(reps)) \in Nat
    BY ONLY <1>4, <1>6, CountAcks, ZenonT(30)
  <1>8. Cardinality(acks) + 1 >= Quorum <=> 2 * Cardinality(Online(reps)) > N
    BY ONLY <1>7, QuorumFacts
  <1>9. \/ acked' = acked
        \/ \E x \in Entry : acked' = Append(acked, x)
    BY <1>6, ZenonT(30) DEF Outcome
  <1>10. /\ Consistent(replicas', acked')
         /\ Leads(replicas', l, acked')
         /\ SameOnline(reps, replicas')
         /\ Forward(reps, replicas')
    <2>1. CASE Cardinality(acks) + 1 < Quorum
      <3>1. replicas' = RolledBack(reps, l, leader, index, acks) /\ acked' = acked
        <4>1. ~(Cardinality(acks) + 1 >= Quorum)
          BY ONLY <1>7, <2>1, QuorumFacts
        <4> QED BY <4>1 DEF Outcome
      <3>2. /\ leader = append_local(reps[l], command, key, value)
            /\ index = last_log_index(reps[l].log) + 1
            /\ acks = Acknowledging(reps, l, leader, index)
        OBVIOUS
      <3> QED BY ONLY <1>1, <3>1, <3>2, RolledStep
    <2>2. CASE Cardinality(acks) + 1 >= Quorum
      <3>1. /\ replicas' = Committed(reps, l, leader, n + 1, Online(reps) \ {l})
            /\ acked' = B
        <4>1. ~(Cardinality(acks) + 1 < Quorum)
          BY ONLY <1>7, <2>2, QuorumFacts
        <4>2. /\ replicas' = Committed(reps, l, leader, index, acks)
              /\ acked' = Append(acked, leader.log[index])
          BY <4>1 DEF Outcome
        <4> QED BY ONLY <1>6, <4>2 DEF B
      <3>2. /\ e = NewEntry(reps[l], command, key, value)
            /\ B = Append(acked, e) /\ n = Len(acked)
            /\ leader = append_local(reps[l], command, key, value)
        BY DEF B, n
      <3>3. 2 * Cardinality(Online(reps)) > N
        BY <1>8, <2>2
      <3> DEFINE next == replicas'
      <3>4. next = Committed(reps, l, leader, n + 1, Online(reps) \ {l})
        BY <3>1
      <3> HIDE DEF next
      <3>5. /\ Consistent(next, B) /\ Leads(next, l, B)
            /\ SameOnline(reps, next) /\ Forward(reps, next)
        BY ONLY <1>1, <1>5, <3>2, <3>3, <3>4, CommittedStep, ZenonT(30)
      <3> QED BY ONLY <3>1, <3>5 DEF next
    <2> QED BY <1>7, <2>1, <2>2, QuorumFacts, SMT
  <1>11. Moves(replicas, leaderId, acked, replicas', leaderId', acked')
    <2>1. l \in Replicas \cup {NoReplica} /\ leaderId' = l
      BY <1>1, SMTT(20)
    <2> QED BY ONLY <1>1, <1>2, <1>9, <1>10, <2>1, ThenMoves, SMTT(20)
  <1>12. Online(replicas') = Online(reps)
    BY <1>2, <1>10, SameOnlineSet
  <1> QED
    BY ONLY <1>1, <1>6, <1>7, <1>8, <1>11, <1>12, Zenon DEF Settles

\* put and erase.
LEMMA WriteMoves ==
    ASSUME IInv, NEW command \in Commands, NEW key \in Keys,
           NEW value \in Values \cup {NoValue}, Write(command, key, value)
    PROVE  /\ Moves(replicas, leaderId, acked, replicas', leaderId', acked')
           /\ metrics' \in Metric /\ reply' \in ReplyType
           /\ AvailableWithMajority'
  <1> DEFINE sh == EnsureLeader(Sh)
             l == sh.leader
             reps == sh.replicas
             index == last_log_index(reps[l].log) + 1
             leader == append_local(reps[l], command, key, value)
             acks == Acknowledging(reps, l, leader, index)
             refused == Cardinality(Online(reps) \ ({l} \cup acks))
             counted == [elections |-> metrics.elections + Elections(sh),
                         replicationFailures |-> metrics.replicationFailures + refused]
             answer(status) == Service!Reply(command, key, value, status)
             success == IF command = "DELETE" THEN 200 ELSE 201
  <1>1. \/ /\ ~CanAppend(sh) /\ Become(sh)
           /\ metrics' = [metrics EXCEPT !.elections = @ + Elections(sh)]
           /\ reply' = answer(IF HasLeader(sh) THEN 400 ELSE 503)
           /\ acked' = acked
        \/ /\ CanAppend(sh) /\ leaderId' = l /\ metrics' = counted
           /\ \/ /\ Cardinality(acks) + 1 < Quorum
                 /\ replicas' = RolledBack(reps, l, leader, index, acks)
                 /\ acked' = acked /\ reply' = answer(503)
              \/ /\ Cardinality(acks) + 1 >= Quorum
                 /\ replicas' = Committed(reps, l, leader, index, acks)
                 /\ acked' = Append(acked, leader.log[index])
                 /\ reply' = answer(success)
    BY ZenonT(30) DEF Write
  <1> HIDE DEF index, leader, acks, refused, counted, answer, success
  <1>2. CASE ~CanAppend(sh)
    <2>1. /\ sh = EnsureLeader(Sh) /\ ~CanAppend(sh) /\ Become(sh)
          /\ metrics' = [metrics EXCEPT !.elections = @ + Elections(sh)]
          /\ reply' = Service!Reply(command, key, value,
                                    IF HasLeader(sh) THEN 400 ELSE 503)
          /\ acked' = acked
      BY <1>1, <1>2 DEF answer
    <2> HIDE DEF sh
    <2> QED BY <2>1, RefusedWrite, SMT
  <1>3. CASE CanAppend(sh)
    <2>1. /\ leaderId' = l /\ metrics' = counted
          /\ \/ /\ Cardinality(acks) + 1 < Quorum
                /\ replicas' = RolledBack(reps, l, leader, index, acks)
                /\ acked' = acked /\ reply' = answer(503)
             \/ /\ Cardinality(acks) + 1 >= Quorum
                /\ replicas' = Committed(reps, l, leader, index, acks)
                /\ acked' = Append(acked, leader.log[index])
                /\ reply' = answer(success)
      BY <1>1, <1>3
    <2>2. /\ sh = EnsureLeader(Sh) /\ l = sh.leader /\ reps = sh.replicas
          /\ index = last_log_index(reps[l].log) + 1
          /\ leader = append_local(reps[l], command, key, value)
          /\ acks = Acknowledging(reps, l, leader, index)
          /\ refused = Cardinality(Online(reps) \ ({l} \cup acks))
          /\ IInv
      BY SMTT(20) DEF index, leader, acks, refused
    <2> HIDE DEF sh, l, reps
    <2>3. /\ Moves(replicas, leaderId, acked, replicas', leaderId', acked')
          /\ Online(replicas') = Online(replicas)
          /\ refused = 0
          /\ Cardinality(acks) + 1 >= Quorum <=>
                2 * Cardinality(Online(replicas)) > N
      <3>1. Outcome(reps, l, leader, index, acks) /\ leaderId' = l
        BY <2>1 DEF Outcome
      <3> DEFINE e == NewEntry(reps[l], command, key, value)
      <3>2. e = NewEntry(reps[l], command, key, value)
        BY SMTT(20)
      <3> HIDE DEF e
      <3>3. Settles(reps, l, leader, index, acks, e)
        BY ONLY <1>3, <2>2, <3>1, <3>2, AppendedWrite
      <3> QED BY ONLY <2>2, <3>3, Zenon DEF Settles
    <2>4. /\ metrics \in Metric /\ metrics.elections \in Nat
          /\ metrics.replicationFailures = 0
      BY DEF IInv, AvailableWithMajority, Metric
    <2>5. Elections(sh) \in Nat
      BY DEF Elections
    <2>6. /\ metrics' \in Metric /\ metrics'.replicationFailures = 0
      <3>1. /\ metrics.elections + Elections(sh) \in Nat
            /\ metrics.replicationFailures + refused = 0
        BY ONLY <2>3, <2>4, <2>5
      <3> QED BY <2>1, <3>1, SMT DEF Metric, counted
    <2>7. \E status \in {200, 201, 503} :
             /\ reply' = [op |-> command, key |-> key, value |-> value,
                          status |-> status]
             /\ status = 503 <=> ~(2 * Cardinality(Online(replicas)) > N)
      <3>1. CASE Cardinality(acks) + 1 < Quorum /\ reply' = answer(503)
        <4>1. ~(Cardinality(acks) + 1 >= Quorum)
          <5>1. acks \in SUBSET Replicas
            BY <2>2 DEF Acknowledging, Online
          <5>2. Cardinality(acks) \in Nat
            BY ONLY <5>1, ReplicasFinite
          <5> QED BY ONLY <3>1, <5>2, QuorumFacts, SMTT(20)
        <4> QED BY <2>3, <3>1, <4>1, ZenonT(40) DEF answer, Service!Reply
      <3>2. CASE Cardinality(acks) + 1 >= Quorum /\ reply' = answer(success)
        <4>1. success \in {200, 201} /\ success # 503
          BY SMT DEF success
        <4> QED BY <2>3, <3>2, <4>1, SMT DEF answer, Service!Reply
      <3> QED BY <2>1, <3>1, <3>2
    <2>8. PICK status \in {200, 201, 503} :
             /\ reply' = [op |-> command, key |-> key, value |-> value,
                          status |-> status]
             /\ status = 503 <=> ~(2 * Cardinality(Online(replicas)) > N)
      BY ONLY <2>7
    <2>9. reply' \in ReplyType
      BY ONLY <2>8, command \in Commands DEF ReplyType, Ops, Commands
    <2>10. AvailableWithMajority'
      BY ONLY <2>3, <2>6, <2>8 DEF AvailableWithMajority
    <2> QED BY <2>3, <2>6, <2>9, <2>10
  <1> QED
    BY <1>2, <1>3

\* What a write answers, and what it adds to the history.
LEMMA WriteAnswers ==
    ASSUME IInv, NEW command \in Commands, NEW key \in Keys,
           NEW value \in Values \cup {NoValue}, Write(command, key, value)
    PROVE  \/ /\ acked' = acked
              /\ reply' = Service!Reply(command, key, value, 503)
           \/ /\ \E e \in Entry : /\ acked' = Append(acked, e)
                                  /\ e.command = command
                                  /\ e.key = key /\ e.value = value
              /\ reply' = Service!Reply(command, key, value,
                                        IF command = "DELETE" THEN 200 ELSE 201)
  <1> DEFINE sh == EnsureLeader(Sh)
             l == sh.leader
             reps == sh.replicas
             index == last_log_index(reps[l].log) + 1
             leader == append_local(reps[l], command, key, value)
             acks == Acknowledging(reps, l, leader, index)
             answer(status) == Service!Reply(command, key, value, status)
             success == IF command = "DELETE" THEN 200 ELSE 201
  <1>1. \/ /\ ~CanAppend(sh) /\ acked' = acked
           /\ reply' = answer(IF HasLeader(sh) THEN 400 ELSE 503)
        \/ /\ CanAppend(sh) /\ leaderId' = l
           /\ \/ /\ Cardinality(acks) + 1 < Quorum
                 /\ replicas' = RolledBack(reps, l, leader, index, acks)
                 /\ acked' = acked /\ reply' = answer(503)
              \/ /\ Cardinality(acks) + 1 >= Quorum
                 /\ replicas' = Committed(reps, l, leader, index, acks)
                 /\ acked' = Append(acked, leader.log[index])
                 /\ reply' = answer(success)
    BY ZenonT(30) DEF Write
  <1>2. /\ sh = EnsureLeader(Sh) /\ l = sh.leader /\ reps = sh.replicas
        /\ index = last_log_index(reps[l].log) + 1
        /\ leader = append_local(reps[l], command, key, value)
        /\ acks = Acknowledging(reps, l, leader, index)
        /\ IInv
    OBVIOUS
  <1> HIDE DEF sh, l, reps, index, leader, acks, answer, success
  <1>3. CASE ~CanAppend(sh)
    <2>1. ~HasLeader(sh)
      BY ONLY <1>2, <1>3, EnsureHere
    <2> QED BY <1>1, <1>3, <2>1 DEF answer
  <1>4. CASE CanAppend(sh) /\ acked' = acked /\ reply' = answer(503)
    BY <1>4 DEF answer
  <1>5. CASE /\ CanAppend(sh) /\ leaderId' = l
             /\ Cardinality(acks) + 1 >= Quorum
             /\ replicas' = Committed(reps, l, leader, index, acks)
             /\ acked' = Append(acked, leader.log[index])
             /\ reply' = answer(success)
    <2>1. Outcome(reps, l, leader, index, acks) /\ CanAppend(sh) /\ leaderId' = l
      BY <1>5, ZenonT(30) DEF Outcome
    <2> DEFINE e == NewEntry(reps[l], command, key, value)
    <2>2. leader.log[index] = e
      <3>1. e = NewEntry(reps[l], command, key, value)
        OBVIOUS
      <3> HIDE DEF e
      <3>2. Settles(reps, l, leader, index, acks, e)
        BY ONLY <1>2, <2>1, <3>1, AppendedWrite
      <3> QED BY ONLY <3>2, SMTT(20) DEF Settles
    <2>3. reps[l].currentTerm \in Nat
      <3>1. l \in Replicas /\ Consistent(reps, acked)
        BY ONLY <1>2, <1>5, EnsureHere, ZenonT(30)
      <3> QED BY <3>1, SMTT(20) DEF Consistent, Replica
    <2>4. /\ e \in Entry /\ e.command = command /\ e.key = key /\ e.value = value
      BY <2>3 DEF NewEntry, Entry
    <2> HIDE DEF e
    <2>5. acked' = Append(acked, e)
      BY <1>5, <2>2 DEF e
    <2> QED BY <1>5, <2>4, <2>5, SMT DEF answer, success
  <1> QED
    BY <1>1, <1>3, <1>4, <1>5
-----------------------------------------------------------------------------
(* The operations.                                                         *)

\* get and elect_leader: nothing but EnsureLeader changes the shard.
LEMMA EnsuredMoves ==
    ASSUME IInv, NEW sh, sh = EnsureLeader(Sh), Become(sh),
           metrics' = [metrics EXCEPT !.elections = @ + Elections(sh)],
           acked' = acked
    PROVE  /\ Moves(replicas, leaderId, acked, replicas', leaderId', acked')
           /\ Online(replicas') = Online(replicas)
           /\ ~HasLeader(sh) => ~(2 * Cardinality(Online(replicas)) > N)
           /\ metrics' \in Metric /\ metrics'.replicationFailures = 0
  <1>1. /\ Consistent(sh.replicas, acked)
        /\ Leads(sh.replicas, sh.leader, acked)
        /\ Forward(replicas, sh.replicas)
        /\ Online(sh.replicas) = Online(replicas)
        /\ ~HasLeader(sh) => ~(2 * Cardinality(Online(replicas)) > N)
        /\ sh.leader \notin {NoReplica, leaderId} =>
              \A r \in Replicas :
                 replicas[r].currentTerm < sh.replicas[sh.leader].currentTerm
        /\ Elections(sh) \in Nat
    BY EnsureHere
  <1>2. replicas' = sh.replicas /\ leaderId' = sh.leader
    BY DEF Become
  <1>3. Moves(replicas, leaderId, acked, replicas', leaderId', acked')
    BY <1>1, <1>2 DEF Moves
  <1>4. metrics \in Metric /\ metrics.replicationFailures = 0
    BY DEF IInv, AvailableWithMajority
  <1>5. metrics' \in Metric /\ metrics'.replicationFailures = 0
    BY <1>1, <1>4, SMT DEF Metric
  <1> QED
    BY <1>1, <1>2, <1>3, <1>5

\* get.
LEMMA GetMoves ==
    ASSUME IInv, NEW key \in Keys, get(key)
    PROVE  /\ Moves(replicas, leaderId, acked, replicas', leaderId', acked')
           /\ metrics' \in Metric /\ reply' \in ReplyType
           /\ AvailableWithMajority'
  <1> DEFINE sh == EnsureLeader(Sh)
             value == sh.replicas[sh.leader].kv[key]
             status == IF ~HasLeader(sh) THEN 503
                       ELSE IF value = NoValue THEN 404 ELSE 200
  <1>1. /\ sh = EnsureLeader(Sh) /\ Become(sh) /\ acked' = acked
        /\ metrics' = [metrics EXCEPT !.elections = @ + Elections(sh)]
        /\ reply' = [op |-> "GET", key |-> key,
                     value |-> IF HasLeader(sh) THEN value ELSE NoValue,
                     status |-> status]
    BY ZenonT(40) DEF get, Service!Reply
  <1> HIDE DEF sh
  <1>2. /\ Moves(replicas, leaderId, acked, replicas', leaderId', acked')
        /\ Online(replicas') = Online(replicas)
        /\ ~HasLeader(sh) => ~(2 * Cardinality(Online(replicas)) > N)
        /\ metrics' \in Metric /\ metrics'.replicationFailures = 0
    BY <1>1, EnsuredMoves
  <1>3. HasLeader(sh) => value \in Values \cup {NoValue}
    <2>1. /\ Consistent(sh.replicas, acked)
          /\ HasLeader(sh) => sh.leader \in Replicas
      BY <1>1, EnsureHere
    <2>2. HasLeader(sh) => sh.replicas[sh.leader] \in Replica
      BY <2>1 DEF Consistent
    <2>3. HasLeader(sh) => sh.replicas[sh.leader].kv \in KVTable
      BY <2>2 DEF Replica
    <2> QED BY <2>3 DEF KVTable
  <1>4. status \in {200, 404, 503} /\ (status = 503 <=> ~HasLeader(sh))
    BY SMT
  <1> HIDE DEF value, status
  <1>5. reply' \in ReplyType
    <2> DEFINE v == IF HasLeader(sh) THEN value ELSE NoValue
    <2>1. v \in Values \cup {NoValue} /\ status \in Nat
      BY <1>3, <1>4, SMT
    <2>2. reply' = [op |-> "GET", key |-> key, value |-> v, status |-> status]
      BY <1>1
    <2> HIDE DEF v
    <2> QED BY ONLY <2>1, <2>2, key \in Keys DEF ReplyType, Ops
  <1>6. reply'.op = "GET" /\ reply'.status = status
    BY <1>1
  <1>7. AvailableWithMajority'
    BY ONLY <1>2, <1>4, <1>6 DEF AvailableWithMajority
  <1> QED
    BY <1>2, <1>5, <1>7

\* elect_leader.
LEMMA ElectMoves ==
    ASSUME IInv, elect_leader
    PROVE  /\ Moves(replicas, leaderId, acked, replicas', leaderId', acked')
           /\ metrics' \in Metric /\ reply' \in ReplyType
           /\ AvailableWithMajority'
  <1> DEFINE sh == EnsureLeader(Sh)
             status == IF HasLeader(sh) THEN 200 ELSE 503
  <1>1. /\ sh = EnsureLeader(Sh) /\ Become(sh) /\ acked' = acked
        /\ metrics' = [metrics EXCEPT !.elections = @ + Elections(sh)]
        /\ reply' = [op |-> "ELECT", key |-> NoValue, value |-> NoValue,
                     status |-> status]
    BY DEF elect_leader, Service!Reply
  <1> HIDE DEF sh
  <1>2. /\ Moves(replicas, leaderId, acked, replicas', leaderId', acked')
        /\ Online(replicas') = Online(replicas)
        /\ ~HasLeader(sh) => ~(2 * Cardinality(Online(replicas)) > N)
        /\ metrics' \in Metric /\ metrics'.replicationFailures = 0
    BY <1>1, EnsuredMoves
  <1>3. status \in {200, 503} /\ (status = 503 <=> ~HasLeader(sh))
    BY SMT
  <1> HIDE DEF status
  <1>4. /\ reply' \in ReplyType
        /\ reply'.op = "ELECT" /\ reply'.status = status
    BY <1>1, <1>3, SMT DEF ReplyType, Ops
  <1>5. AvailableWithMajority'
    BY ONLY <1>2, <1>3, <1>4 DEF AvailableWithMajority
  <1> QED
    BY <1>2, <1>4, <1>5

\* A replica goes offline or comes back.
Switched(reps, x, up) == [reps EXCEPT ![x] = set_online(@, up)]

\* What that changes: the flag and, on the way out, the role.
LEMMA SwitchStep ==
    ASSUME NEW reps, NEW A, Consistent(reps, A), NEW x \in Replicas,
           NEW up \in BOOLEAN,
           NEW next, next = Switched(reps, x, up)
    PROVE  /\ Consistent(next, A) /\ Forward(reps, next)
           /\ next[x].online = up
           /\ next[x].role = IF up THEN reps[x].role ELSE "Follower"
           /\ \A r \in Replicas :
                 /\ r # x => next[r] = reps[r]
                 /\ next[r].currentTerm = reps[r].currentTerm
                 /\ next[r].commitIndex = reps[r].commitIndex
  <1> DEFINE g == set_online(reps[x], up)
  <1>1. /\ A \in Seq(Entry) /\ reps \in [Replicas -> Replica] /\ reps[x] \in Replica
        /\ \A r \in Replicas : /\ reps[r].currentTerm \in Nat
                               /\ reps[r].commitIndex \in Nat
                               /\ reps[r].commitIndex <= Len(A)
                               /\ Settled(reps[r], A, reps[r].commitIndex)
                               /\ \A i \in 1 .. reps[r].commitIndex :
                                     A[i].term <= reps[r].currentTerm
    BY DEF Consistent, Replica
  <1> HIDE DEF g
  <1>2. /\ g \in Replica
        /\ g.online = up
        /\ g.role = IF up THEN reps[x].role ELSE "Follower"
        /\ g.currentTerm = reps[x].currentTerm /\ g.commitIndex = reps[x].commitIndex
        /\ g.lastApplied = reps[x].lastApplied /\ g.log = reps[x].log
        /\ g.kv = reps[x].kv
    <2>1. g = set_online(reps[x], up)
      BY DEF g
    <2> QED BY ONLY <1>1, <2>1, up \in BOOLEAN, OnlineStep
  <1>3. Settled(g, A, g.commitIndex)
    BY ONLY <1>1, <1>2, x \in Replicas DEF Settled
  <1>4. next = [reps EXCEPT ![x] = g]
    BY DEF g, Switched
  <1>5. /\ next \in [Replicas -> Replica] /\ next[x] = g
        /\ \A r \in Replicas : r # x => next[r] = reps[r]
    BY ONLY <1>1, <1>2, <1>4, x \in Replicas
  <1>6. \A r \in Replicas : /\ next[r].currentTerm = reps[r].currentTerm
                            /\ next[r].commitIndex = reps[r].commitIndex
                            /\ Settled(next[r], A, next[r].commitIndex)
    BY ONLY <1>1, <1>2, <1>3, <1>5
  <1>7. Consistent(next, A)
    <2>1. Consistent(reps, A)
      OBVIOUS
    <2>2. ASSUME NEW r \in Replicas
          PROVE  /\ reps[r].commitIndex <= next[r].commitIndex
                 /\ next[r].commitIndex <= Len(A)
                 /\ Settled(next[r], A, next[r].commitIndex)
                 /\ \A i \in 1 .. next[r].commitIndex :
                       A[i].term <= next[r].currentTerm
      BY ONLY <1>1, <1>6, r \in Replicas
    <2> QED BY ONLY <1>5, <2>1, <2>2, ConsistentStep
  <1>8. Forward(reps, next)
    BY ONLY <1>1, <1>6 DEF Forward
  <1> QED
    BY ONLY <1>2, <1>5, <1>6, <1>7, <1>8

\* fail_replica.
LEMMA FailMoves ==
    ASSUME IInv, NEW x \in Replicas, fail_replica(x)
    PROVE  /\ Moves(replicas, leaderId, acked, replicas', leaderId', acked')
           /\ metrics' \in Metric /\ reply' \in ReplyType
           /\ AvailableWithMajority'
  <1>1. /\ replicas' = [replicas EXCEPT ![x] = set_online(@, FALSE)]
        /\ leaderId' = IF leaderId = x THEN NoReplica ELSE leaderId
        /\ reply' = [op |-> "none", key |-> NoValue, value |-> NoValue, status |-> 0]
        /\ metrics' = metrics /\ acked' = acked
    BY DEF fail_replica, Service!NoReply
  <1>2. /\ Consistent(replicas, acked) /\ Leads(replicas, leaderId, acked)
        /\ metrics \in Metric /\ metrics.replicationFailures = 0
    BY DEF IInv, AvailableWithMajority
  <1>3. /\ Consistent(replicas', acked) /\ Forward(replicas, replicas')
        /\ replicas'[x].online = FALSE
        /\ replicas'[x].role = "Follower"
        /\ \A r \in Replicas :
              /\ r # x => replicas'[r] = replicas[r]
              /\ replicas'[r].currentTerm = replicas[r].currentTerm
              /\ replicas'[r].commitIndex = replicas[r].commitIndex
    <2> DEFINE next == replicas'
               up == FALSE
    <2>2. next = Switched(replicas, x, up) /\ up \in BOOLEAN
      BY <1>1 DEF Switched
    <2> HIDE DEF next, up
    <2>3. /\ Consistent(next, acked) /\ Forward(replicas, next)
          /\ next[x].online = up
          /\ next[x].role = IF up THEN replicas[x].role ELSE "Follower"
          /\ \A r \in Replicas :
                /\ r # x => next[r] = replicas[r]
                /\ next[r].currentTerm = replicas[r].currentTerm
                /\ next[r].commitIndex = replicas[r].commitIndex
      BY ONLY <1>2, <2>2, x \in Replicas, SwitchStep
    <2> QED BY <2>3 DEF next, up
  <1>4. Leads(replicas', leaderId', acked)
    <2>1. /\ leaderId \in Replicas \cup {NoReplica}
          /\ \A r \in Replicas : replicas[r].role = "Leader" <=> r = leaderId
          /\ leaderId # NoReplica =>
                /\ replicas[leaderId].online
                /\ replicas[leaderId].commitIndex = Len(acked)
                /\ \A r \in Replicas :
                      /\ replicas[r].currentTerm <= replicas[leaderId].currentTerm
                      /\ replicas[r].online => replicas[r].commitIndex = Len(acked)
      BY <1>2, NoReplicaAssumption DEF Leads, LeadsExcept
    <2>2. CASE leaderId = x
      <3>1. leaderId' = NoReplica
        BY <1>1, <2>2
      <3>2. \A r \in Replicas : replicas'[r].role # "Leader" /\ r # NoReplica
        BY ONLY <1>3, <2>1, <2>2, NoReplicaAssumption
      <3> QED BY ONLY <3>1, <3>2 DEF Leads, LeadsExcept
    <2>3. CASE leaderId # x
      <3>1. leaderId' = leaderId
        BY <1>1, <2>3
      <3>2. \A r \in Replicas : replicas'[r].role = "Leader" <=> r = leaderId
        BY ONLY <1>3, <2>1, <2>3
      <3>3. leaderId # NoReplica =>
                /\ replicas'[leaderId].online
                /\ replicas'[leaderId].commitIndex = Len(acked)
                /\ \A r \in Replicas :
                      /\ replicas'[r].currentTerm <= replicas'[leaderId].currentTerm
                      /\ replicas'[r].online => replicas'[r].commitIndex = Len(acked)
        BY ONLY <1>3, <2>1, <2>3
      <3> QED BY ONLY <2>1, <3>1, <3>2, <3>3 DEF Leads, LeadsExcept
    <2> QED BY <2>2, <2>3
  <1>5. leaderId' \in {NoReplica, leaderId}
    BY <1>1
  <1>6. Moves(replicas, leaderId, acked, replicas', leaderId', acked')
    BY ONLY <1>1, <1>3, <1>4, <1>5 DEF Moves
  <1>7. reply' \in ReplyType /\ AvailableWithMajority'
    BY ONLY <1>1, <1>2 DEF ReplyType, Ops, AvailableWithMajority
  <1> QED
    BY <1>1, <1>2, <1>6, <1>7

\* recover_replica.
LEMMA RecoverMoves ==
    ASSUME IInv, NEW x \in Replicas, recover_replica(x)
    PROVE  /\ Moves(replicas, leaderId, acked, replicas', leaderId', acked')
           /\ metrics' \in Metric /\ reply' \in ReplyType
           /\ AvailableWithMajority'
  <1> DEFINE up == TRUE
             back == Switched(replicas, x, up)
             sh == EnsureLeader([replicas |-> back, leader |-> leaderId])
             mid == sh.replicas
             m == sh.leader
             next == replicas'
  <1>1. /\ next = IF HasLeader(sh) /\ m # x THEN Synced(mid, x, m) ELSE mid
        /\ leaderId' = m
        /\ metrics' = [metrics EXCEPT !.elections = @ + Elections(sh)]
        /\ reply' = [op |-> "none", key |-> NoValue, value |-> NoValue, status |-> 0]
        /\ acked' = acked
    BY DEF recover_replica, Service!NoReply, Switched, Synced
  <1>2. up \in BOOLEAN /\ up /\ back = Switched(replicas, x, up)
    OBVIOUS
  <1>3. sh = EnsureLeader([replicas |-> back, leader |-> leaderId])
    OBVIOUS
  <1> HIDE DEF up, back, sh, next
  <1>4. /\ Consistent(replicas, acked) /\ Leads(replicas, leaderId, acked)
        /\ metrics \in Metric /\ metrics.replicationFailures = 0
        /\ replicas \in [Replicas -> Replica]
    BY DEF IInv, AvailableWithMajority, Consistent
  <1>5. /\ Consistent(back, acked) /\ Forward(replicas, back)
        /\ back[x].online = up
        /\ back[x].role = IF up THEN replicas[x].role ELSE "Follower"
        /\ \A r \in Replicas :
              /\ r # x => back[r] = replicas[r]
              /\ back[r].currentTerm = replicas[r].currentTerm
              /\ back[r].commitIndex = replicas[r].commitIndex
    <2>1. up \in BOOLEAN /\ back = Switched(replicas, x, up)
      BY <1>2
    <2>2. Consistent(replicas, acked)
      BY <1>4
    <2> QED BY ONLY <2>1, <2>2, x \in Replicas, SwitchStep
  <1>6. /\ leaderId \in Replicas \cup {NoReplica}
        /\ \A r \in Replicas : replicas[r].role = "Leader" <=> r = leaderId
        /\ leaderId # NoReplica =>
              /\ replicas[leaderId].online
              /\ replicas[leaderId].commitIndex = Len(acked)
              /\ \A r \in Replicas :
                    /\ replicas[r].currentTerm <= replicas[leaderId].currentTerm
                    /\ replicas[r].online => replicas[r].commitIndex = Len(acked)
    BY <1>4, NoReplicaAssumption DEF Leads, LeadsExcept
  <1>7. LeadsExcept(back, leaderId, acked, x)
    <2>1. \A r \in Replicas : back[r].role = replicas[r].role
      BY ONLY <1>2, <1>5, Zenon
    <2>2. leaderId # NoReplica =>
              /\ back[leaderId].online
              /\ back[leaderId].commitIndex = Len(acked)
              /\ \A r \in Replicas :
                    /\ back[r].currentTerm <= back[leaderId].currentTerm
                    /\ back[r].online /\ r # x => back[r].commitIndex = Len(acked)
      BY ONLY <1>2, <1>5, <1>6, ZenonT(30)
    <2> QED BY ONLY <1>6, <2>1, <2>2 DEF LeadsExcept
  <1>8. /\ Consistent(mid, acked) /\ LeadsExcept(mid, m, acked, x)
        /\ Forward(back, mid) /\ mid[x].online
        /\ m = x => Leads(mid, m, acked)
        /\ ~HasLeader(sh) => Leads(mid, m, acked)
        /\ HasLeader(sh) => m # NoReplica
        /\ m \notin {NoReplica, leaderId} =>
              \A r \in Replicas : back[r].currentTerm < mid[m].currentTerm
    <2>1. CASE leaderId # NoReplica
      <3>1. HasLeader([replicas |-> back, leader |-> leaderId])
        BY <1>7, <2>1 DEF HasLeader, LeadsExcept
      <3>2. sh = [replicas |-> back, leader |-> leaderId]
        BY ONLY <1>3, <3>1 DEF EnsureLeader
      <3>3. mid = back /\ m = leaderId
        BY ONLY <3>2
      <3>4. HasLeader(sh)
        BY ONLY <3>1, <3>2
      <3>5. Forward(back, back)
        <4>1. back \in [Replicas -> Replica]
          BY <1>5 DEF Consistent
        <4>2. \A r \in Replicas : back[r].currentTerm \in Nat
                                  /\ back[r].commitIndex \in Nat
          BY ONLY <4>1 DEF Replica
        <4> QED BY ONLY <4>2 DEF Forward
      <3>6. leaderId = x => Leads(back, leaderId, acked)
        BY ONLY <1>7, <2>1 DEF Leads, LeadsExcept
      <3>7. back[x].online
        BY ONLY <1>2, <1>5, Zenon
      <3> QED BY ONLY <1>5, <1>7, <2>1, <3>3, <3>4, <3>5, <3>6, <3>7
    <2>2. CASE leaderId = NoReplica
      <3>1. Leads(back, leaderId, acked)
        BY ONLY <1>7, <2>2 DEF Leads, LeadsExcept
      <3>2. /\ Consistent(mid, acked)
            /\ Leads(mid, m, acked)
            /\ SameOnline(back, mid)
            /\ Forward(back, mid)
            /\ HasLeader(sh) <=> m # NoReplica
            /\ m \notin {NoReplica, leaderId} =>
                  \A r \in Replicas : back[r].currentTerm < mid[m].currentTerm
        BY ONLY <1>3, <1>5, <3>1, EnsureStep
      <3>3. mid[x].online
        BY ONLY <1>2, <1>5, <3>2, x \in Replicas, Zenon DEF SameOnline
      <3>4. LeadsExcept(mid, m, acked, x)
        BY ONLY <3>2, NoReplicaAssumption DEF Leads, LeadsExcept
      <3> QED BY ONLY <3>2, <3>3, <3>4
    <2> QED BY <2>1, <2>2
  <1>9. /\ Consistent(next, acked) /\ Leads(next, m, acked) /\ Forward(mid, next)
    <2>1. CASE HasLeader(sh) /\ m # x
      <3>1. next = Synced(mid, x, m)
        BY <1>1, <2>1
      <3>2. m \in Replicas
        BY ONLY <1>8, <2>1 DEF LeadsExcept
      <3> QED BY ONLY <1>8, <2>1, <3>1, <3>2, x \in Replicas, SyncInStep
    <2>2. CASE ~(HasLeader(sh) /\ m # x)
      <3>1. next = mid
        BY <1>1, <2>2
      <3>2. Forward(mid, mid)
        <4>1. mid \in [Replicas -> Replica]
          BY <1>8 DEF Consistent
        <4>2. \A r \in Replicas : mid[r].currentTerm \in Nat
                                  /\ mid[r].commitIndex \in Nat
          BY ONLY <4>1 DEF Replica
        <4> QED BY ONLY <4>2 DEF Forward
      <3> QED BY ONLY <1>8, <2>2, <3>1, <3>2
    <2> QED BY <2>1, <2>2
  <1>10. Moves(replicas, leaderId, acked, next, m, acked)
    <2>1. back \in [Replicas -> Replica] /\ mid \in [Replicas -> Replica]
      BY <1>5, <1>8 DEF Consistent
    <2>2. Forward(replicas, mid)
      BY ONLY <1>4, <1>5, <1>8, <2>1, ForwardTwice, SMTT(20)
    <2>3. m \in Replicas \cup {NoReplica}
      BY ONLY <1>8 DEF LeadsExcept
    <2>4. m \notin {NoReplica, leaderId} =>
             \A r \in Replicas : replicas[r].currentTerm < mid[m].currentTerm
      BY ONLY <1>5, <1>8
    <2> QED BY ONLY <1>4, <1>8, <1>9, <2>2, <2>3, <2>4, ThenMoves, SMTT(20)
  <1>11. metrics' \in Metric /\ metrics'.replicationFailures = 0
    <2>1. Elections(sh) \in Nat
      BY DEF Elections
    <2> QED BY <1>1, <1>4, <2>1, SMT DEF Metric
  <1>12. reply' \in ReplyType /\ AvailableWithMajority'
    BY ONLY <1>1, <1>11 DEF ReplyType, Ops, AvailableWithMajority
  <1> QED
    BY <1>1, <1>10, <1>11, <1>12 DEF next

\* The constructor of a shard always ends with a leader, in a new term.
LEMMA StartStep ==
    ASSUME NEW reps, NEW A, Consistent(reps, A), NEW sh, sh = Start(reps)
    PROVE  /\ Consistent(sh.replicas, A)
           /\ Leads(sh.replicas, sh.leader, A)
           /\ Forward(reps, sh.replicas)
           /\ \A r \in Replicas :
                 reps[r].currentTerm < sh.replicas[sh.leader].currentTerm
  <1> DEFINE opened == [r \in Replicas |-> load_state(reps[r])]
  <1>1. sh = EnsureLeader([replicas |-> opened, leader |-> NoReplica])
    BY DEF Start
  <1>2. /\ A \in Seq(Entry) /\ reps \in [Replicas -> Replica]
        /\ \A r \in Replicas : /\ reps[r].currentTerm \in Nat
                               /\ reps[r].commitIndex \in Nat
                               /\ reps[r].commitIndex <= Len(A)
                               /\ Settled(reps[r], A, reps[r].commitIndex)
                               /\ \A i \in 1 .. reps[r].commitIndex :
                                     A[i].term <= reps[r].currentTerm
    BY DEF Consistent, Replica
  <1>3. ASSUME NEW r \in Replicas
        PROVE  /\ Settled(opened[r], A, reps[r].commitIndex)
               /\ opened[r].online /\ opened[r].role = "Follower"
               /\ opened[r].currentTerm = reps[r].currentTerm
    <2> DEFINE f == reps[r]
               n == reps[r].commitIndex
               g == opened[r]
    <2>1. g = load_state(f) /\ n \in Nat /\ Settled(f, A, n)
      BY <1>2
    <2> HIDE DEF f, g, n
    <2>2. /\ Settled(g, A, n)
          /\ g.online /\ g.role = "Follower" /\ g.currentTerm = f.currentTerm
      BY ONLY <2>1, LoadStep
    <2> QED BY <2>2 DEF f, g, n
  <1>4. DOMAIN opened = Replicas /\ opened = [r \in Replicas |-> opened[r]]
    OBVIOUS
  <1> HIDE DEF opened
  <1>5. \A r \in Replicas : /\ opened[r] \in Replica
                            /\ opened[r].commitIndex = reps[r].commitIndex
    BY <1>3 DEF Settled
  <1>6. opened \in [Replicas -> Replica]
    BY ONLY <1>4, <1>5
  <1>7. Consistent(opened, A)
    <2>1. Consistent(reps, A)
      OBVIOUS
    <2>2. ASSUME NEW r \in Replicas
          PROVE  /\ reps[r].commitIndex <= opened[r].commitIndex
                 /\ opened[r].commitIndex <= Len(A)
                 /\ Settled(opened[r], A, opened[r].commitIndex)
                 /\ \A i \in 1 .. opened[r].commitIndex :
                       A[i].term <= opened[r].currentTerm
      BY ONLY <1>2, <1>3, <1>5, r \in Replicas
    <2> QED BY ONLY <1>6, <2>1, <2>2, ConsistentStep
  <1>8. Leads(opened, NoReplica, A)
    <2>1. \A r \in Replicas : opened[r].role # "Leader" /\ r # NoReplica
      BY ONLY <1>3, NoReplicaAssumption
    <2> QED BY ONLY <2>1 DEF Leads, LeadsExcept
  <1>9. 2 * Cardinality(Online(opened)) > N
    <2>1. Online(opened) = Replicas
      BY ONLY <1>3 DEF Online
    <2>2. N \in Nat /\ N > 0
      BY NAssumption, SMT
    <2> QED BY ONLY <2>1, <2>2, ReplicasFinite
  <1>10. /\ Consistent(sh.replicas, A)
         /\ Leads(sh.replicas, sh.leader, A)
         /\ Forward(opened, sh.replicas)
         /\ HasLeader(sh) <=> sh.leader # NoReplica
         /\ HasLeader(sh)
         /\ sh.leader \notin {NoReplica, NoReplica} =>
               \A r \in Replicas :
                  opened[r].currentTerm < sh.replicas[sh.leader].currentTerm
    BY ONLY <1>1, <1>7, <1>8, <1>9, EnsureStep, SMTT(20)
  <1>11. /\ Forward(reps, sh.replicas)
         /\ \A r \in Replicas :
               reps[r].currentTerm < sh.replicas[sh.leader].currentTerm
    BY ONLY <1>3, <1>5, <1>10 DEF Forward
  <1> QED
    BY ONLY <1>10, <1>11

\* A restart of the process.
LEMMA RestartMoves ==
    ASSUME IInv, Restart
    PROVE  /\ Moves(replicas, leaderId, acked, replicas', leaderId', acked')
           /\ metrics' \in Metric /\ reply' \in ReplyType
           /\ AvailableWithMajority'
  <1> DEFINE sh == Start(replicas)
  <1>1. /\ sh = Start(replicas)
        /\ replicas' = sh.replicas /\ leaderId' = sh.leader
        /\ metrics' = [elections |-> IF HasLeader(sh) THEN 1 ELSE 0,
                       replicationFailures |-> 0]
        /\ reply' = [op |-> "none", key |-> NoValue, value |-> NoValue, status |-> 0]
        /\ acked' = acked
    BY DEF Restart, Become, Service!NoReply
  <1> HIDE DEF sh
  <1>2. Consistent(replicas, acked)
    BY DEF IInv
  <1>3. /\ Consistent(sh.replicas, acked)
        /\ Leads(sh.replicas, sh.leader, acked)
        /\ Forward(replicas, sh.replicas)
        /\ \A r \in Replicas :
              replicas[r].currentTerm < sh.replicas[sh.leader].currentTerm
    BY ONLY <1>1, <1>2, StartStep
  <1>4. Moves(replicas, leaderId, acked, replicas', leaderId', acked')
    BY ONLY <1>1, <1>3 DEF Moves
  <1>5. metrics' \in Metric /\ metrics'.replicationFailures = 0
    BY ONLY <1>1 DEF Metric
  <1>6. reply' \in ReplyType /\ AvailableWithMajority'
    BY ONLY <1>1, <1>5 DEF ReplyType, Ops, AvailableWithMajority
  <1> QED
    BY <1>4, <1>5, <1>6

\* The databases of a shard that was never used are consistent.
LEMMA InitIInv ==
    ASSUME Init
    PROVE  IInv
  <1> DEFINE fresh == [r \in Replicas |-> FreshReplica]
             none == <<>>
             sh == Start(fresh)
  <1>1. /\ replicas = sh.replicas /\ leaderId = sh.leader
        /\ metrics = [elections |-> IF HasLeader(sh) THEN 1 ELSE 0,
                      replicationFailures |-> 0]
        /\ reply = [op |-> "none", key |-> NoValue, value |-> NoValue, status |-> 0]
        /\ acked = none
    BY DEF Init, Service!NoReply
  <1>2. Settled(FreshReplica, none, 0) /\ FreshReplica.currentTerm = 0
    <2>1. none \in Seq(Entry) /\ Len(none) = 0 /\ 1 .. 0 = {}
      BY SMT
    <2>2. FreshReplica \in Replica
      BY SMT DEF FreshReplica, Replica, Roles, LogTable, KVTable, EmptyLog, EmptyKV
    <2>3. Pref(none, 0) = EmptyLog
      BY SMT DEF Pref, EmptyLog
    <2>4. ApplyEntries(EmptyKV, none, 1 .. 0) = EmptyKV
      <3>1. \A k \in Keys : {i \in 1 .. 0 : none[i].key = k} = {}
        BY <2>1
      <3> QED BY <3>1 DEF ApplyEntries, EmptyKV
    <2>5. /\ FreshReplica.commitIndex = 0 /\ FreshReplica.lastApplied = 0
          /\ FreshReplica.log = EmptyLog /\ FreshReplica.kv = EmptyKV
          /\ FreshReplica.currentTerm = 0
      BY DEF FreshReplica
    <2> QED BY ONLY <2>2, <2>3, <2>4, <2>5 DEF Settled
  <1>3. /\ none \in Seq(Entry) /\ Len(none) = 0
        /\ fresh \in [Replicas -> Replica]
        /\ \A r \in Replicas : fresh[r] = FreshReplica
    BY <1>2, SMT DEF Settled
  <1>4. Consistent(fresh, none)
    <2> HIDE DEF fresh, none
    <2>1. \A r \in Replicas : fresh[r].commitIndex = 0
      BY ONLY <1>2, <1>3 DEF Settled
    <2>2. Level(fresh, none) = Replicas
      BY ONLY <1>3, <2>1 DEF Level
    <2>3. N \in Nat /\ N > 0
      BY NAssumption, SMT
    <2>4. 2 * Cardinality(Level(fresh, none)) > N
      BY ONLY <2>2, <2>3, ReplicasFinite
    <2>5. \A i : ~(i \in 1 .. 0)
      BY SMT
    <2>6. \A r \in Replicas : /\ fresh[r].commitIndex <= Len(none)
                              /\ Settled(fresh[r], none, fresh[r].commitIndex)
      BY ONLY <1>2, <1>3, <2>1
    <2> QED BY ONLY <1>3, <2>1, <2>4, <2>5, <2>6 DEF Consistent
  <1> HIDE DEF fresh, none
  <1>5. sh = Start(fresh)
    OBVIOUS
  <1> HIDE DEF sh
  <1>6. Consistent(sh.replicas, none) /\ Leads(sh.replicas, sh.leader, none)
    BY ONLY <1>4, <1>5, StartStep
  <1>7. metrics \in Metric /\ metrics.replicationFailures = 0
    BY ONLY <1>1 DEF Metric
  <1>8. reply \in ReplyType /\ AvailableWithMajority
    BY ONLY <1>1, <1>7 DEF ReplyType, Ops, AvailableWithMajority
  <1> QED
    BY ONLY <1>1, <1>6, <1>7, <1>8 DEF IInv

\* Every operation preserves the invariant and moves the shard forward.
LEMMA NextMoves ==
    ASSUME IInv, Next
    PROVE  /\ Moves(replicas, leaderId, acked, replicas', leaderId', acked')
           /\ metrics' \in Metric /\ reply' \in ReplyType
           /\ AvailableWithMajority'
  <1>1. ASSUME NEW k \in Keys, NEW v \in Values, put(k, v)
        PROVE  /\ Moves(replicas, leaderId, acked, replicas', leaderId', acked')
               /\ metrics' \in Metric /\ reply' \in ReplyType
               /\ AvailableWithMajority'
    <2>1. "PUT" \in Commands /\ v \in Values \cup {NoValue} /\ Write("PUT", k, v)
      BY <1>1 DEF Commands, put
    <2> QED BY ONLY <2>1, IInv, k \in Keys, WriteMoves
  <1>2. ASSUME NEW k \in Keys, erase(k)
        PROVE  /\ Moves(replicas, leaderId, acked, replicas', leaderId', acked')
               /\ metrics' \in Metric /\ reply' \in ReplyType
               /\ AvailableWithMajority'
    <2>1. /\ "DELETE" \in Commands /\ NoValue \in Values \cup {NoValue}
          /\ Write("DELETE", k, NoValue)
      BY <1>2 DEF Commands, erase
    <2> QED BY ONLY <2>1, IInv, k \in Keys, WriteMoves
  <1>3. ASSUME NEW k \in Keys, get(k)
        PROVE  /\ Moves(replicas, leaderId, acked, replicas', leaderId', acked')
               /\ metrics' \in Metric /\ reply' \in ReplyType
               /\ AvailableWithMajority'
    BY <1>3, GetMoves
  <1>4. ASSUME NEW r \in Replicas, fail_replica(r)
        PROVE  /\ Moves(replicas, leaderId, acked, replicas', leaderId', acked')
               /\ metrics' \in Metric /\ reply' \in ReplyType
               /\ AvailableWithMajority'
    BY <1>4, FailMoves
  <1>5. ASSUME NEW r \in Replicas, recover_replica(r)
        PROVE  /\ Moves(replicas, leaderId, acked, replicas', leaderId', acked')
               /\ metrics' \in Metric /\ reply' \in ReplyType
               /\ AvailableWithMajority'
    BY <1>5, RecoverMoves
  <1>6. CASE elect_leader
    BY <1>6, ElectMoves
  <1>7. CASE Restart
    BY <1>7, RestartMoves
  <1> QED
    BY <1>1, <1>2, <1>3, <1>4, <1>5, <1>6, <1>7 DEF Next

\* The invariant is inductive.
THEOREM Invariant == Spec => []IInv
  <1>1. Init => IInv
    BY InitIInv
  <1>2. IInv /\ [Next]_vars => IInv'
    <2>1. ASSUME IInv, Next
          PROVE  IInv'
      BY <2>1, NextMoves DEF IInv, Moves
    <2>2. ASSUME IInv, UNCHANGED vars
          PROVE  IInv'
      BY <2>2, ZenonT(40) DEF vars, IInv, AvailableWithMajority
    <2> QED BY <2>1, <2>2
  <1> QED
    BY <1>1, <1>2, PTL DEF Spec
-----------------------------------------------------------------------------
(* What follows from it.                                                   *)

\* The invariants of Shard that TLC checks.
LEMMA Consequences ==
    ASSUME IInv
    PROVE  /\ TypeOK /\ AckedOnMajority /\ NoTraceOfRejected /\ StateMatchesLog
           /\ LeaderIsUpToDate /\ AvailableWithMajority
  <1>1. /\ Consistent(replicas, acked) /\ Leads(replicas, leaderId, acked)
        /\ metrics \in Metric /\ reply \in ReplyType /\ AvailableWithMajority
    BY DEF IInv
  <1>2. /\ acked \in Seq(Entry) /\ replicas \in [Replicas -> Replica]
        /\ 2 * Cardinality(Level(replicas, acked)) > N
        /\ \A r \in Replicas : /\ replicas[r].commitIndex \in Nat
                               /\ replicas[r].commitIndex <= Len(acked)
                               /\ Settled(replicas[r], acked, replicas[r].commitIndex)
    BY <1>1 DEF Consistent, Replica
  <1>3. \A r \in Replicas : /\ replicas[r].lastApplied = replicas[r].commitIndex
                            /\ replicas[r].log = Pref(acked, replicas[r].commitIndex)
                            /\ replicas[r].kv = ApplyEntries(EmptyKV, acked,
                                                   1 .. replicas[r].commitIndex)
    BY ONLY <1>2 DEF Settled
  <1>4. Pref(acked, Len(acked)) = acked
    BY ONLY <1>2 DEF Pref
  <1>5. \A r \in Replicas : replicas[r].commitIndex = Len(acked) <=> UpToDate(r)
    BY ONLY <1>3, <1>4 DEF UpToDate
  <1>6. TypeOK
    BY ONLY <1>1, <1>2 DEF TypeOK, Leads, LeadsExcept, Metric, ReplyType
  <1>7. AckedOnMajority
    <2>1. Level(replicas, acked) = {r \in Replicas : UpToDate(r)}
      BY ONLY <1>5 DEF Level
    <2> QED BY ONLY <1>2, <2>1 DEF AckedOnMajority
  <1>8. NoTraceOfRejected
    <2>1. Len(acked) \in Nat
      BY ONLY <1>2
    <2> QED BY ONLY <1>2, <1>3, <2>1 DEF NoTraceOfRejected, Pref
  <1>9. StateMatchesLog
    BY ONLY <1>3 DEF StateMatchesLog
  <1>10. LeaderIsUpToDate
    <2>1. /\ \A r \in Replicas : replicas[r].role = "Leader" <=> r = leaderId
          /\ leaderId # NoReplica =>
                /\ replicas[leaderId].online
                /\ \A r \in Replicas :
                      /\ replicas[r].currentTerm <= replicas[leaderId].currentTerm
                      /\ replicas[r].online => replicas[r].commitIndex = Len(acked)
      BY ONLY <1>1, NoReplicaAssumption DEF Leads, LeadsExcept
    <2> QED BY ONLY <1>5, <2>1 DEF LeaderIsUpToDate
  <1> QED
    BY <1>1, <1>6, <1>7, <1>8, <1>9, <1>10, SMTT(20)

\* The state of a shard is well typed; in particular every raft_log table is a
\* sequence, without the gaps the schema would allow.
THEOREM TypeCorrect == Spec => []TypeOK
  <1>1. IInv => TypeOK
    BY Consequences
  <1> QED BY <1>1, Invariant, PTL

\* Durability: whatever the failures, recoveries, elections and restarts
\* between operations, the writes replicate_command_locked acknowledged stay
\* committed on a majority of the databases.
THEOREM Durable == Spec => []AckedOnMajority
  <1>1. IInv => AckedOnMajority
    BY Consequences
  <1> QED BY <1>1, Invariant, PTL

\* A write answered with an error leaves no entry behind, on any replica: the
\* rollback of replicate_command_locked reaches everyone who took the entry.
THEOREM RejectedLeavesNoTrace == Spec => []NoTraceOfRejected
  <1>1. IInv => NoTraceOfRejected
    BY Consequences
  <1> QED BY <1>1, Invariant, PTL

\* State machine safety: replicas at the same commit index have equal kv
\* tables, those the acknowledged writes add up to.
THEOREM StateMachineSafe == Spec => []StateMatchesLog
  <1>1. IInv => StateMatchesLog
    BY Consequences
  <1> QED BY <1>1, Invariant, PTL

\* Leader completeness: the leader that serves requests has every acknowledged
\* write and everybody who is online is level with it.
THEOREM LeaderComplete == Spec => []LeaderIsUpToDate
  <1>1. IInv => LeaderIsUpToDate
    BY Consequences
  <1> QED BY <1>1, Invariant, PTL

\* With a majority online no request is turned away, and no write is
\* acknowledged without one.
THEOREM Available == Spec => []AvailableWithMajority
  <1>1. IInv => AvailableWithMajority
    BY Consequences
  <1> QED BY <1>1, Invariant, PTL

\* A committed entry stays where it is, with the content it has.
THEOREM CommittedNeverLost == Spec => CommittedForever
  <1>1. IInv /\ IInv' /\ [Next]_vars => [CommittedStays]_vars
    <2>1. SUFFICES ASSUME IInv, IInv', Next
                   PROVE  CommittedStays
      BY DEF vars
    <2>2. Moves(replicas, leaderId, acked, replicas', leaderId', acked')
      BY <2>1, NextMoves
    <2>3. /\ Consistent(replicas, acked) /\ Consistent(replicas', acked')
          /\ Forward(replicas, replicas')
          /\ acked' = acked \/ \E e \in Entry : acked' = Append(acked, e)
      BY <2>1, <2>2, SMTT(20) DEF IInv, Moves
    <2>4. /\ acked \in Seq(Entry)
          /\ \A r \in Replicas : /\ replicas[r].commitIndex \in Nat
                                 /\ replicas[r].commitIndex <= Len(acked)
                                 /\ replicas[r].log = Pref(acked, replicas[r].commitIndex)
      BY ONLY <2>3 DEF Consistent, Settled, Replica
    <2>5. /\ acked' \in Seq(Entry)
          /\ \A r \in Replicas : /\ replicas'[r].commitIndex \in Nat
                                 /\ replicas'[r].commitIndex <= Len(acked')
                                 /\ replicas'[r].log = Pref(acked', replicas'[r].commitIndex)
      BY ONLY <2>3 DEF Consistent, Settled, Replica
    <2>6. \A i \in 1 .. Len(acked) : acked'[i] = acked[i]
      BY ONLY <2>3, <2>4
    <2>7. ASSUME NEW r \in Replicas
          PROVE  /\ replicas'[r].commitIndex >= replicas[r].commitIndex
                 /\ \A i \in 1 .. replicas[r].commitIndex :
                       replicas'[r].log[i] = replicas[r].log[i]
      <3>1. replicas'[r].commitIndex >= replicas[r].commitIndex
        BY ONLY <2>3, <2>4, <2>5, r \in Replicas DEF Forward
      <3>2. \A i \in 1 .. replicas[r].commitIndex :
               /\ i \in 1 .. replicas'[r].commitIndex
               /\ i \in 1 .. Len(acked)
        BY ONLY <2>4, <2>5, <3>1, r \in Replicas
      <3>3. ASSUME NEW i \in 1 .. replicas[r].commitIndex
            PROVE  replicas'[r].log[i] = replicas[r].log[i]
        <4>1. replicas[r].log[i] = acked[i]
          BY ONLY <2>4, r \in Replicas, i \in 1 .. replicas[r].commitIndex, Zenon
             DEF Pref
        <4>2. i \in 1 .. replicas'[r].commitIndex /\ acked'[i] = acked[i]
          BY ONLY <2>6, <3>2, i \in 1 .. replicas[r].commitIndex
        <4>3. replicas'[r].log[i] = acked'[i]
          BY ONLY <2>5, <4>2, r \in Replicas, Zenon DEF Pref
        <4> QED BY <4>1, <4>2, <4>3
      <3> QED BY ONLY <3>1, <3>3
    <2> QED BY ONLY <2>7 DEF CommittedStays
  <1> QED
    BY <1>1, Invariant, PTL DEF Spec, CommittedForever

\* Terms never go back, and a new leader's term is new to everybody.
THEOREM TermsGrow == Spec => TermsAdvance
  <1>1. IInv /\ [Next]_vars => [TermStep]_vars
    <2>1. SUFFICES ASSUME IInv, Next
                   PROVE  TermStep
      BY DEF vars
    <2>2. Moves(replicas, leaderId, acked, replicas', leaderId', acked')
      BY <2>1, NextMoves, SMTT(20)
    <2>3. /\ replicas \in [Replicas -> Replica] /\ replicas' \in [Replicas -> Replica]
          /\ leaderId' \in Replicas \cup {NoReplica}
      BY <2>1, <2>2 DEF IInv, Moves, Consistent, Leads, LeadsExcept
    <2>4. \A r \in Replicas : /\ replicas[r].currentTerm \in Nat
                              /\ replicas'[r].currentTerm \in Nat
      BY ONLY <2>3 DEF Replica
    <2> QED BY ONLY <2>2, <2>3, <2>4 DEF Moves, Forward, TermStep
  <1> QED
    BY <1>1, Invariant, PTL DEF Spec, TermsAdvance
-----------------------------------------------------------------------------
(* The service a shard implements.                                         *)

\* An acknowledged write changes the map the way the service says.
LEMMA AckedKVStep ==
    ASSUME NEW A \in Seq(Entry), NEW e \in Entry
    PROVE  ApplyEntries(EmptyKV, Append(A, e), DOMAIN Append(A, e)) =
              [ApplyEntries(EmptyKV, A, DOMAIN A) EXCEPT ![e.key] = Written(e)]
  <1> DEFINE n == Len(A)
             B == Append(A, e)
             old == ApplyEntries(EmptyKV, A, 1 .. n)
  <1>1. /\ n \in Nat /\ B \in Seq(Entry) /\ DOMAIN A = 1 .. n
        /\ DOMAIN B = 1 .. n + 1 /\ B[n + 1] = e
        /\ \A i \in 1 .. n : B[i] = A[i]
    BY SMT
  <1>2. 1 .. n \in SUBSET Int /\ IsFiniteSet(1 .. n)
    BY <1>1, FS_Interval, SMT
  <1>3. ApplyEntries(EmptyKV, B, 1 .. n) = old
    <2> HIDE DEF n, B
    <2>1. ApplyEntries(EmptyKV, B, 1 .. n) = ApplyEntries(EmptyKV, A, 1 .. n)
      BY ONLY <1>1, <1>2, ApplyLocal
    <2> QED BY <2>1
  <1>4. ApplyEntries(old, B, {n + 1}) = ApplyEntries(EmptyKV, B, 1 .. n + 1)
    BY <1>1, <1>3, ApplyStep
  <1>5. e.key \in Keys
    BY DEF Entry
  <1>6. old = [k \in Keys |-> old[k]]
    BY DEF ApplyEntries
  <1> HIDE DEF n, B, old
  <1>7. ApplyEntries(old, B, {n + 1}) = [old EXCEPT ![e.key] = Written(e)]
    <2>1. ASSUME NEW k \in Keys
          PROVE  ApplyEntries(old, B, {n + 1})[k] =
                    IF k = e.key THEN Written(e) ELSE old[k]
      <3>1. CASE k = e.key
        <4>1. {i \in {n + 1} : B[i].key = k} = {n + 1}
          BY <1>1, <3>1
        <4>2. Max({n + 1}) = n + 1
          BY <1>1, MaxOfOne, SMT
        <4> QED BY <1>1, <3>1, <4>1, <4>2 DEF ApplyEntries
      <3>2. CASE k # e.key
        <4>1. {i \in {n + 1} : B[i].key = k} = {}
          BY <1>1, <3>2
        <4> QED BY <3>2, <4>1 DEF ApplyEntries
      <3> QED BY <3>1, <3>2
    <2>2. ApplyEntries(old, B, {n + 1}) =
             [k \in Keys |-> ApplyEntries(old, B, {n + 1})[k]]
      BY DEF ApplyEntries
    <2>3. [old EXCEPT ![e.key] = Written(e)] =
             [k \in Keys |-> IF k = e.key THEN Written(e) ELSE old[k]]
      BY ONLY <1>5, <1>6
    <2> QED BY ONLY <2>1, <2>2, <2>3, ZenonT(30)
  <1> QED
    BY ONLY <1>1, <1>4, <1>7 DEF old, B

\* The leader's kv table is the map of the acknowledged writes.
LEMMA LeaderKV ==
    ASSUME NEW reps, NEW l \in Replicas, NEW A,
           Consistent(reps, A), Leads(reps, l, A)
    PROVE  reps[l].kv = ApplyEntries(EmptyKV, A, DOMAIN A)
  <1>1. A \in Seq(Entry) /\ Settled(reps[l], A, reps[l].commitIndex)
    BY DEF Consistent
  <1>2. reps[l].commitIndex = Len(A)
    BY NoReplicaAssumption DEF Leads, LeadsExcept
  <1>3. DOMAIN A = 1 .. Len(A)
    BY <1>1, SMT
  <1> QED BY <1>1, <1>2, <1>3 DEF Settled

\* A write is a write of the service, or one that the service refused.
LEMMA WriteServed ==
    ASSUME IInv, NEW command \in Commands, NEW key \in Keys,
           NEW value \in Values \cup {NoValue}, Write(command, key, value),
           NEW new, new = IF command = "PUT" THEN value ELSE NoValue
    PROVE  \/ /\ AckedKV' = [AckedKV EXCEPT ![key] = new]
              /\ reply' = Service!Reply(command, key, value,
                                        IF command = "DELETE" THEN 200 ELSE 201)
           \/ /\ AckedKV' = AckedKV
              /\ reply' = Service!Reply(command, key, value, 503)
  <1>1. acked \in Seq(Entry)
    BY DEF IInv, Consistent
  <1>2. CASE acked' = acked /\ reply' = Service!Reply(command, key, value, 503)
    BY <1>2 DEF AckedKV
  <1>3. CASE /\ \E e \in Entry : /\ acked' = Append(acked, e)
                                 /\ e.command = command
                                 /\ e.key = key /\ e.value = value
             /\ reply' = Service!Reply(command, key, value,
                                       IF command = "DELETE" THEN 200 ELSE 201)
    <2>1. PICK e \in Entry : /\ acked' = Append(acked, e)
                             /\ e.command = command
                             /\ e.key = key /\ e.value = value
      BY ONLY <1>3
    <2>2. Written(e) = new
      BY <2>1 DEF Written
    <2>3. ApplyEntries(EmptyKV, Append(acked, e), DOMAIN Append(acked, e)) =
             [ApplyEntries(EmptyKV, acked, DOMAIN acked) EXCEPT ![e.key] = Written(e)]
      BY ONLY <1>1, AckedKVStep
    <2>4. AckedKV' = [AckedKV EXCEPT ![key] = new]
      BY ONLY <2>1, <2>2, <2>3, Zenon DEF AckedKV
    <2> QED BY ONLY <1>3, <2>4
  <1> QED
    BY <1>2, <1>3, WriteAnswers, SMT

\* A read answers what the map of the acknowledged writes holds.
LEMMA GetServed ==
    ASSUME IInv, NEW key \in Keys, get(key)
    PROVE  Service!Get(key) \/ Service!Reject("GET", key, NoValue)
  <1> DEFINE sh == EnsureLeader(Sh)
             value == sh.replicas[sh.leader].kv[key]
  <1>1. /\ acked' = acked
        /\ reply' = IF ~HasLeader(sh)
                    THEN Service!Reply("GET", key, NoValue, 503)
                    ELSE Service!Reply("GET", key, value,
                                       IF value = NoValue THEN 404 ELSE 200)
    BY DEF get
  <1>2. AckedKV' = AckedKV
    BY <1>1 DEF AckedKV
  <1>3. CASE ~HasLeader(sh)
    BY ONLY <1>1, <1>2, <1>3, Zenon DEF Service!Reject
  <1>4. CASE HasLeader(sh)
    <2>1. sh = EnsureLeader(Sh) /\ IInv /\ HasLeader(sh)
      BY <1>4
    <2> HIDE DEF sh
    <2> DEFINE reps == sh.replicas
               l == sh.leader
    <2>2. Consistent(reps, acked) /\ Leads(reps, l, acked) /\ l \in Replicas
      BY ONLY <2>1, EnsureHere
    <2> HIDE DEF reps, l
    <2>3. reps[l].kv = AckedKV
      BY ONLY <2>2, LeaderKV DEF AckedKV
    <2>4. value = AckedKV[key]
      BY ONLY <2>3 DEF reps, l
    <2> HIDE DEF value
    <2>5. reply' = Service!Reply("GET", key, value,
                                 IF value = NoValue THEN 404 ELSE 200)
      BY ONLY <1>1, <1>4
    <2> QED BY ONLY <1>2, <2>4, <2>5, Zenon DEF Service!Get
  <1> QED
    BY <1>3, <1>4

\* A shard implements KVService: its clients see one map, changed by the
\* acknowledged writes in their order and by nothing else.
THEOREM Refinement == Spec => ImplementsService
  <1>1. Init => Service!Init
    <2>1. ASSUME Init
          PROVE  AckedKV = [k \in Keys |-> NoValue] /\ reply = Service!NoReply
      <3> DEFINE none == <<>>
      <3>1. acked = none /\ reply = Service!NoReply
        BY <2>1 DEF Init
      <3>2. DOMAIN none = {}
        BY SMT
      <3>3. \A k \in Keys : {i \in {} : none[i].key = k} = {}
        OBVIOUS
      <3> QED BY <3>1, <3>2, <3>3 DEF AckedKV, ApplyEntries, EmptyKV
    <2> QED BY <2>1 DEF Service!Init
  <1>2. IInv /\ [Next]_vars => [Service!Next]_<<AckedKV, reply>>
    <2> SUFFICES ASSUME IInv, [Next]_vars
                 PROVE  Service!Next \/ UNCHANGED <<AckedKV, reply>>
      OBVIOUS
    <2>1. ASSUME NEW k \in Keys, NEW v \in Values, put(k, v)
          PROVE  Service!Put(k, v) \/ Service!Reject("PUT", k, v)
      <3> DEFINE command == "PUT"
      <3>1. /\ command \in Commands /\ v \in Values \cup {NoValue} /\ IInv
            /\ Write(command, k, v)
            /\ v = IF command = "PUT" THEN v ELSE NoValue
            /\ (IF command = "DELETE" THEN 200 ELSE 201) = 201
        BY <2>1 DEF Commands, put
      <3>2. k \in Keys
        OBVIOUS
      <3> HIDE DEF command
      <3>3. \/ /\ AckedKV' = [AckedKV EXCEPT ![k] = v]
               /\ reply' = Service!Reply(command, k, v,
                                         IF command = "DELETE" THEN 200 ELSE 201)
            \/ /\ AckedKV' = AckedKV
               /\ reply' = Service!Reply(command, k, v, 503)
        BY ONLY <3>1, <3>2, WriteServed
      <3> QED BY ONLY <3>1, <3>3, Zenon DEF Service!Put, Service!Reject, command
    <2>2. ASSUME NEW k \in Keys, erase(k)
          PROVE  Service!Erase(k) \/ Service!Reject("DELETE", k, NoValue)
      <3> DEFINE command == "DELETE"
      <3>1. /\ command \in Commands /\ NoValue \in Values \cup {NoValue} /\ IInv
            /\ Write(command, k, NoValue)
            /\ NoValue = IF command = "PUT" THEN NoValue ELSE NoValue
            /\ (IF command = "DELETE" THEN 200 ELSE 201) = 200
        BY <2>2 DEF Commands, erase
      <3>2. k \in Keys
        OBVIOUS
      <3> HIDE DEF command
      <3>3. \/ /\ AckedKV' = [AckedKV EXCEPT ![k] = NoValue]
               /\ reply' = Service!Reply(command, k, NoValue,
                                         IF command = "DELETE" THEN 200 ELSE 201)
            \/ /\ AckedKV' = AckedKV
               /\ reply' = Service!Reply(command, k, NoValue, 503)
        BY ONLY <3>1, <3>2, WriteServed
      <3> QED BY ONLY <3>1, <3>3, Zenon DEF Service!Erase, Service!Reject, command
    <2>3. ASSUME NEW k \in Keys, get(k)
          PROVE  Service!Get(k) \/ Service!Reject("GET", k, NoValue)
      BY <2>3, GetServed
    <2>4. ASSUME \/ \E r \in Replicas : fail_replica(r) \/ recover_replica(r)
                 \/ elect_leader \/ Restart
          PROVE  Service!Administer
      <3>1. /\ acked' = acked
            /\ reply' \in {Service!NoReply, Service!Reply("ELECT", NoValue, NoValue, 200),
                           Service!Reply("ELECT", NoValue, NoValue, 503)}
        BY <2>4 DEF fail_replica, recover_replica, elect_leader, Restart
      <3> QED BY ONLY <3>1, Zenon DEF Service!Administer, AckedKV
    <2>5. CASE UNCHANGED vars
      BY <2>5 DEF vars, AckedKV
    <2> QED
      BY <2>1, <2>2, <2>3, <2>4, <2>5 DEF Next, Service!Next
  <1> QED
    BY <1>1, <1>2, Invariant, PTL DEF Spec, ImplementsService, Service!Spec
=============================================================================
