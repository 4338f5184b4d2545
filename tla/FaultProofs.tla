----------------------------- MODULE FaultProofs ----------------------------
(***************************************************************************)
(* A shard through crashes and failing statements, for every number of     *)
(* replicas and of both.                                                   *)
(*                                                                         *)
(* WritesSurvive, ElectionsWork, RefusalsClean: acknowledged writes        *)
(* survive crashes, elections succeed after them, and a refused write      *)
(* leaves no entry behind, as long as no statement fails.  The inductive   *)
(* invariant (Durable) is that the shard has committed a log C with all    *)
(* acknowledged writes in it; while the process runs a majority has        *)
(* committed all of it (Wide), and after a crash, when one replica may be  *)
(* left that has, everybody is online again.                               *)
(***************************************************************************)
EXTENDS FaultElections, FaultWrites

\* The steps are first-order reasoning unless they say otherwise.
USE Zenon

(* Durability: as long as no statement has failed, there is a log C that   *)
(* the shard has committed, and C has all acknowledged writes.             *)

AcksIn(A, C) == \A a \in A : a[1] \in 1 .. Len(C) /\ C[a[1]] = a[2]

\* A majority has committed C while the process runs.  After a crash one replica
\* may be left that has, but all are started again.
Durable(sh, A, running, C) ==
    /\ Sound(sh, C) /\ AcksIn(A, C)
    /\ running => Wide(sh.replicas, C)
    /\ ~running => /\ sh.leader = NoReplica
                   /\ \A r \in Replicas : sh.replicas[r].online = TRUE

\* The answer fits the replicas it leaves.
Fine(answer, x) ==
    /\ answer = Failed("elect", 503) => ~Many(x)
    /\ answer = Failed("write", 503) /\ Many(x) => Clean(x)

\* A step that no failing statement ends.
Good ==
    /\ faults'.errors = faults.errors
    /\ \E C : Durable([replicas |-> replicas', leader |-> leaderId'], acks', up', C)
    /\ Fine(reply', replicas')

\* What an operation may leave on the disks.
Kept(x, A) == \E C : Safe(x.replicas, C) /\ AcksIn(A, C)

LEMMA AcksLater ==
    ASSUME NEW A, NEW C \in Seq(Entry), NEW D, Extends(D, C), AcksIn(A, C)
    PROVE  AcksIn(A, D)
  BY SMT DEF AcksIn, Extends

LEMMA CrashGood ==
    ASSUME NEW mid, Crash(mid), \A x \in mid : Kept(x, acks), "errors" \in DOMAIN faults
    PROVE  Good
  <1>1. PICK x \in mid : replicas' = [r \in Replicas |-> OnDisk(x.replicas[r])]
    BY DEF Crash
  <1>2. /\ leaderId' = NoReplica /\ reply' = Done /\ up' = FALSE /\ acks' = acks
        /\ faults' = [faults EXCEPT !.crashes = @ + 1]
    BY DEF Crash
  <1>3. PICK C : Safe(x.replicas, C) /\ AcksIn(acks, C)
    BY DEF Kept
  <1>4. Whole(replicas', C) /\ \A r \in Replicas : replicas'[r].online = TRUE
    BY <1>1, <1>3, DiskWhole
  <1> DEFINE sh == [replicas |-> replicas', leader |-> leaderId']
  <1>5. sh.replicas = replicas' /\ sh.leader = NoReplica /\ IsShard(sh)
    BY <1>2 DEF IsShard
  <1> HIDE DEF sh
  <1>6. Durable(sh, acks', up', C)
    BY <1>2, <1>3, <1>4, <1>5 DEF Durable, Sound
  <1>7. faults'.errors = faults.errors
    BY <1>2
  <1>8. Fine(reply', replicas')
    BY <1>2, ZenonT(40) DEF Fine, Done, Failed
  <1> QED  BY <1>6, <1>7, <1>8 DEF Good, sh

LEMMA CompletesGood ==
    ASSUME NEW x, NEW answer, NEW new, Completes(x, answer, new), IsShard(x),
           NEW C, Durable(x, acks \cup new, up, C), Fine(answer, x.replicas)
    PROVE  Good
  <1>1. /\ replicas' = x.replicas /\ leaderId' = x.leader /\ reply' = answer
        /\ acks' = acks \cup new /\ up' = up /\ faults' = faults
    BY DEF Completes, Become
  <1>2. x = [replicas |-> replicas', leader |-> leaderId']
    BY <1>1 DEF IsShard
  <1> QED  BY <1>1, <1>2 DEF Good

\* A statement failed.
LEMMA ErrorCounts ==
    ASSUME NEW mid, NEW op, Error(mid, op), faults \in [crashes : Nat, errors : Nat]
    PROVE  faults'.errors = faults.errors + 1
  BY DEF Error

\* put and erase.
LEMMA WriteGood ==
    ASSUME NEW C, Durable(Sh, acks, up, C), faults \in [crashes : Nat, errors : Nat],
           NEW key \in Keys, NEW value \in Values \cup {NoValue}, put_or_erase(key, value)
    PROVE  Good \/ faults'.errors = faults.errors + 1
  <1> DEFINE command == IF value = NoValue THEN "DELETE" ELSE "PUT"
             sh == WithLeader(Sh)
             c == Context(sh, command, key, value)
             mid == Electing(Sh) \cup (IF CanAppend(sh) THEN Writing(sh, c) ELSE {})
             done == IF CanAppend(sh) THEN Replicate(sh, c) ELSE sh
             refused == Failed("write", IF HasLeader(sh) THEN 400 ELSE 503)
             ack == <<c.index, c.leader.log[c.index]>>
  <1>1. up /\ Sound(Sh, C) /\ AcksIn(acks, C) /\ Wide(Sh.replicas, C)
    BY DEF put_or_erase, Durable
  <1>2. Elects(Sh, C)
    BY <1>1, ElectDurable
  <1>3. /\ \A x \in Electing(Sh) : Safe(x.replicas, C)
        /\ Sound(sh, C) /\ Wide(sh.replicas, C)
        /\ ~HasLeader(sh) => ~Many(sh.replicas)
    BY <1>1, <1>2 DEF Elects
  <1>4. command \in Commands
    BY DEF Commands
  <1>5. \/ /\ CanAppend(sh) /\ Replicated(c) /\ Completes(done, Done, {ack})
        \/ /\ CanAppend(sh) /\ ~Replicated(c) /\ Completes(done, Failed("write", 503), {})
        \/ /\ ~CanAppend(sh) /\ Completes(done, refused, {})
        \/ Error(mid, "write")
        \/ Crash(mid \cup {done})
    BY DEF put_or_erase, Write
  <1> HIDE DEF command, sh
  <1>6. C \in Seq(Entry) /\ Safe(sh.replicas, C) /\ IsShard(sh)
    BY <1>3 DEF Sound, Whole, Safe
  <1>7. CanAppend(sh) => \E D : Wrote(sh, c, C, D)
    BY <1>3, <1>4, WriteSafe DEF CanAppend, HasLeader
  <1> HIDE DEF c
  <1>8. CASE CanAppend(sh)
    <2>1. PICK D : Wrote(sh, c, C, D)
      BY <1>7, <1>8
    <2>2. done = Replicate(sh, c) /\ mid = Electing(Sh) \cup Writing(sh, c)
      BY <1>8
    <2> HIDE DEF done, mid
    <2>3. /\ Extends(D, C)
          /\ \A x \in Writing(sh, c) : Safe(x.replicas, C) \/ Safe(x.replicas, D)
          /\ Replicated(c) => /\ Sound(done, D) /\ Wide(done.replicas, D)
                              /\ c.index \in 1 .. Len(D) /\ c.leader.log = D
          /\ ~Replicated(c) => /\ Sound(done, C) /\ Clean(done.replicas)
                               /\ Top(sh.replicas, C) \subseteq Top(done.replicas, C)
      BY <2>1, <2>2, ZenonT(40) DEF Wrote
    <2>4. AcksIn(acks, D)
      BY <1>1, <1>6, <2>3, AcksLater
    <2>5. Replicated(c) => /\ Durable(done, acks \cup {ack}, up, D) /\ IsShard(done)
                           /\ Fine(Done, done.replicas) /\ Safe(done.replicas, D)
      <3>1. Replicated(c) => AcksIn(acks \cup {ack}, D)
        <4>1. ack[1] = c.index /\ ack[2] = c.leader.log[c.index]
          OBVIOUS
        <4> HIDE DEF ack
        <4> QED  BY <2>3, <2>4, <4>1 DEF AcksIn
      <3>2. Fine(Done, done.replicas)
        BY ZenonT(40) DEF Fine, Done, Failed
      <3> QED  BY <1>1, <2>3, <3>1, <3>2 DEF Durable, Sound, Whole
    <2>6. ~Replicated(c) => /\ Durable(done, acks \cup {}, up, C) /\ IsShard(done)
                            /\ Fine(Failed("write", 503), done.replicas)
                            /\ Safe(done.replicas, C)
      <3>1. ~Replicated(c) => Wide(done.replicas, C)
        <4>1. /\ Top(sh.replicas, C) \in SUBSET Replicas
              /\ Top(done.replicas, C) \in SUBSET Replicas
          BY DEF Top
        <4> QED  BY <1>3, <2>3, <4>1, MajorityGrows DEF Wide
      <3>2. ~Replicated(c) => Fine(Failed("write", 503), done.replicas)
        BY <2>3 DEF Fine, Failed
      <3>3. acks \cup {} = acks
        OBVIOUS
      <3> QED  BY <1>1, <2>3, <3>1, <3>2, <3>3 DEF Durable, Sound, Whole
    <2>7. \A x \in mid \cup {done} : Kept(x, acks)
      BY <1>1, <1>3, <2>2, <2>3, <2>4, <2>5, <2>6, ZenonT(40) DEF Kept
    <2> HIDE DEF ack
    <2> QED  BY <1>5, <1>8, <2>5, <2>6, <2>7, CompletesGood, CrashGood, ErrorCounts, ZenonT(40)
  <1>9. CASE ~CanAppend(sh)
    <2>1. done = sh /\ mid = Electing(Sh)
      BY <1>9
    <2> HIDE DEF done, mid
    <2>2. \A x \in mid \cup {done} : Kept(x, acks)
      BY <1>1, <1>3, <1>6, <2>1 DEF Kept
    <2>3. Durable(done, acks \cup {}, up, C)
      <3>1. acks \cup {} = acks
        OBVIOUS
      <3> QED  BY <1>1, <1>3, <2>1, <3>1 DEF Durable
    <2>4. Fine(refused, done.replicas) /\ IsShard(done)
      BY <1>3, <1>6, <2>1, SMT DEF Fine, Failed
    <2> HIDE DEF refused
    <2> QED  BY <1>5, <1>9, <2>2, <2>3, <2>4, CompletesGood, CrashGood, ErrorCounts
  <1> QED  BY <1>8, <1>9

\* An answer of an election.
LEMMA ElectedFine ==
    ASSUME NEW sh, ~HasLeader(sh) => ~Many(sh.replicas)
    PROVE  Fine(Elected(sh), sh.replicas)
  BY ZenonT(40) DEF Fine, Elected, Done, Failed

LEMMA ElectGood ==
    ASSUME NEW C, Durable(Sh, acks, up, C), faults \in [crashes : Nat, errors : Nat],
           elect_leader
    PROVE  Good \/ faults'.errors = faults.errors + 1
  <1> DEFINE sh == WithLeader(Sh)
  <1>1. up /\ Sound(Sh, C) /\ AcksIn(acks, C) /\ Wide(Sh.replicas, C)
    BY DEF elect_leader, Durable
  <1>2. Elects(Sh, C)
    BY <1>1, ElectDurable
  <1>3. /\ \A x \in Electing(Sh) : Safe(x.replicas, C)
        /\ Sound(sh, C) /\ Wide(sh.replicas, C)
        /\ ~HasLeader(sh) => ~Many(sh.replicas)
    BY <1>1, <1>2 DEF Elects
  <1>4. \/ Completes(sh, Elected(sh), {})
        \/ Error(Electing(Sh), "elect")
        \/ Crash(Electing(Sh))
    BY DEF elect_leader
  <1> HIDE DEF sh
  <1>5. \A x \in Electing(Sh) : Kept(x, acks)
    BY <1>1, <1>3 DEF Kept
  <1>6. acks \cup {} = acks
    OBVIOUS
  <1>7. Durable(sh, acks \cup {}, up, C) /\ IsShard(sh)
    BY <1>1, <1>3, <1>6 DEF Durable, Sound
  <1>8. Fine(Elected(sh), sh.replicas)
    BY <1>3, ElectedFine
  <1> QED  BY <1>4, <1>5, <1>7, <1>8, CompletesGood, CrashGood, ErrorCounts

\* fail_replica and recover_replica turn a replica off and on.
Switched(y, r, o) ==
    /\ IsShard(y) /\ y.replicas = [replicas EXCEPT ![r] = set_online(@, o)]
    /\ y.leader \in {leaderId, NoReplica} /\ (y.leader = r => o = TRUE)

LEMMA TurnSound ==
    ASSUME NEW C, Sound(Sh, C), NEW r \in Replicas, NEW o \in BOOLEAN,
           NEW y, Switched(y, r, o)
    PROVE  /\ Sound(y, C) /\ Top(y.replicas, C) = Top(replicas, C)
           /\ y.replicas[r].online = o
  <1> DEFINE p == set_online(replicas[r], o)
             next == [replicas EXCEPT ![r] = p]
             l == y.leader
  <1>1. /\ Sh.replicas = replicas /\ Sh.leader = leaderId
        /\ y.replicas = next /\ l \in {leaderId, NoReplica} /\ IsShard(y)
        /\ l = r => o = TRUE
    BY DEF Sh, Switched
  <1>2. /\ replicas = [s \in Replicas |-> replicas[s]]
        /\ \A s \in Replicas : Rep(replicas[s]) /\ Stored(replicas[s])
        /\ leaderId # NoReplica => /\ leaderId \in Replicas
                                   /\ replicas[leaderId].online = TRUE
    BY <1>1, WholeFields, SMT DEF Sound, LeaderOK, Reps
  <1>3. Equal(p, replicas[r]) /\ p.online = o
    BY <1>2, OnlineEqual
  <1>4. \A s \in Replicas : Equal(replicas[s], replicas[s])
    BY <1>2 DEF Equal
  <1> HIDE DEF p, l
  <1>5. /\ next = [s \in Replicas |-> next[s]]
        /\ \A s \in Replicas : next[s] = IF s = r THEN p ELSE replicas[s]
    BY <1>2
  <1> HIDE DEF next
  <1>6. \A s \in Replicas : Equal(next[s], replicas[s])
    BY <1>3, <1>4, <1>5
  <1>7. l # NoReplica => l = leaderId /\ next[l].online = TRUE
    BY <1>1, <1>2, <1>3, <1>5, ZenonT(40)
  <1>8. next[r].online = o
    BY <1>3, <1>5
  <1>9. Like(y, Sh)
    BY <1>1, <1>5, <1>6, <1>7 DEF Like, l
  <1>10. Sound(y, C) /\ Top(y.replicas, C) = Top(Sh.replicas, C)
    BY <1>9, EqualSound
  <1> QED  BY <1>1, <1>8, <1>10

LEMMA FailGood ==
    ASSUME NEW C, Durable(Sh, acks, up, C), NEW r \in Replicas, fail_replica(r)
    PROVE  Good
  <1> DEFINE l == IF leaderId = r THEN NoReplica ELSE leaderId
             y == [replicas |-> [replicas EXCEPT ![r] = set_online(@, FALSE)], leader |-> l]
  <1>1. up /\ Sound(Sh, C) /\ AcksIn(acks, C) /\ Wide(replicas, C)
    BY DEF fail_replica, Durable, Sh
  <1>2. Completes(y, Done, {})
    BY DEF fail_replica
  <1>3. Switched(y, r, FALSE)
    BY NoReplicaAssumption DEF Switched, IsShard
  <1>4. Sound(y, C) /\ Top(y.replicas, C) = Top(replicas, C)
    <2> HIDE DEF y
    <2> QED  BY <1>1, <1>3, TurnSound
  <1> HIDE DEF y, l
  <1>5. acks \cup {} = acks
    OBVIOUS
  <1>6. Durable(y, acks \cup {}, up, C) /\ IsShard(y)
    BY <1>1, <1>4, <1>5 DEF Durable, Wide, Sound
  <1>7. Fine(Done, y.replicas)
    BY ZenonT(40) DEF Fine, Done, Failed
  <1> QED  BY <1>2, <1>6, <1>7, CompletesGood

LEMMA RecoverGood ==
    ASSUME NEW C, Durable(Sh, acks, up, C), faults \in [crashes : Nat, errors : Nat],
           NEW r \in Replicas, recover_replica(r)
    PROVE  Good \/ faults'.errors = faults.errors + 1
  <1> DEFINE back == [Sh EXCEPT !.replicas[r] = set_online(@, TRUE)]
             sh == WithLeader(back)
             syncs == HasLeader(sh) /\ sh.leader # r
             S == export_snapshot(sh.replicas[sh.leader])
             mid == Electing(back) \cup
                    (IF syncs THEN {[sh EXCEPT !.replicas[r] = p] :
                                      p \in Installing(sh.replicas[r], S)} ELSE {})
             q == persist_state(Installed(sh.replicas[r], S))
             done == IF syncs
                     THEN [sh EXCEPT !.replicas[r] = persist_state(Installed(@, S))]
                     ELSE sh
  <1>1. up /\ Sound(Sh, C) /\ AcksIn(acks, C) /\ Wide(replicas, C)
    BY DEF recover_replica, Durable, Sh
  <1>2. \/ Completes(done, Done, {})
        \/ Error(mid, "recover")
        \/ Crash(mid \cup {done})
    BY DEF recover_replica
  <1>3. Switched(back, r, TRUE)
    <2>1. Sh.replicas = replicas /\ Sh.leader = leaderId /\ IsShard(Sh)
      BY DEF Sh, IsShard
    <2> DEFINE next == [replicas EXCEPT ![r] = set_online(@, TRUE)]
    <2>2. back = [Sh EXCEPT !.replicas = next]
      BY <2>1
    <2> HIDE DEF back, next
    <2>3. back = [replicas |-> next, leader |-> leaderId]
      BY <2>2 DEF Sh
    <2> QED  BY <2>3 DEF IsShard, Switched, next
  <1> HIDE DEF back
  <1>4. /\ Sound(back, C) /\ Wide(back.replicas, C) /\ back.replicas[r].online = TRUE
    BY <1>1, <1>3, TurnSound, ZenonT(40) DEF Wide
  <1>5. Elects(back, C)
    BY <1>4, ElectDurable
  <1>6. /\ \A x \in Electing(back) : Safe(x.replicas, C)
        /\ Sound(sh, C) /\ Wide(sh.replicas, C) /\ sh.replicas[r].online = TRUE
    BY <1>4, <1>5 DEF Elects
  <1> HIDE DEF sh
  <1>7. IsShard(sh) /\ Safe(sh.replicas, C) /\ (syncs => sh.leader # NoReplica /\ r # sh.leader)
    BY <1>6 DEF Sound, Whole, HasLeader
  <1> DEFINE t == sh.replicas[sh.leader].currentTerm
  <1>8. syncs => /\ \A p \in Installing(sh.replicas[r], S) : Held(p, C) /\ Capped(p.log, t)
                 /\ Has(q, C, Len(C), t)
    BY <1>6, <1>7, CopyHeld
  <1>9. \A p : [sh EXCEPT !.replicas[r] = p].replicas = [sh.replicas EXCEPT ![r] = p]
    BY <1>7 DEF IsShard
  <1>10. syncs => /\ IsShard(done) /\ done.leader = sh.leader
                  /\ done.replicas = [sh.replicas EXCEPT ![r] = q]
    BY <1>7 DEF IsShard
  <1> HIDE DEF q, S, syncs
  <1>11. Sound(done, C) /\ Wide(done.replicas, C)
    <2>1. CASE syncs
      <3> HIDE DEF done
      <3>1. Sound(done, C) /\ Top(sh.replicas, C) \subseteq Top(done.replicas, C)
        BY <1>6, <1>7, <1>8, <1>10, <2>1, ReplacedSound
      <3>2. /\ Top(sh.replicas, C) \in SUBSET Replicas
            /\ Top(done.replicas, C) \in SUBSET Replicas
        BY DEF Top
      <3> QED  BY <1>6, <3>1, <3>2, MajorityGrows DEF Wide
    <2>2. CASE ~syncs
      BY <1>6, <2>2
    <2> QED  BY <2>1, <2>2, ZenonT(40)
  <1>12. \A x \in mid : Safe(x.replicas, C)
    <2>1. ASSUME syncs, NEW p \in Installing(sh.replicas[r], S)
          PROVE  Safe([sh EXCEPT !.replicas[r] = p].replicas, C)
      <3>1. Held(p, C) /\ Capped(p.log, t)
        BY <1>8, <2>1
      <3>2. Safe([sh.replicas EXCEPT ![r] = p], C)
        BY <1>6, <1>7, <2>1, <3>1, ReplacedSafe
      <3> QED  BY <1>9, <3>2
    <2> QED  BY <1>6, <2>1, ZenonT(40)
  <1> HIDE DEF mid, done
  <1>13. \A x \in mid \cup {done} : Kept(x, acks)
    BY <1>1, <1>11, <1>12 DEF Kept, Sound, Whole
  <1>14. acks \cup {} = acks
    OBVIOUS
  <1>15. Durable(done, acks \cup {}, up, C) /\ IsShard(done)
    BY <1>1, <1>11, <1>14 DEF Durable, Sound
  <1>16. Fine(Done, done.replicas)
    BY ZenonT(40) DEF Fine, Done, Failed
  <1> QED  BY <1>2, <1>13, <1>15, <1>16, CompletesGood, CrashGood, ErrorCounts

\* The process starts: it loads the databases, and then somebody must lead.
LEMMA BootGood ==
    ASSUME NEW C, Durable(Sh, acks, up, C), faults \in [crashes : Nat, errors : Nat], Boot
    PROVE  Good
  <1> DEFINE loaded == [r \in Replicas |->
                           IF replicas[r].lastApplied < replicas[r].commitIndex
                           THEN persist_state(load_state(replicas[r])) ELSE replicas[r]]
             started == [replicas |-> loaded, leader |-> NoReplica]
             sh == WithLeader(started)
             progress == [r \in Replicas |->
                             Loading(replicas[r], load_state(replicas[r]))]
             M == Midway(Replicas, replicas, loaded, progress)
             mid == Electing(started) \cup {[started EXCEPT !.replicas = x] : x \in M}
  <1>1. /\ Sound(Sh, C) /\ AcksIn(acks, C) /\ ~up
        /\ \A r \in Replicas : replicas[r].online = TRUE
        /\ Sh.replicas = replicas
    BY DEF Durable, Boot, Sh
  <1>2. \/ Become(sh) /\ reply' = Elected(sh) /\ up' = TRUE /\ UNCHANGED <<faults, acks>>
        \/ Crash(mid)
    BY DEF Boot
  <1>3. \A r \in Replicas : Rep(replicas[r]) /\ Stored(replicas[r])
    BY <1>1 DEF Sound, Whole, Safe, Held
  <1>4. ASSUME NEW r \in Replicas, NEW p,
               p \in {replicas[r], loaded[r]} \cup progress[r]
        PROVE  Equal(p, replicas[r]) /\ p.online = TRUE
    <2> DEFINE o == replicas[r]
    <2>1. loaded[r] \in {o, persist_state(load_state(o))}
          /\ progress[r] = Loading(o, load_state(o))
      OBVIOUS
    <2>2. \/ p = o \/ p = persist_state(load_state(o)) \/ p \in Loading(o, load_state(o))
      BY <1>4, <2>1, ZenonT(40)
    <2>3. Rep(o) /\ Stored(o) /\ o.online = TRUE
      BY <1>1, <1>3
    <2> HIDE DEF o
    <2>4. Equal(p, o) /\ p.online = TRUE
      BY <2>2, <2>3, LoadedEqual
    <2> QED  BY <2>4 DEF o
  <1>5. ASSUME NEW x \in M \cup {loaded}
        PROVE  /\ x = [r \in Replicas |-> x[r]]
               /\ \A r \in Replicas : Equal(x[r], replicas[r]) /\ x[r].online = TRUE
    <2>1. /\ x = [r \in Replicas |-> x[r]]
          /\ \A r \in Replicas : x[r] \in {replicas[r], loaded[r]} \cup progress[r]
      <3>1. CASE x = loaded
        <4>1. loaded = [r \in Replicas |-> loaded[r]]
          OBVIOUS
        <4> QED  BY <3>1, <4>1, ZenonT(40)
      <3>2. CASE x \in M
        <4> HIDE DEF loaded, progress
        <4>1. /\ x = [r \in Replicas |-> x[r]]
              /\ \A r \in Replicas :
                    \/ x[r] = replicas[r]
                    \/ r \in Replicas /\ (x[r] = loaded[r] \/ x[r] \in progress[r])
          BY <3>2, MidwayStates, SMT
        <4> QED  BY <4>1
      <3> QED  BY <3>1, <3>2
    <2> HIDE DEF loaded, progress, M
    <2> QED  BY <1>4, <2>1
  <1> HIDE DEF M, loaded, progress
  <1>6. ASSUME NEW x \in M \cup {loaded}, NEW y, y = [replicas |-> x, leader |-> NoReplica]
        PROVE  Sound(y, C)
    <2>1. Like(y, Sh)
      BY <1>1, <1>5, <1>6, ZenonT(40) DEF Like, IsShard
    <2> QED  BY <1>1, <2>1, EqualSound
  <1>7. /\ Sound(started, C)
        /\ \A r \in Replicas : started.replicas[r].online = TRUE
    BY <1>5, <1>6
  <1>8. HoldsElection(started)
    <2>1. Online(started.replicas) = Replicas
      BY <1>7 DEF Online
    <2>2. started.leader = NoReplica
      OBVIOUS
    <2> HIDE DEF started
    <2>3. Cardinality(Replicas) = N
      BY ReplicasFinite
    <2> QED  BY <2>1, <2>2, <2>3, NAssumption, SMT
                DEF HoldsElection, HasLeader, Quorum
  <1>9. Elects(started, C)
    BY <1>7, ElectDurable
  <1>10. \A x \in M : Safe([started EXCEPT !.replicas = x].replicas, C)
    <2>1. ASSUME NEW x \in M
          PROVE  Safe(x, C)
      <3>1. Sound([replicas |-> x, leader |-> NoReplica], C)
        BY <1>6
      <3> QED  BY <3>1 DEF Sound, Whole
    <2> QED  BY <2>1
  <1> HIDE DEF started
  <1>11. /\ \A x \in Electing(started) : Safe(x.replicas, C)
         /\ Sound(sh, C) /\ Wide(sh.replicas, C)
         /\ ~HasLeader(sh) => ~Many(sh.replicas)
    BY <1>8, <1>9 DEF Elects
  <1>12. \A x \in mid : Kept(x, acks)
    BY <1>1, <1>10, <1>11 DEF Kept
  <1> HIDE DEF sh, mid
  <1>13. CASE Crash(mid)
    BY <1>12, <1>13, CrashGood
  <1>14. CASE Become(sh) /\ reply' = Elected(sh) /\ up' = TRUE /\ UNCHANGED <<faults, acks>>
    <2>1. Durable(sh, acks, TRUE, C) /\ Fine(Elected(sh), sh.replicas)
      BY <1>1, <1>11, ElectedFine, ZenonT(40) DEF Durable
    <2>2. /\ replicas' = sh.replicas /\ leaderId' = sh.leader
      BY <1>14 DEF Become
    <2>3. sh = [replicas |-> replicas', leader |-> leaderId']
      BY <1>11, <2>2 DEF Sound, IsShard
    <2> QED  BY <1>14, <2>1, <2>2, <2>3 DEF Good
  <1> QED  BY <1>2, <1>13, <1>14

\* Until a statement fails, the shard has a committed log with every
\* acknowledged write in it, and the answers fit.
DurableInv ==
    /\ faults \in [crashes : Nat, errors : Nat]
    /\ faults.errors = 0 => /\ \E C : Durable(Sh, acks, up, C)
                            /\ Fine(reply, replicas)

LEMMA FaultsTyped ==
    ASSUME faults \in [crashes : Nat, errors : Nat], Next
    PROVE  faults' \in [crashes : Nat, errors : Nat] /\ faults'.errors >= faults.errors
  <1>1. \/ faults' = faults
        \/ faults' = [faults EXCEPT !.crashes = @ + 1]
        \/ faults' = [faults EXCEPT !.errors = @ + 1]
    <2>1. \A sh, answer, new : Completes(sh, answer, new) => faults' = faults
      BY DEF Completes
    <2>2. \A mid, op : Error(mid, op) => faults' = [faults EXCEPT !.errors = @ + 1]
      BY DEF Error
    <2>3. \A mid : Crash(mid) => faults' = [faults EXCEPT !.crashes = @ + 1]
      BY DEF Crash
    <2>4. CASE \E k \in Keys, v \in Values \cup {NoValue} : put_or_erase(k, v)
      <3>1. ASSUME NEW command, NEW key, NEW value, Write(command, key, value)
            PROVE  \/ \E sh, answer, new : Completes(sh, answer, new)
                   \/ \E mid, op : Error(mid, op)
                   \/ \E mid : Crash(mid)
        <4> DEFINE sh == WithLeader(Sh)
                   c == Context(sh, command, key, value)
                   mid == Electing(Sh) \cup (IF CanAppend(sh) THEN Writing(sh, c) ELSE {})
                   done == IF CanAppend(sh) THEN Replicate(sh, c) ELSE sh
                   refused == Failed("write", IF HasLeader(sh) THEN 400 ELSE 503)
        <4>1. \/ Completes(done, Done, {<<c.index, c.leader.log[c.index]>>})
              \/ Completes(done, Failed("write", 503), {})
              \/ Completes(done, refused, {})
              \/ Error(mid, "write")
              \/ Crash(mid \cup {done})
          BY <3>1 DEF Write
        <4> HIDE DEF mid, done, refused, c
        <4> QED  BY <4>1
      <3> QED  BY <2>1, <2>2, <2>3, <2>4, <3>1 DEF put_or_erase
    <2>5. CASE \E r \in Replicas : fail_replica(r) \/ recover_replica(r)
      BY <2>1, <2>2, <2>3, <2>5 DEF fail_replica, recover_replica
    <2>6. CASE elect_leader
      BY <2>1, <2>2, <2>3, <2>6 DEF elect_leader
    <2>7. CASE Boot
      BY <2>3, <2>7 DEF Boot
    <2> QED  BY <2>4, <2>5, <2>6, <2>7 DEF Next
  <1>2. CASE faults' = faults
    BY <1>2, SMT
  <1>3. CASE faults' = [faults EXCEPT !.crashes = @ + 1]
    BY <1>3, SMT
  <1>4. CASE faults' = [faults EXCEPT !.errors = @ + 1]
    BY <1>4, SMT
  <1> QED  BY <1>1, <1>2, <1>3, <1>4

LEMMA DurableInit ==
    ASSUME Init
    PROVE  DurableInv
  <1> DEFINE new == NewReplica
  <1>1. /\ replicas = [r \in Replicas |-> new] /\ leaderId = NoReplica
        /\ reply = Done /\ up = FALSE /\ acks = {}
        /\ faults = [crashes |-> 0, errors |-> 0]
    BY DEF Init
  <1>2. /\ new.online = TRUE /\ new.currentTerm = 0 /\ new.commitIndex = 0
        /\ new.log = << >> /\ new.meta.currentTerm = 0 /\ new.meta.commitIndex = 0
    BY DEF NewReplica, NoMeta, EmptyLog
  <1>3. Shape(new)
    BY DEF Shape, RepFields, MetaFields, NewReplica, NoMeta
  <1> HIDE DEF new
  <1>4. << >> \in Seq(Entry) /\ 0 \in Nat /\ Len(<< >>) = 0 /\ 1 .. 0 = {}
    BY SMT
  <1>5. Rep(new) /\ Stored(new)
    BY <1>2, <1>3, <1>4 DEF Rep, Stored
  <1>6. Sorted(<< >>) /\ Capped(<< >>, 0) /\ Fit(<< >>, 0, << >>)
    BY <1>4, SMT DEF Sorted, Capped, Fit
  <1>7. \A r \in Replicas : replicas[r] = new
    BY <1>1
  <1>8. replicas = [r \in Replicas |-> replicas[r]] /\ 0 \in Replicas
    <2>1. replicas = [r \in Replicas |-> replicas[r]]
      BY <1>1, <1>7
    <2>2. 0 \in Replicas
      BY NAssumption, SMT DEF Replicas
    <2> QED  BY <2>1, <2>2
  <1>9. Whole(replicas, << >>)
    BY <1>2, <1>4, <1>5, <1>6, <1>7, <1>8, ZenonT(40) DEF Whole, Safe, Held
  <1>10. Sh.replicas = replicas /\ Sh.leader = NoReplica /\ IsShard(Sh)
    BY <1>1 DEF Sh, IsShard
  <1>11. Durable(Sh, acks, up, << >>)
    BY <1>1, <1>2, <1>7, <1>9, <1>10 DEF Durable, Sound, AcksIn
  <1>12. Fine(reply, replicas)
    BY <1>1, ZenonT(40) DEF Fine, Done, Failed
  <1> QED  BY <1>1, <1>11, <1>12 DEF DurableInv

LEMMA DurableStep ==
    ASSUME DurableInv, [Next]_vars
    PROVE  DurableInv'
  <1>1. CASE UNCHANGED vars
    BY <1>1, SMT DEF vars, DurableInv, Sh, Durable, Fine
  <1>2. CASE Next
    <2>1. /\ faults \in [crashes : Nat, errors : Nat]
          /\ faults' \in [crashes : Nat, errors : Nat] /\ faults'.errors >= faults.errors
      BY <1>2, FaultsTyped DEF DurableInv
    <2>2. SUFFICES ASSUME faults'.errors = 0
                   PROVE  (\E C : Durable(Sh, acks, up, C))' /\ Fine(reply, replicas)'
      BY <2>1 DEF DurableInv
    <2>3. faults.errors = 0 /\ faults'.errors # faults.errors + 1
      BY <2>1, <2>2, SMT
    <2>4. PICK C : Durable(Sh, acks, up, C)
      BY <2>3 DEF DurableInv
    <2>5. Good
      BY <1>2, <2>1, <2>3, <2>4, WriteGood, FailGood, RecoverGood, ElectGood, BootGood, ZenonT(40)
         DEF Next
    <2> QED  BY <2>5 DEF Good, Sh, Durable, Fine
  <1> QED  BY <1>1, <1>2

LEMMA AlwaysDurable == Spec => []DurableInv
  <1>1. Init => DurableInv
    BY DurableInit
  <1>2. DurableInv /\ [Next]_vars => DurableInv'
    BY DurableStep
  <1> QED  BY <1>1, <1>2, PTL DEF Spec

\* While no statement fails, crashes at any point of any operation lose no
\* write that put or erase acknowledged: a leader's committed log has it.
THEOREM WritesSurvive == Spec => [](faults.errors = 0 => AckedSurvives)
  <1>1. DurableInv => (faults.errors = 0 => AckedSurvives)
    <2> SUFFICES ASSUME DurableInv, faults.errors = 0, leaderId # NoReplica, NEW a \in acks
                 PROVE  /\ a[1] <= Leader.commitIndex /\ a[1] \in DOMAIN Leader.log
                        /\ Leader.log[a[1]] = a[2]
      BY DEF AckedSurvives
    <2>1. PICK C : Durable(Sh, acks, up, C)
      BY DEF DurableInv
    <2>2. Safe(replicas, C) /\ LeaderOK(replicas, leaderId, C) /\ AcksIn(acks, C)
          /\ Whole(replicas, C)
      BY <2>1 DEF Durable, Sound, Whole, Sh
    <2>3. a[1] \in 1 .. Len(C) /\ C[a[1]] = a[2]
      BY <2>2 DEF AcksIn
    <2>4. /\ Fit(Leader.log, Leader.meta.commitIndex, C)
          /\ Leader.commitIndex = Len(C) /\ Leader.meta.commitIndex = Len(C)
      BY <2>2 DEF Safe, Held, LeaderOK, Leader, Whole, Stored
    <2>5. Leader.log \in Seq(Entry) /\ Len(C) <= Len(Leader.log) /\ C \in Seq(Entry)
          /\ \A i \in 1 .. Len(C) : Leader.log[i] = C[i]
      BY <2>2, <2>4 DEF Fit, Safe
    <2> QED  BY <2>3, <2>4, <2>5, SMT
  <1> QED  BY <1>1, AlwaysDurable, PTL

\* While no statement fails, ensure_leader_locked refuses an election, the one
\* of the constructor after any crash included, only for want of a majority.
THEOREM ElectionsWork == Spec => [](faults.errors = 0 => ElectionsSucceed)
  <1>1. DurableInv => (faults.errors = 0 => ElectionsSucceed)
    BY DEF DurableInv, Fine, Many, ElectionsSucceed, Majority
  <1> QED  BY <1>1, AlwaysDurable, PTL

\* While no statement fails, a write that replicate_command_locked refuses
\* although a majority is online leaves no uncommitted entry on anyone online.
THEOREM RefusalsClean == Spec => [](faults.errors = 0 => RefusalCleansUp)
  <1>1. DurableInv => (faults.errors = 0 => RefusalCleansUp)
    BY DEF DurableInv, Fine, Many, Clean, RefusalCleansUp, Majority
  <1> QED  BY <1>1, AlwaysDurable, PTL
=============================================================================
