----------------------------- MODULE FaultSteps -----------------------------
(***************************************************************************)
(* The replicas of a shard whose operations are cut short.                 *)
(*                                                                         *)
(* The replicas of this model carry their meta rows, and an operation may  *)
(* leave them in any of the states it passes through.  The first sections  *)
(* say which fields a method changes and which combinations of old and new *)
(* fields a replica can be caught with, for the methods of a replica and   *)
(* for the replication of an entry.                                        *)
(*                                                                         *)
(* The others say what a shard must keep on its disks.  For durability it  *)
(* is described relative to a log C that it has committed: every replica   *)
(* has committed a prefix of C, and if that is not all of C, its log does  *)
(* not beat C in the order by which votes are given (Fit).  For the terms, *)
(* the term of the last leader is on some disk, and no disk is ahead of    *)
(* memory (Terms).                                                         *)
(***************************************************************************)
EXTENDS ShardFaults, FiniteSetTheorems, NaturalsInduction, TLAPS

\* The steps are first-order reasoning unless they say otherwise.
USE Zenon

(* Replicas, majorities and terms.                                         *)

\* last_log_index of a table with rows 1..n.
LEMMA LastIndex ==
    ASSUME NEW log, NEW n \in Nat, DOMAIN log = 1 .. n
    PROVE  last_log_index(log) = n
  <1>1. n \in {0} \cup 1 .. n /\ \A y \in {0} \cup 1 .. n : n >= y
    BY SMT
  <1>2. \A x \in {0} \cup 1 .. n : (\A y \in {0} \cup 1 .. n : x >= y) => x = n
    BY SMT
  <1> QED
    BY <1>1, <1>2 DEF last_log_index, Max

\* A finite, nonempty set of integers has a largest element.
LEMMA MaxExists ==
    ASSUME NEW S \in SUBSET Int, IsFiniteSet(S), S # {}
    PROVE  Max(S) \in S /\ \A y \in S : Max(S) >= y
  <1> DEFINE HasMax(X) == \E x \in X : \A y \in X : x >= y
             Bad == {X \in FiniteSubsetsOf(Int) : X # {} /\ ~HasMax(X)}
  <1>1. Bad = {}
    <2> SUFFICES ASSUME Bad # {} PROVE FALSE
      OBVIOUS
    <2>1. PICK X \in Bad : \A Y \in Bad : <<Y, X>> \notin StrictSubsetOrdering(Int)
      <3>1. Bad \subseteq FiniteSubsetsOf(Int)
        OBVIOUS
      <3>2. IsWellFoundedOn(StrictSubsetOrdering(Int), FiniteSubsetsOf(Int))
        BY FS_StrictSubsetOrderingWellFounded
      <3> HIDE DEF Bad
      <3> QED BY <3>1, <3>2, WFMin
    <2>2. X \in SUBSET Int /\ IsFiniteSet(X) /\ X # {} /\ ~HasMax(X)
      BY DEF FiniteSubsetsOf
    <2>3. PICK a \in X : TRUE
      BY <2>2
    <2> DEFINE Y == X \ {a}
    <2>4. IsFiniteSet(Y) /\ Y \subseteq Int
      BY <2>2, FS_RemoveElement
    <2>5. <<Y, X>> \in StrictSubsetOrdering(Int)
      BY <2>2, <2>3 DEF StrictSubsetOrdering
    <2>6. Y \in FiniteSubsetsOf(Int) /\ Y \notin Bad
      BY <2>1, <2>4, <2>5 DEF FiniteSubsetsOf
    <2>7. CASE Y = {}
      BY <2>2, <2>3, <2>7, SMT
    <2>8. CASE Y # {}
      <3>1. PICK b \in Y : \A y \in Y : b >= y
        BY <2>6, <2>8
      <3>2. CASE a >= b
        BY <2>2, <2>3, <2>4, <3>1, <3>2, SMT
      <3>3. CASE ~(a >= b)
        BY <2>2, <2>3, <2>4, <3>1, <3>3, SMT
      <3> QED BY <3>2, <3>3
    <2> QED BY <2>7, <2>8
  <1>2. S \in FiniteSubsetsOf(Int)
    BY DEF FiniteSubsetsOf
  <1>3. HasMax(S)
    BY <1>1, <1>2
  <1> QED
    BY <1>3 DEF Max

\* A nonempty set of naturals has a smallest element.
LEMMA MinExists ==
    ASSUME NEW S \in SUBSET Nat, S # {}
    PROVE  \E x \in S : \A y \in S : x <= y
  <1>1. IsWellFoundedOn(OpToRel(<, Nat), Nat)
    BY NatLessThanWellFounded
  <1>2. PICK x \in S : \A y \in S : ~(<<y, x>> \in OpToRel(<, Nat))
    BY <1>1, WFMin
  <1>3. \A y \in S : ~(y < x)
    BY <1>2 DEF OpToRel
  <1> QED
    BY <1>3, SMT

\* Sets of replicas are finite and have at most N members.
LEMMA ReplicasFinite ==
    /\ IsFiniteSet(Replicas) /\ Cardinality(Replicas) = N
    /\ Replicas \subseteq Nat
    /\ \A S \in SUBSET Replicas : IsFiniteSet(S) /\ Cardinality(S) \in Nat
                                  /\ Cardinality(S) <= N
  <1>1. N \in Nat /\ N > 0
    BY NAssumption, SMT
  <1>2. IsFiniteSet(Replicas) /\ Cardinality(Replicas) = N
    BY <1>1, FS_Interval, SMT DEF Replicas
  <1>3. \A S \in SUBSET Replicas : IsFiniteSet(S) /\ Cardinality(S) <= N
    BY <1>2, FS_Subset
  <1>4. \A S \in SUBSET Replicas : Cardinality(S) \in Nat
    BY <1>3, FS_CardinalityType
  <1> QED
    BY <1>1, <1>2, <1>3, <1>4, SMT DEF Replicas

\* quorum, replicas_.size() / 2 + 1, asks for more than half of the replicas.
LEMMA QuorumFacts ==
    /\ Quorum \in Nat
    /\ \A n \in Nat : n >= Quorum <=> 2 * n > N
  <1>1. N \in Nat
    BY NAssumption
  <1> QED
    BY <1>1, SMT DEF Quorum

\* Two majorities have a replica in common.
LEMMA QuorumIntersect ==
    ASSUME NEW S \in SUBSET Replicas, 2 * Cardinality(S) > N,
           NEW T \in SUBSET Replicas, 2 * Cardinality(T) > N
    PROVE  \E r \in S : r \in T
  <1>1. Cardinality(S) \in Nat /\ Cardinality(T) \in Nat /\ N \in Nat
    BY ReplicasFinite, NAssumption
  <1>2. Cardinality(S) + Cardinality(T) > Cardinality(Replicas)
    BY <1>1, ReplicasFinite, SMT
  <1>3. IsFiniteSet(Replicas)
    BY ReplicasFinite
  <1>4. S \cap T # {}
    BY <1>2, <1>3, FS_MajoritiesIntersect
  <1> QED
    BY <1>4

\* A set with a majority in it is a majority.
LEMMA MajorityGrows ==
    ASSUME NEW S \in SUBSET Replicas, 2 * Cardinality(S) > N,
           NEW T \in SUBSET Replicas, S \subseteq T
    PROVE  2 * Cardinality(T) > N
  <1>1. Cardinality(S) \in Nat /\ Cardinality(T) \in Nat /\ N \in Nat
        /\ IsFiniteSet(T)
    BY ReplicasFinite, NAssumption
  <1>2. Cardinality(S) <= Cardinality(T)
    BY <1>1, FS_Subset
  <1> QED
    BY <1>1, <1>2, SMT

\* next_term is larger than the term of every replica, online or not.
LEMMA NextTermGrows ==
    ASSUME NEW reps, \A r \in Replicas : reps[r].currentTerm \in Nat
    PROVE  /\ NextTerm(reps) \in Nat
           /\ \A r \in Replicas : reps[r].currentTerm < NextTerm(reps)
  <1> DEFINE T == {reps[r].currentTerm + 1 : r \in Replicas}
             S == {1} \cup T
  <1>1. \A r \in Replicas : reps[r].currentTerm \in Nat
    OBVIOUS
  <1>2. IsFiniteSet(T)
    <2> DEFINE f == [r \in Replicas |-> reps[r].currentTerm + 1]
    <2>1. f \in Surjection(Replicas, T)
      BY DEF Surjection
    <2> QED BY <2>1, ReplicasFinite, FS_Surjection
  <1>3. IsFiniteSet(S)
    <2>1. S = T \cup {1}
      OBVIOUS
    <2> QED BY <1>2, <2>1, FS_AddElement
  <1>4. S \in SUBSET Nat /\ S \in SUBSET Int /\ S # {}
    BY <1>1, SMT
  <1>5. Max(S) \in S /\ \A y \in S : Max(S) >= y
    <2> HIDE DEF S
    <2> QED BY <1>3, <1>4, MaxExists
  <1>6. NextTerm(reps) = Max(S)
    BY DEF NextTerm
  <1>7. NextTerm(reps) \in Nat
    BY <1>4, <1>5, <1>6
  <1>8. ASSUME NEW r \in Replicas PROVE reps[r].currentTerm < NextTerm(reps)
    <2>1. reps[r].currentTerm + 1 \in S
      OBVIOUS
    <2>2. NextTerm(reps) >= reps[r].currentTerm + 1
      BY <1>5, <1>6, <2>1
    <2> QED BY <1>1, <1>7, <2>2, SMT
  <1> QED
    BY <1>7, <1>8
-----------------------------------------------------------------------------
(* Replicas with their meta rows.                                          *)

RepFields == {"online", "role", "currentTerm", "votedFor", "commitIndex",
              "lastApplied", "log", "kv", "meta"}

MetaFields == {"currentTerm", "votedFor", "commitIndex", "lastApplied"}

\* A record of a replica, with its meta rows.
Shape(r) == /\ r = [f \in RepFields |-> r[f]]
            /\ r.meta = [f \in MetaFields |-> r.meta[f]]

\* The fields that elections and durability depend on: the role, the vote and
\* what is applied do not.
Same(p, r) ==
    /\ Shape(p)
    /\ p.online = r.online
    /\ p.currentTerm = r.currentTerm
    /\ p.commitIndex = r.commitIndex
    /\ p.log = r.log

\* Their types.
Rep(r) == /\ Shape(r)
          /\ r.online \in BOOLEAN
          /\ r.currentTerm \in Nat
          /\ r.commitIndex \in Nat
          /\ r.log \in Seq(Entry)
          /\ r.meta.currentTerm \in Nat
          /\ r.meta.commitIndex \in Nat
-----------------------------------------------------------------------------
(* The methods, field by field.                                            *)

\* Rows of the meta table are written.
LEMMA MetaFieldsOf ==
    ASSUME NEW r, Shape(r), NEW m, m = [f \in MetaFields |-> m[f]],
           NEW p, p = [r EXCEPT !.meta = m]
    PROVE  Same(p, r) /\ p.meta = m
  BY DEF Shape, Same, RepFields, MetaFields

\* persist_state copies the fields to the meta table.
LEMMA PersistStep ==
    ASSUME NEW r, Shape(r), NEW p, p = persist_state(r)
    PROVE  /\ Same(p, r)
           /\ p.meta.currentTerm = r.currentTerm
           /\ p.meta.commitIndex = r.commitIndex
  BY DEF Shape, Same, RepFields, MetaFields, persist_state

\* Applying entries changes the kv table and lastApplied only.
LEMMA ApplyStepFields ==
    ASSUME NEW r, Shape(r), NEW I, NEW p, p = Apply(r, I)
    PROVE  Same(p, r) /\ p.meta = r.meta
  BY DEF Shape, Same, RepFields, MetaFields, Apply

\* set_role changes nothing that matters here.
LEMMA RoleFields ==
    ASSUME NEW r, Shape(r), NEW role, NEW p, p = set_role(r, role)
    PROVE  Same(p, r) /\ p.meta = r.meta
  BY DEF Shape, Same, RepFields, MetaFields, set_role

\* set_online leaves the data and the rows on disk alone.
LEMMA OnlineFields ==
    ASSUME NEW r, Shape(r), NEW o, NEW p, p = set_online(r, o)
    PROVE  /\ Shape(p) /\ p.online = o /\ p.meta = r.meta
           /\ p.currentTerm = r.currentTerm
           /\ p.commitIndex = r.commitIndex /\ p.log = r.log
  BY DEF Shape, RepFields, MetaFields, set_online

\* What the process finds on disk is in the meta rows and the log.
LEMMA DiskFields ==
    ASSUME NEW r, Shape(r), NEW p, p = OnDisk(r)
    PROVE  /\ Shape(p) /\ p.online = TRUE /\ p.meta = r.meta
           /\ p.currentTerm = r.meta.currentTerm
           /\ p.commitIndex = r.meta.commitIndex /\ p.log = r.log
  BY DEF Shape, RepFields, MetaFields, OnDisk

\* request_vote in a newer term: the term is adopted by whoever is online.
LEMMA VoteFields ==
    ASSUME NEW f, Rep(f), NEW term \in Nat, term > f.currentTerm,
           NEW c, NEW li, NEW lt, NEW g, g = request_vote(f, term, c, li, lt)
    PROVE  /\ Shape(g) /\ g.online = f.online /\ g.meta = f.meta
           /\ g.currentTerm = IF f.online THEN term ELSE f.currentTerm
           /\ g.commitIndex = f.commitIndex /\ g.log = f.log
  <1>1. f.currentTerm \in Nat /\ Shape(f)
    BY DEF Rep
  <1>2. CASE ~f.online
    BY <1>1, <1>2 DEF request_vote
  <1>3. CASE f.online
    <2>1. ~(term < f.currentTerm)
      BY <1>1, SMT
    <2>2. PICK role, vote : g = [f EXCEPT !.currentTerm = term, !.role = role,
                                          !.votedFor = vote]
      BY <1>3, <2>1 DEF request_vote
    <2> QED  BY <1>1, <1>3, <2>2 DEF Shape, RepFields, MetaFields
  <1> QED  BY <1>2, <1>3

\* The end of a log without gaps.
LEMMA LogEnd ==
    ASSUME NEW log \in Seq(Entry)
    PROVE  /\ last_log_index(log) = Len(log)
           /\ last_log_term(log) = IF Len(log) = 0 THEN 0 ELSE log[Len(log)].term
           /\ last_log_term(log) \in Nat
           /\ \A i \in 1 .. Len(log) : log[i] \in Entry /\ log[i].term \in Nat
  <1>1. DOMAIN log = 1 .. Len(log) /\ Len(log) \in Nat
    BY SMT
  <1>2. last_log_index(log) = Len(log)
    BY <1>1, LastIndex
  <1>3. DOMAIN log = {} <=> Len(log) = 0
    <2>1. \A n \in Nat : 1 .. n = {} <=> n = 0
      BY SMT
    <2> QED  BY <1>1, <2>1
  <1>4. \A i \in 1 .. Len(log) : log[i] \in Entry /\ log[i].term \in Nat
    <2>1. \A i \in 1 .. Len(log) : log[i] \in Entry
      BY SMT
    <2>2. \A e \in Entry : e.term \in Nat
      BY DEF Entry
    <2> QED  BY <2>1, <2>2
  <1>5. last_log_term(log) = IF Len(log) = 0 THEN 0 ELSE log[Len(log)].term
    BY <1>2, <1>3 DEF last_log_term
  <1>6. Len(log) # 0 => Len(log) \in 1 .. Len(log)
    BY <1>1, SMT
  <1>7. last_log_term(log) \in Nat
    BY <1>4, <1>5, <1>6, SMT
  <1> QED  BY <1>2, <1>4, <1>5, <1>7

\* A row inserted behind the last one is appended.
LEMMA AppendLog ==
    ASSUME NEW log \in Seq(Entry), NEW e \in Entry
    PROVE  append_log(log, Len(log) + 1, e) = Append(log, e)
  <1>1. DOMAIN log \cup {Len(log) + 1} = 1 .. Len(log) + 1
    BY SMT
  <1>2. append_log(log, Len(log) + 1, e)
           = [i \in 1 .. Len(log) + 1 |-> IF i = Len(log) + 1 THEN e ELSE log[i]]
    BY <1>1 DEF append_log
  <1>3. Append(log, e) = [i \in 1 .. Len(log) + 1 |-> Append(log, e)[i]]
    <2>1. Append(log, e) \in Seq(Entry) /\ Len(Append(log, e)) = Len(log) + 1
      BY SMT
    <2>2. \A s \in Seq(Entry) : s = [i \in 1 .. Len(s) |-> s[i]]
      BY SMT
    <2> QED  BY <2>1, <2>2
  <1>4. \A i \in 1 .. Len(log) + 1 :
           Append(log, e)[i] = IF i = Len(log) + 1 THEN e ELSE log[i]
    BY SMT
  <1> QED  BY <1>2, <1>3, <1>4

\* append_local appends an entry of the leader's term.
LEMMA AppendLocalFields ==
    ASSUME NEW r, Rep(r), NEW command \in Commands, NEW key \in Keys,
           NEW value \in Values \cup {NoValue},
           NEW e, e = NewEntry(r, command, key, value),
           NEW g, g = append_local(r, command, key, value)
    PROVE  /\ Shape(g) /\ g.online = r.online /\ g.meta = r.meta
           /\ g.currentTerm = r.currentTerm /\ g.commitIndex = r.commitIndex
           /\ g.log = Append(r.log, e)
           /\ e \in Entry /\ e.term = r.currentTerm
  <1>1. Shape(r) /\ r.log \in Seq(Entry) /\ r.currentTerm \in Nat
    BY DEF Rep
  <1>2. e \in Entry /\ e.term = r.currentTerm
    BY <1>1 DEF NewEntry, Entry
  <1>3. g = [r EXCEPT !.log = append_log(r.log, last_log_index(r.log) + 1, e)]
    BY <1>1 DEF append_local
  <1>4. append_log(r.log, last_log_index(r.log) + 1, e) = Append(r.log, e)
    <2>1. last_log_index(r.log) = Len(r.log)
      BY <1>1, LogEnd
    <2> QED  BY <1>1, <1>2, <2>1, AppendLog
  <1> QED  BY <1>1, <1>2, <1>3, <1>4 DEF Shape, RepFields, MetaFields

\* A truncated log is a log.
LEMMA TruncatedLog ==
    ASSUME NEW log \in Seq(Entry), NEW n \in Nat,
           NEW short, short = truncate_log_from(log, n + 1)
    PROVE  /\ short \in Seq(Entry)
           /\ Len(short) = IF n < Len(log) THEN n ELSE Len(log)
           /\ \A i \in 1 .. Len(short) : short[i] = log[i]
  <1> DEFINE m == IF n < Len(log) THEN n ELSE Len(log)
  <1>1. {j \in DOMAIN log : j < n + 1} = 1 .. m /\ m \in Nat
    BY SMT
  <1>2. short = [i \in 1 .. m |-> log[i]]
    BY <1>1 DEF truncate_log_from
  <1>3. \A i \in 1 .. m : log[i] \in Entry
    BY SMT
  <1> HIDE DEF m
  <1> QED  BY <1>1, <1>2, <1>3, SMT DEF m

\* discard_uncommitted truncates the log at the commit index.
LEMMA DiscardFields ==
    ASSUME NEW r, Rep(r), NEW g, g = discard_uncommitted(r)
    PROVE  /\ Shape(g) /\ g.online = r.online /\ g.meta = r.meta
           /\ g.currentTerm = r.currentTerm /\ g.commitIndex = r.commitIndex
           /\ g.log = truncate_log_from(r.log, r.commitIndex + 1)
           /\ g.log \in Seq(Entry)
  <1>1. Shape(r) /\ r.log \in Seq(Entry) /\ r.commitIndex \in Nat
    BY DEF Rep
  <1>2. truncate_log_from(r.log, r.commitIndex + 1) \in Seq(Entry)
    BY <1>1, TruncatedLog
  <1> QED  BY <1>1, <1>2 DEF discard_uncommitted, Shape, RepFields, MetaFields

\* The snapshot of a replica.
LEMMA SnapshotFields ==
    ASSUME NEW r, Rep(r), NEW snapshot, snapshot = export_snapshot(r)
    PROVE  /\ snapshot.term = r.currentTerm
           /\ snapshot.commitIndex = r.commitIndex
           /\ snapshot.log = truncate_log_from(r.log, r.commitIndex + 1)
           /\ snapshot.term \in Nat /\ snapshot.commitIndex \in Nat
           /\ snapshot.log \in Seq(Entry)
  <1>1. r.log \in Seq(Entry) /\ r.commitIndex \in Nat /\ r.currentTerm \in Nat
    BY DEF Rep
  <1>2. truncate_log_from(r.log, r.commitIndex + 1) \in Seq(Entry)
    BY <1>1, TruncatedLog
  <1> QED  BY <1>1, <1>2 DEF export_snapshot

\* install_snapshot does nothing to a replica that is offline.
LEMMA InstallOffline ==
    ASSUME NEW r, r.online = FALSE, NEW snapshot
    PROVE  install_snapshot(r, snapshot) = r
  BY DEF install_snapshot

\* install_snapshot replaces the log and commits what the snapshot commits.
LEMMA InstallFields ==
    ASSUME NEW r, Shape(r), r.online = TRUE, NEW snapshot
    PROVE  LET g == install_snapshot(r, snapshot)
           IN  /\ Shape(g) /\ g.online = r.online /\ g.meta = r.meta
               /\ g.currentTerm = Larger(r.currentTerm, snapshot.term)
               /\ g.commitIndex = Smaller(snapshot.commitIndex,
                                          last_log_index(snapshot.log))
               /\ g.log = snapshot.log
  <1> DEFINE g == install_snapshot(r, snapshot)
             target == Smaller(snapshot.commitIndex, last_log_index(snapshot.log))
             cleared == [r EXCEPT !.currentTerm = Larger(@, snapshot.term),
                                  !.votedFor = NoReplica, !.role = "Follower",
                                  !.lastApplied = 0, !.kv = EmptyKV,
                                  !.log = snapshot.log]
             a == Apply(cleared, Present(cleared.log, 1, target))
  <1>1. g = [a EXCEPT !.commitIndex = target]
    BY DEF install_snapshot
  <1> HIDE DEF g
  <1>2. /\ Shape(cleared) /\ cleared.online = r.online /\ cleared.meta = r.meta
        /\ cleared.currentTerm = Larger(r.currentTerm, snapshot.term)
        /\ cleared.log = snapshot.log
    BY DEF Shape, RepFields, MetaFields
  <1> HIDE DEF cleared
  <1>3. Same(a, cleared) /\ a.meta = cleared.meta
    BY <1>2, ApplyStepFields
  <1> HIDE DEF a
  <1>4. /\ Shape(g) /\ g.online = r.online /\ g.meta = r.meta
        /\ g.currentTerm = Larger(r.currentTerm, snapshot.term)
        /\ g.commitIndex = target /\ g.log = snapshot.log
    BY <1>1, <1>2, <1>3 DEF Same, Shape, RepFields, MetaFields
  <1> QED  BY <1>4 DEF g

\* commit_to moves the commit index only.
LEMMA CommitFields ==
    ASSUME NEW r, Rep(r), r.online = TRUE, NEW index \in Nat, NEW g, g = commit_to(r, index)
    PROVE  /\ Shape(g) /\ g.online = r.online /\ g.meta = r.meta
           /\ g.currentTerm = r.currentTerm /\ g.log = r.log
           /\ g.commitIndex = Larger(r.commitIndex, Smaller(index, Len(r.log)))
  <1>1. Shape(r) /\ last_log_index(r.log) = Len(r.log)
    BY LogEnd DEF Rep
  <1> DEFINE target == Smaller(index, last_log_index(r.log))
             a == Apply(r, UpToGap(r.log, r.lastApplied + 1, target))
  <1>2. g = [a EXCEPT !.commitIndex = Larger(@, target)]
    BY DEF commit_to
  <1>3. Same(a, r) /\ a.meta = r.meta
    BY <1>1, ApplyStepFields
  <1> HIDE DEF a
  <1>4. /\ Shape(g) /\ g.online = r.online /\ g.meta = r.meta
        /\ g.currentTerm = r.currentTerm /\ g.log = r.log
        /\ g.commitIndex = Larger(r.commitIndex, target)
    BY <1>2, <1>3, ZenonT(40) DEF Same, Shape, RepFields, MetaFields
  <1> QED  BY <1>1, <1>4

\* load_state changes neither the log nor the meta rows.
LEMMA LoadFields ==
    ASSUME NEW r, Shape(r), NEW g, g = load_state(r)
    PROVE  /\ Shape(g) /\ g.online = TRUE /\ g.meta = r.meta
           /\ g.currentTerm = r.currentTerm /\ g.log = r.log
           /\ g.commitIndex = r.commitIndex
  <1> DEFINE opened == [r EXCEPT !.online = TRUE, !.role = "Follower"]
             a == Apply(opened, Present(r.log, r.lastApplied + 1, r.commitIndex))
  <1>1. g = opened \/ g = a
    BY DEF load_state
  <1>2. /\ Shape(opened) /\ opened.online = TRUE /\ opened.meta = r.meta
        /\ opened.currentTerm = r.currentTerm /\ opened.log = r.log
        /\ opened.commitIndex = r.commitIndex
    BY DEF Shape, RepFields, MetaFields
  <1> HIDE DEF opened
  <1>3. Same(a, opened) /\ a.meta = opened.meta
    BY <1>2, ApplyStepFields
  <1> HIDE DEF a
  <1> QED  BY <1>1, <1>2, <1>3 DEF Same

\* Merging one entry into a log that reaches up to it gives a log.
LEMMA MergeLogOne ==
    ASSUME NEW log \in Seq(Entry), NEW n \in 0 .. Len(log), NEW e \in Entry
    PROVE  /\ MergeLog(log, [i \in {n + 1} |-> e]) \in Seq(Entry)
           /\ n = Len(log) => MergeLog(log, [i \in {n + 1} |-> e]) = Append(log, e)
  <1> DEFINE new == MergeLog(log, [i \in {n + 1} |-> e])
             entries == [i \in {n + 1} |-> e]
             conflict == {i \in DOMAIN entries \cap DOMAIN log :
                             log[i].term # entries[i].term}
             kept == {j \in DOMAIN log : \A i \in conflict : j < i}
  <1> SUFFICES new \in Seq(Entry) /\ (n = Len(log) => new = Append(log, e))
    OBVIOUS
  <1>1. new = [j \in kept \cup {n + 1} |-> IF j \in kept THEN log[j] ELSE e]
    BY DEF MergeLog
  <1> HIDE DEF new
  <1>2. DOMAIN log = 1 .. Len(log)
    BY SMT
  <1>3. n \in Nat /\ Len(log) \in Nat
    BY SMT
  <1>4. /\ n = Len(log) <=> n + 1 \notin DOMAIN log
        /\ n < Len(log) <=> n + 1 \in DOMAIN log
    BY SMT
  <1>5. CASE n + 1 \in DOMAIN log /\ log[n + 1].term # e.term
    <2>0. n < Len(log) /\ n # Len(log)
      BY <1>4, <1>5
    <2>1. conflict = {n + 1}
      BY <1>5
    <2>2. kept = {j \in 1 .. Len(log) : j < n + 1}
      BY <1>2, <2>1
    <2>3. kept = 1 .. n
      <3>1. {j \in 1 .. Len(log) : j < n + 1} = 1 .. n
        BY <1>3, <2>0, SMT
      <3> QED  BY <2>2, <3>1
    <2> HIDE DEF kept
    <2>4. kept \cup {n + 1} = 1 .. n + 1
      BY <1>3, <2>3, SMT
    <2>5. new = [j \in 1 .. n + 1 |-> IF j \in kept THEN log[j] ELSE e]
      BY <1>1, <2>4
    <2>6. \A j \in 1 .. n + 1 : (IF j \in kept THEN log[j] ELSE e) \in Entry
      <3>1. \A j \in 1 .. n : log[j] \in Entry
        BY <1>3, <2>0, SMT
      <3> QED  BY <2>3, <3>1
    <2>7. new \in Seq(Entry)
      <3>1. n + 1 \in Nat
        BY <1>3, SMT
      <3>2. new \in [1 .. n + 1 -> Entry]
        BY <2>5, <2>6
      <3> QED  BY <3>1, <3>2, SMT
    <2> QED  BY <2>0, <2>7
  <1>6. CASE n + 1 \in DOMAIN log /\ log[n + 1].term = e.term
    <2>1. conflict = {}
      BY <1>6
    <2>2. kept = DOMAIN log
      BY <2>1
    <2>3. kept \cup {n + 1} = DOMAIN log
      BY <1>6, <2>2
    <2> HIDE DEF kept
    <2>4. new = [j \in DOMAIN log |-> log[j]]
      BY <1>1, <2>2, <2>3
    <2>5. new = log
      BY <2>4, SMT
    <2>6. n # Len(log)
      BY <1>4, <1>6
    <2> QED  BY <2>5, <2>6
  <1>7. CASE n + 1 \notin DOMAIN log
    <2>1. conflict = {}
      BY <1>7
    <2>2. kept = DOMAIN log
      BY <2>1
    <2>3. n = Len(log)
      BY <1>4, <1>7
    <2> HIDE DEF kept
    <2>4. new = append_log(log, n + 1, e)
      BY <1>1, <1>7, <2>2 DEF append_log
    <2>5. new = Append(log, e)
      BY <2>3, <2>4, AppendLog
    <2> QED  BY <2>5, SMT
  <1> QED  BY <1>5, <1>6, <1>7

\* append_entries: a stale or an unreachable call changes nothing, a mismatch
\* the term only, and otherwise the entries are merged and committed.
LEMMA EntriesFields ==
    ASSUME NEW f, Rep(f), NEW term \in Nat, NEW l, NEW pi, NEW pt, NEW entries,
           NEW lc, NEW log, log = MergeLog(f.log, entries),
           NEW commit, commit = Smaller(lc, last_log_index(log)),
           NEW g, g = append_entries(f, term, l, pi, pt, entries, lc)
    PROVE  /\ Shape(g) /\ g.online = f.online /\ g.meta = f.meta
           /\ ~f.online \/ term < f.currentTerm => g = f
           /\ f.online /\ ~(term < f.currentTerm) =>
                 /\ g.currentTerm = term
                 /\ ~AppendAccepted(f, term, pi, pt) =>
                       g.log = f.log /\ g.commitIndex = f.commitIndex
                 /\ AppendAccepted(f, term, pi, pt) =>
                       /\ g.log = log
                       /\ g.commitIndex = IF commit <= f.commitIndex
                                          THEN f.commitIndex ELSE commit
  <1>1. Shape(f)
    BY DEF Rep
  <1> DEFINE heard == [f EXCEPT !.currentTerm = term, !.role = "Follower",
                                !.votedFor = l]
             merged == [heard EXCEPT !.log = MergeLog(@, entries)]
             last == Smaller(lc, last_log_index(merged.log))
             a == Apply(merged, UpToGap(merged.log, f.lastApplied + 1, last))
             done == [a EXCEPT !.commitIndex = last]
  <1>2. /\ Shape(heard) /\ heard.online = f.online /\ heard.meta = f.meta
        /\ heard.currentTerm = term /\ heard.log = f.log
        /\ heard.commitIndex = f.commitIndex
    BY <1>1 DEF Shape, RepFields, MetaFields
  <1>3. /\ Shape(merged) /\ merged.online = f.online /\ merged.meta = f.meta
        /\ merged.currentTerm = term /\ merged.log = log
        /\ merged.commitIndex = f.commitIndex
    <2> HIDE DEF heard
    <2> QED  BY <1>2 DEF Shape, RepFields, MetaFields
  <1>4. g = IF ~f.online \/ term < f.currentTerm THEN f
            ELSE IF ~AppendAccepted(f, term, pi, pt) THEN heard
            ELSE IF last <= f.commitIndex THEN merged ELSE done
    BY DEF append_entries
  <1> HIDE DEF heard, merged
  <1>5. last = commit
    BY <1>3
  <1> HIDE DEF last
  <1>6. Same(a, merged) /\ a.meta = merged.meta
    BY <1>3, ApplyStepFields
  <1> HIDE DEF a
  <1>7. /\ Shape(done) /\ done.online = f.online /\ done.meta = f.meta
        /\ done.currentTerm = term /\ done.log = log
        /\ done.commitIndex = commit
    BY <1>3, <1>5, <1>6 DEF Same, Shape, RepFields, MetaFields
  <1> HIDE DEF done
  <1> QED  BY <1>1, <1>2, <1>3, <1>4, <1>5, <1>7
-----------------------------------------------------------------------------
(* The states in which a method can be caught.                             *)

\* p is on its way from r to new, and its log is no older than its meta rows.
Between(p, r, new) ==
    /\ Shape(p)
    /\ p.online \in {r.online, new.online}
    /\ p.commitIndex \in {r.commitIndex, new.commitIndex}
    /\ \/ /\ p.currentTerm = r.currentTerm
          /\ p.meta.currentTerm = r.meta.currentTerm
       \/ /\ p.currentTerm = new.currentTerm
          /\ p.meta.currentTerm \in {r.meta.currentTerm, new.currentTerm}
    /\ \/ /\ p.log = r.log
          /\ p.meta.commitIndex = r.meta.commitIndex
       \/ /\ p.log = new.log
          /\ p.meta.commitIndex \in {r.meta.commitIndex, new.commitIndex}

\* persist_state writes the term, the vote and the commit index in this order.
LEMMA PersistingStates ==
    ASSUME NEW r, Shape(r), NEW p \in Persisting(r)
    PROVE  /\ Same(p, r)
           /\ p.meta.currentTerm \in {r.meta.currentTerm, r.currentTerm}
           /\ p.meta.commitIndex \in {r.meta.commitIndex, r.commitIndex}
  <1> DEFINE m1 == [r.meta EXCEPT !.currentTerm = r.currentTerm]
             m2 == [m1 EXCEPT !.votedFor = r.votedFor]
             m3 == [m2 EXCEPT !.commitIndex = r.commitIndex]
             m4 == [currentTerm |-> r.currentTerm, votedFor |-> r.votedFor,
                    commitIndex |-> r.commitIndex, lastApplied |-> r.lastApplied]
  <1>1. PICK m \in {r.meta, m1, m2, m3, m4} : p = [r EXCEPT !.meta = m]
    BY DEF Persisting, persist_state
  <1>2. /\ m1 = [f \in MetaFields |-> m1[f]] /\ m1.currentTerm = r.currentTerm
        /\ m1.commitIndex = r.meta.commitIndex
    BY DEF Shape, MetaFields
  <1>3. /\ m2 = [f \in MetaFields |-> m2[f]] /\ m2.currentTerm = r.currentTerm
        /\ m2.commitIndex = r.meta.commitIndex
    <2> HIDE DEF m1
    <2> QED  BY <1>2 DEF MetaFields
  <1>4. /\ m3 = [f \in MetaFields |-> m3[f]] /\ m3.currentTerm = r.currentTerm
        /\ m3.commitIndex = r.commitIndex
    <2> HIDE DEF m2
    <2> QED  BY <1>3 DEF MetaFields
  <1>5. /\ m4 = [f \in MetaFields |-> m4[f]] /\ m4.currentTerm = r.currentTerm
        /\ m4.commitIndex = r.commitIndex
    BY DEF MetaFields
  <1> HIDE DEF m1, m2, m3, m4
  <1> QED  BY <1>1, <1>2, <1>3, <1>4, <1>5, MetaFieldsOf DEF Shape

\* A loop that applies entries.
LEMMA ApplyingStates ==
    ASSUME NEW r, Shape(r), NEW I, NEW p \in Applying(r, I)
    PROVE  Same(p, r) /\ p.meta = r.meta
  <1>1. PICK J : p = Apply(r, J)
    BY DEF Applying
  <1> QED  BY <1>1, ApplyStepFields

\* request_vote ends with persist_state.
LEMMA VotingStates ==
    ASSUME NEW r, Shape(r), NEW new, Shape(new), new.online = r.online,
           new.meta = r.meta, new.log = r.log, new.commitIndex = r.commitIndex,
           NEW p \in Voting(r, new)
    PROVE  Between(p, r, new)
  <1>1. CASE p = r
    BY <1>1 DEF Between
  <1>2. CASE p \in Persisting(new)
    <2>1. /\ Same(p, new)
          /\ p.meta.currentTerm \in {new.meta.currentTerm, new.currentTerm}
          /\ p.meta.commitIndex \in {new.meta.commitIndex, new.commitIndex}
      BY <1>2, PersistingStates
    <2> QED  BY <2>1 DEF Between, Same
  <1> QED  BY <1>1, <1>2 DEF Voting

\* append_entries: the term in memory, the log, the kv table, the meta rows.
LEMMA AppendingStates ==
    ASSUME NEW r, Shape(r), NEW new, Shape(new), new.online = r.online,
           new.meta = r.meta, NEW p \in Appending(r, new)
    PROVE  Between(p, r, new)
  <1> DEFINE heard == [r EXCEPT !.currentTerm = new.currentTerm, !.role = new.role,
                                !.votedFor = new.votedFor]
             merged == [heard EXCEPT !.log = new.log]
  <1>1. /\ Shape(heard) /\ heard.online = r.online /\ heard.meta = r.meta
        /\ heard.currentTerm = new.currentTerm /\ heard.log = r.log
        /\ heard.commitIndex = r.commitIndex
    BY DEF Shape, RepFields, MetaFields
  <1>2. /\ Shape(merged) /\ merged.online = r.online /\ merged.meta = r.meta
        /\ merged.currentTerm = new.currentTerm /\ merged.log = new.log
        /\ merged.commitIndex = r.commitIndex
    <2> HIDE DEF heard
    <2> QED  BY <1>1 DEF Shape, RepFields, MetaFields
  <1>3. \/ p = r \/ p = heard \/ p \in Persisting(new)
        \/ \E I : p \in Applying(merged, I)
    BY DEF Appending
  <1> HIDE DEF heard, merged
  <1>4. CASE p = r
    BY <1>4 DEF Between
  <1>5. CASE p = heard
    BY <1>1, <1>5 DEF Between
  <1>6. CASE p \in Persisting(new)
    <2>1. /\ Same(p, new)
          /\ p.meta.currentTerm \in {new.meta.currentTerm, new.currentTerm}
          /\ p.meta.commitIndex \in {new.meta.commitIndex, new.commitIndex}
      BY <1>6, PersistingStates
    <2> QED  BY <2>1 DEF Between, Same
  <1>7. ASSUME NEW I, p \in Applying(merged, I)
        PROVE  Between(p, r, new)
    <2>1. Same(p, merged) /\ p.meta = merged.meta
      BY <1>2, <1>7, ApplyingStates
    <2> QED  BY <1>2, <2>1 DEF Between, Same
  <1> QED  BY <1>3, <1>4, <1>5, <1>6, <1>7

\* commit_to: the kv table, then the meta rows.
LEMMA CommittingStates ==
    ASSUME NEW r, Shape(r), NEW new, Shape(new), new.online = r.online,
           new.meta = r.meta, new.log = r.log, new.currentTerm = r.currentTerm,
           NEW p \in Committing(r, new)
    PROVE  Between(p, r, new)
  <1>1. CASE p \in Persisting(new)
    <2>1. /\ Same(p, new)
          /\ p.meta.currentTerm \in {new.meta.currentTerm, new.currentTerm}
          /\ p.meta.commitIndex \in {new.meta.commitIndex, new.commitIndex}
      BY <1>1, PersistingStates
    <2> QED  BY <2>1 DEF Between, Same
  <1>2. ASSUME NEW I, p \in Applying(r, I)
        PROVE  Between(p, r, new)
    <2>1. Same(p, r) /\ p.meta = r.meta
      BY <1>2, ApplyingStates
    <2> QED  BY <2>1 DEF Between, Same
  <1> QED  BY <1>1, <1>2 DEF Committing

\* load_state: the kv table, then the meta rows.
LEMMA LoadingStates ==
    ASSUME NEW r, Shape(r), NEW new, new = load_state(r), NEW p \in Loading(r, new)
    PROVE  Between(p, r, new)
  <1>0. /\ Shape(new) /\ new.online = TRUE /\ new.meta = r.meta
        /\ new.currentTerm = r.currentTerm /\ new.log = r.log
        /\ new.commitIndex = r.commitIndex
    BY LoadFields
  <1>1. p = r \/ p \in Persisting(new) \/ \E I : p \in Applying(r, I)
    BY DEF Loading
  <1>2. CASE p = r
    BY <1>2 DEF Between
  <1>3. CASE p \in Persisting(new)
    <2>1. /\ Same(p, new)
          /\ p.meta.currentTerm \in {new.meta.currentTerm, new.currentTerm}
          /\ p.meta.commitIndex \in {new.meta.commitIndex, new.commitIndex}
      BY <1>0, <1>3, PersistingStates
    <2> QED  BY <1>0, <2>1 DEF Between, Same
  <1>4. ASSUME NEW I, p \in Applying(r, I)
        PROVE  Between(p, r, new)
    <2>1. Same(p, r) /\ p.meta = r.meta
      BY <1>4, ApplyingStates
    <2> QED  BY <2>1 DEF Between, Same
  <1> QED  BY <1>1, <1>2, <1>3, <1>4

\* p is being filled with the snapshot: its meta rows were removed with its old
\* log, and come back when the last row of the new log is in.
Filling(p, r, snapshot) ==
    /\ Shape(p)
    /\ p.online = r.online
    /\ p.currentTerm = Larger(r.currentTerm, snapshot.term)
    /\ p.meta.currentTerm \in {0, p.currentTerm}
    /\ p.commitIndex \in Nat
    /\ \/ /\ p.meta.commitIndex = 0
          /\ \E j \in 0 .. Len(snapshot.log) : p.log = SubSeq(snapshot.log, 1, j)
       \/ /\ p.meta.commitIndex = Smaller(snapshot.commitIndex, last_log_index(snapshot.log))
          /\ p.log = snapshot.log

\* The database a snapshot is installed in, when nothing interferes.
LEMMA InstalledFields ==
    ASSUME NEW r, Shape(r), r.online = TRUE, NEW snapshot
    PROVE  LET new == Installed(r, snapshot)
           IN  /\ Shape(new) /\ new.online = r.online
               /\ new.currentTerm = Larger(r.currentTerm, snapshot.term)
               /\ new.commitIndex = Smaller(snapshot.commitIndex,
                                            last_log_index(snapshot.log))
               /\ new.log = snapshot.log
               /\ new.meta.currentTerm = 0 /\ new.meta.commitIndex = 0
  <1> DEFINE g == install_snapshot(r, snapshot)
             new == Installed(r, snapshot)
  <1>1. /\ Shape(g) /\ g.online = r.online
        /\ g.currentTerm = Larger(r.currentTerm, snapshot.term)
        /\ g.commitIndex = Smaller(snapshot.commitIndex, last_log_index(snapshot.log))
        /\ g.log = snapshot.log
    BY InstallFields
  <1>2. new = [g EXCEPT !.meta = NoMeta]
    BY DEF Installed
  <1> HIDE DEF g, new
  <1>3. /\ NoMeta = [f \in MetaFields |-> NoMeta[f]]
        /\ NoMeta.currentTerm = 0 /\ NoMeta.commitIndex = 0
    BY DEF NoMeta, MetaFields
  <1>4. Same(new, g) /\ new.meta = NoMeta
    BY <1>1, <1>2, <1>3, MetaFieldsOf, SMT
  <1> QED  BY <1>1, <1>3, <1>4 DEF Same, new

\* install_snapshot: clear_all, the rows of the log, the kv table, the meta rows.
LEMMA InstallingStates ==
    ASSUME NEW r, Rep(r), r.online = TRUE, NEW snapshot,
           snapshot.term \in Nat, snapshot.commitIndex \in Nat,
           snapshot.log \in Seq(Entry),
           NEW p \in Installing(r, snapshot)
    PROVE  p = r \/ Filling(p, r, snapshot)
  <1> DEFINE new == Installed(r, snapshot)
             cleared == [new EXCEPT !.commitIndex = 0, !.lastApplied = 0, !.kv = EmptyKV]
  <1>1. /\ Shape(new) /\ new.online = r.online
        /\ new.currentTerm = Larger(r.currentTerm, snapshot.term)
        /\ new.commitIndex = Smaller(snapshot.commitIndex, last_log_index(snapshot.log))
        /\ new.log = snapshot.log
        /\ new.meta.currentTerm = 0 /\ new.meta.commitIndex = 0
    BY InstalledFields DEF Rep
  <1>8. Smaller(snapshot.commitIndex, last_log_index(snapshot.log)) \in Nat
    BY LogEnd, SMT DEF Smaller
  <1>2. \/ p = r \/ p \in Persisting(new)
        \/ \E j \in 0 .. Len(new.log) : p = [cleared EXCEPT !.log = SubSeq(@, 1, j)]
        \/ \E I : p \in Applying(cleared, I)
    BY DEF Installing
  <1> HIDE DEF new
  <1>3. /\ Shape(cleared) /\ cleared.online = r.online
        /\ cleared.currentTerm = new.currentTerm /\ cleared.commitIndex = 0
        /\ cleared.log = snapshot.log /\ cleared.meta = new.meta
    BY <1>1 DEF Shape, RepFields, MetaFields
  <1> HIDE DEF cleared
  <1>4. /\ SubSeq(snapshot.log, 1, Len(snapshot.log)) = snapshot.log
        /\ Len(snapshot.log) \in 0 .. Len(snapshot.log)
    BY SMT
  <1>5. CASE p \in Persisting(new)
    <2>1. /\ Same(p, new)
          /\ p.meta.currentTerm \in {new.meta.currentTerm, new.currentTerm}
          /\ p.meta.commitIndex \in {new.meta.commitIndex, new.commitIndex}
      BY <1>1, <1>5, PersistingStates
    <2> QED  BY <1>1, <1>4, <1>8, <2>1 DEF Filling, Same
  <1>6. ASSUME NEW j \in 0 .. Len(new.log), p = [cleared EXCEPT !.log = SubSeq(@, 1, j)]
        PROVE  Filling(p, r, snapshot)
    <2>1. /\ Shape(p) /\ p.online = cleared.online /\ p.meta = cleared.meta
          /\ p.currentTerm = cleared.currentTerm /\ p.commitIndex = cleared.commitIndex
          /\ p.log = SubSeq(cleared.log, 1, j)
      BY <1>3, <1>6 DEF Shape, RepFields, MetaFields
    <2>2. 0 \in Nat
      OBVIOUS
    <2> QED  BY <1>1, <1>3, <2>1, <2>2 DEF Filling
  <1>7. ASSUME NEW I, p \in Applying(cleared, I)
        PROVE  Filling(p, r, snapshot)
    <2>1. Same(p, cleared) /\ p.meta = cleared.meta
      BY <1>3, <1>7, ApplyingStates
    <2>2. 0 \in Nat
      OBVIOUS
    <2> QED  BY <1>1, <1>3, <1>4, <2>1, <2>2 DEF Filling, Same
  <1> QED  BY <1>2, <1>5, <1>6, <1>7

\* In the middle of a loop every replica is before, in or after its turn.
LEMMA MidwayStates ==
    ASSUME NEW I \in SUBSET Replicas, NEW before, NEW after, NEW progress,
           NEW x \in Midway(I, before, after, progress)
    PROVE  /\ x = [r \in Replicas |-> x[r]]
           /\ \A r \in Replicas :
                 \/ x[r] = before[r]
                 \/ r \in I /\ (x[r] = after[r] \/ x[r] \in progress[r])
  <1>1. PICK s \in I : \E p \in progress[s] :
           x = [i \in Replicas |-> IF i = s THEN p
                                   ELSE IF i < s /\ i \in I THEN after[i]
                                   ELSE before[i]]
    BY ZenonT(40) DEF Midway
  <1> QED  BY <1>1

\* The replicas of a shard.
Reps(reps) == /\ reps = [r \in Replicas |-> reps[r]]
              /\ \A r \in Replicas : Rep(reps[r])

\* The record of a shard.
IsShard(sh) == sh = [replicas |-> sh.replicas, leader |-> sh.leader]
-----------------------------------------------------------------------------
(* The replication of an entry, step by step.  ld is the leader with the   *)
(* new entry, at index, and f a follower that is online.                   *)

\* f once it is level with the leader, and once its loop turn is over.
Level(f, ld) ==
    IF Levelled(f, ld) # f THEN persist_state(Installed(f, export_snapshot(ld))) ELSE f

SentTo(f, l, ld, index) == persist_state(Sent(f, l, ld, index))

\* p is f at some moment of its turn.
SendingTo(p, f, l, ld, index) ==
    \/ p = f
    \/ Levelled(f, ld) # f /\ p \in Installing(f, export_snapshot(ld))
    \/ p \in Appending(Level(f, ld), Sent(Level(f, ld), l, ld, index))
    \/ p = SentTo(Level(f, ld), l, ld, index)

\* f when it was told that the entry is committed, or that it is not.
Heartbeat(f, l, ld, index) ==
    append_entries(Sent(f, l, ld, index), ld.currentTerm, l, index,
                   ld.log[index].term, EmptyLog, index)

Dropped(f, l, ld, index) == discard_uncommitted(Sent(f, l, ld, index))

\* A context is one of sh.
ContextOf(sh, c) ==
    /\ c.l \in Replicas
    /\ c.followers = Online(sh.replicas) \ {c.l}
    /\ c.acks \in SUBSET c.followers

\* The leader as append_local makes it: old with the entry e.
Appended(ld, index, old, e) ==
    /\ Rep(ld)
    /\ old \in Seq(Entry) /\ e \in Entry
    /\ ld.log = Append(old, e) /\ index = Len(old) + 1

\* The context of a write of e: the leader has e at the end of its log, and is
\* otherwise what it was.
WriteOf(sh, c, e) ==
    LET lr == sh.replicas[sh.leader]
    IN  /\ ContextOf(sh, c)
        /\ c.l = sh.leader
        /\ Appended(c.leader, c.index, lr.log, e)
        /\ c.leader.online = lr.online /\ c.leader.meta = lr.meta
        /\ c.leader.currentTerm = lr.currentTerm
        /\ c.leader.commitIndex = lr.commitIndex
        /\ c.acks = Acknowledging(sh.replicas, c.l, c.leader, c.index)
        /\ e.term = lr.currentTerm

LEMMA ContextFields ==
    ASSUME NEW sh, Reps(sh.replicas), sh.leader \in Replicas,
           NEW command \in Commands, NEW key \in Keys,
           NEW value \in Values \cup {NoValue}
    PROVE  WriteOf(sh, Context(sh, command, key, value),
                   NewEntry(sh.replicas[sh.leader], command, key, value))
  <1> DEFINE lr == sh.replicas[sh.leader]
             ld == append_local(lr, command, key, value)
             e == NewEntry(lr, command, key, value)
             c == Context(sh, command, key, value)
  <1>1. Rep(lr)
    BY DEF Reps
  <1>2. /\ c.l = sh.leader /\ c.leader = ld /\ c.index = last_log_index(ld.log)
        /\ c.acks = Acknowledging(sh.replicas, c.l, ld, c.index)
        /\ c.followers = Online(sh.replicas) \ {c.l}
    BY DEF Context
  <1> HIDE DEF lr, c
  <1>4. /\ Shape(ld) /\ ld.online = lr.online /\ ld.meta = lr.meta
        /\ ld.currentTerm = lr.currentTerm /\ ld.commitIndex = lr.commitIndex
        /\ ld.log = Append(lr.log, e)
        /\ e \in Entry /\ e.term = lr.currentTerm
    BY <1>1, AppendLocalFields, SMT
  <1> HIDE DEF ld, e
  <1>5. lr.log \in Seq(Entry)
    BY <1>1 DEF Rep
  <1>6. ld.log \in Seq(Entry) /\ Len(ld.log) = Len(lr.log) + 1
    BY <1>4, <1>5, SMT
  <1>7. Rep(ld)
    BY <1>1, <1>4, <1>6 DEF Rep
  <1>8. c.index = Len(lr.log) + 1
    BY <1>2, <1>6, LogEnd
  <1>9. c.acks \in SUBSET c.followers
    BY <1>2 DEF Acknowledging
  <1>10. ContextOf(sh, c)
    BY <1>2, <1>9 DEF ContextOf
  <1>11. Appended(ld, c.index, lr.log, e)
    BY <1>4, <1>5, <1>7, <1>8 DEF Appended
  <1>12. WriteOf(sh, c, e)
    BY <1>2, <1>4, <1>10, <1>11 DEF WriteOf, lr
  <1> QED  BY <1>12 DEF c, e, lr

\* The loop over the followers.
LEMMA SendingStates ==
    ASSUME NEW sh, Reps(sh.replicas), NEW c, ContextOf(sh, c), NEW x \in Sending(sh, c)
    PROVE  /\ x = [r \in Replicas |-> x[r]]
           /\ x[c.l] = c.leader
           /\ \A r \in Replicas \ {c.l} :
                 /\ r \in c.followers =>
                       SendingTo(x[r], sh.replicas[r], c.l, c.leader, c.index)
                 /\ r \notin c.followers => x[r] = sh.replicas[r]
  <1> DEFINE reps == sh.replicas
             ld == c.leader
             I == c.followers
             snapshot == export_snapshot(ld)
             synced == {r \in I : Levelled(reps[r], ld) # reps[r]}
             level == [r \in Replicas |->
                          IF r \in synced THEN persist_state(Installed(reps[r], snapshot))
                          ELSE reps[r]]
             sent == [r \in Replicas |-> Sent(level[r], c.l, ld, c.index)]
             before == [reps EXCEPT ![c.l] = ld]
             after == PersistedOn(sent, I)
             progress == [r \in I |->
                             (IF r \in synced THEN Installing(reps[r], snapshot) ELSE {})
                             \cup Appending(level[r], sent[r])]
  <1>1. x \in Midway(I, before, after, progress)
    BY DEF Sending
  <1>2. I \in SUBSET Replicas /\ c.l \in Replicas /\ c.l \notin I
    BY DEF ContextOf, Online
  <1>3. ASSUME NEW r \in I
        PROVE  /\ level[r] = Level(reps[r], ld)
               /\ sent[r] = Sent(Level(reps[r], ld), c.l, ld, c.index)
               /\ after[r] = SentTo(Level(reps[r], ld), c.l, ld, c.index)
    <2>1. level[r] = Level(reps[r], ld)
      BY <1>2 DEF Level
    <2> HIDE DEF level
    <2>2. sent[r] = Sent(Level(reps[r], ld), c.l, ld, c.index)
      BY <1>2, <2>1
    <2> HIDE DEF sent
    <2>3. after[r] = persist_state(sent[r])
      BY <1>2 DEF PersistedOn
    <2> QED  BY <2>1, <2>2, <2>3 DEF SentTo
  <1>4. /\ before[c.l] = ld
        /\ \A r \in Replicas \ {c.l} : before[r] = reps[r]
    BY <1>2 DEF Reps
  <1> HIDE DEF level, sent, after, before
  <1>5. ASSUME NEW r \in I, NEW p \in progress[r]
        PROVE  SendingTo(p, reps[r], c.l, ld, c.index)
    <2>1. \/ Levelled(reps[r], ld) # reps[r] /\ p \in Installing(reps[r], snapshot)
          \/ p \in Appending(level[r], sent[r])
      BY <1>5
    <2> QED  BY <1>3, <2>1 DEF SendingTo
  <1> HIDE DEF I, progress, ld
  <1>6. /\ x = [r \in Replicas |-> x[r]]
        /\ \A r \in Replicas :
              \/ x[r] = before[r]
              \/ r \in I /\ (x[r] = after[r] \/ x[r] \in progress[r])
    BY <1>1, <1>2, MidwayStates, SMT
  <1>7. x[c.l] = ld
    BY <1>2, <1>4, <1>6
  <1>8. ASSUME NEW r \in Replicas \ {c.l}, r \in I
        PROVE  SendingTo(x[r], reps[r], c.l, ld, c.index)
    <2>1. CASE x[r] = before[r]
      BY <1>4, <2>1 DEF SendingTo
    <2>2. CASE x[r] = after[r]
      BY <1>3, <1>8, <2>2 DEF SendingTo
    <2>3. CASE x[r] \in progress[r]
      BY <1>5, <1>8, <2>3
    <2> QED  BY <1>6, <2>1, <2>2, <2>3
  <1>9. \A r \in Replicas \ {c.l} : r \notin I => x[r] = reps[r]
    BY <1>4, <1>6
  <1> QED  BY <1>6, <1>7, <1>8, <1>9 DEF ld, I

\* A follower that is offline hears nothing.
LEMMA SentOffline ==
    ASSUME NEW f, f.online = FALSE, NEW l, NEW ld, NEW index
    PROVE  Sent(f, l, ld, index) = f
  <1>1. Levelled(f, ld) = f
    BY InstallOffline DEF Levelled, sync_follower
  <1> QED  BY <1>1 DEF Sent, append_entries

\* The shard when the operation is over.
DoneOf(done, sh, c) ==
    /\ IsShard(done) /\ done.leader = sh.leader
    /\ done.replicas = [r \in Replicas |-> done.replicas[r]]
    /\ done.replicas[c.l] = IF Replicated(c)
                            THEN persist_state(commit_to(c.leader, c.index))
                            ELSE discard_uncommitted(c.leader)
    /\ \A r \in Replicas \ {c.l} :
          /\ r \in c.acks => done.replicas[r] =
                IF Replicated(c)
                THEN persist_state(Heartbeat(sh.replicas[r], c.l, c.leader, c.index))
                ELSE persist_state(Dropped(sh.replicas[r], c.l, c.leader, c.index))
          /\ r \in c.followers \ c.acks =>
                done.replicas[r] = SentTo(sh.replicas[r], c.l, c.leader, c.index)
          /\ r \notin c.followers => done.replicas[r] = sh.replicas[r]

LEMMA ReplicateDone ==
    ASSUME NEW sh, IsShard(sh), Reps(sh.replicas), NEW c, ContextOf(sh, c)
    PROVE  DoneOf(Replicate(sh, c), sh, c)
  <1> DEFINE reps == sh.replicas
             done == Replicate(sh, c)
             com == Committed(reps, c.l, c.leader, c.index, c.acks)
             rol == RolledBack(reps, c.l, c.leader, c.index, c.acks)
             y == IF Replicated(c) THEN PersistedOn(com, c.followers \cup {c.l})
                  ELSE PersistedOn(rol, c.followers)
  <1>1. done = [sh EXCEPT !.replicas = y]
    BY DEF Replicate
  <1>2. done = [replicas |-> y, leader |-> sh.leader]
    <2> HIDE DEF y, done
    <2> QED  BY <1>1 DEF IsShard
  <1>3. /\ c.l \in Replicas /\ c.followers \in SUBSET Replicas
        /\ c.acks \in SUBSET c.followers /\ c.l \notin c.followers
    BY DEF ContextOf, Online
  <1>4. y = [r \in Replicas |-> y[r]]
    BY DEF PersistedOn
  <1>5. /\ com[c.l] = commit_to(c.leader, c.index)
        /\ rol[c.l] = discard_uncommitted(c.leader)
        /\ \A r \in Replicas \ {c.l} :
              /\ r \in c.acks => /\ com[r] = Heartbeat(reps[r], c.l, c.leader, c.index)
                                 /\ rol[r] = Dropped(reps[r], c.l, c.leader, c.index)
              /\ r \notin c.acks => /\ com[r] = Sent(reps[r], c.l, c.leader, c.index)
                                    /\ rol[r] = Sent(reps[r], c.l, c.leader, c.index)
    BY <1>3 DEF Committed, RolledBack, Heartbeat, Dropped
  <1> HIDE DEF com, rol
  <1>6. ASSUME NEW r \in Replicas \ {c.l}, r \notin c.followers
        PROVE  Sent(reps[r], c.l, c.leader, c.index) = reps[r]
    <2> DEFINE f == reps[r]
    <2>1. f.online = FALSE
      BY <1>6 DEF ContextOf, Online, Reps, Rep
    <2> HIDE DEF f
    <2>2. Sent(f, c.l, c.leader, c.index) = f
      BY <2>1, SentOffline
    <2> QED  BY <2>2 DEF f
  <1>7. CASE Replicated(c)
    <2>1. \A r \in Replicas :
             y[r] = IF r \in c.followers \cup {c.l} THEN persist_state(com[r]) ELSE com[r]
      BY <1>7 DEF PersistedOn
    <2> HIDE DEF y
    <2>2. y[c.l] = persist_state(commit_to(c.leader, c.index))
      BY <1>3, <1>5, <2>1
    <2>3. ASSUME NEW r \in Replicas \ {c.l}
          PROVE  /\ r \in c.acks =>
                       y[r] = persist_state(Heartbeat(reps[r], c.l, c.leader, c.index))
                 /\ r \in c.followers \ c.acks =>
                       y[r] = SentTo(reps[r], c.l, c.leader, c.index)
                 /\ r \notin c.followers => y[r] = reps[r]
      BY <1>3, <1>5, <1>6, <2>1, ZenonT(40) DEF SentTo
    <2> QED  BY <1>2, <1>4, <1>7, <2>2, <2>3, SMT DEF IsShard, DoneOf
  <1>8. CASE ~Replicated(c)
    <2>1. \A r \in Replicas :
             y[r] = IF r \in c.followers THEN persist_state(rol[r]) ELSE rol[r]
      BY <1>8 DEF PersistedOn
    <2> HIDE DEF y
    <2>2. y[c.l] = discard_uncommitted(c.leader)
      BY <1>3, <1>5, <2>1
    <2>3. ASSUME NEW r \in Replicas \ {c.l}
          PROVE  /\ r \in c.acks =>
                       y[r] = persist_state(Dropped(reps[r], c.l, c.leader, c.index))
                 /\ r \in c.followers \ c.acks =>
                       y[r] = SentTo(reps[r], c.l, c.leader, c.index)
                 /\ r \notin c.followers => y[r] = reps[r]
      BY <1>3, <1>5, <1>6, <2>1 DEF SentTo
    <2> QED  BY <1>2, <1>4, <1>8, <2>2, <2>3, SMT DEF IsShard, DoneOf
  <1> QED  BY <1>7, <1>8

\* p is a follower that accepted, while it learns how the write has ended.
EndingFor(p, f, c, final) ==
    LET sent == SentTo(f, c.l, c.leader, c.index)
    IN  \/ p = sent
        \/ p = final
        \/ Replicated(c) /\ p \in Appending(sent, [final EXCEPT !.meta = sent.meta])

\* The end of the operation: first the leader, then the followers.
LEMMA EndingStates ==
    ASSUME NEW sh, IsShard(sh),
           Reps(sh.replicas), NEW c, ContextOf(sh, c), NEW x \in Ending(sh, c)
    PROVE  LET done == Replicate(sh, c).replicas
           IN  /\ x = [r \in Replicas |-> x[r]]
               /\ \A r \in Replicas \ {c.l} :
                     /\ r \in c.followers \ c.acks =>
                           x[r] = SentTo(sh.replicas[r], c.l, c.leader, c.index)
                     /\ r \notin c.followers => x[r] = sh.replicas[r]
               /\ \/ /\ \/ x[c.l] = c.leader
                        \/ /\ Replicated(c)
                           /\ x[c.l] \in Committing(c.leader, commit_to(c.leader, c.index))
                     /\ \A r \in c.acks :
                           x[r] = SentTo(sh.replicas[r], c.l, c.leader, c.index)
                  \/ /\ x[c.l] = done[c.l]
                     /\ \A r \in c.acks : EndingFor(x[r], sh.replicas[r], c, done[r])
  <1> DEFINE reps == sh.replicas
             l == c.l
             ld == c.leader
             I == c.acks
             done == Replicate(sh, c).replicas
             base == PersistedOn([r \in Replicas |-> Sent(reps[r], l, ld, c.index)],
                                 c.followers)
             sent == [base EXCEPT ![l] = ld]
             first == IF Replicated(c) THEN Committing(ld, commit_to(ld, c.index)) ELSE {ld}
             before == [sent EXCEPT ![l] = done[l]]
             progress == [r \in I |->
                            IF Replicated(c)
                            THEN Appending(sent[r], [done[r] EXCEPT !.meta = sent[r].meta])
                            ELSE {sent[r]}]
  <1>1. /\ c.l \in Replicas /\ c.followers \in SUBSET Replicas
        /\ c.acks \in SUBSET c.followers /\ c.l \notin c.followers
    BY DEF ContextOf, Online
  <1>2. \/ \E p \in first : x = [sent EXCEPT ![l] = p]
        \/ x \in Midway(I, before, done, progress)
    <2>1. Ending(sh, c) = {[sent EXCEPT ![l] = p] : p \in first}
                             \cup Midway(I, before, done, progress)
      BY DEF Ending
    <2> HIDE DEF sent, first, before, done, progress
    <2> QED  BY <2>1
  <1>3. \A r \in Replicas : base[r] = IF r \in c.followers
                                      THEN SentTo(reps[r], l, ld, c.index)
                                      ELSE Sent(reps[r], l, ld, c.index)
    BY DEF PersistedOn, SentTo
  <1>4. base = [r \in Replicas |-> base[r]]
    BY DEF PersistedOn
  <1> HIDE DEF base
  <1>5. /\ sent = [r \in Replicas |-> sent[r]]
        /\ sent[l] = ld
        /\ \A r \in Replicas \ {l} : sent[r] = base[r]
    BY <1>1, <1>4
  <1> HIDE DEF sent
  <1>6. ASSUME NEW r \in Replicas \ {l}
        PROVE  /\ r \in c.followers => sent[r] = SentTo(reps[r], l, ld, c.index)
               /\ r \notin c.followers => sent[r] = reps[r]
    <2>1. CASE r \in c.followers
      BY <1>3, <1>5, <2>1
    <2>2. CASE r \notin c.followers
      <3> DEFINE f == reps[r]
      <3>1. f.online = FALSE
        BY <2>2 DEF ContextOf, Online, Reps, Rep
      <3> HIDE DEF f
      <3>2. Sent(f, l, ld, c.index) = f
        BY <3>1, SentOffline
      <3> QED  BY <1>3, <1>5, <2>2, <3>2 DEF f
    <2> QED  BY <2>1, <2>2
  <1>7. ASSUME NEW p \in first, x = [sent EXCEPT ![l] = p]
        PROVE  /\ x = [r \in Replicas |-> x[r]]
               /\ x[l] = p
               /\ \A r \in Replicas \ {l} : x[r] = sent[r]
    BY <1>1, <1>5, <1>7
  <1>8. /\ before = [r \in Replicas |-> before[r]]
        /\ before[l] = done[l]
        /\ \A r \in Replicas \ {l} : before[r] = sent[r]
    BY <1>1, <1>5
  <1>9. ASSUME NEW p \in first
        PROVE  \/ p = ld
               \/ Replicated(c) /\ p \in Committing(ld, commit_to(ld, c.index))
    OBVIOUS
  <1>10. ASSUME NEW r \in I, NEW p \in progress[r]
         PROVE  EndingFor(p, reps[r], c, done[r])
    <2>1. sent[r] = SentTo(reps[r], l, ld, c.index)
      BY <1>1, <1>6
    <2>2. \/ p = sent[r]
          \/ /\ Replicated(c)
             /\ p \in Appending(sent[r], [done[r] EXCEPT !.meta = sent[r].meta])
      BY <1>10
    <2> HIDE DEF done
    <2> QED  BY <2>1, <2>2 DEF EndingFor
  <1> HIDE DEF first, before, done, progress, I
  <1>11. ASSUME x \in Midway(I, before, done, progress)
         PROVE  /\ x = [r \in Replicas |-> x[r]]
                /\ \A r \in Replicas :
                      \/ x[r] = before[r]
                      \/ r \in I /\ (x[r] = done[r] \/ x[r] \in progress[r])
    <2>1. I \in SUBSET Replicas
      BY <1>1 DEF I
    <2> QED  BY <1>11, <2>1, MidwayStates, SMT
  <1>12. CASE \E p \in first : x = [sent EXCEPT ![l] = p]
    <2>1. PICK p \in first : x = [sent EXCEPT ![l] = p]
      BY <1>12
    <2>2. /\ x = [r \in Replicas |-> x[r]]
          /\ x[l] = p
          /\ \A r \in Replicas \ {l} : x[r] = sent[r]
      BY <1>7, <2>1
    <2>3. \/ x[l] = ld
          \/ Replicated(c) /\ x[l] \in Committing(ld, commit_to(ld, c.index))
      BY <1>9, <2>2
    <2>4. \A r \in c.acks : x[r] = SentTo(reps[r], l, ld, c.index)
      BY <1>1, <1>6, <2>2
    <2> QED  BY <1>6, <2>2, <2>3, <2>4
  <1>13. CASE x \in Midway(I, before, done, progress)
    <2>1. x[l] = done[l]
      BY <1>1, <1>8, <1>11, <1>13 DEF I
    <2>2. \A r \in Replicas \ {l} : r \notin c.acks => x[r] = sent[r]
      BY <1>8, <1>11, <1>13 DEF I
    <2>3. ASSUME NEW r \in c.acks
          PROVE  EndingFor(x[r], reps[r], c, done[r])
      <3>1. r \in Replicas \ {l} /\ r \in c.followers /\ r \in I
        BY <1>1 DEF I
      <3>2. CASE x[r] = before[r]
        BY <1>6, <1>8, <3>1, <3>2 DEF EndingFor
      <3>3. CASE x[r] = done[r]
        BY <3>3 DEF EndingFor
      <3>4. CASE x[r] \in progress[r]
        BY <1>10, <3>1, <3>4
      <3> QED  BY <1>11, <1>13, <3>1, <3>2, <3>3, <3>4
    <2>4. \A r \in Replicas \ {l} :
             /\ r \in c.followers \ c.acks => x[r] = SentTo(reps[r], l, ld, c.index)
             /\ r \notin c.followers => x[r] = reps[r]
      BY <1>1, <1>6, <2>2
    <2> QED  BY <1>11, <1>13, <2>1, <2>3, <2>4 DEF done
  <1> QED  BY <1>2, <1>12, <1>13

\* A follower that is not level with the leader installs its committed log.
LEMMA LevelFields ==
    ASSUME NEW f, Rep(f), f.online = TRUE, NEW ld, Rep(ld)
    PROVE  LET g == Levelled(f, ld)
               short == truncate_log_from(ld.log, ld.commitIndex + 1)
           IN  /\ Rep(g) /\ g.online = f.online /\ g.meta = f.meta
               /\ g.currentTerm >= f.currentTerm
               /\ \/ /\ g = f /\ f.commitIndex = ld.commitIndex
                     /\ last_log_index(f.log) = ld.commitIndex
                  \/ /\ g.currentTerm = Larger(f.currentTerm, ld.currentTerm)
                     /\ g.log = short
                     /\ g.commitIndex = Smaller(ld.commitIndex, last_log_index(short))
                     /\ g = install_snapshot(f, export_snapshot(ld))
  <1> DEFINE g == Levelled(f, ld)
             S == export_snapshot(ld)
             short == truncate_log_from(ld.log, ld.commitIndex + 1)
  <1>1. f.currentTerm \in Nat
    BY DEF Rep
  <1>2. CASE /\ f.commitIndex = ld.commitIndex
             /\ last_log_index(f.log) = ld.commitIndex
    <2>1. g = f
      BY <1>2 DEF Levelled
    <2>2. f.currentTerm >= f.currentTerm
      BY <1>1, SMT
    <2> QED  BY <1>2, <2>1, <2>2
  <1>3. CASE ~(/\ f.commitIndex = ld.commitIndex
               /\ last_log_index(f.log) = ld.commitIndex)
    <2>1. g = install_snapshot(f, S)
      BY <1>3 DEF Levelled, sync_follower
    <2>2. /\ S.term = ld.currentTerm /\ S.commitIndex = ld.commitIndex
          /\ S.log = short /\ S.term \in Nat
          /\ S.commitIndex \in Nat /\ S.log \in Seq(Entry)
      BY SnapshotFields
    <2> HIDE DEF g, S, short
    <2>3. LET h == install_snapshot(f, S)
          IN  /\ Shape(h) /\ h.online = f.online /\ h.meta = f.meta
              /\ h.currentTerm = Larger(f.currentTerm, S.term)
              /\ h.commitIndex = Smaller(S.commitIndex, last_log_index(S.log))
              /\ h.log = S.log
      BY InstallFields DEF Rep
    <2>4. /\ Shape(g) /\ g.online = f.online /\ g.meta = f.meta
          /\ g.currentTerm = Larger(f.currentTerm, ld.currentTerm)
          /\ g.commitIndex = Smaller(ld.commitIndex, last_log_index(short))
          /\ g.log = short
      BY <2>1, <2>2, <2>3
    <2>5. /\ Larger(f.currentTerm, ld.currentTerm) \in Nat
          /\ Larger(f.currentTerm, ld.currentTerm) >= f.currentTerm
      BY <1>1, <2>2, SMT DEF Larger
    <2>6. Smaller(ld.commitIndex, last_log_index(short)) \in Nat
      BY <2>2, LogEnd, SMT DEF Smaller
    <2>7. Rep(g)
      BY <2>2, <2>4, <2>5, <2>6 DEF Rep
    <2>8. g.currentTerm >= f.currentTerm
      BY <2>4, <2>5
    <2> QED  BY <2>1, <2>4, <2>7, <2>8 DEF g, S, short
  <1> QED  BY <1>2, <1>3

\* The same, with what is on disk.
LEMMA LevelPersisted ==
    ASSUME NEW f, Rep(f), f.online = TRUE, NEW ld, Rep(ld)
    PROVE  LET k == Level(f, ld)
           IN  /\ Same(k, Levelled(f, ld))
               /\ \/ k = f
                  \/ /\ k.meta.currentTerm = k.currentTerm
                     /\ k.meta.commitIndex = k.commitIndex
  <1> DEFINE g == Levelled(f, ld)
             S == export_snapshot(ld)
             short == truncate_log_from(ld.log, ld.commitIndex + 1)
             k == Level(f, ld)
  <1>1. CASE g = f
    <2>1. k = f
      BY <1>1 DEF Level
    <2> HIDE DEF g, k
    <2>2. Same(f, f)
      BY DEF Rep, Same
    <2>3. Same(k, g)
      BY <1>1, <2>1, <2>2
    <2> QED  BY <2>1, <2>3 DEF g, k
  <1>2. CASE g # f
    <2>1. k = persist_state(Installed(f, S))
      BY <1>2 DEF Level
    <2>2. g = install_snapshot(f, S)
      BY <1>2, LevelFields
    <2> HIDE DEF g, S, k
    <2>3. LET h == install_snapshot(f, S)
          IN  /\ Shape(h) /\ h.online = f.online /\ h.meta = f.meta
              /\ h.currentTerm = Larger(f.currentTerm, S.term)
              /\ h.commitIndex = Smaller(S.commitIndex, last_log_index(S.log))
              /\ h.log = S.log
      BY InstallFields DEF Rep
    <2> DEFINE new == Installed(f, S)
    <2>5. /\ Shape(new) /\ new.online = f.online
          /\ new.currentTerm = Larger(f.currentTerm, S.term)
          /\ new.commitIndex = Smaller(S.commitIndex, last_log_index(S.log))
          /\ new.log = S.log
          /\ new.meta.currentTerm = 0 /\ new.meta.commitIndex = 0
      BY InstalledFields DEF Rep
    <2> HIDE DEF new
    <2>6. /\ Same(k, new) /\ k.meta.currentTerm = new.currentTerm
          /\ k.meta.commitIndex = new.commitIndex
      BY <2>1, <2>5, PersistStep DEF new
    <2>7. Same(k, g)
      BY <2>2, <2>3, <2>5, <2>6 DEF Same
    <2>8. /\ k.meta.currentTerm = k.currentTerm
          /\ k.meta.commitIndex = k.commitIndex
      BY <2>6 DEF Same
    <2> QED  BY <2>7, <2>8 DEF g, k
  <1> QED  BY <1>1, <1>2

\* g is what f has become: it refuses an older term or a gap, and takes the
\* entry otherwise.
SentOK(g, f, ld, index, old, e) ==
    LET lev == Levelled(f, ld)
        accepted == AppendAccepted(lev, ld.currentTerm, index - 1,
                                   term_at(ld, index - 1))
        commit == Smaller(ld.commitIndex, last_log_index(g.log))
    IN  /\ Rep(g) /\ g.online = f.online /\ g.meta = f.meta
        /\ g.currentTerm >= f.currentTerm
        /\ ld.currentTerm >= lev.currentTerm => g.currentTerm = ld.currentTerm
        /\ ~accepted => g.log = lev.log /\ g.commitIndex = lev.commitIndex
        /\ accepted => /\ Len(old) \in 0 .. Len(lev.log)
                       /\ g.log = MergeLog(lev.log, [i \in {Len(old) + 1} |-> e])
                       /\ g.commitIndex = IF commit <= lev.commitIndex
                                          THEN lev.commitIndex ELSE commit

LEMMA SentFields ==
    ASSUME NEW f, Rep(f), f.online = TRUE, NEW ld, NEW index, NEW old, NEW e,
           Appended(ld, index, old, e), NEW l
    PROVE  SentOK(Sent(f, l, ld, index), f, ld, index, old, e)
  <1>0. /\ Rep(ld) /\ old \in Seq(Entry) /\ e \in Entry
        /\ ld.log = Append(old, e) /\ index = Len(old) + 1
    BY DEF Appended
  <1> DEFINE g == Sent(f, l, ld, index)
             lev == Levelled(f, ld)
             pt == term_at(ld, index - 1)
             entries == [i \in {index} |-> ld.log[i]]
             one == [i \in {Len(old) + 1} |-> e]
             log == MergeLog(lev.log, entries)
             commit == Smaller(ld.commitIndex, last_log_index(log))
             accepted == AppendAccepted(lev, ld.currentTerm, index - 1, pt)
  <1>1. g = append_entries(lev, ld.currentTerm, l, index - 1, pt, entries, ld.commitIndex)
    BY DEF Sent
  <1>2. /\ Rep(lev) /\ lev.online = TRUE /\ lev.meta = f.meta
        /\ lev.currentTerm >= f.currentTerm
    BY <1>0, LevelFields
  <1>3. /\ ld.currentTerm \in Nat /\ ld.commitIndex \in Nat
        /\ f.currentTerm \in Nat /\ ld.log \in Seq(Entry)
    BY <1>0 DEF Rep
  <1>4. entries = one
    <2>1. ld.log[Len(old) + 1] = e
      BY <1>0, SMT
    <2> QED  BY <1>0, <2>1
  <1> HIDE DEF g, lev, pt, entries, one
  <1>5. accepted => Len(old) \in 0 .. Len(lev.log)
    <2>1. SUFFICES ASSUME accepted, Len(old) > 0
                   PROVE  Len(old) \in 0 .. Len(lev.log)
      BY <1>0, <1>2, SMT DEF Rep
    <2>2. index - 1 > 0 /\ index - 1 = Len(old)
      BY <1>0, <2>1, SMT
    <2>3. term_at(lev, Len(old)) = pt
      BY <2>1, <2>2 DEF AppendAccepted
    <2>4. pt \in Nat
      <3>1. Len(old) \in DOMAIN ld.log /\ ld.log[Len(old)].term \in Nat
        BY <1>0, <1>3, <2>1, LogEnd, SMT
      <3> QED  BY <1>0, <2>1, <2>2, <3>1 DEF pt, term_at
    <2>5. Len(old) \in DOMAIN lev.log
      BY <1>0, <2>1, <2>3, <2>4, SMT DEF term_at
    <2> QED  BY <1>0, <1>2, <2>5, SMT DEF Rep
  <1>6. accepted => log \in Seq(Entry)
    <2>1. lev.log \in Seq(Entry)
      BY <1>2 DEF Rep
    <2> QED  BY <1>0, <1>4, <1>5, <2>1, MergeLogOne DEF one
  <1>7. /\ lev.currentTerm \in Nat /\ lev.commitIndex \in Nat /\ lev.log \in Seq(Entry)
    BY <1>2 DEF Rep
  <1>8. /\ Shape(g) /\ g.online = lev.online /\ g.meta = lev.meta
        /\ ld.currentTerm < lev.currentTerm => g = lev
        /\ ~(ld.currentTerm < lev.currentTerm) =>
              /\ g.currentTerm = ld.currentTerm
              /\ ~accepted => g.log = lev.log /\ g.commitIndex = lev.commitIndex
              /\ accepted => /\ g.log = log
                             /\ g.commitIndex = IF commit <= lev.commitIndex
                                                THEN lev.commitIndex ELSE commit
    <2> HIDE DEF accepted, log, commit
    <2>1. log = MergeLog(lev.log, entries) /\ commit = Smaller(ld.commitIndex, last_log_index(log))
          /\ (accepted <=> AppendAccepted(lev, ld.currentTerm, index - 1, pt))
      BY DEF accepted, log, commit
    <2> QED  BY <1>1, <1>2, <1>3, <2>1, EntriesFields, SMT
  <1>9. accepted => ~(ld.currentTerm < lev.currentTerm)
    BY <1>3, <1>7, SMT DEF AppendAccepted
  <1>10. accepted => commit \in Nat
    BY <1>3, <1>6, LogEnd, SMT DEF Smaller
  <1> HIDE DEF accepted, log, commit
  <1>11. /\ ~accepted => g.log = lev.log /\ g.commitIndex = lev.commitIndex
         /\ accepted => /\ g.log = log
                        /\ g.commitIndex = IF commit <= lev.commitIndex
                                           THEN lev.commitIndex ELSE commit
    BY <1>8, <1>9
  <1>12. g.log \in Seq(Entry) /\ g.commitIndex \in Nat
    BY <1>6, <1>7, <1>10, <1>11
  <1>13. g.currentTerm \in Nat /\ g.currentTerm >= lev.currentTerm
    BY <1>3, <1>7, <1>8, SMT
  <1>14. Rep(g) /\ g.online = f.online /\ g.meta = f.meta
    BY <1>2, <1>8, <1>12, <1>13 DEF Rep
  <1>15. g.currentTerm >= f.currentTerm
    BY <1>2, <1>3, <1>7, <1>13, SMT
  <1>16. ld.currentTerm >= lev.currentTerm => g.currentTerm = ld.currentTerm
    BY <1>3, <1>7, <1>8, SMT
  <1>17. accepted => /\ g.log = MergeLog(lev.log, one)
                     /\ commit = Smaller(ld.commitIndex, last_log_index(g.log))
    BY <1>4, <1>11 DEF log, commit
  <1> QED
    BY <1>5, <1>11, <1>14, <1>15, <1>16, <1>17
       DEF g, lev, accepted, pt, one, SentOK

\* A heartbeat brings no entries.
LEMMA MergeLogNone ==
    ASSUME NEW log \in Seq(Entry)
    PROVE  MergeLog(log, EmptyLog) = log
  <1>1. DOMAIN EmptyLog = {}
    BY SMT DEF EmptyLog
  <1>2. MergeLog(log, EmptyLog) = [j \in DOMAIN log |-> log[j]]
    BY <1>1 DEF MergeLog
  <1>3. log = [j \in DOMAIN log |-> log[j]]
    BY SMT
  <1> QED  BY <1>2, <1>3

\* It moves the term and the commit index.
BeatOK(b, s, term, index, et) ==
    LET commit == Smaller(index, Len(s.log))
    IN  /\ Rep(b) /\ b.online = s.online /\ b.meta = s.meta
        /\ b.log = s.log /\ b.currentTerm >= s.currentTerm
        /\ term >= s.currentTerm => b.currentTerm = term
        /\ ~AppendAccepted(s, term, index, et) => b.commitIndex = s.commitIndex
        /\ AppendAccepted(s, term, index, et) =>
              b.commitIndex = IF commit <= s.commitIndex
                              THEN s.commitIndex ELSE commit

LEMMA BeatFields ==
    ASSUME NEW s, Rep(s), s.online = TRUE, NEW term \in Nat, NEW index \in Nat,
           NEW l, NEW et
    PROVE  BeatOK(append_entries(s, term, l, index, et, EmptyLog, index), s,
                  term, index, et)
  <1> DEFINE b == append_entries(s, term, l, index, et, EmptyLog, index)
             log == MergeLog(s.log, EmptyLog)
             commit == Smaller(index, last_log_index(log))
             accepted == AppendAccepted(s, term, index, et)
  <1>1. /\ s.log \in Seq(Entry) /\ s.currentTerm \in Nat /\ s.commitIndex \in Nat
        /\ s.online \in BOOLEAN
    BY DEF Rep
  <1>2. log = s.log /\ commit = Smaller(index, Len(s.log)) /\ commit \in Nat
    BY <1>1, MergeLogNone, LogEnd, SMT DEF Smaller
  <1> HIDE DEF b, log, commit, accepted
  <1>3. /\ Shape(b) /\ b.online = s.online /\ b.meta = s.meta
        /\ ~s.online \/ term < s.currentTerm => b = s
        /\ s.online /\ ~(term < s.currentTerm) =>
              /\ b.currentTerm = term
              /\ ~accepted => b.log = s.log /\ b.commitIndex = s.commitIndex
              /\ accepted => /\ b.log = log
                             /\ b.commitIndex = IF commit <= s.commitIndex
                                                THEN s.commitIndex ELSE commit
    BY EntriesFields, SMT DEF b, log, commit, accepted
  <1>4. accepted => ~(term < s.currentTerm)
    BY <1>1, SMT DEF accepted, AppendAccepted
  <1>5. /\ term < s.currentTerm => b = s
        /\ ~(term < s.currentTerm) =>
              /\ b.currentTerm = term
              /\ ~accepted => b.log = s.log /\ b.commitIndex = s.commitIndex
              /\ accepted => /\ b.log = log
                             /\ b.commitIndex = IF commit <= s.commitIndex
                                                THEN s.commitIndex ELSE commit
    BY <1>3
  <1>6. /\ b.log = s.log
        /\ ~accepted => b.commitIndex = s.commitIndex
        /\ accepted => b.commitIndex = IF commit <= s.commitIndex
                                       THEN s.commitIndex ELSE commit
    BY <1>2, <1>4, <1>5
  <1>7. b.currentTerm \in Nat /\ b.currentTerm >= s.currentTerm
    BY <1>1, <1>5, SMT
  <1>8. term >= s.currentTerm => b.currentTerm = term
    BY <1>1, <1>5, SMT
  <1>9. b.commitIndex \in Nat
    BY <1>1, <1>2, <1>6
  <1>10. Rep(b)
    BY <1>1, <1>3, <1>6, <1>7, <1>9 DEF Rep
  <1> QED  BY <1>2, <1>3, <1>6, <1>7, <1>8, <1>10 DEF BeatOK, b, accepted
-----------------------------------------------------------------------------
(* Logs that fit.                                                          *)

\* Terms never decrease along a log.
Sorted(log) == \A i, j \in 1 .. Len(log) : i <= j => log[i].term <= log[j].term

\* In the order by which votes are given, log is not beyond term t and index n.
Before(log, t, n) ==
    \/ last_log_term(log) < t
    \/ last_log_term(log) = t /\ Len(log) <= n

\* No entry of log is of a term after t.
Capped(log, t) == \A i \in 1 .. Len(log) : log[i].term <= t

\* A replica with this log, of which k entries are committed, is one of a shard
\* that has committed C: it has committed a prefix of C, and if this is not all
\* of C, its log does not outdo C in an election.
Fit(log, k, C) ==
    /\ log \in Seq(Entry) /\ Sorted(log)
    /\ k \in Nat /\ k <= Len(C) /\ k <= Len(log)
    /\ \A i \in 1 .. k : log[i] = C[i]
    /\ k < Len(C) => Before(log, C[Len(C)].term, Len(C))

\* D continues C.
Extends(D, C) ==
    /\ D \in Seq(Entry) /\ Len(C) <= Len(D)
    /\ \A i \in 1 .. Len(C) : D[i] = C[i]

\* C itself, and a log that continues it.
LEMMA LongFits ==
    ASSUME NEW C \in Seq(Entry), NEW D, Extends(D, C), Sorted(D)
    PROVE  Fit(D, Len(C), C)
  BY SMT DEF Fit, Extends

\* What a replica holds that was being filled with C.
LEMMA PrefixFits ==
    ASSUME NEW C \in Seq(Entry), Sorted(C), NEW j \in 0 .. Len(C)
    PROVE  Fit(SubSeq(C, 1, j), 0, C)
  <1> DEFINE p == SubSeq(C, 1, j)
  <1>1. p \in Seq(Entry) /\ Len(p) = j /\ \A i \in 1 .. j : p[i] = C[i]
    BY SMT
  <1>2. Sorted(p)
    BY <1>1, SMT DEF Sorted
  <1>3. last_log_term(p) = IF j = 0 THEN 0 ELSE p[j].term
    <2> HIDE DEF p
    <2> QED  BY <1>1, LogEnd
  <1>4. ASSUME 0 < Len(C) PROVE Before(p, C[Len(C)].term, Len(C))
    <2>1. C[Len(C)].term \in Nat /\ \A i \in 1 .. Len(C) : C[i].term \in Nat
      BY <1>4, LogEnd, SMT
    <2>2. j # 0 => p[j].term <= C[Len(C)].term /\ p[j].term \in Nat
      BY <1>1, <1>4, <2>1, SMT DEF Sorted
    <2> HIDE DEF p
    <2> QED  BY <1>1, <1>3, <2>1, <2>2, SMT DEF Before
  <1> HIDE DEF p
  <1>5. Fit(p, 0, C)
    BY <1>1, <1>2, <1>4, SMT DEF Fit
  <1> QED  BY <1>5 DEF p

\* What a replica has committed.
LEMMA CutFits ==
    ASSUME NEW C \in Seq(Entry), NEW D, Extends(D, C),
           NEW short, short = truncate_log_from(D, Len(C) + 1)
    PROVE  short = C
  <1>1. D \in Seq(Entry) /\ Len(C) \in Nat /\ Len(C) <= Len(D)
    BY SMT DEF Extends
  <1>2. /\ short \in Seq(Entry)
        /\ Len(short) = IF Len(C) < Len(D) THEN Len(C) ELSE Len(D)
        /\ \A i \in 1 .. Len(short) : short[i] = D[i]
    BY <1>1, TruncatedLog
  <1>3. Len(short) = Len(C)
    BY <1>1, <1>2, SMT
  <1> QED  BY <1>2, <1>3, SMT DEF Extends

\* One more entry.
LEMMA AppendExtends ==
    ASSUME NEW C \in Seq(Entry), NEW log, Extends(log, C), Sorted(log),
           NEW e \in Entry, Capped(log, e.term)
    PROVE  /\ Extends(Append(log, e), C) /\ Sorted(Append(log, e))
           /\ Capped(Append(log, e), e.term)
           /\ last_log_term(Append(log, e)) = e.term
  <1> DEFINE D == Append(log, e)
  <1>0. log \in Seq(Entry)
    BY DEF Extends
  <1>1. /\ D \in Seq(Entry) /\ Len(D) = Len(log) + 1 /\ D[Len(log) + 1] = e
        /\ \A i \in 1 .. Len(log) : D[i] = log[i]
    BY <1>0, SMT
  <1>2. e.term \in Nat
    BY DEF Entry
  <1> HIDE DEF D
  <1>3. Extends(D, C)
    BY <1>0, <1>1, SMT DEF Extends
  <1>4. Capped(D, e.term)
    BY <1>0, <1>1, <1>2, SMT DEF Capped
  <1>5. Sorted(D)
    <2> SUFFICES ASSUME NEW i \in 1 .. Len(D), NEW j \in 1 .. Len(D), i <= j
                 PROVE  D[i].term <= D[j].term
      BY DEF Sorted
    <2>1. CASE j = Len(log) + 1
      BY <1>1, <1>4, <2>1 DEF Capped
    <2>2. CASE j # Len(log) + 1
      <3>1. i \in 1 .. Len(log) /\ j \in 1 .. Len(log)
        BY <1>0, <1>1, <2>2, SMT
      <3> QED  BY <1>1, <3>1 DEF Sorted
    <2> QED  BY <2>1, <2>2
  <1>6. last_log_term(D) = e.term
    BY <1>0, <1>1, LogEnd, SMT
  <1> QED  BY <1>3, <1>4, <1>5, <1>6 DEF D

\* A log that fits, once more is committed.
LEMMA FitsLater ==
    ASSUME NEW C \in Seq(Entry), NEW D, Extends(D, C), NEW log, NEW k, Fit(log, k, C),
           Before(log, D[Len(D)].term, Len(D))
    PROVE  Fit(log, k, D)
  BY SMT DEF Fit, Extends

\* What an offline replica may hold still is when the term or the index grows.
LEMMA BeforeLater ==
    ASSUME NEW log \in Seq(Entry), NEW t, NEW n \in Nat, NEW m \in Nat, n <= m,
           Before(log, t, n)
    PROVE  Before(log, t, m)
  BY SMT DEF Before

\* C is not beyond a leader that has committed it.
LEMMA CommittedBefore ==
    ASSUME NEW C \in Seq(Entry), NEW t \in Nat, Capped(C, t)
    PROVE  Before(C, t, Len(C) + 1)
  <1>1. /\ last_log_term(C) = IF Len(C) = 0 THEN 0 ELSE C[Len(C)].term
        /\ last_log_term(C) \in Nat
    BY LogEnd
  <1>2. Len(C) \in Nat /\ (Len(C) # 0 => C[Len(C)].term <= t)
    BY SMT DEF Capped
  <1> QED  BY <1>1, <1>2, SMT DEF Before

\* Nor is C.
LEMMA FitCapped ==
    ASSUME NEW C \in Seq(Entry), NEW log, Fit(log, Len(C), C), NEW t, Capped(log, t)
    PROVE  Capped(C, t)
  <1> SUFFICES ASSUME NEW i \in 1 .. Len(C)
               PROVE  C[i].term <= t
    BY DEF Capped
  <1>1. i \in 1 .. Len(log) /\ log[i] = C[i]
    BY SMT DEF Fit
  <1> QED  BY <1>1 DEF Capped
-----------------------------------------------------------------------------
(* Shards that hold what was committed.                                    *)

\* What is in memory is on disk.
Stored(p) == p.meta.currentTerm = p.currentTerm /\ p.meta.commitIndex = p.commitIndex

\* The disk of p fits a shard that has committed C.
Held(p, C) == Rep(p) /\ Fit(p.log, p.meta.commitIndex, C)

\* The disks of x hold C: each fits, one has committed all of it, and one knows
\* a term that no entry is beyond.
Safe(x, C) ==
    /\ x = [r \in Replicas |-> x[r]]
    /\ C \in Seq(Entry) /\ Sorted(C)
    /\ \A r \in Replicas : Held(x[r], C)
    /\ \E s \in Replicas : \A r \in Replicas : Capped(x[r].log, x[s].meta.currentTerm)
    /\ \E r \in Replicas : x[r].meta.commitIndex = Len(C)

\* Between two operations.
Whole(x, C) == Safe(x, C) /\ \A r \in Replicas : Stored(x[r])

\* A leader has committed C, nobody's term is above its own, and nobody has
\* more than one entry of its term behind C.
LeaderOK(x, l, C) ==
    /\ l \in Replicas /\ x[l].online = TRUE /\ x[l].commitIndex = Len(C)
    /\ \A r \in Replicas : /\ x[r].currentTerm <= x[l].currentTerm
                           /\ Capped(x[r].log, x[l].currentTerm)
                           /\ r # l => Before(x[r].log, x[l].currentTerm, Len(C) + 1)

\* The replicas that have committed C.
Top(x, C) == {r \in Replicas : x[r].commitIndex = Len(C)}

\* A shard that has committed C: a leader, if there is one, leads with C, and
\* a majority has committed it.
Sound(sh, C) ==
    /\ IsShard(sh) /\ Whole(sh.replicas, C)
    /\ sh.leader \in Replicas \cup {NoReplica}
    /\ sh.leader # NoReplica => LeaderOK(sh.replicas, sh.leader, C)

\* A majority has committed C.
Wide(x, C) == 2 * Cardinality(Top(x, C)) > N

Many(x) == 2 * Cardinality(Online(x)) > N

\* Whole replicas, one by one.
LEMMA WholeFields ==
    ASSUME NEW x, NEW C, Whole(x, C)
    PROVE  /\ Reps(x) /\ C \in Seq(Entry) /\ Sorted(C)
           /\ \A r \in Replicas : /\ Rep(x[r]) /\ Stored(x[r])
                                  /\ Fit(x[r].log, x[r].commitIndex, C)
  BY DEF Whole, Safe, Held, Stored, Reps

\* The disks hold B if all fit and the leader's has committed it.
LEMMA LeaderSafe ==
    ASSUME NEW x, x = [r \in Replicas |-> x[r]], NEW B \in Seq(Entry), Sorted(B),
           NEW t, NEW l \in Replicas, x[l].meta.currentTerm = t,
           x[l].meta.commitIndex = Len(B),
           \A r \in Replicas : Held(x[r], B) /\ Capped(x[r].log, t)
    PROVE  Safe(x, B)
  BY DEF Safe

\* A replica that has committed C sends C.
LEMMA SendsCommitted ==
    ASSUME NEW C \in Seq(Entry), NEW log, Fit(log, Len(C), C)
    PROVE  /\ truncate_log_from(log, Len(C) + 1) = C
           /\ Smaller(Len(C), last_log_index(C)) = Len(C)
           /\ Extends(log, C)
  <1>1. Extends(log, C)
    BY DEF Fit, Extends
  <1>2. truncate_log_from(log, Len(C) + 1) = C
    BY <1>1, CutFits, SMT
  <1>3. last_log_index(C) = Len(C)
    BY LogEnd
  <1> QED  BY <1>1, <1>2, <1>3 DEF Smaller

\* A replica that is being filled with C.
LEMMA FillingHeld ==
    ASSUME NEW C \in Seq(Entry), Sorted(C), NEW r, Rep(r), NEW snapshot,
           snapshot.term \in Nat, snapshot.commitIndex = Len(C), snapshot.log = C,
           NEW p, Filling(p, r, snapshot)
    PROVE  Held(p, C) /\ \A t : Capped(C, t) => Capped(p.log, t)
  <1>1. r.currentTerm \in Nat
    BY DEF Rep
  <1>2. Larger(r.currentTerm, snapshot.term) \in Nat
    BY <1>1 DEF Larger
  <1>3. last_log_index(C) = Len(C)
    BY LogEnd
  <1>4. Smaller(snapshot.commitIndex, last_log_index(snapshot.log)) = Len(C)
    BY <1>3 DEF Smaller
  <1>5. /\ Shape(p) /\ p.online = r.online
        /\ p.currentTerm \in Nat /\ p.meta.currentTerm \in {0, p.currentTerm}
        /\ p.commitIndex \in Nat
        /\ \/ /\ p.meta.commitIndex = 0
              /\ \E j \in 0 .. Len(C) : p.log = SubSeq(C, 1, j)
           \/ p.meta.commitIndex = Len(C) /\ p.log = C
    BY <1>2, <1>4 DEF Filling
  <1>6. Fit(p.log, p.meta.commitIndex, C) /\ \A t : Capped(C, t) => Capped(p.log, t)
    <2>1. CASE p.meta.commitIndex = Len(C) /\ p.log = C
      <3>1. Extends(C, C)
        BY SMT DEF Extends
      <3> QED  BY <2>1, <3>1, LongFits
    <2>2. ASSUME p.meta.commitIndex = 0, NEW j \in 0 .. Len(C), p.log = SubSeq(C, 1, j)
          PROVE  Fit(p.log, p.meta.commitIndex, C) /\ \A t : Capped(C, t) => Capped(p.log, t)
      <3>1. Fit(p.log, p.meta.commitIndex, C)
        BY <2>2, PrefixFits
      <3>2. Len(p.log) = j /\ \A i \in 1 .. j : p.log[i] = C[i]
        BY <2>2, SMT
      <3>3. \A t : Capped(C, t) => Capped(p.log, t)
        BY <3>2, SMT DEF Capped
      <3> QED  BY <3>1, <3>3
    <2> QED  BY <1>5, <2>1, <2>2
  <1>7. /\ p.log \in Seq(Entry) /\ p.meta.commitIndex \in Nat /\ p.meta.currentTerm \in Nat
        /\ p.online \in BOOLEAN
    <2>1. p.log \in Seq(Entry) /\ p.meta.commitIndex \in Nat
      BY <1>6 DEF Fit
    <2> QED  BY <1>5, <2>1, SMT DEF Rep
  <1> QED  BY <1>5, <1>6, <1>7 DEF Held, Rep

\* A follower when the loop is over, and when it knows the outcome: log, commit
\* index and term, on disk too.
Has(p, log, commit, term) ==
    /\ Rep(p) /\ Stored(p) /\ p.online = TRUE
    /\ p.log = log /\ p.commitIndex = commit /\ p.currentTerm = term

\* persist_state makes it so.
LEMMA PersistHas ==
    ASSUME NEW s, Rep(s), s.online = TRUE, NEW p, p = persist_state(s)
    PROVE  Has(p, s.log, s.commitIndex, s.currentTerm)
  <1>1. Shape(s) /\ s.currentTerm \in Nat /\ s.commitIndex \in Nat
    BY DEF Rep
  <1>2. /\ Same(p, s) /\ p.meta.currentTerm = s.currentTerm
        /\ p.meta.commitIndex = s.commitIndex
    BY <1>1, PersistStep
  <1> QED  BY <1>1, <1>2 DEF Same, Rep, Has, Stored
-----------------------------------------------------------------------------
(* Terms: no leader serves in a term that was served before.               *)

\* What is in memory may be ahead of the disk and is never behind.
TermsOK(p) == Rep(p) /\ p.meta.currentTerm <= p.currentTerm

\* The term of the last leader is on some disk.  A leader is online, and its
\* term is on its own.
Terms(reps, l, sv) ==
    /\ reps = [r \in Replicas |-> reps[r]]
    /\ \A r \in Replicas : TermsOK(reps[r])
    /\ sv[1] \in Nat
    /\ \E s \in Replicas : sv[1] <= reps[s].meta.currentTerm
    /\ l \in Replicas \cup {NoReplica}
    /\ l # NoReplica => /\ reps[l].online = TRUE
                        /\ reps[l].meta.currentTerm = reps[l].currentTerm
                        /\ sv = <<reps[l].currentTerm, l>>

\* The last leader once the shard is sh, and what sh must be for a step to it.
Serving(sh, sv) ==
    IF HasLeader(sh) THEN <<sh.replicas[sh.leader].currentTerm, sh.leader>> ELSE sv

StepOK(sh, sv) ==
    /\ Terms(sh.replicas, sh.leader, Serving(sh, sv))
    /\ Serving(sh, sv) # sv => Serving(sh, sv)[1] > sv[1]

\* Statements keep the disk behind the memory.
LEMMA BetweenTerms ==
    ASSUME NEW r, TermsOK(r), NEW new, Rep(new), new.currentTerm >= r.currentTerm,
           NEW p, Between(p, r, new)
    PROVE  TermsOK(p)
  <1>1. Rep(p)
    BY DEF Between, Rep, TermsOK
  <1>2. /\ r.currentTerm \in Nat /\ r.meta.currentTerm \in Nat /\ new.currentTerm \in Nat
        /\ r.meta.currentTerm <= r.currentTerm
    BY DEF TermsOK, Rep
  <1>3. \/ p.currentTerm = r.currentTerm /\ p.meta.currentTerm = r.meta.currentTerm
        \/ /\ p.currentTerm = new.currentTerm
           /\ p.meta.currentTerm \in {r.meta.currentTerm, new.currentTerm}
    BY DEF Between
  <1>4. p.meta.currentTerm <= p.currentTerm
    BY <1>2, <1>3, SMT
  <1> QED  BY <1>1, <1>4 DEF TermsOK

LEMMA PrefixEntries ==
    ASSUME NEW s \in Seq(Entry), NEW j \in 0 .. Len(s)
    PROVE  SubSeq(s, 1, j) \in Seq(Entry)
  BY SMT

LEMMA FillingTerms ==
    ASSUME NEW r, Rep(r), NEW snapshot, snapshot.term \in Nat,
           snapshot.commitIndex \in Nat, snapshot.log \in Seq(Entry),
           NEW p, Filling(p, r, snapshot)
    PROVE  TermsOK(p)
  <1>1. r.currentTerm \in Nat
    BY DEF Rep
  <1>2. Larger(r.currentTerm, snapshot.term) \in Nat
    BY <1>1 DEF Larger
  <1>3. Smaller(snapshot.commitIndex, last_log_index(snapshot.log)) \in Nat
    BY LogEnd, SMT DEF Smaller
  <1>4. p.currentTerm \in Nat /\ p.meta.currentTerm \in {0, p.currentTerm}
    BY <1>2 DEF Filling
  <1>5. p.log \in Seq(Entry)
    BY PrefixEntries DEF Filling
  <1>6. p.meta.commitIndex \in Nat
    <2>1. 0 \in Nat
      OBVIOUS
    <2> QED  BY <1>3, <2>1 DEF Filling
  <1>7. p.meta.currentTerm \in Nat /\ p.meta.currentTerm <= p.currentTerm
    BY <1>4, SMT
  <1>8. Rep(p)
    BY <1>4, <1>5, <1>6, <1>7 DEF Filling, Rep
  <1> QED  BY <1>7, <1>8 DEF TermsOK

LEMMA PersistTerms ==
    ASSUME NEW r, Rep(r), NEW p, p = persist_state(r)
    PROVE  TermsOK(p) /\ p.meta.currentTerm = r.currentTerm
  <1>1. Shape(r) /\ r.currentTerm \in Nat
    BY DEF Rep
  <1>2. /\ Same(p, r) /\ p.meta.currentTerm = r.currentTerm
        /\ p.meta.commitIndex = r.commitIndex
    BY <1>1, PersistStep
  <1>3. Rep(p)
    BY <1>2 DEF Same, Rep
  <1>4. p.meta.currentTerm <= p.currentTerm
    BY <1>1, <1>2, SMT DEF Same
  <1> QED  BY <1>2, <1>3, <1>4 DEF TermsOK

\* And so is one that has changed nothing of this.
LEMMA SameStep ==
    ASSUME NEW sh, NEW sv, Terms(sh.replicas, sh.leader, sv)
    PROVE  StepOK(sh, sv) /\ Serving(sh, sv) = sv
  <1>1. CASE sh.leader = NoReplica
    BY <1>1 DEF StepOK, Serving, HasLeader
  <1>2. CASE sh.leader # NoReplica
    <2>1. HasLeader(sh)
      BY <1>2 DEF Terms, HasLeader
    <2>2. Serving(sh, sv) = sv
      BY <1>2, <2>1 DEF Terms, Serving
    <2> QED  BY <2>2 DEF StepOK
  <1> QED  BY <1>1, <1>2

\* A leader that goes on leading.
LEMMA LaterStep ==
    ASSUME NEW sh, NEW sv, StepOK(sh, sv), sh.leader # NoReplica,
           NEW x, x.leader = sh.leader, Terms(x.replicas, sh.leader, Serving(sh, sv))
    PROVE  StepOK(x, sv)
  <1> DEFINE v == Serving(sh, sv)
  <1> HIDE DEF v
  <1>1. Terms(x.replicas, sh.leader, v) /\ (v # sv => v[1] > sv[1])
    BY DEF StepOK, v
  <1>2. HasLeader(x)
    BY <1>1 DEF Terms, HasLeader
  <1>3. Serving(x, sv) = v
    BY <1>1, <1>2 DEF Terms, Serving
  <1> QED  BY <1>1, <1>3 DEF StepOK
-----------------------------------------------------------------------------
(* A replica is restarted, or filled with a copy.                          *)

\* What a crash leaves is whole.
LEMMA DiskWhole ==
    ASSUME NEW x, NEW C, Safe(x, C), NEW d, d = [r \in Replicas |-> OnDisk(x[r])]
    PROVE  Whole(d, C) /\ \A r \in Replicas : d[r].online = TRUE
  <1>1. ASSUME NEW r \in Replicas
        PROVE  /\ Held(d[r], C) /\ Stored(d[r]) /\ d[r].online = TRUE
               /\ d[r].log = x[r].log /\ d[r].meta = x[r].meta
    <2>1. Rep(x[r]) /\ Fit(x[r].log, x[r].meta.commitIndex, C) /\ d[r] = OnDisk(x[r])
      BY DEF Safe, Held
    <2>2. /\ Shape(d[r]) /\ d[r].online = TRUE /\ d[r].meta = x[r].meta
          /\ d[r].currentTerm = x[r].meta.currentTerm
          /\ d[r].commitIndex = x[r].meta.commitIndex /\ d[r].log = x[r].log
      BY <2>1, DiskFields DEF Rep
    <2> QED  BY <2>1, <2>2 DEF Rep, Held, Stored
  <1>2. d = [r \in Replicas |-> d[r]]
    OBVIOUS
  <1> QED  BY <1>1, <1>2 DEF Safe, Whole

\* Disks know the last leader's term.
LEMMA DiskTerms ==
    ASSUME NEW sh, NEW sv, sv[1] \in Nat, StepOK(sh, sv)
    PROVE  Terms([r \in Replicas |-> OnDisk(sh.replicas[r])], NoReplica, sv)
  <1> DEFINE reps == sh.replicas
             v == Serving(sh, sv)
             d == [r \in Replicas |-> OnDisk(reps[r])]
  <1>1. Terms(reps, sh.leader, v) /\ (v # sv => v[1] > sv[1])
    BY DEF StepOK
  <1> HIDE DEF v
  <1>2. ASSUME NEW r \in Replicas
        PROVE  TermsOK(d[r]) /\ d[r].meta = reps[r].meta
    <2>1. Rep(reps[r])
      BY <1>1 DEF Terms, TermsOK
    <2>2. d[r] = OnDisk(reps[r])
      OBVIOUS
    <2> HIDE DEF d
    <2>3. /\ Shape(d[r]) /\ d[r].online = TRUE /\ d[r].meta = reps[r].meta
          /\ d[r].currentTerm = reps[r].meta.currentTerm
          /\ d[r].commitIndex = reps[r].meta.commitIndex /\ d[r].log = reps[r].log
      BY <2>1, <2>2, DiskFields DEF Rep
    <2>4. Rep(d[r])
      BY <2>1, <2>3 DEF Rep
    <2>5. d[r].meta.currentTerm <= d[r].currentTerm
      BY <2>1, <2>3, SMT DEF Rep
    <2> QED  BY <2>3, <2>4, <2>5 DEF TermsOK
  <1>3. PICK s \in Replicas : v[1] <= reps[s].meta.currentTerm
    BY <1>1 DEF Terms
  <1>4. v[1] \in Nat /\ reps[s].meta.currentTerm \in Nat
    BY <1>1 DEF Terms, TermsOK, Rep
  <1>5. sv[1] <= reps[s].meta.currentTerm
    BY <1>1, <1>3, <1>4, SMT
  <1>6. d = [r \in Replicas |-> d[r]]
    OBVIOUS
  <1> HIDE DEF d
  <1>7. Terms(d, NoReplica, sv)
    BY <1>2, <1>5, <1>6 DEF Terms
  <1> QED  BY <1>7 DEF d

\* p has what q has.
Equal(p, q) ==
    /\ Rep(p) /\ Stored(p) /\ p.log = q.log
    /\ p.currentTerm = q.currentTerm /\ p.commitIndex = q.commitIndex

\* Nothing but who is online and who leads changes.
Like(y, sh) ==
    /\ IsShard(y) /\ y.replicas = [r \in Replicas |-> y.replicas[r]]
    /\ \A r \in Replicas : Equal(y.replicas[r], sh.replicas[r])
    /\ \/ y.leader = NoReplica
       \/ y.leader = sh.leader /\ y.replicas[y.leader].online = TRUE

LEMMA EqualSound ==
    ASSUME NEW sh, NEW C, Sound(sh, C), NEW y, Like(y, sh)
    PROVE  Sound(y, C) /\ Top(y.replicas, C) = Top(sh.replicas, C)
  <1> DEFINE f == sh.replicas
             x == y.replicas
  <1>1. /\ Whole(f, C) /\ sh.leader \in Replicas \cup {NoReplica}
        /\ sh.leader # NoReplica => LeaderOK(f, sh.leader, C)
    BY DEF Sound
  <1> HIDE DEF f
  <1>2. \A r \in Replicas : /\ Rep(x[r]) /\ Stored(x[r]) /\ x[r].log = f[r].log
                            /\ x[r].currentTerm = f[r].currentTerm
                            /\ x[r].commitIndex = f[r].commitIndex
    BY DEF Like, Equal, f
  <1>3. x = [r \in Replicas |-> x[r]]
    BY DEF Like
  <1> HIDE DEF x
  <1>4. \A r \in Replicas : /\ x[r].meta.currentTerm = f[r].meta.currentTerm
                            /\ x[r].meta.commitIndex = f[r].meta.commitIndex
    BY <1>1, <1>2 DEF Whole, Stored
  <1>5. \A r \in Replicas : Held(x[r], C)
    BY <1>1, <1>2, <1>4 DEF Whole, Safe, Held
  <1>6. Whole(x, C)
    BY <1>1, <1>2, <1>3, <1>4, <1>5 DEF Whole, Safe
  <1>7. y.leader # NoReplica => y.leader \in Replicas /\ LeaderOK(x, y.leader, C)
    <2> SUFFICES ASSUME y.leader # NoReplica
                 PROVE  y.leader \in Replicas /\ LeaderOK(x, y.leader, C)
      OBVIOUS
    <2> DEFINE l == y.leader
    <2>1. l = sh.leader /\ l \in Replicas /\ LeaderOK(f, l, C) /\ x[l].online = TRUE
      BY <1>1 DEF Like, x
    <2> HIDE DEF l
    <2>2. LeaderOK(x, l, C)
      BY <1>2, <2>1 DEF LeaderOK
    <2> QED  BY <2>1, <2>2 DEF l
  <1>8. Top(x, C) = Top(f, C)
    BY <1>2 DEF Top
  <1> QED  BY <1>6, <1>7, <1>8 DEF Like, Sound, x, f

LEMMA OnlineEqual ==
    ASSUME NEW q, Rep(q), Stored(q), NEW o \in BOOLEAN, NEW p, p = set_online(q, o)
    PROVE  Equal(p, q) /\ p.online = o
  <1>1. /\ Shape(p) /\ p.online = o /\ p.meta = q.meta
        /\ p.currentTerm = q.currentTerm /\ p.commitIndex = q.commitIndex /\ p.log = q.log
    BY OnlineFields, SMT DEF Rep
  <1> QED  BY <1>1 DEF Equal, Rep, Stored

\* load_state, on the way and in the end.
LEMMA LoadedEqual ==
    ASSUME NEW o, Rep(o), Stored(o), o.online = TRUE, NEW p,
           \/ p = o
           \/ p = persist_state(load_state(o))
           \/ p \in Loading(o, load_state(o))
    PROVE  Equal(p, o) /\ p.online = TRUE
  <1> DEFINE g == load_state(o)
  <1>1. /\ Shape(g) /\ g.online = TRUE /\ g.meta = o.meta
        /\ g.currentTerm = o.currentTerm /\ g.log = o.log
        /\ g.commitIndex = o.commitIndex
    BY LoadFields DEF Rep
  <1>2. p \in Loading(o, g) => Between(p, o, g)
    BY LoadingStates DEF Rep
  <1> HIDE DEF g
  <1>3. Rep(g)
    BY <1>1 DEF Rep
  <1>4. CASE p = o
    BY <1>4 DEF Equal
  <1>5. CASE p = persist_state(g)
    <2>1. Has(p, g.log, g.commitIndex, g.currentTerm)
      BY <1>1, <1>3, <1>5, PersistHas
    <2> QED  BY <1>1, <2>1 DEF Has, Equal
  <1>6. CASE p \in Loading(o, g)
    <2>1. Between(p, o, g) /\ o.meta.currentTerm = o.currentTerm
          /\ o.meta.commitIndex = o.commitIndex
      BY <1>2, <1>6 DEF Stored
    <2>2. /\ Shape(p) /\ p.online = TRUE /\ p.log = o.log /\ p.commitIndex = o.commitIndex
          /\ p.currentTerm = o.currentTerm /\ p.meta.currentTerm = o.currentTerm
          /\ p.meta.commitIndex = o.commitIndex
      BY <1>1, <2>1 DEF Between
    <2> QED  BY <2>2 DEF Equal, Rep, Stored
  <1> QED  BY <1>4, <1>5, <1>6 DEF g

\* One replica's record is replaced, and the leader is not touched: on the way,
LEMMA ReplacedSafe ==
    ASSUME NEW sh, NEW C, Sound(sh, C), sh.leader # NoReplica,
           NEW r \in Replicas, r # sh.leader, NEW p, Held(p, C),
           Capped(p.log, sh.replicas[sh.leader].currentTerm)
    PROVE  Safe([sh.replicas EXCEPT ![r] = p], C)
  <1> DEFINE f == sh.replicas
             l == sh.leader
             t == f[l].currentTerm
             next == [f EXCEPT ![r] = p]
  <1>1. Whole(f, C) /\ l \in Replicas /\ LeaderOK(f, l, C) /\ r # l
    BY DEF Sound
  <1> HIDE DEF f, l
  <1>2. /\ f = [s \in Replicas |-> f[s]] /\ C \in Seq(Entry) /\ Sorted(C)
        /\ \A s \in Replicas : Held(f[s], C) /\ Stored(f[s]) /\ Capped(f[s].log, t)
        /\ f[l].commitIndex = Len(C)
    BY <1>1 DEF Whole, Safe, LeaderOK
  <1>3. /\ next = [s \in Replicas |-> next[s]]
        /\ \A s \in Replicas : next[s] = IF s = r THEN p ELSE f[s]
    BY <1>2
  <1>4. f[l].meta.currentTerm = t /\ f[l].meta.commitIndex = Len(C)
    BY <1>1, <1>2 DEF Stored
  <1>5. Capped(p.log, t)
    BY DEF f, l
  <1> HIDE DEF next, t
  <1>6. \A s \in Replicas : Held(next[s], C) /\ Capped(next[s].log, t)
    BY <1>2, <1>3, <1>5
  <1>7. next[l] = f[l]
    BY <1>1, <1>3
  <1>8. Safe(next, C)
    BY <1>1, <1>2, <1>3, <1>4, <1>6, <1>7, LeaderSafe, ZenonT(40)
  <1> QED  BY <1>8 DEF next, f

\* and in the end.
LEMMA ReplacedSound ==
    ASSUME NEW sh, NEW C, Sound(sh, C), sh.leader # NoReplica,
           NEW r \in Replicas, r # sh.leader, NEW q,
           Has(q, C, Len(C), sh.replicas[sh.leader].currentTerm),
           NEW y, IsShard(y), y.leader = sh.leader, y.replicas = [sh.replicas EXCEPT ![r] = q]
    PROVE  Sound(y, C) /\ Top(sh.replicas, C) \subseteq Top(y.replicas, C)
  <1> DEFINE f == sh.replicas
             l == sh.leader
             t == f[l].currentTerm
             next == [f EXCEPT ![r] = q]
  <1>1. Whole(f, C) /\ l \in Replicas /\ LeaderOK(f, l, C) /\ r # l
    BY DEF Sound
  <1>2. Has(q, C, Len(C), t) /\ y.replicas = next
    OBVIOUS
  <1> HIDE DEF f, l
  <1>3. /\ f = [s \in Replicas |-> f[s]] /\ C \in Seq(Entry) /\ Sorted(C)
        /\ \A s \in Replicas : Rep(f[s]) /\ Stored(f[s])
        /\ Fit(f[l].log, Len(C), C) /\ Capped(f[l].log, t) /\ t \in Nat
    BY <1>1, WholeFields, SMT DEF Reps, LeaderOK, Rep
  <1>4. /\ next = [s \in Replicas |-> next[s]]
        /\ \A s \in Replicas : next[s] = IF s = r THEN q ELSE f[s]
    BY <1>3
  <1>5. Capped(C, t)
    BY <1>3, FitCapped
  <1>6. Before(C, t, Len(C) + 1) /\ Fit(C, Len(C), C)
    <2>1. Extends(C, C)
      BY <1>3, SMT DEF Extends
    <2> QED  BY <1>3, <1>5, <2>1, CommittedBefore, LongFits
  <1>7. /\ Rep(q) /\ Stored(q) /\ q.log = C /\ q.commitIndex = Len(C) /\ q.currentTerm = t
        /\ q.meta.commitIndex = Len(C)
    BY <1>2 DEF Has, Stored
  <1>8. Held(q, C) /\ Capped(q.log, t) /\ Before(q.log, t, Len(C) + 1) /\ q.currentTerm <= t
    BY <1>3, <1>5, <1>6, <1>7, SMT DEF Held
  <1>9. Safe(next, C)
    BY <1>8, ReplacedSafe DEF next, t, f, l
  <1>10. Whole(next, C)
    BY <1>3, <1>4, <1>7, <1>9 DEF Whole
  <1>11. next[l] = f[l] /\ \A s \in Replicas : s # r => next[s] = f[s]
    BY <1>1, <1>4
  <1>12. next[r] = q
    BY <1>4
  <1> HIDE DEF next, t
  <1>13. LeaderOK(next, l, C)
    <2>1. /\ next[l].online = TRUE /\ next[l].commitIndex = Len(C) /\ next[l].currentTerm = t
      BY <1>1, <1>11 DEF LeaderOK, t
    <2>2. ASSUME NEW s \in Replicas
          PROVE  /\ next[s].currentTerm <= t /\ Capped(next[s].log, t)
                 /\ s # l => Before(next[s].log, t, Len(C) + 1)
      BY <1>1, <1>8, <1>11, <1>12 DEF LeaderOK, t
    <2> QED  BY <1>1, <2>1, <2>2 DEF LeaderOK
  <1>14. Top(f, C) \subseteq Top(next, C)
    BY <1>7, <1>11, <1>12 DEF Top
  <1> QED  BY <1>1, <1>2, <1>10, <1>13, <1>14 DEF Sound, l, f

\* One replica's record is replaced, and the leader is not touched.
LEMMA ReplacedTerms ==
    ASSUME NEW sh, NEW v, Terms(sh.replicas, sh.leader, v), IsShard(sh),
           NEW r \in Replicas, r # sh.leader, sh.leader # NoReplica,
           NEW p, TermsOK(p), NEW x, x = [sh EXCEPT !.replicas[r] = p]
    PROVE  x.leader = sh.leader /\ Terms(x.replicas, sh.leader, v)
  <1> DEFINE reps == sh.replicas
             l == sh.leader
             next == [reps EXCEPT ![r] = p]
  <1>1. x.leader = l /\ x.replicas = next
    BY DEF IsShard
  <1>2. /\ reps = [s \in Replicas |-> reps[s]] /\ l \in Replicas
        /\ reps[l].online = TRUE /\ reps[l].meta.currentTerm = reps[l].currentTerm
        /\ v = <<reps[l].currentTerm, l>> /\ v[1] \in Nat
        /\ \A s \in Replicas : TermsOK(reps[s])
    BY DEF Terms
  <1> HIDE DEF reps, l
  <1>3. next = [s \in Replicas |-> next[s]] /\ next[r] = p
        /\ \A s \in Replicas : s # r => next[s] = reps[s]
    BY <1>2
  <1>4. v[1] = reps[l].meta.currentTerm
    BY <1>2
  <1>5. r # l
    BY DEF l
  <1> HIDE DEF next
  <1>6. next[l] = reps[l] /\ v[1] <= next[l].meta.currentTerm
    BY <1>2, <1>3, <1>4, <1>5, SMT
  <1>7. Terms(next, l, v)
    BY <1>2, <1>3, <1>6 DEF Terms
  <1> QED  BY <1>1, <1>7 DEF l

\* A replica with a snapshot of C.
LEMMA CopyHas ==
    ASSUME NEW C \in Seq(Entry), NEW o, Rep(o), o.online = TRUE, NEW t \in Nat,
           o.currentTerm <= t, NEW S, S.term = t, S.commitIndex = Len(C), S.log = C
    PROVE  Has(persist_state(Installed(o, S)), C, Len(C), t)
  <1> DEFINE g == Installed(o, S)
  <1>1. /\ Shape(g) /\ g.online = o.online
        /\ g.currentTerm = Larger(o.currentTerm, S.term)
        /\ g.commitIndex = Smaller(S.commitIndex, last_log_index(S.log))
        /\ g.log = S.log
        /\ g.meta.currentTerm = 0 /\ g.meta.commitIndex = 0
    BY InstalledFields DEF Rep
  <1> HIDE DEF g
  <1>2. Larger(o.currentTerm, S.term) = t /\ Smaller(S.commitIndex, last_log_index(S.log)) = Len(C)
    <2>1. last_log_index(C) = Len(C)
      BY LogEnd
    <2>2. o.currentTerm \in Nat
      BY DEF Rep
    <2> QED  BY <2>1, <2>2, SMT DEF Larger, Smaller
  <1>3. 0 \in Nat /\ Len(C) \in Nat
    BY SMT
  <1>4. /\ Rep(g) /\ g.online = TRUE /\ g.log = C /\ g.commitIndex = Len(C)
        /\ g.currentTerm = t
    BY <1>1, <1>2, <1>3 DEF Rep
  <1>5. Has(persist_state(g), C, Len(C), t)
    BY <1>4, PersistHas
  <1> QED  BY <1>5 DEF g

\* A replica that is given a copy of what the leader has committed.
LEMMA CopyHeld ==
    ASSUME NEW sh, NEW C, Sound(sh, C), sh.leader # NoReplica,
           NEW r \in Replicas, sh.replicas[r].online = TRUE,
           NEW S, S = export_snapshot(sh.replicas[sh.leader]),
           NEW t, t = sh.replicas[sh.leader].currentTerm
    PROVE  /\ \A p \in Installing(sh.replicas[r], S) : Held(p, C) /\ Capped(p.log, t)
           /\ Has(persist_state(Installed(sh.replicas[r], S)), C, Len(C), t)
  <1> DEFINE f == sh.replicas
             l == sh.leader
             w == f[l]
             o == f[r]
  <1>1. Whole(f, C) /\ l \in Replicas /\ LeaderOK(f, l, C)
    BY DEF Sound
  <1>2. /\ C \in Seq(Entry) /\ Sorted(C) /\ Rep(w) /\ Fit(w.log, Len(C), C)
        /\ w.commitIndex = Len(C) /\ w.currentTerm = t /\ Capped(w.log, t)
        /\ Rep(o) /\ Held(o, C) /\ o.currentTerm <= t /\ Capped(o.log, t) /\ o.online = TRUE
    <2> HIDE DEF f, l
    <2>1. /\ C \in Seq(Entry) /\ Sorted(C)
          /\ \A s \in Replicas : Rep(f[s]) /\ Fit(f[s].log, f[s].commitIndex, C)
      BY <1>1, WholeFields
    <2>2. /\ f[l].commitIndex = Len(C)
          /\ \A s \in Replicas : /\ f[s].currentTerm <= f[l].currentTerm
                                 /\ Capped(f[s].log, f[l].currentTerm)
      BY <1>1 DEF LeaderOK
    <2>3. Held(o, C)
      BY <1>1 DEF Whole, Safe
    <2> QED  BY <1>1, <2>1, <2>2, <2>3 DEF f, l
  <1>3. S = export_snapshot(w)
    OBVIOUS
  <1> HIDE DEF w, o
  <1>4. /\ S.term = t /\ S.commitIndex = Len(C) /\ S.log = C
    <2>1. truncate_log_from(w.log, Len(C) + 1) = C
      BY <1>2, SendsCommitted
    <2> QED  BY <1>2, <1>3, <2>1, SMT DEF export_snapshot
  <1>5. t \in Nat /\ Capped(C, t) /\ Len(C) \in Nat /\ Shape(o)
    BY <1>2, FitCapped DEF Rep
  <1>6. ASSUME NEW p \in Installing(o, S)
        PROVE  Held(p, C) /\ Capped(p.log, t)
    <2>1. p = o \/ Filling(p, o, S)
      BY <1>2, <1>4, <1>5, InstallingStates
    <2> QED  BY <1>2, <1>4, <1>5, <2>1, FillingHeld, SMT
  <1>7. Has(persist_state(Installed(o, S)), C, Len(C), t)
    BY <1>2, <1>4, <1>5, CopyHas
  <1> QED  BY <1>6, <1>7 DEF o
-----------------------------------------------------------------------------
(* A write leaves the terms in order wherever it is cut short.              *)

LEMMA LevelTerms ==
    ASSUME NEW f, TermsOK(f), f.online = TRUE, NEW ld, Rep(ld)
    PROVE  TermsOK(Level(f, ld)) /\ Level(f, ld).online = TRUE
  <1> DEFINE k == Level(f, ld)
             g == Levelled(f, ld)
  <1>1. Rep(f)
    BY DEF TermsOK
  <1>2. Rep(g) /\ g.online = f.online
    BY <1>1, LevelFields
  <1>3. /\ Same(k, g)
        /\ \/ k = f
           \/ /\ k.meta.currentTerm = k.currentTerm
              /\ k.meta.commitIndex = k.commitIndex
    BY <1>1, LevelPersisted
  <1> HIDE DEF k, g
  <1>4. k.online = TRUE
    BY <1>2, <1>3 DEF Same
  <1>5. CASE k = f
    BY <1>4, <1>5 DEF k
  <1>6. CASE /\ k.meta.currentTerm = k.currentTerm
             /\ k.meta.commitIndex = k.commitIndex
    <2>1. Rep(k)
      BY <1>2, <1>3, <1>6 DEF Same, Rep
    <2>2. k.meta.currentTerm <= k.currentTerm
      BY <1>6, <2>1, SMT DEF Rep
    <2> QED  BY <1>4, <2>1, <2>2 DEF TermsOK, k
  <1> QED  BY <1>3, <1>5, <1>6

LEMMA SentTerms ==
    ASSUME NEW f, TermsOK(f), f.online = TRUE, NEW ld, NEW index, NEW old, NEW e,
           Appended(ld, index, old, e), NEW l
    PROVE  LET g == Sent(f, l, ld, index)
           IN  /\ Rep(g) /\ g.online = f.online /\ g.meta = f.meta
               /\ g.currentTerm >= f.currentTerm
               /\ TermsOK(SentTo(f, l, ld, index))
               /\ Same(SentTo(f, l, ld, index), g)
  <1> DEFINE g == Sent(f, l, ld, index)
  <1>1. Rep(f)
    BY DEF TermsOK
  <1>2. /\ Rep(g) /\ g.online = f.online /\ g.meta = f.meta
        /\ g.currentTerm >= f.currentTerm
    <2>1. SentOK(g, f, ld, index, old, e)
      BY <1>1, SentFields
    <2> HIDE DEF g
    <2> QED  BY <2>1 DEF SentOK
  <1> HIDE DEF g
  <1>3. TermsOK(persist_state(g)) /\ Same(persist_state(g), g)
    BY <1>2, PersistTerms, PersistStep DEF Rep
  <1> QED  BY <1>2, <1>3 DEF SentTo, g

\* During a follower's turn.
LEMMA SendingTerms ==
    ASSUME NEW f, TermsOK(f), f.online = TRUE, NEW ld, NEW index, NEW old, NEW e,
           Appended(ld, index, old, e), NEW l, NEW p, SendingTo(p, f, l, ld, index)
    PROVE  TermsOK(p)
  <1> DEFINE k == Level(f, ld)
             s == Sent(k, l, ld, index)
             S == export_snapshot(ld)
  <1>1. Rep(f) /\ Rep(ld)
    BY DEF TermsOK, Appended
  <1>2. TermsOK(k) /\ k.online = TRUE
    BY <1>1, LevelTerms
  <1>3. \/ p = f
        \/ p \in Installing(f, S)
        \/ p \in Appending(k, s)
        \/ p = SentTo(k, l, ld, index)
    BY DEF SendingTo
  <1> HIDE DEF k
  <1>4. /\ Rep(s) /\ s.online = k.online /\ s.meta = k.meta
        /\ s.currentTerm >= k.currentTerm
        /\ TermsOK(SentTo(k, l, ld, index))
        /\ Same(SentTo(k, l, ld, index), s)
    BY <1>2, SentTerms
  <1> HIDE DEF s, S
  <1>5. CASE p \in Installing(f, S)
    <2>1. S.term \in Nat /\ S.commitIndex \in Nat /\ S.log \in Seq(Entry)
      BY <1>1, SnapshotFields DEF S
    <2>2. p = f \/ Filling(p, f, S)
      BY <1>1, <1>5, <2>1, InstallingStates
    <2> QED  BY <1>1, <2>1, <2>2, FillingTerms
  <1>6. CASE p \in Appending(k, s)
    <2>1. Between(p, k, s)
      BY <1>2, <1>4, <1>6, AppendingStates DEF TermsOK, Rep
    <2> QED  BY <1>2, <1>4, <2>1, BetweenTerms
  <1> QED  BY <1>3, <1>4, <1>5, <1>6

\* When a follower that accepted is told how the write has ended.
LEMMA FinalTerms ==
    ASSUME NEW f, TermsOK(f), f.online = TRUE, NEW ld, NEW index, NEW old, NEW e,
           Appended(ld, index, old, e), NEW l
    PROVE  LET sent == SentTo(f, l, ld, index)
               beat == Heartbeat(f, l, ld, index)
               drop == Dropped(f, l, ld, index)
           IN  /\ Rep(beat) /\ Rep(drop)
               /\ beat.online = f.online
               /\ beat.currentTerm >= sent.currentTerm
               /\ TermsOK(persist_state(beat)) /\ TermsOK(persist_state(drop))
  <1> DEFINE s == Sent(f, l, ld, index)
             sent == SentTo(f, l, ld, index)
             beat == Heartbeat(f, l, ld, index)
             drop == Dropped(f, l, ld, index)
  <1>1. Rep(s) /\ s.online = TRUE /\ sent.currentTerm = s.currentTerm
    BY SentTerms DEF Same
  <1>2. ld.currentTerm \in Nat /\ index \in Nat
    BY SMT DEF Appended, Rep
  <1>3. beat = append_entries(s, ld.currentTerm, l, index, ld.log[index].term,
                              EmptyLog, index)
    BY DEF Heartbeat
  <1>4. drop = discard_uncommitted(s)
    BY DEF Dropped
  <1> HIDE DEF s, sent, beat, drop
  <1>5. Rep(beat) /\ beat.online = s.online /\ beat.currentTerm >= s.currentTerm
    <2>1. BeatOK(beat, s, ld.currentTerm, index, ld.log[index].term)
      BY <1>1, <1>2, <1>3, BeatFields
    <2> QED  BY <2>1 DEF BeatOK
  <1>6. Rep(drop)
    <2>1. /\ Shape(drop) /\ drop.online = s.online /\ drop.meta = s.meta
          /\ drop.currentTerm = s.currentTerm /\ drop.commitIndex = s.commitIndex
          /\ drop.log \in Seq(Entry)
      BY <1>1, <1>4, DiscardFields
    <2> QED  BY <1>1, <2>1 DEF Rep
  <1>7. TermsOK(persist_state(beat)) /\ TermsOK(persist_state(drop))
    BY <1>5, <1>6, PersistTerms
  <1> QED  BY <1>1, <1>5, <1>6, <1>7 DEF sent, beat, drop

LEMMA EndingTerms ==
    ASSUME NEW f, TermsOK(f), f.online = TRUE, NEW c, NEW old, NEW e,
           Appended(c.leader, c.index, old, e),
           NEW final, final = IF Replicated(c)
                              THEN persist_state(Heartbeat(f, c.l, c.leader, c.index))
                              ELSE persist_state(Dropped(f, c.l, c.leader, c.index)),
           NEW p, EndingFor(p, f, c, final)
    PROVE  TermsOK(p)
  <1> DEFINE l == c.l
             ld == c.leader
             index == c.index
             sent == SentTo(f, l, ld, index)
             beat == Heartbeat(f, l, ld, index)
             drop == Dropped(f, l, ld, index)
             s == Sent(f, l, ld, index)
             new == [final EXCEPT !.meta = sent.meta]
  <1>1. /\ Rep(s) /\ s.online = f.online /\ s.meta = f.meta
        /\ s.currentTerm >= f.currentTerm
        /\ TermsOK(sent) /\ Same(sent, s)
    BY SentTerms
  <1>2. /\ Rep(beat) /\ Rep(drop)
        /\ beat.online = f.online
        /\ beat.currentTerm >= sent.currentTerm
        /\ TermsOK(persist_state(beat)) /\ TermsOK(persist_state(drop))
    BY FinalTerms
  <1>3. \/ p = sent
        \/ p = final
        \/ Replicated(c) /\ p \in Appending(sent, new)
    BY DEF EndingFor
  <1>4. TermsOK(final)
    BY <1>2
  <1>5. CASE Replicated(c) /\ p \in Appending(sent, new)
    <2>1. final = persist_state(beat)
      BY <1>5
    <2> HIDE DEF s, sent, beat, drop
    <2>2. Same(final, beat)
      BY <1>2, <2>1, PersistStep DEF Rep
    <2>3. Shape(sent) /\ Rep(sent) /\ Shape(final)
      BY <1>1, <2>2 DEF TermsOK, Rep, Same
    <2>4. Same(new, final) /\ new.meta = sent.meta
      <3>1. sent.meta = [x \in MetaFields |-> sent.meta[x]]
        BY <2>3 DEF Shape
      <3> QED  BY <2>3, <3>1, MetaFieldsOf, ZenonT(40)
    <2> HIDE DEF new
    <2>5. /\ Rep(new) /\ Shape(new) /\ new.online = sent.online
          /\ new.currentTerm = beat.currentTerm
      BY <1>1, <1>2, <2>2, <2>3, <2>4, ZenonT(40) DEF Same, Rep
    <2>6. Between(p, sent, new)
      BY <1>5, <2>3, <2>4, <2>5, AppendingStates
    <2>7. new.currentTerm >= sent.currentTerm
      BY <1>2, <2>5
    <2> QED  BY <1>1, <2>5, <2>6, <2>7, BetweenTerms
  <1> QED  BY <1>1, <1>3, <1>4, <1>5

\* The leader: its term stays, in memory and on disk.
Leading(p, r) ==
    /\ TermsOK(p) /\ p.online = r.online
    /\ p.currentTerm = r.currentTerm /\ p.meta.currentTerm = r.currentTerm

LEMMA LeadingStates ==
    ASSUME NEW r, Leading(r, r), r.online = TRUE, NEW ld, Rep(ld), ld.online = r.online,
           ld.currentTerm = r.currentTerm, ld.meta = r.meta, NEW index \in Nat
    PROVE  /\ Leading(ld, r)
           /\ Leading(persist_state(commit_to(ld, index)), r)
           /\ Leading(discard_uncommitted(ld), r)
           /\ \A p \in Committing(ld, commit_to(ld, index)) : Leading(p, r)
  <1> DEFINE new == commit_to(ld, index)
             drop == discard_uncommitted(ld)
             done == persist_state(new)
  <1>1. /\ ld.currentTerm \in Nat /\ ld.commitIndex \in Nat /\ ld.log \in Seq(Entry)
        /\ ld.online = TRUE /\ Shape(ld)
    BY DEF Rep
  <1>2. Leading(ld, r)
    <2>1. ld.meta.currentTerm = r.currentTerm
      BY DEF Leading
    <2>2. ld.meta.currentTerm <= ld.currentTerm
      BY <1>1, <2>1, SMT
    <2> QED  BY <2>1, <2>2 DEF Leading, TermsOK
  <1>3. /\ Shape(new) /\ new.online = ld.online /\ new.meta = ld.meta
        /\ new.currentTerm = ld.currentTerm /\ new.log = ld.log
        /\ new.commitIndex = Larger(ld.commitIndex, Smaller(index, Len(ld.log)))
    BY <1>1, CommitFields, ZenonT(40)
  <1>4. /\ Shape(drop) /\ drop.online = ld.online /\ drop.meta = ld.meta
        /\ drop.currentTerm = ld.currentTerm /\ drop.commitIndex = ld.commitIndex
        /\ drop.log \in Seq(Entry)
    BY DiscardFields
  <1> HIDE DEF new, drop
  <1>5. new.commitIndex \in Nat
    BY <1>1, <1>3, SMT DEF Larger, Smaller
  <1>6. Rep(new)
    BY <1>3, <1>5 DEF Rep
  <1>7. Rep(drop)
    BY <1>4 DEF Rep
  <1>8. Leading(drop, r)
    BY <1>2, <1>4, <1>7 DEF Leading, TermsOK
  <1>9. Leading(done, r)
    <2>1. TermsOK(done) /\ done.meta.currentTerm = new.currentTerm
      BY <1>6, PersistTerms
    <2>2. Same(done, new)
      BY <1>3, PersistStep
    <2> HIDE DEF done
    <2> QED  BY <1>3, <2>1, <2>2 DEF Leading, Same
  <1>10. ASSUME NEW p \in Committing(ld, new)
         PROVE  Leading(p, r)
    <2>1. Between(p, ld, new)
      BY <1>1, <1>3, CommittingStates
    <2>2. new.currentTerm >= ld.currentTerm
      BY <1>1, <1>3, SMT
    <2>3. TermsOK(p)
      BY <1>2, <1>6, <2>1, <2>2, BetweenTerms DEF Leading
    <2>4. ld.meta.currentTerm = r.currentTerm
      BY <1>2 DEF Leading
    <2>5. /\ p.online \in {ld.online, new.online}
          /\ \/ /\ p.currentTerm = ld.currentTerm
                /\ p.meta.currentTerm = ld.meta.currentTerm
             \/ /\ p.currentTerm = new.currentTerm
                /\ p.meta.currentTerm \in {ld.meta.currentTerm, new.currentTerm}
      BY <2>1 DEF Between
    <2>6. /\ p.online = r.online /\ p.currentTerm = r.currentTerm
          /\ p.meta.currentTerm = r.currentTerm
      BY <1>3, <2>4, <2>5
    <2> QED  BY <2>3, <2>6 DEF Leading
  <1> QED  BY <1>2, <1>8, <1>9, <1>10 DEF new, drop

\* A state of the write in which the leader leads and the others are good.
LEMMA WrittenStep ==
    ASSUME NEW reps, NEW l \in Replicas, NEW sv, Terms(reps, l, sv), NEW x,
           x = [r \in Replicas |-> x[r]], Leading(x[l], reps[l]),
           \A r \in Replicas \ {l} : TermsOK(x[r])
    PROVE  Terms(x, l, sv)
  <1>1. l # NoReplica
    BY NoReplicaAssumption
  <1>2. /\ reps[l].online = TRUE /\ sv = <<reps[l].currentTerm, l>>
        /\ reps[l].currentTerm \in Nat /\ sv[1] \in Nat
    BY <1>1 DEF Terms, TermsOK, Rep
  <1>3. /\ TermsOK(x[l]) /\ x[l].online = reps[l].online
        /\ x[l].currentTerm = reps[l].currentTerm
        /\ x[l].meta.currentTerm = reps[l].currentTerm
    BY DEF Leading
  <1>4. sv[1] = reps[l].currentTerm
    BY <1>2
  <1>5. sv[1] <= x[l].meta.currentTerm
    BY <1>2, <1>3, <1>4, SMT
  <1>6. \A r \in Replicas : TermsOK(x[r])
    BY <1>3
  <1> QED  BY <1>1, <1>2, <1>3, <1>5, <1>6 DEF Terms

\* replicate_command_locked: the states it passes through and the one it leaves.
LEMMA WriteTerms ==
    ASSUME NEW sh, IsShard(sh), NEW sv, Terms(sh.replicas, sh.leader, sv),
           sh.leader # NoReplica, NEW command \in Commands, NEW key \in Keys,
           NEW value \in Values \cup {NoValue},
           NEW c, c = Context(sh, command, key, value)
    PROVE  \A x \in Writing(sh, c) \cup {Replicate(sh, c)} :
              x.leader = sh.leader /\ Terms(x.replicas, sh.leader, sv)
  <1> DEFINE reps == sh.replicas
             l == sh.leader
             lr == reps[l]
             e == NewEntry(lr, command, key, value)
             done == Replicate(sh, c).replicas
  <1>1. Reps(reps) /\ l \in Replicas
    BY DEF Terms, TermsOK, Reps
  <1>0. WriteOf(sh, c, e)
    BY <1>1, ContextFields
  <1>2. ContextOf(sh, c) /\ c.l = l
    BY <1>0 DEF WriteOf
  <1>3. Rep(lr) /\ lr.online = TRUE /\ Leading(lr, lr)
    <2>1. /\ TermsOK(lr) /\ lr.online = TRUE /\ lr.meta.currentTerm = lr.currentTerm
      BY <1>1 DEF Terms
    <2> QED  BY <2>1 DEF TermsOK, Leading
  <1> HIDE DEF e
  <1>4. /\ c.leader.online = lr.online /\ c.leader.meta = lr.meta
        /\ c.leader.currentTerm = lr.currentTerm
    BY <1>0 DEF WriteOf
  <1>6. Appended(c.leader, c.index, lr.log, e)
    BY <1>0 DEF WriteOf
  <1>7. c.index \in Nat /\ Rep(c.leader)
    BY <1>6, SMT DEF Appended
  <1>8. /\ Leading(c.leader, lr)
        /\ Leading(persist_state(commit_to(c.leader, c.index)), lr)
        /\ Leading(discard_uncommitted(c.leader), lr)
        /\ \A p \in Committing(c.leader, commit_to(c.leader, c.index)) : Leading(p, lr)
    <2> HIDE DEF lr
    <2> QED  BY <1>3, <1>4, <1>7, LeadingStates
  <1>9. ASSUME NEW r \in c.followers
        PROVE  r \in Replicas \ {l} /\ reps[r].online = TRUE /\ TermsOK(reps[r])
    BY <1>2 DEF ContextOf, Online, Terms, TermsOK, Rep
  <1>10. \A r \in Replicas : TermsOK(reps[r])
    BY DEF Terms
  <1>11. c.acks \in SUBSET c.followers
    BY <1>2 DEF ContextOf
  <1>12. ASSUME NEW r \in c.followers
         PROVE  /\ TermsOK(SentTo(reps[r], c.l, c.leader, c.index))
                /\ TermsOK(persist_state(Heartbeat(reps[r], c.l, c.leader, c.index)))
                /\ TermsOK(persist_state(Dropped(reps[r], c.l, c.leader, c.index)))
    <2> DEFINE f == reps[r]
    <2>1. TermsOK(f) /\ f.online = TRUE
      BY <1>9
    <2> HIDE DEF f
    <2>2. TermsOK(SentTo(f, c.l, c.leader, c.index))
      BY <1>6, <2>1, SentTerms
    <2>3. /\ TermsOK(persist_state(Heartbeat(f, c.l, c.leader, c.index)))
          /\ TermsOK(persist_state(Dropped(f, c.l, c.leader, c.index)))
      BY <1>6, <2>1, FinalTerms
    <2> QED  BY <2>2, <2>3 DEF f
  <1>13. ASSUME NEW x, x.leader = l, x.replicas = [r \in Replicas |-> x.replicas[r]],
                Leading(x.replicas[l], lr),
                \A r \in Replicas \ {l} : TermsOK(x.replicas[r])
         PROVE  Terms(x.replicas, l, sv)
    BY <1>1, <1>13, WrittenStep
  <1>14. /\ IsShard(Replicate(sh, c)) /\ Replicate(sh, c).leader = l
         /\ done = [r \in Replicas |-> done[r]]
         /\ done[c.l] = IF Replicated(c)
                        THEN persist_state(commit_to(c.leader, c.index))
                        ELSE discard_uncommitted(c.leader)
         /\ \A r \in Replicas \ {c.l} :
               /\ r \in c.acks => done[r] =
                     IF Replicated(c)
                     THEN persist_state(Heartbeat(reps[r], c.l, c.leader, c.index))
                     ELSE persist_state(Dropped(reps[r], c.l, c.leader, c.index))
               /\ r \in c.followers \ c.acks =>
                     done[r] = SentTo(reps[r], c.l, c.leader, c.index)
               /\ r \notin c.followers => done[r] = reps[r]
    <2>1. DoneOf(Replicate(sh, c), sh, c)
      BY <1>1, <1>2, ReplicateDone
    <2> QED  BY <2>1 DEF DoneOf
  <1> HIDE DEF done, lr
  <1>15. Leading(done[l], lr) /\ \A r \in Replicas \ {l} : TermsOK(done[r])
    <2>1. Leading(done[l], lr)
      BY <1>2, <1>8, <1>14, ZenonT(40)
    <2>2. ASSUME NEW r \in Replicas \ {l}
          PROVE  TermsOK(done[r])
      <3>1. CASE r \in c.acks
        BY <1>2, <1>11, <1>12, <1>14, <3>1, ZenonT(40)
      <3>2. CASE r \in c.followers \ c.acks
        BY <1>2, <1>12, <1>14, <3>2, ZenonT(40)
      <3>3. CASE r \notin c.followers
        BY <1>2, <1>10, <1>14, <3>3
      <3> QED  BY <1>11, <3>1, <3>2, <3>3
    <2> QED  BY <2>1, <2>2
  <1>16. Replicate(sh, c).leader = l /\ Terms(Replicate(sh, c).replicas, l, sv)
    BY <1>13, <1>14, <1>15 DEF done
  <1>18. ASSUME NEW y \in Sending(sh, c)
         PROVE  /\ y = [r \in Replicas |-> y[r]]
                /\ Leading(y[l], lr)
                /\ \A r \in Replicas \ {l} : TermsOK(y[r])
    <2>1. /\ y = [r \in Replicas |-> y[r]]
          /\ y[c.l] = c.leader
          /\ \A r \in Replicas \ {c.l} :
                /\ r \in c.followers =>
                      SendingTo(y[r], reps[r], c.l, c.leader, c.index)
                /\ r \notin c.followers => y[r] = reps[r]
      BY <1>1, <1>2, SendingStates, SMT
    <2>2. ASSUME NEW r \in Replicas \ {l}
          PROVE  TermsOK(y[r])
      <3>1. CASE r \in c.followers
        <4> DEFINE f == reps[r]
        <4>1. TermsOK(f) /\ f.online = TRUE
          BY <1>9, <3>1
        <4>2. SendingTo(y[r], f, c.l, c.leader, c.index)
          BY <1>2, <2>1, <3>1
        <4> HIDE DEF f
        <4> QED  BY <1>6, <4>1, <4>2, SendingTerms
      <3>2. CASE r \notin c.followers
        BY <1>2, <1>10, <2>1, <3>2
      <3> QED  BY <3>1, <3>2
    <2> QED  BY <1>2, <1>8, <2>1, <2>2
  <1>19. ASSUME NEW y \in Ending(sh, c)
         PROVE  /\ y = [r \in Replicas |-> y[r]]
                /\ Leading(y[l], lr)
                /\ \A r \in Replicas \ {l} : TermsOK(y[r])
    <2>1. /\ y = [r \in Replicas |-> y[r]]
          /\ \A r \in Replicas \ {c.l} :
                /\ r \in c.followers \ c.acks =>
                      y[r] = SentTo(reps[r], c.l, c.leader, c.index)
                /\ r \notin c.followers => y[r] = reps[r]
          /\ \/ /\ \/ y[c.l] = c.leader
                   \/ /\ Replicated(c)
                      /\ y[c.l] \in Committing(c.leader, commit_to(c.leader, c.index))
                /\ \A r \in c.acks :
                      y[r] = SentTo(reps[r], c.l, c.leader, c.index)
             \/ /\ y[c.l] = done[c.l]
                /\ \A r \in c.acks : EndingFor(y[r], reps[r], c, done[r])
      BY <1>1, <1>2, EndingStates, SMT DEF done
    <2>2. Leading(y[l], lr)
      BY <1>2, <1>8, <1>15, <2>1
    <2>3. ASSUME NEW r \in c.acks, EndingFor(y[r], reps[r], c, done[r])
          PROVE  TermsOK(y[r])
      <3> DEFINE f == reps[r]
                 final == done[r]
      <3>1. r \in c.followers /\ r \in Replicas \ {c.l}
        BY <1>2, <1>9, <1>11
      <3>2. TermsOK(f) /\ f.online = TRUE
        BY <1>9, <3>1
      <3>3. final = IF Replicated(c)
                    THEN persist_state(Heartbeat(f, c.l, c.leader, c.index))
                    ELSE persist_state(Dropped(f, c.l, c.leader, c.index))
        BY <1>14, <2>3, <3>1
      <3>4. EndingFor(y[r], f, c, final)
        BY <2>3
      <3> HIDE DEF f, final
      <3> QED  BY <1>6, <3>2, <3>3, <3>4, EndingTerms
    <2>4. ASSUME NEW r \in Replicas \ {l}
          PROVE  TermsOK(y[r])
      <3>1. CASE r \in c.acks
        BY <1>11, <1>12, <2>1, <2>3, <3>1
      <3>2. CASE r \in c.followers \ c.acks
        BY <1>2, <1>12, <2>1, <3>2
      <3>3. CASE r \notin c.followers
        BY <1>2, <1>10, <2>1, <3>3
      <3> QED  BY <1>11, <3>1, <3>2, <3>3
    <2> QED  BY <2>1, <2>2, <2>4
  <1>20. ASSUME NEW x \in Writing(sh, c)
         PROVE  x.leader = l /\ Terms(x.replicas, l, sv)
    <2>1. CASE x = sh
      BY <2>1
    <2>2. ASSUME NEW y \in Sending(sh, c) \cup Ending(sh, c),
                 x = [sh EXCEPT !.replicas = y]
          PROVE  x.leader = l /\ Terms(x.replicas, l, sv)
      <3>1. x.replicas = y /\ x.leader = l
        BY <2>2 DEF IsShard
      <3> QED  BY <1>13, <1>18, <1>19, <2>2, <3>1
    <2> QED  BY <2>1, <2>2 DEF Writing
  <1> QED  BY <1>16, <1>20
=============================================================================
