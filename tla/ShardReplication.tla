-------------------------- MODULE ShardReplication --------------------------
(***************************************************************************)
(* What the methods of RaftReplica, an election and the replication of a   *)
(* command do to the replicas of a shard, for every number of replicas and *)
(* every set of keys and values.                                           *)
(*                                                                         *)
(* A replica holds a prefix of a log A.  Between two operations it is      *)
(* Settled: its raft_log table is the first n entries of A, all of them    *)
(* are committed and applied, and its kv table is what they add up to. In  *)
(* the middle of a write it is Pending: it holds one more entry, not       *)
(* committed.  Each method is shown to take a settled or pending replica   *)
(* to one of these two.                                                    *)
(*                                                                         *)
(* The shard is described relative to the sequence A of acknowledged       *)
(* writes. Between operations every replica has committed and applied a    *)
(* prefix of A and holds nothing else (Consistent), and whoever is online  *)
(* under a leader holds all of A (Leads). An election keeps this because a *)
(* majority is online, a majority holds all of A, and the candidate is the *)
(* online replica with the longest prefix.  In a write every online        *)
(* follower accepts the entry that the leader appended, and the entry is   *)
(* then either committed wherever it was accepted or removed from all of   *)
(* them.                                                                   *)
(***************************************************************************)
EXTENDS Shard, FiniteSetTheorems, NaturalsInduction, TLAPS

\* The steps are first-order reasoning unless they say otherwise.
USE Zenon

\* The first n entries of A.
Pref(A, n) == [i \in 1 .. n |-> A[i]]

\* The first n entries of a log are a log.
LEMMA PrefType ==
    ASSUME NEW A \in Seq(Entry), NEW n \in 0 .. Len(A)
    PROVE  /\ Pref(A, n) \in Seq(Entry)
           /\ DOMAIN Pref(A, n) = 1 .. n
           /\ \A i \in 1 .. n : Pref(A, n)[i] = A[i] /\ A[i] \in Entry
  BY SMT DEF Pref

\* last_log_index of a table with rows 1..n.
LEMMA LastIndex ==
    ASSUME NEW log, NEW n \in Nat, DOMAIN log = 1 .. n
    PROVE  last_log_index(log) = n
  <1>1. n \in {0} \cup 1 .. n /\ \A y \in {0} \cup 1 .. n : n >= y
    BY SMT
  <1>2. \A x \in {0} \cup 1 .. n : (\A y \in {0} \cup 1 .. n : x >= y) => x = n
    BY SMT
  <1> QED
    BY <1>1, <1>2 DEF last_log_index, Max

\* Max of a single index, as the loops over one entry meet it.
LEMMA MaxOfOne ==
    ASSUME NEW i \in Int
    PROVE  Max({i}) = i
  BY SMT DEF Max

\* One more entry applied.
LEMMA ApplyStep ==
    ASSUME NEW kv, NEW log, NEW n \in Nat
    PROVE  ApplyEntries(ApplyEntries(kv, log, 1 .. n), log, {n + 1})
              = ApplyEntries(kv, log, 1 .. n + 1)
  <1> DEFINE W(k) == {i \in 1 .. n : log[i].key = k}
             V(k) == {i \in {n + 1} : log[i].key = k}
             U(k) == {i \in 1 .. n + 1 : log[i].key = k}
  <1>1. ASSUME NEW k \in Keys, log[n + 1].key = k
        PROVE  Max(V(k)) = n + 1 /\ Max(U(k)) = n + 1 /\ V(k) # {} /\ U(k) # {}
    <2>1. V(k) = {n + 1}
      BY <1>1
    <2>2. n + 1 \in U(k) /\ \A y \in U(k) : n + 1 >= y /\ y \in Int
      BY <1>1, SMT
    <2>3. \A x \in U(k) : (\A y \in U(k) : x >= y) => x = n + 1
      BY <2>2, SMT
    <2>4. Max(U(k)) = n + 1
      <3> HIDE DEF U
      <3> QED BY <2>2, <2>3 DEF Max
    <2> QED
      BY <2>1, <2>2, <2>4, MaxOfOne
  <1>2. ASSUME NEW k \in Keys, log[n + 1].key # k
        PROVE  V(k) = {} /\ U(k) = W(k)
    BY <1>2, SMT
  <1> QED
    BY <1>1, <1>2 DEF ApplyEntries

\* A prefix is a raft_log table that ends where it was cut.
LEMMA PrefLast ==
    ASSUME NEW A \in Seq(Entry), NEW n \in 0 .. Len(A)
    PROVE  Pref(A, n) \in LogTable /\ last_log_index(Pref(A, n)) = n
  <1>1. Pref(A, n) \in Seq(Entry) /\ DOMAIN Pref(A, n) = 1 .. n /\ n \in Nat
    BY PrefType, SMT
  <1>2. last_log_index(Pref(A, n)) = n
    BY <1>1, LastIndex
  <1> QED
    BY <1>1, <1>2 DEF LogTable

\* A finite, nonempty set of integers has a largest element.
LEMMA MaxExists ==
    ASSUME NEW S \in SUBSET Int, IsFiniteSet(S), S # {}
    PROVE  Max(S) \in S /\ \A y \in S : Max(S) >= y
  <1> DEFINE HasMax(X) == \E x \in X : \A y \in X : x >= y
             Bad == {X \in FiniteSubsetsOf(Int) : X # {} /\ ~HasMax(X)}
  <1>1. Bad = {}
    <2> SUFFICES ASSUME Bad # {} PROVE FALSE
      OBVIOUS
    <2>1. PICK X \in Bad : \A Y \in Bad : <<Y, X>> \notin StrictSubsetOrdering(Int)
      <3>1. Bad \subseteq FiniteSubsetsOf(Int)
        OBVIOUS
      <3>2. IsWellFoundedOn(StrictSubsetOrdering(Int), FiniteSubsetsOf(Int))
        BY FS_StrictSubsetOrderingWellFounded
      <3> HIDE DEF Bad
      <3> QED BY <3>1, <3>2, WFMin
    <2>2. X \in SUBSET Int /\ IsFiniteSet(X) /\ X # {} /\ ~HasMax(X)
      BY DEF FiniteSubsetsOf
    <2>3. PICK a \in X : TRUE
      BY <2>2
    <2> DEFINE Y == X \ {a}
    <2>4. IsFiniteSet(Y) /\ Y \subseteq Int
      BY <2>2, FS_RemoveElement
    <2>5. <<Y, X>> \in StrictSubsetOrdering(Int)
      BY <2>2, <2>3 DEF StrictSubsetOrdering
    <2>6. Y \in FiniteSubsetsOf(Int) /\ Y \notin Bad
      BY <2>1, <2>4, <2>5 DEF FiniteSubsetsOf
    <2>7. CASE Y = {}
      BY <2>2, <2>3, <2>7, SMT
    <2>8. CASE Y # {}
      <3>1. PICK b \in Y : \A y \in Y : b >= y
        BY <2>6, <2>8
      <3>2. CASE a >= b
        BY <2>2, <2>3, <2>4, <3>1, <3>2, SMT
      <3>3. CASE ~(a >= b)
        BY <2>2, <2>3, <2>4, <3>1, <3>3, SMT
      <3> QED BY <3>2, <3>3
    <2> QED BY <2>7, <2>8
  <1>2. S \in FiniteSubsetsOf(Int)
    BY DEF FiniteSubsetsOf
  <1>3. HasMax(S)
    BY <1>1, <1>2
  <1> QED
    BY <1>3 DEF Max

\* Only the entries at the indexes that are applied matter.
LEMMA ApplyLocal ==
    ASSUME NEW kv, NEW log, NEW other, NEW I \in SUBSET Int, IsFiniteSet(I),
           \A i \in I : log[i] = other[i]
    PROVE  ApplyEntries(kv, log, I) = ApplyEntries(kv, other, I)
  <1> DEFINE W(k) == {i \in I : log[i].key = k}
             V(k) == {i \in I : other[i].key = k}
  <1>1. ASSUME NEW k \in Keys
        PROVE  /\ W(k) = V(k)
               /\ W(k) # {} => Max(W(k)) \in I
    <2>1. W(k) = V(k) /\ W(k) \in SUBSET I /\ W(k) \in SUBSET Int
      OBVIOUS
    <2>2. IsFiniteSet(W(k))
      BY <2>1, FS_Subset
    <2>3. W(k) # {} => Max(W(k)) \in W(k)
      <3> HIDE DEF W, V
      <3> QED BY <2>1, <2>2, MaxExists
    <2> QED
      BY <2>1, <2>3
  <1>2. ASSUME NEW k \in Keys, W(k) # {}
        PROVE  Written(log[Max(W(k))]) = Written(other[Max(V(k))])
    BY <1>1, <1>2
  <1> QED
    BY <1>1, <1>2 DEF ApplyEntries

\* Applying entries to a kv table gives a kv table.
LEMMA ApplyType ==
    ASSUME NEW kv \in KVTable, NEW log, NEW I \in SUBSET Int, IsFiniteSet(I),
           \A i \in I : log[i] \in Entry
    PROVE  ApplyEntries(kv, log, I) \in KVTable
  <1> DEFINE W(k) == {i \in I : log[i].key = k}
  <1>1. ASSUME NEW k \in Keys, W(k) # {}
        PROVE  Written(log[Max(W(k))]) \in Values \cup {NoValue}
    <2>1. W(k) \in SUBSET I /\ W(k) \in SUBSET Int
      OBVIOUS
    <2>2. IsFiniteSet(W(k))
      BY <2>1, FS_Subset
    <2>3. Max(W(k)) \in W(k)
      <3> HIDE DEF W
      <3> QED BY <1>1, <2>1, <2>2, MaxExists
    <2>4. log[Max(W(k))] \in Entry
      BY <2>1, <2>3
    <2> HIDE DEF W
    <2> QED BY <2>4 DEF Entry, Written
  <1> QED
    BY <1>1 DEF ApplyEntries, KVTable
-----------------------------------------------------------------------------
(* The state of a replica that holds the first n entries of A, all of them *)
(* committed and applied, and of one that holds one more, not committed.   *)

Settled(r, A, n) ==
    /\ r \in Replica
    /\ r.commitIndex = n
    /\ r.lastApplied = n
    /\ r.log = Pref(A, n)
    /\ r.kv = ApplyEntries(EmptyKV, A, 1 .. n)

Pending(r, A, n) ==
    /\ r \in Replica
    /\ r.commitIndex = n
    /\ r.lastApplied = n
    /\ r.log = Pref(A, n + 1)
    /\ r.kv = ApplyEntries(EmptyKV, A, 1 .. n)

\* g differs from f in its term, its role and its vote at most.
SameData(g, f) ==
    /\ g.online = f.online
    /\ g.commitIndex = f.commitIndex
    /\ g.lastApplied = f.lastApplied
    /\ g.log = f.log
    /\ g.kv = f.kv

\* Applying the first n entries to an empty kv table makes a kv table.
LEMMA ReplayType ==
    ASSUME NEW A \in Seq(Entry), NEW n \in 0 .. Len(A)
    PROVE  ApplyEntries(EmptyKV, A, 1 .. n) \in KVTable
  <1>1. EmptyKV \in KVTable
    BY DEF EmptyKV, KVTable
  <1>2. 1 .. n \in SUBSET Int /\ IsFiniteSet(1 .. n)
    BY FS_Interval, SMT
  <1>3. \A i \in 1 .. n : A[i] \in Entry
    BY PrefType
  <1> QED
    BY <1>1, <1>2, <1>3, ApplyType

\* A settled replica stays settled when A grows.
LEMMA SettledExtends ==
    ASSUME NEW A \in Seq(Entry), NEW e \in Entry, NEW n \in 0 .. Len(A),
           NEW r, Settled(r, A, n)
    PROVE  Settled(r, Append(A, e), n)
  <1>1. \A i \in 1 .. n : Append(A, e)[i] = A[i]
    BY SMT
  <1>2. Pref(Append(A, e), n) = Pref(A, n)
    BY <1>1 DEF Pref
  <1>3. 1 .. n \in SUBSET Int /\ IsFiniteSet(1 .. n)
    BY FS_Interval, SMT
  <1>4. ApplyEntries(EmptyKV, Append(A, e), 1 .. n) = ApplyEntries(EmptyKV, A, 1 .. n)
    BY <1>1, <1>3, ApplyLocal
  <1> QED
    BY <1>2, <1>4 DEF Settled

\* A change of role, term or vote does not unsettle a replica.
LEMMA SettledSame ==
    ASSUME NEW A, NEW n, NEW f, Settled(f, A, n), NEW g \in Replica, SameData(g, f)
    PROVE  Settled(g, A, n)
  BY DEF Settled, SameData

\* request_vote leaves the data alone; an online replica adopts a newer term.
LEMMA VoteStep ==
    ASSUME NEW f \in Replica, NEW term \in Nat, term > f.currentTerm,
           NEW c \in Replicas, NEW li, NEW lt,
           NEW g, g = request_vote(f, term, c, li, lt)
    PROVE  /\ g \in Replica
           /\ SameData(g, f)
           /\ g.currentTerm = IF f.online THEN term ELSE f.currentTerm
  <1>1. f.online \in BOOLEAN /\ f.currentTerm \in Nat
    BY DEF Replica
  <1>2. CASE ~f.online
    <2>1. g = f
      BY <1>2 DEF request_vote
    <2> QED BY <2>1, <1>2 DEF SameData
  <1>3. CASE f.online
    <2>1. term > f.currentTerm /\ ~(term < f.currentTerm)
      BY <1>1, SMT
    <2> DEFINE role == IF term > f.currentTerm THEN "Follower" ELSE f.role
               vote == IF VoteGranted(f, term, c, li, lt) THEN c
                       ELSE IF term > f.currentTerm THEN NoReplica ELSE f.votedFor
    <2>2. g = [f EXCEPT !.currentTerm = term, !.role = role, !.votedFor = vote]
      BY <1>3, <2>1 DEF request_vote
    <2>3. role \in Roles /\ vote \in Replicas \cup {NoReplica}
      BY <2>1 DEF Roles
    <2> HIDE DEF role, vote
    <2>4. g \in Replica
      BY <2>2, <2>3 DEF Replica
    <2>5. SameData(g, f) /\ g.currentTerm = term
      BY <2>2 DEF Replica, SameData
    <2> QED BY <2>4, <2>5, <1>3
  <1> QED BY <1>1, <1>2, <1>3

\* set_role changes nothing but the role.
LEMMA RoleStep ==
    ASSUME NEW f \in Replica, NEW role \in Roles, NEW g, g = set_role(f, role)
    PROVE  /\ g \in Replica
           /\ SameData(g, f)
           /\ g.currentTerm = f.currentTerm /\ g.votedFor = f.votedFor
           /\ g.role = role
  BY DEF set_role, Replica, SameData

\* The common end of append_entries, commit_to and install_snapshot.
Applied(r, I, c) == [Apply(r, I) EXCEPT !.commitIndex = c]

\* What it does to each field.
LEMMA ApplyFields ==
    ASSUME NEW f \in Replica, NEW I, NEW c \in Nat,
           ApplyEntries(f.kv, f.log, I) \in KVTable,
           Max({f.lastApplied} \cup I) \in Nat,
           NEW g, g = Applied(f, I, c)
    PROVE  /\ g \in Replica
           /\ g.kv = ApplyEntries(f.kv, f.log, I)
           /\ g.lastApplied = Max({f.lastApplied} \cup I)
           /\ g.commitIndex = c
           /\ g.log = f.log
           /\ g.online = f.online /\ g.role = f.role
           /\ g.currentTerm = f.currentTerm /\ g.votedFor = f.votedFor
  <1> DEFINE kv == ApplyEntries(f.kv, f.log, I)
             last == Max({f.lastApplied} \cup I)
  <1>1. g = [[f EXCEPT !.kv = kv, !.lastApplied = last] EXCEPT !.commitIndex = c]
    BY DEF Apply, Applied
  <1>2. kv \in KVTable /\ last \in Nat
    OBVIOUS
  <1> HIDE DEF kv, last
  <1>3. g \in Replica
    BY <1>1, <1>2 DEF Replica
  <1>4. /\ g.kv = kv /\ g.lastApplied = last /\ g.commitIndex = c /\ g.log = f.log
        /\ g.online = f.online /\ g.role = f.role
        /\ g.currentTerm = f.currentTerm /\ g.votedFor = f.votedFor
    BY <1>1 DEF Replica
  <1> QED
    BY <1>3, <1>4 DEF kv, last

\* A replica whose database was read in full from that of a settled leader.
LEMMA SyncStep ==
    ASSUME NEW A \in Seq(Entry), NEW n \in 0 .. Len(A),
           NEW leader, Settled(leader, A, n), NEW f \in Replica, f.online,
           NEW g, g = install_snapshot(f, export_snapshot(leader))
    PROVE  /\ Settled(g, A, n)
           /\ g.online /\ g.role = "Follower" /\ g.votedFor = NoReplica
           /\ g.currentTerm = Larger(f.currentTerm, leader.currentTerm)
  <1> DEFINE snapshot == export_snapshot(leader)
             term == Larger(f.currentTerm, leader.currentTerm)
             log == Pref(A, n)
             cleared == [f EXCEPT !.currentTerm = term, !.votedFor = NoReplica,
                                  !.role = "Follower", !.lastApplied = 0,
                                  !.kv = EmptyKV, !.log = log]
  <1>0. /\ n \in Nat /\ log \in LogTable /\ DOMAIN log = 1 .. n
        /\ EmptyKV \in KVTable
        /\ \A i \in 1 .. n : log[i] = A[i]
    BY PrefType, SMT DEF LogTable, EmptyKV, KVTable
  <1>1. /\ snapshot.term = leader.currentTerm
        /\ snapshot.commitIndex = n
        /\ snapshot.log = log
    <2>1. leader.log = log /\ leader.commitIndex = n
      BY DEF Settled
    <2>2. {j \in 1 .. n : j < n + 1} = 1 .. n
      BY <1>0, SMT
    <2>3. truncate_log_from(leader.log, leader.commitIndex + 1) = log
      BY <1>0, <2>1, <2>2 DEF truncate_log_from, Pref
    <2> QED
      BY <2>1, <2>3 DEF export_snapshot
  <1>2. term \in Nat
    BY DEF Settled, Replica, Larger
  <1>3. cleared \in Replica
    <2> HIDE DEF term, log
    <2> QED BY <1>0, <1>2 DEF Replica, Roles
  <1>4. /\ cleared.online = f.online /\ cleared.currentTerm = term
        /\ cleared.votedFor = NoReplica /\ cleared.role = "Follower"
        /\ cleared.lastApplied = 0 /\ cleared.kv = EmptyKV /\ cleared.log = log
    <2> HIDE DEF term, log
    <2> QED BY DEF Replica
  <1>5. g = Applied(cleared, 1 .. n, n)
    <2>1. last_log_index(snapshot.log) = n
      BY <1>0, <1>1, LastIndex
    <2>2. Smaller(snapshot.commitIndex, last_log_index(snapshot.log)) = n
      BY <1>0, <1>1, <2>1 DEF Smaller
    <2>3. Present(cleared.log, 1, n) = 1 .. n
      BY <1>0, <1>4 DEF Present
    <2> HIDE DEF snapshot, log, term
    <2>4. cleared = [f EXCEPT !.currentTerm = Larger(@, snapshot.term),
                              !.votedFor = NoReplica, !.role = "Follower",
                              !.lastApplied = 0, !.kv = EmptyKV,
                              !.log = snapshot.log]
      BY <1>1 DEF term
    <2> HIDE DEF cleared
    <2> QED
      BY <2>2, <2>3, <2>4 DEF install_snapshot, snapshot, Applied
  <1>6. Max({cleared.lastApplied} \cup 1 .. n) = n
    BY <1>0, <1>4, LastIndex, SMT DEF last_log_index
  <1>7. ApplyEntries(cleared.kv, cleared.log, 1 .. n) = ApplyEntries(EmptyKV, A, 1 .. n)
    <2>1. 1 .. n \in SUBSET Int /\ IsFiniteSet(1 .. n)
      BY <1>0, FS_Interval, SMT
    <2>2. cleared.kv = EmptyKV /\ \A i \in 1 .. n : cleared.log[i] = A[i]
      BY <1>0, <1>4
    <2> HIDE DEF cleared
    <2> QED BY <2>1, <2>2, ApplyLocal, SMT
  <1>8. ApplyEntries(EmptyKV, A, 1 .. n) \in KVTable
    BY ReplayType
  <1>9. /\ g \in Replica
        /\ g.kv = ApplyEntries(EmptyKV, A, 1 .. n)
        /\ g.lastApplied = n /\ g.commitIndex = n /\ g.log = log
        /\ g.online = f.online /\ g.role = "Follower"
        /\ g.currentTerm = term /\ g.votedFor = NoReplica
    <2> HIDE DEF cleared, term, log
    <2>1. /\ ApplyEntries(cleared.kv, cleared.log, 1 .. n) \in KVTable
          /\ Max({cleared.lastApplied} \cup 1 .. n) \in Nat
      BY <1>0, <1>6, <1>7, <1>8
    <2>2. /\ g \in Replica
          /\ g.kv = ApplyEntries(cleared.kv, cleared.log, 1 .. n)
          /\ g.lastApplied = Max({cleared.lastApplied} \cup 1 .. n)
          /\ g.commitIndex = n /\ g.log = cleared.log
          /\ g.online = cleared.online /\ g.role = cleared.role
          /\ g.currentTerm = cleared.currentTerm /\ g.votedFor = cleared.votedFor
      <3>1. n \in Nat
        BY <1>0
      <3> QED BY <3>1, <1>3, <1>5, <2>1, ApplyFields, SMT
    <2> QED BY <2>2, <1>4, <1>6, <1>7
  <1> QED
    BY <1>9 DEF Settled

\* append_local on a settled leader: the log is A and the new entry.
LEMMA AppendLocalStep ==
    ASSUME NEW A \in Seq(Entry), NEW f, Settled(f, A, Len(A)),
           NEW command \in Commands, NEW key \in Keys,
           NEW value \in Values \cup {NoValue},
           NEW e, e = NewEntry(f, command, key, value),
           NEW g, g = append_local(f, command, key, value)
    PROVE  /\ e \in Entry /\ e.term = f.currentTerm
           /\ last_log_index(f.log) = Len(A)
           /\ g.log[Len(A) + 1] = e
           /\ Pending(g, Append(A, e), Len(A))
           /\ g.online = f.online /\ g.role = f.role
           /\ g.currentTerm = f.currentTerm
  <1> DEFINE n == Len(A)
             B == Append(A, e)
             log == append_log(f.log, n + 1, e)
  <1>1. /\ f \in Replica /\ f.commitIndex = n /\ f.lastApplied = n
        /\ f.log = Pref(A, n) /\ f.kv = ApplyEntries(EmptyKV, A, 1 .. n)
    BY DEF Settled
  <1>2. n \in Nat /\ n \in 0 .. Len(A) /\ DOMAIN f.log = 1 .. n
        /\ \A i \in 1 .. n : f.log[i] = A[i]
    BY <1>1, PrefType, SMT
  <1>3. e \in Entry /\ e.term = f.currentTerm
    BY <1>1 DEF NewEntry, Entry, Replica
  <1>4. last_log_index(f.log) = n
    BY <1>2, LastIndex
  <1>5. B \in Seq(Entry) /\ Len(B) = n + 1 /\ B[n + 1] = e
        /\ \A i \in 1 .. n : B[i] = A[i]
    BY <1>2, <1>3, SMT
  <1>6. log = Pref(B, n + 1)
    <2>1. DOMAIN f.log \cup {n + 1} = 1 .. n + 1
      BY <1>2, SMT
    <2>2. \A i \in 1 .. n + 1 : (IF i = n + 1 THEN e ELSE f.log[i]) = B[i]
      BY <1>2, <1>5, SMT
    <2> HIDE DEF n, B
    <2> QED BY <2>1, <2>2 DEF append_log, Pref
  <1>7. log \in LogTable
    <2>1. n + 1 \in 0 .. Len(B)
      BY <1>2, <1>5, SMT
    <2> HIDE DEF n, B, log
    <2> QED BY <1>5, <1>6, <2>1, PrefType DEF LogTable
  <1>8. g = [f EXCEPT !.log = log]
    BY <1>4 DEF append_local
  <1>9. /\ g \in Replica /\ g.log = log
        /\ g.online = f.online /\ g.role = f.role /\ g.currentTerm = f.currentTerm
        /\ g.commitIndex = f.commitIndex /\ g.lastApplied = f.lastApplied
        /\ g.kv = f.kv
    <2> HIDE DEF log
    <2> QED BY <1>1, <1>7, <1>8 DEF Replica
  <1>10. Settled(f, B, n)
    BY <1>2, <1>3, SettledExtends
  <1>11. Pending(g, B, n)
    <2> HIDE DEF n, B, log
    <2> QED BY <1>1, <1>6, <1>9, <1>10 DEF Settled, Pending
  <1>12. g.log[n + 1] = e
    <2>1. n + 1 \in 1 .. n + 1
      BY <1>2, SMT
    <2> QED BY <1>5, <1>6, <1>9, <2>1, ZenonT(40) DEF Pref
  <1> QED
    BY <1>3, <1>4, <1>9, <1>11, <1>12

\* discard_uncommitted drops the pending entry.
LEMMA DiscardStep ==
    ASSUME NEW A \in Seq(Entry), NEW n \in Nat, n + 1 <= Len(A),
           NEW f, Pending(f, A, n), NEW g, g = discard_uncommitted(f)
    PROVE  /\ Settled(g, A, n)
           /\ g.online = f.online /\ g.role = f.role
           /\ g.currentTerm = f.currentTerm
  <1> DEFINE log == truncate_log_from(f.log, f.commitIndex + 1)
  <1>1. /\ f \in Replica /\ f.commitIndex = n /\ f.lastApplied = n
        /\ f.log = Pref(A, n + 1) /\ f.kv = ApplyEntries(EmptyKV, A, 1 .. n)
    BY DEF Pending
  <1>2. log = Pref(A, n)
    <2>1. DOMAIN f.log = 1 .. n + 1 /\ \A i \in 1 .. n : f.log[i] = A[i]
      BY <1>1, PrefType, SMT
    <2>2. {j \in DOMAIN f.log : j < f.commitIndex + 1} = 1 .. n
      BY <1>1, <2>1, SMT
    <2> QED BY <2>1, <2>2 DEF truncate_log_from, Pref
  <1>3. log \in LogTable
    BY <1>2, PrefType, SMT DEF LogTable
  <1>4. /\ g \in Replica /\ g.log = log
        /\ g.online = f.online /\ g.role = f.role /\ g.currentTerm = f.currentTerm
        /\ g.commitIndex = f.commitIndex /\ g.lastApplied = f.lastApplied
        /\ g.kv = f.kv
    <2>1. g = [f EXCEPT !.log = log]
      BY DEF discard_uncommitted
    <2> HIDE DEF log
    <2> QED BY <1>1, <1>3, <2>1 DEF Replica
  <1> QED
    BY <1>1, <1>2, <1>4 DEF Settled

\* The end of a write on a replica that holds the entry: it is applied.
LEMMA ApplyPending ==
    ASSUME NEW A \in Seq(Entry), NEW n \in Nat, n + 1 <= Len(A),
           NEW f, Pending(f, A, n), NEW g, g = Applied(f, {n + 1}, n + 1)
    PROVE  /\ Settled(g, A, n + 1)
           /\ g.online = f.online /\ g.role = f.role
           /\ g.currentTerm = f.currentTerm
  <1>1. /\ f \in Replica /\ f.commitIndex = n /\ f.lastApplied = n
        /\ f.log = Pref(A, n + 1) /\ f.kv = ApplyEntries(EmptyKV, A, 1 .. n)
    BY DEF Pending
  <1>2. Max({f.lastApplied} \cup {n + 1}) = n + 1
    <2>1. f.lastApplied = n
      BY <1>1
    <2> QED BY <2>1, SMT DEF Max
  <1>3. ApplyEntries(f.kv, f.log, {n + 1}) = ApplyEntries(EmptyKV, A, 1 .. n + 1)
    <2>1. f.log[n + 1] = A[n + 1]
      BY <1>1, PrefType, SMT
    <2>2. {n + 1} \in SUBSET Int
      BY SMT
    <2>4. IsFiniteSet({n + 1})
      BY FS_Singleton
    <2>3. ApplyEntries(f.kv, f.log, {n + 1}) = ApplyEntries(f.kv, A, {n + 1})
      BY <2>1, <2>2, <2>4, ApplyLocal, SMT
    <2> QED BY <1>1, <2>3, ApplyStep, SMT
  <1>4. ApplyEntries(EmptyKV, A, 1 .. n + 1) \in KVTable
    BY ReplayType, SMT
  <1>5. /\ g \in Replica
        /\ g.kv = ApplyEntries(f.kv, f.log, {n + 1})
        /\ g.lastApplied = Max({f.lastApplied} \cup {n + 1})
        /\ g.commitIndex = n + 1 /\ g.log = f.log
        /\ g.online = f.online /\ g.role = f.role
        /\ g.currentTerm = f.currentTerm
    <2>1. n + 1 \in Nat
      BY SMT
    <2>2. /\ ApplyEntries(f.kv, f.log, {n + 1}) \in KVTable
          /\ Max({f.lastApplied} \cup {n + 1}) \in Nat
      BY <1>2, <1>3, <1>4, <2>1
    <2> QED BY <1>1, <2>1, <2>2, ApplyFields, SMT
  <1> QED
    BY <1>1, <1>2, <1>3, <1>5 DEF Settled

\* A table without the index i and without indexes after it, merged with the
\* row at i.
LEMMA MergeOne ==
    ASSUME NEW A \in Seq(Entry), NEW n \in Nat, n + 1 <= Len(A)
    PROVE  MergeLog(Pref(A, n), [i \in {n + 1} |-> A[i]]) = Pref(A, n + 1)
  <1> DEFINE log == Pref(A, n)
             entries == [i \in {n + 1} |-> A[i]]
             kept == {j \in DOMAIN log :
                        \A i \in {k \in DOMAIN entries \cap DOMAIN log :
                                    log[k].term # entries[k].term} : j < i}
  <1>1. DOMAIN log = 1 .. n /\ \A i \in 1 .. n : log[i] = A[i]
    BY PrefType, SMT
  <1>2. DOMAIN entries = {n + 1} /\ entries[n + 1] = A[n + 1]
    OBVIOUS
  <1>3. DOMAIN entries \cap DOMAIN log = {}
    BY <1>1, <1>2, SMT
  <1>4. kept = 1 .. n
    BY <1>1, <1>3
  <1>5. MergeLog(log, entries) = [j \in kept \cup DOMAIN entries |->
                                    IF j \in kept THEN log[j] ELSE entries[j]]
    BY DEF MergeLog
  <1>6. kept \cup DOMAIN entries = 1 .. n + 1
    BY <1>2, <1>4, SMT
  <1>7. \A j \in 1 .. n + 1 : (IF j \in kept THEN log[j] ELSE entries[j]) = A[j]
    BY <1>1, <1>2, <1>4, SMT
  <1> HIDE DEF log, entries, kept
  <1>8. MergeLog(log, entries) = Pref(A, n + 1)
    BY <1>5, <1>6, <1>7 DEF Pref
  <1> QED
    BY <1>8 DEF log, entries

\* A heartbeat leaves the log alone.
LEMMA MergeNone ==
    ASSUME NEW A \in Seq(Entry), NEW n \in 0 .. Len(A)
    PROVE  MergeLog(Pref(A, n), EmptyLog) = Pref(A, n)
  <1> DEFINE log == Pref(A, n)
  <1>1. DOMAIN EmptyLog = {}
    BY SMT DEF EmptyLog
  <1>2. MergeLog(log, EmptyLog) = [j \in DOMAIN log |-> log[j]]
    BY <1>1 DEF MergeLog
  <1>3. DOMAIN log = 1 .. n /\ \A i \in 1 .. n : log[i] = A[i]
    BY PrefType
  <1> QED
    BY <1>2, <1>3 DEF Pref

\* The loop that applies the pending entry.
LEMMA PendingGap ==
    ASSUME NEW A \in Seq(Entry), NEW n \in Nat, n + 1 <= Len(A)
    PROVE  UpToGap(Pref(A, n + 1), n + 1, n + 1) = {n + 1}
  <1>1. DOMAIN Pref(A, n + 1) = 1 .. n + 1
    BY PrefType, SMT
  <1>2. (n + 1) .. (n + 1) = {n + 1}
    BY SMT
  <1>3. (n + 1) .. (n + 1) \subseteq 1 .. n + 1
    BY SMT
  <1> QED
    BY <1>1, <1>2, <1>3 DEF UpToGap

\* commit_to on a leader that holds the entry.
LEMMA CommitStep ==
    ASSUME NEW A \in Seq(Entry), NEW n \in Nat, n + 1 <= Len(A),
           NEW f, Pending(f, A, n), f.online, NEW g, g = commit_to(f, n + 1)
    PROVE  /\ Settled(g, A, n + 1)
           /\ g.online /\ g.role = f.role /\ g.currentTerm = f.currentTerm
  <1>1. f.commitIndex = n /\ f.lastApplied = n /\ f.log = Pref(A, n + 1)
    BY DEF Pending
  <1>2. last_log_index(f.log) = n + 1
    BY <1>1, PrefType, LastIndex, SMT
  <1>3. Smaller(n + 1, last_log_index(f.log)) = n + 1
    BY <1>2 DEF Smaller
  <1>4. UpToGap(f.log, f.lastApplied + 1, n + 1) = {n + 1}
    BY <1>1, PendingGap
  <1>5. Larger(f.commitIndex, n + 1) = n + 1
    BY <1>1, SMT DEF Larger
  <1>6. Apply(f, {n + 1}).commitIndex = f.commitIndex
    BY DEF Apply, Pending, Replica
  <1>7. g = Applied(f, {n + 1}, n + 1)
    BY <1>3, <1>4, <1>5, <1>6 DEF commit_to, Applied
  <1> QED
    BY <1>7, ApplyPending, SMT

\* The replica in the middle of append_entries: term, role and vote are those
\* of a follower of the sender, the log is the merged one.
Merged(r, term, leader, entries) ==
    [[r EXCEPT !.currentTerm = term, !.role = "Follower", !.votedFor = leader]
        EXCEPT !.log = MergeLog(@, entries)]

\* What the first half of append_entries does to each field.
LEMMA MergedFields ==
    ASSUME NEW f \in Replica, NEW term \in Nat, NEW leader \in Replicas,
           NEW entries, MergeLog(f.log, entries) \in LogTable,
           NEW g, g = Merged(f, term, leader, entries)
    PROVE  /\ g \in Replica
           /\ g.log = MergeLog(f.log, entries)
           /\ g.currentTerm = term /\ g.role = "Follower"
           /\ g.online = f.online /\ g.kv = f.kv
           /\ g.commitIndex = f.commitIndex /\ g.lastApplied = f.lastApplied
  <1> DEFINE heard == [f EXCEPT !.currentTerm = term, !.role = "Follower",
                                !.votedFor = leader]
  <1>1. heard.log = f.log
    BY DEF Replica
  <1>2. heard \in Replica
    BY DEF Replica, Roles
  <1>3. /\ heard.currentTerm = term /\ heard.role = "Follower"
        /\ heard.online = f.online /\ heard.kv = f.kv
        /\ heard.commitIndex = f.commitIndex /\ heard.lastApplied = f.lastApplied
    BY DEF Replica
  <1> DEFINE log == MergeLog(f.log, entries)
  <1>4. g = [heard EXCEPT !.log = log]
    BY <1>1 DEF Merged
  <1>5. log \in LogTable
    OBVIOUS
  <1> HIDE DEF heard, log
  <1>6. /\ g \in Replica /\ g.log = log
        /\ g.currentTerm = heard.currentTerm /\ g.role = heard.role
        /\ g.online = heard.online /\ g.kv = heard.kv
        /\ g.commitIndex = heard.commitIndex /\ g.lastApplied = heard.lastApplied
    BY <1>2, <1>4, <1>5 DEF Replica
  <1> QED
    BY <1>3, <1>6 DEF log

\* The term of the entry before the pending one, as term_at reports it.
PrevTerm(A, n) == IF n = 0 THEN 0 ELSE A[n].term

\* term_at of a replica that holds at least n entries of A.
LEMMA TermAt ==
    ASSUME NEW A \in Seq(Entry), NEW n \in Nat, NEW m \in n .. Len(A),
           NEW f, f.log = Pref(A, m)
    PROVE  term_at(f, n) = PrevTerm(A, n)
  <1>1. DOMAIN f.log = 1 .. m /\ \A i \in 1 .. m : f.log[i] = A[i]
    BY PrefType, SMT
  <1> QED
    BY <1>1, SMT DEF term_at, PrevTerm

\* What logs_from(n + 1) returns when A has one entry more than n.
NextEntry(A, n) == [i \in {n + 1} |-> A[i]]

\* A follower that is level with the leader accepts the next entry.
LEMMA AppendStep ==
    ASSUME NEW A \in Seq(Entry), NEW n \in Nat, n + 1 <= Len(A),
           NEW f, Settled(f, A, n), f.online,
           NEW term \in Nat, f.currentTerm <= term, NEW l \in Replicas,
           NEW entries, entries = NextEntry(A, n),
           NEW g, g = append_entries(f, term, l, n, PrevTerm(A, n), entries, n)
    PROVE  /\ AppendAccepted(f, term, n, PrevTerm(A, n))
           /\ Pending(g, A, n)
           /\ g.online /\ g.role = "Follower" /\ g.currentTerm = term
  <1> DEFINE merged == Merged(f, term, l, entries)
  <1>1. /\ f \in Replica /\ f.commitIndex = n /\ f.lastApplied = n
        /\ f.log = Pref(A, n) /\ f.kv = ApplyEntries(EmptyKV, A, 1 .. n)
        /\ f.currentTerm \in Nat
    BY DEF Settled, Replica
  <1>2. term >= f.currentTerm /\ ~(term < f.currentTerm)
    BY <1>1, SMT
  <1>3. AppendAccepted(f, term, n, PrevTerm(A, n))
    <2>1. term_at(f, n) = PrevTerm(A, n)
      BY <1>1, TermAt, SMT
    <2> QED BY <1>2, <2>1 DEF AppendAccepted
  <1>4. MergeLog(f.log, entries) = Pref(A, n + 1)
    BY <1>1, MergeOne DEF NextEntry
  <1>5. Pref(A, n + 1) \in LogTable /\ last_log_index(Pref(A, n + 1)) = n + 1
    <2>1. n + 1 \in 0 .. Len(A)
      BY SMT
    <2> QED BY <2>1, PrefLast
  <1>6. /\ merged \in Replica
        /\ merged.log = Pref(A, n + 1)
        /\ merged.currentTerm = term /\ merged.role = "Follower"
        /\ merged.online = f.online /\ merged.kv = f.kv
        /\ merged.commitIndex = n /\ merged.lastApplied = n
    <2> HIDE DEF merged
    <2>1. MergeLog(f.log, entries) \in LogTable
      BY <1>4, <1>5
    <2>2. /\ merged \in Replica
          /\ merged.log = MergeLog(f.log, entries)
          /\ merged.currentTerm = term /\ merged.role = "Follower"
          /\ merged.online = f.online /\ merged.kv = f.kv
          /\ merged.commitIndex = f.commitIndex
          /\ merged.lastApplied = f.lastApplied
      <3>1. f \in Replica /\ term \in Nat
        BY <1>1
      <3>2. merged = Merged(f, term, l, entries)
        BY DEF merged
      <3>3. l \in Replicas
        OBVIOUS
      <3> QED BY ONLY <2>1, <3>1, <3>2, <3>3, MergedFields
    <2> QED BY <1>1, <1>4, <2>2
  <1>7. Smaller(n, last_log_index(merged.log)) <= f.commitIndex
    <2> HIDE DEF merged
    <2> QED BY <1>1, <1>5, <1>6, SMT DEF Smaller
  <1>8. g = merged
    BY <1>2, <1>3, <1>7 DEF append_entries, Merged
  <1> HIDE DEF merged
  <1> QED
    BY <1>1, <1>3, <1>6, <1>8 DEF Pending

\* The heartbeat that follows makes it commit and apply the entry.
LEMMA HeartbeatStep ==
    ASSUME NEW A \in Seq(Entry), NEW n \in Nat, n + 1 <= Len(A),
           NEW f, Pending(f, A, n), f.online, NEW l \in Replicas,
           NEW m \in Nat, m = n + 1, NEW t, t = PrevTerm(A, m),
           NEW term \in Nat, term = f.currentTerm,
           NEW none, none = EmptyLog,
           NEW g, g = append_entries(f, term, l, m, t, none, m)
    PROVE  /\ Settled(g, A, m)
           /\ g.online /\ g.role = "Follower" /\ g.currentTerm = term
  <1> DEFINE merged == Merged(f, term, l, EmptyLog)
  <1>1. /\ f \in Replica /\ f.commitIndex = n /\ f.lastApplied = n
        /\ f.log = Pref(A, n + 1) /\ f.kv = ApplyEntries(EmptyKV, A, 1 .. n)
        /\ term \in Nat
    BY DEF Pending, Replica
  <1>2. term >= f.currentTerm /\ ~(term < f.currentTerm)
    BY <1>1, SMT
  <1>3. AppendAccepted(f, term, n + 1, t)
    <2>1. term_at(f, n + 1) = PrevTerm(A, n + 1)
      BY <1>1, TermAt, SMT
    <2> QED BY <1>2, <2>1 DEF AppendAccepted
  <1>4. MergeLog(f.log, EmptyLog) = Pref(A, n + 1)
    BY <1>1, MergeNone, SMT
  <1>5. Pref(A, n + 1) \in LogTable /\ last_log_index(Pref(A, n + 1)) = n + 1
    <2>1. n + 1 \in 0 .. Len(A)
      BY SMT
    <2> QED BY <2>1, PrefLast
  <1>6. /\ merged \in Replica
        /\ merged.log = Pref(A, n + 1)
        /\ merged.currentTerm = term /\ merged.role = "Follower"
        /\ merged.online = f.online /\ merged.kv = f.kv
        /\ merged.commitIndex = n /\ merged.lastApplied = n
    <2> HIDE DEF merged
    <2>1. MergeLog(f.log, EmptyLog) \in LogTable
      BY <1>4, <1>5
    <2>2. /\ merged \in Replica
          /\ merged.log = MergeLog(f.log, EmptyLog)
          /\ merged.currentTerm = term /\ merged.role = "Follower"
          /\ merged.online = f.online /\ merged.kv = f.kv
          /\ merged.commitIndex = f.commitIndex
          /\ merged.lastApplied = f.lastApplied
      <3>1. f \in Replica /\ term \in Nat
        BY <1>1
      <3>2. merged = Merged(f, term, l, EmptyLog)
        BY DEF merged
      <3>3. l \in Replicas
        OBVIOUS
      <3> QED BY ONLY <2>1, <3>1, <3>2, <3>3, MergedFields
    <2> QED BY <1>1, <1>4, <2>2
  <1>7. /\ Smaller(n + 1, last_log_index(merged.log)) = n + 1
        /\ ~(n + 1 <= f.commitIndex)
    <2> HIDE DEF merged
    <2> QED BY <1>1, <1>5, <1>6, SMT DEF Smaller
  <1>8. UpToGap(merged.log, f.lastApplied + 1, n + 1) = {n + 1}
    <2> HIDE DEF merged
    <2> QED BY <1>1, <1>6, PendingGap, ZenonT(40)
  <1>9. g = Applied(merged, {n + 1}, n + 1)
    BY <1>2, <1>3, <1>7, <1>8 DEF append_entries, Merged, Applied
  <1>10. Pending(merged, A, n)
    <2> HIDE DEF merged
    <2> QED BY <1>1, <1>6 DEF Pending
  <1> HIDE DEF merged
  <1>11. /\ Settled(g, A, n + 1)
         /\ g.online = merged.online /\ g.role = merged.role
         /\ g.currentTerm = merged.currentTerm
    BY <1>9, <1>10, ApplyPending, SMT
  <1> QED
    BY <1>6, <1>11

\* set_online changes the flag, and makes a replica that stops a follower.
LEMMA OnlineStep ==
    ASSUME NEW f \in Replica, NEW up \in BOOLEAN, NEW g, g = set_online(f, up)
    PROVE  /\ g \in Replica
           /\ g.online = up
           /\ g.role = IF up THEN f.role ELSE "Follower"
           /\ g.currentTerm = f.currentTerm /\ g.commitIndex = f.commitIndex
           /\ g.lastApplied = f.lastApplied /\ g.log = f.log /\ g.kv = f.kv
  <1> DEFINE role == IF up THEN f.role ELSE "Follower"
  <1>1. g = [f EXCEPT !.online = up, !.role = role]
    BY DEF set_online
  <1>2. role \in Roles
    BY DEF Replica, Roles
  <1> HIDE DEF role
  <1>3. /\ g \in Replica /\ g.online = up /\ g.role = role
        /\ g.currentTerm = f.currentTerm /\ g.commitIndex = f.commitIndex
        /\ g.lastApplied = f.lastApplied /\ g.log = f.log /\ g.kv = f.kv
    BY <1>1, <1>2 DEF Replica
  <1> QED
    BY <1>3 DEF role

\* A settled replica that is started again.
LEMMA LoadStep ==
    ASSUME NEW A, NEW n \in Nat, NEW f, Settled(f, A, n), NEW g, g = load_state(f)
    PROVE  /\ Settled(g, A, n)
           /\ g.online /\ g.role = "Follower" /\ g.currentTerm = f.currentTerm
  <1>1. f \in Replica /\ f.lastApplied >= f.commitIndex
    BY SMT DEF Settled
  <1>2. g = [f EXCEPT !.online = TRUE, !.role = "Follower"]
    BY <1>1 DEF load_state
  <1>3. /\ g \in Replica /\ g.online = TRUE /\ g.role = "Follower"
        /\ g.currentTerm = f.currentTerm /\ g.commitIndex = f.commitIndex
        /\ g.lastApplied = f.lastApplied /\ g.log = f.log /\ g.kv = f.kv
    BY <1>1, <1>2 DEF Replica, Roles
  <1> QED
    BY <1>3 DEF Settled
-----------------------------------------------------------------------------
(* Replicas, majorities and terms.                                         *)

\* Sets of replicas are finite and have at most N members.
LEMMA ReplicasFinite ==
    /\ IsFiniteSet(Replicas) /\ Cardinality(Replicas) = N
    /\ Replicas \subseteq Nat
    /\ \A S \in SUBSET Replicas : IsFiniteSet(S) /\ Cardinality(S) \in Nat
                                  /\ Cardinality(S) <= N
  <1>1. N \in Nat /\ N > 0
    BY NAssumption, SMT
  <1>2. IsFiniteSet(Replicas) /\ Cardinality(Replicas) = N
    BY <1>1, FS_Interval, SMT DEF Replicas
  <1>3. \A S \in SUBSET Replicas : IsFiniteSet(S) /\ Cardinality(S) <= N
    BY <1>2, FS_Subset
  <1>4. \A S \in SUBSET Replicas : Cardinality(S) \in Nat
    BY <1>3, FS_CardinalityType
  <1> QED
    BY <1>1, <1>2, <1>3, <1>4, SMT DEF Replicas

\* quorum, replicas_.size() / 2 + 1, asks for more than half of the replicas.
LEMMA QuorumFacts ==
    /\ Quorum \in Nat
    /\ \A n \in Nat : n >= Quorum <=> 2 * n > N
  <1>1. N \in Nat
    BY NAssumption
  <1> QED
    BY <1>1, SMT DEF Quorum

\* Two majorities have a replica in common.
LEMMA QuorumIntersect ==
    ASSUME NEW S \in SUBSET Replicas, 2 * Cardinality(S) > N,
           NEW T \in SUBSET Replicas, 2 * Cardinality(T) > N
    PROVE  \E r \in S : r \in T
  <1>1. Cardinality(S) \in Nat /\ Cardinality(T) \in Nat /\ N \in Nat
    BY ReplicasFinite, NAssumption
  <1>2. Cardinality(S) + Cardinality(T) > Cardinality(Replicas)
    BY <1>1, ReplicasFinite, SMT
  <1>3. IsFiniteSet(Replicas)
    BY ReplicasFinite
  <1>4. S \cap T # {}
    BY <1>2, <1>3, FS_MajoritiesIntersect
  <1> QED
    BY <1>4

\* A set with a majority in it is a majority.
LEMMA MajorityGrows ==
    ASSUME NEW S \in SUBSET Replicas, 2 * Cardinality(S) > N,
           NEW T \in SUBSET Replicas, S \subseteq T
    PROVE  2 * Cardinality(T) > N
  <1>1. Cardinality(S) \in Nat /\ Cardinality(T) \in Nat /\ N \in Nat
        /\ IsFiniteSet(T)
    BY ReplicasFinite, NAssumption
  <1>2. Cardinality(S) <= Cardinality(T)
    BY <1>1, FS_Subset
  <1> QED
    BY <1>1, <1>2, SMT

\* next_term is larger than the term of every replica, online or not.
LEMMA NextTermGrows ==
    ASSUME NEW reps, \A r \in Replicas : reps[r].currentTerm \in Nat
    PROVE  /\ NextTerm(reps) \in Nat
           /\ \A r \in Replicas : reps[r].currentTerm < NextTerm(reps)
  <1> DEFINE T == {reps[r].currentTerm + 1 : r \in Replicas}
             S == {1} \cup T
  <1>1. \A r \in Replicas : reps[r].currentTerm \in Nat
    OBVIOUS
  <1>2. IsFiniteSet(T)
    <2> DEFINE f == [r \in Replicas |-> reps[r].currentTerm + 1]
    <2>1. f \in Surjection(Replicas, T)
      BY DEF Surjection
    <2> QED BY <2>1, ReplicasFinite, FS_Surjection
  <1>3. IsFiniteSet(S)
    <2>1. S = T \cup {1}
      OBVIOUS
    <2> QED BY <1>2, <2>1, FS_AddElement
  <1>4. S \in SUBSET Nat /\ S \in SUBSET Int /\ S # {}
    BY <1>1, SMT
  <1>5. Max(S) \in S /\ \A y \in S : Max(S) >= y
    <2> HIDE DEF S
    <2> QED BY <1>3, <1>4, MaxExists
  <1>6. NextTerm(reps) = Max(S)
    BY DEF NextTerm
  <1>7. NextTerm(reps) \in Nat
    BY <1>4, <1>5, <1>6
  <1>8. ASSUME NEW r \in Replicas PROVE reps[r].currentTerm < NextTerm(reps)
    <2>1. reps[r].currentTerm + 1 \in S
      OBVIOUS
    <2>2. NextTerm(reps) >= reps[r].currentTerm + 1
      BY <1>5, <1>6, <2>1
    <2> QED BY <1>1, <1>7, <2>2, SMT
  <1> QED
    BY <1>7, <1>8

\* A nonempty set of naturals has a smallest element.
LEMMA MinExists ==
    ASSUME NEW S \in SUBSET Nat, S # {}
    PROVE  \E x \in S : \A y \in S : x <= y
  <1>1. IsWellFoundedOn(OpToRel(<, Nat), Nat)
    BY NatLessThanWellFounded
  <1>2. PICK x \in S : \A y \in S : ~(<<y, x>> \in OpToRel(<, Nat))
    BY <1>1, WFMin
  <1>3. \A y \in S : ~(y < x)
    BY <1>2 DEF OpToRel
  <1> QED
    BY <1>3, SMT
-----------------------------------------------------------------------------
(* Consistent replicas and their leader.                                   *)

\* The replicas that have committed all of A.
Level(reps, A) == {r \in Replicas : reps[r].commitIndex = Len(A)}

\* The replicas hold prefixes of the acknowledged writes A, a majority of them
\* all of A, and terms grow along A up to the term of whoever holds the entry.
Consistent(reps, A) ==
    /\ reps \in [Replicas -> Replica]
    /\ A \in Seq(Entry)
    /\ \A r \in Replicas :
          /\ reps[r].commitIndex <= Len(A)
          /\ Settled(reps[r], A, reps[r].commitIndex)
          /\ \A i \in 1 .. reps[r].commitIndex : A[i].term <= reps[r].currentTerm
    /\ \A i, j \in 1 .. Len(A) : i <= j => A[i].term <= A[j].term
    /\ 2 * Cardinality(Level(reps, A)) > N

\* l leads: the replicas other than x that are online are level with it.
LeadsExcept(reps, l, A, x) ==
    /\ l \in Replicas \cup {NoReplica}
    /\ \A r \in Replicas : reps[r].role = "Leader" <=> r = l
    /\ l # NoReplica =>
          /\ reps[l].online
          /\ reps[l].commitIndex = Len(A)
          /\ \A r \in Replicas :
                /\ reps[r].currentTerm <= reps[l].currentTerm
                /\ reps[r].online /\ r # x => reps[r].commitIndex = Len(A)

Leads(reps, l, A) == LeadsExcept(reps, l, A, NoReplica)

\* No replica goes back, and nobody goes online or offline.
Forward(reps, next) ==
    \A r \in Replicas : /\ reps[r].currentTerm <= next[r].currentTerm
                        /\ reps[r].commitIndex <= next[r].commitIndex

SameOnline(reps, next) == \A r \in Replicas : next[r].online = reps[r].online
-----------------------------------------------------------------------------
(* Consistent replicas.                                                    *)

\* What the log of a settled replica ends with.
LEMMA LogEnds ==
    ASSUME NEW A \in Seq(Entry), NEW n \in 0 .. Len(A), NEW f, Settled(f, A, n)
    PROVE  /\ last_log_index(f.log) = n
           /\ last_log_term(f.log) = PrevTerm(A, n)
           /\ PrevTerm(A, n) \in Nat
  <1>1. f.log = Pref(A, n)
    BY DEF Settled
  <1>2. last_log_index(f.log) = n
    BY <1>1, PrefLast
  <1>3. DOMAIN f.log = 1 .. n /\ \A i \in 1 .. n : f.log[i] = A[i] /\ A[i] \in Entry
    BY <1>1, PrefType
  <1>4. n # 0 => n \in 1 .. n
    BY SMT
  <1>5. n = 0 <=> DOMAIN f.log = {}
    BY <1>3, SMT
  <1>6. n # 0 => A[n].term \in Nat
    BY <1>3, <1>4 DEF Entry
  <1> QED
    BY <1>2, <1>3, <1>4, <1>5, <1>6 DEF last_log_term, PrevTerm

\* The step from one consistent state to another with the same writes.
LEMMA ConsistentStep ==
    ASSUME NEW reps, NEW A, Consistent(reps, A),
           NEW next \in [Replicas -> Replica],
           \A r \in Replicas :
              /\ reps[r].commitIndex <= next[r].commitIndex
              /\ next[r].commitIndex <= Len(A)
              /\ Settled(next[r], A, next[r].commitIndex)
              /\ \A i \in 1 .. next[r].commitIndex :
                    A[i].term <= next[r].currentTerm
    PROVE  Consistent(next, A)
  <1>1. Level(reps, A) \subseteq Level(next, A)
    <2>1. \A r \in Replicas : /\ reps[r].commitIndex \in Nat
                              /\ next[r].commitIndex \in Nat
      BY DEF Consistent, Replica
    <2>2. Len(A) \in Nat
      BY SMT DEF Consistent
    <2> QED BY <2>1, <2>2, SMT DEF Level
  <1>2. 2 * Cardinality(Level(next, A)) > N
    <2>1. Level(reps, A) \in SUBSET Replicas /\ Level(next, A) \in SUBSET Replicas
      BY DEF Level
    <2>2. 2 * Cardinality(Level(reps, A)) > N
      BY DEF Consistent
    <2> QED BY <1>1, <2>1, <2>2, MajorityGrows
  <1> QED
    BY <1>2 DEF Consistent

\* Every acknowledged write has a term that some replica has reached.
LEMMA TermBound ==
    ASSUME NEW reps, NEW A, Consistent(reps, A),
           NEW t \in Nat, \A r \in Replicas : reps[r].currentTerm <= t
    PROVE  \A i \in 1 .. Len(A) : A[i].term <= t
  <1>1. Level(reps, A) \in SUBSET Replicas /\ 2 * Cardinality(Level(reps, A)) > N
    BY DEF Level, Consistent
  <1>2. PICK q \in Level(reps, A) : TRUE
    BY <1>1, QuorumIntersect
  <1>3. q \in Replicas /\ reps[q].commitIndex = Len(A) /\ reps[q].currentTerm \in Nat
    BY DEF Level, Consistent, Replica
  <1>4. \A i \in 1 .. Len(A) : A[i].term <= reps[q].currentTerm
    BY <1>3 DEF Consistent
  <1>5. \A i \in 1 .. Len(A) : A[i].term \in Nat
    <2>1. \A i \in 1 .. Len(A) : A[i] \in Entry
      BY SMT DEF Consistent
    <2> QED BY <2>1 DEF Entry
  <1>6. reps[q].currentTerm <= t
    BY <1>3
  <1> QED
    BY <1>3, <1>4, <1>5, <1>6, SMT
-----------------------------------------------------------------------------
(* An election with a majority online.                                     *)

\* In a consistent state the comparison of max_element is that of the commit
\* indexes alone.
LEMMA BehindIsLess ==
    ASSUME NEW reps, NEW A, Consistent(reps, A), NEW r \in Replicas, NEW s \in Replicas
    PROVE  Behind(reps[r], reps[s]) <=> reps[r].commitIndex < reps[s].commitIndex
  <1>1. /\ A \in Seq(Entry)
        /\ reps[r].commitIndex \in 0 .. Len(A) /\ reps[s].commitIndex \in 0 .. Len(A)
        /\ Settled(reps[r], A, reps[r].commitIndex)
        /\ Settled(reps[s], A, reps[s].commitIndex)
    BY SMT DEF Consistent, Replica
  <1>2. /\ last_log_index(reps[r].log) = reps[r].commitIndex
        /\ last_log_term(reps[r].log) = PrevTerm(A, reps[r].commitIndex)
        /\ PrevTerm(A, reps[r].commitIndex) \in Nat
    BY <1>1, LogEnds
  <1>3. /\ last_log_index(reps[s].log) = reps[s].commitIndex
        /\ last_log_term(reps[s].log) = PrevTerm(A, reps[s].commitIndex)
    BY <1>1, LogEnds
  <1> QED
    BY <1>1, <1>2, <1>3, SMT DEF Behind

\* The candidate has every acknowledged write.
LEMMA CandidateLevel ==
    ASSUME NEW reps, NEW A, Consistent(reps, A),
           2 * Cardinality(Online(reps)) > N
    PROVE  /\ Candidate(reps) \in Replicas
           /\ reps[Candidate(reps)].online
           /\ reps[Candidate(reps)].commitIndex = Len(A)
  <1> DEFINE L == {r \in Online(reps) : reps[r].commitIndex = Len(A)}
             First(c) == \A r \in Online(reps) :
                            IF r < c THEN Behind(reps[r], reps[c])
                                     ELSE ~Behind(reps[c], reps[r])
  <1>0. Online(reps) \in SUBSET Replicas /\ Level(reps, A) \in SUBSET Replicas
        /\ 2 * Cardinality(Level(reps, A)) > N
    BY DEF Online, Level, Consistent
  <1>1. L # {}
    <2>1. \E r \in Online(reps) : r \in Level(reps, A)
      BY <1>0, QuorumIntersect
    <2> QED BY <2>1 DEF Level
  <1>2. \A r \in Replicas : reps[r].commitIndex \in 0 .. Len(A)
    BY SMT DEF Consistent, Replica
  <1>3. Len(A) \in Nat
    BY SMT DEF Consistent
  <1>4. PICK c \in L : \A y \in L : c <= y
    <2>1. L \in SUBSET Nat
      BY <1>0, ReplicasFinite
    <2> HIDE DEF L
    <2> QED BY <1>1, <2>1, MinExists
  <1>5. First(c)
    <2> SUFFICES ASSUME NEW r \in Online(reps)
                 PROVE  IF r < c THEN Behind(reps[r], reps[c])
                                 ELSE ~Behind(reps[c], reps[r])
      OBVIOUS
    <2>1. r \in Replicas /\ c \in Replicas /\ r \in Nat /\ c \in Nat
      BY <1>0, ReplicasFinite
    <2>2. CASE r < c
      <3>1. r \notin L
        BY <1>4, <2>1, <2>2, SMT
      <3>2. reps[r].commitIndex < reps[c].commitIndex
        BY <1>2, <1>3, <2>1, <3>1, SMT
      <3> QED BY <2>1, <2>2, <3>2, BehindIsLess
    <2>3. CASE ~(r < c)
      <3>1. ~(reps[c].commitIndex < reps[r].commitIndex)
        BY <1>2, <1>3, <2>1, SMT
      <3> QED BY <2>1, <2>3, <3>1, BehindIsLess
    <2> QED BY <2>2, <2>3
  <1>6. Candidate(reps) \in Online(reps) /\ First(Candidate(reps))
    <2>1. c \in Online(reps)
      OBVIOUS
    <2>2. Candidate(reps) = CHOOSE d \in Online(reps) : First(d)
      BY DEF Candidate
    <2> HIDE DEF First
    <2> QED BY <1>5, <2>1, <2>2
  <1> DEFINE d == Candidate(reps)
  <1>7. d \in Replicas /\ reps[d].online
    BY <1>6 DEF Online
  <1>8. reps[d].commitIndex = Len(A)
    <2>1. c \in Replicas /\ c \in Online(reps) /\ reps[c].commitIndex = Len(A)
      BY <1>0
    <2>2. IF c < d THEN Behind(reps[c], reps[d]) ELSE ~Behind(reps[d], reps[c])
      BY <1>6, <2>1
    <2>3. IF c < d THEN reps[c].commitIndex < reps[d].commitIndex
                   ELSE ~(reps[d].commitIndex < reps[c].commitIndex)
      <3> HIDE DEF d, First
      <3> QED BY <1>7, <2>1, <2>2, BehindIsLess
    <2> HIDE DEF d, First
    <2> QED BY <1>2, <1>3, <1>7, <2>1, <2>3, SMT
  <1> QED
    BY <1>7, <1>8

\* A vote changes a replica's term, role and vote and nothing else.
LEMMA AfterVoteStep ==
    ASSUME NEW reps \in [Replicas -> Replica], NEW r \in Replicas, NEW c \in Replicas,
           NEW term \in Nat, reps[r].currentTerm < term,
           NEW g, g = AfterVote(reps, r, c, term)
    PROVE  /\ g \in Replica
           /\ SameData(g, reps[r])
           /\ g.currentTerm = IF reps[r].online THEN term ELSE reps[r].currentTerm
  <1> DEFINE f == IF r = c THEN set_role(reps[c], "Candidate") ELSE reps[r]
             li == last_log_index(reps[c].log)
             lt == last_log_term(reps[c].log)
  <1>1. f \in Replica /\ SameData(f, reps[r]) /\ f.currentTerm = reps[r].currentTerm
    <2>1. CASE r = c
      <3>1. "Candidate" \in Roles /\ reps[r] \in Replica /\ f = set_role(reps[r], "Candidate")
        BY <2>1 DEF Roles
      <3> HIDE DEF f
      <3> QED BY <3>1, RoleStep, ZenonT(40)
    <2>2. CASE r # c
      BY <2>2 DEF SameData
    <2> QED BY <2>1, <2>2
  <1>2. term > f.currentTerm
    <2>1. reps[r].currentTerm \in Nat
      BY DEF Replica
    <2> HIDE DEF f
    <2> QED BY <1>1, <2>1
  <1>3. g = request_vote(f, term, c, li, lt)
    BY DEF AfterVote
  <1> HIDE DEF f, li, lt
  <1>4. /\ g \in Replica
        /\ SameData(g, f)
        /\ g.currentTerm = IF f.online THEN term ELSE f.currentTerm
    BY <1>1, <1>2, <1>3, VoteStep, SMT
  <1> QED
    BY <1>1, <1>4 DEF SameData

\* Everybody who is online votes for a candidate that has every acknowledged
\* write, in a term nobody has seen.
LEMMA EverybodyVotes ==
    ASSUME NEW reps, NEW A, Consistent(reps, A), NEW c \in Replicas,
           reps[c].commitIndex = Len(A), NEW term \in Nat,
           \A r \in Replicas : reps[r].currentTerm < term
    PROVE  Voters(reps, c, term) = Online(reps)
  <1> SUFFICES ASSUME NEW r \in Replicas, reps[r].online
               PROVE  VoteGranted(reps[r], term, c, last_log_index(reps[c].log),
                                  last_log_term(reps[c].log))
    BY DEF Voters, Online
  <1> DEFINE n == Len(A)
             m == reps[r].commitIndex
  <1>1. /\ A \in Seq(Entry) /\ n \in Nat /\ m \in 0 .. n /\ n \in 0 .. n
        /\ Settled(reps[r], A, m) /\ Settled(reps[c], A, n)
        /\ reps[r].currentTerm \in Nat
    BY SMT DEF Consistent, Replica
  <1>2. /\ last_log_index(reps[r].log) = m
        /\ last_log_term(reps[r].log) = PrevTerm(A, m)
        /\ PrevTerm(A, m) \in Nat
    BY <1>1, LogEnds
  <1>3. /\ last_log_index(reps[c].log) = n
        /\ last_log_term(reps[c].log) = PrevTerm(A, n)
        /\ PrevTerm(A, n) \in Nat
    BY <1>1, LogEnds
  <1>4. PrevTerm(A, m) <= PrevTerm(A, n)
    <2>1. CASE m = 0
      BY <1>3, <2>1, SMT DEF PrevTerm
    <2>2. CASE m # 0
      <3>1. m \in 1 .. Len(A) /\ n \in 1 .. Len(A) /\ m <= n /\ n # 0
        BY <1>1, <2>2, SMT
      <3>2. A[m].term <= A[n].term
        BY <3>1 DEF Consistent
      <3> QED BY <3>1, <3>2, <2>2 DEF PrevTerm
    <2> QED BY <2>1, <2>2
  <1>5. term > reps[r].currentTerm /\ term >= reps[r].currentTerm
    BY <1>1, SMT
  <1> HIDE DEF n, m
  <1> QED
    BY <1>1, <1>2, <1>3, <1>4, <1>5, SMT DEF VoteGranted

\* The replicas after a won election.
LEMMA CrownedStep ==
    ASSUME NEW reps, NEW A, Consistent(reps, A), NEW c \in Replicas,
           reps[c].online, reps[c].commitIndex = Len(A), NEW term \in Nat,
           \A r \in Replicas : reps[r].currentTerm < term,
           NEW next, next = Crowned(reps, c, term)
    PROVE  /\ next \in [Replicas -> Replica]
           /\ \A r \in Replicas :
                 /\ next[r].online = reps[r].online
                 /\ next[r].role = IF r = c THEN "Leader" ELSE "Follower"
                 /\ IF reps[r].online
                    THEN /\ Settled(next[r], A, Len(A))
                         /\ next[r].currentTerm = term
                    ELSE /\ Settled(next[r], A, reps[r].commitIndex)
                         /\ next[r].currentTerm = reps[r].currentTerm
  <1> DEFINE n == Len(A)
             after(r) == AfterVote(reps, r, c, term)
             winner == set_role(after(c), "Leader")
  <1>1. /\ A \in Seq(Entry) /\ n \in 0 .. Len(A)
        /\ reps \in [Replicas -> Replica]
        /\ \A r \in Replicas : Settled(reps[r], A, reps[r].commitIndex)
        /\ \A r \in Replicas : reps[r].online \in BOOLEAN
    BY SMT DEF Consistent, Replica
  <1>2. ASSUME NEW r \in Replicas
        PROVE  /\ after(r) \in Replica
               /\ SameData(after(r), reps[r])
               /\ after(r).currentTerm =
                     IF reps[r].online THEN term ELSE reps[r].currentTerm
    <2>1. reps[r].currentTerm < term /\ after(r) = AfterVote(reps, r, c, term)
      OBVIOUS
    <2> HIDE DEF after
    <2> QED BY <1>1, <2>1, AfterVoteStep, SMT
  <1> HIDE DEF after
  <1>3. /\ winner \in Replica /\ Settled(winner, A, n)
        /\ winner.online /\ winner.role = "Leader" /\ winner.currentTerm = term
    <2>1. "Leader" \in Roles
      BY DEF Roles
    <2>2. /\ winner \in Replica /\ SameData(winner, after(c))
          /\ winner.role = "Leader" /\ winner.currentTerm = after(c).currentTerm
      <3>1. after(c) \in Replica /\ winner = set_role(after(c), "Leader")
        BY <1>2
      <3> HIDE DEF winner
      <3> QED BY <2>1, <3>1, RoleStep, SMT
    <2>3. SameData(winner, reps[c]) /\ winner.currentTerm = term
      <3> HIDE DEF winner
      <3> QED BY <1>2, <2>2 DEF SameData
    <2>4. Settled(reps[c], A, n)
      BY <1>1
    <2>5. Settled(winner, A, n)
      <3> HIDE DEF winner, n
      <3> QED BY <2>2, <2>3, <2>4, SettledSame
    <2> HIDE DEF winner
    <2> QED BY <2>2, <2>3, <2>5 DEF SameData
  <1>4. next = [r \in Replicas |->
                  IF r = c THEN winner
                  ELSE sync_follower(set_role(after(r), "Follower"), winner)]
    BY DEF Crowned, after
  <1> HIDE DEF winner, n
  <1>5. ASSUME NEW r \in Replicas, r # c
        PROVE  /\ next[r] \in Replica
               /\ next[r].online = reps[r].online
               /\ next[r].role = "Follower"
               /\ IF reps[r].online
                  THEN /\ Settled(next[r], A, n)
                       /\ next[r].currentTerm = term
                  ELSE /\ Settled(next[r], A, reps[r].commitIndex)
                       /\ next[r].currentTerm = reps[r].currentTerm
    <2> DEFINE f == set_role(after(r), "Follower")
    <2>1. next[r] = install_snapshot(f, export_snapshot(winner))
      BY <1>4, <1>5 DEF sync_follower
    <2>2. /\ f \in Replica /\ SameData(f, after(r)) /\ f.role = "Follower"
          /\ f.currentTerm = after(r).currentTerm
      <3>1. "Follower" \in Roles /\ after(r) \in Replica
            /\ f = set_role(after(r), "Follower")
        BY <1>2 DEF Roles
      <3> HIDE DEF f
      <3> QED BY <3>1, RoleStep, SMT
    <2> HIDE DEF f
    <2>3. /\ SameData(f, reps[r])
          /\ f.currentTerm = IF reps[r].online THEN term ELSE reps[r].currentTerm
      BY <1>2, <2>2, ZenonT(40) DEF SameData
    <2>4. CASE reps[r].online
      <3>1. f.online
        BY <2>3, <2>4 DEF SameData
      <3>2. /\ Settled(next[r], A, n)
            /\ next[r].online /\ next[r].role = "Follower"
            /\ next[r].currentTerm = Larger(f.currentTerm, winner.currentTerm)
        BY <1>1, <1>3, <2>1, <2>2, <3>1, SyncStep, SMT
      <3>3. next[r].currentTerm = term
        BY <1>3, <2>3, <2>4, <3>2 DEF Larger
      <3>4. next[r].online \in BOOLEAN
        BY <3>2 DEF Settled, Replica
      <3> QED BY <1>1, <2>4, <3>2, <3>3, <3>4 DEF Settled
    <2>5. CASE ~reps[r].online
      <3>1. ~f.online
        BY <2>3, <2>5 DEF SameData
      <3>2. next[r] = f
        BY <2>1, <3>1 DEF install_snapshot
      <3>3. Settled(f, A, reps[r].commitIndex)
        BY <1>1, <2>2, <2>3, SettledSame
      <3>4. f.online = reps[r].online
        BY <2>3 DEF SameData
      <3> QED BY <2>2, <2>3, <2>5, <3>2, <3>3, <3>4
    <2> QED BY <1>1, <2>4, <2>5
  <1>6. /\ next[c] = winner
        /\ next[c].online = reps[c].online
    <2>1. next[c] = winner
      BY <1>4
    <2>2. winner.online \in BOOLEAN
      BY <1>3 DEF Replica
    <2> QED BY <1>1, <1>3, <2>1, <2>2
  <1>7. next \in [Replicas -> Replica]
    <2>1. \A r \in Replicas : next[r] \in Replica
      BY <1>3, <1>5, <1>6, ZenonT(40)
    <2>2. next = [r \in Replicas |-> next[r]]
      BY <1>4
    <2> QED BY <2>1, <2>2
  <1> QED
    BY <1>3, <1>5, <1>6, <1>7, ZenonT(30) DEF n

\* An election with a majority online is won by a replica that has every
\* acknowledged write, in a term nobody has seen, and levels whoever is online.
LEMMA ElectStep ==
    ASSUME NEW reps, NEW A, Consistent(reps, A),
           2 * Cardinality(Online(reps)) > N,
           NEW sh, sh = Elect(reps)
    PROVE  /\ sh.leader \in Replicas
           /\ Consistent(sh.replicas, A)
           /\ Leads(sh.replicas, sh.leader, A)
           /\ SameOnline(reps, sh.replicas)
           /\ Forward(reps, sh.replicas)
           /\ \A r \in Replicas :
                 reps[r].currentTerm < sh.replicas[sh.leader].currentTerm
  <1> DEFINE c == Candidate(reps)
             term == NextTerm(reps)
             next == Crowned(reps, c, term)
  <1>0. /\ A \in Seq(Entry) /\ Len(A) \in Nat /\ reps \in [Replicas -> Replica]
        /\ \A r \in Replicas : /\ reps[r].currentTerm \in Nat
                               /\ reps[r].commitIndex \in 0 .. Len(A)
    BY SMT DEF Consistent, Replica
  <1>1. c \in Replicas /\ reps[c].online /\ reps[c].commitIndex = Len(A)
    BY CandidateLevel
  <1>2. term \in Nat /\ \A r \in Replicas : reps[r].currentTerm < term
    BY <1>0, NextTermGrows
  <1>3. sh = [replicas |-> next, leader |-> c]
    <2> HIDE DEF c, term
    <2>1. Voters(reps, c, term) = Online(reps)
      BY <1>1, <1>2, EverybodyVotes
    <2>2. ~(Cardinality(Online(reps)) < Quorum)
      <3>1. Online(reps) \in SUBSET Replicas
        BY DEF Online
      <3>2. Cardinality(Online(reps)) \in Nat
        BY <3>1, ReplicasFinite
      <3> QED BY <3>2, QuorumFacts, SMT
    <2> QED BY <2>1, <2>2 DEF Elect, c, term
  <1>4. sh.replicas = next /\ sh.leader = c
    BY <1>3, SMT
  <1> HIDE DEF c, term
  <1>5. /\ next \in [Replicas -> Replica]
        /\ \A r \in Replicas :
              /\ next[r].online = reps[r].online
              /\ next[r].role = IF r = c THEN "Leader" ELSE "Follower"
              /\ IF reps[r].online
                 THEN /\ Settled(next[r], A, Len(A))
                      /\ next[r].currentTerm = term
                 ELSE /\ Settled(next[r], A, reps[r].commitIndex)
                      /\ next[r].currentTerm = reps[r].currentTerm
    BY <1>1, <1>2, CrownedStep, SMT
  <1> HIDE DEF next
  <1>6. \A i \in 1 .. Len(A) : A[i].term <= term
    <2>1. \A r \in Replicas : reps[r].currentTerm <= term
      BY <1>0, <1>2, SMT
    <2> QED BY <1>2, <2>1, TermBound
  <1>7. ASSUME NEW r \in Replicas
        PROVE  /\ next[r].commitIndex =
                     IF reps[r].online THEN Len(A) ELSE reps[r].commitIndex
               /\ Settled(next[r], A, next[r].commitIndex)
               /\ \A i \in 1 .. next[r].commitIndex : A[i].term <= next[r].currentTerm
    <2>1. CASE reps[r].online
      <3>1. next[r].commitIndex = Len(A)
        BY <1>5, <2>1 DEF Settled
      <3> QED BY <1>5, <1>6, <2>1, <3>1
    <2>2. CASE ~reps[r].online
      <3>1. next[r].commitIndex = reps[r].commitIndex
        BY <1>5, <2>2 DEF Settled
      <3>2. \A i \in 1 .. reps[r].commitIndex : A[i].term <= reps[r].currentTerm
        BY DEF Consistent
      <3> QED BY <1>5, <2>2, <3>1, <3>2
    <2> QED BY <2>1, <2>2
  <1>8. Consistent(next, A)
    <2>1. \A r \in Replicas : /\ reps[r].commitIndex <= next[r].commitIndex
                              /\ next[r].commitIndex <= Len(A)
      BY <1>0, <1>7, SMT
    <2> QED BY <1>5, <1>7, <2>1, ConsistentStep
  <1>9. Leads(next, c, A)
    <2>1. \A r \in Replicas : next[r].role = "Leader" <=> r = c
      BY <1>5
    <2>2. next[c].online /\ next[c].commitIndex = Len(A) /\ next[c].currentTerm = term
      BY <1>1, <1>5, <1>7
    <2>3. \A r \in Replicas : /\ next[r].currentTerm <= term
                              /\ next[r].online => next[r].commitIndex = Len(A)
      BY <1>0, <1>2, <1>5, <1>7, SMT
    <2> QED BY <1>1, <2>1, <2>2, <2>3 DEF Leads, LeadsExcept
  <1>10. SameOnline(reps, next)
    BY <1>5 DEF SameOnline
  <1>11. Forward(reps, next)
    <2>1. \A r \in Replicas : reps[r].currentTerm <= next[r].currentTerm
      BY <1>0, <1>2, <1>5, SMT
    <2>2. \A r \in Replicas : reps[r].commitIndex <= next[r].commitIndex
      BY <1>0, <1>7, SMT
    <2> QED BY <2>1, <2>2 DEF Forward
  <1>12. \A r \in Replicas : reps[r].currentTerm < next[c].currentTerm
    BY <1>1, <1>2, <1>5, SMTT(20)
  <1> QED
    BY <1>1, <1>4, <1>8, <1>9, <1>10, <1>11, <1>12

\* What ensure_leader_locked makes of a consistent shard.
LEMMA EnsureStep ==
    ASSUME NEW reps, NEW l, NEW A, Consistent(reps, A), Leads(reps, l, A),
           NEW sh, sh = EnsureLeader([replicas |-> reps, leader |-> l])
    PROVE  /\ Consistent(sh.replicas, A)
           /\ Leads(sh.replicas, sh.leader, A)
           /\ SameOnline(reps, sh.replicas)
           /\ Forward(reps, sh.replicas)
           /\ HasLeader(sh) <=> sh.leader # NoReplica
           /\ ~HasLeader(sh) => ~(2 * Cardinality(Online(reps)) > N)
           /\ sh.leader \notin {NoReplica, l} =>
                 \A r \in Replicas :
                    reps[r].currentTerm < sh.replicas[sh.leader].currentTerm
  <1> DEFINE old == [replicas |-> reps, leader |-> l]
  <1>0. old.replicas = reps /\ old.leader = l /\ sh = EnsureLeader(old)
    OBVIOUS
  <1>1. HasLeader(old) <=> l # NoReplica
    BY DEF HasLeader, Leads, LeadsExcept
  <1>2. reps \in [Replicas -> Replica]
    BY DEF Consistent
  <1>3. SameOnline(reps, reps) /\ Forward(reps, reps)
    BY <1>2, SMT DEF SameOnline, Forward, Replica
  <1>4. Cardinality(Online(reps)) \in Nat
    <2>1. Online(reps) \in SUBSET Replicas
      BY DEF Online
    <2> QED BY <2>1, ReplicasFinite
  <1>5. CASE HasLeader(old)
    <2>1. sh = old
      BY <1>0, <1>5 DEF EnsureLeader
    <2> QED BY <1>0, <1>1, <1>3, <1>5, <2>1
  <1>6. CASE ~HasLeader(old) /\ ~(2 * Cardinality(Online(reps)) > N)
    <2>1. Cardinality(Online(old.replicas)) < Quorum
      BY <1>0, <1>4, <1>6, QuorumFacts, SMT
    <2>2. sh = [old EXCEPT !.leader = NoReplica]
      BY <1>0, <1>6, <2>1 DEF EnsureLeader
    <2>3. sh.replicas = reps /\ sh.leader = NoReplica
      BY <2>2
    <2>4. l = NoReplica
      BY <1>1, <1>6
    <2>5. ~HasLeader(sh)
      BY <2>3 DEF HasLeader
    <2> QED BY <1>3, <1>6, <2>3, <2>4, <2>5
  <1>7. CASE ~HasLeader(old) /\ 2 * Cardinality(Online(reps)) > N
    <2>1. ~(Cardinality(Online(old.replicas)) < Quorum)
      BY <1>0, <1>4, <1>7, QuorumFacts, SMT
    <2>2. sh = Elect(reps)
      BY <1>0, <1>7, <2>1 DEF EnsureLeader
    <2>3. /\ sh.leader \in Replicas
          /\ Consistent(sh.replicas, A)
          /\ Leads(sh.replicas, sh.leader, A)
          /\ SameOnline(reps, sh.replicas)
          /\ Forward(reps, sh.replicas)
          /\ \A r \in Replicas :
                reps[r].currentTerm < sh.replicas[sh.leader].currentTerm
      BY <1>7, <2>2, ElectStep
    <2>4. sh.leader # NoReplica
      BY <2>3, NoReplicaAssumption
    <2>5. HasLeader(sh)
      BY <2>3, <2>4 DEF HasLeader, Leads, LeadsExcept
    <2> QED BY <2>3, <2>4, <2>5
  <1> QED
    BY <1>5, <1>6, <1>7

\* A replica that came back online installs the leader's committed log.
Synced(reps, x, l) == [reps EXCEPT ![x] = sync_follower(@, reps[l])]

\* It is then level with the leader.
LEMMA SyncInStep ==
    ASSUME NEW reps, NEW l \in Replicas, NEW A, NEW x \in Replicas, x # l,
           Consistent(reps, A), LeadsExcept(reps, l, A, x), reps[x].online,
           NEW next, next = Synced(reps, x, l)
    PROVE  /\ Consistent(next, A)
           /\ Leads(next, l, A)
           /\ SameOnline(reps, next)
           /\ Forward(reps, next)
  <1> DEFINE g == install_snapshot(reps[x], export_snapshot(reps[l]))
  <1>0. l # NoReplica
    BY NoReplicaAssumption
  <1>1. /\ A \in Seq(Entry) /\ Len(A) \in Nat /\ Len(A) \in 0 .. Len(A)
        /\ reps \in [Replicas -> Replica]
        /\ \A r \in Replicas : /\ reps[r].currentTerm \in Nat
                               /\ reps[r].online \in BOOLEAN
                               /\ reps[r].commitIndex \in 0 .. Len(A)
                               /\ Settled(reps[r], A, reps[r].commitIndex)
    BY SMT DEF Consistent, Replica
  <1>2. /\ reps[l].commitIndex = Len(A)
        /\ \A r \in Replicas : reps[r].currentTerm <= reps[l].currentTerm
        /\ \A r \in Replicas : reps[r].online /\ r # x => reps[r].commitIndex = Len(A)
        /\ reps[l].online
        /\ \A r \in Replicas : reps[r].role = "Leader" <=> r = l
    BY <1>0 DEF LeadsExcept
  <1>3. /\ Settled(g, A, Len(A))
        /\ g.online /\ g.role = "Follower"
        /\ g.currentTerm = Larger(reps[x].currentTerm, reps[l].currentTerm)
    <2>1. Settled(reps[l], A, Len(A)) /\ reps[x] \in Replica
      BY <1>1, <1>2
    <2> HIDE DEF g
    <2> QED BY <1>1, <2>1, SyncStep, SMT DEF g
  <1>4. next = [reps EXCEPT ![x] = g]
    BY DEF sync_follower, Synced
  <1> HIDE DEF g
  <1>5. /\ g \in Replica /\ g.commitIndex = Len(A) /\ g.online = reps[x].online
        /\ g.currentTerm = reps[l].currentTerm
    <2>1. g \in Replica /\ g.commitIndex = Len(A)
      BY <1>3 DEF Settled
    <2>2. g.online \in BOOLEAN
      BY <2>1 DEF Replica
    <2>3. g.currentTerm = reps[l].currentTerm
      BY <1>1, <1>2, <1>3, SMT DEF Larger
    <2> QED BY <1>1, <1>3, <2>1, <2>2, <2>3
  <1>6. /\ next \in [Replicas -> Replica] /\ next[x] = g
        /\ \A r \in Replicas : r # x => next[r] = reps[r]
    BY <1>1, <1>4, <1>5
  <1>7. \A i \in 1 .. Len(A) : A[i].term <= reps[l].currentTerm
    BY <1>1, <1>2, TermBound
  <1>8. ASSUME NEW r \in Replicas
        PROVE  /\ reps[r].commitIndex <= next[r].commitIndex
               /\ next[r].commitIndex <= Len(A)
               /\ Settled(next[r], A, next[r].commitIndex)
               /\ \A i \in 1 .. next[r].commitIndex : A[i].term <= next[r].currentTerm
    <2>1. CASE r = x
      BY <1>1, <1>3, <1>5, <1>6, <1>7, <2>1, SMT
    <2>2. CASE r # x
      <3>1. \A i \in 1 .. reps[r].commitIndex : A[i].term <= reps[r].currentTerm
        BY DEF Consistent
      <3> QED BY <1>1, <1>6, <2>2, <3>1, SMT
    <2> QED BY <2>1, <2>2
  <1>9. Consistent(next, A)
    <2>1. Consistent(reps, A)
      OBVIOUS
    <2> QED BY ONLY <1>6, <1>8, <2>1, ConsistentStep
  <1>10. Leads(next, l, A)
    <2>1. \A r \in Replicas : next[r].role = "Leader" <=> r = l
      BY <1>2, <1>3, <1>6
    <2>2. next[l] = reps[l]
      BY <1>6
    <2>3. \A r \in Replicas : /\ next[r].currentTerm <= next[l].currentTerm
                              /\ next[r].online => next[r].commitIndex = Len(A)
      BY <1>1, <1>2, <1>5, <1>6, <2>2
    <2> QED BY <1>2, <2>1, <2>2, <2>3 DEF Leads, LeadsExcept
  <1>11. SameOnline(reps, next) /\ Forward(reps, next)
    <2>1. \A r \in Replicas : next[r].online = reps[r].online
      BY <1>5, <1>6
    <2>2. \A r \in Replicas : reps[r].currentTerm <= next[r].currentTerm
      BY <1>1, <1>2, <1>5, <1>6, SMT
    <2> QED BY <1>8, <2>1, <2>2 DEF SameOnline, Forward
  <1> QED
    BY <1>9, <1>10, <1>11
-----------------------------------------------------------------------------
(* A write.                                                                *)

\* What the leader l has done once it appended e, entry n + 1 of B, and sent it
\* around: every online follower accepts the entry, as the one that follows
\* what it has committed, and the offline ones see nothing of it.
Turns(reps, l, leader, B, e, n) ==
    /\ n \in Nat /\ e \in Entry /\ e.term = reps[l].currentTerm
    /\ last_log_index(reps[l].log) = n /\ leader.log[n + 1] = e
    /\ Pending(leader, B, n) /\ leader.online /\ leader.role = "Leader"
    /\ leader.currentTerm = reps[l].currentTerm
    /\ Acknowledging(reps, l, leader, n + 1) = Online(reps) \ {l}
    /\ \A r \in Replicas :
          /\ Settled(reps[r], B, reps[r].commitIndex)
          /\ ~reps[r].online => Sent(reps[r], l, leader, n + 1) = reps[r]
          /\ reps[r].online /\ r # l =>
                LET g == Sent(reps[r], l, leader, n + 1)
                IN  /\ Pending(g, B, n)
                    /\ g.online /\ g.role = "Follower"
                    /\ g.currentTerm = leader.currentTerm

\* What the loop over the followers finds and does.
LEMMA SentStep ==
    ASSUME NEW reps, NEW l \in Replicas, NEW A,
           Consistent(reps, A), Leads(reps, l, A),
           NEW command \in Commands, NEW key \in Keys,
           NEW value \in Values \cup {NoValue},
           NEW leader, leader = append_local(reps[l], command, key, value),
           NEW e, e = NewEntry(reps[l], command, key, value),
           NEW B, B = Append(A, e), NEW n, n = Len(A)
    PROVE  Turns(reps, l, leader, B, e, n)
  <1>0. l # NoReplica
    BY NoReplicaAssumption
  <1>1. /\ A \in Seq(Entry) /\ n \in Nat /\ n \in 0 .. Len(A)
        /\ reps \in [Replicas -> Replica]
        /\ \A r \in Replicas : /\ reps[r] \in Replica
                               /\ reps[r].currentTerm \in Nat
                               /\ reps[r].commitIndex \in 0 .. Len(A)
                               /\ Settled(reps[r], A, reps[r].commitIndex)
    BY SMT DEF Consistent, Replica
  <1>2. /\ reps[l].commitIndex = n /\ reps[l].online /\ reps[l].role = "Leader"
        /\ \A r \in Replicas : /\ reps[r].currentTerm <= reps[l].currentTerm
                               /\ reps[r].online => reps[r].commitIndex = n
    BY <1>0, NoReplicaAssumption DEF Leads, LeadsExcept
  <1>3. Settled(reps[l], A, Len(A))
    BY <1>1, <1>2
  <1>4. /\ e \in Entry /\ e.term = reps[l].currentTerm
        /\ last_log_index(reps[l].log) = n
        /\ leader.log[n + 1] = e
        /\ Pending(leader, B, n)
        /\ leader.online = reps[l].online /\ leader.role = reps[l].role
        /\ leader.currentTerm = reps[l].currentTerm
    BY <1>1, <1>3, AppendLocalStep, SMT
  <1>5. /\ B \in Seq(Entry) /\ Len(B) = n + 1 /\ n + 1 <= Len(B)
        /\ B[n + 1] = e
    BY <1>1, <1>4, SMT
  <1>6. leader.commitIndex = n /\ leader.log = Pref(B, n + 1)
        /\ leader.currentTerm \in Nat
    BY <1>4 DEF Pending, Replica
  <1>7. (n + 1) - 1 = n
    BY <1>1, SMT
  <1>8. term_at(leader, (n + 1) - 1) = PrevTerm(B, n)
    <2>1. n + 1 \in n .. Len(B)
      BY <1>1, <1>5, SMT
    <2>2. term_at(leader, n) = PrevTerm(B, n)
      BY <1>1, <1>5, <1>6, <2>1, TermAt, ZenonT(30)
    <2> QED BY <1>7, <2>2
  <1>9. [i \in {n + 1} |-> leader.log[i]] = [i \in {n + 1} |-> B[i]]
    BY <1>4, <1>5
  <1>10. \A r \in Replicas : Settled(reps[r], B, reps[r].commitIndex)
    BY <1>1, <1>4, SettledExtends
  <1>11. ASSUME NEW r \in Replicas, ~reps[r].online
         PROVE  Sent(reps[r], l, leader, n + 1) = reps[r]
    <2>1. Levelled(reps[r], leader) = reps[r]
      BY <1>11 DEF Levelled, sync_follower, install_snapshot
    <2> QED
      BY <1>11, <2>1 DEF Sent, append_entries
  <1>12. ASSUME NEW r \in Replicas, reps[r].online, r # l
         PROVE  LET g == Sent(reps[r], l, leader, n + 1)
                IN  /\ AppendAccepted(Levelled(reps[r], leader), leader.currentTerm,
                                      (n + 1) - 1, term_at(leader, (n + 1) - 1))
                    /\ Pending(g, B, n)
                    /\ g.online /\ g.role = "Follower"
                    /\ g.currentTerm = leader.currentTerm
    <2> DEFINE g == Sent(reps[r], l, leader, n + 1)
    <2>0. r \in Replicas
      OBVIOUS
    <2>1. reps[r].commitIndex = n /\ Settled(reps[r], A, n)
      <3>1. reps[r].commitIndex = n
        BY ONLY <1>2, <1>12, <2>0
      <3> QED BY ONLY <1>1, <2>0, <3>1
    <2>2. last_log_index(reps[r].log) = n
      BY <1>1, <2>1, LogEnds
    <2>3. Levelled(reps[r], leader) = reps[r]
      BY <1>6, <2>1, <2>2 DEF Levelled
    <2>4. g = append_entries(reps[r], leader.currentTerm, l, n, PrevTerm(B, n),
                             [i \in {n + 1} |-> B[i]], n)
      BY <1>6, <1>7, <1>8, <1>9, <2>3 DEF Sent
    <2>5. Settled(reps[r], B, n) /\ reps[r].currentTerm <= leader.currentTerm
      BY ONLY <1>2, <1>4, <1>10, <2>0, <2>1
    <2> HIDE DEF g
    <2>6. /\ AppendAccepted(reps[r], leader.currentTerm, n, PrevTerm(B, n))
          /\ Pending(g, B, n)
          /\ g.online /\ g.role = "Follower" /\ g.currentTerm = leader.currentTerm
      <3> DEFINE f == reps[r]
                 term == leader.currentTerm
                 entries == NextEntry(B, n)
      <3>1. /\ f.online /\ n \in Nat /\ l \in Replicas
            /\ B \in Seq(Entry) /\ n + 1 <= Len(B)
            /\ Settled(f, B, n) /\ term \in Nat /\ f.currentTerm <= term
            /\ g = append_entries(f, term, l, n, PrevTerm(B, n), entries, n)
            /\ entries = NextEntry(B, n)
        BY <1>1, <1>5, <1>6, <1>12, <2>4, <2>5 DEF NextEntry
      <3> HIDE DEF f, term, entries
      <3>2. /\ AppendAccepted(f, term, n, PrevTerm(B, n))
            /\ Pending(g, B, n)
            /\ g.online /\ g.role = "Follower" /\ g.currentTerm = term
        BY ONLY <3>1, AppendStep
      <3> QED BY <3>2 DEF f, term
    <2> QED BY <1>7, <1>8, <2>3, <2>6 DEF g
  <1>13. Acknowledging(reps, l, leader, n + 1) = Online(reps) \ {l}
    BY <1>12 DEF Acknowledging, Online
  <1> QED
    BY <1>1, <1>2, <1>4, <1>10, <1>11, <1>12, <1>13 DEF Turns

\* What is settled does not depend on entries beyond it.
LEMMA SettledShrinks ==
    ASSUME NEW A \in Seq(Entry), NEW e \in Entry, NEW n \in 0 .. Len(A),
           NEW r, Settled(r, Append(A, e), n)
    PROVE  Settled(r, A, n)
  <1>1. \A i \in 1 .. n : Append(A, e)[i] = A[i]
    BY SMT
  <1>2. Pref(Append(A, e), n) = Pref(A, n)
    BY <1>1 DEF Pref
  <1>3. 1 .. n \in SUBSET Int /\ IsFiniteSet(1 .. n)
    BY FS_Interval, SMT
  <1>4. ApplyEntries(EmptyKV, Append(A, e), 1 .. n) = ApplyEntries(EmptyKV, A, 1 .. n)
    BY <1>1, <1>3, ApplyLocal
  <1> QED
    BY <1>2, <1>4 DEF Settled

\* One more entry at the end of the common log.
LEMMA Extension ==
    ASSUME NEW A \in Seq(Entry), NEW e \in Entry,
           NEW B, B = Append(A, e), NEW n, n = Len(A)
    PROVE  /\ n \in Nat /\ n \in 0 .. n /\ n + 1 \in Nat
           /\ B \in Seq(Entry) /\ Len(B) = n + 1 /\ n + 1 <= Len(B)
           /\ B[n + 1] = e
           /\ \A i \in 1 .. n : B[i] = A[i]
           /\ \A i \in 1 .. n : A[i] \in Entry
           /\ \A i \in 1 .. n + 1 : B[i] \in Entry
           /\ \A i \in 1 .. n + 1 : i \in 1 .. n \/ i = n + 1
           /\ \A i \in 1 .. n : ~(n + 1 <= i)
  <1>1. /\ n \in Nat /\ n \in 0 .. n /\ n + 1 \in Nat
        /\ \A i \in 1 .. n + 1 : i \in 1 .. n \/ i = n + 1
        /\ \A i \in 1 .. n : ~(n + 1 <= i)
    BY SMT
  <1>2. B \in Seq(Entry) /\ Len(B) = n + 1 /\ n + 1 <= Len(B) /\ B[n + 1] = e
    BY SMT
  <1>3. \A i \in 1 .. n : B[i] = A[i] /\ A[i] \in Entry
    BY SMT
  <1>4. \A i \in 1 .. n + 1 : B[i] \in Entry
    BY ONLY <1>1, <1>2, <1>3, e \in Entry
  <1> QED
    BY ONLY <1>1, <1>2, <1>3, <1>4

\* A write that is rolled back leaves the shard as consistent as it was.
LEMMA RolledStep ==
    ASSUME NEW reps, NEW l \in Replicas, NEW A,
           Consistent(reps, A), Leads(reps, l, A),
           NEW command \in Commands, NEW key \in Keys,
           NEW value \in Values \cup {NoValue},
           NEW leader, leader = append_local(reps[l], command, key, value),
           NEW index, index = last_log_index(reps[l].log) + 1,
           NEW acks, acks = Acknowledging(reps, l, leader, index),
           NEW next, next = RolledBack(reps, l, leader, index, acks)
    PROVE  /\ Consistent(next, A)
           /\ Leads(next, l, A)
           /\ SameOnline(reps, next)
           /\ Forward(reps, next)
  <1> DEFINE e == NewEntry(reps[l], command, key, value)
             B == Append(A, e)
             n == Len(A)
             sent(r) == Sent(reps[r], l, leader, n + 1)
             done(r) == discard_uncommitted(sent(r))
             top == discard_uncommitted(leader)
  <1>a. e = NewEntry(reps[l], command, key, value) /\ B = Append(A, e) /\ n = Len(A)
    OBVIOUS
  <1>b. top = discard_uncommitted(leader)
    OBVIOUS
  <1>c. \A r : sent(r) = Sent(reps[r], l, leader, n + 1)
    OBVIOUS
  <1>d. \A r : done(r) = discard_uncommitted(sent(r))
    OBVIOUS
  <1> HIDE DEF e, B, n, sent, done, top
  <1>f. Consistent(reps, A) /\ Leads(reps, l, A) /\ l \in Replicas
    OBVIOUS
  <1>g. leader = append_local(reps[l], command, key, value)
    OBVIOUS
  <1>h. /\ index = last_log_index(reps[l].log) + 1
        /\ acks = Acknowledging(reps, l, leader, index)
        /\ next = RolledBack(reps, l, leader, index, acks)
    OBVIOUS
  <1>t. Turns(reps, l, leader, B, e, n)
    BY ONLY <1>a, <1>f, <1>g, SentStep, Zenon
  <1>1. /\ e \in Entry /\ last_log_index(reps[l].log) = n
        /\ Acknowledging(reps, l, leader, n + 1) = Online(reps) \ {l}
    BY ONLY <1>t DEF Turns
  <1>2. /\ Pending(leader, B, n) /\ leader.online /\ leader.role = "Leader"
        /\ leader.currentTerm = reps[l].currentTerm
    BY ONLY <1>t DEF Turns
  <1>3. \A r \in Replicas :
              /\ ~reps[r].online => sent(r) = reps[r]
              /\ reps[r].online /\ r # l =>
                    /\ Pending(sent(r), B, n)
                    /\ sent(r).online /\ sent(r).role = "Follower"
                    /\ sent(r).currentTerm = leader.currentTerm
    BY ONLY <1>c, <1>t, Zenon DEF Turns
  <1>4. /\ A \in Seq(Entry) /\ reps \in [Replicas -> Replica]
        /\ \A r \in Replicas : Settled(reps[r], A, reps[r].commitIndex)
    BY ONLY <1>f DEF Consistent
  <1>5. /\ n \in Nat /\ n \in 0 .. n
        /\ B \in Seq(Entry) /\ n + 1 <= Len(B)
        /\ \A i \in 1 .. n : A[i] \in Entry
    BY ONLY <1>a, <1>1, <1>4, Extension
  <1>6. \A r \in Replicas : /\ reps[r].currentTerm \in Nat
                            /\ reps[r].online \in BOOLEAN
                            /\ reps[r].commitIndex \in Nat
    BY ONLY <1>4 DEF Replica
  <1>7. /\ reps[l].commitIndex = n /\ reps[l].online
        /\ \A r \in Replicas : /\ reps[r].currentTerm <= reps[l].currentTerm
                               /\ reps[r].online => reps[r].commitIndex = n
                               /\ reps[r].role = "Leader" <=> r = l
    BY ONLY <1>a, <1>f, NoReplicaAssumption DEF Leads, LeadsExcept
  <1>8. /\ Settled(top, A, n)
        /\ top.online /\ top.role = "Leader"
        /\ top.currentTerm = reps[l].currentTerm
    <2>1. /\ Settled(top, B, n) /\ top.online = leader.online
          /\ top.role = leader.role /\ top.currentTerm = leader.currentTerm
      BY ONLY <1>b, <1>2, <1>5, DiscardStep, ZenonT(30)
    <2>2. Settled(top, A, n)
      BY ONLY <1>a, <1>1, <1>4, <1>5, <2>1, SettledShrinks
    <2> QED BY ONLY <1>2, <2>1, <2>2
  <1>9. ASSUME NEW r \in Replicas, reps[r].online, r # l
        PROVE  /\ Settled(done(r), A, n)
               /\ done(r).online /\ done(r).role = "Follower"
               /\ done(r).currentTerm = reps[l].currentTerm
    <2> DEFINE f == sent(r)
               g == done(r)
    <2>1. /\ Pending(f, B, n) /\ f.online /\ f.role = "Follower"
          /\ f.currentTerm = leader.currentTerm /\ g = discard_uncommitted(f)
      BY ONLY <1>d, <1>3, <1>9, Zenon
    <2> HIDE DEF f, g
    <2>2. /\ Settled(g, B, n) /\ g.online = f.online
          /\ g.role = f.role /\ g.currentTerm = f.currentTerm
      BY ONLY <1>5, <2>1, DiscardStep, Zenon
    <2>3. Settled(g, A, n)
      BY ONLY <1>a, <1>1, <1>4, <1>5, <2>2, SettledShrinks
    <2>4. g.online /\ g.role = "Follower" /\ g.currentTerm = reps[l].currentTerm
      BY ONLY <1>2, <2>1, <2>2
    <2> QED BY ONLY <2>3, <2>4 DEF g
  <1>10. next = RolledBack(reps, l, leader, n + 1, Online(reps) \ {l})
    BY ONLY <1>h, <1>1
  <1>11. /\ next[l] = top
         /\ \A r \in Replicas : /\ reps[r].online /\ r # l => next[r] = done(r)
                                /\ ~reps[r].online => next[r] = reps[r]
         /\ DOMAIN next = Replicas
    <2>1. DOMAIN next = Replicas /\ next[l] = top
      BY ONLY <1>b, <1>f, <1>10 DEF RolledBack
    <2>2. ASSUME NEW r \in Replicas, reps[r].online, r # l
          PROVE  next[r] = done(r)
      BY ONLY <1>c, <1>d, <1>10, <2>2, r \in Replicas DEF RolledBack, Online
    <2>3. ASSUME NEW r \in Replicas, ~reps[r].online
          PROVE  next[r] = reps[r]
      BY ONLY <1>c, <1>3, <1>7, <1>10, <2>3, r \in Replicas, SMTT(20)
         DEF RolledBack, Online
    <2> QED BY ONLY <2>1, <2>2, <2>3
  <1>12. ASSUME NEW r \in Replicas
         PROVE  /\ Settled(next[r], A, reps[r].commitIndex)
                /\ next[r].online = reps[r].online
                /\ next[r].role = "Leader" <=> r = l
                /\ next[r].currentTerm = IF reps[r].online THEN reps[l].currentTerm
                                         ELSE reps[r].currentTerm
    <2>0. r \in Replicas
      OBVIOUS
    <2>1. CASE r = l
      <3>1. top.online \in BOOLEAN
        BY ONLY <1>8 DEF Settled, Replica
      <3> QED BY ONLY <1>6, <1>7, <1>8, <1>11, <2>0, <2>1, <3>1, Zenon
    <2>2. CASE reps[r].online /\ r # l
      <3> DEFINE g == done(r)
      <3>1. /\ Settled(g, A, n) /\ g.online /\ g.role = "Follower"
            /\ g.currentTerm = reps[l].currentTerm /\ next[r] = g
        BY ONLY <1>9, <1>11, <2>0, <2>2
      <3> HIDE DEF g
      <3>2. g.online \in BOOLEAN
        BY ONLY <3>1 DEF Settled, Replica
      <3> QED BY ONLY <1>6, <1>7, <2>0, <2>2, <3>1, <3>2, Zenon
    <2>3. CASE ~reps[r].online
      BY ONLY <1>4, <1>7, <1>11, <2>0, <2>3
    <2> QED BY ONLY <1>6, <2>0, <2>1, <2>2, <2>3
  <1>13. ASSUME NEW r \in Replicas
         PROVE  /\ next[r] \in Replica /\ next[r].commitIndex = reps[r].commitIndex
                /\ next[r].currentTerm >= reps[r].currentTerm
    <2>1. next[r] \in Replica /\ next[r].commitIndex = reps[r].commitIndex
      BY ONLY <1>12, r \in Replicas DEF Settled
    <2> QED BY ONLY <1>f, <1>6, <1>7, <1>12, <2>1, r \in Replicas, SMTT(20)
  <1>14. next \in [Replicas -> Replica]
    BY ONLY <1>10, <1>13 DEF RolledBack
  <1>15. Consistent(next, A)
    <2>1. ASSUME NEW r \in Replicas
          PROVE  /\ reps[r].commitIndex <= next[r].commitIndex
                 /\ next[r].commitIndex <= Len(A)
                 /\ Settled(next[r], A, next[r].commitIndex)
                 /\ \A i \in 1 .. next[r].commitIndex :
                       A[i].term <= next[r].currentTerm
      <3>0. r \in Replicas
        OBVIOUS
      <3>1. /\ reps[r].commitIndex <= n
            /\ \A i \in 1 .. reps[r].commitIndex : A[i].term <= reps[r].currentTerm
        BY ONLY <1>a, <1>f, <3>0 DEF Consistent
      <3>2. \A i \in 1 .. reps[r].commitIndex : A[i].term \in Nat
        <4>1. \A i \in 1 .. reps[r].commitIndex : A[i] \in Entry
          BY ONLY <1>5, <1>6, <3>0, <3>1
        <4> QED BY ONLY <4>1 DEF Entry
      <3>3. next[r].currentTerm \in Nat
        BY ONLY <1>13, <3>0 DEF Replica
      <3>4. \A i \in 1 .. next[r].commitIndex : A[i].term <= next[r].currentTerm
        BY ONLY <1>6, <1>13, <3>0, <3>1, <3>2, <3>3, SMTT(20)
      <3> QED BY ONLY <1>a, <1>6, <1>12, <1>13, <3>0, <3>1, <3>4, SMTT(20)
    <2> QED BY ONLY <1>f, <1>14, <2>1, ConsistentStep
  <1>16. Leads(next, l, A)
    <2>1. \A r \in Replicas : next[r].currentTerm <= next[l].currentTerm
      BY ONLY <1>f, <1>6, <1>7, <1>12
    <2>2. \A r \in Replicas : next[r].online => next[r].commitIndex = n
      BY ONLY <1>7, <1>12, <1>13
    <2>3. next[l].online /\ next[l].commitIndex = n
      BY ONLY <1>f, <1>7, <1>12, <1>13
    <2>4. \A r \in Replicas : next[r].role = "Leader" <=> r = l
      BY ONLY <1>12
    <2> QED BY ONLY <1>a, <1>f, <2>1, <2>2, <2>3, <2>4, SMTT(20)
               DEF Leads, LeadsExcept
  <1>17. SameOnline(reps, next)
    BY ONLY <1>12 DEF SameOnline
  <1>18. Forward(reps, next)
    <2>1. \A r \in Replicas : next[r].currentTerm \in Nat
      BY ONLY <1>14 DEF Replica
    <2> QED BY ONLY <1>6, <1>13, <2>1 DEF Forward
  <1> QED
    BY ONLY <1>15, <1>16, <1>17, <1>18

\* A write that a majority accepted is committed wherever it was accepted.
LEMMA CommittedStep ==
    ASSUME NEW reps, NEW l \in Replicas, NEW A,
           Consistent(reps, A), Leads(reps, l, A),
           2 * Cardinality(Online(reps)) > N,
           NEW command \in Commands, NEW key \in Keys,
           NEW value \in Values \cup {NoValue},
           NEW leader, leader = append_local(reps[l], command, key, value),
           NEW e, e = NewEntry(reps[l], command, key, value),
           NEW B, B = Append(A, e), NEW n, n = Len(A),
           Turns(reps, l, leader, B, e, n),
           NEW next, next = Committed(reps, l, leader, n + 1, Online(reps) \ {l})
    PROVE  /\ Consistent(next, B)
           /\ Leads(next, l, B)
           /\ SameOnline(reps, next)
           /\ Forward(reps, next)
  <1> DEFINE sent(r) == Sent(reps[r], l, leader, n + 1)
             done(r) == append_entries(sent(r), leader.currentTerm, l, n + 1,
                                       leader.log[n + 1].term, EmptyLog, n + 1)
             top == commit_to(leader, n + 1)
  <1>b. top = commit_to(leader, n + 1)
    OBVIOUS
  <1>c. \A r : sent(r) = Sent(reps[r], l, leader, n + 1)
    OBVIOUS
  <1>d. \A r : done(r) = append_entries(sent(r), leader.currentTerm, l, n + 1,
                                        leader.log[n + 1].term, EmptyLog, n + 1)
    OBVIOUS
  <1> HIDE DEF sent, done, top
  <1>a. B = Append(A, e) /\ n = Len(A)
    OBVIOUS
  <1>f. Consistent(reps, A) /\ Leads(reps, l, A) /\ l \in Replicas
    OBVIOUS
  <1>g. next = Committed(reps, l, leader, n + 1, Online(reps) \ {l})
    OBVIOUS
  <1>t. Turns(reps, l, leader, B, e, n)
    OBVIOUS
  <1>1. /\ e \in Entry /\ e.term = reps[l].currentTerm
        /\ leader.log[n + 1] = e
        /\ Pending(leader, B, n) /\ leader.online /\ leader.role = "Leader"
        /\ leader.currentTerm = reps[l].currentTerm
        /\ \A r \in Replicas : Settled(reps[r], B, reps[r].commitIndex)
    BY ONLY <1>t DEF Turns
  <1>2. \A r \in Replicas :
              /\ ~reps[r].online => sent(r) = reps[r]
              /\ reps[r].online /\ r # l =>
                    /\ Pending(sent(r), B, n)
                    /\ sent(r).online /\ sent(r).role = "Follower"
                    /\ sent(r).currentTerm = leader.currentTerm
    BY ONLY <1>c, <1>t, Zenon DEF Turns
  <1>3. A \in Seq(Entry) /\ reps \in [Replicas -> Replica]
    BY ONLY <1>f DEF Consistent
  <1>4. /\ n \in Nat /\ n + 1 \in Nat
        /\ B \in Seq(Entry) /\ Len(B) = n + 1 /\ n + 1 <= Len(B)
    BY ONLY <1>a, <1>1, <1>3, Extension
  <1>5. /\ B[n + 1] = e
        /\ \A i \in 1 .. n : B[i] = A[i]
        /\ \A i \in 1 .. n + 1 : B[i] \in Entry
        /\ \A i \in 1 .. n + 1 : i \in 1 .. n \/ i = n + 1
        /\ \A i \in 1 .. n : ~(n + 1 <= i)
    BY ONLY <1>a, <1>1, <1>3, Extension
  <1>n. n \in Nat
    BY ONLY <1>4
  <1>6. \A r \in Replicas : /\ reps[r].currentTerm \in Nat
                            /\ reps[r].online \in BOOLEAN
                            /\ reps[r].commitIndex \in Nat
    BY ONLY <1>3 DEF Replica
  <1>7. \A r \in Replicas : /\ reps[r].commitIndex <= n
                            /\ \A i \in 1 .. reps[r].commitIndex :
                                  A[i].term <= reps[r].currentTerm
    BY ONLY <1>a, <1>f DEF Consistent
  <1>8. /\ reps[l].online
        /\ \A r \in Replicas : /\ reps[r].currentTerm <= reps[l].currentTerm
                               /\ reps[r].role = "Leader" <=> r = l
    BY ONLY <1>f, NoReplicaAssumption DEF Leads, LeadsExcept
  <1>9. /\ Settled(top, B, n + 1)
        /\ top.online /\ top.role = "Leader"
        /\ top.currentTerm = reps[l].currentTerm
    <2>1. /\ Settled(top, B, n + 1) /\ top.online
          /\ top.role = leader.role /\ top.currentTerm = leader.currentTerm
      BY ONLY <1>b, <1>1, <1>4, CommitStep
    <2> QED BY ONLY <1>1, <2>1
  <1>10. ASSUME NEW r \in Replicas, reps[r].online, r # l
         PROVE  /\ Settled(done(r), B, n + 1)
                /\ done(r).online /\ done(r).role = "Follower"
                /\ done(r).currentTerm = reps[l].currentTerm
    <2> DEFINE f == sent(r)
               g == done(r)
               m == n + 1
               t == PrevTerm(B, m)
               term == f.currentTerm
               none == EmptyLog
    <2>1. Pending(f, B, n) /\ f.online /\ term = leader.currentTerm
      BY ONLY <1>2, <1>10, Zenon
    <2>2. leader.log[n + 1].term = t
      <3>1. m # 0
        BY ONLY <1>n
      <3> QED BY ONLY <1>1, <1>5, <3>1 DEF PrevTerm
    <2>3. g = append_entries(f, term, l, m, t, none, m)
      BY ONLY <1>d, <2>1, <2>2, Zenon
    <2>4. /\ none = EmptyLog /\ m = n + 1 /\ t = PrevTerm(B, m) /\ term = f.currentTerm
      OBVIOUS
    <2> HIDE DEF f, g, m, t, term, none
    <2>5. term \in Nat /\ m \in Nat
      BY ONLY <1>4, <2>1, <2>4, SMTT(20) DEF Pending, Replica
    <2>6. /\ Settled(g, B, m)
          /\ g.online /\ g.role = "Follower" /\ g.currentTerm = term
      BY ONLY <1>f, <1>4, <2>1, <2>3, <2>4, <2>5, HeartbeatStep
    <2> QED BY ONLY <1>1, <2>1, <2>4, <2>6 DEF g
  <1>11. /\ next[l] = top
         /\ \A r \in Replicas : /\ reps[r].online /\ r # l => next[r] = done(r)
                                /\ ~reps[r].online => next[r] = reps[r]
    <2>1. next[l] = top
      BY ONLY <1>b, <1>f, <1>g DEF Committed
    <2>2. ASSUME NEW r \in Replicas, reps[r].online, r # l
          PROVE  next[r] = done(r)
      BY ONLY <1>c, <1>d, <1>g, <2>2, r \in Replicas DEF Committed, Online
    <2>3. ASSUME NEW r \in Replicas, ~reps[r].online
          PROVE  next[r] = reps[r]
      BY ONLY <1>c, <1>g, <1>2, <1>8, <2>3, r \in Replicas, SMTT(20)
         DEF Committed, Online
    <2> QED BY ONLY <2>1, <2>2, <2>3
  <1>12. ASSUME NEW r \in Replicas
         PROVE  /\ reps[r].online => /\ Settled(next[r], B, n + 1)
                                     /\ next[r].currentTerm = reps[l].currentTerm
                /\ ~reps[r].online => next[r] = reps[r]
                /\ next[r].online = reps[r].online
                /\ next[r].role = "Leader" <=> r = l
    <2>0. r \in Replicas
      OBVIOUS
    <2>1. CASE r = l
      <3>1. top.online \in BOOLEAN
        BY ONLY <1>9 DEF Settled, Replica
      <3> QED BY ONLY <1>6, <1>8, <1>9, <1>11, <2>0, <2>1, <3>1, Zenon
    <2>2. CASE reps[r].online /\ r # l
      <3> DEFINE g == done(r)
      <3>1. /\ Settled(g, B, n + 1) /\ g.online /\ g.role = "Follower"
            /\ g.currentTerm = reps[l].currentTerm /\ next[r] = g
        BY ONLY <1>10, <1>11, <2>0, <2>2
      <3> HIDE DEF g
      <3>2. g.online \in BOOLEAN
        BY ONLY <3>1 DEF Settled, Replica
      <3> QED BY ONLY <1>6, <1>8, <2>0, <2>2, <3>1, <3>2, Zenon
    <2>3. CASE ~reps[r].online
      <3>1. next[r] = reps[r] /\ r # l
        BY ONLY <1>8, <1>11, <2>0, <2>3
      <3>2. reps[r].role = "Leader" <=> r = l
        BY ONLY <1>8, <2>0
      <3> QED BY ONLY <2>3, <3>1, <3>2
    <2> QED BY ONLY <1>6, <2>0, <2>1, <2>2, <2>3
  <1>13. ASSUME NEW r \in Replicas
         PROVE  /\ next[r] \in Replica
                /\ next[r].commitIndex = IF reps[r].online THEN n + 1
                                         ELSE reps[r].commitIndex
                /\ Settled(next[r], B, next[r].commitIndex)
    <2>0. r \in Replicas
      OBVIOUS
    <2>1. CASE reps[r].online
      <3>1. Settled(next[r], B, n + 1)
        BY ONLY <1>12, <2>0, <2>1
      <3>2. next[r] \in Replica /\ next[r].commitIndex = n + 1
        BY ONLY <3>1 DEF Settled
      <3> QED BY ONLY <2>1, <3>1, <3>2
    <2>2. CASE ~reps[r].online
      BY ONLY <1>1, <1>3, <1>12, <2>0, <2>2, SMTT(20)
    <2> QED BY ONLY <2>1, <2>2
  <1>14. next \in [Replicas -> Replica]
    BY ONLY <1>g, <1>13 DEF Committed
  <1>15. \A i \in 1 .. n + 1 : B[i].term \in Nat /\ B[i].term <= reps[l].currentTerm
    <2>1. reps[l].currentTerm \in Nat
      BY ONLY <1>f, <1>6
    <2>2. \A i \in 1 .. n : A[i].term <= reps[l].currentTerm
      BY ONLY <1>a, <1>f, <1>8, <2>1, TermBound, SMTT(20)
    <2>3. \A i \in 1 .. n + 1 : B[i].term \in Nat
      BY ONLY <1>5 DEF Entry
    <2> QED BY ONLY <1>1, <1>5, <2>1, <2>2, <2>3
  <1>16. Consistent(next, B)
    <2>1. ASSUME NEW r \in Replicas
          PROVE  /\ next[r].commitIndex <= n + 1
                 /\ \A i \in 1 .. next[r].commitIndex :
                       B[i].term <= next[r].currentTerm
      <3>0. r \in Replicas
        OBVIOUS
      <3>1. CASE reps[r].online
        BY ONLY <1>n, <1>12, <1>13, <1>15, <3>0, <3>1, SMTT(20)
      <3>2. CASE ~reps[r].online
        <4>1. \A i \in 1 .. reps[r].commitIndex : i \in 1 .. n
          BY ONLY <1>n, <1>6, <1>7, <3>0
        <4> QED BY ONLY <1>n, <1>5, <1>6, <1>7, <1>12, <3>0, <3>2, <4>1
      <3> QED BY ONLY <3>1, <3>2
    <2>2. \A i, j \in 1 .. n + 1 : i <= j => B[i].term <= B[j].term
      <3>1. \A i, j \in 1 .. n : i <= j => A[i].term <= A[j].term
        BY ONLY <1>a, <1>f DEF Consistent
      <3>2. B[n + 1].term = reps[l].currentTerm
        BY ONLY <1>1, <1>5
      <3> QED BY ONLY <1>n, <1>5, <1>15, <3>1, <3>2, SMTT(20)
    <2>3. 2 * Cardinality(Level(next, B)) > N
      <3>1. Online(reps) \in SUBSET Replicas /\ Level(next, B) \in SUBSET Replicas
        BY ONLY DEF Online, Level
      <3>2. Online(reps) \subseteq Level(next, B)
        BY ONLY <1>4, <1>13 DEF Online, Level
      <3>3. 2 * Cardinality(Online(reps)) > N
        OBVIOUS
      <3> QED BY ONLY <3>1, <3>2, <3>3, MajorityGrows
    <2> QED BY ONLY <1>4, <1>13, <1>14, <2>1, <2>2, <2>3, SMTT(20) DEF Consistent
  <1>17. Leads(next, l, B)
    <2>1. \A r \in Replicas : next[r].currentTerm <= next[l].currentTerm
      BY ONLY <1>f, <1>6, <1>8, <1>12
    <2>2. \A r \in Replicas : next[r].online => next[r].commitIndex = n + 1
      BY ONLY <1>12, <1>13
    <2>3. next[l].online /\ next[l].commitIndex = n + 1
      BY ONLY <1>f, <1>8, <1>12, <1>13
    <2>4. \A r \in Replicas : next[r].role = "Leader" <=> r = l
      BY ONLY <1>12
    <2> QED BY ONLY <1>f, <1>4, <2>1, <2>2, <2>3, <2>4, SMTT(20)
               DEF Leads, LeadsExcept
  <1>18. SameOnline(reps, next)
    BY ONLY <1>12 DEF SameOnline
  <1>19. Forward(reps, next)
    <2>1. ASSUME NEW r \in Replicas
          PROVE  /\ reps[r].currentTerm <= next[r].currentTerm
                 /\ reps[r].commitIndex <= next[r].commitIndex
      BY ONLY <1>n, <1>f, <1>6, <1>7, <1>8, <1>12, <1>13, r \in Replicas
    <2> QED BY ONLY <2>1 DEF Forward
  <1> QED
    BY ONLY <1>16, <1>17, <1>18, <1>19
=============================================================================
