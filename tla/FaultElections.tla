--------------------------- MODULE FaultElections ---------------------------
(***************************************************************************)
(* ensure_leader_locked, cut short at any statement.                       *)
(*                                                                         *)
(* The candidate is the online replica with the largest commit index, and  *)
(* the votes go by the end of the log.  Fit relates the two: whoever has   *)
(* not committed all of C does not beat those who have, so that the        *)
(* candidate has committed C and everybody online votes for it.  Its new   *)
(* term, above all terms in memory, is above the last leader's, which is   *)
(* on some disk.                                                           *)
(*                                                                         *)
(* LeaderTermsGrow: a leader's term is above those of all leaders before   *)
(* it.  Terms is inductive for all operations, also when statements fail.  *)
(***************************************************************************)
EXTENDS FaultSteps

\* The steps are first-order reasoning unless they say otherwise.
USE Zenon

(* An election, step by step.                                              *)

\* Among some of the replicas one has the largest value of f.
LEMMA LargestOf ==
    ASSUME NEW O \in SUBSET Replicas, O # {}, NEW f,
           \A r \in Replicas : f[r] \in Nat
    PROVE  \E m \in O : \A r \in O : f[r] <= f[m]
  <1> DEFINE S == {f[r] : r \in O}
             g == [r \in O |-> f[r]]
  <1>1. IsFiniteSet(O)
    BY ReplicasFinite
  <1>2. g \in Surjection(O, S)
    BY DEF Surjection
  <1>3. IsFiniteSet(S)
    <2> HIDE DEF g, S
    <2> QED  BY <1>1, <1>2, FS_Surjection
  <1>4. S \in SUBSET Int /\ S # {}
    BY SMT
  <1>5. Max(S) \in S /\ \A y \in S : Max(S) >= y
    <2> HIDE DEF S
    <2> QED  BY <1>3, <1>4, MaxExists
  <1>6. PICK m \in O : Max(S) = f[m]
    BY <1>5
  <1>7. \A r \in O : f[m] >= f[r]
    BY <1>5, <1>6
  <1> QED  BY <1>7

\* max_element finds an online replica that is behind no other.
LEMMA CandidateFound ==
    ASSUME NEW reps, Reps(reps), Online(reps) # {}
    PROVE  /\ Candidate(reps) \in Online(reps)
           /\ \A r \in Online(reps) : ~Behind(reps[Candidate(reps)], reps[r])
  <1> DEFINE f == [r \in Replicas |-> reps[r].commitIndex]
             g == [r \in Replicas |-> last_log_term(reps[r].log)]
             h == [r \in Replicas |-> last_log_index(reps[r].log)]
             First(c) == \A r \in Online(reps) :
                            IF r < c THEN Behind(reps[r], reps[c])
                                     ELSE ~Behind(reps[c], reps[r])
  <1>1. \A r \in Replicas : f[r] \in Nat /\ g[r] \in Nat /\ h[r] \in Nat
    <2> SUFFICES ASSUME NEW r \in Replicas
                 PROVE  /\ reps[r].commitIndex \in Nat
                        /\ last_log_term(reps[r].log) \in Nat
                        /\ last_log_index(reps[r].log) \in Nat
      OBVIOUS
    <2>1. reps[r].commitIndex \in Nat /\ reps[r].log \in Seq(Entry)
      BY DEF Reps, Rep
    <2> QED  BY <2>1, LogEnd, SMT
  <1>2. \A r, s \in Replicas :
           Behind(reps[r], reps[s]) <=>
              \/ f[r] < f[s]
              \/ f[r] = f[s] /\ (g[r] < g[s] \/ (g[r] = g[s] /\ h[r] < h[s]))
    BY DEF Behind
  <1> HIDE DEF f, g, h
  <1> DEFINE O1 == {r \in Online(reps) : \A s \in Online(reps) : f[s] <= f[r]}
             O2 == {r \in O1 : \A s \in O1 : g[s] <= g[r]}
             O3 == {r \in O2 : \A s \in O2 : h[s] <= h[r]}
  <1>3. Online(reps) \in SUBSET Replicas
    BY DEF Online
  <1>4. O1 # {} /\ O1 \in SUBSET Replicas
    BY <1>1, <1>3, LargestOf
  <1>5. O2 # {} /\ O2 \in SUBSET Replicas
    <2> HIDE DEF O1
    <2> QED  BY <1>1, <1>4, LargestOf
  <1>6. O3 # {} /\ O3 \in SUBSET Replicas
    <2> HIDE DEF O2
    <2> QED  BY <1>1, <1>5, LargestOf
  <1>7. PICK c \in O3 : \A r \in O3 : c <= r
    <2> HIDE DEF O3
    <2>1. O3 \in SUBSET Nat
      BY <1>6, ReplicasFinite
    <2> QED  BY <1>6, <2>1, MinExists
  <1>8. c \in Online(reps) /\ First(c)
    <2>1. c \in Online(reps)
      BY <1>7
    <2> SUFFICES ASSUME NEW r \in Online(reps)
                 PROVE  IF r < c THEN Behind(reps[r], reps[c])
                                 ELSE ~Behind(reps[c], reps[r])
      BY <2>1
    <2>2. c \in Replicas /\ r \in Replicas /\ c \in Nat /\ r \in Nat
      BY <1>3, <2>1, ReplicasFinite
    <2>3. f[r] <= f[c] /\ (f[r] = f[c] => r \in O1)
      BY <1>1, <1>3, <1>7, <2>2
    <2>4. r \in O1 => g[r] <= g[c] /\ (g[r] = g[c] => r \in O2)
      BY <1>7
    <2>5. r \in O2 => h[r] <= h[c] /\ (h[r] = h[c] => r \in O3)
      BY <1>7
    <2>6. r \in O3 => c <= r
      BY <1>7
    <2> HIDE DEF O1, O2, O3
    <2>7. /\ f[r] \in Nat /\ f[c] \in Nat /\ g[r] \in Nat /\ g[c] \in Nat
          /\ h[r] \in Nat /\ h[c] \in Nat
      BY <1>1, <2>2
    <2> QED  BY <1>2, <2>2, <2>3, <2>4, <2>5, <2>6, <2>7, SMT
  <1>9. Candidate(reps) \in Online(reps) /\ First(Candidate(reps))
    BY <1>8 DEF Candidate
  <1>10. ASSUME NEW r \in Online(reps)
         PROVE  ~Behind(reps[Candidate(reps)], reps[r])
    <2> DEFINE d == Candidate(reps)
    <2>1. d \in Replicas /\ r \in Replicas
      BY <1>3, <1>9
    <2>2. IF r < d THEN Behind(reps[r], reps[d]) ELSE ~Behind(reps[d], reps[r])
      BY <1>9, <1>10
    <2> HIDE DEF d
    <2>3. /\ f[r] \in Nat /\ f[d] \in Nat /\ g[r] \in Nat /\ g[d] \in Nat
          /\ h[r] \in Nat /\ h[d] \in Nat
      BY <1>1, <2>1
    <2>4. ~Behind(reps[d], reps[r])
      BY <1>2, <2>1, <2>2, <2>3, SMT
    <2> QED  BY <2>4 DEF d
  <1> QED  BY <1>9, <1>10

\* p is r, or r on its way to an answer in the election of term.
Asked(p, r, term) ==
    /\ Shape(p) /\ p.online = r.online
    /\ p.log = r.log /\ p.commitIndex = r.commitIndex
    /\ p.meta.commitIndex \in {r.meta.commitIndex, r.commitIndex}
    /\ \/ /\ p.currentTerm = r.currentTerm
          /\ p.meta.currentTerm = r.meta.currentTerm
       \/ /\ p.currentTerm = term
          /\ p.meta.currentTerm \in {r.meta.currentTerm, term}

\* p is r once it was asked for its vote, if it could be.
Answered(p, r, term) ==
    /\ Shape(p) /\ p.online = r.online
    /\ p.log = r.log /\ p.commitIndex = r.commitIndex
    /\ r.online = TRUE => /\ p.currentTerm = term
                          /\ p.meta.currentTerm = term
                          /\ p.meta.commitIndex = r.commitIndex
    /\ r.online = FALSE => p.currentTerm = r.currentTerm /\ p.meta = r.meta

\* p has installed the snapshot in the given term.
Synced(p, term, snapshot) ==
    /\ Shape(p) /\ p.online = TRUE
    /\ p.currentTerm = term
    /\ p.log = snapshot.log
    /\ p.commitIndex = Smaller(snapshot.commitIndex, last_log_index(snapshot.log))
    /\ p.meta.currentTerm = p.currentTerm
    /\ p.meta.commitIndex = p.commitIndex

\* What the winner c sends to its followers.
Snap(reps, c, term) ==
    [term |-> term, commitIndex |-> reps[c].commitIndex,
     log |-> truncate_log_from(reps[c].log, reps[c].commitIndex + 1)]

\* The snapshot is that of any record with the winner's log.
LEMMA SnapOf ==
    ASSUME NEW reps, NEW c, NEW term, NEW w, w.currentTerm = term,
           w.log = reps[c].log, w.commitIndex = reps[c].commitIndex
    PROVE  export_snapshot(w) = Snap(reps, c, term)
  BY DEF export_snapshot, Snap

\* Its fields, and their types.
LEMMA SnapFields ==
    ASSUME NEW reps, Reps(reps), NEW c \in Replicas, NEW term \in Nat
    PROVE  /\ Snap(reps, c, term).term = term
           /\ Snap(reps, c, term).term \in Nat
           /\ Snap(reps, c, term).commitIndex = reps[c].commitIndex
           /\ Snap(reps, c, term).commitIndex \in Nat
           /\ Snap(reps, c, term).log
                 = truncate_log_from(reps[c].log, reps[c].commitIndex + 1)
           /\ Snap(reps, c, term).log \in Seq(Entry)
           /\ Smaller(Snap(reps, c, term).commitIndex,
                      last_log_index(Snap(reps, c, term).log)) \in Nat
  <1>1. reps[c].commitIndex \in Nat /\ reps[c].log \in Seq(Entry)
    BY DEF Reps, Rep
  <1>2. truncate_log_from(reps[c].log, reps[c].commitIndex + 1) \in Seq(Entry)
    BY <1>1, TruncatedLog
  <1>3. last_log_index(truncate_log_from(reps[c].log, reps[c].commitIndex + 1)) \in Nat
    BY <1>2, LogEnd, SMT
  <1>4. /\ Snap(reps, c, term).term = term
        /\ Snap(reps, c, term).commitIndex = reps[c].commitIndex
        /\ Snap(reps, c, term).log
              = truncate_log_from(reps[c].log, reps[c].commitIndex + 1)
    BY DEF Snap
  <1>5. \A a, b \in Nat : Smaller(a, b) \in Nat
    BY DEF Smaller
  <1> QED  BY <1>1, <1>2, <1>3, <1>4, <1>5

\* The terms are below term.
Below(reps, term) == \A r \in Replicas : reps[r].currentTerm < term

\* A replica that was asked, before persist_state.
LEMMA AskedFields ==
    ASSUME NEW reps, Reps(reps), NEW c \in Replicas, NEW term \in Nat,
           Below(reps, term),
           NEW r \in Replicas
    PROVE  LET a == AfterVote(reps, r, c, term)
           IN  /\ Shape(a) /\ a.online = reps[r].online /\ a.meta = reps[r].meta
               /\ a.log = reps[r].log /\ a.commitIndex = reps[r].commitIndex
               /\ reps[r].online = TRUE => a.currentTerm = term
               /\ reps[r].online = FALSE => a.currentTerm = reps[r].currentTerm
  <1> DEFINE a == AfterVote(reps, r, c, term)
             f == IF r = c THEN set_role(reps[c], "Candidate") ELSE reps[r]
  <1>1. Rep(reps[r])
    BY DEF Reps
  <1>2. Same(f, reps[r]) /\ f.meta = reps[r].meta
    <2>1. CASE r = c
      BY <1>1, <2>1, RoleFields DEF Rep
    <2>2. CASE r # c
      BY <1>1, <2>2 DEF Rep, Same
    <2> QED  BY <2>1, <2>2
  <1>3. a = request_vote(f, term, c, last_log_index(reps[c].log),
                         last_log_term(reps[c].log))
    BY DEF AfterVote
  <1> HIDE DEF f, a
  <1>4. Rep(f)
    BY <1>1, <1>2 DEF Same, Rep
  <1>5. term > f.currentTerm
    <2>1. reps[r].currentTerm \in Nat
      BY <1>1 DEF Rep
    <2> QED  BY <1>2, <2>1 DEF Same, Below
  <1>6. /\ Shape(a) /\ a.online = f.online /\ a.meta = f.meta
        /\ a.currentTerm = IF f.online THEN term ELSE f.currentTerm
        /\ a.commitIndex = f.commitIndex /\ a.log = f.log
    BY <1>3, <1>4, <1>5, VoteFields, SMT
  <1>7. /\ Shape(a) /\ a.online = reps[r].online /\ a.meta = reps[r].meta
        /\ a.log = reps[r].log /\ a.commitIndex = reps[r].commitIndex
        /\ reps[r].online = TRUE => a.currentTerm = term
        /\ reps[r].online = FALSE => a.currentTerm = reps[r].currentTerm
    BY <1>2, <1>6 DEF Same
  <1> QED  BY <1>7 DEF a

\* What persist_state makes of it.
LEMMA AnsweredFields ==
    ASSUME NEW r, Rep(r), NEW term \in Nat,
           NEW a, Shape(a), a.online = r.online, a.meta = r.meta,
           a.log = r.log, a.commitIndex = r.commitIndex,
           r.online = TRUE => a.currentTerm = term,
           r.online = FALSE => a.currentTerm = r.currentTerm,
           NEW p, r.online = TRUE => p = persist_state(a),
           r.online = FALSE => p = a
    PROVE  Answered(p, r, term)
  <1>1. CASE r.online = TRUE
    <2>1. /\ Same(p, a) /\ p.meta.currentTerm = a.currentTerm
          /\ p.meta.commitIndex = a.commitIndex
      BY <1>1, PersistStep
    <2> QED  BY <1>1, <2>1 DEF Answered, Same
  <1>2. CASE r.online = FALSE
    BY <1>2 DEF Answered
  <1> QED  BY <1>1, <1>2 DEF Rep

\* The replicas after an election of term, lost or won by c.
Lost(next, reps, term) ==
    /\ next = [r \in Replicas |-> next[r]]
    /\ \A r \in Replicas : Answered(next[r], reps[r], term)

Won(next, reps, c, term) ==
    /\ next = [r \in Replicas |-> next[r]]
    /\ \A r \in Replicas :
          \/ (r = c \/ reps[r].online = FALSE) /\ Answered(next[r], reps[r], term)
          \/ /\ r # c /\ reps[r].online = TRUE
             /\ Synced(next[r], term, Snap(reps, c, term))

\* An election is lost or won, and leaves these replicas.
LEMMA LostStep ==
    ASSUME NEW reps, Reps(reps), NEW c \in Replicas, NEW term \in Nat,
           Below(reps, term),
           NEW next, next = PersistedOn(Defeated(reps, c, term),
                                        Online(Defeated(reps, c, term)))
    PROVE  Lost(next, reps, term)
  <1> DEFINE D == Defeated(reps, c, term)
  <1>1. ASSUME NEW r \in Replicas
        PROVE  /\ Shape(D[r]) /\ D[r].online = reps[r].online
               /\ D[r].meta = reps[r].meta
               /\ D[r].log = reps[r].log /\ D[r].commitIndex = reps[r].commitIndex
               /\ reps[r].online = TRUE => D[r].currentTerm = term
               /\ reps[r].online = FALSE => D[r].currentTerm = reps[r].currentTerm
    <2> DEFINE a == AfterVote(reps, r, c, term)
    <2>2. /\ Shape(a) /\ a.online = reps[r].online /\ a.meta = reps[r].meta
          /\ a.log = reps[r].log /\ a.commitIndex = reps[r].commitIndex
          /\ reps[r].online = TRUE => a.currentTerm = term
          /\ reps[r].online = FALSE => a.currentTerm = reps[r].currentTerm
      BY AskedFields, ZenonT(40)
    <2> HIDE DEF a
    <2>3. D[r] = a \/ D[r] = set_role(a, "Follower")
      BY DEF Defeated, a
    <2> HIDE DEF D
    <2>4. CASE D[r] = a
      BY <2>2, <2>4
    <2>5. CASE D[r] = set_role(a, "Follower")
      <3>1. Same(D[r], a) /\ D[r].meta = a.meta
        BY <2>2, <2>5, RoleFields, SMT
      <3> QED  BY <2>2, <3>1 DEF Same
    <2> QED  BY <2>3, <2>4, <2>5
  <1> HIDE DEF D
  <1>2. next = [r \in Replicas |-> IF r \in Online(D) THEN persist_state(D[r]) ELSE D[r]]
    BY DEF PersistedOn, D
  <1>3. next = [r \in Replicas |-> next[r]]
    BY <1>2
  <1>4. ASSUME NEW r \in Replicas
        PROVE  Answered(next[r], reps[r], term)
    <2>1. Rep(reps[r]) /\ reps[r].online \in BOOLEAN
      BY DEF Reps, Rep
    <2>2. r \in Online(D) <=> reps[r].online = TRUE
      BY <1>1, <2>1 DEF Online
    <2>3. /\ reps[r].online = TRUE => next[r] = persist_state(D[r])
          /\ reps[r].online = FALSE => next[r] = D[r]
      BY <1>2, <2>2
    <2> QED  BY <1>1, <2>1, <2>3, AnsweredFields
  <1> QED  BY <1>3, <1>4 DEF Lost

LEMMA WonStep ==
    ASSUME NEW reps, Reps(reps), NEW c \in Replicas, c \in Online(reps),
           NEW term \in Nat,
           Below(reps, term),
           NEW next, next = PersistedOn(Crowned(reps, c, term),
                                        Online(Crowned(reps, c, term)))
    PROVE  Won(next, reps, c, term)
  <1> DEFINE D == Crowned(reps, c, term)
             winner == set_role(AfterVote(reps, c, c, term), "Leader")
             S == Snap(reps, c, term)
  <1>0. \A r \in Replicas :
           LET a == AfterVote(reps, r, c, term)
           IN  /\ Shape(a) /\ a.online = reps[r].online /\ a.meta = reps[r].meta
               /\ a.log = reps[r].log /\ a.commitIndex = reps[r].commitIndex
               /\ reps[r].online = TRUE => a.currentTerm = term
               /\ reps[r].online = FALSE => a.currentTerm = reps[r].currentTerm
    BY AskedFields, ZenonT(40)
  <1>1. /\ Shape(winner) /\ winner.online = reps[c].online
        /\ winner.meta = reps[c].meta /\ winner.log = reps[c].log
        /\ winner.commitIndex = reps[c].commitIndex /\ winner.currentTerm = term
    <2> DEFINE a == AfterVote(reps, c, c, term)
    <2>2. /\ Shape(a) /\ a.online = reps[c].online /\ a.meta = reps[c].meta
          /\ a.log = reps[c].log /\ a.commitIndex = reps[c].commitIndex
          /\ reps[c].online = TRUE => a.currentTerm = term
      BY <1>0
    <2> HIDE DEF a
    <2>3. Same(winner, a) /\ winner.meta = a.meta
      BY <2>2, RoleFields DEF a
    <2> HIDE DEF winner
    <2> QED  BY <2>2, <2>3 DEF Same, Online
  <1>2. D[c] = winner
    BY DEF Crowned
  <1>3. \A r \in Replicas \ {c} :
           D[r] = sync_follower(set_role(AfterVote(reps, r, c, term), "Follower"), winner)
    BY DEF Crowned
  <1> HIDE DEF D, winner
  <1>4. export_snapshot(winner) = S /\ S.term = term
    <2>1. export_snapshot(winner) = Snap(reps, c, term)
      BY <1>1, SnapOf
    <2> QED  BY <2>1, SnapFields
  <1> HIDE DEF S
  <1>5. ASSUME NEW r \in Replicas, r # c
        PROVE  /\ reps[r].online = TRUE =>
                     /\ Shape(D[r]) /\ D[r].online = TRUE
                     /\ D[r].currentTerm = term /\ D[r].log = S.log
                     /\ D[r].commitIndex = Smaller(S.commitIndex, last_log_index(S.log))
               /\ reps[r].online = FALSE =>
                     /\ Shape(D[r]) /\ D[r].online = FALSE
                     /\ D[r].meta = reps[r].meta /\ D[r].log = reps[r].log
                     /\ D[r].commitIndex = reps[r].commitIndex
                     /\ D[r].currentTerm = reps[r].currentTerm
    <2> DEFINE a == AfterVote(reps, r, c, term)
    <2>2. /\ Shape(a) /\ a.online = reps[r].online /\ a.meta = reps[r].meta
          /\ a.log = reps[r].log /\ a.commitIndex = reps[r].commitIndex
          /\ reps[r].online = TRUE => a.currentTerm = term
          /\ reps[r].online = FALSE => a.currentTerm = reps[r].currentTerm
      BY <1>0
    <2> HIDE DEF a
    <2>3. PICK q : q = set_role(a, "Follower")
      OBVIOUS
    <2>4. Same(q, a) /\ q.meta = a.meta
      BY <2>2, <2>3, RoleFields
    <2>5. D[r] = install_snapshot(q, S)
      BY <1>3, <1>4, <1>5, <2>3 DEF sync_follower, a
    <2>6. CASE reps[r].online = TRUE
      <3>1. Shape(q) /\ q.online = TRUE /\ q.currentTerm = term
        BY <2>2, <2>4, <2>6 DEF Same
      <3>2. /\ Shape(D[r]) /\ D[r].online = q.online
            /\ D[r].currentTerm = Larger(q.currentTerm, S.term)
            /\ D[r].commitIndex = Smaller(S.commitIndex, last_log_index(S.log))
            /\ D[r].log = S.log
        <4> DEFINE g == install_snapshot(q, S)
        <4>1. /\ Shape(g) /\ g.online = q.online
              /\ g.currentTerm = Larger(q.currentTerm, S.term)
              /\ g.commitIndex = Smaller(S.commitIndex, last_log_index(S.log))
              /\ g.log = S.log
          BY <3>1, InstallFields
        <4> HIDE DEF g
        <4> QED  BY <2>5, <4>1 DEF g
      <3>3. Larger(q.currentTerm, S.term) = term
        BY <1>4, <3>1 DEF Larger
      <3> QED  BY <2>6, <3>1, <3>2, <3>3
    <2>7. CASE reps[r].online = FALSE
      <3>1. q.online = FALSE
        BY <2>2, <2>4, <2>7 DEF Same
      <3>2. D[r] = q
        BY <2>5, <3>1, InstallOffline
      <3> QED  BY <2>2, <2>4, <2>7, <3>1, <3>2 DEF Same
    <2>8. reps[r].online \in BOOLEAN
      BY DEF Reps, Rep
    <2> QED  BY <2>6, <2>7, <2>8
  <1>6. next = [r \in Replicas |-> IF r \in Online(D) THEN persist_state(D[r]) ELSE D[r]]
    BY DEF PersistedOn, D
  <1>7. next = [r \in Replicas |-> next[r]]
    BY <1>6
  <1>8. \A r \in Replicas : reps[r].online \in BOOLEAN /\ D[r].online = reps[r].online
    BY <1>1, <1>2, <1>5 DEF Reps, Rep
  <1>9. \A r \in Replicas : /\ reps[r].online = TRUE => next[r] = persist_state(D[r])
                            /\ reps[r].online = FALSE => next[r] = D[r]
    BY <1>6, <1>8 DEF Online
  <1>10. Answered(next[c], reps[c], term)
    <2>1. next[c] = persist_state(winner) /\ Rep(reps[c])
      BY <1>2, <1>9 DEF Reps, Online
    <2>2. /\ reps[c].online = TRUE => next[c] = persist_state(winner)
          /\ reps[c].online = FALSE => next[c] = winner
          /\ reps[c].online = TRUE => winner.currentTerm = term
          /\ reps[c].online = FALSE => winner.currentTerm = reps[c].currentTerm
      BY <1>1, <2>1 DEF Online
    <2> QED  BY <1>1, <2>1, <2>2, AnsweredFields
  <1>11. ASSUME NEW r \in Replicas, r # c, reps[r].online = FALSE
         PROVE  Answered(next[r], reps[r], term)
    <2>1. next[r] = D[r] /\ Rep(reps[r])
      BY <1>9, <1>11 DEF Reps
    <2> QED  BY <1>5, <1>11, <2>1, AnsweredFields
  <1>12. ASSUME NEW r \in Replicas, r # c, reps[r].online = TRUE
         PROVE  Synced(next[r], term, S)
    <2>1. next[r] = persist_state(D[r])
      BY <1>9, <1>12
    <2>2. /\ Shape(D[r]) /\ D[r].online = TRUE
          /\ D[r].currentTerm = term /\ D[r].log = S.log
          /\ D[r].commitIndex = Smaller(S.commitIndex, last_log_index(S.log))
      BY <1>5, <1>12
    <2>3. /\ Same(next[r], D[r]) /\ next[r].meta.currentTerm = D[r].currentTerm
          /\ next[r].meta.commitIndex = D[r].commitIndex
      BY <2>1, <2>2, PersistStep
    <2> QED  BY <2>2, <2>3 DEF Synced, Same
  <1> QED  BY <1>7, <1>8, <1>10, <1>11, <1>12 DEF Won, S

\* The candidate and its term.
LEMMA ElectionTerm ==
    ASSUME NEW reps, Reps(reps)
    PROVE  NextTerm(reps) \in Nat /\ Below(reps, NextTerm(reps))
  <1>1. \A r \in Replicas : reps[r].currentTerm \in Nat
    BY DEF Reps, Rep
  <1> QED  BY <1>1, NextTermGrows DEF Below

LEMMA ElectionCandidate ==
    ASSUME NEW sh, Reps(sh.replicas), HoldsElection(sh)
    PROVE  /\ Candidate(sh.replicas) \in Online(sh.replicas)
           /\ Candidate(sh.replicas) \in Replicas
           /\ \A r \in Online(sh.replicas) :
                 ~Behind(sh.replicas[Candidate(sh.replicas)], sh.replicas[r])
  <1>1. Online(sh.replicas) # {}
    <2>1. Cardinality(Online(sh.replicas)) >= Quorum /\ Quorum \in Nat
      BY QuorumFacts DEF HoldsElection
    <2>2. Quorum > 0
      BY NAssumption, SMT DEF Quorum
    <2> QED  BY <2>1, <2>2, FS_EmptySet, SMT
  <1> QED  BY <1>1, CandidateFound DEF Online

\* ensure_leader_locked holds no election when there is a leader or too few
\* replicas are online.
LEMMA NoElection ==
    ASSUME NEW reps, NEW l, NEW sh, sh = [replicas |-> reps, leader |-> l],
           ~HoldsElection(sh)
    PROVE  /\ Electing(sh) = {}
           /\ WithLeader(sh).replicas = reps
           /\ HasLeader(sh) => WithLeader(sh) = sh
           /\ ~HasLeader(sh) => WithLeader(sh) = [replicas |-> reps, leader |-> NoReplica]
  <1>1. Electing(sh) = {}
    BY DEF Electing
  <1>2. WithLeader(sh) = EnsureLeader(sh)
    BY DEF WithLeader
  <1>3. CASE HasLeader(sh)
    BY <1>1, <1>2, <1>3, SMT DEF EnsureLeader
  <1>4. CASE ~HasLeader(sh)
    <2>1. Cardinality(Online(reps)) \in Nat /\ Quorum \in Nat
      BY ReplicasFinite, QuorumFacts DEF Online
    <2>2. Cardinality(Online(sh.replicas)) < Quorum
      BY <1>4, <2>1, SMT DEF HoldsElection
    <2>3. EnsureLeader(sh) = [sh EXCEPT !.leader = NoReplica]
      BY <1>4, <2>2 DEF EnsureLeader
    <2>4. EnsureLeader(sh) = [replicas |-> reps, leader |-> NoReplica]
      BY <2>3
    <2> QED  BY <1>1, <1>2, <1>4, <2>4, SMT
  <1> QED  BY <1>3, <1>4

\* An election, when no statement fails.
LEMMA ElectionDone ==
    ASSUME NEW reps, Reps(reps), NEW l, NEW sh, sh = [replicas |-> reps, leader |-> l],
           HoldsElection(sh)
    PROVE  LET c == Candidate(reps)
               term == NextTerm(reps)
               done == WithLeader(sh)
           IN  /\ IsShard(done)
               /\ \/ /\ Cardinality(Voters(reps, c, term)) < Quorum
                     /\ done.leader = NoReplica
                     /\ Lost(done.replicas, reps, term)
                  \/ /\ ~(Cardinality(Voters(reps, c, term)) < Quorum)
                     /\ done.leader = c
                     /\ Won(done.replicas, reps, c, term)
  <1> DEFINE c == Candidate(reps)
             term == NextTerm(reps)
             done == WithLeader(sh)
             D == Defeated(reps, c, term)
             C == Crowned(reps, c, term)
  <1>1. sh.replicas = reps
    OBVIOUS
  <1>2. term \in Nat /\ Below(reps, term)
    BY ElectionTerm
  <1>3. c \in Replicas /\ c \in Online(reps)
    BY <1>1, ElectionCandidate
  <1>4. EnsureLeader(sh) = Elect(reps)
    <2>1. ~HasLeader(sh) /\ Cardinality(Online(reps)) >= Quorum
      BY <1>1 DEF HoldsElection
    <2>2. Cardinality(Online(reps)) \in Nat /\ Quorum \in Nat
      BY ReplicasFinite, QuorumFacts DEF Online
    <2>3. ~(Cardinality(Online(sh.replicas)) < Quorum)
      BY <1>1, <2>1, <2>2, SMT
    <2> QED  BY <1>1, <2>1, <2>3 DEF EnsureLeader
  <1>5. done = [Elect(reps) EXCEPT !.replicas = PersistedOn(@, Online(@))]
    BY <1>4 DEF WithLeader
  <1>6. Elect(reps) = IF Cardinality(Voters(reps, c, term)) < Quorum
                      THEN [replicas |-> D, leader |-> NoReplica]
                      ELSE [replicas |-> C, leader |-> c]
    BY DEF Elect
  <1> HIDE DEF c, term, done, D, C
  <1>7. CASE Cardinality(Voters(reps, c, term)) < Quorum
    <2>1. done = [replicas |-> PersistedOn(D, Online(D)), leader |-> NoReplica]
      BY <1>5, <1>6, <1>7, SMT
    <2>2. Lost(PersistedOn(D, Online(D)), reps, term)
      BY <1>2, <1>3, LostStep DEF D
    <2> QED  BY <1>7, <2>1, <2>2, SMT DEF c, term, done, IsShard
  <1>8. CASE ~(Cardinality(Voters(reps, c, term)) < Quorum)
    <2>1. done = [replicas |-> PersistedOn(C, Online(C)), leader |-> c]
      BY <1>5, <1>6, <1>8, SMT
    <2>2. Won(PersistedOn(C, Online(C)), reps, c, term)
      BY <1>2, <1>3, WonStep DEF C
    <2> QED  BY <1>8, <2>1, <2>2, SMT DEF c, term, done, IsShard
  <1> QED  BY <1>7, <1>8

\* The replicas while a winner c sends its snapshot.
Crowning(next, reps, c, term) ==
    /\ next = [r \in Replicas |-> next[r]]
    /\ \A r \in Replicas :
          \/ Answered(next[r], reps[r], term)
          \/ /\ r # c /\ reps[r].online = TRUE
             /\ \/ Synced(next[r], term, Snap(reps, c, term))
                \/ \E q : /\ Answered(q, reps[r], term)
                          /\ Filling(next[r], q, Snap(reps, c, term))

Asking(next, reps, term) ==
    /\ next = [r \in Replicas |-> next[r]]
    /\ \A r \in Replicas : Asked(next[r], reps[r], term)

\* The states of the two loops of an election.
VoteLoop(reps, c, term) ==
    LET standing == [reps EXCEPT ![c] = set_role(@, "Candidate")]
        asked == [r \in Replicas |-> AfterVote(reps, r, c, term)]
    IN  Midway(Online(reps), standing, PersistedOn(asked, Online(reps)),
               [r \in Online(reps) |-> Voting(standing[r], asked[r])])

SnapshotLoop(reps, c, term, after) ==
    LET asked == [r \in Replicas |-> AfterVote(reps, r, c, term)]
        voted == PersistedOn(asked, Online(reps))
        crowned == [r \in Replicas |->
                       set_role(voted[r], IF r = c THEN "Leader" ELSE "Follower")]
    IN  Midway(Online(reps) \ {c}, crowned, after,
               [r \in Online(reps) |->
                   Installing(crowned[r], export_snapshot(crowned[c]))])

\* Someone who is asked.
LEMMA VotingAsked ==
    ASSUME NEW r, Rep(r), NEW term, NEW s, Same(s, r), s.meta = r.meta,
           NEW a, Shape(a), a.online = r.online, a.meta = r.meta, a.log = r.log,
           a.commitIndex = r.commitIndex, a.currentTerm = term,
           NEW p \in Voting(s, a)
    PROVE  Asked(p, r, term)
  <1>1. Shape(s) /\ a.online = s.online /\ a.meta = s.meta /\ a.log = s.log
        /\ a.commitIndex = s.commitIndex
    BY DEF Same
  <1>2. Between(p, s, a)
    BY <1>1, VotingStates
  <1> QED  BY <1>2 DEF Between, Asked, Same

LEMMA AnsweredAsked ==
    ASSUME NEW p, NEW r, Rep(r), NEW term, Answered(p, r, term)
    PROVE  Asked(p, r, term)
  <1>1. r.online \in BOOLEAN
    BY DEF Rep
  <1>2. CASE r.online = TRUE
    BY <1>2 DEF Answered, Asked
  <1>3. CASE r.online = FALSE
    BY <1>3 DEF Answered, Asked
  <1> QED  BY <1>1, <1>2, <1>3

\* The loop that asks for votes.
LEMMA AskingStates ==
    ASSUME NEW reps, Reps(reps), NEW c \in Replicas, NEW term \in Nat, Below(reps, term),
           NEW x \in VoteLoop(reps, c, term)
    PROVE  Asking(x, reps, term)
  <1> DEFINE standing == [reps EXCEPT ![c] = set_role(@, "Candidate")]
             asked == [r \in Replicas |-> AfterVote(reps, r, c, term)]
             voted == PersistedOn(asked, Online(reps))
             I == Online(reps)
             progress == [r \in Online(reps) |-> Voting(standing[r], asked[r])]
  <1>1. I \in SUBSET Replicas
    BY DEF Online
  <1>0. x \in Midway(I, standing, voted, progress)
    BY DEF VoteLoop
  <1> HIDE DEF standing, asked, voted, progress, I
  <1>2. /\ x = [r \in Replicas |-> x[r]]
        /\ \A r \in Replicas :
              \/ x[r] = standing[r]
              \/ r \in I /\ (x[r] = voted[r] \/ x[r] \in progress[r])
    BY <1>0, <1>1, MidwayStates, SMT
  <1>3. ASSUME NEW r \in Replicas
        PROVE  Asked(x[r], reps[r], term)
    <2>1. Rep(reps[r]) /\ Shape(reps[r])
      BY DEF Reps, Rep
    <2>2. Same(standing[r], reps[r]) /\ standing[r].meta = reps[r].meta
      <3>1. CASE r = c
        <4>1. standing[r] = set_role(reps[r], "Candidate")
          BY <3>1 DEF Reps, standing
        <4> QED  BY <2>1, <4>1, RoleFields, SMT
      <3>2. CASE r # c
        <4>1. standing[r] = reps[r]
          BY <3>2 DEF Reps, standing
        <4> QED  BY <2>1, <4>1 DEF Same
      <3> QED  BY <3>1, <3>2
    <2> DEFINE a == asked[r]
    <2>3. /\ Shape(a) /\ a.online = reps[r].online /\ a.meta = reps[r].meta
          /\ a.log = reps[r].log /\ a.commitIndex = reps[r].commitIndex
          /\ reps[r].online = TRUE => a.currentTerm = term
          /\ reps[r].online = FALSE => a.currentTerm = reps[r].currentTerm
      <3>1. a = AfterVote(reps, r, c, term)
        BY DEF asked
      <3> HIDE DEF a
      <3>2. LET b == AfterVote(reps, r, c, term)
            IN  /\ Shape(b) /\ b.online = reps[r].online /\ b.meta = reps[r].meta
                /\ b.log = reps[r].log /\ b.commitIndex = reps[r].commitIndex
                /\ reps[r].online = TRUE => b.currentTerm = term
                /\ reps[r].online = FALSE => b.currentTerm = reps[r].currentTerm
        BY AskedFields, ZenonT(40)
      <3> QED  BY <3>1, <3>2
    <2> HIDE DEF a
    <2>4. CASE x[r] = standing[r]
      BY <2>2, <2>4 DEF Asked, Same
    <2>5. CASE r \in I /\ x[r] = voted[r]
      <3>1. reps[r].online = TRUE /\ x[r] = persist_state(a)
        BY <2>1, <2>5 DEF PersistedOn, Online, Rep, a, voted, I
      <3>2. Answered(x[r], reps[r], term)
        BY <2>1, <2>3, <3>1, AnsweredFields
      <3> QED  BY <2>1, <3>2, AnsweredAsked
    <2>6. CASE r \in I /\ x[r] \in progress[r]
      <3>1. x[r] \in Voting(standing[r], a) /\ reps[r].online = TRUE
        BY <2>6 DEF Online, a, progress, I
      <3>2. a.currentTerm = term
        BY <2>3, <3>1
      <3> QED  BY <2>1, <2>2, <2>3, <3>1, <3>2, VotingAsked
    <2> QED  BY <1>2, <2>4, <2>5, <2>6
  <1> QED  BY <1>2, <1>3 DEF Asking

\* The loop that sends the snapshot.
LEMMA CrowningStates ==
    ASSUME NEW reps, Reps(reps), NEW c \in Replicas, c \in Online(reps),
           NEW term \in Nat, Below(reps, term),
           NEW after, Won(after, reps, c, term),
           NEW x \in SnapshotLoop(reps, c, term, after)
    PROVE  Crowning(x, reps, c, term)
  <1> DEFINE asked == [r \in Replicas |-> AfterVote(reps, r, c, term)]
             voted == PersistedOn(asked, Online(reps))
             crowned == [r \in Replicas |->
                            set_role(voted[r], IF r = c THEN "Leader" ELSE "Follower")]
             progress == [r \in Online(reps) |->
                             Installing(crowned[r], export_snapshot(crowned[c]))]
             I == Online(reps) \ {c}
             S == Snap(reps, c, term)
  <1>0. x \in Midway(I, crowned, after, progress)
    BY DEF SnapshotLoop
  <1>1. I \in SUBSET Replicas
    BY DEF Online
  <1> HIDE DEF I, progress, S, crowned
  <1>2. /\ x = [r \in Replicas |-> x[r]]
        /\ \A r \in Replicas :
              \/ x[r] = crowned[r]
              \/ r \in I /\ (x[r] = after[r] \/ x[r] \in progress[r])
    BY <1>0, <1>1, MidwayStates, SMT
  <1>3. ASSUME NEW r \in Replicas
        PROVE  Answered(crowned[r], reps[r], term)
    <2> DEFINE a == AfterVote(reps, r, c, term)
               v == IF r \in Online(reps) THEN persist_state(a) ELSE a
    <2>1. /\ Shape(a) /\ a.online = reps[r].online /\ a.meta = reps[r].meta
          /\ a.log = reps[r].log /\ a.commitIndex = reps[r].commitIndex
          /\ reps[r].online = TRUE => a.currentTerm = term
          /\ reps[r].online = FALSE => a.currentTerm = reps[r].currentTerm
      BY AskedFields, ZenonT(40)
    <2>2. crowned[r] = set_role(v, IF r = c THEN "Leader" ELSE "Follower")
      BY DEF PersistedOn, crowned
    <2>3. Rep(reps[r]) /\ reps[r].online \in BOOLEAN
      BY DEF Reps, Rep
    <2> HIDE DEF a
    <2>4. /\ reps[r].online = TRUE => v = persist_state(a)
          /\ reps[r].online = FALSE => v = a
      BY <2>3 DEF Online
    <2> HIDE DEF v
    <2>5. Answered(v, reps[r], term)
      BY <2>1, <2>3, <2>4, AnsweredFields
    <2>6. Shape(v)
      BY <2>5 DEF Answered
    <2>7. Same(crowned[r], v) /\ crowned[r].meta = v.meta
      BY <2>2, <2>6, RoleFields
    <2> QED  BY <2>5, <2>7 DEF Answered, Same
  <1>4. export_snapshot(crowned[c]) = S
    <2>1. /\ crowned[c].currentTerm = term /\ crowned[c].log = reps[c].log
          /\ crowned[c].commitIndex = reps[c].commitIndex
      <3>1. Answered(crowned[c], reps[c], term)
        BY <1>3
      <3> QED  BY <3>1 DEF Answered, Online
    <2> HIDE DEF S
    <2>2. export_snapshot(crowned[c]) = Snap(reps, c, term)
      BY <2>1, SnapOf
    <2> QED  BY <2>2 DEF S
  <1>5. S.term \in Nat /\ S.commitIndex \in Nat /\ S.log \in Seq(Entry)
    BY SnapFields DEF S
  <1>6. ASSUME NEW r \in I, x[r] \in progress[r]
        PROVE  \/ Answered(x[r], reps[r], term)
               \/ \E q : Answered(q, reps[r], term) /\ Filling(x[r], q, S)
    <2>1. r \in Replicas /\ r # c /\ reps[r].online = TRUE
      BY DEF I, Online
    <2> DEFINE q == crowned[r]
    <2>2. x[r] \in Installing(q, S)
      BY <1>4, <1>6 DEF progress, I
    <2>3. Answered(q, reps[r], term)
      BY <1>3, <2>1
    <2> HIDE DEF q
    <2>4. Rep(q) /\ q.online = TRUE
      <3>1. Rep(reps[r])
        BY <2>1 DEF Reps
      <3> QED  BY <2>1, <2>3, <3>1 DEF Answered, Rep
    <2>5. x[r] = q \/ Filling(x[r], q, S)
      BY <1>5, <2>2, <2>4, InstallingStates
    <2> QED  BY <2>3, <2>5
  <1>7. ASSUME NEW r \in I, x[r] = after[r]
        PROVE  Answered(x[r], reps[r], term) \/ Synced(x[r], term, S)
    BY <1>7 DEF Won, I, S, Online
  <1>8. \A r \in I : r # c /\ reps[r].online = TRUE
    BY DEF I, Online
  <1>9. ASSUME NEW r \in Replicas
        PROVE  \/ Answered(x[r], reps[r], term)
               \/ /\ r # c /\ reps[r].online = TRUE
                  /\ \/ Synced(x[r], term, S)
                     \/ \E q : Answered(q, reps[r], term) /\ Filling(x[r], q, S)
    BY <1>2, <1>3, <1>6, <1>7, <1>8
  <1> QED  BY <1>2, <1>9 DEF Crowning, S

\* The states an election passes through.
LEMMA ElectingStates ==
    ASSUME NEW sh, IsShard(sh),
           Reps(sh.replicas), NEW x \in Electing(sh)
    PROVE  LET reps == sh.replicas
               c == Candidate(reps)
               term == NextTerm(reps)
           IN  /\ HoldsElection(sh)
               /\ \/ /\ x.leader = sh.leader
                     /\ Asking(x.replicas, reps, term)
                  \/ /\ ~(Cardinality(Voters(reps, c, term)) < Quorum)
                     /\ x.leader = c
                     /\ Crowning(x.replicas, reps, c, term)
  <1> DEFINE reps == sh.replicas
             c == Candidate(reps)
             term == NextTerm(reps)
             after == WithLeader(sh).replicas
             V == VoteLoop(reps, c, term)
             S == SnapshotLoop(reps, c, term, after)
  <1>1. Reps(reps)
    OBVIOUS
  <1>2. HoldsElection(sh)
    <2>1. ~HoldsElection(sh) => Electing(sh) = {}
      BY DEF Electing
    <2> QED  BY <2>1
  <1>3. term \in Nat /\ Below(reps, term)
    BY ElectionTerm
  <1>4. c \in Replicas /\ c \in Online(reps)
    BY <1>1, <1>2, ElectionCandidate
  <1>5. \/ \E y \in V : x = [replicas |-> y, leader |-> sh.leader]
        \/ WithLeader(sh).leader = c /\ \E y \in S : x = [replicas |-> y, leader |-> c]
    <2>1. Electing(sh) =
             {[replicas |-> y, leader |-> sh.leader] : y \in V} \cup
             (IF ~(WithLeader(sh).leader = c) THEN {}
              ELSE {[replicas |-> y, leader |-> c] : y \in S})
      BY <1>2 DEF Electing, VoteLoop, SnapshotLoop
    <2> HIDE DEF V, S, c
    <2> QED  BY <2>1
  <1>6. \A y \in V : Asking(y, reps, term)
    <2> HIDE DEF c, term, reps
    <2> QED  BY <1>1, <1>3, <1>4, AskingStates DEF V
  <1>7. ASSUME WithLeader(sh).leader = c
        PROVE  /\ ~(Cardinality(Voters(reps, c, term)) < Quorum)
               /\ Won(after, reps, c, term)
    <2>1. c # NoReplica
      BY <1>4, NoReplicaAssumption
    <2> QED  BY <1>2, <1>7, <2>1, ElectionDone DEF IsShard
  <1>8. ASSUME Won(after, reps, c, term)
        PROVE  \A y \in S : Crowning(y, reps, c, term)
    <2> HIDE DEF c, term, after, reps
    <2> QED  BY <1>1, <1>3, <1>4, <1>8, CrowningStates DEF S
  <1> HIDE DEF V, S, c, term, after
  <1>9. CASE \E y \in V : x = [replicas |-> y, leader |-> sh.leader]
    BY <1>2, <1>6, <1>9, SMT DEF c, term
  <1>10. CASE WithLeader(sh).leader = c /\ \E y \in S : x = [replicas |-> y, leader |-> c]
    BY <1>2, <1>7, <1>8, <1>10, SMT DEF c, term
  <1> QED  BY <1>5, <1>9, <1>10
-----------------------------------------------------------------------------
(* What it does to the logs.                                               *)

\* Nobody's log outdoes that of a replica a that has committed C, unless it has
\* committed C too.
LEMMA NobodyAhead ==
    ASSUME NEW C \in Seq(Entry), NEW a, Fit(a.log, Len(C), C), a.commitIndex = Len(C),
           NEW b, Fit(b.log, b.commitIndex, C), ~Behind(a, b)
    PROVE  \/ last_log_term(a.log) > last_log_term(b.log)
           \/ /\ last_log_term(a.log) = last_log_term(b.log)
              /\ last_log_index(a.log) >= last_log_index(b.log)
  <1>1. a.log \in Seq(Entry) /\ b.log \in Seq(Entry)
    BY DEF Fit
  <1>2. /\ last_log_index(a.log) = Len(a.log) /\ last_log_index(b.log) = Len(b.log)
        /\ last_log_term(a.log) \in Nat /\ last_log_term(b.log) \in Nat
        /\ last_log_term(a.log) = IF Len(a.log) = 0 THEN 0 ELSE a.log[Len(a.log)].term
        /\ \A i \in 1 .. Len(a.log) : a.log[i].term \in Nat
    BY <1>1, LogEnd
  <1>3. Len(a.log) \in Nat /\ Len(b.log) \in Nat /\ Len(C) \in Nat
    BY <1>1, SMT
  <1>4. CASE b.commitIndex = Len(C)
    BY <1>2, <1>3, <1>4, SMT DEF Behind
  <1>5. CASE b.commitIndex # Len(C)
    <2>1. b.commitIndex \in Nat /\ b.commitIndex < Len(C)
      BY <1>3, <1>5, SMT DEF Fit
    <2>2. Before(b.log, C[Len(C)].term, Len(C))
      BY <2>1 DEF Fit
    <2>3. Len(C) \in 1 .. Len(a.log) /\ a.log[Len(C)] = C[Len(C)]
      BY <1>3, <2>1, SMT DEF Fit
    <2>4. a.log[Len(C)].term <= a.log[Len(a.log)].term
      BY <1>3, <2>3, SMT DEF Fit, Sorted
    <2>5. /\ last_log_term(a.log) = a.log[Len(a.log)].term
          /\ C[Len(C)].term \in Nat
      BY <1>2, <1>3, <2>3, SMT
    <2> QED  BY <1>2, <1>3, <2>2, <2>3, <2>4, <2>5, SMT DEF Before
  <1> QED  BY <1>4, <1>5

\* A log of earlier terms is behind every log of term t.
LEMMA EarlierBefore ==
    ASSUME NEW log \in Seq(Entry), NEW s \in Nat, Capped(log, s), NEW t \in Nat, s < t,
           NEW n
    PROVE  Before(log, t, n) /\ Capped(log, t)
  <1>1. /\ last_log_term(log) = IF Len(log) = 0 THEN 0 ELSE log[Len(log)].term
        /\ last_log_term(log) \in Nat
        /\ \A i \in 1 .. Len(log) : log[i].term \in Nat
    BY LogEnd
  <1>2. Len(log) # 0 => log[Len(log)].term <= s
    BY SMT DEF Capped
  <1>3. last_log_term(log) < t
    BY <1>1, <1>2, SMT
  <1>4. Capped(log, t)
    BY <1>1, SMT DEF Capped
  <1> QED  BY <1>3, <1>4 DEF Before

\* Entries stay below a term that is larger.
LEMMA CappedLater ==
    ASSUME NEW log \in Seq(Entry), NEW s \in Nat, NEW t \in Nat, s <= t, Capped(log, s)
    PROVE  Capped(log, t)
  <1>1. \A i \in 1 .. Len(log) : log[i].term \in Nat
    BY LogEnd
  <1> QED  BY <1>1, SMT DEF Capped

\* While votes are asked for, nothing that matters changes.
LEMMA AskingSafe ==
    ASSUME NEW reps, NEW C, Whole(reps, C), NEW term \in Nat, Below(reps, term),
           NEW next, Asking(next, reps, term)
    PROVE  Safe(next, C)
  <1>1. ASSUME NEW r \in Replicas
        PROVE  /\ Held(next[r], C) /\ next[r].log = reps[r].log
               /\ next[r].meta.commitIndex = reps[r].meta.commitIndex
               /\ next[r].meta.currentTerm \in Nat
               /\ next[r].meta.currentTerm >= reps[r].meta.currentTerm
    <2> DEFINE p == next[r]
               q == reps[r]
    <2>1. Held(q, C) /\ Rep(q) /\ Stored(q) /\ q.currentTerm < term
      BY DEF Whole, Safe, Held, Below
    <2>2. Asked(p, q, term)
      BY DEF Asking
    <2> HIDE DEF p, q
    <2>3. /\ p.log = q.log /\ p.meta.commitIndex = q.meta.commitIndex
          /\ p.meta.currentTerm \in {q.meta.currentTerm, term}
          /\ p.currentTerm \in {q.currentTerm, term}
      BY <2>1, <2>2 DEF Asked, Stored
    <2>4. q.meta.currentTerm = q.currentTerm /\ q.currentTerm \in Nat
      BY <2>1 DEF Stored, Rep
    <2>5. /\ p.meta.currentTerm \in Nat /\ p.currentTerm \in Nat
          /\ p.meta.currentTerm >= q.meta.currentTerm
      BY <2>1, <2>3, <2>4, SMT
    <2>6. Rep(p)
      BY <2>1, <2>2, <2>3, <2>5 DEF Asked, Rep
    <2>7. Held(p, C)
      BY <2>1, <2>3, <2>6 DEF Held
    <2> QED  BY <2>3, <2>5, <2>7 DEF p, q
  <1>2. PICK s \in Replicas : \A r \in Replicas : Capped(reps[r].log, reps[s].meta.currentTerm)
    BY DEF Whole, Safe
  <1>3. \A r \in Replicas : reps[r].log \in Seq(Entry) /\ reps[r].meta.currentTerm \in Nat
    BY WholeFields DEF Rep
  <1>4. \A r \in Replicas : Capped(next[r].log, next[s].meta.currentTerm)
    BY <1>1, <1>2, <1>3, CappedLater
  <1> QED  BY <1>1, <1>4 DEF Whole, Safe, Asking

\* c leads with C, and everybody online has C.
LedBy(next, reps, c, C) ==
    /\ Whole(next, C) /\ LeaderOK(next, c, C)
    /\ \A r \in Replicas : /\ next[r].online = reps[r].online
                           /\ reps[r].online = TRUE => next[r].commitIndex = Len(C)

\* While the winner c sends C, and a new term is on its disk.
LEMMA CrowningSafe ==
    ASSUME NEW reps, NEW C, Whole(reps, C), NEW c \in Replicas, c \in Online(reps),
           reps[c].commitIndex = Len(C), NEW term \in Nat, Below(reps, term),
           NEW next, Crowning(next, reps, c, term)
    PROVE  /\ Safe(next, C)
           /\ \A r \in Replicas : Capped(next[r].log, term)
           /\ Answered(next[c], reps[c], term)
  <1> DEFINE S == Snap(reps, c, term)
  <1>1. /\ Reps(reps) /\ C \in Seq(Entry) /\ Sorted(C)
        /\ \A r \in Replicas : /\ Rep(reps[r]) /\ Stored(reps[r])
                               /\ Fit(reps[r].log, reps[r].commitIndex, C)
    BY WholeFields
  <1>2. S.term \in Nat /\ S.commitIndex = Len(C) /\ S.log = C
    <2>1. truncate_log_from(reps[c].log, Len(C) + 1) = C
      BY <1>1, SendsCommitted
    <2> QED  BY <1>1, <2>1, SnapFields, SMT
  <1>3. PICK s \in Replicas : \A r \in Replicas : Capped(reps[r].log, reps[s].meta.currentTerm)
    BY DEF Whole, Safe
  <1>4. \A r \in Replicas : Capped(reps[r].log, term)
    <2>1. reps[s].meta.currentTerm \in Nat /\ reps[s].meta.currentTerm <= term
      BY <1>1, SMT DEF Stored, Rep, Below
    <2> QED  BY <1>1, <1>3, <2>1, CappedLater DEF Rep
  <1>5. Capped(C, term)
    <2>1. /\ Len(C) <= Len(reps[c].log) /\ reps[c].log \in Seq(Entry)
          /\ \A i \in 1 .. Len(C) : reps[c].log[i] = C[i]
      BY <1>1 DEF Fit
    <2>2. \A i \in 1 .. Len(C) : i \in 1 .. Len(reps[c].log)
      BY <1>1, <2>1, SMT
    <2> QED  BY <1>4, <2>1, <2>2 DEF Capped
  <1>6. \A r \in Replicas :
          \/ Answered(next[r], reps[r], term)
          \/ /\ r # c /\ reps[r].online = TRUE
             /\ \/ Synced(next[r], term, S)
                \/ \E q : Answered(q, reps[r], term) /\ Filling(next[r], q, S)
    BY DEF Crowning
  <1> HIDE DEF S
  <1>7. ASSUME NEW r \in Replicas, NEW q, Answered(q, reps[r], term)
        PROVE  Held(q, C) /\ Capped(q.log, term)
    <2>1. q.log = reps[r].log /\ q.meta.commitIndex = reps[r].commitIndex
      BY <1>1, <1>7 DEF Answered, Stored, Rep
    <2>2. Rep(q)
      BY <1>1, <1>7 DEF Answered, Stored, Rep
    <2> QED  BY <1>1, <1>4, <2>1, <2>2 DEF Held
  <1>8. ASSUME NEW r \in Replicas
        PROVE  Held(next[r], C) /\ Capped(next[r].log, term)
    <2>1. CASE Answered(next[r], reps[r], term)
      BY <1>7, <2>1
    <2>2. CASE Synced(next[r], term, S)
      <3>1. /\ next[r].log = C /\ next[r].commitIndex = Len(C)
            /\ next[r].meta.commitIndex = Len(C)
        BY <1>1, <1>2, <2>2, LogEnd DEF Synced, Smaller
      <3>2. Extends(C, C)
        BY <1>1, SMT DEF Extends
      <3>3. Fit(next[r].log, next[r].meta.commitIndex, C)
        BY <1>1, <3>1, <3>2, LongFits
      <3>4. Len(C) \in Nat
        BY <1>1, SMT
      <3>5. Rep(next[r])
        BY <1>1, <2>2, <3>1, <3>4 DEF Synced, Rep
      <3> QED  BY <1>5, <3>1, <3>3, <3>5 DEF Held
    <2>3. ASSUME NEW q, Answered(q, reps[r], term), Filling(next[r], q, S)
          PROVE  Held(next[r], C) /\ Capped(next[r].log, term)
      <3>1. Rep(q)
        BY <1>7, <2>3 DEF Held
      <3> QED  BY <1>1, <1>2, <1>5, <2>3, <3>1, FillingHeld
    <2> QED  BY <1>6, <2>1, <2>2, <2>3
  <1>9. Answered(next[c], reps[c], term)
    BY <1>6
  <1>10. next[c].meta.currentTerm = term /\ next[c].meta.commitIndex = Len(C)
    BY <1>9 DEF Answered, Online
  <1> QED  BY <1>1, <1>8, <1>9, <1>10 DEF Safe, Crowning

\* So it is after an election that was won.
LEMMA WonWhole ==
    ASSUME NEW reps, NEW C, Whole(reps, C), NEW c \in Replicas, c \in Online(reps),
           reps[c].commitIndex = Len(C), NEW term \in Nat, Below(reps, term),
           NEW next, Won(next, reps, c, term)
    PROVE  LedBy(next, reps, c, C)
  <1> DEFINE S == Snap(reps, c, term)
  <1>1. /\ Reps(reps) /\ C \in Seq(Entry) /\ Sorted(C)
        /\ \A r \in Replicas : /\ Rep(reps[r]) /\ Stored(reps[r])
                               /\ Fit(reps[r].log, reps[r].commitIndex, C)
    BY WholeFields
  <1>2. Crowning(next, reps, c, term)
    BY DEF Won, Crowning
  <1>3. /\ Safe(next, C)
        /\ \A r \in Replicas : Capped(next[r].log, term)
        /\ Answered(next[c], reps[c], term)
    BY <1>2, CrowningSafe
  <1>4. S.commitIndex = Len(C) /\ S.log = C
    <2>1. truncate_log_from(reps[c].log, Len(C) + 1) = C
      BY <1>1, SendsCommitted
    <2> QED  BY <1>1, <2>1, SnapFields, SMT
  <1>5. \A r \in Replicas :
           \/ (r = c \/ reps[r].online = FALSE) /\ Answered(next[r], reps[r], term)
           \/ /\ r # c /\ reps[r].online = TRUE
              /\ Synced(next[r], term, S)
    BY DEF Won
  <1> HIDE DEF S
  <1>6. /\ next[c].online = TRUE /\ next[c].currentTerm = term
        /\ next[c].commitIndex = Len(C)
    BY <1>3 DEF Answered, Online
  <1>7. Smaller(S.commitIndex, last_log_index(S.log)) = Len(C) /\ last_log_index(C) = Len(C)
    BY <1>1, <1>4, LogEnd DEF Smaller
  <1>8. ASSUME NEW r \in Replicas
        PROVE  /\ Stored(next[r]) /\ next[r].online = reps[r].online
               /\ reps[r].online = TRUE => next[r].commitIndex = Len(C)
               /\ next[r].currentTerm <= term
               /\ r # c => Before(next[r].log, term, Len(C) + 1)
    <2>1. reps[r].currentTerm < term /\ reps[r].currentTerm \in Nat /\ reps[r].online \in BOOLEAN
      BY <1>1 DEF Below, Rep
    <2>2. CASE r # c /\ reps[r].online = TRUE /\ Synced(next[r], term, S)
      <3>1. /\ next[r].log = C /\ next[r].commitIndex = Len(C) /\ Stored(next[r])
            /\ next[r].online = TRUE /\ next[r].currentTerm = term
        BY <1>4, <1>7, <2>2 DEF Synced, Stored
      <3>2. Capped(C, term)
        BY <1>3, <3>1
      <3>3. Before(C, term, Len(C) + 1)
        <4>1. /\ last_log_term(C) = IF Len(C) = 0 THEN 0 ELSE C[Len(C)].term
              /\ last_log_term(C) \in Nat
          BY <1>1, LogEnd
        <4>2. Len(C) \in Nat /\ (Len(C) # 0 => C[Len(C)].term <= term)
          BY <1>1, <3>2, SMT DEF Capped
        <4> QED  BY <4>1, <4>2, SMT DEF Before
      <3>4. next[r].currentTerm <= term
        BY <3>1, SMT
      <3> QED  BY <2>2, <3>1, <3>3, <3>4
    <2>3. CASE Answered(next[r], reps[r], term) /\ reps[r].online = FALSE
      <3>1. /\ Stored(next[r]) /\ next[r].log = reps[r].log
            /\ next[r].online = FALSE /\ next[r].currentTerm = reps[r].currentTerm
        BY <1>1, <2>3 DEF Answered, Stored
      <3>2. PICK s \in Replicas : Capped(reps[r].log, reps[s].meta.currentTerm)
        BY DEF Whole, Safe
      <3>3. reps[s].meta.currentTerm \in Nat /\ reps[s].meta.currentTerm < term
        BY <1>1 DEF Stored, Rep, Below
      <3>4. Before(reps[r].log, term, Len(C) + 1)
        BY <1>1, <3>2, <3>3, EarlierBefore DEF Rep
      <3>5. next[r].currentTerm <= term
        BY <2>1, <3>1, SMT
      <3> QED  BY <2>3, <3>1, <3>4, <3>5
    <2>4. CASE r = c
      BY <1>3, <1>6, <2>1, <2>4, SMT DEF Answered, Stored, Online
    <2> QED  BY <1>5, <2>1, <2>2, <2>3, <2>4
  <1>9. Whole(next, C)
    BY <1>3, <1>8 DEF Whole
  <1>10. LeaderOK(next, c, C)
    BY <1>3, <1>6, <1>8 DEF LeaderOK
  <1> QED  BY <1>8, <1>9, <1>10 DEF LedBy

\* Everybody online votes for a candidate that has committed C.
LEMMA AllVote ==
    ASSUME NEW reps, NEW C, Whole(reps, C), NEW c \in Replicas, c \in Online(reps),
           \A r \in Online(reps) : ~Behind(reps[c], reps[r]),
           reps[c].commitIndex = Len(C), NEW term \in Nat, Below(reps, term)
    PROVE  Voters(reps, c, term) = Online(reps)
  <1>1. /\ C \in Seq(Entry)
        /\ \A r \in Replicas : Rep(reps[r]) /\ Fit(reps[r].log, reps[r].commitIndex, C)
    BY WholeFields
  <1>2. ASSUME NEW r \in Online(reps)
        PROVE  VoteGranted(reps[r], term, c, last_log_index(reps[c].log),
                           last_log_term(reps[c].log))
    <2>1. r \in Replicas /\ reps[r].online /\ ~Behind(reps[c], reps[r])
      BY DEF Online
    <2>2. \/ last_log_term(reps[c].log) > last_log_term(reps[r].log)
          \/ /\ last_log_term(reps[c].log) = last_log_term(reps[r].log)
             /\ last_log_index(reps[c].log) >= last_log_index(reps[r].log)
      BY <1>1, <2>1, NobodyAhead
    <2>3. term > reps[r].currentTerm /\ term >= reps[r].currentTerm
      BY <1>1, <2>1, SMT DEF Rep, Below
    <2> QED  BY <2>1, <2>2, <2>3 DEF VoteGranted
  <1> QED  BY <1>2 DEF Voters

\* A candidate has committed C if somebody online has.
LEMMA CandidateTop ==
    ASSUME NEW reps, NEW C, Whole(reps, C), NEW c \in Replicas,
           \A r \in Online(reps) : ~Behind(reps[c], reps[r]),
           NEW r \in Online(reps), reps[r].commitIndex = Len(C)
    PROVE  reps[c].commitIndex = Len(C)
  <1>1. C \in Seq(Entry) /\ Fit(reps[c].log, reps[c].commitIndex, C)
    BY WholeFields
  <1>2. ~(reps[c].commitIndex < Len(C))
    BY DEF Behind
  <1>3. Len(C) \in Nat /\ reps[c].commitIndex \in Nat /\ reps[c].commitIndex <= Len(C)
    BY <1>1, SMT DEF Fit
  <1> QED  BY <1>2, <1>3, SMT

\* ensure_leader_locked: an election is won if somebody online has committed C,
\* and then everybody online has.
LEMMA ElectionSafe ==
    ASSUME NEW sh, NEW C, Sound(sh, C),
           HoldsElection(sh) => \E r \in Online(sh.replicas) :
                                   sh.replicas[r].commitIndex = Len(C)
    PROVE  LET done == WithLeader(sh)
           IN  /\ \A x \in Electing(sh) : Safe(x.replicas, C)
               /\ Sound(done, C)
               /\ \A r \in Replicas : done.replicas[r].online = sh.replicas[r].online
               /\ HoldsElection(sh) =>
                     /\ done.leader # NoReplica
                     /\ \A r \in Online(sh.replicas) : done.replicas[r].commitIndex = Len(C)
               /\ ~HoldsElection(sh) => done.replicas = sh.replicas
  <1> DEFINE reps == sh.replicas
             done == WithLeader(sh)
             c == Candidate(reps)
             term == NextTerm(reps)
  <1>1. IsShard(sh) /\ Whole(reps, C) /\ Reps(reps)
    BY WholeFields DEF Sound
  <1>2. term \in Nat /\ Below(reps, term)
    BY <1>1, ElectionTerm
  <1>3. CASE ~HoldsElection(sh)
    <2>1. /\ Electing(sh) = {} /\ done.replicas = reps
          /\ HasLeader(sh) => done = sh
          /\ ~HasLeader(sh) => done = [replicas |-> reps, leader |-> NoReplica]
      BY <1>1, <1>3, NoElection DEF IsShard
    <2>2. Sound(done, C)
      <3>1. CASE HasLeader(sh)
        BY <2>1, <3>1
      <3>2. CASE ~HasLeader(sh)
        BY <1>1, <2>1, <3>2, SMT DEF Sound, IsShard
      <3> QED  BY <3>1, <3>2
    <2> QED  BY <1>3, <2>1, <2>2
  <1>4. CASE HoldsElection(sh)
    <2>1. PICK t \in Online(reps) : reps[t].commitIndex = Len(C)
      BY <1>4
    <2>2. /\ c \in Online(reps) /\ c \in Replicas
          /\ \A r \in Online(reps) : ~Behind(reps[c], reps[r])
      BY <1>1, <1>4, ElectionCandidate
    <2>3. /\ IsShard(done)
          /\ \/ /\ Cardinality(Voters(reps, c, term)) < Quorum
                /\ done.leader = NoReplica
                /\ Lost(done.replicas, reps, term)
             \/ /\ ~(Cardinality(Voters(reps, c, term)) < Quorum)
                /\ done.leader = c
                /\ Won(done.replicas, reps, c, term)
      BY <1>1, <1>4, ElectionDone DEF IsShard
    <2>4. \A x \in Electing(sh) :
             \/ Asking(x.replicas, reps, term)
             \/ Crowning(x.replicas, reps, c, term)
      BY <1>1, ElectingStates
    <2>5. Cardinality(Online(reps)) >= Quorum
      BY <1>4 DEF HoldsElection
    <2> HIDE DEF reps, done, c, term
    <2>6. reps[c].commitIndex = Len(C)
      BY <1>1, <2>1, <2>2, CandidateTop
    <2>7. Voters(reps, c, term) = Online(reps)
      BY <1>1, <1>2, <2>2, <2>6, AllVote
    <2>8. done.leader = c /\ Won(done.replicas, reps, c, term)
      <3>1. Cardinality(Online(reps)) \in Nat /\ Quorum \in Nat
        BY ReplicasFinite, QuorumFacts DEF Online
      <3> QED  BY <2>3, <2>5, <2>7, <3>1, SMT
    <2>9. /\ Whole(done.replicas, C) /\ LeaderOK(done.replicas, c, C)
          /\ \A r \in Replicas : /\ done.replicas[r].online = reps[r].online
                                 /\ reps[r].online = TRUE =>
                                       done.replicas[r].commitIndex = Len(C)
      <3>1. LedBy(done.replicas, reps, c, C)
        BY <1>1, <1>2, <2>2, <2>6, <2>8, WonWhole
      <3> QED  BY <3>1 DEF LedBy
    <2>10. \A r \in Online(reps) : r \in Replicas /\ reps[r].online = TRUE
      BY <1>1 DEF Online, Reps, Rep
    <2>11. done.leader # NoReplica /\ done.leader \in Replicas
      BY <2>2, <2>8, NoReplicaAssumption
    <2>12. Sound(done, C)
      BY <2>3, <2>8, <2>9, <2>11 DEF Sound
    <2>13. \A x \in Electing(sh) : Safe(x.replicas, C)
      BY <1>1, <1>2, <2>2, <2>4, <2>6, AskingSafe, CrowningSafe
    <2> QED  BY <1>4, <2>9, <2>10, <2>11, <2>12, <2>13 DEF reps, done
  <1> QED  BY <1>3, <1>4
-----------------------------------------------------------------------------
(* With a majority it succeeds, and everybody online has committed the same. *)

\* ensure_leader_locked: it fails only for want of a majority.
Elects(sh, C) ==
    LET done == WithLeader(sh)
    IN  /\ \A x \in Electing(sh) : Safe(x.replicas, C)
        /\ Sound(done, C)
        /\ Wide(sh.replicas, C) \/ HoldsElection(sh) => Wide(done.replicas, C)
        /\ \A r \in Replicas : done.replicas[r].online = sh.replicas[r].online
        /\ ~HasLeader(done) => ~Many(done.replicas)

LEMMA ElectDurable ==
    ASSUME NEW sh, NEW C, Sound(sh, C),
           \/ Wide(sh.replicas, C)
           \/ \A r \in Replicas : sh.replicas[r].online = TRUE
    PROVE  Elects(sh, C)
  <1> DEFINE f == sh.replicas
             done == WithLeader(sh)
  <1>1. IsShard(sh) /\ Whole(f, C) /\ Reps(f)
    BY WholeFields DEF Sound
  <1>2. /\ Online(f) \in SUBSET Replicas /\ Top(f, C) \in SUBSET Replicas
        /\ Cardinality(Online(f)) \in Nat
    BY ReplicasFinite DEF Online, Top
  <1>3. HoldsElection(sh) => Many(f)
    BY <1>2, QuorumFacts DEF HoldsElection, Many
  <1>4. HoldsElection(sh) => \E r \in Online(f) : f[r].commitIndex = Len(C)
    <2>1. CASE Wide(f, C)
      <3>1. HoldsElection(sh) => \E r \in Online(f) : r \in Top(f, C)
        BY <1>2, <1>3, <2>1, QuorumIntersect DEF Wide, Many
      <3> QED  BY <3>1 DEF Top
    <2>2. CASE \A r \in Replicas : f[r].online = TRUE
      <3>1. PICK r \in Replicas : f[r].meta.commitIndex = Len(C)
        BY <1>1 DEF Whole, Safe
      <3>2. f[r].commitIndex = Len(C)
        BY <1>1, <3>1 DEF Whole, Stored
      <3> QED  BY <2>2, <3>2 DEF Online
    <2> QED  BY <2>1, <2>2
  <1>5. /\ \A x \in Electing(sh) : Safe(x.replicas, C)
        /\ Sound(done, C)
        /\ \A r \in Replicas : done.replicas[r].online = f[r].online
        /\ HoldsElection(sh) =>
              /\ done.leader # NoReplica
              /\ \A r \in Online(f) : done.replicas[r].commitIndex = Len(C)
        /\ ~HoldsElection(sh) => done.replicas = f
    BY <1>4, ElectionSafe
  <1>6. ~HasLeader(done) => ~HoldsElection(sh) /\ ~HasLeader(sh)
    <2>1. ~HoldsElection(sh) /\ HasLeader(sh) => done = sh
      BY <1>1, NoElection DEF IsShard
    <2> HIDE DEF done
    <2>2. done.leader # NoReplica => HasLeader(done)
      BY <1>5 DEF Sound, LeaderOK, HasLeader
    <2> QED  BY <1>5, <2>1, <2>2
  <1> HIDE DEF done, f
  <1>7. ~HasLeader(done) => ~Many(done.replicas)
    <2>1. ~HasLeader(sh) /\ ~HoldsElection(sh) => ~Many(f)
      BY <1>2, QuorumFacts DEF HoldsElection, Many, f
    <2> QED  BY <1>5, <1>6, <2>1
  <1>8. Wide(f, C) \/ HoldsElection(sh) => Wide(done.replicas, C)
    <2>1. CASE HoldsElection(sh)
      <3>1. Online(f) \subseteq Top(done.replicas, C) /\ Top(done.replicas, C) \in SUBSET Replicas
        BY <1>2, <1>5, <2>1 DEF Top
      <3> QED  BY <1>2, <1>3, <2>1, <3>1, MajorityGrows DEF Wide, Many
    <2>2. CASE ~HoldsElection(sh)
      BY <1>5, <2>2
    <2> QED  BY <2>1, <2>2
  <1> QED  BY <1>5, <1>7, <1>8 DEF Elects, done, f
-----------------------------------------------------------------------------
(* What it does to the terms.                                              *)

LEMMA AskedTerms ==
    ASSUME NEW r, TermsOK(r), NEW term \in Nat, r.currentTerm < term,
           NEW p, Asked(p, r, term)
    PROVE  TermsOK(p) /\ p.meta.currentTerm >= r.meta.currentTerm
  <1>1. Rep(p)
    BY DEF Asked, Rep, TermsOK
  <1>2. /\ r.currentTerm \in Nat /\ r.meta.currentTerm \in Nat
        /\ r.meta.currentTerm <= r.currentTerm
    BY DEF TermsOK, Rep
  <1>3. \/ p.currentTerm = r.currentTerm /\ p.meta.currentTerm = r.meta.currentTerm
        \/ /\ p.currentTerm = term
           /\ p.meta.currentTerm \in {r.meta.currentTerm, term}
    BY DEF Asked
  <1>4. /\ p.meta.currentTerm <= p.currentTerm
        /\ p.meta.currentTerm >= r.meta.currentTerm
    BY <1>2, <1>3, SMT
  <1> QED  BY <1>1, <1>4 DEF TermsOK

LEMMA SyncedTerms ==
    ASSUME NEW term \in Nat, NEW snapshot, snapshot.log \in Seq(Entry),
           snapshot.commitIndex \in Nat, NEW p, Synced(p, term, snapshot)
    PROVE  TermsOK(p)
  <1>1. Smaller(snapshot.commitIndex, last_log_index(snapshot.log)) \in Nat
    BY LogEnd, SMT DEF Smaller
  <1>2. Rep(p)
    BY <1>1 DEF Synced, Rep
  <1>3. p.meta.currentTerm <= p.currentTerm
    BY SMT DEF Synced
  <1> QED  BY <1>2, <1>3 DEF TermsOK

\* While votes are asked for, nobody leads.
LEMMA AskingTerms ==
    ASSUME NEW reps, NEW sv, Terms(reps, NoReplica, sv), NEW term \in Nat,
           Below(reps, term), NEW next, Asking(next, reps, term)
    PROVE  Terms(next, NoReplica, sv)
  <1>1. ASSUME NEW r \in Replicas
        PROVE  TermsOK(next[r]) /\ next[r].meta.currentTerm >= reps[r].meta.currentTerm
    BY AskedTerms DEF Asking, Terms, Below
  <1>2. PICK s \in Replicas : sv[1] <= reps[s].meta.currentTerm
    BY DEF Terms
  <1>3. /\ sv[1] \in Nat /\ reps[s].meta.currentTerm \in Nat
        /\ next[s].meta.currentTerm \in Nat
    BY <1>1 DEF Terms, TermsOK, Rep
  <1>4. sv[1] <= next[s].meta.currentTerm
    BY <1>1, <1>2, <1>3, SMT
  <1> QED  BY <1>1, <1>3, <1>4 DEF Terms, Asking

\* A winner's term is new, and on its disk before it leads.
LEMMA CrowningTerms ==
    ASSUME NEW reps, NEW sv, Terms(reps, NoReplica, sv), NEW c \in Replicas,
           c \in Online(reps), NEW term \in Nat, Below(reps, term),
           NEW next, Crowning(next, reps, c, term)
    PROVE  /\ Terms(next, c, <<term, c>>)
           /\ next[c].currentTerm = term
           /\ term > sv[1]
  <1>0. Reps(reps)
    BY DEF Terms, TermsOK, Reps
  <1> DEFINE S == Snap(reps, c, term)
  <1>1. S.term \in Nat /\ S.commitIndex \in Nat /\ S.log \in Seq(Entry)
    BY <1>0, SnapFields
  <1>2. \A r \in Replicas :
          \/ Answered(next[r], reps[r], term)
          \/ /\ r # c /\ reps[r].online = TRUE
             /\ \/ Synced(next[r], term, S)
                \/ \E q : Answered(q, reps[r], term) /\ Filling(next[r], q, S)
    BY DEF Crowning
  <1> HIDE DEF S
  <1>3. ASSUME NEW r \in Replicas, NEW q, Answered(q, reps[r], term)
        PROVE  TermsOK(q)
    <2>1. Rep(reps[r]) /\ TermsOK(reps[r]) /\ reps[r].currentTerm < term
      BY DEF Terms, TermsOK, Below
    <2>2. Asked(q, reps[r], term)
      BY <1>3, <2>1, AnsweredAsked
    <2> QED  BY <2>1, <2>2, AskedTerms
  <1>4. ASSUME NEW r \in Replicas, NEW q, Answered(q, reps[r], term), Filling(next[r], q, S)
        PROVE  TermsOK(next[r])
    <2>1. Rep(q)
      BY <1>3, <1>4 DEF TermsOK
    <2> QED  BY <1>1, <1>4, <2>1, FillingTerms
  <1>5. ASSUME NEW r \in Replicas
        PROVE  TermsOK(next[r])
    <2>1. CASE Answered(next[r], reps[r], term)
      BY <1>3, <2>1
    <2>2. CASE Synced(next[r], term, S)
      BY <1>1, <2>2, SyncedTerms
    <2>3. CASE \E q : Answered(q, reps[r], term) /\ Filling(next[r], q, S)
      BY <1>4, <2>3
    <2> QED  BY <1>2, <2>1, <2>2, <2>3
  <1>6. /\ next[c].online = TRUE /\ next[c].currentTerm = term
        /\ next[c].meta.currentTerm = term
    BY <1>2 DEF Answered, Online
  <1>7. term > sv[1]
    <2>1. PICK s \in Replicas : sv[1] <= reps[s].meta.currentTerm
      BY DEF Terms
    <2>2. /\ sv[1] \in Nat /\ reps[s].meta.currentTerm \in Nat
          /\ reps[s].currentTerm \in Nat /\ reps[s].meta.currentTerm <= reps[s].currentTerm
          /\ reps[s].currentTerm < term
      BY DEF Terms, TermsOK, Rep, Below
    <2> QED  BY <2>1, <2>2, SMT
  <1> DEFINE v == <<term, c>>
  <1>8. v[1] = term
    OBVIOUS
  <1>9. term <= term
    BY SMT
  <1> HIDE DEF v
  <1>10. next = [r \in Replicas |-> next[r]]
    BY DEF Crowning
  <1>11. v = <<next[c].currentTerm, c>>
    BY <1>6 DEF v
  <1>12. Terms(next, c, v)
    BY <1>5, <1>6, <1>8, <1>9, <1>10, <1>11 DEF Terms
  <1> QED  BY <1>6, <1>7, <1>12 DEF v

\* A state with a leader in a new term is a good one to step to.
LEMMA LedStep ==
    ASSUME NEW sh, NEW sv, sh.leader # NoReplica, NEW t \in Nat,
           Terms(sh.replicas, sh.leader, <<t, sh.leader>>), t > sv[1]
    PROVE  StepOK(sh, sv)
  <1>1. HasLeader(sh)
    BY DEF Terms, HasLeader
  <1>2. sh.replicas[sh.leader].currentTerm = t
    BY DEF Terms
  <1>3. Serving(sh, sv) = <<t, sh.leader>>
    BY <1>1, <1>2 DEF Serving
  <1>4. <<t, sh.leader>>[1] = t
    OBVIOUS
  <1> QED  BY <1>3, <1>4 DEF StepOK

LEMMA WonCrowning ==
    ASSUME NEW next, NEW reps, NEW c, NEW term, Won(next, reps, c, term)
    PROVE  Crowning(next, reps, c, term)
  BY DEF Won, Crowning

LEMMA LostAsking ==
    ASSUME NEW next, NEW reps, Reps(reps), NEW term, Lost(next, reps, term)
    PROVE  Asking(next, reps, term)
  BY AnsweredAsked DEF Lost, Asking, Reps

\* ensure_leader_locked: the states it passes through and the one it leaves.
LEMMA ElectionTerms ==
    ASSUME NEW sh, IsShard(sh),
           NEW sv, Terms(sh.replicas, sh.leader, sv)
    PROVE  /\ \A x \in Electing(sh) : StepOK(x, sv)
           /\ StepOK(WithLeader(sh), sv)
           /\ IsShard(WithLeader(sh))
  <1> DEFINE reps == sh.replicas
             done == WithLeader(sh)
             c == Candidate(reps)
             term == NextTerm(reps)
  <1>1. Reps(reps)
    BY DEF Terms, TermsOK, Reps
  <1>2. term \in Nat /\ Below(reps, term)
    BY <1>1, ElectionTerm
  <1>3. CASE ~HoldsElection(sh)
    <2>1. /\ Electing(sh) = {} /\ done.replicas = reps
          /\ HasLeader(sh) => done = sh
          /\ ~HasLeader(sh) => done = [replicas |-> reps, leader |-> NoReplica]
      BY <1>3, NoElection DEF IsShard
    <2>2. CASE HasLeader(sh)
      BY <2>1, <2>2, SameStep
    <2>3. CASE ~HasLeader(sh)
      <3>1. Terms(reps, NoReplica, sv)
        BY DEF Terms
      <3>2. done.leader = NoReplica /\ done.replicas = reps
        BY <2>1, <2>3, SMT
      <3>3. StepOK(done, sv)
        BY <3>1, <3>2, SameStep
      <3> QED  BY <2>1, <2>3, <3>3 DEF IsShard
    <2> QED  BY <2>2, <2>3
  <1>4. CASE HoldsElection(sh)
    <2>1. sh.leader = NoReplica
      BY <1>4 DEF HoldsElection, HasLeader, Terms
    <2>2. Terms(reps, NoReplica, sv)
      BY <2>1
    <2>3. c \in Replicas /\ c \in Online(reps) /\ c # NoReplica
      BY <1>1, <1>4, ElectionCandidate, NoReplicaAssumption
    <2>4. /\ IsShard(done)
          /\ \/ done.leader = NoReplica /\ Lost(done.replicas, reps, term)
             \/ done.leader = c /\ Won(done.replicas, reps, c, term)
      BY <1>1, <1>4, ElectionDone DEF IsShard
    <2>5. \A x \in Electing(sh) :
             \/ x.leader = NoReplica /\ Asking(x.replicas, reps, term)
             \/ x.leader = c /\ Crowning(x.replicas, reps, c, term)
      BY <1>1, <2>1, ElectingStates
    <2> HIDE DEF reps, done, c, term
    <2>6. ASSUME NEW x, x.leader = NoReplica, Asking(x.replicas, reps, term)
          PROVE  StepOK(x, sv)
      <3>1. Terms(x.replicas, x.leader, sv)
        BY <1>2, <2>2, <2>6, AskingTerms
      <3> QED  BY <3>1, SameStep
    <2>7. ASSUME NEW x, x.leader = c, Crowning(x.replicas, reps, c, term)
          PROVE  StepOK(x, sv)
      <3>1. Terms(x.replicas, c, <<term, c>>) /\ term > sv[1]
        BY <1>2, <2>2, <2>3, <2>7, CrowningTerms
      <3> QED  BY <1>2, <2>3, <2>7, <3>1, LedStep
    <2>8. StepOK(done, sv)
      BY <1>1, <2>4, <2>6, <2>7, WonCrowning, LostAsking
    <2> QED  BY <2>4, <2>5, <2>6, <2>7, <2>8 DEF done
  <1> QED  BY <1>3, <1>4

\* ensure_leader_locked takes nobody offline or online.
LEMMA OnlineKept ==
    ASSUME NEW sh, IsShard(sh), Reps(sh.replicas), NEW r \in Replicas
    PROVE  WithLeader(sh).replicas[r].online = sh.replicas[r].online
  <1> DEFINE reps == sh.replicas
             c == Candidate(reps)
             term == NextTerm(reps)
             done == WithLeader(sh)
  <1>1. CASE ~HoldsElection(sh)
    BY <1>1, NoElection DEF IsShard
  <1>2. CASE HoldsElection(sh)
    <2>1. Lost(done.replicas, reps, term) \/ Won(done.replicas, reps, c, term)
      BY <1>2, ElectionDone DEF IsShard
    <2> HIDE DEF reps, c, term, done
    <2>2. done.replicas[r].online = reps[r].online
      BY <2>1 DEF Lost, Won, Answered, Synced
    <2> QED  BY <2>2 DEF reps, done
  <1> QED  BY <1>1, <1>2
-----------------------------------------------------------------------------
(* No operation loses the term of the last leader.                         *)

LEMMA BecomeTerms ==
    ASSUME NEW sh, StepOK(sh, served), Become(sh)
    PROVE  /\ Terms(replicas, leaderId, served)'
           /\ served' # served => served'[1] > served[1]
  <1>1. replicas' = sh.replicas /\ leaderId' = sh.leader /\ served' = Serving(sh, served)
    BY DEF Become, Serving
  <1> QED  BY <1>1 DEF StepOK, Terms

LEMMA CrashTerms ==
    ASSUME NEW mid, Crash(mid), \A sh \in mid : StepOK(sh, served), served[1] \in Nat
    PROVE  /\ Terms(replicas, leaderId, served)'
           /\ served' # served => served'[1] > served[1]
  <1>1. PICK sh \in mid : replicas' = [r \in Replicas |-> OnDisk(sh.replicas[r])]
    BY DEF Crash
  <1>2. leaderId' = NoReplica /\ served' = served
    BY DEF Crash
  <1>3. Terms([r \in Replicas |-> OnDisk(sh.replicas[r])], NoReplica, served)
    BY DiskTerms
  <1>4. Terms(replicas', leaderId', served')
    BY <1>1, <1>2, <1>3
  <1> QED  BY <1>2, <1>4 DEF Terms

LEMMA ErrorTerms ==
    ASSUME NEW mid, NEW op, Error(mid, op), \A sh \in mid : StepOK(sh, served)
    PROVE  /\ Terms(replicas, leaderId, served)'
           /\ served' # served => served'[1] > served[1]
  <1>1. PICK sh \in mid : Become(sh)
    BY DEF Error
  <1> QED  BY <1>1, BecomeTerms

\* put and erase.
LEMMA WriteStep ==
    ASSUME Terms(replicas, leaderId, served), NEW key \in Keys,
           NEW value \in Values \cup {NoValue}, put_or_erase(key, value)
    PROVE  /\ Terms(replicas, leaderId, served)'
           /\ served' # served => served'[1] > served[1]
  <1> DEFINE command == IF value = NoValue THEN "DELETE" ELSE "PUT"
             sh == WithLeader(Sh)
             c == Context(sh, command, key, value)
             mid == Electing(Sh) \cup (IF CanAppend(sh) THEN Writing(sh, c) ELSE {})
             done == IF CanAppend(sh) THEN Replicate(sh, c) ELSE sh
  <1>1. IsShard(Sh) /\ Sh.replicas = replicas /\ Sh.leader = leaderId
    BY DEF Sh, IsShard
  <1>2. command \in Commands /\ served[1] \in Nat
    BY DEF Commands, Terms
  <1>3. /\ \A x \in Electing(Sh) : StepOK(x, served)
        /\ StepOK(sh, served)
        /\ IsShard(sh)
    BY <1>1, ElectionTerms
  <1> HIDE DEF command, sh
  <1>4. ASSUME CanAppend(sh)
        PROVE  \A x \in Writing(sh, c) \cup {Replicate(sh, c)} : StepOK(x, served)
    <2> DEFINE v == Serving(sh, served)
    <2>1. sh.leader # NoReplica
      BY <1>4 DEF CanAppend, HasLeader
    <2>2. Terms(sh.replicas, sh.leader, v)
      BY <1>3 DEF StepOK
    <2> HIDE DEF v
    <2>3. \A x \in Writing(sh, c) \cup {Replicate(sh, c)} :
             x.leader = sh.leader /\ Terms(x.replicas, sh.leader, v)
      BY <1>2, <1>3, <2>1, <2>2, WriteTerms
    <2> QED  BY <1>3, <2>1, <2>3, LaterStep DEF v
  <1>5. (\A x \in mid : StepOK(x, served)) /\ StepOK(done, served)
    BY <1>3, <1>4
  <1>6. \/ Become(done)
        \/ Error(mid, "write")
        \/ Crash(mid \cup {done})
    BY DEF put_or_erase, Write, Completes, command, sh
  <1> HIDE DEF mid, done
  <1> QED  BY <1>2, <1>5, <1>6, BecomeTerms, ErrorTerms, CrashTerms

LEMMA ElectStep ==
    ASSUME Terms(replicas, leaderId, served), elect_leader
    PROVE  /\ Terms(replicas, leaderId, served)'
           /\ served' # served => served'[1] > served[1]
  <1> DEFINE sh == WithLeader(Sh)
  <1>1. IsShard(Sh) /\ Sh.replicas = replicas /\ Sh.leader = leaderId
    BY DEF Sh, IsShard
  <1>2. served[1] \in Nat
    BY DEF Terms
  <1>3. /\ \A x \in Electing(Sh) : StepOK(x, served)
        /\ StepOK(sh, served)
    BY <1>1, ElectionTerms
  <1>4. Become(sh) \/ Error(Electing(Sh), "elect") \/ Crash(Electing(Sh))
    BY DEF elect_leader, Completes
  <1> HIDE DEF sh
  <1> QED  BY <1>2, <1>3, <1>4, BecomeTerms, ErrorTerms, CrashTerms

LEMMA FailStep ==
    ASSUME Terms(replicas, leaderId, served), NEW r \in Replicas, fail_replica(r)
    PROVE  /\ Terms(replicas, leaderId, served)'
           /\ served' # served => served'[1] > served[1]
  <1> DEFINE p == set_online(replicas[r], FALSE)
             next == [replicas EXCEPT ![r] = p]
             l == IF leaderId = r THEN NoReplica ELSE leaderId
             sh == [replicas |-> next, leader |-> l]
  <1>1. /\ replicas = [s \in Replicas |-> replicas[s]]
        /\ \A s \in Replicas : TermsOK(replicas[s])
    BY DEF Terms
  <1>2. TermsOK(p) /\ p.meta = replicas[r].meta
    <2>1. Rep(replicas[r]) /\ replicas[r].meta.currentTerm <= replicas[r].currentTerm
      BY <1>1 DEF TermsOK
    <2>2. /\ Shape(p) /\ p.online = FALSE /\ p.meta = replicas[r].meta
          /\ p.currentTerm = replicas[r].currentTerm
          /\ p.commitIndex = replicas[r].commitIndex /\ p.log = replicas[r].log
      BY <2>1, OnlineFields DEF Rep
    <2> HIDE DEF p
    <2> QED  BY <2>1, <2>2 DEF TermsOK, Rep
  <1> HIDE DEF p
  <1>3. /\ next = [s \in Replicas |-> next[s]]
        /\ \A s \in Replicas : next[s] = IF s = r THEN p ELSE replicas[s]
    BY <1>1
  <1> HIDE DEF next
  <1>4. \A s \in Replicas : TermsOK(next[s]) /\ next[s].meta = replicas[s].meta
    BY <1>1, <1>2, <1>3
  <1>5. leaderId # r /\ leaderId # NoReplica => next[leaderId] = replicas[leaderId]
    BY <1>3 DEF Terms
  <1>6. Terms(next, l, served)
    BY <1>3, <1>4, <1>5 DEF Terms
  <1>7. sh.replicas = next /\ sh.leader = l
    OBVIOUS
  <1>8. Become(sh)
    BY DEF fail_replica, Completes, next, p
  <1> HIDE DEF sh, l
  <1>9. StepOK(sh, served)
    BY <1>6, <1>7, SameStep
  <1> QED  BY <1>8, <1>9, BecomeTerms

LEMMA RecoverStep ==
    ASSUME Terms(replicas, leaderId, served), NEW r \in Replicas, recover_replica(r)
    PROVE  /\ Terms(replicas, leaderId, served)'
           /\ served' # served => served'[1] > served[1]
  <1> DEFINE b == set_online(replicas[r], TRUE)
             next == [replicas EXCEPT ![r] = b]
             back == [Sh EXCEPT !.replicas[r] = set_online(@, TRUE)]
             sh == WithLeader(back)
             syncs == HasLeader(sh) /\ sh.leader # r
             snapshot == export_snapshot(sh.replicas[sh.leader])
             mid == Electing(back) \cup
                    (IF syncs THEN {[sh EXCEPT !.replicas[r] = p] :
                                      p \in Installing(sh.replicas[r], snapshot)} ELSE {})
             q == persist_state(Installed(sh.replicas[r], snapshot))
             done == IF syncs
                     THEN [sh EXCEPT !.replicas[r] = persist_state(Installed(@, snapshot))]
                     ELSE sh
  <1>1. /\ replicas = [s \in Replicas |-> replicas[s]]
        /\ \A s \in Replicas : TermsOK(replicas[s])
        /\ served[1] \in Nat
    BY DEF Terms
  <1>2. TermsOK(b) /\ b.meta = replicas[r].meta /\ b.online = TRUE
        /\ b.currentTerm = replicas[r].currentTerm
    <2>1. Rep(replicas[r]) /\ replicas[r].meta.currentTerm <= replicas[r].currentTerm
      BY <1>1 DEF TermsOK
    <2>2. /\ Shape(b) /\ b.online = TRUE /\ b.meta = replicas[r].meta
          /\ b.currentTerm = replicas[r].currentTerm
          /\ b.commitIndex = replicas[r].commitIndex /\ b.log = replicas[r].log
      BY <2>1, OnlineFields DEF Rep
    <2> HIDE DEF b
    <2> QED  BY <2>1, <2>2 DEF TermsOK, Rep
  <1>3. back.replicas = next /\ back.leader = leaderId /\ IsShard(back)
    <2>1. Sh.replicas = replicas /\ Sh.leader = leaderId /\ IsShard(Sh)
      BY DEF Sh, IsShard
    <2>2. back = [Sh EXCEPT !.replicas = next]
      BY <2>1
    <2> HIDE DEF back, next
    <2>3. back = [replicas |-> next, leader |-> leaderId]
      BY <2>2 DEF Sh
    <2> QED  BY <2>3 DEF IsShard
  <1>4. \/ Become(done)
        \/ Error(mid, "recover")
        \/ Crash(mid \cup {done})
    BY DEF recover_replica, Completes
  <1> HIDE DEF b, back
  <1>5. /\ next = [s \in Replicas |-> next[s]]
        /\ \A s \in Replicas : next[s] = IF s = r THEN b ELSE replicas[s]
    BY <1>1
  <1> HIDE DEF next
  <1>6. \A s \in Replicas : TermsOK(next[s]) /\ next[s].meta = replicas[s].meta
                            /\ next[s].currentTerm = replicas[s].currentTerm
    BY <1>1, <1>2, <1>5
  <1>7. leaderId # NoReplica => next[leaderId].online = TRUE
    BY <1>2, <1>5 DEF Terms
  <1>8. Terms(next, leaderId, served)
    BY <1>5, <1>6, <1>7 DEF Terms
  <1>9. /\ \A x \in Electing(back) : StepOK(x, served)
        /\ StepOK(sh, served)
        /\ IsShard(sh)
    BY <1>3, <1>8, ElectionTerms
  <1>10. Reps(next)
    BY <1>5, <1>6 DEF Reps, TermsOK
  <1>11. sh.replicas[r].online = TRUE
    <2>1. sh.replicas[r].online = back.replicas[r].online
      BY <1>3, <1>10, OnlineKept
    <2> QED  BY <1>2, <1>3, <1>5, <2>1
  <1> DEFINE v == Serving(sh, served)
  <1>12. Terms(sh.replicas, sh.leader, v)
    BY <1>9 DEF StepOK
  <1> HIDE DEF sh, v
  <1>13. ASSUME syncs
         PROVE  /\ \A p \in Installing(sh.replicas[r], snapshot) : TermsOK(p)
                /\ TermsOK(q)
    <2> DEFINE o == sh.replicas[r]
               w == sh.replicas[sh.leader]
    <2>1. TermsOK(o) /\ TermsOK(w)
      BY <1>12, <1>13 DEF Terms, HasLeader
    <2>2. Rep(o) /\ w.currentTerm \in Nat /\ w.commitIndex \in Nat /\ w.log \in Seq(Entry)
      BY <2>1 DEF TermsOK, Rep
    <2> HIDE DEF w
    <2>3. /\ snapshot.term = w.currentTerm /\ snapshot.commitIndex = w.commitIndex
          /\ snapshot.log = truncate_log_from(w.log, w.commitIndex + 1)
      BY DEF export_snapshot, w
    <2>4. truncate_log_from(w.log, w.commitIndex + 1) \in Seq(Entry)
      BY <2>2, TruncatedLog
    <2> HIDE DEF snapshot
    <2>5. /\ snapshot.term \in Nat /\ snapshot.commitIndex \in Nat
          /\ snapshot.log \in Seq(Entry)
      BY <2>2, <2>3, <2>4, ZenonT(40)
    <2>6. o.online = TRUE
      BY <1>11
    <2> HIDE DEF o
    <2>7. ASSUME NEW p \in Installing(o, snapshot)
          PROVE  TermsOK(p)
      <3>1. p = o \/ Filling(p, o, snapshot)
        BY <2>2, <2>5, <2>6, InstallingStates
      <3> QED  BY <2>1, <2>2, <2>5, <3>1, FillingTerms
    <2> DEFINE g == Installed(o, snapshot)
    <2>8. /\ Shape(g) /\ g.online = o.online
          /\ g.currentTerm = Larger(o.currentTerm, snapshot.term)
          /\ g.commitIndex = Smaller(snapshot.commitIndex, last_log_index(snapshot.log))
          /\ g.log = snapshot.log
          /\ g.meta.currentTerm = 0 /\ g.meta.commitIndex = 0
      BY <2>2, <2>6, InstalledFields DEF Rep
    <2> HIDE DEF g
    <2>9. /\ Larger(o.currentTerm, snapshot.term) \in Nat
          /\ Smaller(snapshot.commitIndex, last_log_index(snapshot.log)) \in Nat
      BY <2>2, <2>5, LogEnd, SMT DEF Larger, Smaller, Rep
    <2>10. Rep(g)
      BY <2>2, <2>5, <2>8, <2>9, SMT DEF Rep
    <2>11. TermsOK(persist_state(g))
      BY <2>10, PersistTerms
    <2> QED  BY <2>7, <2>11 DEF o, g
  <1> DEFINE S == Installing(sh.replicas[r], snapshot)
  <1>14. done = IF syncs THEN [sh EXCEPT !.replicas[r] = q] ELSE sh
    BY <1>9 DEF IsShard
  <1>15. syncs => sh.leader # NoReplica /\ sh.leader # r
    BY DEF HasLeader
  <1> HIDE DEF q, snapshot, syncs, S
  <1>16. ASSUME syncs, NEW p, TermsOK(p)
         PROVE  StepOK([sh EXCEPT !.replicas[r] = p], served)
    <2> DEFINE x == [sh EXCEPT !.replicas[r] = p]
    <2>1. x.leader = sh.leader /\ Terms(x.replicas, sh.leader, v)
      BY <1>9, <1>12, <1>15, <1>16, ReplacedTerms
    <2> HIDE DEF x
    <2>2. StepOK(x, served)
      BY <1>9, <1>15, <1>16, <2>1, LaterStep DEF v
    <2> QED  BY <2>2 DEF x
  <1>17. StepOK(done, served)
    BY <1>9, <1>13, <1>14, <1>16
  <1>18. \A x \in mid : StepOK(x, served)
    BY <1>9, <1>13, <1>16
  <1> HIDE DEF mid, done
  <1> QED  BY <1>1, <1>4, <1>17, <1>18, BecomeTerms, ErrorTerms, CrashTerms

LEMMA BootStep ==
    ASSUME Terms(replicas, leaderId, served), Boot
    PROVE  /\ Terms(replicas, leaderId, served)'
           /\ served' # served => served'[1] > served[1]
  <1> DEFINE loaded == [r \in Replicas |->
                           IF replicas[r].lastApplied < replicas[r].commitIndex
                           THEN persist_state(load_state(replicas[r])) ELSE replicas[r]]
             started == [replicas |-> loaded, leader |-> NoReplica]
             sh == WithLeader(started)
             progress == [r \in Replicas |->
                             Loading(replicas[r], load_state(replicas[r]))]
             M == Midway(Replicas, replicas, loaded, progress)
             mid == Electing(started) \cup {[started EXCEPT !.replicas = x] : x \in M}
  <1>1. /\ replicas = [r \in Replicas |-> replicas[r]]
        /\ \A r \in Replicas : TermsOK(replicas[r])
        /\ served[1] \in Nat
        /\ \E s \in Replicas : served[1] <= replicas[s].meta.currentTerm
    BY DEF Terms
  <1>2. Become(sh) \/ Crash(mid)
    BY DEF Boot
  <1>3. loaded = [r \in Replicas |-> loaded[r]]
    OBVIOUS
  <1>4. ASSUME NEW r \in Replicas, NEW p,
               p \in {replicas[r], loaded[r]} \cup progress[r]
        PROVE  TermsOK(p) /\ p.meta.currentTerm >= replicas[r].meta.currentTerm
    <2> DEFINE o == replicas[r]
               g == load_state(o)
    <2>1. TermsOK(o) /\ Rep(o)
      BY <1>1 DEF TermsOK
    <2>2. loaded[r] \in {o, persist_state(g)} /\ progress[r] = Loading(o, g)
      OBVIOUS
    <2> HIDE DEF loaded, progress, o
    <2>3. o.meta.currentTerm \in Nat /\ o.currentTerm \in Nat
          /\ o.meta.currentTerm <= o.currentTerm
      BY <2>1 DEF TermsOK, Rep
    <2>4. /\ Shape(g) /\ g.online = TRUE /\ g.meta = o.meta
          /\ g.currentTerm = o.currentTerm /\ g.log = o.log
          /\ g.commitIndex = o.commitIndex
      BY <2>1, LoadFields DEF Rep
    <2>5. p = o \/ p = persist_state(g) \/ p \in Loading(o, g)
      BY <1>4, <2>2 DEF o
    <2>6. ASSUME p \in Loading(o, g)
          PROVE  Between(p, o, g)
      BY <2>1, <2>6, LoadingStates DEF Rep
    <2> HIDE DEF g
    <2>7. Rep(g)
      BY <2>1, <2>4 DEF Rep
    <2>8. CASE p = o
      BY <2>1, <2>3, <2>8, SMT DEF o
    <2>9. CASE p = persist_state(g)
      <3>1. TermsOK(p) /\ p.meta.currentTerm = g.currentTerm
        BY <2>7, <2>9, PersistTerms
      <3> QED  BY <2>3, <2>4, <3>1 DEF o
    <2>10. CASE p \in Loading(o, g)
      <3>1. Between(p, o, g) /\ g.currentTerm >= o.currentTerm
        BY <2>3, <2>4, <2>6, <2>10, SMT
      <3>2. TermsOK(p)
        BY <2>1, <2>7, <3>1, BetweenTerms
      <3>3. p.meta.currentTerm \in {o.meta.currentTerm, g.currentTerm}
        BY <3>1 DEF Between
      <3> QED  BY <2>3, <2>4, <3>2, <3>3, SMT DEF o
    <2> QED  BY <2>5, <2>8, <2>9, <2>10
  <1>5. ASSUME NEW x \in M \cup {loaded}
        PROVE  Terms(x, NoReplica, served)
    <2>1. /\ x = [r \in Replicas |-> x[r]]
          /\ \A r \in Replicas : x[r] \in {replicas[r], loaded[r]} \cup progress[r]
      <3>1. CASE x = loaded
        BY <1>3, <3>1
      <3>2. CASE x \in M
        <4> HIDE DEF loaded, progress
        <4>1. /\ x = [r \in Replicas |-> x[r]]
              /\ \A r \in Replicas :
                    \/ x[r] = replicas[r]
                    \/ r \in Replicas /\ (x[r] = loaded[r] \/ x[r] \in progress[r])
          BY <3>2, MidwayStates, SMT
        <4> QED  BY <4>1
      <3> QED  BY <3>1, <3>2
    <2> HIDE DEF loaded, progress, M
    <2>2. \A r \in Replicas : TermsOK(x[r])
                              /\ x[r].meta.currentTerm >= replicas[r].meta.currentTerm
      BY <1>4, <2>1
    <2>3. PICK s \in Replicas : served[1] <= replicas[s].meta.currentTerm
      BY <1>1
    <2>4. served[1] <= x[s].meta.currentTerm
      <3>1. x[s].meta.currentTerm \in Nat /\ replicas[s].meta.currentTerm \in Nat
        BY <1>1, <2>2 DEF TermsOK, Rep
      <3> QED  BY <1>1, <2>2, <2>3, <3>1, SMT
    <2> QED  BY <1>1, <2>1, <2>2, <2>4 DEF Terms
  <1> HIDE DEF M, loaded
  <1>6. started.replicas = loaded /\ started.leader = NoReplica /\ IsShard(started)
    BY DEF IsShard
  <1>7. /\ \A x \in Electing(started) : StepOK(x, served)
        /\ StepOK(sh, served)
        /\ IsShard(sh)
    BY <1>5, <1>6, ElectionTerms
  <1>8. ASSUME NEW x \in M
        PROVE  StepOK([started EXCEPT !.replicas = x], served)
    <2> DEFINE y == [started EXCEPT !.replicas = x]
    <2>1. y.replicas = x /\ y.leader = NoReplica
      OBVIOUS
    <2> HIDE DEF y
    <2>2. StepOK(y, served)
      BY <1>5, <2>1, SameStep
    <2> QED  BY <2>2 DEF y
  <1> HIDE DEF started, sh
  <1>9. \A x \in mid : StepOK(x, served)
    BY <1>7, <1>8
  <1> HIDE DEF mid
  <1> QED  BY <1>1, <1>2, <1>7, <1>9, BecomeTerms, CrashTerms

LEMMA TermsStep ==
    ASSUME Terms(replicas, leaderId, served), [Next]_vars
    PROVE  /\ Terms(replicas, leaderId, served)'
           /\ served' # served => served'[1] > served[1]
  <1>1. CASE UNCHANGED vars
    BY <1>1 DEF vars, Terms
  <1>2. CASE Next
    BY <1>2, WriteStep, FailStep, RecoverStep, ElectStep, BootStep DEF Next
  <1> QED  BY <1>1, <1>2

LEMMA TermsInit ==
    ASSUME Init
    PROVE  Terms(replicas, leaderId, served)
  <1>1. /\ replicas = [r \in Replicas |-> NewReplica]
        /\ leaderId = NoReplica /\ served[1] = 0
    BY DEF Init
  <1>2. TermsOK(NewReplica) /\ NewReplica.meta.currentTerm = 0
    <2>1. /\ NewReplica.online = TRUE /\ NewReplica.currentTerm = 0
          /\ NewReplica.commitIndex = 0 /\ NewReplica.log = << >>
          /\ NewReplica.meta.currentTerm = 0 /\ NewReplica.meta.commitIndex = 0
      BY DEF NewReplica, NoMeta, EmptyLog
    <2>2. Shape(NewReplica)
      BY DEF Shape, RepFields, MetaFields, NewReplica, NoMeta
    <2>3. << >> \in Seq(Entry) /\ 0 \in Nat /\ 0 <= 0
      BY SMT
    <2> QED  BY <2>1, <2>2, <2>3 DEF TermsOK, Rep
  <1>3. 0 \in Replicas
    BY NAssumption, SMT DEF Replicas
  <1>4. \A r \in Replicas : replicas[r] = NewReplica
    BY <1>1
  <1>5. served[1] <= replicas[0].meta.currentTerm
    BY <1>1, <1>2, <1>3, <1>4, SMT
  <1>6. replicas = [r \in Replicas |-> replicas[r]]
    BY <1>1, <1>4
  <1> QED  BY <1>1, <1>2, <1>3, <1>4, <1>5, <1>6, SMT DEF Terms

\* A leader of a shard has a larger term than all leaders before it, through
\* crashes and failing statements between any two statements of any operation
\* of ShardGroup: some database remembers the last leader's term, and NextTerm
\* is above all of them.
THEOREM LeaderTermsGrow == Spec => LeaderTermsAdvance
  <1> DEFINE Inv == Terms(replicas, leaderId, served)
  <1>1. Init => Inv
    BY TermsInit
  <1>2. Inv /\ [Next]_vars => Inv'
    BY TermsStep
  <1>3. Inv /\ [Next]_vars => [served' # served => served'[1] > served[1]]_vars
    BY TermsStep
  <1> HIDE DEF Inv
  <1> QED  BY <1>1, <1>2, <1>3, PTL DEF Spec, LeaderTermsAdvance
=============================================================================
