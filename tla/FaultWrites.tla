----------------------------- MODULE FaultWrites ----------------------------
(***************************************************************************)
(* replicate_command_locked, cut short at any statement.                   *)
(*                                                                         *)
(* A write takes a shard that has committed C to one that has committed C  *)
(* or C and the new entry.  Every state that it passes through fits one of *)
(* the two: the entry counts from the moment the commit index of the       *)
(* leader is on its disk.                                                  *)
(***************************************************************************)
EXTENDS FaultSteps

\* The steps are first-order reasoning unless they say otherwise.
USE Zenon

(* The logs.  ld is the leader that has appended e to old, its log.        *)

\* The leader before a follower's turn.
Writes(ld, index, old, e, C) ==
    /\ Appended(ld, index, old, e)
    /\ C \in Seq(Entry) /\ Sorted(C)
    /\ Extends(old, C) /\ Sorted(old) /\ Capped(old, e.term)
    /\ ld.commitIndex = Len(C) /\ ld.currentTerm = e.term

\* A follower that is level with it holds C.
LEMMA LevelHolds ==
    ASSUME NEW f, Rep(f), f.online = TRUE, NEW ld, NEW index, NEW old, NEW e, NEW C,
           Writes(ld, index, old, e, C), Fit(f.log, f.commitIndex, C),
           f.currentTerm <= ld.currentTerm
    PROVE  LET g == Levelled(f, ld)
           IN  /\ Rep(g) /\ g.log = C /\ g.commitIndex = Len(C)
               /\ g.currentTerm <= ld.currentTerm
  <1> DEFINE g == Levelled(f, ld)
             short == truncate_log_from(ld.log, ld.commitIndex + 1)
  <1>1. /\ Rep(ld) /\ C \in Seq(Entry) /\ ld.commitIndex = Len(C) /\ Extends(ld.log, C)
    <2>1. Extends(Append(old, e), C)
      BY AppendExtends DEF Writes, Appended
    <2> QED  BY <2>1 DEF Writes, Appended
  <1>2. /\ Rep(g)
        /\ \/ /\ g = f /\ f.commitIndex = ld.commitIndex
              /\ last_log_index(f.log) = ld.commitIndex
           \/ /\ g.currentTerm = Larger(f.currentTerm, ld.currentTerm)
              /\ g.log = short
              /\ g.commitIndex = Smaller(ld.commitIndex, last_log_index(short))
    BY <1>1, LevelFields, ZenonT(40)
  <1>3. short = C
    BY <1>1, CutFits, SMT
  <1>4. last_log_index(C) = Len(C) /\ last_log_index(f.log) = Len(f.log)
    BY <1>1, LogEnd DEF Fit
  <1> HIDE DEF g, short
  <1>5. CASE g = f /\ f.commitIndex = ld.commitIndex /\ last_log_index(f.log) = ld.commitIndex
    <2>1. /\ f.log \in Seq(Entry) /\ Len(f.log) = Len(C)
          /\ \A i \in 1 .. Len(C) : f.log[i] = C[i]
      BY <1>1, <1>4, <1>5 DEF Fit
    <2>2. f.log = C
      BY <1>1, <2>1, SMT
    <2> QED  BY <1>1, <1>2, <1>5, <2>2 DEF g
  <1>6. CASE /\ g.currentTerm = Larger(f.currentTerm, ld.currentTerm)
             /\ g.log = short
             /\ g.commitIndex = Smaller(ld.commitIndex, last_log_index(short))
    <2>1. Larger(f.currentTerm, ld.currentTerm) <= ld.currentTerm
      BY <1>1, SMT DEF Larger, Rep
    <2>2. Smaller(ld.commitIndex, last_log_index(short)) = Len(C)
      BY <1>1, <1>3, <1>4 DEF Smaller
    <2> QED  BY <1>2, <1>3, <1>6, <2>1, <2>2 DEF g
  <1> QED  BY <1>2, <1>5, <1>6

\* The follower s after its turn, whether it has taken e or not.
Turned(s, e, C) ==
    /\ Rep(s) /\ s.online = TRUE
    /\ s.commitIndex = Len(C) /\ s.currentTerm = e.term
    /\ s.log \in {C, Append(C, e)}

\* f has become s in its turn.
TurnOf(s, f, ld, index, old, e, C) ==
    LET accepted == AppendAccepted(Levelled(f, ld), ld.currentTerm, index - 1,
                                   term_at(ld, index - 1))
    IN  /\ Turned(s, e, C) /\ s.meta = f.meta
        /\ accepted => old = C /\ s.log = Append(C, e)
        /\ ~accepted => s.log = C

\* A follower takes e exactly if the leader had nothing behind C.
LEMMA SentHolds ==
    ASSUME NEW f, Rep(f), f.online = TRUE, NEW ld, NEW index, NEW old, NEW e, NEW C,
           Writes(ld, index, old, e, C), Fit(f.log, f.commitIndex, C),
           f.currentTerm <= ld.currentTerm, NEW l
    PROVE  TurnOf(Sent(f, l, ld, index), f, ld, index, old, e, C)
  <1> DEFINE s == Sent(f, l, ld, index)
             g == Levelled(f, ld)
             accepted == AppendAccepted(g, ld.currentTerm, index - 1, term_at(ld, index - 1))
             commit == Smaller(ld.commitIndex, last_log_index(s.log))
  <1>1. /\ Appended(ld, index, old, e) /\ C \in Seq(Entry) /\ Extends(old, C)
        /\ ld.commitIndex = Len(C) /\ ld.currentTerm = e.term
        /\ old \in Seq(Entry) /\ e \in Entry
    BY DEF Writes, Appended
  <1>2. /\ Rep(g) /\ g.log = C /\ g.commitIndex = Len(C) /\ g.currentTerm <= ld.currentTerm
    BY LevelHolds
  <1>3. /\ Rep(s) /\ s.online = f.online /\ s.meta = f.meta
        /\ ld.currentTerm >= g.currentTerm => s.currentTerm = ld.currentTerm
        /\ ~accepted => s.log = g.log /\ s.commitIndex = g.commitIndex
        /\ accepted => /\ Len(old) \in 0 .. Len(g.log)
                       /\ s.log = MergeLog(g.log, [i \in {Len(old) + 1} |-> e])
                       /\ s.commitIndex = IF commit <= g.commitIndex
                                          THEN g.commitIndex ELSE commit
    <2>1. SentOK(s, f, ld, index, old, e)
      BY <1>1, SentFields
    <2> HIDE DEF s
    <2> QED  BY <2>1 DEF SentOK
  <1> HIDE DEF s, g, accepted
  <1>4. s.currentTerm = e.term
    BY <1>1, <1>2, <1>3 DEF Rep
  <1>5. ASSUME accepted
        PROVE  old = C /\ s.log = Append(C, e) /\ s.commitIndex = Len(C)
    <2>1. Len(old) = Len(C) /\ \A i \in 1 .. Len(C) : old[i] = C[i]
      BY <1>1, <1>2, <1>3, <1>5, SMT DEF Extends
    <2>2. old = C
      BY <1>1, <2>1, SMT
    <2>3. s.log = MergeLog(C, [i \in {Len(C) + 1} |-> e])
      BY <1>2, <1>3, <1>5, <2>2
    <2>4. Len(C) \in 0 .. Len(C)
      BY <1>1, SMT
    <2>5. MergeLog(C, [i \in {Len(C) + 1} |-> e]) = Append(C, e)
      BY <1>1, <2>4, MergeLogOne
    <2>6. s.log = Append(C, e) /\ s.log \in Seq(Entry) /\ Len(s.log) = Len(C) + 1
      <3>1. s.log = Append(C, e)
        BY <2>3, <2>5
      <3> QED  BY <1>1, <3>1, SMT
    <2>7. last_log_index(s.log) = Len(C) + 1
      BY <2>6, LogEnd
    <2>8. commit = Len(C)
      BY <1>1, <2>7, SMT DEF Smaller
    <2>9. s.commitIndex = Len(C)
      BY <1>2, <1>3, <1>5, <2>8
    <2> QED  BY <2>2, <2>6, <2>9
  <1>6. Turned(s, e, C)
    BY <1>2, <1>3, <1>4, <1>5 DEF Turned
  <1> QED  BY <1>2, <1>3, <1>5, <1>6 DEF TurnOf, s, g, accepted

\* The logs a follower may hold during the write.
LEMMA TurnedLogs ==
    ASSUME NEW ld, NEW index, NEW old, NEW e, NEW C, Writes(ld, index, old, e, C),
           NEW log \in {C, Append(C, e)}
    PROVE  /\ log \in Seq(Entry) /\ Fit(log, Len(C), C) /\ Capped(log, e.term)
           /\ Before(log, e.term, Len(C) + 1)
  <1>1. /\ C \in Seq(Entry) /\ Sorted(C) /\ e \in Entry /\ Capped(C, e.term)
        /\ Extends(C, C)
    BY SMT DEF Writes, Appended, Extends, Capped
  <1>2. /\ Extends(Append(C, e), C) /\ Sorted(Append(C, e))
        /\ Capped(Append(C, e), e.term)
        /\ last_log_term(Append(C, e)) = e.term
    BY <1>1, AppendExtends
  <1>3. Len(Append(C, e)) = Len(C) + 1 /\ Append(C, e) \in Seq(Entry) /\ Len(C) \in Nat
    BY <1>1, SMT
  <1>4. e.term \in Nat
    BY <1>1 DEF Entry
  <1>5. CASE log = C
    <2>1. /\ last_log_term(C) = IF Len(C) = 0 THEN 0 ELSE C[Len(C)].term
          /\ last_log_term(C) \in Nat
      BY <1>1, LogEnd
    <2>2. Len(C) # 0 => C[Len(C)].term <= e.term
      BY <1>1, <1>3, SMT DEF Capped
    <2>3. Before(C, e.term, Len(C) + 1)
      BY <1>3, <1>4, <2>1, <2>2, SMT DEF Before
    <2>4. Fit(C, Len(C), C)
      BY <1>1, LongFits
    <2> QED  BY <1>1, <1>5, <2>3, <2>4
  <1>6. CASE log = Append(C, e)
    <2> DEFINE D == Append(C, e)
    <2>1. Fit(D, Len(C), C)
      BY <1>1, <1>2, LongFits
    <2> HIDE DEF D
    <2>2. Before(D, e.term, Len(C) + 1)
      BY <1>2, <1>3, SMT DEF Before, D
    <2> QED  BY <1>2, <1>3, <1>6, <2>1, <2>2 DEF D
  <1> QED  BY <1>5, <1>6

\* D, the log of ld, continues C with e at its end.
More(D, ld, index, e, C) ==
    /\ D \in Seq(Entry) /\ Sorted(D) /\ Extends(D, C) /\ Capped(D, e.term)
    /\ Len(D) \in Nat /\ Len(D) = index /\ D[Len(D)] = e /\ Len(D) >= Len(C) + 1
    /\ last_log_term(D) = e.term /\ ld.log = D /\ e.term \in Nat
    /\ Fit(D, Len(C), C) /\ Fit(D, Len(C), D) /\ Fit(D, Len(D), D)

\* What the leader commits if it does.
LEMMA WritesMore ==
    ASSUME NEW ld, NEW index, NEW old, NEW e, NEW C, Writes(ld, index, old, e, C),
           NEW D, D = Append(old, e)
    PROVE  More(D, ld, index, e, C)
  <1>1. /\ C \in Seq(Entry) /\ Extends(old, C) /\ Sorted(old) /\ Capped(old, e.term)
        /\ e \in Entry /\ old \in Seq(Entry) /\ ld.log = D /\ index = Len(old) + 1
    BY DEF Writes, Appended
  <1>2. Extends(D, C) /\ Sorted(D) /\ Capped(D, e.term) /\ last_log_term(D) = e.term
    BY <1>1, AppendExtends
  <1>3. D \in Seq(Entry) /\ Len(D) = Len(old) + 1 /\ D[Len(D)] = e
    BY <1>1, SMT
  <1>4. Len(D) \in Nat /\ Len(D) >= Len(C) + 1 /\ Len(D) = index /\ Len(C) \in Nat
    BY <1>1, <1>3, SMT DEF Extends
  <1>5. e.term \in Nat
    BY <1>1 DEF Entry
  <1>6. Fit(D, Len(C), C)
    BY <1>1, <1>2, LongFits
  <1>7. Before(D, e.term, Len(D))
    BY <1>2, <1>4, SMT DEF Before
  <1>8. Fit(D, Len(C), D)
    BY <1>1, <1>2, <1>3, <1>6, <1>7, FitsLater
  <1>9. Fit(D, Len(D), D)
    BY <1>2, <1>3, <1>4, SMT DEF Fit
  <1> QED  BY <1>1, <1>2, <1>3, <1>4, <1>5, <1>6, <1>8, <1>9 DEF More

\* A follower that is online, before its turn.
Follower(f, ld, C) ==
    /\ Rep(f) /\ f.online = TRUE /\ Stored(f)
    /\ Fit(f.log, f.commitIndex, C)
    /\ f.currentTerm <= ld.currentTerm /\ Capped(f.log, ld.currentTerm)

\* A replica with C or C and e on its disk holds C.
LEMMA TurnedHeld ==
    ASSUME NEW ld, NEW index, NEW old, NEW e, NEW C, Writes(ld, index, old, e, C),
           NEW p, Rep(p), p.log \in {C, Append(C, e)}, p.meta.commitIndex = Len(C)
    PROVE  Held(p, C) /\ Capped(p.log, e.term) /\ Before(p.log, e.term, Len(C) + 1)
  BY TurnedLogs DEF Held

\* Once level it has C, in memory and on disk.
LEMMA LevelHeld ==
    ASSUME NEW f, NEW ld, NEW index, NEW old, NEW e, NEW C,
           Writes(ld, index, old, e, C), Follower(f, ld, C)
    PROVE  LET k == Level(f, ld)
           IN  /\ Rep(k) /\ k.online = TRUE /\ k.log = C
               /\ k.commitIndex = Len(C) /\ k.meta.commitIndex = Len(C)
               /\ k.currentTerm <= ld.currentTerm
  <1> DEFINE k == Level(f, ld)
             g == Levelled(f, ld)
  <1>1. /\ Rep(f) /\ f.online = TRUE /\ Stored(f) /\ Rep(ld)
        /\ Fit(f.log, f.commitIndex, C) /\ f.currentTerm <= ld.currentTerm
    BY DEF Follower, Writes, Appended
  <1>2. Rep(g) /\ g.log = C /\ g.commitIndex = Len(C) /\ g.currentTerm <= ld.currentTerm
    BY <1>1, LevelHolds
  <1>3. g.online = f.online
    BY <1>1, LevelFields
  <1>4. /\ Same(k, g)
        /\ \/ k = f
           \/ /\ k.meta.currentTerm = k.currentTerm
              /\ k.meta.commitIndex = k.commitIndex
    BY <1>1, LevelPersisted
  <1> HIDE DEF k, g
  <1>5. /\ Shape(k) /\ k.online = TRUE /\ k.log = C /\ k.commitIndex = Len(C)
        /\ k.currentTerm = g.currentTerm
    BY <1>1, <1>2, <1>3, <1>4 DEF Same
  <1>6. k.meta.commitIndex = k.commitIndex /\ k.meta.currentTerm = k.currentTerm
    BY <1>1, <1>4 DEF Stored
  <1>7. Rep(k)
    BY <1>2, <1>4, <1>5, <1>6 DEF Same, Rep
  <1> QED  BY <1>2, <1>5, <1>6, <1>7 DEF k

\* During its turn a follower holds C.
LEMMA SendingHeld ==
    ASSUME NEW f, NEW ld, NEW index, NEW old, NEW e, NEW C,
           Writes(ld, index, old, e, C), Follower(f, ld, C),
           NEW l, NEW p, SendingTo(p, f, l, ld, index)
    PROVE  Held(p, C) /\ Capped(p.log, e.term)
  <1> DEFINE k == Level(f, ld)
             s == Sent(k, l, ld, index)
             S == export_snapshot(ld)
  <1>1. /\ Rep(f) /\ f.online = TRUE /\ Rep(ld) /\ ld.currentTerm = e.term
        /\ ld.commitIndex = Len(C) /\ C \in Seq(Entry) /\ Sorted(C)
    BY DEF Follower, Writes, Appended
  <1>2. /\ Rep(k) /\ k.online = TRUE /\ k.log = C
        /\ k.commitIndex = Len(C) /\ k.meta.commitIndex = Len(C)
        /\ k.currentTerm <= ld.currentTerm
    BY LevelHeld
  <1>3. \/ p = f
        \/ p \in Installing(f, S)
        \/ p \in Appending(k, s)
        \/ p = persist_state(s)
    BY DEF SendingTo, SentTo
  <1> HIDE DEF k
  <1>4. Fit(k.log, k.commitIndex, C) /\ Capped(C, e.term)
    BY <1>2, TurnedLogs
  <1>5. Turned(s, e, C) /\ s.meta = k.meta
    <2>1. TurnOf(s, k, ld, index, old, e, C)
      BY <1>2, <1>4, SentHolds
    <2> QED  BY <2>1 DEF TurnOf
  <1> HIDE DEF s, S
  <1>6. CASE p = f
    <2>1. Fit(f.log, f.meta.commitIndex, C) /\ Capped(f.log, e.term)
      BY <1>1 DEF Follower, Stored
    <2> QED  BY <1>1, <1>6, <2>1 DEF Held
  <1>7. CASE p \in Installing(f, S)
    <2>1. /\ S.term \in Nat /\ S.commitIndex \in Nat /\ S.log \in Seq(Entry)
          /\ S.commitIndex = Len(C)
          /\ S.log = truncate_log_from(ld.log, Len(C) + 1)
      BY <1>1, SnapshotFields, SMT DEF S
    <2>2. Extends(ld.log, C)
      <3>1. More(Append(old, e), ld, index, e, C)
        BY WritesMore
      <3> QED  BY <3>1 DEF More
    <2>3. S.log = C
      BY <1>1, <2>1, <2>2, CutFits
    <2>4. p = f \/ Filling(p, f, S)
      BY <1>1, <1>7, <2>1, InstallingStates
    <2> QED  BY <1>1, <1>4, <1>6, <2>1, <2>3, <2>4, FillingHeld
  <1>8. CASE p \in Appending(k, s)
    <2>1. Rep(s) /\ s.online = TRUE /\ s.commitIndex = Len(C) /\ s.log \in {C, Append(C, e)}
      BY <1>5 DEF Turned
    <2>2. Between(p, k, s)
      BY <1>2, <1>5, <1>8, <2>1, AppendingStates DEF Rep
    <2>3. Rep(p) /\ p.log \in {C, Append(C, e)} /\ p.meta.commitIndex = Len(C)
      BY <1>2, <2>1, <2>2 DEF Between, Rep
    <2> QED  BY <2>3, TurnedHeld
  <1>9. CASE p = persist_state(s)
    <2>1. Rep(s) /\ Shape(s) /\ s.commitIndex = Len(C) /\ s.log \in {C, Append(C, e)}
      BY <1>5 DEF Turned, Rep
    <2>2. /\ Same(p, s) /\ p.meta.currentTerm = s.currentTerm
          /\ p.meta.commitIndex = s.commitIndex
      BY <1>9, <2>1, PersistStep
    <2>3. Rep(p) /\ p.log \in {C, Append(C, e)} /\ p.meta.commitIndex = Len(C)
      BY <2>1, <2>2 DEF Same, Rep
    <2> QED  BY <2>3, TurnedHeld
  <1> QED  BY <1>3, <1>6, <1>7, <1>8, <1>9

\* A follower when the loop over the followers is over.
LEMMA SentHas ==
    ASSUME NEW f, NEW ld, NEW index, NEW old, NEW e, NEW C,
           Writes(ld, index, old, e, C), Follower(f, ld, C), NEW l
    PROVE  LET p == SentTo(f, l, ld, index)
               accepted == AppendAccepted(Levelled(f, ld), ld.currentTerm, index - 1,
                                          term_at(ld, index - 1))
           IN  /\ accepted => old = C /\ Has(p, Append(C, e), Len(C), e.term)
               /\ ~accepted => Has(p, C, Len(C), e.term)
  <1> DEFINE s == Sent(f, l, ld, index)
             accepted == AppendAccepted(Levelled(f, ld), ld.currentTerm, index - 1,
                                        term_at(ld, index - 1))
  <1>1. TurnOf(s, f, ld, index, old, e, C)
    BY SentHolds DEF Follower
  <1> HIDE DEF s
  <1>2. Has(persist_state(s), s.log, s.commitIndex, s.currentTerm)
    BY <1>1, PersistHas DEF TurnOf, Turned
  <1> QED  BY <1>1, <1>2 DEF TurnOf, Turned, SentTo, s

\* Nobody takes an entry unless the leader had committed all its others.
LEMMA SentAccepted ==
    ASSUME NEW f, NEW ld, NEW index, NEW old, NEW e, NEW C,
           Writes(ld, index, old, e, C), Follower(f, ld, C),
           AppendAccepted(Levelled(f, ld), ld.currentTerm, index - 1,
                          term_at(ld, index - 1))
    PROVE  old = C
  <1>1. \A l : old = C /\ Has(SentTo(f, l, ld, index), Append(C, e), Len(C), e.term)
    BY SentHas
  <1> QED  BY <1>1

\* A follower that has refused the entry.
LEMMA SentRefused ==
    ASSUME NEW f, NEW ld, NEW index, NEW old, NEW e, NEW C,
           Writes(ld, index, old, e, C), Follower(f, ld, C), NEW l,
           ~AppendAccepted(Levelled(f, ld), ld.currentTerm, index - 1,
                           term_at(ld, index - 1))
    PROVE  Has(SentTo(f, l, ld, index), C, Len(C), e.term)
  BY SentHas

\* A follower that has taken e, once it was told to commit it.
LEMMA BeatHas ==
    ASSUME NEW f, NEW ld, NEW index, NEW old, NEW e, NEW C,
           Writes(ld, index, old, e, C), Follower(f, ld, C), NEW l,
           AppendAccepted(Levelled(f, ld), ld.currentTerm, index - 1,
                          term_at(ld, index - 1))
    PROVE  LET b == Heartbeat(f, l, ld, index)
           IN  /\ Rep(b) /\ b.online = TRUE
               /\ Has(persist_state(b), Append(C, e), index, e.term)
  <1> DEFINE s == Sent(f, l, ld, index)
             b == Heartbeat(f, l, ld, index)
             D == Append(C, e)
  <1>1. Turned(s, e, C) /\ old = C /\ s.log = D
    <2>1. TurnOf(s, f, ld, index, old, e, C)
      BY SentHolds DEF Follower
    <2> QED  BY <2>1 DEF TurnOf
  <1>2. More(D, ld, index, e, C)
    BY <1>1, WritesMore
  <1>3. b = append_entries(s, ld.currentTerm, l, index, ld.log[index].term,
                           EmptyLog, index)
    BY DEF Heartbeat
  <1> HIDE DEF s, b, D
  <1>4. /\ Rep(s) /\ s.online = TRUE /\ s.commitIndex = Len(C) /\ s.currentTerm = e.term
    BY <1>1 DEF Turned
  <1>5. /\ D \in Seq(Entry) /\ Len(D) \in Nat /\ index = Len(D) /\ D[index] = e
        /\ ld.log = D /\ Len(D) >= Len(C) + 1 /\ e.term \in Nat /\ Len(C) \in Nat
    BY <1>2, SMT DEF More, Writes
  <1>6. ld.currentTerm = e.term
    BY DEF Writes
  <1>7. AppendAccepted(s, ld.currentTerm, index, ld.log[index].term)
    <2>1. term_at(s, index) = e.term
      BY <1>1, <1>5, SMT DEF term_at
    <2> QED  BY <1>4, <1>5, <1>6, <2>1, SMT DEF AppendAccepted
  <1>8. Smaller(index, Len(s.log)) = index
    BY <1>1, <1>5 DEF Smaller
  <1>9. /\ Rep(b) /\ b.online = s.online /\ b.log = s.log
        /\ ld.currentTerm >= s.currentTerm => b.currentTerm = ld.currentTerm
        /\ b.commitIndex = IF Smaller(index, Len(s.log)) <= s.commitIndex
                           THEN s.commitIndex ELSE Smaller(index, Len(s.log))
    <2> DEFINE t == ld.currentTerm
               et == ld.log[index].term
    <2>1. /\ b = append_entries(s, t, l, index, et, EmptyLog, index)
          /\ t \in Nat /\ index \in Nat /\ AppendAccepted(s, t, index, et)
      BY <1>3, <1>5, <1>6, <1>7
    <2> HIDE DEF t, et
    <2>2. BeatOK(b, s, t, index, et)
      BY <1>4, <2>1, BeatFields
    <2> QED  BY <2>1, <2>2 DEF BeatOK, t
  <1>10. b.commitIndex = index /\ b.currentTerm = e.term
    BY <1>4, <1>5, <1>6, <1>8, <1>9, SMT
  <1>11. Rep(b) /\ b.online = TRUE /\ b.log = D
    BY <1>1, <1>4, <1>9
  <1>12. Has(persist_state(b), b.log, b.commitIndex, b.currentTerm)
    BY <1>11, PersistHas
  <1> QED  BY <1>10, <1>11, <1>12 DEF b, D

\* And once it was told to drop it.
LEMMA DropHas ==
    ASSUME NEW f, NEW ld, NEW index, NEW old, NEW e, NEW C,
           Writes(ld, index, old, e, C), Follower(f, ld, C), NEW l
    PROVE  Has(persist_state(Dropped(f, l, ld, index)), C, Len(C), e.term)
  <1> DEFINE s == Sent(f, l, ld, index)
             d == Dropped(f, l, ld, index)
  <1>1. Turned(s, e, C)
    <2>1. TurnOf(s, f, ld, index, old, e, C)
      BY SentHolds DEF Follower
    <2> QED  BY <2>1 DEF TurnOf
  <1>2. d = discard_uncommitted(s)
    BY DEF Dropped
  <1> HIDE DEF s, d
  <1>3. /\ Rep(s) /\ s.online = TRUE /\ s.commitIndex = Len(C) /\ s.currentTerm = e.term
        /\ s.log \in {C, Append(C, e)}
    BY <1>1 DEF Turned
  <1>4. /\ Shape(d) /\ d.online = s.online /\ d.meta = s.meta
        /\ d.currentTerm = s.currentTerm /\ d.commitIndex = s.commitIndex
        /\ d.log = truncate_log_from(s.log, s.commitIndex + 1)
        /\ d.log \in Seq(Entry)
    BY <1>2, <1>3, DiscardFields
  <1>5. truncate_log_from(s.log, Len(C) + 1) = C
    <2>1. C \in Seq(Entry) /\ Fit(s.log, Len(C), C)
      BY <1>3, TurnedLogs DEF Writes
    <2> QED  BY <2>1, SendsCommitted
  <1>6. Rep(d) /\ d.online = TRUE
    BY <1>3, <1>4 DEF Rep
  <1>7. Has(persist_state(d), d.log, d.commitIndex, d.currentTerm)
    BY <1>6, PersistHas
  <1> QED  BY <1>3, <1>4, <1>5, <1>7 DEF d

\* A follower while it learns that e is committed.
LEMMA EndingHeld ==
    ASSUME NEW f, NEW c, NEW old, NEW e, NEW C,
           Writes(c.leader, c.index, old, e, C), Follower(f, c.leader, C),
           AppendAccepted(Levelled(f, c.leader), c.leader.currentTerm, c.index - 1,
                          term_at(c.leader, c.index - 1)),
           NEW final, final = persist_state(Heartbeat(f, c.l, c.leader, c.index)),
           NEW p, EndingFor(p, f, c, final)
    PROVE  Held(p, Append(C, e)) /\ Capped(p.log, e.term)
  <1> DEFINE l == c.l
             ld == c.leader
             index == c.index
             sent == SentTo(f, l, ld, index)
             beat == Heartbeat(f, l, ld, index)
             new == [final EXCEPT !.meta = sent.meta]
             D == Append(C, e)
  <1>1. old = C /\ Has(sent, D, Len(C), e.term)
    BY SentHas
  <1>2. Has(final, D, index, e.term)
    BY BeatHas
  <1>3. \/ p = sent
        \/ p = final
        \/ p \in Appending(sent, new)
    BY DEF EndingFor
  <1>4. More(D, ld, index, e, C)
    BY <1>1, WritesMore
  <1> HIDE DEF sent, D, ld, index
  <1>5. Rep(p) /\ p.log = D /\ p.meta.commitIndex \in {Len(C), index}
    <2>1. CASE p = sent \/ p = final
      BY <1>1, <1>2, <2>1 DEF Has, Stored
    <2>2. CASE p \in Appending(sent, new)
      <3>1. Rep(sent) /\ Shape(sent) /\ Rep(final) /\ Shape(final)
        BY <1>1, <1>2 DEF Has, Rep
      <3>2. Same(new, final) /\ new.meta = sent.meta
        <4>1. sent.meta = [x \in MetaFields |-> sent.meta[x]]
          BY <3>1 DEF Shape
        <4> QED  BY <3>1, <4>1, MetaFieldsOf, SMT
      <3> HIDE DEF new
      <3>3. /\ Rep(new) /\ Shape(new) /\ new.online = sent.online /\ new.meta = sent.meta
            /\ new.log = D /\ new.commitIndex = index
        BY <1>1, <1>2, <3>1, <3>2 DEF Same, Rep, Has
      <3>4. Between(p, sent, new)
        BY <2>2, <3>1, <3>3, AppendingStates
      <3>5. sent.log = D /\ sent.meta.commitIndex = Len(C)
        BY <1>1 DEF Has, Stored
      <3> QED  BY <3>1, <3>3, <3>4, <3>5 DEF Between, Rep
    <2> QED  BY <1>3, <2>1, <2>2
  <1>6. Fit(D, Len(C), D) /\ Fit(D, index, D) /\ Capped(D, e.term)
    BY <1>4 DEF More
  <1> QED  BY <1>5, <1>6 DEF Held, D

\* The leader: now, when it has committed e or dropped it, and on the way.
LeaderStates(ld, index, D, e, C) ==
    /\ Has(ld, D, Len(C), e.term)
    /\ Has(persist_state(commit_to(ld, index)), D, index, e.term)
    /\ Has(discard_uncommitted(ld), C, Len(C), e.term)
    /\ \A p \in Committing(ld, commit_to(ld, index)) :
          /\ Rep(p) /\ p.log = D /\ p.meta.currentTerm = e.term
          /\ p.meta.commitIndex \in {Len(C), index}

LEMMA LeaderHeld ==
    ASSUME NEW ld, NEW index, NEW old, NEW e, NEW C, Writes(ld, index, old, e, C),
           Stored(ld), ld.online = TRUE, NEW D, D = Append(old, e)
    PROVE  LeaderStates(ld, index, D, e, C)
  <1> DEFINE new == commit_to(ld, index)
             drop == discard_uncommitted(ld)
  <1>1. More(D, ld, index, e, C)
    BY WritesMore
  <1>2. /\ Rep(ld) /\ Shape(ld) /\ ld.log = D /\ ld.commitIndex = Len(C) /\ ld.online = TRUE
        /\ ld.currentTerm = e.term /\ C \in Seq(Entry)
    BY <1>1 DEF Writes, Appended, More, Rep
  <1>3. /\ index \in Nat /\ index = Len(D) /\ Len(C) \in Nat /\ index >= Len(C) + 1
        /\ Fit(D, Len(C), C)
    BY <1>1, <1>2, SMT DEF More
  <1>4. Has(ld, D, Len(C), e.term)
    BY <1>2 DEF Has
  <1>5. /\ Shape(new) /\ new.online = ld.online /\ new.meta = ld.meta
        /\ new.currentTerm = ld.currentTerm /\ new.log = ld.log
        /\ new.commitIndex = Larger(ld.commitIndex, Smaller(index, Len(ld.log)))
    <2>1. Rep(ld) /\ index \in Nat
      BY <1>2, <1>3
    <2> QED  BY <2>1, CommitFields
  <1>6. /\ Shape(drop) /\ drop.online = ld.online /\ drop.meta = ld.meta
        /\ drop.currentTerm = ld.currentTerm /\ drop.commitIndex = ld.commitIndex
        /\ drop.log = truncate_log_from(ld.log, ld.commitIndex + 1)
        /\ drop.log \in Seq(Entry)
    BY <1>2, DiscardFields
  <1> HIDE DEF new, drop
  <1>7. new.commitIndex = index
    BY <1>2, <1>3, <1>5, SMT DEF Larger, Smaller
  <1>8. truncate_log_from(D, Len(C) + 1) = C
    BY <1>2, <1>3, SendsCommitted
  <1>9. Has(drop, C, Len(C), e.term)
    BY <1>2, <1>6, <1>8 DEF Has, Stored, Rep
  <1>10. Rep(new) /\ new.online = TRUE
    BY <1>2, <1>3, <1>5, <1>7 DEF Rep
  <1>11. Has(persist_state(new), new.log, new.commitIndex, new.currentTerm)
    BY <1>10, PersistHas
  <1>12. ASSUME NEW p \in Committing(ld, new)
         PROVE  /\ Rep(p) /\ p.log = D /\ p.meta.currentTerm = e.term
                /\ p.meta.commitIndex \in {Len(C), index}
    <2>1. Between(p, ld, new)
      BY <1>2, <1>5, CommittingStates
    <2>2. ld.meta.currentTerm = e.term /\ ld.meta.commitIndex = Len(C)
      BY <1>2 DEF Stored
    <2> QED  BY <1>2, <1>5, <1>7, <1>10, <2>1, <2>2 DEF Between, Rep
  <1> QED  BY <1>2, <1>4, <1>5, <1>7, <1>9, <1>11, <1>12
              DEF LeaderStates, new, drop
-----------------------------------------------------------------------------
(* The shard during a write, and after it.                                 *)

\* The shard sh, which has committed C, is about to replicate e.
Scene(sh, c, e, C) ==
    LET ld == c.leader
        f == sh.replicas
    IN  /\ IsShard(sh) /\ Reps(f) /\ ContextOf(sh, c) /\ sh.leader = c.l
        /\ Writes(ld, c.index, f[c.l].log, e, C) /\ Stored(ld) /\ ld.online = TRUE
        /\ \A r \in c.followers :
              /\ Follower(f[r], ld, C)
              /\ r \in c.acks <=> AppendAccepted(Levelled(f[r], ld), ld.currentTerm,
                                                 c.index - 1, term_at(ld, c.index - 1))
        /\ \A r \in Replicas \ {c.l} :
              /\ Stored(f[r]) /\ Held(f[r], C) /\ f[r].currentTerm <= e.term
              /\ Capped(f[r].log, e.term) /\ Before(f[r].log, e.term, Len(C) + 1)

\* A leader's operation starts like this.
LEMMA SceneStarts ==
    ASSUME NEW sh, NEW C, Sound(sh, C), sh.leader # NoReplica, NEW c, NEW e,
           WriteOf(sh, c, e)
    PROVE  Scene(sh, c, e, C)
  <1> DEFINE f == sh.replicas
             l == sh.leader
             ld == c.leader
             old == f[l].log
  <1>1. /\ IsShard(sh) /\ Whole(f, C) /\ l \in Replicas /\ LeaderOK(f, l, C)
    BY DEF Sound
  <1>2. /\ Reps(f) /\ C \in Seq(Entry) /\ Sorted(C)
        /\ \A r \in Replicas : /\ Rep(f[r]) /\ Stored(f[r])
                               /\ Fit(f[r].log, f[r].commitIndex, C)
    BY <1>1, WholeFields
  <1>3. /\ ContextOf(sh, c) /\ c.l = l /\ Appended(ld, c.index, old, e)
        /\ ld.online = f[l].online /\ ld.meta = f[l].meta
        /\ ld.currentTerm = f[l].currentTerm /\ ld.commitIndex = f[l].commitIndex
        /\ c.acks = Acknowledging(f, c.l, ld, c.index) /\ e.term = f[l].currentTerm
    BY DEF WriteOf
  <1>4. /\ f[l].online = TRUE /\ f[l].commitIndex = Len(C)
        /\ \A r \in Replicas : /\ f[r].currentTerm <= f[l].currentTerm
                               /\ Capped(f[r].log, f[l].currentTerm)
                               /\ r # l => Before(f[r].log, f[l].currentTerm, Len(C) + 1)
    BY <1>1 DEF LeaderOK
  <1>5. \A r \in c.followers : r \in Replicas \ {l} /\ f[r].online = TRUE
    BY <1>2, <1>3 DEF ContextOf, Online, Rep
  <1>6. \A r \in c.followers :
           r \in c.acks <=> AppendAccepted(Levelled(f[r], ld), ld.currentTerm,
                                           c.index - 1, term_at(ld, c.index - 1))
    BY <1>3 DEF ContextOf, Acknowledging
  <1> HIDE DEF f, l, ld, old
  <1>7. Writes(ld, c.index, old, e, C)
    <2>1. /\ Fit(old, Len(C), C) /\ Capped(old, e.term)
      BY <1>1, <1>2, <1>3, <1>4 DEF old
    <2>2. Extends(old, C) /\ Sorted(old)
      BY <1>2, <2>1, SendsCommitted DEF Fit
    <2> QED  BY <1>2, <1>3, <1>4, <2>1, <2>2 DEF Writes
  <1>8. Stored(ld) /\ ld.online = TRUE
    BY <1>1, <1>2, <1>3, <1>4 DEF Stored
  <1>9. \A r \in c.followers : Follower(f[r], ld, C)
    BY <1>2, <1>3, <1>4, <1>5 DEF Follower
  <1>10. \A r \in Replicas : Held(f[r], C)
    BY <1>2 DEF Held, Stored
  <1> QED  BY <1>1, <1>2, <1>3, <1>4, <1>6, <1>7, <1>8, <1>9, <1>10
              DEF Scene, f, l, ld, old

\* The log of a replica that did not take part fits when more is committed.
LEMMA HeldMore ==
    ASSUME NEW D, NEW ld, NEW index, NEW e, NEW C \in Seq(Entry), More(D, ld, index, e, C),
           NEW p, Held(p, C), Before(p.log, e.term, Len(C) + 1)
    PROVE  Held(p, D)
  <1>1. /\ Extends(D, C) /\ D[Len(D)] = e /\ Len(D) \in Nat /\ Len(D) >= Len(C) + 1
    BY DEF More
  <1>2. Rep(p) /\ Fit(p.log, p.meta.commitIndex, C) /\ p.log \in Seq(Entry)
    BY DEF Held, Fit
  <1>3. Before(p.log, D[Len(D)].term, Len(D))
    BY <1>1, <1>2, BeforeLater, SMT
  <1> QED  BY <1>1, <1>2, <1>3, FitsLater DEF Held

\* The follower r when the loop is over, and the replica r that was offline.
After(p, f, e, B, C) ==
    /\ Stored(p) /\ Held(p, B) /\ p.online = f.online /\ p.currentTerm <= e.term
    /\ Capped(p.log, e.term) /\ Before(p.log, e.term, Len(C) + 1)

LEMMA HasAfter ==
    ASSUME NEW ld, NEW index, NEW old, NEW e, NEW C, Writes(ld, index, old, e, C),
           NEW p, NEW log \in {C, Append(C, e)}, Has(p, log, Len(C), e.term),
           NEW f, f.online = TRUE
    PROVE  After(p, f, e, C, C)
  <1>1. /\ Rep(p) /\ Stored(p) /\ p.online = TRUE /\ p.log = log
        /\ p.meta.commitIndex = Len(C) /\ p.currentTerm = e.term
    BY DEF Has, Stored
  <1>2. Held(p, C) /\ Capped(p.log, e.term) /\ Before(p.log, e.term, Len(C) + 1)
    BY <1>1, TurnedHeld
  <1>3. p.currentTerm <= e.term
    BY <1>1, SMT DEF Rep
  <1> QED  BY <1>1, <1>2, <1>3 DEF After

LEMMA SentAfter ==
    ASSUME NEW sh, NEW c, NEW e, NEW C, Scene(sh, c, e, C), NEW r \in c.followers
    PROVE  After(SentTo(sh.replicas[r], c.l, c.leader, c.index), sh.replicas[r], e, C, C)
  <1> DEFINE f == sh.replicas[r]
             ld == c.leader
             old == sh.replicas[c.l].log
             p == SentTo(f, c.l, ld, c.index)
  <1>1. Writes(ld, c.index, old, e, C) /\ Follower(f, ld, C)
    BY DEF Scene
  <1> HIDE DEF f, ld, old
  <1>2. Has(p, Append(C, e), Len(C), e.term) \/ Has(p, C, Len(C), e.term)
    BY <1>1, SentHas
  <1>3. f.online = TRUE
    BY <1>1 DEF Follower
  <1> HIDE DEF p
  <1>4. After(p, f, e, C, C)
    BY <1>1, <1>2, <1>3, HasAfter
  <1> QED  BY <1>4 DEF p, f, ld

\* The loop over the followers.
LEMMA SendingSafe ==
    ASSUME NEW sh, NEW c, NEW e, NEW C, Scene(sh, c, e, C), NEW y \in Sending(sh, c)
    PROVE  Safe(y, C)
  <1> DEFINE f == sh.replicas
             ld == c.leader
             old == f[c.l].log
             D == Append(old, e)
  <1>1. /\ Reps(f) /\ ContextOf(sh, c) /\ c.l \in Replicas
        /\ Writes(ld, c.index, old, e, C) /\ Stored(ld) /\ ld.online = TRUE
        /\ C \in Seq(Entry) /\ Sorted(C)
    BY DEF Scene, ContextOf, Writes
  <1>2. /\ y = [r \in Replicas |-> y[r]]
        /\ y[c.l] = ld
        /\ \A r \in Replicas \ {c.l} :
              /\ r \in c.followers => SendingTo(y[r], f[r], c.l, ld, c.index)
              /\ r \notin c.followers => y[r] = f[r]
    BY <1>1, SendingStates, SMT
  <1>3. Held(ld, C) /\ Capped(ld.log, e.term)
        /\ ld.meta.currentTerm = e.term /\ ld.meta.commitIndex = Len(C)
    <2>1. More(D, ld, c.index, e, C)
      BY <1>1, WritesMore
    <2>2. Rep(ld) /\ ld.commitIndex = Len(C) /\ ld.currentTerm = e.term
      BY <1>1 DEF Writes, Appended
    <2> HIDE DEF D
    <2> QED  BY <1>1, <2>1, <2>2 DEF More, Held, Stored
  <1>4. ASSUME NEW r \in Replicas \ {c.l}
        PROVE  Held(y[r], C) /\ Capped(y[r].log, e.term)
    <2>1. CASE r \in c.followers
      <3>1. Follower(f[r], ld, C) /\ SendingTo(y[r], f[r], c.l, ld, c.index)
        BY <1>2, <2>1 DEF Scene
      <3> HIDE DEF f, ld, old
      <3> QED  BY <1>1, <3>1, SendingHeld
    <2>2. CASE r \notin c.followers
      BY <1>2, <2>2 DEF Scene
    <2> QED  BY <2>1, <2>2
  <1> HIDE DEF f, ld, old
  <1>5. \A r \in Replicas : Held(y[r], C) /\ Capped(y[r].log, e.term)
    BY <1>2, <1>3, <1>4
  <1>6. y[c.l].meta.currentTerm = e.term /\ y[c.l].meta.commitIndex = Len(C)
    BY <1>2, <1>3
  <1> QED  BY <1>1, <1>2, <1>5, <1>6, LeaderSafe

\* Replicate leaves the leader with B.
Left(x, sh, c, e, B, C) ==
    /\ x = [r \in Replicas |-> x[r]]
    /\ Has(x[c.l], B, Len(B), e.term)
    /\ \A r \in Replicas \ {c.l} : After(x[r], sh.replicas[r], e, B, C)

\* After an acknowledgement everything is committed, after a refusal nothing new.
Outcome(c, old, e, C) == IF Replicated(c) THEN Append(old, e) ELSE C

LEMMA DoneLeft ==
    ASSUME NEW sh, NEW c, NEW e, NEW C, Scene(sh, c, e, C),
           NEW B, B = Outcome(c, sh.replicas[c.l].log, e, C),
           NEW done, done = Replicate(sh, c).replicas
    PROVE  /\ Left(done, sh, c, e, B, C)
           /\ Replicated(c) => \A r \in c.acks : done[r].commitIndex = Len(B)
           /\ ~Replicated(c) => \A r \in c.followers : Has(done[r], C, Len(C), e.term)
  <1> DEFINE f == sh.replicas
             ld == c.leader
             old == f[c.l].log
             D == Append(old, e)
  <1>1. /\ IsShard(sh) /\ Reps(f) /\ ContextOf(sh, c) /\ c.l \in Replicas
        /\ Writes(ld, c.index, old, e, C) /\ Stored(ld) /\ ld.online = TRUE
        /\ C \in Seq(Entry)
    BY DEF Scene, ContextOf, Writes
  <1>2. /\ done = [r \in Replicas |-> done[r]]
        /\ done[c.l] = IF Replicated(c) THEN persist_state(commit_to(ld, c.index))
                       ELSE discard_uncommitted(ld)
        /\ \A r \in Replicas \ {c.l} :
              /\ r \in c.acks => done[r] =
                    IF Replicated(c)
                    THEN persist_state(Heartbeat(f[r], c.l, ld, c.index))
                    ELSE persist_state(Dropped(f[r], c.l, ld, c.index))
              /\ r \in c.followers \ c.acks => done[r] = SentTo(f[r], c.l, ld, c.index)
              /\ r \notin c.followers => done[r] = f[r]
    <2>1. DoneOf(Replicate(sh, c), sh, c)
      BY <1>1, ReplicateDone
    <2> QED  BY <2>1 DEF DoneOf
  <1>3. /\ Has(persist_state(commit_to(ld, c.index)), D, c.index, e.term)
        /\ Has(discard_uncommitted(ld), C, Len(C), e.term)
    <2>1. LeaderStates(ld, c.index, D, e, C)
      BY <1>1, LeaderHeld
    <2> HIDE DEF f, ld, old, D
    <2> QED  BY <2>1 DEF LeaderStates
  <1>4. More(D, ld, c.index, e, C)
    BY <1>1, WritesMore
  <1>5. B = IF Replicated(c) THEN D ELSE C
    BY DEF Outcome
  <1>6. c.acks \in SUBSET c.followers /\ c.followers \in SUBSET (Replicas \ {c.l})
    BY <1>1 DEF ContextOf, Online
  <1>7. ASSUME NEW r \in c.followers
        PROVE  /\ Follower(f[r], ld, C) /\ f[r].online = TRUE
               /\ r \in c.acks <=> AppendAccepted(Levelled(f[r], ld), ld.currentTerm,
                                                  c.index - 1, term_at(ld, c.index - 1))
    BY DEF Scene, Follower
  <1>8. \A r \in Replicas \ {c.l} : After(f[r], f[r], e, C, C)
    BY DEF Scene, After
  <1>9. \A r \in c.followers : After(SentTo(f[r], c.l, ld, c.index), f[r], e, C, C)
    BY SentAfter
  <1> HIDE DEF f, ld, old, D
  <1>10. Has(done[c.l], B, Len(B), e.term)
    BY <1>2, <1>3, <1>4, <1>5 DEF More
  <1>11. \A p, q : After(p, q, e, C, C) => After(p, q, e, D, C)
    <2> SUFFICES ASSUME NEW p, NEW q, After(p, q, e, C, C)
                 PROVE  After(p, q, e, D, C)
      OBVIOUS
    <2>1. Held(p, C) /\ Before(p.log, e.term, Len(C) + 1)
      BY DEF After
    <2>2. Held(p, D)
      BY <1>1, <1>4, <2>1, HeldMore
    <2> QED  BY <2>2 DEF After
  <1>12. CASE Replicated(c)
    <2>1. ASSUME NEW r \in c.acks
          PROVE  /\ Has(done[r], D, Len(D), e.term) /\ After(done[r], f[r], e, D, C)
      <3>1. /\ r \in c.followers
            /\ AppendAccepted(Levelled(f[r], ld), ld.currentTerm, c.index - 1,
                              term_at(ld, c.index - 1))
            /\ Follower(f[r], ld, C) /\ f[r].online = TRUE
        BY <1>6, <1>7
      <3>2. done[r] = persist_state(Heartbeat(f[r], c.l, ld, c.index))
        BY <1>2, <1>6, <1>12
      <3>3. Has(done[r], Append(C, e), c.index, e.term)
        <4> DEFINE g == f[r]
                   b == Heartbeat(g, c.l, ld, c.index)
        <4>1. /\ Writes(ld, c.index, old, e, C) /\ Follower(g, ld, C)
              /\ AppendAccepted(Levelled(g, ld), ld.currentTerm, c.index - 1,
                                term_at(ld, c.index - 1))
          BY <1>1, <3>1
        <4> HIDE DEF g
        <4>2. Has(persist_state(b), Append(C, e), c.index, e.term)
          BY <4>1, BeatHas
        <4> QED  BY <3>2, <4>2 DEF g
      <3>4. old = C
        BY <1>1, <3>1, SentAccepted
      <3>5. Has(done[r], D, Len(D), e.term) /\ D \in {C, Append(C, e)}
        BY <1>4, <3>3, <3>4 DEF More, D
      <3>6. Capped(D, e.term) /\ Before(D, e.term, Len(C) + 1)
        BY <1>1, <3>5, TurnedLogs
      <3>7. Fit(D, Len(D), D)
        BY <1>4 DEF More
      <3>8. /\ Rep(done[r]) /\ Stored(done[r]) /\ done[r].online = TRUE /\ done[r].log = D
            /\ done[r].meta.commitIndex = Len(D) /\ done[r].currentTerm = e.term
        BY <3>5 DEF Has, Stored
      <3>9. Held(done[r], D)
        BY <3>7, <3>8 DEF Held
      <3>10. done[r].currentTerm <= e.term
        BY <3>8, SMT DEF Rep
      <3>11. After(done[r], f[r], e, D, C)
        BY <3>1, <3>6, <3>8, <3>9, <3>10 DEF After
      <3> QED  BY <3>5, <3>11
    <2>2. \A r \in Replicas \ {c.l} : After(done[r], f[r], e, D, C)
      BY <1>2, <1>8, <1>9, <1>11, <2>1
    <2>3. Left(done, sh, c, e, B, C)
      BY <1>2, <1>5, <1>10, <1>12, <2>2 DEF Left, f
    <2> QED  BY <1>5, <1>12, <2>1, <2>3 DEF Has
  <1>13. CASE ~Replicated(c)
    <2>1. \A r \in c.followers : Has(done[r], C, Len(C), e.term)
      <3> SUFFICES ASSUME NEW r \in c.followers
                   PROVE  Has(done[r], C, Len(C), e.term)
        OBVIOUS
      <3>1. Follower(f[r], ld, C)
        BY <1>7
      <3>2. CASE r \in c.acks
        <4>1. done[r] = persist_state(Dropped(f[r], c.l, ld, c.index))
          BY <1>2, <1>6, <1>13, <3>2
        <4> QED  BY <1>1, <3>1, <4>1, DropHas
      <3>3. CASE r \notin c.acks
        <4>1. /\ done[r] = SentTo(f[r], c.l, ld, c.index)
              /\ ~AppendAccepted(Levelled(f[r], ld), ld.currentTerm, c.index - 1,
                                 term_at(ld, c.index - 1))
          BY <1>2, <1>6, <1>7, <3>3
        <4> QED  BY <1>1, <3>1, <4>1, SentRefused
      <3> QED  BY <3>2, <3>3
    <2>2. \A r \in c.followers : After(done[r], f[r], e, C, C)
      BY <1>1, <1>7, <2>1, HasAfter
    <2>3. \A r \in Replicas \ {c.l} : After(done[r], f[r], e, C, C)
      BY <1>2, <1>8, <2>2
    <2>4. Left(done, sh, c, e, B, C)
      BY <1>2, <1>5, <1>10, <1>13, <2>3 DEF Left, f
    <2> QED  BY <1>13, <2>1, <2>4
  <1> QED  BY <1>12, <1>13

\* How a replica other than the leader is caught when the write ends: it holds
\* what the leader had committed before, or what it commits.
LEMMA EndingFits ==
    ASSUME NEW sh, NEW c, NEW e, NEW C, Scene(sh, c, e, C),
           NEW B, B = Outcome(c, sh.replicas[c.l].log, e, C),
           NEW r \in c.acks, NEW p,
           EndingFor(p, sh.replicas[r], c, Replicate(sh, c).replicas[r])
    PROVE  Held(p, B) /\ Capped(p.log, e.term)
  <1> DEFINE f == sh.replicas[r]
             ld == c.leader
             old == sh.replicas[c.l].log
             done == Replicate(sh, c).replicas
             final == done[r]
             sent == SentTo(f, c.l, ld, c.index)
  <1>1. r \in c.followers /\ r \in Replicas \ {c.l}
    BY DEF Scene, ContextOf, Online
  <1>2. /\ Writes(ld, c.index, old, e, C) /\ Follower(f, ld, C)
        /\ AppendAccepted(Levelled(f, ld), ld.currentTerm, c.index - 1,
                          term_at(ld, c.index - 1))
    BY <1>1 DEF Scene
  <1>3. Left(done, sh, c, e, B, C)
    BY DoneLeft
  <1>4. CASE Replicated(c)
    <2>1. final = persist_state(Heartbeat(f, c.l, ld, c.index))
      <3>1. DoneOf(Replicate(sh, c), sh, c)
        BY ReplicateDone DEF Scene
      <3> QED  BY <1>1, <1>4, <3>1 DEF DoneOf
    <2>2. EndingFor(p, f, c, final)
      OBVIOUS
    <2>3. B = Append(old, e)
      BY <1>4 DEF Outcome
    <2> HIDE DEF f, old, final
    <2>4. old = C
      BY <1>2, SentAccepted
    <2>5. Held(p, Append(C, e)) /\ Capped(p.log, e.term)
      BY <1>2, <2>1, <2>2, EndingHeld
    <2> QED  BY <2>3, <2>4, <2>5
  <1>5. CASE ~Replicated(c)
    <2>1. p = sent \/ p = final
      BY <1>5 DEF EndingFor
    <2>2. After(sent, f, e, C, C)
      BY <1>1, SentAfter
    <2>3. After(final, f, e, C, C)
      BY <1>1, <1>3, <1>5 DEF Left, Outcome
    <2> QED  BY <1>5, <2>1, <2>2, <2>3 DEF After, Outcome
  <1> QED  BY <1>4, <1>5

LEMMA EndingSafe ==
    ASSUME NEW sh, NEW c, NEW e, NEW C, Scene(sh, c, e, C), NEW y \in Ending(sh, c),
           NEW D, D = Append(sh.replicas[c.l].log, e)
    PROVE  Safe(y, C) \/ Safe(y, D)
  <1> DEFINE f == sh.replicas
             ld == c.leader
             old == f[c.l].log
             done == Replicate(sh, c).replicas
             B == Outcome(c, old, e, C)
  <1>1. /\ IsShard(sh) /\ Reps(f) /\ ContextOf(sh, c) /\ c.l \in Replicas
        /\ Writes(ld, c.index, old, e, C) /\ Stored(ld) /\ ld.online = TRUE
        /\ C \in Seq(Entry) /\ Sorted(C)
        /\ c.acks \in SUBSET c.followers /\ c.followers \in SUBSET (Replicas \ {c.l})
    BY DEF Scene, ContextOf, Writes, Online
  <1>2. LeaderStates(ld, c.index, D, e, C) /\ More(D, ld, c.index, e, C)
    BY <1>1, LeaderHeld, WritesMore
  <1>3. /\ y = [r \in Replicas |-> y[r]]
        /\ \A r \in Replicas \ {c.l} :
              /\ r \in c.followers \ c.acks => y[r] = SentTo(f[r], c.l, ld, c.index)
              /\ r \notin c.followers => y[r] = f[r]
        /\ \/ /\ \/ y[c.l] = ld
                 \/ y[c.l] \in Committing(ld, commit_to(ld, c.index))
              /\ \A r \in c.acks : y[r] = SentTo(f[r], c.l, ld, c.index)
           \/ /\ y[c.l] = done[c.l]
              /\ \A r \in c.acks : EndingFor(y[r], f[r], c, done[r])
    BY <1>1, EndingStates, SMT
  <1>4. ASSUME NEW r \in Replicas \ {c.l}, r \notin c.acks \/ y[r] = SentTo(f[r], c.l, ld, c.index)
        PROVE  Held(y[r], C) /\ Held(y[r], D) /\ Capped(y[r].log, e.term)
    <2>1. After(y[r], f[r], e, C, C)
      <3>1. r \in c.followers => After(SentTo(f[r], c.l, ld, c.index), f[r], e, C, C)
        BY SentAfter
      <3>2. After(f[r], f[r], e, C, C)
        BY DEF Scene, After
      <3> QED  BY <1>1, <1>3, <1>4, <3>1, <3>2
    <2>2. Held(y[r], C) /\ Before(y[r].log, e.term, Len(C) + 1) /\ Capped(y[r].log, e.term)
      BY <2>1 DEF After
    <2>3. Held(y[r], D)
      BY <1>1, <1>2, <2>2, HeldMore
    <2> QED  BY <2>2, <2>3
  <1>5. D \in Seq(Entry) /\ Sorted(D) /\ Capped(D, e.term) /\ c.index = Len(D)
        /\ Fit(D, Len(C), C) /\ Fit(D, Len(D), D)
    BY <1>2 DEF More
  <1>6. CASE /\ \/ y[c.l] = ld
                \/ y[c.l] \in Committing(ld, commit_to(ld, c.index))
             /\ \A r \in c.acks : y[r] = SentTo(f[r], c.l, ld, c.index)
    <2>1. /\ Rep(y[c.l]) /\ y[c.l].log = D /\ y[c.l].meta.currentTerm = e.term
          /\ y[c.l].meta.commitIndex \in {Len(C), c.index}
      BY <1>2, <1>6 DEF LeaderStates, Has, Stored
    <2>2. \A r \in Replicas \ {c.l} :
             Held(y[r], C) /\ Held(y[r], D) /\ Capped(y[r].log, e.term)
      BY <1>4, <1>6
    <2>3. CASE y[c.l].meta.commitIndex = Len(C)
      <3>1. Held(y[c.l], C) /\ Capped(y[c.l].log, e.term)
        BY <1>5, <2>1, <2>3 DEF Held
      <3>2. \A r \in Replicas : Held(y[r], C) /\ Capped(y[r].log, e.term)
        BY <2>2, <3>1
      <3> QED  BY <1>1, <1>3, <2>1, <2>3, <3>2, LeaderSafe
    <2>4. CASE y[c.l].meta.commitIndex = Len(D)
      <3>1. Held(y[c.l], D) /\ Capped(y[c.l].log, e.term)
        BY <1>5, <2>1, <2>4 DEF Held
      <3>2. \A r \in Replicas : Held(y[r], D) /\ Capped(y[r].log, e.term)
        BY <2>2, <3>1
      <3> QED  BY <1>1, <1>3, <1>5, <2>1, <2>4, <3>2, LeaderSafe
    <2> QED  BY <1>5, <2>1, <2>3, <2>4
  <1>7. CASE /\ y[c.l] = done[c.l]
             /\ \A r \in c.acks : EndingFor(y[r], f[r], c, done[r])
    <2>1. B \in {C, D}
      BY DEF Outcome
    <2>2. Left(done, sh, c, e, B, C)
      BY DoneLeft
    <2>3. \A r \in c.acks : Held(y[r], B) /\ Capped(y[r].log, e.term)
      BY <1>7, EndingFits
    <2> HIDE DEF f, ld, old, done, B
    <2>4. /\ Rep(y[c.l]) /\ y[c.l].log = B /\ y[c.l].meta.commitIndex = Len(B)
          /\ y[c.l].meta.currentTerm = e.term
      BY <1>7, <2>2 DEF Left, Has, Stored
    <2>5. B \in Seq(Entry) /\ Sorted(B) /\ Capped(B, e.term) /\ Fit(B, Len(B), B)
      <3>1. Capped(C, e.term) /\ Fit(C, Len(C), C)
        BY <1>1, TurnedLogs
      <3> QED  BY <1>1, <1>5, <2>1, <3>1
    <2>6. Held(y[c.l], B) /\ Capped(y[c.l].log, e.term)
      BY <2>4, <2>5 DEF Held
    <2>7. \A r \in Replicas : Held(y[r], B) /\ Capped(y[r].log, e.term)
      BY <1>4, <2>1, <2>3, <2>6
    <2>8. Safe(y, B)
      BY <1>1, <1>3, <2>4, <2>5, <2>7, LeaderSafe
    <2> QED  BY <2>1, <2>8
  <1> QED  BY <1>3, <1>6, <1>7

\* Nobody online has anything that is not committed.
Clean(x) == \A r \in Online(x) : last_log_index(x[r].log) = x[r].commitIndex

\* replicate_command_locked, from C: it passes through states that hold C or D,
\* and leaves one that has committed D, or C and nothing else.
Wrote(sh, c, C, D) ==
    LET done == Replicate(sh, c)
    IN  /\ Extends(D, C)
        /\ \A x \in Writing(sh, c) : Safe(x.replicas, C) \/ Safe(x.replicas, D)
        /\ Replicated(c) => /\ Sound(done, D) /\ Wide(done.replicas, D)
                            /\ c.index \in 1 .. Len(D) /\ c.leader.log = D
        /\ ~Replicated(c) => /\ Sound(done, C) /\ Clean(done.replicas)
                             /\ Top(sh.replicas, C) \subseteq Top(done.replicas, C)

\* The state it leaves is sound.
LEMMA LeftSound ==
    ASSUME NEW sh, NEW c, NEW e, NEW C, Scene(sh, c, e, C),
           NEW B, B = Outcome(c, sh.replicas[c.l].log, e, C)
    PROVE  Sound(Replicate(sh, c), B)
  <1> DEFINE done == Replicate(sh, c)
             x == done.replicas
             l == c.l
             old == sh.replicas[c.l].log
             D == Append(old, e)
  <1>1. /\ IsShard(sh) /\ Reps(sh.replicas) /\ ContextOf(sh, c) /\ l \in Replicas
        /\ Writes(c.leader, c.index, old, e, C) /\ sh.leader = l /\ C \in Seq(Entry)
    BY DEF Scene, ContextOf, Writes
  <1>2. IsShard(done) /\ done.leader = l
    <2>1. DoneOf(Replicate(sh, c), sh, c)
      BY <1>1, ReplicateDone
    <2> QED  BY <1>1, <2>1 DEF DoneOf
  <1>3. Left(x, sh, c, e, B, C)
    BY DoneLeft
  <1>4. /\ B \in Seq(Entry) /\ Sorted(B) /\ Capped(B, e.term) /\ Fit(B, Len(B), B)
        /\ Len(C) \in Nat /\ Len(B) \in Nat /\ Len(C) <= Len(B) /\ e.term \in Nat
    <2>1. More(D, c.leader, c.index, e, C)
      BY <1>1, WritesMore
    <2>2. /\ D \in Seq(Entry) /\ Sorted(D) /\ Capped(D, e.term) /\ Fit(D, Len(D), D)
          /\ Len(D) \in Nat /\ Len(D) >= Len(C) + 1 /\ e.term \in Nat
      BY <2>1 DEF More
    <2>3. Sorted(C) /\ Capped(C, e.term) /\ Fit(C, Len(C), C) /\ Len(C) \in Nat
      BY <1>1, TurnedLogs, SMT DEF Writes
    <2>4. B = C \/ B = D
      BY DEF Outcome
    <2> HIDE DEF D
    <2> QED  BY <1>1, <2>2, <2>3, <2>4, SMT
  <1> HIDE DEF done, x, l
  <1>5. /\ x = [r \in Replicas |-> x[r]]
        /\ Has(x[l], B, Len(B), e.term)
        /\ \A r \in Replicas \ {l} : After(x[r], sh.replicas[r], e, B, C)
    BY <1>3 DEF Left, l
  <1>6. /\ Rep(x[l]) /\ Stored(x[l]) /\ x[l].online = TRUE /\ x[l].log = B
        /\ x[l].commitIndex = Len(B) /\ x[l].currentTerm = e.term
        /\ x[l].meta.commitIndex = Len(B) /\ x[l].meta.currentTerm = e.term
    BY <1>5 DEF Has, Stored
  <1>7. Held(x[l], B) /\ Capped(x[l].log, e.term) /\ x[l].currentTerm <= e.term
    BY <1>4, <1>6, SMT DEF Held
  <1>8. \A r \in Replicas : /\ Held(x[r], B) /\ Stored(x[r]) /\ Capped(x[r].log, e.term)
                            /\ x[r].currentTerm <= e.term
    BY <1>5, <1>6, <1>7 DEF After
  <1>9. ASSUME NEW r \in Replicas, r # l
        PROVE  Before(x[r].log, e.term, Len(B) + 1)
    <2>1. Before(x[r].log, e.term, Len(C) + 1) /\ x[r].log \in Seq(Entry)
      BY <1>5, <1>9 DEF After, Held, Fit
    <2> QED  BY <1>4, <2>1, BeforeLater, SMT
  <1>10. Safe(x, B)
    BY <1>1, <1>4, <1>5, <1>6, <1>8, LeaderSafe
  <1>11. LeaderOK(x, l, B)
    BY <1>1, <1>6, <1>8, <1>9 DEF LeaderOK
  <1>12. Whole(x, B)
    BY <1>8, <1>10 DEF Whole
  <1> QED  BY <1>1, <1>2, <1>11, <1>12 DEF Sound, done, x

\* What was replicated is committed by a majority.
LEMMA LeftWide ==
    ASSUME NEW sh, NEW c, NEW e, NEW C, Scene(sh, c, e, C), Replicated(c),
           NEW D, D = Append(sh.replicas[c.l].log, e),
           NEW x, x = Replicate(sh, c).replicas
    PROVE  Wide(x, D)
  <1>1. c.acks \in SUBSET Replicas /\ c.l \in Replicas /\ c.l \notin c.acks
    BY DEF Scene, ContextOf, Online
  <1>2. D = Outcome(c, sh.replicas[c.l].log, e, C)
    BY DEF Outcome
  <1>3. /\ Left(x, sh, c, e, D, C)
        /\ \A r \in c.acks : x[r].commitIndex = Len(D)
    BY <1>2, DoneLeft, SMT
  <1>4. x[c.l].commitIndex = Len(D)
    BY <1>3 DEF Left, Has
  <1> DEFINE S == c.acks \cup {c.l}
  <1>5. S \in SUBSET Replicas /\ S \subseteq Top(x, D) /\ Top(x, D) \in SUBSET Replicas
    BY <1>1, <1>3, <1>4 DEF Top
  <1>6. IsFiniteSet(c.acks) /\ Cardinality(c.acks) \in Nat
    BY <1>1, ReplicasFinite
  <1>7. Cardinality(S) = Cardinality(c.acks) + 1
    BY <1>1, <1>6, FS_AddElement
  <1>8. 2 * Cardinality(S) > N
    <2>1. Cardinality(S) \in Nat /\ Cardinality(S) >= Quorum
      BY <1>6, <1>7, SMT DEF Replicated
    <2> HIDE DEF S
    <2> QED  BY <2>1, QuorumFacts
  <1> HIDE DEF S
  <1> QED  BY <1>5, <1>8, MajorityGrows DEF Wide

\* What was refused is gone.
LEMMA LeftClean ==
    ASSUME NEW sh, NEW c, NEW e, NEW C, Scene(sh, c, e, C), ~Replicated(c),
           NEW x, x = Replicate(sh, c).replicas
    PROVE  Clean(x) /\ Top(sh.replicas, C) \subseteq Top(x, C)
  <1> DEFINE f == sh.replicas
  <1>1. /\ IsShard(sh) /\ Reps(f) /\ ContextOf(sh, c) /\ C \in Seq(Entry)
        /\ c.followers = Online(f) \ {c.l} /\ c.l \in Replicas
    BY DEF Scene, ContextOf, Writes
  <1>2. C = Outcome(c, f[c.l].log, e, C)
    BY DEF Outcome
  <1>3. /\ Left(x, sh, c, e, C, C)
        /\ \A r \in c.followers : Has(x[r], C, Len(C), e.term)
    BY <1>2, DoneLeft
  <1>4. Has(x[c.l], C, Len(C), e.term) /\ \A r \in Replicas \ {c.l} : x[r].online = f[r].online
    BY <1>3 DEF Left, After
  <1>5. \A r \in Replicas \ {c.l} : r \notin c.followers => x[r] = f[r]
    <2>1. DoneOf(Replicate(sh, c), sh, c)
      BY <1>1, ReplicateDone
    <2> QED  BY <2>1 DEF DoneOf
  <1>6. \A r \in Replicas : r = c.l \/ r \in c.followers => x[r].log = C /\ x[r].commitIndex = Len(C)
    BY <1>3, <1>4 DEF Has
  <1>7. last_log_index(C) = Len(C)
    BY <1>1, LogEnd
  <1>8. Clean(x)
    <2> SUFFICES ASSUME NEW r \in Online(x)
                 PROVE  last_log_index(x[r].log) = x[r].commitIndex
      BY DEF Clean
    <2>1. r \in Replicas /\ (r = c.l \/ r \in c.followers)
      BY <1>1, <1>4 DEF Online
    <2> QED  BY <1>6, <1>7, <2>1
  <1>9. Top(f, C) \subseteq Top(x, C)
    BY <1>5, <1>6 DEF Top
  <1> QED  BY <1>8, <1>9

LEMMA WriteSafe ==
    ASSUME NEW sh, NEW C, Sound(sh, C), sh.leader # NoReplica,
           NEW command \in Commands, NEW key \in Keys, NEW value \in Values \cup {NoValue},
           NEW c, c = Context(sh, command, key, value)
    PROVE  \E D : Wrote(sh, c, C, D)
  <1> DEFINE e == NewEntry(sh.replicas[sh.leader], command, key, value)
             old == sh.replicas[c.l].log
             D == Append(old, e)
  <1>1. Reps(sh.replicas) /\ sh.leader \in Replicas /\ IsShard(sh) /\ Safe(sh.replicas, C)
    BY WholeFields DEF Sound, Whole
  <1>2. WriteOf(sh, c, e)
    BY <1>1, ContextFields
  <1> HIDE DEF e
  <1>3. Scene(sh, c, e, C)
    BY <1>2, SceneStarts
  <1>4. More(D, c.leader, c.index, e, C)
    <2>1. Writes(c.leader, c.index, old, e, C)
      BY <1>3 DEF Scene
    <2> QED  BY <2>1, WritesMore
  <1>5. Extends(D, C) /\ c.index \in 1 .. Len(D) /\ c.leader.log = D
    <2>1. C \in Seq(Entry)
      BY <1>3 DEF Scene, Writes
    <2> HIDE DEF D
    <2> QED  BY <1>4, <2>1, SMT DEF More
  <1>6. ASSUME NEW x \in Writing(sh, c)
        PROVE  Safe(x.replicas, C) \/ Safe(x.replicas, D)
    <2>1. CASE x = sh
      BY <1>1, <2>1
    <2>2. ASSUME NEW y \in Sending(sh, c) \cup Ending(sh, c),
                 x = [sh EXCEPT !.replicas = y]
          PROVE  Safe(x.replicas, C) \/ Safe(x.replicas, D)
      <3>1. x.replicas = y
        BY <1>1, <2>2 DEF IsShard
      <3> QED  BY <1>3, <2>2, <3>1, SendingSafe, EndingSafe
    <2> QED  BY <2>1, <2>2 DEF Writing
  <1>7. Replicated(c) => Sound(Replicate(sh, c), D) /\ Wide(Replicate(sh, c).replicas, D)
    BY <1>3, LeftSound, LeftWide DEF Outcome
  <1>8. ~Replicated(c) => /\ Sound(Replicate(sh, c), C) /\ Clean(Replicate(sh, c).replicas)
                          /\ Top(sh.replicas, C) \subseteq Top(Replicate(sh, c).replicas, C)
    BY <1>3, LeftSound, LeftClean DEF Outcome
  <1> HIDE DEF D
  <1>9. Wrote(sh, c, C, D)
    BY <1>5, <1>6, <1>7, <1>8 DEF Wrote
  <1> QED  BY <1>9
=============================================================================
