---------------------------- MODULE SqliteStore ----------------------------
(***************************************************************************)
(* The tables of one replica's SQLite database (src/sqlite_store.cpp).     *)
(*                                                                         *)
(*   kv        key -> value; a key without a row is NoValue                *)
(*   raft_log  log_index -> entry, a function whose domain is the set of   *)
(*             indexes that have a row.  Nothing in the schema forbids     *)
(*             gaps: the operations are written for any set of indexes,    *)
(*             and that a table is a sequence at all, with rows exactly at *)
(*             1..n for some n, is part of the invariant that is checked.  *)
(*                                                                         *)
(* Every operation below is one SQL statement, or one transaction, of the  *)
(* code; the mutex of the store makes it atomic.  The columns updated_at   *)
(* and log_index of a row are left out: the first is never read and the    *)
(* second is the argument of the function.                                 *)
(***************************************************************************)
EXTENDS Integers, Sequences, FiniteSetsExt

CONSTANTS Keys,     \* the keys clients use
          Values,   \* the values clients store
          NoValue   \* "no row for this key"; also the value of a DELETE entry

ASSUME NoValueAssumption == NoValue \notin Values

Commands == {"PUT", "DELETE"}

\* LogEntry; its index is its position in the table.
Entry == [term : Nat, command : Commands, key : Keys,
          value : Values \cup {NoValue}]

\* A raft_log table without gaps.
LogTable == Seq(Entry)

KVTable == [Keys -> Values \cup {NoValue}]

EmptyKV == [k \in Keys |-> NoValue]
EmptyLog == <<>>
-----------------------------------------------------------------------------
\* INSERT OR REPLACE INTO raft_log
append_log(log, index, entry) ==
    [i \in DOMAIN log \cup {index} |-> IF i = index THEN entry ELSE log[i]]

\* DELETE FROM raft_log WHERE log_index >= index
truncate_log_from(log, index) ==
    [i \in {j \in DOMAIN log : j < index} |-> log[i]]

\* SELECT COALESCE(MAX(log_index), 0)
last_log_index(log) == Max({0} \cup DOMAIN log)

\* The term of the row with the largest index, 0 when there is none.
last_log_term(log) ==
    IF DOMAIN log = {} THEN 0 ELSE log[last_log_index(log)].term

\* What the row of entry.key holds once the entry is applied: the upsert of
\* put or the DELETE of erase, chosen by RaftReplica::apply_entry.
Written(entry) == IF entry.command = "PUT" THEN entry.value ELSE NoValue

\* The kv table after apply_entry ran on the entries with index in I, in
\* increasing order of index: each key holds what the last of them wrote.
ApplyEntries(kv, log, I) ==
    [k \in Keys |-> LET W == {i \in I : log[i].key = k}
                    IN  IF W = {} THEN kv[k] ELSE Written(log[Max(W)])]
=============================================================================
