----------------------------- MODULE KVService -----------------------------
(***************************************************************************)
(* What a shard promises its clients, with no replicas in sight: one map   *)
(* from keys to values.  An acknowledged PUT or DELETE takes effect on the *)
(* map at once and for good, a GET answers with what the map holds, and a  *)
(* request that is turned away with status 503 has no effect.  Fault       *)
(* injection, elections and restarts never touch the map.                  *)
(*                                                                         *)
(* reply is the result (OperationResult) of the operation just performed,  *)
(* reduced to the fields a client acts on.                                 *)
(***************************************************************************)
CONSTANTS Keys, Values, NoValue

VARIABLES kv, reply

NoReply == [op |-> "none", key |-> NoValue, value |-> NoValue, status |-> 0]

Reply(op, key, value, status) ==
    [op |-> op, key |-> key, value |-> value, status |-> status]

Init == /\ kv = [k \in Keys |-> NoValue]
        /\ reply = NoReply

Put(k, v) == /\ kv' = [kv EXCEPT ![k] = v]
             /\ reply' = Reply("PUT", k, v, 201)

Erase(k) == /\ kv' = [kv EXCEPT ![k] = NoValue]
            /\ reply' = Reply("DELETE", k, NoValue, 200)

Get(k) == /\ reply' = Reply("GET", k, kv[k], IF kv[k] = NoValue THEN 404 ELSE 200)
          /\ UNCHANGED kv

Reject(op, k, v) == /\ reply' = Reply(op, k, v, 503)
                    /\ UNCHANGED kv

\* An administrative operation: nothing a client could notice in the data.
Administer == /\ reply' \in {NoReply, Reply("ELECT", NoValue, NoValue, 200),
                             Reply("ELECT", NoValue, NoValue, 503)}
              /\ UNCHANGED kv

Next == \/ \E k \in Keys, v \in Values : Put(k, v) \/ Reject("PUT", k, v)
        \/ \E k \in Keys : \/ Erase(k) \/ Reject("DELETE", k, NoValue)
                           \/ Get(k)   \/ Reject("GET", k, NoValue)
        \/ Administer

Spec == Init /\ [][Next]_<<kv, reply>>
=============================================================================
