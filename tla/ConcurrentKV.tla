---------------------------- MODULE ConcurrentKV ----------------------------
(***************************************************************************)
(* What the gateway promises its concurrent clients: one map.  A request   *)
(* that succeeds takes effect once, at one moment between its arrival and  *)
(* its answer (it is linearizable); one that is refused with status 503    *)
(* never takes effect, however often it was tried.                         *)
(***************************************************************************)
CONSTANTS Keys, Values, NoValue, Threads

VARIABLES kv,
          calls  \* per thread, its request: waiting, performed or answered

vars == <<kv, calls>>

NoCall == [phase |-> "none", op |-> "none", key |-> NoValue,
           value |-> NoValue, status |-> 0]

Call(phase, op, key, value, status) ==
    [phase |-> phase, op |-> op, key |-> key, value |-> value, status |-> status]

Init == kv = [k \in Keys |-> NoValue] /\ calls = [t \in Threads |-> NoCall]

Free(t) == calls[t].phase \in {"none", "answered"}

Invoke(t, call) == /\ Free(t)
                   /\ calls' = [calls EXCEPT ![t] = call]
                   /\ UNCHANGED kv

Requests == {Call("waiting", "PUT", k, v, 0) : k \in Keys, v \in Values} \cup
            {Call("waiting", op, k, NoValue, 0) : op \in {"GET", "DELETE"}, k \in Keys}

\* The moment the request takes effect.
Perform(t) ==
    LET c == calls[t]
        seen == kv[c.key]
    IN  /\ c.phase = "waiting"
        /\ \/ /\ c.op = "PUT"
              /\ kv' = [kv EXCEPT ![c.key] = c.value]
              /\ calls' = [calls EXCEPT ![t] =
                              Call("performed", "PUT", c.key, c.value, 201)]
           \/ /\ c.op = "DELETE"
              /\ kv' = [kv EXCEPT ![c.key] = NoValue]
              /\ calls' = [calls EXCEPT ![t] =
                              Call("performed", "DELETE", c.key, NoValue, 200)]
           \/ /\ c.op = "GET"
              /\ calls' = [calls EXCEPT ![t] =
                              Call("performed", "GET", c.key, seen,
                                   IF seen = NoValue THEN 404 ELSE 200)]
              /\ UNCHANGED kv

Respond(t) == /\ calls[t].phase = "performed"
              /\ calls' = [calls EXCEPT ![t].phase = "answered"]
              /\ UNCHANGED kv

Refuse(t) ==
    LET c == calls[t]
    IN  /\ c.phase = "waiting"
        /\ calls' = [calls EXCEPT ![t] = Call("answered", c.op, c.key, c.value, 503)]
        /\ UNCHANGED kv

Next == \E t \in Threads : \/ \E call \in Requests \cup {NoCall} : Invoke(t, call)
                           \/ Perform(t) \/ Respond(t) \/ Refuse(t)

Spec == Init /\ [][Next]_vars
=============================================================================
