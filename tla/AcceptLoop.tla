----------------------------- MODULE AcceptLoop -----------------------------
(***************************************************************************)
(* How a connection's thread learns the address of its client (run and     *)
(* handle_client of src/http_server.cpp), which the gateway takes for the  *)
(* identity of a client that names none.                                   *)
(*                                                                         *)
(* std::thread copies the pointer into ip_buffer, a local of the loop, not *)
(* the text it points at.  The new thread makes a string of it when it is  *)
(* scheduled.  By then the iteration is over; its successor has the buffer *)
(* in the same place.  HttpServer, which has no addresses, takes Accept to *)
(* StartThread for one step.                                               *)
(***************************************************************************)
CONSTANTS Clients,     \* addresses
          Workers,     \* connections open at a time
          NoAddress    \* any text that is not the address of a client

VARIABLES main,      \* where the main thread is in the loop
          client,    \* client_address
          ipBuffer,  \* what is where ip_buffer is
          workers    \* per connection its thread, its client and remote_ip

vars == <<main, client, ipBuffer, workers>>

Worker(pc, of, remoteIp) == [pc |-> pc, client |-> of, remoteIp |-> remoteIp]

NoWorker == Worker("free", NoAddress, NoAddress)

\* accept returns with a client.
Accept(c) ==
    /\ main = "accept"
    /\ main' = "naming" /\ client' = c
    /\ UNCHANGED <<ipBuffer, workers>>

\* The buffer has been zeroed and inet_ntop has written the address.
NameClient ==
    /\ main = "naming"
    /\ main' = "creating" /\ ipBuffer' = client
    /\ UNCHANGED <<client, workers>>

\* The thread is created with a pointer into the buffer, and detached.
CreateThread(w) ==
    /\ main = "creating" /\ workers[w].pc = "free"
    /\ main' = "accept"
    /\ workers' = [workers EXCEPT ![w] = Worker("created", client, NoAddress)]
    /\ UNCHANGED <<client, ipBuffer>>

\* run ends, or throws as no thread can be created.  The stack is used anew.
Leave ==
    /\ main \in {"accept", "creating"}
    /\ main' = "left" /\ ipBuffer' = NoAddress
    /\ UNCHANGED <<client, workers>>

\* What a read of the buffer can give.  While the main thread is writing it,
\* the old text, the new one, or parts of either.
Readable == IF main = "naming" THEN {ipBuffer, client, NoAddress} ELSE {ipBuffer}

\* The thread starts: the pointer is converted to the string remote_ip.
StartThread(w) ==
    /\ workers[w].pc = "created"
    /\ \E text \in Readable :
          workers' = [workers EXCEPT ![w] = Worker("handling", @.client, text)]
    /\ UNCHANGED <<main, client, ipBuffer>>

\* The request has been handled as one of remote_ip, and the thread ends.
EndThread(w) ==
    /\ workers[w].pc = "handling"
    /\ workers' = [workers EXCEPT ![w] = NoWorker]
    /\ UNCHANGED <<main, client, ipBuffer>>

Init == /\ main = "accept" /\ client = NoAddress /\ ipBuffer = NoAddress
        /\ workers = [w \in Workers |-> NoWorker]

Next == \/ \E c \in Clients : Accept(c)
        \/ NameClient \/ Leave
        \/ \E w \in Workers : CreateThread(w) \/ StartThread(w) \/ EndThread(w)

Spec == Init /\ [][Next]_vars
-----------------------------------------------------------------------------
\* What docs/ARCHITECTURE.md says of clients: those that send no X-Client-Id
\* are identified by their remote IP, so a request that is being handled
\* carries the address of its own client (remote_ip of handle_client).
OwnAddress ==
    \A w \in Workers : workers[w].pc = "handling" =>
                           workers[w].remoteIp = workers[w].client
=============================================================================
