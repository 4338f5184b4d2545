----------------------------- MODULE HttpServer -----------------------------
(***************************************************************************)
(* The HTTP server (src/http_server.cpp) and the life of the process       *)
(* around it (src/main.cpp): the main thread that accepts connections, one *)
(* detached thread per connection, and the handlers of SIGINT and SIGTERM, *)
(* which run on whichever thread the kernel picks and call stop.           *)
(*                                                                         *)
(* Each access of running_, of g_server and of the listening socket is a   *)
(* step of its own.  A thread does not move while a signal handler runs on *)
(* it.  The gateway is the handler: what it answers is Gateway.tla's.      *)
(***************************************************************************)
EXTENDS Integers

CONSTANTS Workers,     \* connections open at a time
          Signals,     \* the signals the process is sent
          MaxRequest,  \* max_request_size, in receive buffers
          MaxBody      \* the largest Content-Length that is accepted

ASSUME ServerAssumption == /\ MaxRequest \in Nat \ {0} /\ MaxBody \in Nat
                           /\ "main" \notin Workers /\ "destructor" \notin Signals

VARIABLES main,      \* where the main thread is
          thrown,    \* whether main left run, or failed before, by an exception
          gServer,   \* g_server is not null
          running,   \* running_
          serverFd,  \* server_fd_ >= 0
          socket,    \* the listening socket
          stopping,  \* per caller of stop, where it is in stop
          host,      \* per signal, the thread its handler runs on
          workers,   \* per connection, its thread
          touched,   \* history: a destroyed object was used
          late       \* history: a thread or handler was active at destruction

vars == <<main, thrown, gServer, running, serverFd, socket, stopping, host,
          workers, touched, late>>

server == <<running, serverFd, socket, stopping>>
history == <<touched, late>>

Stoppers == Signals \cup {"destructor"}

\* The caller is inside stop.
Active(h) == stopping[h] \notin {"idle", "done"}

Suspended(thread) == \E h \in Signals : host[h] = thread /\ Active(h)

NoConnection == [pc |-> "free", raw |-> 0, length |-> 0, body |-> 0]
-----------------------------------------------------------------------------
(* The main thread.                                                        *)

MainAt(pc) == main = pc /\ ~Suspended("main")

\* The objects are constructed and g_server is set, or a constructor or the
\* configuration throws.
Construct ==
    /\ MainAt("start")
    /\ \/ main' = "run" /\ gServer' = TRUE /\ UNCHANGED thrown
       \/ main' = "thrown" /\ thrown' = TRUE /\ UNCHANGED gServer
    /\ UNCHANGED <<server, host, workers, history>>

\* socket, bind and listen; on an error the socket, if any, is closed again.
Listen ==
    /\ MainAt("run")
    /\ \/ /\ main' = "listening" /\ serverFd' = TRUE
          /\ socket' = [socket EXCEPT !.open = TRUE]
          /\ UNCHANGED thrown
       \/ /\ main' = "thrown" /\ thrown' = TRUE
          /\ socket' \in {socket, [socket EXCEPT !.closed = 1]}
          /\ UNCHANGED serverFd
    /\ UNCHANGED <<gServer, running, stopping, host, workers, history>>

SetRunning ==
    /\ MainAt("listening")
    /\ main' = "loop" /\ running' = TRUE
    /\ UNCHANGED <<thrown, gServer, serverFd, socket, stopping, host, workers, history>>

\* The condition of the loop: accept is entered, or run returns.
Loop ==
    /\ MainAt("loop")
    /\ main' = IF running THEN "accept" ELSE "returned"
    /\ UNCHANGED <<thrown, gServer, server, host, workers, history>>

\* A connection is accepted and gets its thread.  What the thread is told of the
\* client's address is AcceptLoop's.
Accept(w) ==
    /\ MainAt("accept") /\ socket.open /\ ~socket.shut
    /\ workers[w].pc = "free"
    /\ workers' = [workers EXCEPT ![w] = [NoConnection EXCEPT !.pc = "headers"]]
    /\ main' = "loop"
    /\ UNCHANGED <<thrown, gServer, server, host, history>>

\* No thread can be created: std::thread throws, out of run.
NoThread ==
    /\ MainAt("accept") /\ socket.open /\ ~socket.shut
    /\ main' = "thrown" /\ thrown' = TRUE
    /\ UNCHANGED <<gServer, server, host, workers, history>>

\* accept fails: the error is passed over, and the loop asks running_ again.
AcceptFails ==
    /\ MainAt("accept")
    /\ main' = "loop"
    /\ UNCHANGED <<thrown, gServer, server, host, workers, history>>

\* What makes accept fail for certain: the socket was shut down.
AcceptEnds == socket.shut /\ AcceptFails

\* Mutant: g_server keeps pointing at the server.
Return_KeepsPointer ==
    /\ MainAt("returned")
    /\ main' = "leaving"
    /\ UNCHANGED <<thrown, gServer, server, host, workers, history>>

Return ==
    /\ MainAt("returned")
    /\ main' = "leaving" /\ gServer' = FALSE
    /\ UNCHANGED <<thrown, server, host, workers, history>>

\* Mutant: the destructor does nothing.
Destroy_NoStop ==
    /\ MainAt("leaving") \/ MainAt("thrown")
    /\ main' = "destroying"
    /\ stopping' = [stopping EXCEPT !["destructor"] = "done"]
    /\ UNCHANGED <<thrown, gServer, running, serverFd, socket, host, workers, history>>

\* The scope of main is left, by return or by exception: ~HttpServer calls
\* stop, then the gateway, the cluster and the metrics are destroyed.
Destroy ==
    /\ MainAt("leaving") \/ MainAt("thrown")
    /\ main' = "destroying"
    /\ stopping' = [stopping EXCEPT !["destructor"] = "exchange"]
    /\ UNCHANGED <<thrown, gServer, running, serverFd, socket, host, workers, history>>

Destroyed ==
    /\ MainAt("destroying") /\ stopping["destructor"] = "done"
    /\ main' = "destroyed"
    /\ late' = \/ \E w \in Workers : workers[w].pc # "free"
               \/ \E h \in Signals : Active(h)
    /\ UNCHANGED <<thrown, gServer, server, host, workers, touched>>

\* The process ends, and every thread with it.
Exit ==
    /\ MainAt("destroyed")
    /\ main' = "exited"
    /\ UNCHANGED <<thrown, gServer, server, host, workers, history>>

MainStep == \/ Construct \/ Listen \/ SetRunning \/ Loop \/ AcceptEnds
            \/ Return \/ Destroy \/ Destroyed \/ Exit
-----------------------------------------------------------------------------
(* stop, and the signal handlers that call it.                             *)

Moves(p, pc) == stopping' = [stopping EXCEPT ![p] = pc]

\* The thread of the caller runs it: no handler interrupts it, the process is
\* there, and the use of a destroyed server is noted.
CanStop(p, pc) ==
    /\ stopping[p] = pc /\ main # "exited"
    /\ p = "destructor" => ~Suspended("main")
    /\ touched' = (touched \/ main = "destroyed")
    /\ UNCHANGED <<main, thrown, gServer, host, workers, late>>

\* Mutant: running_ is tested and left set.
Exchange_NotCleared(p) ==
    /\ CanStop(p, "exchange")
    /\ Moves(p, IF running THEN "shutdown" ELSE "done")
    /\ UNCHANGED <<running, serverFd, socket>>

Exchange(p) ==
    /\ CanStop(p, "exchange")
    /\ Moves(p, IF running THEN "shutdown" ELSE "done")
    /\ running' = FALSE
    /\ UNCHANGED <<serverFd, socket>>

\* Mutant: the socket is closed only, which leaves a blocked accept blocked.
Shutdown_Nothing(p) ==
    /\ CanStop(p, "shutdown")
    /\ Moves(p, IF serverFd THEN "close" ELSE "done")
    /\ UNCHANGED <<running, serverFd, socket>>

Shutdown(p) ==
    /\ CanStop(p, "shutdown")
    /\ Moves(p, IF serverFd THEN "close" ELSE "done")
    /\ socket' = IF serverFd THEN [socket EXCEPT !.shut = TRUE] ELSE socket
    /\ UNCHANGED <<running, serverFd>>

Close(p) ==
    /\ CanStop(p, "close")
    /\ Moves(p, "reset")
    /\ socket' = [socket EXCEPT !.open = FALSE, !.closed = @ + 1]
    /\ UNCHANGED <<running, serverFd>>

Reset(p) ==
    /\ CanStop(p, "reset")
    /\ Moves(p, "done")
    /\ serverFd' = FALSE
    /\ UNCHANGED <<running, socket>>

StopStep(p) == Exchange(p) \/ Shutdown(p) \/ Close(p) \/ Reset(p)

\* handle_signal on a thread that is there: stop, if g_server is set.
handle_signal(h, thread) ==
    /\ stopping[h] = "idle" /\ main # "exited"
    /\ thread # "main" => workers[thread].pc # "free"
    /\ host' = [host EXCEPT ![h] = thread]
    /\ Moves(h, IF gServer THEN "exchange" ELSE "done")
    /\ UNCHANGED <<main, thrown, gServer, running, serverFd, socket, workers, history>>
-----------------------------------------------------------------------------
(* handle_client.                                                          *)

WorkerAt(w, pc) == workers[w].pc = pc /\ ~Suspended(w) /\ main # "exited"

Become(w, connection) ==
    /\ workers' = [workers EXCEPT ![w] = connection]
    /\ UNCHANGED <<main, thrown, gServer, server, host, late>>

Connection(pc, raw, length, body) ==
    [pc |-> pc, raw |-> raw, length |-> length, body |-> body]

\* One recv of the header loop.  It fails or times out, the request is too
\* large or malformed (400); or the headers are not complete yet.
ReadHeaders(w) ==
    /\ WorkerAt(w, "headers")
    /\ \/ Become(w, Connection("answering", 0, 0, 0))
       \/ /\ workers[w].raw < MaxRequest
          /\ Become(w, Connection("headers", workers[w].raw + 1, 0, 0))
    /\ UNCHANGED touched

\* Mutant: what was sent beyond the declared length is kept.
BodyRead_NoResize(length, body) == body

\* The body once at least length of it is there.
BodyRead(length, body) == IF body > length THEN length ELSE body

\* The headers are complete, and body units of what follows them are there.
\* Content-Length is beyond the limit (413), or the body is read or complete.
ParseHeaders(w, length, body) ==
    /\ WorkerAt(w, "headers") /\ workers[w].raw < MaxRequest
    /\ body <= workers[w].raw + 1
    /\ Become(w, IF length > MaxBody THEN Connection("answering", 0, 0, 0)
                 ELSE IF body < length THEN Connection("body", 0, length, body)
                 ELSE Connection("handling", 0, length, BodyRead(length, body)))
    /\ UNCHANGED touched

\* One recv of the body loop, which asks for no more than what is missing.
ReadBody(w) ==
    LET c == workers[w]
    IN  /\ WorkerAt(w, "body")
        /\ \/ Become(w, Connection("answering", 0, 0, 0))
           \/ Become(w, Connection(IF c.body + 1 < c.length THEN "body" ELSE "handling",
                                   0, c.length, c.body + 1))
        /\ UNCHANGED touched

\* The gateway answers, or throws (400).
Handle(w) ==
    /\ WorkerAt(w, "handling")
    /\ Become(w, Connection("answering", 0, 0, 0))
    /\ touched' = (touched \/ main = "destroyed")

\* Mutant: the thread ends without closing the connection if sending fails.
Respond_OnSuccess(w) ==
    /\ WorkerAt(w, "answering")
    /\ \/ Become(w, NoConnection)
       \/ Become(w, Connection("ended", 0, 0, 0))
    /\ UNCHANGED touched

\* The response is sent, as far as the client takes it, and the connection is
\* closed.
Respond(w) ==
    /\ WorkerAt(w, "answering")
    /\ Become(w, NoConnection)
    /\ UNCHANGED touched

WorkerStep(w) ==
    \/ ReadHeaders(w) \/ ReadBody(w) \/ Handle(w) \/ Respond(w)
    \/ \E length, body \in 0 .. MaxBody + 1 : ParseHeaders(w, length, body)
-----------------------------------------------------------------------------
Init ==
    /\ main = "start" /\ thrown = FALSE
    /\ gServer = FALSE /\ running = FALSE /\ serverFd = FALSE
    /\ socket = [open |-> FALSE, shut |-> FALSE, closed |-> 0]
    /\ stopping = [p \in Stoppers |-> "idle"]
    /\ host = [h \in Signals |-> "main"]
    /\ workers = [w \in Workers |-> NoConnection]
    /\ touched = FALSE /\ late = FALSE

Next ==
    \/ MainStep
    \/ AcceptFails
    \/ NoThread
    \/ \E p \in Stoppers : StopStep(p)
    \/ \E h \in Signals, thread \in Workers \cup {"main"} : handle_signal(h, thread)
    \/ \E w \in Workers : Accept(w) \/ WorkerStep(w)

\* Every thread and every signal handler is scheduled, a recv or send ends by
\* its timeout, and the gateway answers.  Nobody has to connect or to signal.
Fairness == /\ WF_vars(MainStep)
            /\ \A p \in Stoppers : WF_vars(StopStep(p))
            /\ \A w \in Workers : WF_vars(WorkerStep(w))

Spec == Init /\ [][Next]_vars /\ Fairness
-----------------------------------------------------------------------------
(* Properties.                                                             *)

\* However many signals arrive, on whatever threads and at whatever moment,
\* and with the destructor calling stop again, the listening socket is closed
\* at most once: no close hits a descriptor that meanwhile belongs to another
\* file (the exchange on running_, and the error paths of run).
ClosedOnce == socket.closed <= 1

\* When the process is about to end the listening socket has been closed, if
\* it was opened, whether main left run by return or by exception, except when
\* a signal handler on another thread is just about to do so.
SocketReleased ==
    main = "destroyed" /\ socket.open => \E h \in Signals : Active(h)

\* The gateway is handed whole requests only: exactly as much body as the
\* headers declare, and no more than the limit.
WholeRequests ==
    \A w \in Workers : workers[w].pc = "handling" =>
        workers[w].body = workers[w].length /\ workers[w].length <= MaxBody

\* Nobody uses the server or the gateway once main has destroyed them, unless
\* a connection or a signal handler was still active at that moment (the
\* threads are detached and not waited for) or run was left by an exception
\* (g_server is not reset then): a signal that arrives later finds g_server
\* null, and no new connection is accepted.
DestroyedUntouched == touched => late \/ thrown

\* A stop that finds the server running ends the process: run returns, although
\* it may be blocked in accept, may be about to enter it, and may be the thread
\* that the signal handler interrupted.
StopEndsProcess ==
    ~running /\ main \in {"loop", "accept"} ~> main = "exited"

\* Every connection that was accepted is closed, unless the process ends first.
ConnectionsClosed ==
    \A w \in Workers :
        workers[w].pc # "free" ~> workers[w].pc = "free" \/ main = "exited"
=============================================================================
