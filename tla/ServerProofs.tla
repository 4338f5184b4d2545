---------------------------- MODULE ServerProofs ----------------------------
(***************************************************************************)
(* What the server keeps on the way of a request to the gateway, and when  *)
(* it stops.  The listening socket is closed once and not leaked, for any  *)
(* number of connections and signals and for all limits.  The rate limiter *)
(* keeps its limit, and keeps it exactly, for all rates, bursts and costs, *)
(* any number of clients and runs of any length.                           *)
(***************************************************************************)
EXTENDS HttpServer, RateLimiter, TLAPS

\* The steps are first-order reasoning unless they say otherwise.
USE Zenon
-----------------------------------------------------------------------------
(* The HTTP server.                                                        *)

Before == {"start", "run", "listening"}   \* run has not set running_ yet
After == {"leaving", "destroying", "destroyed", "exited"}
Gone == {"destroyed", "exited"}           \* the objects are destroyed

Types ==
    /\ main \in Before \cup {"loop", "accept", "returned", "thrown"} \cup After
    /\ thrown \in BOOLEAN /\ gServer \in BOOLEAN
    /\ running \in BOOLEAN /\ serverFd \in BOOLEAN
    /\ socket \in [open : BOOLEAN, shut : BOOLEAN, closed : Nat]
    /\ stopping \in [Stoppers -> {"idle", "exchange", "shutdown", "close",
                                  "reset", "done"}]
    /\ workers \in [Workers ->
          [pc : {"free", "headers", "body", "handling", "answering"},
           raw : Nat, length : Nat, body : Nat]]
    /\ touched \in BOOLEAN /\ late \in BOOLEAN

\* A caller of stop that has won the exchange, and will close the socket.
Holds(p) == stopping[p] \in {"shutdown", "close"}

\* Between the exchange and the close the socket is in the hands of one caller.
OneHolder ==
    /\ \A p, q \in Stoppers : Holds(p) /\ Holds(q) => p = q
    /\ running \/ main \in Before \/ (\E p \in Stoppers : Holds(p)) => socket.closed = 0
    /\ running \/ main \in Before =>
          \A p \in Stoppers : ~Holds(p) /\ stopping[p] # "reset"
    /\ main \in Before => ~running
    /\ ClosedOnce

\* An open socket is closed by whoever stops the server.
Released ==
    /\ socket.open => /\ serverFd
                      /\ running \/ main = "listening" \/ \E p \in Stoppers : Holds(p)
    /\ \A p \in Stoppers : stopping[p] = "reset" => ~socket.open
    /\ stopping["destructor"] \notin {"idle", "exchange"} => ~running
    /\ stopping["destructor"] # "idle" => main \in {"destroying"} \cup Gone
    /\ main \in Gone => stopping["destructor"] = "done"

\* Bodies are read up to their length.
Bodies ==
    \A w \in Workers :
        /\ workers[w].pc \in {"body", "handling"} => workers[w].length <= MaxBody
        /\ workers[w].pc = "body" => workers[w].body < workers[w].length
        /\ workers[w].pc = "handling" => workers[w].body = workers[w].length

\* Who might use what main destroys.
Users ==
    /\ main = "thrown" \/ (gServer /\ main \in After) => thrown
    /\ main \in Gone /\ ~late /\ ~thrown =>
          /\ \A w \in Workers : workers[w].pc = "free"
          /\ \A h \in Signals : ~Active(h)
    /\ touched => main \in Gone
    /\ DestroyedUntouched

IInv == Types /\ OneHolder /\ Released /\ Bodies /\ Users
-----------------------------------------------------------------------------
\* The initial state.
LEMMA InitInvariant == Init => IInv
  <1> SUFFICES ASSUME Init PROVE IInv
    OBVIOUS
  <1>1. Types
    BY DEF Init, Types, Before, After, NoConnection
  <1>2. OneHolder /\ Released
    BY SMT DEF Init, OneHolder, Released, Before, After, Gone, Holds, Stoppers,
       ClosedOnce
  <1>3. Bodies /\ Users
    BY DEF Init, Bodies, Users, After, Gone, NoConnection, DestroyedUntouched
  <1> QED  BY <1>1, <1>2, <1>3 DEF IInv

\* Steps of the main thread.
LEMMA MainInvariant ==
    ASSUME IInv, MainStep \/ AcceptFails \/ NoThread
    PROVE  IInv'
  <1> USE DEF IInv, server, history
  <1>1. CASE Construct
    <2>1. Types'
      BY <1>1 DEF Construct, MainAt, Types, Before, After
    <2>2. OneHolder'
      BY <1>1
         DEF Construct, MainAt, Types, OneHolder, Released, Before, After, Gone,
             Holds, ClosedOnce
    <2>3. Released'
      BY <1>1
         DEF Construct, MainAt, Types, OneHolder, Released, Before, After, Gone,
             Holds
    <2>4. Bodies' /\ Users'
      BY <1>1
         DEF Construct, MainAt, Types, Released, Bodies, Users, After, Gone,
             Active, DestroyedUntouched
    <2> QED  BY <2>1, <2>2, <2>3, <2>4
  <1>2. CASE Listen
    <2>0. socket' \in [open : BOOLEAN, shut : BOOLEAN, closed : Nat]
      <3>1. socket \in [open : BOOLEAN, shut : BOOLEAN, closed : Nat]
        BY DEF Types
      <3>2. /\ [socket EXCEPT !.open = TRUE] \in [open : BOOLEAN, shut : BOOLEAN, closed : Nat]
            /\ [socket EXCEPT !.closed = 1] \in [open : BOOLEAN, shut : BOOLEAN, closed : Nat]
        BY <3>1
      <3> QED  BY <1>2, <3>1, <3>2 DEF Listen
    <2>1. Types'
      BY <1>2, <2>0 DEF Listen, MainAt, Types, Before, After
    <2>2. OneHolder'
      BY <1>2, SMT
         DEF Listen, MainAt, Types, OneHolder, Released, Before, After, Gone,
             Holds, ClosedOnce
    <2>3. Released'
      BY <1>2
         DEF Listen, MainAt, Types, OneHolder, Released, Before, After, Gone,
             Holds
    <2>4. Bodies' /\ Users'
      BY <1>2
         DEF Listen, MainAt, Types, Released, Bodies, Users, After, Gone, Active,
             DestroyedUntouched
    <2> QED  BY <2>1, <2>2, <2>3, <2>4
  <1>3. CASE SetRunning
    <2>1. Types'
      BY <1>3 DEF SetRunning, MainAt, Types, Before, After
    <2>2. OneHolder'
      BY <1>3
         DEF SetRunning, MainAt, Types, OneHolder, Released, Before, After, Gone,
             Holds, ClosedOnce
    <2>3. Released'
      BY <1>3
         DEF SetRunning, MainAt, Types, OneHolder, Released, Before, After, Gone,
             Holds
    <2>4. Bodies' /\ Users'
      BY <1>3
         DEF SetRunning, MainAt, Types, Released, Bodies, Users, After, Gone,
             Active, DestroyedUntouched
    <2> QED  BY <2>1, <2>2, <2>3, <2>4
  <1>4. CASE Loop
    <2>1. Types'
      BY <1>4 DEF Loop, MainAt, Types, Before, After
    <2>2. OneHolder'
      BY <1>4
         DEF Loop, MainAt, Types, OneHolder, Released, Before, After, Gone, Holds,
             ClosedOnce
    <2>3. Released'
      BY <1>4
         DEF Loop, MainAt, Types, OneHolder, Released, Before, After, Gone, Holds
    <2>4. Bodies' /\ Users'
      BY <1>4
         DEF Loop, MainAt, Types, Released, Bodies, Users, After, Gone, Active,
             DestroyedUntouched
    <2> QED  BY <2>1, <2>2, <2>3, <2>4
  <1>5. CASE Return
    <2>1. Types'
      BY <1>5 DEF Return, MainAt, Types, Before, After
    <2>2. OneHolder'
      BY <1>5
         DEF Return, MainAt, Types, OneHolder, Released, Before, After, Gone,
             Holds, ClosedOnce
    <2>3. Released'
      BY <1>5
         DEF Return, MainAt, Types, OneHolder, Released, Before, After, Gone,
             Holds
    <2>4. Bodies' /\ Users'
      BY <1>5
         DEF Return, MainAt, Types, Released, Bodies, Users, After, Gone, Active,
             DestroyedUntouched
    <2> QED  BY <2>1, <2>2, <2>3, <2>4
  <1>6. CASE Destroy
    <2>1. Types'
      BY <1>6 DEF Destroy, MainAt, Stoppers, Types, Before, After
    <2>2. OneHolder'
      BY <1>6
         DEF Destroy, MainAt, Stoppers, Types, OneHolder, Released, Before, After,
             Gone, Holds, ClosedOnce
    <2>3. Released'
      BY <1>6
         DEF Destroy, MainAt, Stoppers, Types, OneHolder, Released, Before, After,
             Gone, Holds
    <2>4. Bodies' /\ Users'
      BY <1>6
         DEF Destroy, MainAt, Stoppers, Types, Released, Bodies, Users, After,
             Gone, Active, DestroyedUntouched
    <2> QED  BY <2>1, <2>2, <2>3, <2>4
  <1>7. CASE Destroyed
    <2>1. Types'
      BY <1>7 DEF Destroyed, MainAt, Stoppers, Types, Before, After
    <2>2. OneHolder'
      BY <1>7
         DEF Destroyed, MainAt, Stoppers, Types, OneHolder, Released, Before,
             After, Gone, Holds, ClosedOnce
    <2>3. Released'
      BY <1>7
         DEF Destroyed, MainAt, Stoppers, Types, OneHolder, Released, Before,
             After, Gone, Holds
    <2>4. ~late' => /\ \A w \in Workers : workers[w].pc = "free"
                    /\ \A h \in Signals : ~Active(h)
      BY <1>7 DEF Destroyed
    <2>5. Bodies' /\ Users'
      BY <1>7, <2>4
         DEF Destroyed, MainAt, Bodies, Users, After, Gone, Active,
             DestroyedUntouched
    <2> QED  BY <2>1, <2>2, <2>3, <2>5
  <1>8. CASE Exit
    <2>1. Types'
      BY <1>8 DEF Exit, MainAt, Types, Before, After
    <2>2. OneHolder'
      BY <1>8
         DEF Exit, MainAt, Types, OneHolder, Released, Before, After, Gone, Holds,
             ClosedOnce
    <2>3. Released'
      BY <1>8
         DEF Exit, MainAt, Types, OneHolder, Released, Before, After, Gone, Holds
    <2>4. Bodies' /\ Users'
      BY <1>8
         DEF Exit, MainAt, Types, Released, Bodies, Users, After, Gone, Active,
             DestroyedUntouched
    <2> QED  BY <2>1, <2>2, <2>3, <2>4
  <1>9. CASE AcceptFails
    <2>1. Types'
      BY <1>9 DEF AcceptFails, MainAt, Types, Before, After
    <2>2. OneHolder'
      BY <1>9
         DEF AcceptFails, MainAt, Types, OneHolder, Released, Before, After, Gone,
             Holds, ClosedOnce
    <2>3. Released'
      BY <1>9
         DEF AcceptFails, MainAt, Types, OneHolder, Released, Before, After, Gone,
             Holds
    <2>4. Bodies' /\ Users'
      BY <1>9
         DEF AcceptFails, MainAt, Types, Released, Bodies, Users, After, Gone,
             Active, DestroyedUntouched
    <2> QED  BY <2>1, <2>2, <2>3, <2>4
  <1>10. CASE NoThread
    <2>1. Types'
      BY <1>10 DEF NoThread, MainAt, Types, Before, After
    <2>2. OneHolder'
      BY <1>10
         DEF NoThread, MainAt, Types, OneHolder, Released, Before, After, Gone,
             Holds, ClosedOnce
    <2>3. Released'
      BY <1>10
         DEF NoThread, MainAt, Types, OneHolder, Released, Before, After, Gone,
             Holds
    <2>4. Bodies' /\ Users'
      BY <1>10
         DEF NoThread, MainAt, Types, Released, Bodies, Users, After, Gone,
             Active, DestroyedUntouched
    <2> QED  BY <2>1, <2>2, <2>3, <2>4
  <1> QED  BY <1>1, <1>2, <1>3, <1>4, <1>5, <1>6, <1>7, <1>8, <1>9, <1>10
              DEF MainStep, AcceptEnds

\* Steps of a caller of stop, and the arrival of a signal.
LEMMA StopInvariant ==
    ASSUME IInv, NEW p \in Stoppers, StopStep(p)
    PROVE  IInv'
  <1> USE ServerAssumption DEF IInv, Stoppers
  <1>1. CASE Exchange(p)
    <2>1. Types'
      BY <1>1, ZenonT(40) DEF Exchange, CanStop, Moves, Types, Before, After
    <2>2. OneHolder'
      BY <1>1
         DEF Exchange, CanStop, Moves, Types, OneHolder, Released, Before, After,
             Gone, Holds, ClosedOnce
    <2>3. Released'
      BY <1>1
         DEF Exchange, CanStop, Moves, Types, OneHolder, Released, Before, After,
             Gone, Holds
    <2>4. Bodies' /\ Users'
      BY <1>1
         DEF Exchange, CanStop, Moves, Types, Released, Bodies, Users, After,
             Gone, Active, DestroyedUntouched
    <2> QED  BY <2>1, <2>2, <2>3, <2>4
  <1>2. CASE Shutdown(p)
    <2>1. Types'
      BY <1>2 DEF Shutdown, CanStop, Moves, Types, Before, After
    <2>2. OneHolder'
      BY <1>2
         DEF Shutdown, CanStop, Moves, Types, OneHolder, Released, Before, After,
             Gone, Holds, ClosedOnce
    <2>3. Released'
      BY <1>2
         DEF Shutdown, CanStop, Moves, Types, OneHolder, Released, Before, After,
             Gone, Holds
    <2>4. Bodies' /\ Users'
      BY <1>2
         DEF Shutdown, CanStop, Moves, Types, Released, Bodies, Users, After,
             Gone, Active, DestroyedUntouched
    <2> QED  BY <2>1, <2>2, <2>3, <2>4
  <1>3. CASE Close(p)
    <2>0. socket' \in [open : BOOLEAN, shut : BOOLEAN, closed : Nat]
      <3>1. socket \in [open : BOOLEAN, shut : BOOLEAN, closed : Nat]
        BY DEF Types
      <3>2. socket' = [open |-> FALSE, shut |-> socket.shut, closed |-> socket.closed + 1]
        BY <1>3, <3>1 DEF Close
      <3> QED  BY <3>1, <3>2, SMT
    <2>1. Types'
      BY <1>3, <2>0 DEF Close, CanStop, Moves, Types, Before, After
    <2>2. OneHolder'
      BY <1>3, SMT
         DEF Close, CanStop, Moves, Types, OneHolder, Released, Before, After,
             Gone, Holds, ClosedOnce
    <2>3. Released'
      BY <1>3
         DEF Close, CanStop, Moves, Types, OneHolder, Released, Before, After,
             Gone, Holds
    <2>4. Bodies' /\ Users'
      BY <1>3
         DEF Close, CanStop, Moves, Types, Released, Bodies, Users, After, Gone,
             Active, DestroyedUntouched
    <2> QED  BY <2>1, <2>2, <2>3, <2>4
  <1>4. CASE Reset(p)
    <2>1. Types'
      BY <1>4 DEF Reset, CanStop, Moves, Types, Before, After
    <2>2. OneHolder'
      BY <1>4
         DEF Reset, CanStop, Moves, Types, OneHolder, Released, Before, After,
             Gone, Holds, ClosedOnce
    <2>3. Released'
      BY <1>4
         DEF Reset, CanStop, Moves, Types, OneHolder, Released, Before, After,
             Gone, Holds
    <2>4. Bodies' /\ Users'
      BY <1>4
         DEF Reset, CanStop, Moves, Types, Released, Bodies, Users, After, Gone,
             Active, DestroyedUntouched
    <2> QED  BY <2>1, <2>2, <2>3, <2>4
  <1> QED  BY <1>1, <1>2, <1>3, <1>4 DEF StopStep

\* A signal arrives.
LEMMA SignalInvariant ==
    ASSUME IInv, NEW h \in Signals, NEW thread \in Workers \cup {"main"},
           handle_signal(h, thread)
    PROVE  IInv'
  <1> USE ServerAssumption DEF IInv, Stoppers, history
  <1>1. Types' /\ OneHolder' /\ Released'
    BY SMT
       DEF handle_signal, Moves, Types, OneHolder, Released, Before, After, Gone,
       Holds, ClosedOnce
  <1>2. Bodies' /\ Users'
    BY DEF handle_signal, Moves, Types, Bodies, Users, After, Gone, Active,
       DestroyedUntouched
  <1> QED  BY <1>1, <1>2

\* Steps of a connection.
LEMMA WorkerInvariant ==
    ASSUME IInv, NEW w \in Workers, Accept(w) \/ WorkerStep(w)
    PROVE  IInv'
  <1> USE DEF IInv, server, history
  <1>1. CASE Accept(w)
    <2>1. Types'
      BY <1>1, ServerAssumption
         DEF Accept, MainAt, NoConnection, Types, Before, After
    <2>2. OneHolder' /\ Released'
      BY <1>1
         DEF Accept, MainAt, NoConnection, OneHolder, Released, Before, After,
             Gone, Holds, ClosedOnce
    <2>3. Bodies'
      BY <1>1, ServerAssumption DEF Accept, MainAt, NoConnection, Types, Bodies
    <2>4. Users'
      BY <1>1
         DEF Accept, MainAt, NoConnection, Types, Users, After, Gone, Active,
             DestroyedUntouched
    <2> QED  BY <2>1, <2>2, <2>3, <2>4
  <1>2. CASE ReadHeaders(w)
    <2>1. Types'
      BY <1>2, ServerAssumption, SMT
         DEF ReadHeaders, Become, WorkerAt, Connection, NoConnection, BodyRead,
             Types, Before, After
    <2>2. OneHolder' /\ Released'
      BY <1>2, SMT
         DEF ReadHeaders, Become, WorkerAt, Connection, NoConnection, BodyRead,
             OneHolder, Released, Before, After, Gone, Holds, ClosedOnce
    <2>3. Bodies'
      BY <1>2, ServerAssumption, SMT
         DEF ReadHeaders, Become, WorkerAt, Connection, NoConnection, BodyRead,
             Types, Bodies
    <2>4. Users'
      BY <1>2, SMT
         DEF ReadHeaders, Become, WorkerAt, Connection, NoConnection, BodyRead,
             Types, Users, After, Gone, Active, DestroyedUntouched
    <2> QED  BY <2>1, <2>2, <2>3, <2>4
  <1>3. CASE ReadBody(w)
    <2>1. Types'
      BY <1>3, ServerAssumption, SMT
         DEF ReadBody, Become, WorkerAt, Connection, NoConnection, BodyRead,
             Types, Before, After
    <2>2. OneHolder' /\ Released'
      BY <1>3, SMT
         DEF ReadBody, Become, WorkerAt, Connection, NoConnection, BodyRead,
             OneHolder, Released, Before, After, Gone, Holds, ClosedOnce
    <2>3. Bodies'
      BY <1>3, ServerAssumption, SMT
         DEF ReadBody, Become, WorkerAt, Connection, NoConnection, BodyRead,
             Types, Bodies
    <2>4. Users'
      BY <1>3, SMT
         DEF ReadBody, Become, WorkerAt, Connection, NoConnection, BodyRead,
             Types, Users, After, Gone, Active, DestroyedUntouched
    <2> QED  BY <2>1, <2>2, <2>3, <2>4
  <1>4. CASE Handle(w)
    <2>1. Types'
      BY <1>4, ServerAssumption, ZenonT(40)
         DEF Handle, Become, WorkerAt, Connection, NoConnection, BodyRead, Types,
             Before, After
    <2>2. OneHolder' /\ Released'
      BY <1>4
         DEF Handle, Become, WorkerAt, Connection, NoConnection, BodyRead,
             OneHolder, Released, Before, After, Gone, Holds, ClosedOnce
    <2>3. Bodies'
      BY <1>4, ServerAssumption
         DEF Handle, Become, WorkerAt, Connection, NoConnection, BodyRead, Types,
             Bodies
    <2>4. Users'
      BY <1>4
         DEF Handle, Become, WorkerAt, Connection, NoConnection, BodyRead, Types,
             Users, After, Gone, Active, DestroyedUntouched
    <2> QED  BY <2>1, <2>2, <2>3, <2>4
  <1>5. CASE Respond(w)
    <2>1. Types'
      BY <1>5, ServerAssumption, SMT
         DEF Respond, Become, WorkerAt, Connection, NoConnection, BodyRead, Types,
             Before, After
    <2>2. OneHolder' /\ Released'
      BY <1>5
         DEF Respond, Become, WorkerAt, Connection, NoConnection, BodyRead,
             OneHolder, Released, Before, After, Gone, Holds, ClosedOnce
    <2>3. Bodies'
      BY <1>5, ServerAssumption
         DEF Respond, Become, WorkerAt, Connection, NoConnection, BodyRead, Types,
             Bodies
    <2>4. Users'
      BY <1>5
         DEF Respond, Become, WorkerAt, Connection, NoConnection, BodyRead, Types,
             Users, After, Gone, Active, DestroyedUntouched
    <2> QED  BY <2>1, <2>2, <2>3, <2>4
  <1>6. ASSUME NEW length \in 0 .. MaxBody + 1, NEW body \in 0 .. MaxBody + 1,
               ParseHeaders(w, length, body)
        PROVE  IInv'
    <2>1. PICK c \in [pc : {"answering", "body", "handling"}, raw : Nat, length : Nat,
                      body : Nat] :
             /\ Become(w, c) /\ UNCHANGED touched
             /\ c.pc \in {"body", "handling"} => c.length <= MaxBody
             /\ c.pc = "body" => c.body < c.length
             /\ c.pc = "handling" => c.body = c.length
      <3>1. /\ length \in Nat /\ body \in Nat
            /\ BodyRead(length, body) \in Nat
            /\ body >= length => BodyRead(length, body) = length
        BY ServerAssumption, SMT DEF BodyRead
      <3> QED  BY <1>6, <3>1, ServerAssumption, SMT DEF ParseHeaders, Connection
    <2>2. Types'
      BY <2>1, SMT DEF Become, Types, Before, After
    <2>3. OneHolder' /\ Released'
      BY <2>1
         DEF Become, OneHolder, Released, Before, After, Gone, Holds, ClosedOnce
    <2>4. Bodies'
      BY <2>1 DEF Become, Types, Bodies
    <2>5. Users'
      BY <1>6, <2>1, SMT
         DEF ParseHeaders, WorkerAt, Become, Types, Users, After, Gone, Active,
                        DestroyedUntouched
    <2> QED  BY <2>2, <2>3, <2>4, <2>5
  <1> QED  BY <1>1, <1>2, <1>3, <1>4, <1>5, <1>6 DEF WorkerStep

\* Every step keeps the invariant.
LEMMA StepInvariant == IInv /\ [Next]_vars => IInv'
  <1> SUFFICES ASSUME IInv, [Next]_vars PROVE IInv'
    OBVIOUS
  <1>1. CASE UNCHANGED vars
    BY <1>1, SMT
       DEF vars, IInv, Types, OneHolder, Released, Bodies, Users, Holds, Active,
           ClosedOnce,
                DestroyedUntouched
  <1>2. CASE Next
    BY <1>2, MainInvariant, StopInvariant, SignalInvariant, WorkerInvariant DEF Next
  <1> QED  BY <1>1, <1>2

\* Whatever signals arrive, wherever and whenever: the listening socket is closed
\* at most once, although the handlers and the destructor all call stop.
THEOREM SocketSafe == Spec => []ClosedOnce
  <1>1. IInv => ClosedOnce
    BY DEF IInv, Types, OneHolder, Holds, ClosedOnce, Active, Stoppers
  <1> QED  BY <1>1, InitInvariant, StepInvariant, PTL DEF Spec

\* The listening socket is closed, or somebody is about to close it, when main
\* has destroyed the server (~HttpServer).
THEOREM SocketNotLeaked == Spec => []SocketReleased
  <1>1. IInv => SocketReleased
    BY DEF IInv, Types, OneHolder, Released, Holds, Gone, SocketReleased, Active,
           Stoppers
  <1> QED  BY <1>1, InitInvariant, StepInvariant, PTL DEF Spec

\* The gateway is handed whole requests only.
THEOREM RequestsWhole == Spec => []WholeRequests
  <1>1. IInv => WholeRequests
    BY DEF IInv, Bodies, WholeRequests
  <1> QED  BY <1>1, InitInvariant, StepInvariant, PTL DEF Spec

\* Nothing uses the destroyed objects, unless it was active when they were
\* destroyed or run was left by an exception.
THEOREM DestructionSafe == Spec => []DestroyedUntouched
  <1>1. IInv => DestroyedUntouched
    BY DEF IInv, Users
  <1> QED  BY <1>1, InitInvariant, StepInvariant, PTL DEF Spec
-----------------------------------------------------------------------------
(* The rate limiter.                                                       *)

\* What the requests of c from the i-th on leave of their window at time t.
Left(c, i, t) == Burst + Rate * (t - admitted[c][i])
                       - Token * (Len(admitted[c]) - i + 1)

\* Types; a client that was admitted has a bucket.
LimiterTypes ==
    /\ now \in Nat
    /\ admitted \in [Clients -> Seq(Nat)]
    /\ DOMAIN buckets \subseteq Clients
    /\ \A c \in DOMAIN buckets :
          /\ buckets[c] \in [tokens : Nat, lastRefill : Nat]
          /\ buckets[c].tokens <= Burst
          /\ buckets[c].lastRefill <= now
    /\ \A c \in Clients : c \notin DOMAIN buckets => admitted[c] = <<>>

\* When it was last refilled a bucket held no more than any window left ...
Bounded == \A c \in DOMAIN buckets : \A i \in DOMAIN admitted[c] :
    /\ admitted[c][i] <= buckets[c].lastRefill
    /\ buckets[c].tokens <= Left(c, i, buckets[c].lastRefill)

\* ... and no less than the tightest did.
Attained == \A c \in DOMAIN buckets :
    \/ buckets[c].tokens = Burst
    \/ \E i \in DOMAIN admitted[c] :
          buckets[c].tokens = Left(c, i, buckets[c].lastRefill)

LimiterInv == LimiterTypes /\ Bounded /\ Attained /\ RateBound
-----------------------------------------------------------------------------
\* A window that is longer by some time leaves Rate more for each tick of it.
LEMMA LongerWindow ==
    ASSUME NEW a \in Int, NEW s \in Int, NEW t \in Int
    PROVE  Rate * (t - a) = Rate * (s - a) + (t - s) * Rate
  BY RateAssumption, Z3

\* One more request in a window takes Token from what is left.
LEMMA OneMore ==
    ASSUME NEW n \in Int
    PROVE  Token * (n + 1) = Token * n + Token
  BY RateAssumption, Z3

\* Amounts of tokens are integers, for every length of time and number of requests.
LEMMA Products ==
    ASSUME NEW a \in Int, NEW k \in Int
    PROVE  Rate * a \in Int /\ Token * k \in Int
  <1>1. \A x, y \in Int : x * y \in Int
    BY SMT
  <1>2. Rate \in Int /\ Token \in Int
    BY RateAssumption, SMT
  <1> QED  BY <1>1, <1>2

\* What is left of a window is an integer, even when a request too many was made.
LEMMA LeftInt ==
    ASSUME NEW a \in Int, NEW k \in Int
    PROVE  Burst + Rate * a - Token * k \in Int
  <1>1. Rate * a \in Int /\ Token * k \in Int
    BY Products
  <1> QED  BY <1>1, RateAssumption, SMT

\* A refill is by a natural number.
LEMMA RefillNat ==
    ASSUME NEW n \in Nat
    PROVE  n * Rate \in Nat
  BY RateAssumption, Z3

\* The bucket a request meets, an old one or a new one, has what LimiterTypes,
\* Bounded and Attained say of the buckets there are.
LEMMA BucketMet ==
    ASSUME LimiterInv, NEW c \in Clients
    PROVE  /\ BucketOf(c) \in [tokens : Nat, lastRefill : Nat]
           /\ BucketOf(c).tokens <= Burst
           /\ BucketOf(c).lastRefill <= now
           /\ \A i \in DOMAIN admitted[c] :
                 /\ admitted[c][i] <= BucketOf(c).lastRefill
                 /\ BucketOf(c).tokens <= Left(c, i, BucketOf(c).lastRefill)
           /\ \/ BucketOf(c).tokens = Burst
              \/ \E i \in DOMAIN admitted[c] :
                    BucketOf(c).tokens = Left(c, i, BucketOf(c).lastRefill)
  <1>1. CASE c \in DOMAIN buckets
    BY <1>1 DEF LimiterInv, LimiterTypes, Bounded, Attained, BucketOf
  <1>2. CASE c \notin DOMAIN buckets
    <2>1. BucketOf(c) = FreshBucket(now) /\ admitted[c] = <<>> /\ now \in Nat
      BY <1>2 DEF LimiterInv, LimiterTypes, BucketOf
    <2> QED  BY <2>1, RateAssumption, SMT DEF FreshBucket
  <1> QED  BY <1>1, <1>2

\* Refilled, it holds exactly what the tightest window leaves now.
LEMMA RefilledExact ==
    ASSUME LimiterInv, NEW c \in Clients
    PROVE  /\ Refilled(BucketOf(c), now) \in Nat
           /\ Refilled(BucketOf(c), now) <= Burst
           /\ \A i \in DOMAIN admitted[c] :
                 Refilled(BucketOf(c), now) <= Left(c, i, now)
           /\ \/ Refilled(BucketOf(c), now) = Burst
              \/ \E i \in DOMAIN admitted[c] :
                    Refilled(BucketOf(c), now) = Left(c, i, now)
  <1> DEFINE b == BucketOf(c)
             gain == (now - b.lastRefill) * Rate
             r == Refilled(b, now)
  <1>1. now \in Nat /\ admitted[c] \in Seq(Nat)
    BY DEF LimiterInv, LimiterTypes
  <1>2. b.tokens \in Nat /\ b.lastRefill \in Nat
    BY BucketMet
  <1>3. now - b.lastRefill \in Nat
    BY <1>1, <1>2, BucketMet, SMT
  <1>4. gain \in Nat
    BY <1>3, RefillNat
  <1>5. r = IF b.tokens + gain < Burst THEN b.tokens + gain ELSE Burst
    BY DEF Refilled
  <1>6. \A i \in DOMAIN admitted[c] :
           /\ Left(c, i, b.lastRefill) \in Int
           /\ Left(c, i, now) = Left(c, i, b.lastRefill) + gain
    <2> SUFFICES ASSUME NEW i \in DOMAIN admitted[c]
                 PROVE  /\ Left(c, i, b.lastRefill) \in Int
                        /\ Left(c, i, now) = Left(c, i, b.lastRefill) + gain
      OBVIOUS
    <2>1. admitted[c][i] \in Nat /\ i \in Int /\ Len(admitted[c]) \in Nat
      BY <1>1, SMT
    <2> DEFINE soon == Rate * (b.lastRefill - admitted[c][i])
               then == Rate * (now - admitted[c][i])
               cost == Token * (Len(admitted[c]) - i + 1)
    <2>2. soon \in Int /\ cost \in Int /\ then = soon + gain
      <3>1. b.lastRefill - admitted[c][i] \in Int /\ Len(admitted[c]) - i + 1 \in Int
        BY <1>2, <2>1, SMT
      <3>2. soon \in Int /\ cost \in Int
        BY <3>1, Products
      <3>3. now \in Int /\ b.lastRefill \in Int /\ admitted[c][i] \in Int
        BY <1>1, <1>2, <2>1, SMT
      <3>4. then = soon + gain
        BY <3>3, LongerWindow
      <3> QED  BY <3>2, <3>4
    <2>3. /\ Left(c, i, b.lastRefill) = Burst + soon - cost
          /\ Left(c, i, now) = Burst + then - cost
      BY DEF Left
    <2> HIDE DEF gain, soon, then, cost
    <2> QED  BY <1>4, <2>2, <2>3, RateAssumption, SMT
  <1> HIDE DEF b, gain, r
  <1>7. r \in Nat /\ r <= Burst
    BY <1>2, <1>4, <1>5, RateAssumption, SMT
  <1>8. \A i \in DOMAIN admitted[c] : r <= Left(c, i, now)
    BY <1>2, <1>4, <1>5, <1>6, BucketMet, RateAssumption, SMT DEF b
  <1>9. r = Burst \/ \E i \in DOMAIN admitted[c] : r = Left(c, i, now)
    BY <1>2, <1>4, <1>5, <1>6, BucketMet, RateAssumption, SMT DEF b
  <1> QED  BY <1>7, <1>8, <1>9 DEF r, b
-----------------------------------------------------------------------------
\* A decision of the limiter keeps the invariant.
LEMMA Decision ==
    ASSUME LimiterInv, NEW c \in Clients, allowed_by_rate_limit(c)
    PROVE  LimiterInv'
  <1> DEFINE r == Refilled(BucketOf(c), now)
  <1>0. PICK n \in Nat : n = Len(admitted[c])
    BY SMT DEF LimiterInv, LimiterTypes
  <1>1. /\ now' = now /\ now \in Nat
        /\ admitted \in [Clients -> Seq(Nat)]
        /\ DOMAIN buckets \subseteq Clients
    BY DEF LimiterInv, LimiterTypes, allowed_by_rate_limit
  <1>2. /\ DOMAIN buckets' = DOMAIN buckets \cup {c}
        /\ buckets'[c] = consume(BucketOf(c), now)
        /\ \A d \in DOMAIN buckets \ {c} : buckets'[d] = buckets[d]
    BY DEF allowed_by_rate_limit
  <1>3. \A d \in Clients \ {c} : admitted'[d] = admitted[d]
    BY <1>1 DEF allowed_by_rate_limit
  <1>4. admitted' \in [Clients -> Seq(Nat)]
    BY <1>1, SMT DEF allowed_by_rate_limit
  <1>5. /\ r \in Nat /\ r <= Burst
        /\ \A i \in DOMAIN admitted[c] : r <= Left(c, i, now)
        /\ r = Burst \/ \E i \in DOMAIN admitted[c] : r = Left(c, i, now)
    BY RefilledExact
  <1>6. \A i \in DOMAIN admitted[c] : admitted[c][i] \in Nat /\ admitted[c][i] <= now
    BY <1>1, BucketMet, SMT
  <1>7. \A i \in DOMAIN admitted[c] : Left(c, i, now) \in Int
    <2> SUFFICES ASSUME NEW i \in DOMAIN admitted[c]
                 PROVE  Left(c, i, now) \in Int
      OBVIOUS
    <2>1. now - admitted[c][i] \in Int /\ Len(admitted[c]) - i + 1 \in Int
      BY <1>1, <1>6, SMT
    <2> QED  BY <2>1, LeftInt DEF Left
  <1> HIDE DEF r
  \* What the requests of c say of its bucket and of each other.
  <1> DEFINE Mine == /\ buckets'[c] \in [tokens : Nat, lastRefill : Nat]
                     /\ buckets'[c].tokens <= Burst
                     /\ buckets'[c].lastRefill = now
                     /\ \A i \in DOMAIN admitted'[c] :
                           /\ admitted'[c][i] <= now
                           /\ buckets'[c].tokens <= Left(c, i, now)'
                     /\ \/ buckets'[c].tokens = Burst
                        \/ \E i \in DOMAIN admitted'[c] :
                              buckets'[c].tokens = Left(c, i, now)'
  <1>8. ASSUME ~Consumes(BucketOf(c), now)
        PROVE  Mine /\ RateBound'
    <2>1. buckets'[c] = [tokens |-> r, lastRefill |-> now] /\ admitted' = admitted
      BY <1>2, <1>5, <1>8, SMT DEF consume, allowed_by_rate_limit, r
    <2>2. \A i \in DOMAIN admitted[c] : Left(c, i, now)' = Left(c, i, now)
      BY <1>1, <2>1 DEF Left
    <2>3. Mine
      BY <1>1, <1>5, <1>6, <2>1, <2>2, SMT
    <2>4. RateBound'
      BY <2>1 DEF LimiterInv, RateBound
    <2> QED  BY <2>3, <2>4
  <1>9. ASSUME Consumes(BucketOf(c), now)
        PROVE  Mine /\ RateBound'
    <2>1. /\ buckets'[c] = [tokens |-> r - Token, lastRefill |-> now]
          /\ admitted'[c] = Append(admitted[c], now)
          /\ r >= Token
      BY <1>1, <1>2, <1>9 DEF consume, allowed_by_rate_limit, r, Consumes
    <2>2. /\ Len(admitted'[c]) = n + 1 /\ DOMAIN admitted'[c] = 1 .. n + 1
          /\ admitted'[c][n + 1] = now
          /\ DOMAIN admitted[c] = 1 .. n
          /\ \A i \in 1 .. n : admitted'[c][i] = admitted[c][i]
      BY <1>0, <1>1, <2>1, SMT
    <2>3. \A i \in 1 .. n : Left(c, i, now)' = Left(c, i, now) - Token
      <3> SUFFICES ASSUME NEW i \in 1 .. n
                   PROVE  Left(c, i, now)' = Left(c, i, now) - Token
        OBVIOUS
      <3> DEFINE room == Rate * (now - admitted[c][i])
                 cost == Token * (n - i + 1)
      <3>1. Left(c, i, now) = Burst + room - cost
        BY <1>0 DEF Left
      <3>2. Left(c, i, now)' = Burst + room - Token * (n - i + 1 + 1)
        <4>1. n + 1 - i + 1 = n - i + 1 + 1
          BY <1>1, SMT
        <4>2. admitted'[c][i] = admitted[c][i] /\ Len(admitted'[c]) = n + 1 /\ now' = now
          BY <1>1, <2>2
        <4>3. Left(c, i, now)' = Burst + Rate * (now' - admitted'[c][i])
                                       - Token * (Len(admitted'[c]) - i + 1)
          BY DEF Left
        <4>4. /\ now' - admitted'[c][i] = now - admitted[c][i]
              /\ Len(admitted'[c]) - i + 1 = n - i + 1 + 1
          BY <4>1, <4>2, SMT
        <4> QED  BY <4>3, <4>4
      <3>3. Token * (n - i + 1 + 1) = cost + Token
        BY <1>1, OneMore, SMT
      <3>4. room \in Int /\ cost \in Int
        BY <1>1, <1>6, <2>2, RateAssumption, SMT
      <3> HIDE DEF room, cost
      <3> QED  BY <3>1, <3>2, <3>3, <3>4, RateAssumption, SMT
    <2>4. Left(c, n + 1, now)' = Burst - Token
      <3>1. now - now = 0 /\ n + 1 - (n + 1) + 1 = 1
        BY <1>1, SMT
      <3>2. Rate * 0 = 0 /\ Token * 1 = Token
        BY RateAssumption, SMT
      <3>3. Left(c, n + 1, now)' = Burst + Rate * (now - now) - Token * (n + 1 - (n + 1) + 1)
        BY <1>1, <2>2, SMT DEF Left
      <3> QED  BY <3>1, <3>2, <3>3, RateAssumption, SMT
    <2>5. Mine
      <3>1. /\ r - Token \in Nat /\ r - Token <= Burst - Token
            /\ r - Token <= Burst
        BY <1>5, <2>1, RateAssumption, SMT
      <3>2. \A i \in 1 .. n + 1 : i \in 1 .. n \/ i = n + 1
        BY <1>1, SMT
      <3>3. \A i \in 1 .. n + 1 : /\ admitted'[c][i] <= now
                                  /\ r - Token <= Left(c, i, now)'
        <4> SUFFICES ASSUME NEW i \in 1 .. n + 1
                     PROVE  admitted'[c][i] <= now /\ r - Token <= Left(c, i, now)'
          OBVIOUS
        <4>1. CASE i \in 1 .. n
          <5>1. r <= Left(c, i, now) /\ Left(c, i, now) \in Int
            BY <1>5, <1>7, <2>2, <4>1
          <5>2. Left(c, i, now)' = Left(c, i, now) - Token
            BY <2>3, <4>1
          <5>3. r - Token <= Left(c, i, now)'
            BY <1>5, <5>1, <5>2, RateAssumption, SMT
          <5>4. admitted'[c][i] <= now
            BY <1>6, <2>2, <4>1
          <5> QED  BY <5>3, <5>4
        <4>2. CASE i = n + 1
          BY <1>1, <2>2, <2>4, <3>1, <4>2, SMT
        <4> QED  BY <3>2, <4>1, <4>2
      <3>4. \E i \in 1 .. n + 1 : r - Token = Left(c, i, now)'
        <4>1. CASE r = Burst
          BY <1>1, <2>4, <4>1, SMT
        <4>2. CASE r # Burst
          BY <1>1, <1>5, <2>2, <2>3, <4>2, SMT
        <4> QED  BY <4>1, <4>2
      <3> QED  BY <1>1, <2>1, <2>2, <3>1, <3>3, <3>4, SMT
    <2>6. RateBound'
      <3> SUFFICES ASSUME NEW d \in Clients, NEW i \in DOMAIN admitted'[d],
                          NEW j \in DOMAIN admitted'[d], i <= j
                   PROVE  Token * (j - i + 1)
                             <= Burst + Rate * (admitted'[d][j] - admitted'[d][i])
        BY DEF RateBound
      <3>1. CASE d # c
        BY <1>3, <3>1 DEF LimiterInv, RateBound
      <3>2. CASE d = c /\ j \in 1 .. n
        <4>1. i \in 1 .. n
          BY <1>1, <2>2, <3>2, SMT
        <4> QED  BY <2>2, <3>2, <4>1 DEF LimiterInv, RateBound
      <3>3. CASE d = c /\ j = n + 1
        <4> DEFINE room == Rate * (now - admitted'[c][i])
                   cost == Token * (n + 1 - i + 1)
        <4>1. Left(c, i, now)' = Burst + room - cost
          BY <1>1, <2>2, <3>3, SMT DEF Left
        <4>2. i \in Int /\ admitted'[c][i] \in Nat
          BY <1>4, <2>2, <3>3, SMT
        <4>3. room \in Int /\ cost \in Int
          <5>1. now - admitted'[c][i] \in Int /\ n + 1 - i + 1 \in Int
            BY <1>1, <4>2, SMT
          <5> QED  BY <5>1, Products
        <4>4. buckets'[c].tokens \in Nat /\ buckets'[c].tokens <= Left(c, i, now)'
          BY <2>5, <3>3
        <4> HIDE DEF room, cost
        <4>5. cost <= Burst + room
          BY <4>1, <4>3, <4>4, RateAssumption, SMT
        <4>6. /\ j - i + 1 = n + 1 - i + 1
              /\ admitted'[d][j] - admitted'[d][i] = now - admitted'[c][i]
          BY <2>2, <3>3, SMT
        <4> QED  BY <4>5, <4>6 DEF room, cost
      <3> QED  BY <1>1, <2>2, <3>1, <3>2, <3>3, SMT
    <2> QED  BY <2>5, <2>6
  <1>10. Mine /\ RateBound'
    BY <1>8, <1>9
  <1>11. \A d \in DOMAIN buckets \ {c} : \A i \in DOMAIN admitted[d] :
            Left(d, i, buckets[d].lastRefill)' = Left(d, i, buckets[d].lastRefill)
    BY <1>1, <1>2, <1>3 DEF Left
  <1>12. LimiterTypes'
    BY <1>1, <1>2, <1>3, <1>4, <1>10, SMT DEF LimiterInv, LimiterTypes
  <1>13. Bounded'
    BY <1>1, <1>2, <1>3, <1>10, <1>11 DEF LimiterInv, Bounded, Left
  <1>14. Attained'
    <2> SUFFICES ASSUME NEW d \in DOMAIN buckets'
                 PROVE  \/ buckets'[d].tokens = Burst
                        \/ \E i \in DOMAIN admitted'[d] :
                              buckets'[d].tokens = Left(d, i, buckets[d].lastRefill)'
      BY DEF Attained
    <2>1. CASE d = c
      BY <1>1, <1>10, <2>1 DEF Left
    <2>2. CASE d # c
      BY <1>1, <1>2, <1>3, <1>11, <2>2 DEF LimiterInv, Attained
    <2> QED  BY <2>1, <2>2
  <1> QED  BY <1>10, <1>12, <1>13, <1>14 DEF LimiterInv

\* LimiterInv is an invariant of the buckets.
LEMMA Invariant == LimiterSpec => []LimiterInv
  <1>1. LimiterInit => LimiterInv
    BY RateAssumption, SMT
       DEF LimiterInit, LimiterInv, LimiterTypes, Bounded, Attained, RateBound
  <1>2. LimiterInv /\ [LimiterNext]_limiterVars => LimiterInv'
    <2> SUFFICES ASSUME LimiterInv, [LimiterNext]_limiterVars
                 PROVE  LimiterInv'
      OBVIOUS
    <2>1. ASSUME NEW c \in Clients, allowed_by_rate_limit(c)
          PROVE  LimiterInv'
      BY <2>1, Decision
    <2>2. CASE Tick
      <3>1. now' = now + 1 /\ buckets' = buckets /\ admitted' = admitted
        BY <2>2 DEF Tick
      <3>2. LimiterTypes'
        BY <3>1, SMT DEF LimiterInv, LimiterTypes
      <3>3. Bounded' /\ Attained' /\ RateBound'
        BY <3>1 DEF LimiterInv, Bounded, Attained, RateBound, Left
      <3> QED  BY <3>2, <3>3 DEF LimiterInv
    <2>3. CASE UNCHANGED limiterVars
      BY <2>3, ZenonT(40)
         DEF limiterVars, LimiterInv, LimiterTypes, Bounded, Attained, RateBound, Left
    <2> QED  BY <2>1, <2>2, <2>3 DEF LimiterNext
  <1> QED  BY <1>1, <1>2, PTL DEF LimiterSpec

\* The limit, for every value of the constants: the requests admitted in any
\* window of time cost at most Burst plus Rate for every tick
\* (TokenBucket::consume, Gateway::allowed_by_rate_limit).
THEOREM LimitHolds == LimiterSpec => []RateBound
  <1>1. LimiterInv => RateBound
    BY DEF LimiterInv
  <1> QED  BY <1>1, Invariant, PTL

\* The limit is exact: what a bucket holds is what the tightest of all windows
\* leaves, and so a request is refused only when it would exceed the limit of
\* some window (TokenBucket::consume).
THEOREM LimitExact == LimiterSpec => []BucketIsTightest
  <1>1. LimiterInv => BucketIsTightest
    <2> SUFFICES ASSUME LimiterInv, NEW c \in Clients
                 PROVE  Refilled(BucketOf(c), now)
                           = Min({Burst} \cup {Slack(c, i) : i \in DOMAIN admitted[c]})
      BY DEF BucketIsTightest
    <2> DEFINE r == Refilled(BucketOf(c), now)
               S == {Burst} \cup {Slack(c, i) : i \in DOMAIN admitted[c]}
    <2>1. \A i \in DOMAIN admitted[c] : Slack(c, i) = Left(c, i, now)
      BY DEF Slack, Left
    <2>2. r \in Nat /\ r \in S /\ \A x \in S : r <= x
      BY <2>1, RefilledExact
    <2>3. \A x \in S : (\A y \in S : x <= y) => x = r
      <3>1. \A i \in DOMAIN admitted[c] :
               now - admitted[c][i] \in Int /\ Len(admitted[c]) - i + 1 \in Int
        BY SMT DEF LimiterInv, LimiterTypes
      <3>2. \A i \in DOMAIN admitted[c] : Slack(c, i) \in Int
        BY <3>1, LeftInt DEF Slack
      <3>3. \A x \in S : x \in Int
        BY <3>2, RateAssumption, SMT
      <3> HIDE DEF r, S
      <3> QED  BY <2>2, <3>3, SMT
    <2> HIDE DEF r, S
    <2>4. Min(S) = r
      BY <2>2, <2>3 DEF Min
    <2> QED  BY <2>4 DEF r, S
  <1> QED  BY <1>1, Invariant, PTL
=============================================================================
