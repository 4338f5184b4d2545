---------------------------- MODULE MCHttpServer ----------------------------
(* HttpServer as it is: with finitely many connections and signals, and    *)
(* limits on what is received, it is finite.                               *)
EXTENDS HttpServer
=============================================================================
