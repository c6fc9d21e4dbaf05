---------------------------- MODULE MCHttpServer ----------------------------
(* A small instance of HttpServer for TLC. *)
EXTENDS HttpServer

CONSTANTS c1, c2

=============================================================================
