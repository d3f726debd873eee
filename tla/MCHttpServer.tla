---------------------------- MODULE MCHttpServer ----------------------------
(* Model checking of the server under an arbitrary caller.                 *)
EXTENDS HttpServer

CONSTANTS s1, s2, s3

ThreeSessions == {s1, s2, s3}
=============================================================================
