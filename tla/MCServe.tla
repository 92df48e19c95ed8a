------------------------------ MODULE MCServe ------------------------------
(* Two jobs and two requests that share two connections.                   *)
EXTENDS Serve
=============================================================================
