---------------------------- MODULE MCDssSession ----------------------------
(* Two documents, one of which outgrows a pipe, and up to two stray lines. *)
EXTENDS DssSession
=============================================================================
