---------------------------- MODULE MCThreadLayout ----------------------------
(* ThreadLayout on small threads. *)
EXTENDS ThreadLayout
=============================================================================
