----------------------------- MODULE MCCxaAtexit -----------------------------
(* Two threads share the registry; Call bounds the calls of one behaviour. *)
EXTENDS CxaAtexit, TLC
=============================================================================
