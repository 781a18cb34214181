----------------------------- MODULE MCGameInput -----------------------------
(***************************************************************************)
(* A controller with A, Back, Guide, Start, one shoulder and D-pad up, on  *)
(* a screen of three by two cursor positions.  The stick is pushed right   *)
(* and fully up, or left by no multiple of 4096 and up to just inside its  *)
(* dead zone.                                                              *)
(***************************************************************************)
EXTENDS GameInput

MCWired == {A, Back, Guide, Start, 9, Up}
MCSticks == {<<9000, -32768>>, <<-5000, -4095>>}
MCLimits == {0, 2}
=============================================================================
