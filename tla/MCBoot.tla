------------------------------- MODULE MCBoot -------------------------------
(* The five modules of module_names, with two lifecycle functions each.      *)
EXTENDS Boot
=============================================================================
