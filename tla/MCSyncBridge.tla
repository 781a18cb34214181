---------------------------- MODULE MCSyncBridge ----------------------------
(* Threads and host addresses are interchangeable. *)
EXTENDS LockBridge, TLC

Symmetry == Permutations(Thread) \cup Permutations(Host)
=============================================================================
