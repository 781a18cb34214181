------------------------------ MODULE GuestMutex ------------------------------
(***************************************************************************)
(* What the guest is promised about its mutexes: one owner at a time, only *)
(* the owner gives it up, and only a recursive mutex is entered twice.     *)
(* Bionic's pthread.h is external to this repository; the contract is read *)
(* off the functions of compat_bridge.c that stand in for it.              *)
(***************************************************************************)
EXTENDS Naturals

CONSTANTS Thread, Mutex, NoThread

VARIABLES
  type,     \* type[m]: what the guest asked for
  holder,   \* holder[m]: the owner, or NoThread
  depth     \* depth[m]: how often the owner has entered it

vars == <<type, holder, depth>>

Init ==
  /\ type \in [Mutex -> {"normal", "recursive", "errorcheck"}]
  /\ holder = [m \in Mutex |-> NoThread]
  /\ depth = [m \in Mutex |-> 0]

Lock(t, m) ==
  /\ holder[m] = NoThread
  /\ holder' = [holder EXCEPT ![m] = t]
  /\ depth' = [depth EXCEPT ![m] = 1]
  /\ UNCHANGED type

Reenter(t, m) ==
  /\ holder[m] = t
  /\ type[m] = "recursive"
  /\ depth' = [depth EXCEPT ![m] = @ + 1]
  /\ UNCHANGED <<type, holder>>

Unlock(t, m) ==
  /\ holder[m] = t
  /\ depth' = [depth EXCEPT ![m] = @ - 1]
  /\ holder' = [holder EXCEPT ![m] = IF depth[m] = 1 THEN NoThread ELSE t]
  /\ UNCHANGED type

\* A free mutex may be destroyed and initialised again with another type.
Retype(m) ==
  /\ holder[m] = NoThread
  /\ \E ty \in {"normal", "recursive", "errorcheck"} : type' = [type EXCEPT ![m] = ty]
  /\ UNCHANGED <<holder, depth>>

Next ==
  \E m \in Mutex :
    \/ Retype(m)
    \/ \E t \in Thread : Lock(t, m) \/ Reenter(t, m) \/ Unlock(t, m)

Spec == Init /\ [][Next]_vars
=============================================================================
