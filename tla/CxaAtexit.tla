------------------------------ MODULE CxaAtexit ------------------------------
(***************************************************************************)
(* The C++ exit registry of the Bionic bridge: __cxa_atexit,               *)
(* __cxa_thread_atexit_impl and __cxa_finalize as the guest libraries call *)
(* them from any thread, from a constructor, or from inside a destructor   *)
(* that a finalize call is running (compat_bridge.c).                      *)
(*                                                                         *)
(* Every call of one of these functions is an element of Call, numbered in *)
(* the order the calls are made; its local variables are functions of the  *)
(* call, and the object (a destructor with its argument) that a call       *)
(* registers is named by that call.  A call made by a running destructor   *)
(* has the finalize call as its caller, so nested calls form a chain and   *)
(* an outer call proceeds only when its callee returned.                   *)
(***************************************************************************)
EXTENDS Naturals, FiniteSets

CONSTANTS
  Thread,     \* host threads running guest code
  MaxCalls,   \* bound: calls of the three functions in one behaviour
  Dso,        \* values of the guest modules' __dso_handle
  Capacity,   \* ATEXIT_CAPACITY
  NoDso,      \* the NULL handle: __cxa_finalize(NULL) takes every entry
  NoObject,   \* the NULL destructor
  Nobody      \* no caller, no lock owner

Call == 1 .. MaxCalls
Object == Call

ASSUME CxaConstants ==
  /\ MaxCalls \in Nat
  /\ Capacity \in Nat
  /\ NoDso \notin Dso
  /\ NoObject \notin Object
  /\ Nobody \notin Thread \cup Call
  /\ Thread \cap Call = {}

VARIABLES
  entries,    \* atexit_entries
  count,      \* atexit_count; never decremented
  owner,      \* the call that holds atexit_lock
  pc,         \* where each call is
  caller,     \* the thread or the finalize call that made the call
  obj,        \* destructor to register, or the copied entry's destructor
  dso,        \* the call's dso argument
  index,      \* compat_cxa_finalize's index
  top,        \* history: the count a finalize call started from
  accepted,   \* history: objects whose registration returned 0
  started     \* history: how often each destructor was entered

frames == <<pc, caller, obj, dso, index, top>>
vars == <<entries, count, owner, frames, accepted, started>>

Slot == 0 .. Capacity - 1

Entry == [obj : Object \cup {NoObject}, dso : Dso \cup {NoDso}, active : BOOLEAN]

Registering == {"reg_lock", "reg_store", "reg_count"}
Finalizing  == {"fin_scan", "fin_picked", "fin_running", "fin_relock", "fin_returned"}
Holding     == {"reg_store", "reg_count", "reg_unlock", "fin_scan", "fin_picked"}
Resting     == {"unused", "reg_returned", "fin_returned"}
Location    == Registering \cup Finalizing \cup Holding \cup Resting \cup {"fin_lock"}

Live(c) == pc[c] \notin Resting

(***************************************************************************)
(* Guest code that may call: a thread outside these functions, or a        *)
(* destructor being run, when the call it made last has returned.          *)
(***************************************************************************)
Calling(x) == \E c \in Call : Live(c) /\ caller[c] = x

MayCall(x) ==
  /\ ~Calling(x)
  /\ x \in Thread \/ (x \in Call /\ pc[x] = "fin_running")

Step(c, from, to) == pc[c] = from /\ pc' = [pc EXCEPT ![c] = to]

Acquire(c) == owner = Nobody /\ owner' = c

Release == owner' = Nobody

-----------------------------------------------------------------------------
(* compat_cxa_atexit, and compat_cxa_thread_atexit which forwards to it.   *)

CallAtexit(x, c, o, d) ==
  /\ MayCall(x)
  /\ Step(c, "unused", "reg_lock")
  /\ caller' = [caller EXCEPT ![c] = x]
  /\ obj' = [obj EXCEPT ![c] = o]
  /\ dso' = [dso EXCEPT ![c] = d]
  /\ UNCHANGED <<entries, count, owner, index, top, accepted, started>>

\* Mutant: the lock is taken without waiting for its owner.
RegLockUnlocked(c) ==
  /\ Step(c, "reg_lock", "reg_store")
  /\ owner' = c
  /\ UNCHANGED <<entries, count, caller, obj, dso, index, top, accepted, started>>

RegLock(c) ==
  /\ Step(c, "reg_lock", "reg_store")
  /\ Acquire(c)
  /\ UNCHANGED <<entries, count, caller, obj, dso, index, top, accepted, started>>

HasRoom(c) == obj[c] # NoObject /\ count < Capacity

RegStore(c) ==
  /\ HasRoom(c)
  /\ Step(c, "reg_store", "reg_count")
  /\ entries' = [entries EXCEPT ![count] = [obj |-> obj[c], dso |-> dso[c], active |-> TRUE]]
  /\ UNCHANGED <<count, owner, caller, obj, dso, index, top, accepted, started>>

\* A NULL destructor or a full registry: the result stays -1.
RegRefuse(c) ==
  /\ ~HasRoom(c)
  /\ Step(c, "reg_store", "reg_unlock")
  /\ UNCHANGED <<entries, count, owner, caller, obj, dso, index, top, accepted, started>>

RegCount(c) ==
  /\ Step(c, "reg_count", "reg_unlock")
  /\ count' = count + 1
  /\ accepted' = accepted \cup {obj[c]}
  /\ UNCHANGED <<entries, owner, caller, obj, dso, index, top, started>>

RegUnlock(c) ==
  /\ Step(c, "reg_unlock", "reg_returned")
  /\ Release
  /\ caller' = [caller EXCEPT ![c] = Nobody]
  /\ obj' = [obj EXCEPT ![c] = NoObject]
  /\ dso' = [dso EXCEPT ![c] = NoDso]
  /\ UNCHANGED <<entries, count, index, top, accepted, started>>

-----------------------------------------------------------------------------
(* compat_cxa_finalize; nfsmw_compat_finalize calls it with NULL.          *)

CallFinalize(x, c, d) ==
  /\ MayCall(x)
  /\ Step(c, "unused", "fin_lock")
  /\ caller' = [caller EXCEPT ![c] = x]
  /\ dso' = [dso EXCEPT ![c] = d]
  /\ UNCHANGED <<entries, count, owner, obj, index, top, accepted, started>>

\* Mutant: the scan starts below the newest entry.
FinLockSkipsNewest(c) ==
  /\ Step(c, "fin_lock", "fin_scan")
  /\ Acquire(c)
  /\ index' = [index EXCEPT ![c] = IF count = 0 THEN 0 ELSE count - 1]
  /\ top' = [top EXCEPT ![c] = count]
  /\ UNCHANGED <<entries, count, caller, obj, dso, accepted, started>>

FinLock(c) ==
  /\ Step(c, "fin_lock", "fin_scan")
  /\ Acquire(c)
  /\ index' = [index EXCEPT ![c] = count]
  /\ top' = [top EXCEPT ![c] = count]
  /\ UNCHANGED <<entries, count, caller, obj, dso, accepted, started>>

Matches(c, i) == dso[c] = NoDso \/ entries[i].dso = dso[c]

Wanted(c, i) == entries[i].active /\ Matches(c, i)

FinSkip(c) ==
  /\ index[c] # 0
  /\ ~Wanted(c, index[c] - 1)
  /\ Step(c, "fin_scan", "fin_scan")
  /\ index' = [index EXCEPT ![c] = @ - 1]
  /\ UNCHANGED <<entries, count, owner, caller, obj, dso, top, accepted, started>>

\* Mutant: the entry is copied and stays active.
FinPickKeepsActive(c) ==
  /\ index[c] # 0
  /\ Wanted(c, index[c] - 1)
  /\ Step(c, "fin_scan", "fin_picked")
  /\ index' = [index EXCEPT ![c] = @ - 1]
  /\ obj' = [obj EXCEPT ![c] = entries[index[c] - 1].obj]
  /\ UNCHANGED <<entries, count, owner, caller, dso, top, accepted, started>>

\* The entry is copied and deactivated under the lock.
FinPick(c) ==
  /\ index[c] # 0
  /\ Wanted(c, index[c] - 1)
  /\ Step(c, "fin_scan", "fin_picked")
  /\ index' = [index EXCEPT ![c] = @ - 1]
  /\ obj' = [obj EXCEPT ![c] = entries[index[c] - 1].obj]
  /\ entries' = [entries EXCEPT ![index[c] - 1].active = FALSE]
  /\ UNCHANGED <<count, owner, caller, dso, top, accepted, started>>

\* Mutant: the destructor runs under atexit_lock.
FinRunLocked(c) ==
  /\ Step(c, "fin_picked", "fin_running")
  /\ started' = [started EXCEPT ![obj[c]] = @ + 1]
  /\ UNCHANGED <<entries, count, owner, caller, obj, dso, index, top, accepted>>

\* The lock is dropped and the destructor entered.
FinRun(c) ==
  /\ Step(c, "fin_picked", "fin_running")
  /\ Release
  /\ started' = [started EXCEPT ![obj[c]] = @ + 1]
  /\ UNCHANGED <<entries, count, caller, obj, dso, index, top, accepted>>

DestructorReturns(c) ==
  /\ ~Calling(c)
  /\ Step(c, "fin_running", "fin_relock")
  /\ obj' = [obj EXCEPT ![c] = NoObject]
  /\ UNCHANGED <<entries, count, owner, caller, dso, index, top, accepted, started>>

FinRelock(c) ==
  /\ Step(c, "fin_relock", "fin_scan")
  /\ Acquire(c)
  /\ UNCHANGED <<entries, count, caller, obj, dso, index, top, accepted, started>>

FinReturn(c) ==
  /\ index[c] = 0
  /\ Step(c, "fin_scan", "fin_returned")
  /\ Release
  /\ caller' = [caller EXCEPT ![c] = Nobody]
  /\ UNCHANGED <<entries, count, obj, dso, index, top, accepted, started>>

-----------------------------------------------------------------------------
Init ==
  /\ entries = [i \in Slot |-> [obj |-> NoObject, dso |-> NoDso, active |-> FALSE]]
  /\ count = 0
  /\ owner = Nobody
  /\ pc = [c \in Call |-> "unused"]
  /\ caller = [c \in Call |-> Nobody]
  /\ obj = [c \in Call |-> NoObject]
  /\ dso = [c \in Call |-> NoDso]
  /\ index = [c \in Call |-> 0]
  /\ top = [c \in Call |-> 0]
  /\ accepted = {}
  /\ started = [o \in Object |-> 0]

\* One step of a call that was made.
Proceed(c) ==
  \/ RegLock(c) \/ RegStore(c) \/ RegRefuse(c) \/ RegCount(c) \/ RegUnlock(c)
  \/ FinLock(c) \/ FinSkip(c) \/ FinPick(c) \/ FinRun(c)
  \/ DestructorReturns(c) \/ FinRelock(c) \/ FinReturn(c)

\* Guest code makes the next call.
Enter(c) ==
  /\ \A b \in Call : b < c => pc[b] # "unused"
  /\ \E x \in Thread \cup Call :
      \/ \E o \in {c, NoObject}, d \in Dso : CallAtexit(x, c, o, d)
      \/ \E d \in Dso \cup {NoDso} : CallFinalize(x, c, d)

\* Guest code may stop calling; a state with a stuck call is a deadlock.
Quiet == (\A c \in Call : ~Live(c)) /\ UNCHANGED vars

Next == (\E c \in Call : Enter(c) \/ Proceed(c)) \/ Quiet

Spec == Init /\ [][Next]_vars

(***************************************************************************)
(* The host scheduler runs every thread and guest destructors return; no   *)
(* call is ever forced to be made.                                         *)
(***************************************************************************)
FairSpec == Spec /\ \A c \in Call : WF_vars(Proceed(c))

-----------------------------------------------------------------------------
\* Every variable keeps its type; count stays within ATEXIT_CAPACITY.
TypeOK ==
  /\ entries \in [Slot -> Entry]
  /\ count \in 0 .. Capacity
  /\ owner \in Call \cup {Nobody}
  /\ pc \in [Call -> Location]
  /\ caller \in [Call -> Thread \cup Call \cup {Nobody}]
  /\ obj \in [Call -> Object \cup {NoObject}]
  /\ dso \in [Call -> Dso \cup {NoDso}]
  /\ index \in [Call -> 0 .. Capacity]
  /\ top \in [Call -> 0 .. Capacity]
  /\ accepted \in SUBSET Object
  /\ started \in [Object -> Nat]

(***************************************************************************)
(* No destructor is entered twice, however finalize calls of several       *)
(* threads and of running destructors overlap, and none is entered for an  *)
(* object whose registration was refused.                                  *)
(***************************************************************************)
AtMostOnce ==
  \A o \in Object : started[o] <= (IF o \in accepted THEN 1 ELSE 0)

\* The object was handed to a finalize call that is about to enter it.
PickedUp(o) == \E c \in Call : pc[c] = "fin_picked" /\ obj[c] = o

(***************************************************************************)
(* A registration that returned 0 is never lost to a concurrent one: until *)
(* its destructor is taken, exactly one live entry holds it.               *)
(***************************************************************************)
NoLostRegistration ==
  \A o \in accepted :
    \/ started[o] # 0
    \/ PickedUp(o)
    \/ Cardinality({i \in Slot : i < count /\ entries[i].active /\ entries[i].obj = o}) = 1

(***************************************************************************)
(* A finalize call leaves nothing behind in the part of the registry it    *)
(* has scanned: at its return every matching object registered before it   *)
(* took the lock was taken by it or by an overlapping finalize call, even  *)
(* when the destructors it ran registered more objects.                    *)
(***************************************************************************)
SweepComplete ==
  \A c \in Call : pc[c] \in Finalizing =>
    \A i \in Slot : index[c] <= i /\ i < top[c] => ~Wanted(c, i)

(***************************************************************************)
(* Every finalize call returns: the lock is free while a destructor runs,  *)
(* so a destructor that registers or finalizes cannot block its own call.  *)
(***************************************************************************)
FinalizeReturns ==
  \A c \in Call : pc[c] = "fin_lock" ~> pc[c] = "fin_returned"
=============================================================================
