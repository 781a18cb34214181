------------------------------ MODULE LockBridge ------------------------------
(***************************************************************************)
(* Guest read-write locks and semaphores over host ones (compat_bridge.c), *)
(* created by the getters of SyncBridge and on the same heap, so that the  *)
(* address of one freed object becomes the next one of another sort.       *)
(*                                                                         *)
(* The guest unlocks only what it holds, does not ask for a write lock     *)
(* while it reads, and destroys a lock nobody holds.  sem_init of a shared *)
(* semaphore returns -1 before it touches anything: no step here.          *)
(***************************************************************************)
EXTENDS SyncBridge

CONSTANT MaxCount      \* bound: the count of a semaphore

ASSUME LockConstants == MaxCount \in Nat

VARIABLES
  readers,  \* readers[h][t]: the host read locks; owner[h] is the writer
  count,    \* count[h]: the host semaphore
  initial,  \* initial[t]: the value t passes to sem_init
  reading,  \* history: reading[t][r], rdlock calls that returned 0 less unlocks
  writing,  \* history: writing[t][r], t's wrlock returned 0, its unlock has not
  tokens    \* history: tokens[s], the value given, plus posts, less waits

locks == <<readers, count>>
history == <<reading, writing, tokens>>
lockvars == <<vars, locks, initial, history>>

-----------------------------------------------------------------------------
(* The guest enters a function of a read-write lock or a semaphore.        *)

CallInit(t, g, o, v) ==
  /\ <<g, o>> \in (Rwlock \X {"rwinit"}) \cup (Semaphore \X {"seminit"})
  /\ life[g] = "raw"
  /\ g \in Rwlock => v = 0
  /\ Enter(t, o, NoGuest, g, "zero")
  /\ life' = [life EXCEPT ![g] = "changing"]
  /\ initial' = [initial EXCEPT ![t] = v]
  /\ tokens' = IF g \in Semaphore THEN [tokens EXCEPT ![g] = v] ELSE tokens
  /\ UNCHANGED <<slot, gtype, locks, reading, writing>>

CallDestroy(t, g, o) ==
  /\ <<g, o>> \in (Rwlock \X {"rwdestroy"}) \cup (Semaphore \X {"semdestroy"})
  /\ life[g] = "ready" /\ Unused(g)
  /\ g \in Rwlock => \A u \in Thread : reading[u][g] = 0 /\ ~writing[u][g]
  /\ Enter(t, o, NoGuest, g, "mread")
  /\ life' = [life EXCEPT ![g] = "changing"]
  /\ UNCHANGED <<slot, gtype, locks, initial, history>>

CallRwlock(t, r, o) ==
  /\ o \in {"rdlock", "wrlock", "rwunlock"}
  /\ life[r] = "ready"
  /\ o = "rdlock" => reading[t][r] < MaxDepth
  /\ o = "wrlock" => reading[t][r] = 0
  /\ o = "rwunlock" => reading[t][r] > 0 \/ writing[t][r]
  /\ Enter(t, o, NoGuest, r, "mread")
  /\ UNCHANGED <<memory, locks, initial, history>>

CallSemaphore(t, s, o) ==
  /\ o \in SemaphoreOp \ {"seminit", "semdestroy"}
  /\ life[s] = "ready"
  /\ o = "sempost" => tokens[s] + Cardinality({u \in Thread : op[u] = "sempost"}) < MaxCount
  /\ Enter(t, o, NoGuest, s, "mread")
  /\ UNCHANGED <<memory, locks, initial, history>>

-----------------------------------------------------------------------------
(* A host semaphore gets its value with its allocation.                    *)

\* Mutant: sem_init forgets the value it is given.
InitialValueZero(t) == 0

\* compat_sem_init passes its value, the other functions 0.
InitialValue(t) == IF op[t] = "seminit" THEN initial[t] ELSE 0

AllocateLock(t) ==
  /\ Allocate(t)
  /\ count' = [h \in Host |-> IF sort[h] = "free" /\ sort'[h] = "semaphore"
                              THEN InitialValue(t) ELSE count[h]]
  /\ UNCHANGED <<readers, initial, history>>

-----------------------------------------------------------------------------
(* The host operation: glibc's read-write locks, which prefer readers, and *)
(* semaphores.                                                             *)

Holds(t, o, sorted) == pc[t] = "act" /\ op[t] = o /\ hm[t] \in Host /\ sort[hm[t]] = sorted

Reads(t) == Holds(t, "rdlock", "rwlock") /\ owner[hm[t]] = NoThread
Writes(t) ==
  /\ Holds(t, "wrlock", "rwlock")
  /\ owner[hm[t]] = NoThread /\ \A u \in Thread : readers[hm[t]][u] = 0
\* EDEADLK: the writer asks again.
Refuses(t) == pc[t] = "act" /\ op[t] \in {"rdlock", "wrlock"} /\ hm[t] \in Host /\ owner[hm[t]] = t

ReadLock(t) ==
  /\ Reads(t)
  /\ readers' = [readers EXCEPT ![hm[t]][t] = @ + 1]
  /\ reading' = [reading EXCEPT ![t][obj[t]] = @ + 1]
  /\ Return(t)
  /\ UNCHANGED <<memory, hosts, held, count, initial, writing, tokens>>

WriteLock(t) ==
  /\ Writes(t)
  /\ owner' = [owner EXCEPT ![hm[t]] = t]
  /\ writing' = [writing EXCEPT ![t][obj[t]] = TRUE]
  /\ Return(t)
  /\ UNCHANGED <<memory, sort, type, depth, held, locks, initial, reading, tokens>>

LockDeadlocks(t) ==
  /\ Refuses(t)
  /\ Return(t)
  /\ UNCHANGED <<memory, hosts, held, locks, initial, history>>

UnlockRwlock(t) ==
  /\ Holds(t, "rwunlock", "rwlock")
  /\ IF owner[hm[t]] = t
     THEN /\ owner' = [owner EXCEPT ![hm[t]] = NoThread]
          /\ UNCHANGED readers
     ELSE /\ readers' = [readers EXCEPT ![hm[t]][t] = IF @ = 0 THEN 0 ELSE @ - 1]
          /\ UNCHANGED owner
  /\ IF writing[t][obj[t]]
     THEN /\ writing' = [writing EXCEPT ![t][obj[t]] = FALSE]
          /\ UNCHANGED reading
     ELSE /\ reading' = [reading EXCEPT ![t][obj[t]] = @ - 1]
          /\ UNCHANGED writing
  /\ Return(t)
  /\ UNCHANGED <<memory, sort, type, depth, held, count, initial, tokens>>

Waits(t) == \E o \in {"semwait", "semtrywait", "semtimedwait"} : Holds(t, o, "semaphore")

SemaphoreTaken(t) ==
  /\ Waits(t) /\ count[hm[t]] > 0
  /\ count' = [count EXCEPT ![hm[t]] = @ - 1]
  /\ tokens' = [tokens EXCEPT ![obj[t]] = @ - 1]
  /\ Return(t)
  /\ UNCHANGED <<memory, hosts, held, readers, initial, reading, writing>>

\* EAGAIN, ETIMEDOUT, or the value that sem_getvalue stores.
SemaphoreReturns(t) ==
  /\ \/ Waits(t) /\ op[t] # "semwait" /\ count[hm[t]] = 0
     \/ Holds(t, "semvalue", "semaphore")
  /\ Return(t)
  /\ UNCHANGED <<memory, hosts, held, locks, initial, history>>

SemaphorePosted(t) ==
  /\ Holds(t, "sempost", "semaphore")
  /\ count' = [count EXCEPT ![hm[t]] = @ + 1]
  /\ tokens' = [tokens EXCEPT ![obj[t]] = @ + 1]
  /\ Return(t)
  /\ UNCHANGED <<memory, hosts, held, readers, initial, reading, writing>>

-----------------------------------------------------------------------------
LockInit ==
  /\ Init
  /\ readers = [h \in Host |-> [t \in Thread |-> 0]]
  /\ count = [h \in Host |-> 0]
  /\ initial = [t \in Thread |-> 0]
  /\ reading = [t \in Thread |-> [r \in Rwlock |-> 0]]
  /\ writing = [t \in Thread |-> [r \in Rwlock |-> FALSE]]
  /\ tokens = [s \in Semaphore |-> 0]

LockCall(t) ==
  \E g \in Rwlock \cup Semaphore :
    \/ \E o \in InitOp, v \in 0 .. MaxCount : CallInit(t, g, o, v)
    \/ \E o \in DestroyOp : CallDestroy(t, g, o)
    \/ g \in Rwlock /\ \E o \in RwlockOp : CallRwlock(t, g, o)
    \/ g \in Semaphore /\ \E o \in SemaphoreOp : CallSemaphore(t, g, o)

LockProceed(t) ==
  \/ AllocateLock(t)
  \/ ReadLock(t) \/ WriteLock(t) \/ LockDeadlocks(t) \/ UnlockRwlock(t)
  \/ SemaphoreTaken(t) \/ SemaphoreReturns(t) \/ SemaphorePosted(t)

SyncStep(t) ==
  /\ Call(t) \/ Proceed(t)
  /\ initial' = [initial EXCEPT ![t] = IF op'[t] = "seminit" THEN @ ELSE 0]
  /\ UNCHANGED <<locks, history>>

\* A thread that the guest leaves waiting.
Blocked(t) ==
  \/ pc[t] \in {"idle", "waiting"}
  \/ Waits(t) /\ count[hm[t]] = 0
  \/ \E o \in {"rdlock", "wrlock"} : Holds(t, o, "rwlock") /\ ~Reads(t) /\ ~Writes(t) /\ ~Refuses(t)

Rest == (\A t \in Thread : Blocked(t)) /\ UNCHANGED lockvars

LockNext == (\E t \in Thread : SyncStep(t) \/ LockCall(t) \/ LockProceed(t)) \/ Rest

LockSpec == LockInit /\ [][LockNext]_lockvars

-----------------------------------------------------------------------------
(***************************************************************************)
(* Between a lock call that returned 0 and its unlock, no other thread is  *)
(* in the same state with the same guest mutex, and a writer of a guest    *)
(* read-write lock has no other writer and no reader beside it.            *)
(***************************************************************************)
Exclusion ==
  /\ MutualExclusion
  /\ \A r \in Rwlock, t, u \in Thread :
       writing[t][r] /\ (writing[u][r] \/ reading[u][r] > 0) => t = u

(***************************************************************************)
(* No post is lost and none is taken twice: the semaphore that the guest   *)
(* word names counts the value it was initialised with, plus the posts,    *)
(* less the waits that returned 0, whichever call created it (compat_sem_  *)
(* init, compat_sem_get).                                                  *)
(***************************************************************************)
PostsKept ==
  \A s \in Semaphore : life[s] = "ready" =>
    tokens[s] = IF slot[s] \in Host THEN count[slot[s]] ELSE 0
=============================================================================
