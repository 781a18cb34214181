------------------------------ MODULE SyncBridge ------------------------------
(***************************************************************************)
(* Guest synchronisation objects over host ones (compat_bridge.c): the     *)
(* four getters that all of them go through, and mutexes and conditions.   *)
(* LockBridge adds read-write locks and semaphores.                        *)
(* The guest object is one word of guest memory: a small number while only *)
(* a static initialiser or zero is in it, afterwards the address of a host *)
(* object that the first call allocates.  The word is read and written     *)
(* with no lock, and each read, allocation, store and host operation is a  *)
(* step of its own.                                                        *)
(*                                                                         *)
(* The guest program is the environment.  It initialises an object (or     *)
(* declares it with a static initialiser) before it uses it, unlocks a     *)
(* normal mutex only if it holds it, waits with a mutex it holds once, and *)
(* destroys an object only when no thread is inside a call on it.  A word  *)
(* of guest memory is an object of one sort for the whole run.             *)
(***************************************************************************)
EXTENDS Naturals, FiniteSets

CONSTANTS
  Thread,     \* guest threads
  Mutex,      \* guest addresses of pthread_mutex_t
  Cond,       \* guest addresses of pthread_cond_t
  Rwlock,     \* guest addresses of pthread_rwlock_t
  Semaphore,  \* guest addresses of sem_t
  Programs,   \* bound: the sets of objects a guest program has
  Host,       \* addresses calloc can return; bounds live host objects
  MaxDepth,   \* bound: how often the guest enters a recursive mutex
  Racy,       \* may two threads be in the first call on a static object?
  Wild,       \* the word of uninitialised guest memory
  NoHost,     \* a NULL host pointer
  NoThread,
  NoGuest

Guest == Mutex \cup Cond \cup Rwlock \cup Semaphore
Type == {"normal", "recursive", "errorcheck"}   \* mutex types, as the guest means them

\* What raw > 0xffff tells from an address.
Small == 0 .. 65535

(***************************************************************************)
(* Numbers of the two C libraries, which are external: the static          *)
(* initialiser and the attribute with which Bionic's headers ask for a     *)
(* type, and glibc's types.                                                *)
(***************************************************************************)
Initialiser(ty) ==
  CASE ty = "normal" -> 0 [] ty = "recursive" -> 16384 [] ty = "errorcheck" -> 32768

Attribute(ty) == CASE ty = "normal" -> 0 [] ty = "recursive" -> 1 [] ty = "errorcheck" -> 2

PTHREAD_MUTEX_NORMAL == 0
PTHREAD_MUTEX_RECURSIVE == 1
PTHREAD_MUTEX_ERRORCHECK == 2

HostType == {PTHREAD_MUTEX_NORMAL, PTHREAD_MUTEX_RECURSIVE, PTHREAD_MUTEX_ERRORCHECK}

\* The host's mutex that is what the guest means by a type.
Meant(ty) ==
  CASE ty = "normal" -> PTHREAD_MUTEX_NORMAL [] ty = "recursive" -> PTHREAD_MUTEX_RECURSIVE
    [] ty = "errorcheck" -> PTHREAD_MUTEX_ERRORCHECK

ASSUME SyncConstants ==
  /\ Mutex \cap Cond = {} /\ Rwlock \cap Semaphore = {}
  /\ (Mutex \cup Cond) \cap (Rwlock \cup Semaphore) = {}
  /\ Programs \subseteq SUBSET Guest
  /\ MaxDepth \in Nat \ {0}
  /\ Racy \in BOOLEAN
  /\ {Wild, NoHost} \cap Host = {} /\ Wild # NoHost
  /\ Small \cap (Host \cup {Wild, NoHost}) = {}  \* addresses lie above 0xffff
  /\ NoThread \notin Thread
  /\ NoGuest \notin Guest

VARIABLES
  slot,     \* slot[g]: the guest word
  life,     \* life[g]: what the guest may do with it
  gtype,    \* gtype[m]: the mutex type the guest asked for
  sort,     \* sort[h]: what lives at a host address
  type,     \* type[h], owner[h], depth[h]: the host mutex; its type a number
  owner,
  depth,
  pc,       \* where each thread is
  op,       \* the bridge function it is in
  cnd,      \* its condition argument
  obj,      \* its mutex, read-write lock or semaphore argument
  raw,      \* the guest word it has read, or the host it has allocated
  hc,       \* the host condition it resolved
  hm,       \* the host mutex, read-write lock or semaphore it resolved
  held      \* history: held[t][m], lock calls that returned 0 less unlocks

memory == <<slot, life, gtype>>
hosts == <<sort, type, owner, depth>>
args == <<op, cnd, obj>>
handles == <<raw, hc, hm>>
vars == <<memory, hosts, pc, args, handles, held>>

MutexOp == {"init", "destroy", "lock", "trylock", "unlock"}
CondOp == {"cinit", "cdestroy", "signal", "broadcast"}
WaitOp == {"wait", "timedwait"}
RwlockOp == {"rwinit", "rwdestroy", "rdlock", "wrlock", "rwunlock"}
SemaphoreOp == {"seminit", "semdestroy", "semwait", "semtrywait", "semtimedwait", "sempost", "semvalue"}
InitOp == {"init", "cinit", "rwinit", "seminit"}
DestroyOp == {"destroy", "cdestroy", "rwdestroy", "semdestroy"}
\* The functions that pass create = false to the getter.
NoCreate == DestroyOp \cup {"unlock", "rwunlock"}
\* The functions that return an error when their timeout is NULL.
TimedOp == {"timedwait", "semtimedwait"}

Uses(t, g) == pc[t] # "idle" /\ g \in {cnd[t], obj[t]}

\* The guest object whose word the thread is resolving: the condition first.
Target(t) == IF cnd[t] # NoGuest /\ pc[t] \in {"cread", "calloc", "cstore"}
             THEN cnd[t] ELSE obj[t]

Goto(t, l) == pc' = [pc EXCEPT ![t] = l]

Return(t) ==
  /\ pc' = [pc EXCEPT ![t] = "idle"]
  /\ op' = [op EXCEPT ![t] = "none"]
  /\ cnd' = [cnd EXCEPT ![t] = NoGuest]
  /\ obj' = [obj EXCEPT ![t] = NoGuest]
  /\ raw' = [raw EXCEPT ![t] = NoHost]
  /\ hc' = [hc EXCEPT ![t] = NoHost]
  /\ hm' = [hm EXCEPT ![t] = NoHost]

-----------------------------------------------------------------------------
(* The guest enters a bridge function.                                     *)

\* A first call that creates the host object shares the word with nobody.
FirstUseAlone(t, g) ==
  slot[g] \in Host \/ \A u \in Thread \ {t} : ~Uses(u, g)

Enter(t, o, c, m, l) ==
  /\ pc[t] = "idle"
  /\ Racy \/ \A g \in {c, m} \ {NoGuest} : FirstUseAlone(t, g)
  /\ op' = [op EXCEPT ![t] = o]
  /\ cnd' = [cnd EXCEPT ![t] = c]
  /\ obj' = [obj EXCEPT ![t] = m]
  /\ Goto(t, l)
  /\ UNCHANGED <<hosts, handles, held>>

Unused(g) == \A u \in Thread : ~Uses(u, g)

CallMutexInit(t, m, ty) ==
  /\ life[m] = "raw"
  /\ Enter(t, "init", NoGuest, m, "zero")
  /\ life' = [life EXCEPT ![m] = "changing"]
  /\ gtype' = [gtype EXCEPT ![m] = ty]
  /\ UNCHANGED slot

CallCondInit(t, c) ==
  /\ life[c] = "raw"
  /\ Enter(t, "cinit", c, NoGuest, "zero")
  /\ life' = [life EXCEPT ![c] = "changing"]
  /\ UNCHANGED <<slot, gtype>>

CallMutexDestroy(t, m) ==
  /\ life[m] = "ready" /\ Unused(m)
  /\ Enter(t, "destroy", NoGuest, m, "mread")
  /\ life' = [life EXCEPT ![m] = "changing"]
  /\ UNCHANGED <<slot, gtype>>

CallCondDestroy(t, c) ==
  /\ life[c] = "ready" /\ Unused(c)
  /\ Enter(t, "cdestroy", c, NoGuest, "cread")
  /\ life' = [life EXCEPT ![c] = "changing"]
  /\ UNCHANGED <<slot, gtype>>

CallMutex(t, o, m) ==
  /\ o \in {"lock", "trylock", "unlock"}
  /\ life[m] = "ready"
  /\ o = "lock" => held[t][m] < (IF gtype[m] = "normal" THEN 1 ELSE MaxDepth)
  /\ o = "trylock" => held[t][m] < MaxDepth
  /\ o = "unlock" => gtype[m] # "normal" \/ held[t][m] > 0
  /\ Enter(t, o, NoGuest, m, "mread")
  /\ UNCHANGED memory

CallCond(t, o, c) ==
  /\ o \in {"signal", "broadcast"}
  /\ life[c] = "ready"
  /\ Enter(t, o, c, NoGuest, "cread")
  /\ UNCHANGED memory

CallWait(t, o, c, m) ==
  /\ o \in WaitOp
  /\ life[c] = "ready" /\ life[m] = "ready" /\ held[t][m] = 1
  /\ Enter(t, o, c, m, "cread")
  /\ UNCHANGED memory

-----------------------------------------------------------------------------
(* The getters: "c" is compat_cond_get, "m" the one of the other argument, *)
(* compat_mutex_get, compat_rwlock_get or compat_sem_get.                  *)

\* The condition getter is followed by the mutex getter in the two waits.
AfterCond(t) == IF obj[t] # NoGuest THEN "mread" ELSE "act"

\* Mutant: init trusts whatever word is in guest memory.
ZeroNothing(t) ==
  /\ pc[t] = "zero"
  /\ Goto(t, IF op[t] = "cinit" THEN "cread" ELSE "mread")
  /\ UNCHANGED <<memory, hosts, args, handles, held>>

\* Each init first clears the guest word.
Zero(t) ==
  /\ pc[t] = "zero"
  /\ slot' = [slot EXCEPT ![IF op[t] = "cinit" THEN cnd[t] ELSE obj[t]] = 0]
  /\ Goto(t, IF op[t] = "cinit" THEN "cread" ELSE "mread")
  /\ UNCHANGED <<life, gtype, hosts, args, handles, held>>

\* raw > 0xffff; uninitialised memory is taken to hold such a value.
IsPointer(w) == w \notin Small

ReadCond(t) ==
  /\ pc[t] = "cread"
  /\ LET w == slot[cnd[t]] IN
       IF IsPointer(w) \/ op[t] \in NoCreate
       THEN /\ hc' = [hc EXCEPT ![t] = IF IsPointer(w) THEN w ELSE NoHost]
            /\ Goto(t, AfterCond(t))
            /\ UNCHANGED raw
       ELSE /\ raw' = [raw EXCEPT ![t] = w]
            /\ Goto(t, "calloc")
            /\ UNCHANGED hc
  /\ UNCHANGED <<memory, hosts, args, hm, held>>

ReadObject(t) ==
  /\ pc[t] = "mread"
  /\ LET w == slot[obj[t]] IN
       IF IsPointer(w) \/ op[t] \in NoCreate
       THEN /\ hm' = [hm EXCEPT ![t] = IF IsPointer(w) THEN w ELSE NoHost]
            /\ Goto(t, "act")
            /\ UNCHANGED raw
       ELSE /\ raw' = [raw EXCEPT ![t] = w]
            /\ Goto(t, "malloc")
            /\ UNCHANGED hm
  /\ UNCHANGED <<memory, hosts, args, hc, held>>

\* The attribute's type in the host's numbers.
mutex_type_from_guest(ty) ==
  CASE ty = 1 -> PTHREAD_MUTEX_RECURSIVE
    [] ty = 2 -> PTHREAD_MUTEX_ERRORCHECK
    [] OTHER -> PTHREAD_MUTEX_NORMAL

\* Mutant: bits 13 and 14 of the word.
EncodedLow(w) == (w \div 8192) % 4

\* (raw >> 14) & 3
Encoded(w) == (w \div 16384) % 4

(***************************************************************************)
(* The host type compat_mutex_get creates: the attribute's, which only     *)
(* init passes, unless the word holds an initialiser that encodes one.     *)
(* The other getters pass none.                                            *)
(***************************************************************************)
CreatedType(t) ==
  LET asked == mutex_type_from_guest(IF op[t] = "init" THEN Attribute(gtype[obj[t]]) ELSE 0)
  IN  CASE obj[t] \notin Mutex -> PTHREAD_MUTEX_NORMAL
        [] obj[t] \in Mutex /\ Encoded(raw[t]) = 1 -> PTHREAD_MUTEX_RECURSIVE
        [] obj[t] \in Mutex /\ Encoded(raw[t]) = 2 -> PTHREAD_MUTEX_ERRORCHECK
        [] OTHER -> asked

Sort(g) ==
  CASE g \in Mutex -> "mutex" [] g \in Cond -> "cond"
    [] g \in Rwlock -> "rwlock" [] g \in Semaphore -> "semaphore"

Allocate(t) ==
  /\ pc[t] \in {"calloc", "malloc"}
  /\ \E h \in Host :
       /\ sort[h] = "free"
       /\ sort' = [sort EXCEPT ![h] = Sort(Target(t))]
       /\ type' = [type EXCEPT ![h] = IF pc[t] = "malloc" THEN CreatedType(t)
                                           ELSE PTHREAD_MUTEX_NORMAL]
       /\ raw' = [raw EXCEPT ![t] = h]
  /\ Goto(t, IF pc[t] = "calloc" THEN "cstore" ELSE "mstore")
  /\ UNCHANGED <<memory, owner, depth, args, hc, hm, held>>

\* calloc or the host's init fails: the getter returns NULL.
AllocateFails(t) ==
  /\ \/ pc[t] = "calloc" /\ Goto(t, AfterCond(t))
     \/ pc[t] = "malloc" /\ Goto(t, "act")
  /\ raw' = [raw EXCEPT ![t] = NoHost]
  /\ UNCHANGED <<memory, hosts, args, hc, hm, held>>

\* Mutant: the new host object is used and its address is not kept.
StoreForgets(t) ==
  /\ \/ /\ pc[t] = "cstore"
        /\ hc' = [hc EXCEPT ![t] = raw[t]]
        /\ Goto(t, AfterCond(t))
        /\ UNCHANGED hm
     \/ /\ pc[t] = "mstore"
        /\ hm' = [hm EXCEPT ![t] = raw[t]]
        /\ Goto(t, "act")
        /\ UNCHANGED hc
  /\ raw' = [raw EXCEPT ![t] = NoHost]
  /\ UNCHANGED <<memory, hosts, args, held>>

Store(t) ==
  /\ \/ /\ pc[t] = "cstore"
        /\ hc' = [hc EXCEPT ![t] = raw[t]]
        /\ Goto(t, AfterCond(t))
        /\ UNCHANGED hm
     \/ /\ pc[t] = "mstore"
        /\ hm' = [hm EXCEPT ![t] = raw[t]]
        /\ Goto(t, "act")
        /\ UNCHANGED hc
  /\ slot' = [slot EXCEPT ![Target(t)] = raw[t]]
  /\ raw' = [raw EXCEPT ![t] = NoHost]
  /\ UNCHANGED <<life, gtype, hosts, args, held>>

-----------------------------------------------------------------------------
(* The host operation.  Host pthreads are external: glibc's behaviour for  *)
(* the three mutex types.                                                  *)

Acting(t, o) == pc[t] = "act" /\ op[t] = o

\* ENOMEM, EINVAL or -1: a getter returned NULL, or the timeout is NULL.
ReturnError(t) ==
  /\ pc[t] = "act"
  /\ op[t] \notin DestroyOp
  /\ \/ cnd[t] # NoGuest /\ hc[t] = NoHost
     \/ obj[t] # NoGuest /\ hm[t] = NoHost
     \/ op[t] \in TimedOp
  /\ life' = [g \in Guest |-> IF life[g] = "changing" /\ Uses(t, g) THEN "raw" ELSE life[g]]
  /\ Return(t)
  /\ UNCHANGED <<slot, gtype, hosts, held>>

InitReturns(t) ==
  /\ pc[t] = "act"
  /\ op[t] \in InitOp
  /\ \/ hm[t] # NoHost /\ life' = [life EXCEPT ![obj[t]] = "ready"]
     \/ hc[t] # NoHost /\ life' = [life EXCEPT ![cnd[t]] = "ready"]
  /\ Return(t)
  /\ UNCHANGED <<slot, gtype, hosts, held>>

Take(t, h) ==
  /\ owner' = [owner EXCEPT ![h] = t]
  /\ depth' = [depth EXCEPT ![h] = @ + 1]
  /\ held' = [held EXCEPT ![t][obj[t]] = @ + 1]
  /\ UNCHANGED <<sort, type>>

CanTake(t, h) == owner[h] = NoThread \/ (owner[h] = t /\ type[h] = PTHREAD_MUTEX_RECURSIVE)

LockTakes(t) ==
  /\ pc[t] = "act" /\ op[t] \in {"lock", "trylock"}
  /\ hm[t] \in Host /\ sort[hm[t]] = "mutex" /\ CanTake(t, hm[t])
  /\ Take(t, hm[t])
  /\ Return(t)
  /\ UNCHANGED memory

\* EDEADLK from an error-checking mutex, EBUSY from trylock.
LockRefused(t) ==
  /\ pc[t] = "act"
  /\ hm[t] \in Host /\ ~CanTake(t, hm[t])
  /\ \/ op[t] = "lock" /\ type[hm[t]] = PTHREAD_MUTEX_ERRORCHECK /\ owner[hm[t]] = t
     \/ op[t] = "trylock"
  /\ Return(t)
  /\ UNCHANGED <<memory, hosts, held>>

\* EPERM unless the caller owns it; a normal mutex does not check.
UnlockAllowed(t, h) == type[h] = PTHREAD_MUTEX_NORMAL \/ owner[h] = t

Give(t, h) ==
  /\ owner' = [owner EXCEPT ![h] = IF depth[h] <= 1 THEN NoThread ELSE @]
  /\ depth' = [depth EXCEPT ![h] = IF @ = 0 THEN 0 ELSE @ - 1]
  /\ held' = [held EXCEPT ![t][obj[t]] = IF @ = 0 THEN 0 ELSE @ - 1]
  /\ UNCHANGED <<sort, type>>

UnlockReturns(t) ==
  /\ Acting(t, "unlock") /\ hm[t] \in Host
  /\ IF UnlockAllowed(t, hm[t]) THEN Give(t, hm[t]) ELSE UNCHANGED <<hosts, held>>
  /\ Return(t)
  /\ UNCHANGED memory

Scrapped(t) == IF op[t] = "cdestroy" THEN hc[t] ELSE hm[t]
Doomed(t) == IF op[t] = "cdestroy" THEN cnd[t] ELSE obj[t]

\* Mutant: the word is cleared and the host object stays allocated.
DestroyLeaks(t) ==
  /\ pc[t] = "act" /\ op[t] \in DestroyOp
  /\ Scrapped(t) \in Host => owner[Scrapped(t)] = NoThread
  /\ slot' = [slot EXCEPT ![Doomed(t)] = 0]
  /\ life' = [life EXCEPT ![Doomed(t)] = "raw"]
  /\ Return(t)
  /\ UNCHANGED <<gtype, hosts, held>>

\* The host object is freed and the word cleared.
Destroy(t) ==
  /\ pc[t] = "act" /\ op[t] \in DestroyOp
  /\ Scrapped(t) \in Host => owner[Scrapped(t)] = NoThread
  /\ IF Scrapped(t) \in Host
     THEN /\ sort' = [sort EXCEPT ![Scrapped(t)] = "free"]
          /\ type' = [type EXCEPT ![Scrapped(t)] = PTHREAD_MUTEX_NORMAL]
          /\ slot' = [slot EXCEPT ![Doomed(t)] = 0]
     ELSE UNCHANGED <<slot, sort, type>>
  /\ life' = [life EXCEPT ![Doomed(t)] = "raw"]
  /\ Return(t)
  /\ UNCHANGED <<gtype, owner, depth, held>>

\* The host says EBUSY: nothing is freed.
DestroyBusy(t) ==
  /\ Acting(t, "destroy")
  /\ hm[t] \in Host /\ owner[hm[t]] # NoThread
  /\ life' = [life EXCEPT ![obj[t]] = "ready"]
  /\ Return(t)
  /\ UNCHANGED <<slot, gtype, hosts, held>>

Waiters(h) == {u \in Thread : pc[u] = "waiting" /\ hc[u] = h}

\* pthread_cond_wait gives the mutex up and blocks in one step.
WaitBlocks(t) ==
  /\ pc[t] = "act" /\ op[t] \in WaitOp
  /\ hc[t] \in Host /\ hm[t] \in Host
  /\ Give(t, hm[t])
  /\ Goto(t, "waiting")
  /\ UNCHANGED <<memory, args, handles>>

\* The timeout; in both waits the host may also wake up spuriously.
WaitExpires(t) ==
  /\ pc[t] = "waiting"
  /\ Goto(t, "reacquire")
  /\ UNCHANGED <<memory, hosts, args, handles, held>>

WaitReturns(t) ==
  /\ pc[t] = "reacquire"
  /\ CanTake(t, hm[t])
  /\ Take(t, hm[t])
  /\ Return(t)
  /\ UNCHANGED memory

\* A signal wakes one waiter of the host condition, a broadcast all of them.
Wake(t) ==
  /\ pc[t] = "act" /\ op[t] \in {"signal", "broadcast"}
  /\ hc[t] \in Host
  /\ \E W \in SUBSET Waiters(hc[t]) :
       /\ op[t] = "broadcast" => W = Waiters(hc[t])
       /\ op[t] = "signal" => Cardinality(W) = (IF Waiters(hc[t]) = {} THEN 0 ELSE 1)
       /\ pc' = [u \in Thread |-> IF u = t THEN "idle"
                                  ELSE IF u \in W THEN "reacquire" ELSE pc[u]]
  /\ op' = [op EXCEPT ![t] = "none"]
  /\ cnd' = [cnd EXCEPT ![t] = NoGuest]
  /\ hc' = [hc EXCEPT ![t] = NoHost]
  /\ UNCHANGED <<memory, hosts, obj, raw, hm, held>>

-----------------------------------------------------------------------------
\* The guest's objects are static (their initialiser is in memory) or raw.
Init ==
  /\ life \in [Guest -> {"absent", "raw", "ready"}]
  /\ \E P \in Programs : \A g \in Guest : life[g] = "absent" <=> g \notin P
  /\ gtype \in [Mutex -> Type]
  /\ \A m \in Mutex : life[m] # "ready" => gtype[m] = "normal"
  /\ slot = [g \in Guest |-> IF life[g] # "ready" THEN Wild
                             ELSE IF g \in Mutex THEN Initialiser(gtype[g]) ELSE 0]
  /\ sort = [h \in Host |-> "free"]
  /\ type = [h \in Host |-> PTHREAD_MUTEX_NORMAL]
  /\ owner = [h \in Host |-> NoThread]
  /\ depth = [h \in Host |-> 0]
  /\ pc = [t \in Thread |-> "idle"]
  /\ op = [t \in Thread |-> "none"]
  /\ cnd = [t \in Thread |-> NoGuest]
  /\ obj = [t \in Thread |-> NoGuest]
  /\ raw = [t \in Thread |-> NoHost]
  /\ hc = [t \in Thread |-> NoHost]
  /\ hm = [t \in Thread |-> NoHost]
  /\ held = [t \in Thread |-> [m \in Mutex |-> 0]]

Call(t) ==
  \/ \E m \in Mutex, ty \in Type : CallMutexInit(t, m, ty)
  \/ \E m \in Mutex, o \in MutexOp : CallMutex(t, o, m)
  \/ \E m \in Mutex : CallMutexDestroy(t, m)
  \/ \E c \in Cond : CallCondInit(t, c) \/ CallCondDestroy(t, c)
  \/ \E c \in Cond, o \in CondOp : CallCond(t, o, c)
  \/ \E c \in Cond, m \in Mutex, o \in WaitOp : CallWait(t, o, c, m)

Proceed(t) ==
  \/ Zero(t) \/ ReadCond(t) \/ ReadObject(t) \/ AllocateFails(t) \/ Store(t)
  \/ ReturnError(t) \/ InitReturns(t)
  \/ LockTakes(t) \/ LockRefused(t) \/ UnlockReturns(t)
  \/ Destroy(t) \/ DestroyBusy(t)
  \/ WaitBlocks(t) \/ WaitExpires(t) \/ WaitReturns(t) \/ Wake(t)

\* Guest threads may rest, outside the bridge or in an unsignalled wait.
Quiet == (\A t \in Thread : pc[t] \in {"idle", "waiting"}) /\ UNCHANGED vars

Next == (\E t \in Thread : Call(t) \/ Allocate(t) \/ Proceed(t)) \/ Quiet

Spec == Init /\ [][Next]_vars

-----------------------------------------------------------------------------
\* Every variable keeps its type.
TypeOK ==
  /\ slot \in [Guest -> Host \cup Small \cup {Wild}]
  /\ life \in [Guest -> {"absent", "raw", "changing", "ready"}]
  /\ gtype \in [Mutex -> Type]
  /\ sort \in [Host -> {"free", "mutex", "cond", "rwlock", "semaphore"}]
  /\ type \in [Host -> HostType]
  /\ owner \in [Host -> Thread \cup {NoThread}]
  /\ depth \in [Host -> 0 .. MaxDepth]
  /\ pc \in [Thread -> {"idle", "zero", "cread", "calloc", "cstore", "mread", "malloc",
                        "mstore", "act", "waiting", "reacquire"}]
  /\ op \in [Thread -> MutexOp \cup CondOp \cup WaitOp \cup RwlockOp \cup SemaphoreOp \cup {"none"}]
  /\ cnd \in [Thread -> Cond \cup {NoGuest}]
  /\ obj \in [Thread -> (Guest \ Cond) \cup {NoGuest}]
  /\ raw \in [Thread -> Host \cup Small \cup {NoHost}]
  /\ hc \in [Thread -> Host \cup {NoHost, Wild}]
  /\ hm \in [Thread -> Host \cup {NoHost, Wild}]
  /\ held \in [Thread -> [Mutex -> 0 .. MaxDepth]]

(***************************************************************************)
(* No two threads are ever both between a lock call that returned 0 (or a  *)
(* wait that returned) and the matching unlock of the same guest mutex.    *)
(***************************************************************************)
MutualExclusion ==
  \A m \in Mutex, t, u \in Thread : held[t][m] > 0 /\ held[u][m] > 0 => t = u

(***************************************************************************)
(* A bridge function only ever hands the host a live object of the right   *)
(* sort: never freed memory, never what happened to be in guest memory.    *)
(***************************************************************************)
HandlesLive ==
  \A t \in Thread :
    /\ hm[t] # NoHost => hm[t] \in Host /\ sort[hm[t]] = Sort(obj[t])
    /\ hc[t] # NoHost => hc[t] \in Host /\ sort[hc[t]] = "cond"

(***************************************************************************)
(* A thread blocked on a guest condition is blocked on the host condition  *)
(* that the guest word names, so that the next signal can reach it.        *)
(***************************************************************************)
WaitersReachable ==
  \A t \in Thread : pc[t] = "waiting" => slot[cnd[t]] = hc[t]

(***************************************************************************)
(* Host objects are neither leaked nor shared: each live one is named by   *)
(* one guest word or is about to be stored by the thread that made it.     *)
(***************************************************************************)
OneWordPerHost ==
  \A h \in Host : sort[h] # "free" =>
    Cardinality({g \in Guest : slot[g] = h} \cup {t \in Thread : raw[t] = h}) = 1

(***************************************************************************)
(* The host mutex behind each guest word is what the guest asked for by    *)
(* the number in an attribute or in a static initialiser, and behaves as a *)
(* mutex of that type, through lazy creation, waits, destruction and       *)
(* re-initialisation.                                                      *)
(***************************************************************************)
Abstract == INSTANCE GuestMutex WITH
  type   <- gtype,
  holder <- [m \in Mutex |-> IF slot[m] \in Host THEN owner[slot[m]] ELSE NoThread],
  depth  <- [m \in Mutex |-> IF slot[m] \in Host THEN depth[slot[m]] ELSE 0]

TypeAsked == \A m \in Mutex : slot[m] \in Host => type[slot[m]] = Meant(gtype[m])

ImplementsGuestMutex == Abstract!Spec /\ [][TypeAsked']_vars
=============================================================================
