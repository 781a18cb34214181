--------------------------- MODULE LockBridge_proofs ---------------------------
(***************************************************************************)
(* Proofs about SyncBridge and LockBridge, for any number of threads,      *)
(* guest objects and host addresses.  The first invariant holds even when  *)
(* two threads race in the first call on a static object, the second one   *)
(* of guests that do not (Racy = FALSE).                                   *)
(***************************************************************************)
EXTENDS LockBridge, Integers, FiniteSetTheorems, TLAPS

-----------------------------------------------------------------------------
(* What holds of every guest.                                              *)

LockTypeOK ==
  /\ slot \in [Guest -> Host \cup Small \cup {Wild}]
  /\ life \in [Guest -> {"absent", "raw", "changing", "ready"}]
  /\ gtype \in [Mutex -> Type]
  /\ sort \in [Host -> {"free", "mutex", "cond", "rwlock", "semaphore"}]
  /\ type \in [Host -> HostType]
  /\ owner \in [Host -> Thread \cup {NoThread}]
  /\ depth \in [Host -> Nat]
  /\ pc \in [Thread -> {"idle", "zero", "cread", "calloc", "cstore", "mread", "malloc",
                        "mstore", "act", "waiting", "reacquire"}]
  /\ op \in [Thread -> MutexOp \cup CondOp \cup WaitOp \cup RwlockOp \cup SemaphoreOp \cup {"none"}]
  /\ cnd \in [Thread -> Cond \cup {NoGuest}]
  /\ obj \in [Thread -> (Guest \ Cond) \cup {NoGuest}]
  /\ raw \in [Thread -> Host \cup Small \cup {NoHost}]
  /\ hc \in [Thread -> Host \cup {NoHost, Wild}]
  /\ hm \in [Thread -> Host \cup {NoHost, Wild}]
  /\ held \in [Thread -> [Mutex -> Nat]]
  /\ readers \in [Host -> [Thread -> Nat]]
  /\ count \in [Host -> Nat]
  /\ initial \in [Thread -> Nat]
  /\ reading \in [Thread -> [Rwlock -> Int]]
  /\ writing \in [Thread -> [Rwlock -> BOOLEAN]]
  /\ tokens \in [Semaphore -> Int]

\* The functions that create or destroy the guest's object.
Changes == InitOp \cup DestroyOp
Creating == {"calloc", "cstore", "malloc", "mstore"}

\* Which arguments a function has.
ArgumentsOf(t) ==
  /\ pc[t] = "idle" <=> op[t] = "none"
  /\ op[t] = "none" => cnd[t] = NoGuest /\ obj[t] = NoGuest
  /\ op[t] \in MutexOp => cnd[t] = NoGuest /\ obj[t] \in Mutex
  /\ op[t] \in CondOp => cnd[t] \in Cond /\ obj[t] = NoGuest
  /\ op[t] \in WaitOp => cnd[t] \in Cond /\ obj[t] \in Mutex
  /\ op[t] \in RwlockOp => cnd[t] = NoGuest /\ obj[t] \in Rwlock
  /\ op[t] \in SemaphoreOp => cnd[t] = NoGuest /\ obj[t] \in Semaphore
Arguments == \A t \in Thread : ArgumentsOf(t)

\* Where a thread is, and what it has in its local variables there.
LocalsOf(t) ==
  /\ pc[t] = "zero" => op[t] \in InitOp
  /\ pc[t] \in {"cread", "calloc", "cstore"} => cnd[t] # NoGuest
  /\ pc[t] \in {"mread", "malloc", "mstore"} => obj[t] # NoGuest
  /\ pc[t] \in Creating => op[t] \notin NoCreate
  /\ pc[t] \in {"waiting", "reacquire"} => op[t] \in WaitOp /\ hc[t] \in Host /\ hm[t] \in Host
  /\ pc[t] \in {"calloc", "malloc"} => raw[t] \in Small
  /\ pc[t] \in {"cstore", "mstore"} => raw[t] \in Host
  /\ pc[t] \notin Creating => raw[t] = NoHost
  /\ pc[t] \in {"idle", "zero", "cread", "calloc", "cstore"} \/ cnd[t] = NoGuest => hc[t] = NoHost
  /\ pc[t] \notin {"act", "waiting", "reacquire"} \/ obj[t] = NoGuest => hm[t] = NoHost
Locals == \A t \in Thread : LocalsOf(t)

\* Nobody else is in a call on an object that is created or destroyed.
Tenure ==
  \A t \in Thread, g \in Guest : Uses(t, g) =>
    IF op[t] \in Changes
      THEN life[g] = "changing" /\ \A u \in Thread : Uses(u, g) => u = t
      ELSE life[g] = "ready"

\* What the word of a guest object can hold.
Words ==
  /\ \A g \in Guest : life[g] = "ready" => slot[g] # Wild
  /\ \A g \in Guest : life[g] \in {"absent", "raw"} => slot[g] \notin Host
  /\ \A t \in Thread, g \in Guest : Uses(t, g) /\ pc[t] # "zero" => slot[g] # Wild
  /\ \A t \in Thread, g \in Guest :
       Uses(t, g) /\ op[t] \in InitOp /\ pc[t] # "act" => slot[g] \notin Host
  /\ \A t \in Thread : op[t] \in Changes /\ pc[t] = "act" =>
       /\ obj[t] # NoGuest => IF hm[t] = NoHost THEN slot[obj[t]] \notin Host ELSE slot[obj[t]] = hm[t]
       /\ cnd[t] # NoGuest => IF hc[t] = NoHost THEN slot[cnd[t]] \notin Host ELSE slot[cnd[t]] = hc[t]

\* Each address in a word or in a thread's hands is that of a live object.
Live ==
  /\ \A g \in Guest : slot[g] \in Host => sort[slot[g]] = Sort(g)
  /\ \A t \in Thread :
       /\ hm[t] # Wild /\ hc[t] # Wild
       /\ hm[t] \in Host => sort[hm[t]] = Sort(obj[t])
       /\ hc[t] \in Host => sort[hc[t]] = "cond"
       /\ raw[t] \in Host => sort[raw[t]] = Sort(Target(t))

\* A host object belongs to one guest object, and at first to its maker.
Private ==
  /\ \A g, k \in Guest : slot[g] \in Host /\ slot[g] = slot[k] => g = k
  /\ \A t \in Thread, g \in Guest :
       /\ slot[g] \in Host /\ slot[g] = hm[t] => g = obj[t]
       /\ slot[g] \in Host /\ slot[g] = hc[t] => g = cnd[t]
  /\ \A t, u \in Thread :
       /\ hm[t] \in Host /\ hm[t] = hm[u] => obj[t] = obj[u]
       /\ hc[t] \in Host /\ hc[t] = hc[u] => cnd[t] = cnd[u]
  /\ \A t \in Thread : raw[t] \in Host =>
       /\ \A g \in Guest : slot[g] # raw[t]
       /\ \A u \in Thread : hm[u] # raw[t] /\ hc[u] # raw[t] /\ (raw[u] = raw[t] => u = t)

AInv == LockTypeOK /\ Arguments /\ Locals /\ Tenure /\ Words /\ Live /\ Private

-----------------------------------------------------------------------------
(* What holds of guests whose first calls do not race.                     *)

\* One thread at most is in the calls on an object without a host object.
FirstAlone ==
  \A g \in Guest, t, u \in Thread : slot[g] \notin Host /\ Uses(t, g) /\ Uses(u, g) => t = u

\* What a thread has resolved is still what the guest word says.
Named ==
  \A t \in Thread :
    /\ hm[t] \in Host => slot[obj[t]] = hm[t]
    /\ hc[t] \in Host => slot[cnd[t]] = hc[t]
    /\ pc[t] \in Creating => slot[Target(t)] \notin Host

NotLeaked ==
  \A h \in Host : sort[h] # "free" => (\E g \in Guest : slot[g] = h) \/ (\E t \in Thread : raw[t] = h)

\* The host mutex is of the type the guest asked for.
TypesAgree ==
  /\ \A m \in Mutex :
       /\ life[m] = "ready" /\ slot[m] \notin Host => slot[m] = Initialiser(gtype[m])
       /\ slot[m] \in Host => type[slot[m]] = Meant(gtype[m])
  /\ \A t \in Thread :
       /\ op[t] = "init" /\ pc[t] \notin {"zero", "act"} => slot[obj[t]] = 0
       /\ pc[t] = "malloc" => raw[t] = slot[obj[t]]
       /\ pc[t] = "mstore" /\ obj[t] \in Mutex => type[raw[t]] = Meant(gtype[obj[t]])

\* A host object is held only as its sort can be, and a new one by nobody.
Fresh(h) == owner[h] = NoThread /\ depth[h] = 0 /\ \A t \in Thread : readers[h][t] = 0
Unheld ==
  /\ \A h \in Host :
       /\ sort[h] # "mutex" => depth[h] = 0
       /\ sort[h] # "rwlock" => \A t \in Thread : readers[h][t] = 0
       /\ sort[h] \notin {"mutex", "rwlock"} => owner[h] = NoThread
  /\ \A t \in Thread : raw[t] \in Host => Fresh(raw[t])

\* The host mutex is held as the guest's calls say, and by threads that may.
MutexHeld ==
  /\ \A h \in Host : sort[h] = "mutex" => (owner[h] = NoThread <=> depth[h] = 0)
  /\ \A t \in Thread, m \in Mutex :
       held[t][m] = IF slot[m] \in Host /\ owner[slot[m]] = t THEN depth[slot[m]] ELSE 0
  /\ \A t \in Thread :
       /\ op[t] = "unlock" /\ gtype[obj[t]] = "normal" => held[t][obj[t]] > 0
       /\ op[t] \in WaitOp => held[t][obj[t]] = IF pc[t] \in {"waiting", "reacquire"} THEN 0 ELSE 1
       /\ op[t] \in {"lock", "trylock"} => held[t][obj[t]] < MaxDepth
  /\ \A t \in Thread, m \in Mutex : held[t][m] <= MaxDepth

RwlockHeld ==
  /\ \A h \in Host, t \in Thread : sort[h] = "rwlock" /\ owner[h] # NoThread => readers[h][t] = 0
  /\ \A t \in Thread, r \in Rwlock :
       /\ writing[t][r] <=> slot[r] \in Host /\ owner[slot[r]] = t
       /\ reading[t][r] = IF slot[r] \in Host THEN readers[slot[r]][t] ELSE 0
  /\ \A t \in Thread :
       /\ op[t] = "rwunlock" => writing[t][obj[t]] \/ reading[t][obj[t]] > 0
       /\ op[t] = "rwdestroy" => \A u \in Thread : ~writing[u][obj[t]] /\ reading[u][obj[t]] = 0

Counted ==
  /\ \A s \in Semaphore :
       /\ life[s] = "ready" /\ slot[s] \notin Host => tokens[s] = 0
       /\ slot[s] \in Host => tokens[s] = count[slot[s]]
  /\ \A t \in Thread :
       /\ op[t] = "seminit" => tokens[obj[t]] = initial[t] \/ slot[obj[t]] \in Host
       /\ pc[t] = "mstore" /\ obj[t] \in Semaphore => tokens[obj[t]] = count[raw[t]]

Shape == FirstAlone /\ Named /\ NotLeaked /\ TypesAgree
Holding == Unheld /\ MutexHeld /\ RwlockHeld /\ Counted

BInv == Shape /\ Holding

-----------------------------------------------------------------------------
\* The sorts of host objects, and what the constants are.
LEMMA SortOf ==
  \A g \in Guest :
    /\ Sort(g) \in {"mutex", "cond", "rwlock", "semaphore"}
    /\ g \in Mutex <=> Sort(g) = "mutex"
    /\ g \in Cond <=> Sort(g) = "cond"
    /\ g \in Rwlock <=> Sort(g) = "rwlock"
    /\ g \in Semaphore <=> Sort(g) = "semaphore"
  BY SyncConstants DEF SyncConstants, Guest, Sort

LEMMA Apart ==
  /\ NoGuest \notin Guest /\ NoThread \notin Thread
  /\ Wild \notin Host /\ NoHost \notin Host /\ Wild # NoHost
  /\ Wild \notin Small /\ NoHost \notin Small /\ \A h \in Host : h \notin Small
  /\ 0 \in Small
  /\ MaxDepth \in Nat /\ MaxDepth > 0 /\ MaxCount \in Nat
<1>1. Small \cap (Host \cup {Wild, NoHost}) = {}
  BY SyncConstants DEF SyncConstants
<1>2. 0 \in Small
  BY DEF Small
<1> HIDE DEF Small
<1> QED BY <1>1, <1>2, SyncConstants, LockConstants DEF SyncConstants, LockConstants

\* What the numbers of the two C libraries say, and that the words of a
\* guest mutex and its attribute are read back as the type they stand for.
LEMMA Numbers ==
  ASSUME NEW ty \in Type
  PROVE  /\ Meant(ty) \in HostType
         /\ Initialiser(ty) \in Small
         /\ Meant(ty) = PTHREAD_MUTEX_RECURSIVE <=> ty = "recursive"
         /\ Meant(ty) = PTHREAD_MUTEX_NORMAL <=> ty = "normal"
         /\ mutex_type_from_guest(Attribute(ty)) = Meant(ty)
         /\ Encoded(Initialiser(ty)) = (IF ty = "recursive" THEN 1
                                         ELSE IF ty = "errorcheck" THEN 2 ELSE 0)
         /\ Encoded(0) = 0
         /\ mutex_type_from_guest(0) = PTHREAD_MUTEX_NORMAL
<1>1. Encoded(0) = 0 /\ Encoded(16384) = 1 /\ Encoded(32768) = 2
  BY DEF Encoded
<1> USE DEF PTHREAD_MUTEX_NORMAL, PTHREAD_MUTEX_RECURSIVE, PTHREAD_MUTEX_ERRORCHECK, HostType
<1>2. mutex_type_from_guest(0) = PTHREAD_MUTEX_NORMAL
  BY DEF mutex_type_from_guest
<1>3. CASE ty = "normal"
  <2>1. Initialiser(ty) = 0 /\ Attribute(ty) = 0 /\ Meant(ty) = 0
    BY <1>3 DEF Initialiser, Attribute, Meant
  <2>2. mutex_type_from_guest(0) = 0
    BY <1>2
  <2>3. Initialiser(ty) \in Small /\ Encoded(Initialiser(ty)) = 0
    BY <1>1, <2>1 DEF Small
  <2>4. mutex_type_from_guest(Attribute(ty)) = Meant(ty)
    BY <2>1, <2>2
  <2> QED BY <1>1, <1>3, <2>1, <2>2, <2>3, <2>4
<1>4. CASE ty = "recursive"
  <2>1. Initialiser(ty) = 16384 /\ Attribute(ty) = 1 /\ Meant(ty) = 1
    BY <1>4 DEF Initialiser, Attribute, Meant
  <2>2. mutex_type_from_guest(1) = 1
    BY DEF mutex_type_from_guest
  <2>3. 16384 \in Small
    BY SMT DEF Small
  <2>4. Initialiser(ty) \in Small /\ Encoded(Initialiser(ty)) = 1
    BY <1>1, <2>1, <2>3
  <2>5. mutex_type_from_guest(Attribute(ty)) = Meant(ty)
    BY <2>1, <2>2
  <2> QED BY <1>1, <1>2, <1>4, <2>1, <2>4, <2>5
<1>5. CASE ty = "errorcheck"
  <2>1. Initialiser(ty) = 32768 /\ Attribute(ty) = 2 /\ Meant(ty) = 2
    BY <1>5 DEF Initialiser, Attribute, Meant
  <2>2. mutex_type_from_guest(2) = 2
    BY DEF mutex_type_from_guest
  <2>3. 32768 \in Small
    BY SMT DEF Small
  <2>4. Initialiser(ty) \in Small /\ Encoded(Initialiser(ty)) = 2
    BY <1>1, <2>1, <2>3
  <2>5. mutex_type_from_guest(Attribute(ty)) = Meant(ty)
    BY <2>1, <2>2
  <2> QED BY <1>1, <1>2, <1>5, <2>1, <2>4, <2>5
<1> QED BY <1>3, <1>4, <1>5 DEF Type

\* The type a getter gives a new host mutex is one of the host's.
LEMMA CreatedTypeOK ==
  ASSUME NEW t \in Thread
  PROVE  CreatedType(t) \in HostType
  BY DEF CreatedType, mutex_type_from_guest, HostType

LEMMA Sets ==
  /\ Mutex \subseteq Guest /\ Cond \subseteq Guest /\ Rwlock \subseteq Guest /\ Semaphore \subseteq Guest
  /\ \A g \in Guest : g \in Mutex \/ g \in Cond \/ g \in Rwlock \/ g \in Semaphore
  /\ \A g \in Mutex : g \notin Cond /\ g \notin Rwlock /\ g \notin Semaphore
  /\ \A g \in Cond : g \notin Rwlock /\ g \notin Semaphore
  /\ \A g \in Rwlock : g \notin Semaphore
  BY SyncConstants DEF SyncConstants, Guest

-----------------------------------------------------------------------------
(* A thread enters a function: the structure of its call.                  *)

Places(o, c) == IF o \in InitOp THEN "zero" ELSE IF c # NoGuest THEN "cread" ELSE "mread"
Begins(t, o, c, m) ==
  /\ pc[t] = "idle"
  /\ \/ o \in MutexOp /\ c = NoGuest /\ m \in Mutex
     \/ o \in CondOp /\ c \in Cond /\ m = NoGuest
     \/ o \in WaitOp /\ c \in Cond /\ m \in Mutex
     \/ o \in RwlockOp /\ c = NoGuest /\ m \in Rwlock
     \/ o \in SemaphoreOp /\ c = NoGuest /\ m \in Semaphore
  /\ op' = [op EXCEPT ![t] = o]
  /\ cnd' = [cnd EXCEPT ![t] = c]
  /\ obj' = [obj EXCEPT ![t] = m]
  /\ pc' = [pc EXCEPT ![t] = Places(o, c)]
  /\ IF o \in Changes
       THEN \E g \in Guest \cap {c, m} :
              /\ life' = [life EXCEPT ![g] = "changing"]
              /\ IF o \in InitOp THEN life[g] = "raw" ELSE life[g] = "ready" /\ Unused(g)
       ELSE life' = life /\ \A g \in Guest \cap {c, m} : life[g] = "ready"
  /\ Racy \/ \A g \in {c, m} \ {NoGuest} : FirstUseAlone(t, g)
  /\ UNCHANGED <<slot, hosts, handles, held, locks>>
\* Each call of the guest, of either module, begins so.
IsCall(t) == (Call(t) /\ SyncStep(t)) \/ LockCall(t)

LEMMA CallsBegin ==
  ASSUME NEW t \in Thread, IsCall(t)
  PROVE  \E o, c, m : Begins(t, o, c, m)
<1> USE Sets, Apart DEF Enter, Goto, Places, Changes, InitOp, DestroyOp, memory, hosts, handles, Begins
<1>1. ASSUME NEW m \in Mutex, NEW ty \in Type, CallMutexInit(t, m, ty), UNCHANGED locks
      PROVE  Begins(t, "init", NoGuest, m)
  BY <1>1 DEF CallMutexInit, MutexOp
<1>2. ASSUME NEW m \in Mutex, NEW o \in MutexOp, CallMutex(t, o, m), UNCHANGED locks
      PROVE  Begins(t, o, NoGuest, m)
  BY <1>2 DEF CallMutex, MutexOp
<1>3. ASSUME NEW m \in Mutex, CallMutexDestroy(t, m), UNCHANGED locks
      PROVE  Begins(t, "destroy", NoGuest, m)
  BY <1>3 DEF CallMutexDestroy, MutexOp
<1>4. ASSUME NEW c \in Cond, CallCondInit(t, c), UNCHANGED locks
      PROVE  Begins(t, "cinit", c, NoGuest)
  BY <1>4 DEF CallCondInit, CondOp
<1>5. ASSUME NEW c \in Cond, CallCondDestroy(t, c), UNCHANGED locks
      PROVE  Begins(t, "cdestroy", c, NoGuest)
  BY <1>5 DEF CallCondDestroy, CondOp
<1>6. ASSUME NEW c \in Cond, NEW o \in CondOp, CallCond(t, o, c), UNCHANGED locks
      PROVE  Begins(t, o, c, NoGuest)
  BY <1>6 DEF CallCond, CondOp
<1>7. ASSUME NEW c \in Cond, NEW m \in Mutex, NEW o \in WaitOp, CallWait(t, o, c, m), UNCHANGED locks
      PROVE  Begins(t, o, c, m)
  BY <1>7 DEF CallWait, WaitOp
<1>8. ASSUME NEW g \in Rwlock \cup Semaphore, NEW o \in InitOp, NEW v \in 0 .. MaxCount,
             CallInit(t, g, o, v)
      PROVE  Begins(t, o, NoGuest, g)
  BY <1>8 DEF CallInit, RwlockOp, SemaphoreOp, locks
<1>9. ASSUME NEW g \in Rwlock \cup Semaphore, NEW o \in DestroyOp, CallDestroy(t, g, o)
      PROVE  Begins(t, o, NoGuest, g)
  BY <1>9 DEF CallDestroy, RwlockOp, SemaphoreOp, locks
<1>10. ASSUME NEW g \in Rwlock, NEW o \in RwlockOp, CallRwlock(t, g, o)
       PROVE  Begins(t, o, NoGuest, g)
  BY <1>10 DEF CallRwlock, RwlockOp, locks
<1>11. ASSUME NEW g \in Semaphore, NEW o \in SemaphoreOp, CallSemaphore(t, g, o)
       PROVE  Begins(t, o, NoGuest, g)
  BY <1>11 DEF CallSemaphore, SemaphoreOp, locks
<1> HIDE DEF Begins
<1>12. CASE Call(t) /\ SyncStep(t)
  BY <1>12, <1>1, <1>2, <1>3, <1>4, <1>5, <1>6, <1>7 DEF Call, SyncStep
<1>13. CASE LockCall(t)
  BY <1>13, <1>8, <1>9, <1>10, <1>11 DEF LockCall
<1> QED BY <1>12, <1>13 DEF IsCall

-----------------------------------------------------------------------------
(* Every step keeps the types.                                             *)

LEMMA EntrySet ==
  ASSUME NEW S, NEW D, NEW R, NEW f \in [S -> [D -> R]], NEW s \in S, NEW d, NEW v \in R
  PROVE  [f EXCEPT ![s][d] = v] \in [S -> [D -> R]]
  OBVIOUS

LEMMA CallTypes ==
  ASSUME LockTypeOK, NEW t \in Thread, IsCall(t)
  PROVE  LockTypeOK'
<1>1. PICK o, c, m : Begins(t, o, c, m)
  BY CallsBegin
<1>2. /\ life' \in [Guest -> {"absent", "raw", "changing", "ready"}]
      /\ pc' \in [Thread -> {"idle", "zero", "cread", "calloc", "cstore", "mread", "malloc",
                             "mstore", "act", "waiting", "reacquire"}]
      /\ op' \in [Thread -> MutexOp \cup CondOp \cup WaitOp \cup RwlockOp \cup SemaphoreOp \cup {"none"}]
      /\ cnd' \in [Thread -> Cond \cup {NoGuest}]
      /\ obj' \in [Thread -> (Guest \ Cond) \cup {NoGuest}]
      /\ UNCHANGED <<slot, hosts, handles, held, locks>>
  BY <1>1, Sets DEF Begins, Places, LockTypeOK
<1>3. CASE Call(t) /\ SyncStep(t)
  <2>1. gtype' \in [Mutex -> Type]
    BY <1>3 DEF LockTypeOK, Call, CallMutexInit, CallMutex, CallMutexDestroy, CallCondInit,
       CallCondDestroy, CallCond, CallWait, memory
  <2>2. initial' \in [Thread -> Nat] /\ UNCHANGED history
    BY <1>3 DEF LockTypeOK, SyncStep
  <2> QED BY <1>2, <2>1, <2>2 DEF LockTypeOK, history, hosts, handles, locks
<1>4. CASE LockCall(t)
  <2>1. gtype' = gtype /\ UNCHANGED <<reading, writing>>
    BY <1>4 DEF LockCall, CallInit, CallDestroy, CallRwlock, CallSemaphore, memory, history
  <2>2. initial' \in [Thread -> Nat] /\ tokens' \in [Semaphore -> Int]
    <3>1. ASSUME NEW g \in Rwlock \cup Semaphore, NEW v \in 0 .. MaxCount, NEW how, CallInit(t, g, how, v)
          PROVE  initial' \in [Thread -> Nat] /\ tokens' \in [Semaphore -> Int]
      <4>1. v \in Nat /\ v \in Int
        BY Apart
      <4> QED BY <3>1, <4>1 DEF LockTypeOK, CallInit
    <3> QED BY <1>4, <3>1 DEF LockTypeOK, LockCall, CallDestroy, CallRwlock, CallSemaphore, history
  <2> QED BY <1>2, <2>1, <2>2 DEF LockTypeOK, hosts, handles, locks
<1> QED BY <1>3, <1>4 DEF IsCall

\* What taking and giving up a host mutex, and resolving a word, do.
LEMMA TakeTypes ==
  ASSUME LockTypeOK, NEW t \in Thread, NEW h \in Host, obj[t] \in Mutex, Take(t, h)
  PROVE  /\ owner' \in [Host -> Thread \cup {NoThread}] /\ depth' \in [Host -> Nat]
         /\ held' \in [Thread -> [Mutex -> Nat]]
         /\ UNCHANGED <<sort, type>>
<1>1. held[t][obj[t]] + 1 \in Nat /\ held \in [Thread -> [Mutex -> Nat]]
  BY DEF LockTypeOK
<1>2. held' = [held EXCEPT ![t][obj[t]] = held[t][obj[t]] + 1]
  BY <1>1 DEF Take
<1>3. held' \in [Thread -> [Mutex -> Nat]]
  BY <1>1, <1>2, EntrySet
<1> QED BY <1>3 DEF Take, LockTypeOK

LEMMA GiveTypes ==
  ASSUME LockTypeOK, NEW t \in Thread, NEW h \in Host, obj[t] \in Mutex, Give(t, h)
  PROVE  /\ owner' \in [Host -> Thread \cup {NoThread}] /\ depth' \in [Host -> Nat]
         /\ held' \in [Thread -> [Mutex -> Nat]]
         /\ UNCHANGED <<sort, type>>
<1> DEFINE less == IF held[t][obj[t]] = 0 THEN 0 ELSE held[t][obj[t]] - 1
<1>1. less \in Nat /\ held \in [Thread -> [Mutex -> Nat]]
  BY DEF LockTypeOK
<1>2. held' = [held EXCEPT ![t][obj[t]] = less]
  BY <1>1 DEF Give
<1>3. held' \in [Thread -> [Mutex -> Nat]]
  <2> HIDE DEF less
  <2> QED BY <1>1, <1>2, EntrySet
<1>4. depth' \in [Host -> Nat]
  <2>1. depth \in [Host -> Nat]
    BY DEF LockTypeOK
  <2> QED BY <2>1 DEF Give
<1> QED BY <1>3, <1>4 DEF Give, LockTypeOK

LEMMA ReadTypes ==
  ASSUME LockTypeOK, Locals, NEW t \in Thread, ReadCond(t) \/ ReadObject(t)
  PROVE  /\ hc' \in [Thread -> Host \cup {NoHost, Wild}]
         /\ hm' \in [Thread -> Host \cup {NoHost, Wild}]
         /\ raw' \in [Thread -> Host \cup Small \cup {NoHost}]
         /\ pc' \in [Thread -> {"idle", "zero", "cread", "calloc", "cstore", "mread", "malloc",
                              "mstore", "act", "waiting", "reacquire"}]
         /\ UNCHANGED <<memory, hosts, args, held>>
<1>1. /\ ReadCond(t) => slot[cnd[t]] \in Host \cup Small \cup {Wild}
      /\ ReadObject(t) => slot[obj[t]] \in Host \cup Small \cup {Wild}
  BY Sets DEF ReadCond, ReadObject, LockTypeOK, Locals, LocalsOf
<1>2. /\ hc \in [Thread -> Host \cup {NoHost, Wild}]
      /\ hm \in [Thread -> Host \cup {NoHost, Wild}]
      /\ raw \in [Thread -> Host \cup Small \cup {NoHost}]
      /\ pc \in [Thread -> {"idle", "zero", "cread", "calloc", "cstore", "mread", "malloc",
                            "mstore", "act", "waiting", "reacquire"}]
  BY DEF LockTypeOK
<1>3. CASE ReadCond(t)
  BY <1>1, <1>2, <1>3 DEF ReadCond, AfterCond, IsPointer, Goto
<1>4. CASE ReadObject(t)
  BY <1>1, <1>2, <1>4 DEF ReadObject, IsPointer, Goto
<1> QED BY <1>3, <1>4

LEMMA DestroyTypes ==
  ASSUME LockTypeOK, NEW t \in Thread, Destroy(t)
  PROVE  /\ slot' \in [Guest -> Host \cup Small \cup {Wild}]
         /\ type' \in [Host -> HostType]
         /\ sort' \in [Host -> {"free", "mutex", "cond", "rwlock", "semaphore"}]
<1>1. /\ slot \in [Guest -> Host \cup Small \cup {Wild}]
      /\ type \in [Host -> HostType]
      /\ sort \in [Host -> {"free", "mutex", "cond", "rwlock", "semaphore"}]
  BY DEF LockTypeOK
<1>2. CASE Scrapped(t) \in Host
  <2>1. /\ slot' = [slot EXCEPT ![Doomed(t)] = 0]
        /\ type' = [type EXCEPT ![Scrapped(t)] = PTHREAD_MUTEX_NORMAL]
        /\ sort' = [sort EXCEPT ![Scrapped(t)] = "free"]
    BY <1>2 DEF Destroy
  <2>2. 0 \in Small /\ PTHREAD_MUTEX_NORMAL \in HostType
    BY Apart DEF HostType
  <2> HIDE DEF HostType
  <2>3. slot' \in [Guest -> Host \cup Small \cup {Wild}]
    BY <1>1, <2>1, <2>2
  <2>4. type' \in [Host -> HostType]
    BY <1>1, <2>1, <2>2
  <2>5. sort' \in [Host -> {"free", "mutex", "cond", "rwlock", "semaphore"}]
    BY <1>1, <2>1
  <2> QED BY <2>3, <2>4, <2>5
<1>3. CASE Scrapped(t) \notin Host
  BY <1>1, <1>3 DEF Destroy
<1> QED BY <1>2, <1>3

LEMMA StoreTypes ==
  ASSUME LockTypeOK, Locals, NEW t \in Thread, Store(t)
  PROVE  /\ hc' \in [Thread -> Host \cup {NoHost, Wild}]
         /\ hm' \in [Thread -> Host \cup {NoHost, Wild}]
         /\ raw' \in [Thread -> Host \cup Small \cup {NoHost}]
         /\ slot' \in [Guest -> Host \cup Small \cup {Wild}]
         /\ pc' \in [Thread -> {"idle", "zero", "cread", "calloc", "cstore", "mread", "malloc",
                              "mstore", "act", "waiting", "reacquire"}]
<1>1. raw[t] \in Host
  BY DEF Store, Locals, LocalsOf
<1>2. /\ hc \in [Thread -> Host \cup {NoHost, Wild}]
      /\ hm \in [Thread -> Host \cup {NoHost, Wild}]
      /\ raw \in [Thread -> Host \cup Small \cup {NoHost}]
      /\ slot \in [Guest -> Host \cup Small \cup {Wild}]
      /\ pc \in [Thread -> {"idle", "zero", "cread", "calloc", "cstore", "mread", "malloc",
                            "mstore", "act", "waiting", "reacquire"}]
  BY DEF LockTypeOK
<1>3. pc' \in [Thread -> {"idle", "zero", "cread", "calloc", "cstore", "mread", "malloc",
                         "mstore", "act", "waiting", "reacquire"}]
  BY <1>2 DEF Store, AfterCond, Goto
<1>4. slot' \in [Guest -> Host \cup Small \cup {Wild}]
  BY <1>1, <1>2 DEF Store
<1> QED BY <1>1, <1>2, <1>3, <1>4 DEF Store

\* The steps inside a function, of SyncBridge and of LockBridge.
LEMMA ProceedTypes ==
  ASSUME LockTypeOK, Locals, Arguments, NEW t \in Thread, Proceed(t), SyncStep(t)
  PROVE  LockTypeOK'
<1>r. ASSUME ReadCond(t) \/ ReadObject(t)
      PROVE  /\ hc' \in [Thread -> Host \cup {NoHost, Wild}]
             /\ hm' \in [Thread -> Host \cup {NoHost, Wild}]
             /\ raw' \in [Thread -> Host \cup Small \cup {NoHost}]
             /\ pc' \in [Thread -> {"idle", "zero", "cread", "calloc", "cstore", "mread", "malloc",
                                   "mstore", "act", "waiting", "reacquire"}]
             /\ UNCHANGED <<memory, hosts, args, held>>
  BY <1>r, ReadTypes
<1>s. ASSUME Store(t)
      PROVE  /\ hc' \in [Thread -> Host \cup {NoHost, Wild}]
             /\ hm' \in [Thread -> Host \cup {NoHost, Wild}]
             /\ raw' \in [Thread -> Host \cup Small \cup {NoHost}]
             /\ slot' \in [Guest -> Host \cup Small \cup {Wild}]
             /\ pc' \in [Thread -> {"idle", "zero", "cread", "calloc", "cstore", "mread", "malloc",
                                   "mstore", "act", "waiting", "reacquire"}]
  BY <1>s, StoreTypes
<1> USE Sets, Apart DEF LockTypeOK, Goto, memory, hosts, args, handles, locks, history
<1>0. initial' \in [Thread -> Nat] /\ UNCHANGED <<locks, history>>
  BY DEF SyncStep
<1>1. CASE Zero(t)
  BY <1>0, <1>1 DEF Zero, Type
<1>2. CASE ReadCond(t)
  BY <1>0, <1>2, <1>r
<1>3. CASE ReadObject(t)
  BY <1>0, <1>3, <1>r
<1>4. CASE AllocateFails(t)
  BY <1>0, <1>4 DEF AllocateFails, AfterCond
<1>5. CASE Store(t)
  <2>1. UNCHANGED <<life, gtype, hosts, args, held>>
    BY <1>5 DEF Store
  <2> QED BY <1>0, <1>5, <2>1, <1>s
<1>6. CASE ReturnError(t)
  BY <1>0, <1>6 DEF ReturnError, Return
<1>7. CASE InitReturns(t)
  BY <1>0, <1>7 DEF InitReturns, Return
<1>8. CASE LockTakes(t)
  <2>1. Take(t, hm[t]) /\ hm[t] \in Host /\ obj[t] \in Mutex
    BY <1>8 DEF LockTakes, Arguments, ArgumentsOf, MutexOp, WaitOp
  <2> HIDE DEF LockTypeOK
  <2>2. /\ owner' \in [Host -> Thread \cup {NoThread}] /\ depth' \in [Host -> Nat]
        /\ held' \in [Thread -> [Mutex -> Nat]] /\ UNCHANGED <<sort, type>>
    BY <2>1, TakeTypes
  <2> QED BY <1>0, <1>8, <2>2 DEF LockTakes, Return, LockTypeOK
<1>9. CASE LockRefused(t)
  BY <1>0, <1>9 DEF LockRefused, Return
<1>10. CASE UnlockReturns(t)
  <2>1. CASE UnlockAllowed(t, hm[t])
    <3>1. Give(t, hm[t]) /\ hm[t] \in Host /\ obj[t] \in Mutex
      BY <1>10, <2>1 DEF UnlockReturns, Acting, Arguments, ArgumentsOf, MutexOp
    <3> HIDE DEF LockTypeOK
    <3>2. /\ owner' \in [Host -> Thread \cup {NoThread}] /\ depth' \in [Host -> Nat]
          /\ held' \in [Thread -> [Mutex -> Nat]] /\ UNCHANGED <<sort, type>>
      BY <3>1, GiveTypes
    <3> QED BY <1>0, <1>10, <3>2 DEF UnlockReturns, Return, LockTypeOK
  <2>2. CASE ~UnlockAllowed(t, hm[t])
    BY <1>0, <1>10, <2>2 DEF UnlockReturns, Return
  <2> QED BY <2>1, <2>2
<1>11. CASE Destroy(t)
  <2>1. /\ slot' \in [Guest -> Host \cup Small \cup {Wild}]
        /\ type' \in [Host -> HostType]
        /\ sort' \in [Host -> {"free", "mutex", "cond", "rwlock", "semaphore"}]
    BY <1>11, DestroyTypes
  <2> QED BY <1>0, <1>11, <2>1 DEF Destroy, Return
<1>12. CASE DestroyBusy(t)
  BY <1>0, <1>12 DEF DestroyBusy, Return
<1>13. CASE WaitBlocks(t)
  <2>1. Give(t, hm[t]) /\ hm[t] \in Host /\ obj[t] \in Mutex
    BY <1>13 DEF WaitBlocks, Arguments, ArgumentsOf, MutexOp, WaitOp
  <2> HIDE DEF LockTypeOK
  <2>2. /\ owner' \in [Host -> Thread \cup {NoThread}] /\ depth' \in [Host -> Nat]
        /\ held' \in [Thread -> [Mutex -> Nat]] /\ UNCHANGED <<sort, type>>
    BY <2>1, GiveTypes
  <2> QED BY <1>0, <1>13, <2>2 DEF WaitBlocks, LockTypeOK
<1>14. CASE WaitExpires(t)
  BY <1>0, <1>14 DEF WaitExpires
<1>15. CASE WaitReturns(t)
  <2>1. Take(t, hm[t]) /\ hm[t] \in Host /\ obj[t] \in Mutex
    BY <1>15 DEF WaitReturns, Arguments, ArgumentsOf, MutexOp, WaitOp, Locals, LocalsOf
  <2> HIDE DEF LockTypeOK
  <2>2. /\ owner' \in [Host -> Thread \cup {NoThread}] /\ depth' \in [Host -> Nat]
        /\ held' \in [Thread -> [Mutex -> Nat]] /\ UNCHANGED <<sort, type>>
    BY <2>1, TakeTypes
  <2> QED BY <1>0, <1>15, <2>2 DEF WaitReturns, Return, LockTypeOK
<1>16. CASE Wake(t)
  BY <1>0, <1>16 DEF Wake
<1> QED BY <1>1, <1>2, <1>3, <1>4, <1>5, <1>6, <1>7, <1>8, <1>9, <1>10, <1>11, <1>12, <1>13,
           <1>14, <1>15, <1>16 DEF Proceed

LEMMA LockProceedTypes ==
  ASSUME LockTypeOK, Locals, Arguments, NEW t \in Thread, LockProceed(t)
  PROVE  LockTypeOK'
<1> USE Sets, Apart DEF LockTypeOK, Goto, memory, hosts, args, handles, locks, history, Holds
<1>1. CASE AllocateLock(t)
  <2>1. CreatedType(t) \in HostType /\ PTHREAD_MUTEX_NORMAL \in HostType
    BY CreatedTypeOK DEF HostType
  <2> QED BY <1>1, <2>1, SortOf DEF AllocateLock, Allocate, InitialValue, Locals, LocalsOf, Target
<1>2. CASE ReadLock(t)
  <2>1. readers' \in [Host -> [Thread -> Nat]]
    <3>1. hm[t] \in Host /\ readers[hm[t]][t] + 1 \in Nat
      BY <1>2 DEF ReadLock, Reads
    <3>2. readers' = [readers EXCEPT ![hm[t]][t] = readers[hm[t]][t] + 1]
      BY <1>2, <3>1 DEF ReadLock
    <3> QED BY <3>1, <3>2, EntrySet
  <2>2. reading' \in [Thread -> [Rwlock -> Int]]
    <3>1. reading[t][obj[t]] + 1 \in Int
      BY <1>2 DEF ReadLock, Reads, Arguments, ArgumentsOf, RwlockOp
    <3>2. reading' = [reading EXCEPT ![t][obj[t]] = reading[t][obj[t]] + 1]
      BY <1>2 DEF ReadLock
    <3> QED BY <3>1, <3>2, EntrySet
  <2> QED BY <1>2, <2>1, <2>2 DEF ReadLock, Return
<1>3. CASE WriteLock(t)
  BY <1>3 DEF WriteLock, Return, Writes
<1>4. CASE LockDeadlocks(t)
  BY <1>4 DEF LockDeadlocks, Return
<1>5. CASE UnlockRwlock(t)
  <2>1. readers' \in [Host -> [Thread -> Nat]]
    <3> DEFINE less == IF readers[hm[t]][t] = 0 THEN 0 ELSE readers[hm[t]][t] - 1
    <3>1. hm[t] \in Host /\ less \in Nat
      BY <1>5 DEF UnlockRwlock
    <3>2. CASE readers' = [readers EXCEPT ![hm[t]][t] = less]
      <4> HIDE DEF less
      <4> QED BY <3>1, <3>2, EntrySet
    <3> QED BY <1>5, <3>1, <3>2 DEF UnlockRwlock
  <2>2. reading' \in [Thread -> [Rwlock -> Int]]
    <3>1. reading[t][obj[t]] - 1 \in Int
      BY <1>5 DEF UnlockRwlock, Arguments, ArgumentsOf, RwlockOp
    <3>2. CASE reading' = [reading EXCEPT ![t][obj[t]] = reading[t][obj[t]] - 1]
      BY <3>1, <3>2, EntrySet
    <3> QED BY <1>5, <3>1, <3>2 DEF UnlockRwlock
  <2>3. /\ writing' \in [Thread -> [Rwlock -> BOOLEAN]]
        /\ owner' \in [Host -> Thread \cup {NoThread}]
    <3>1. /\ writing \in [Thread -> [Rwlock -> BOOLEAN]]
          /\ owner \in [Host -> Thread \cup {NoThread}]
      OBVIOUS
    <3>2. CASE writing' = [writing EXCEPT ![t][obj[t]] = FALSE]
      <4> HIDE DEF LockTypeOK
      <4>1. owner' \in [Host -> Thread \cup {NoThread}]
        BY <1>5, <3>1 DEF UnlockRwlock
      <4>2. FALSE \in BOOLEAN
        OBVIOUS
      <4> QED BY <3>1, <3>2, <4>1, <4>2, EntrySet
    <3> QED BY <1>5, <3>2 DEF UnlockRwlock
  <2> QED BY <1>5, <2>1, <2>2, <2>3 DEF UnlockRwlock, Return
<1>6. CASE SemaphoreTaken(t)
  <2>1. count' \in [Host -> Nat] /\ tokens' \in [Semaphore -> Int]
    <3>1. /\ count \in [Host -> Nat] /\ tokens \in [Semaphore -> Int]
          /\ hm[t] \in Host /\ obj[t] \in Semaphore
      BY <1>6 DEF SemaphoreTaken, Waits, Arguments, ArgumentsOf, SemaphoreOp
    <3> HIDE DEF LockTypeOK
    <3> QED BY <1>6, <3>1 DEF SemaphoreTaken
  <2> QED BY <1>6, <2>1 DEF SemaphoreTaken, Return
<1>7. CASE SemaphoreReturns(t)
  BY <1>7 DEF SemaphoreReturns, Return
<1>8. CASE SemaphorePosted(t)
  <2>1. count' \in [Host -> Nat] /\ tokens' \in [Semaphore -> Int]
    <3>1. /\ count \in [Host -> Nat] /\ tokens \in [Semaphore -> Int]
          /\ hm[t] \in Host /\ obj[t] \in Semaphore
      BY <1>8 DEF SemaphorePosted, Arguments, ArgumentsOf, SemaphoreOp
    <3> HIDE DEF LockTypeOK
    <3> QED BY <1>8, <3>1 DEF SemaphorePosted
  <2> QED BY <1>8, <2>1 DEF SemaphorePosted, Return
<1> QED BY <1>1, <1>2, <1>3, <1>4, <1>5, <1>6, <1>7, <1>8 DEF LockProceed

-----------------------------------------------------------------------------
(* Every step keeps what a thread's arguments and locals are.              *)

\* Only t's own locals change.
Others(t) ==
  \A u \in Thread : u # t =>
    /\ pc'[u] = pc[u] /\ op'[u] = op[u] /\ cnd'[u] = cnd[u] /\ obj'[u] = obj[u]
    /\ raw'[u] = raw[u] /\ hc'[u] = hc[u] /\ hm'[u] = hm[u]

LEMMA OthersKeep ==
  ASSUME Arguments, Locals, NEW t \in Thread, Others(t), ArgumentsOf(t)', LocalsOf(t)'
  PROVE  Arguments' /\ Locals'
<1> SUFFICES ASSUME NEW u \in Thread PROVE ArgumentsOf(u)' /\ LocalsOf(u)'
  BY DEF Arguments, Locals
<1>1. CASE u = t
  BY <1>1
<1>2. CASE u # t
  BY <1>2 DEF Arguments, Locals, ArgumentsOf, LocalsOf, Others
<1> QED BY <1>1, <1>2

\* The names of the functions.
LEMMA OpNames ==
  /\ \A o \in MutexOp : o \notin CondOp /\ o \notin WaitOp /\ o \notin RwlockOp /\ o \notin SemaphoreOp
  /\ \A o \in CondOp : o \notin WaitOp /\ o \notin RwlockOp /\ o \notin SemaphoreOp
  /\ \A o \in WaitOp : o \notin RwlockOp /\ o \notin SemaphoreOp /\ o \notin Changes
  /\ \A o \in RwlockOp : o \notin SemaphoreOp
  /\ \A o \in InitOp : o \notin DestroyOp /\ o \notin NoCreate
  /\ \A o \in DestroyOp : o \in NoCreate
  /\ "none" \notin MutexOp \cup CondOp \cup WaitOp \cup RwlockOp \cup SemaphoreOp
  BY DEF InitOp, DestroyOp, MutexOp, CondOp, WaitOp, RwlockOp, SemaphoreOp, Changes, NoCreate

LEMMA BeginFrame ==
  ASSUME LockTypeOK, NEW t \in Thread, NEW o, NEW c, NEW m, Begins(t, o, c, m)
  PROVE  /\ Others(t)
         /\ op'[t] = o /\ cnd'[t] = c /\ obj'[t] = m /\ pc'[t] = Places(o, c)
         /\ slot' = slot /\ sort' = sort /\ raw' = raw /\ hc' = hc /\ hm' = hm
  BY DEF LockTypeOK, Begins, Others, hosts, handles

LEMMA BeginArguments ==
  ASSUME LockTypeOK, Arguments, Locals, NEW t \in Thread, NEW o, NEW c, NEW m, Begins(t, o, c, m)
  PROVE  Arguments' /\ Locals'
<1>1. pc[t] = "idle" /\ raw[t] = NoHost /\ hc[t] = NoHost /\ hm[t] = NoHost
  BY DEF Begins, Locals, LocalsOf, Creating
<1>2. /\ op'[t] = o /\ cnd'[t] = c /\ obj'[t] = m /\ pc'[t] = Places(o, c)
      /\ raw'[t] = NoHost /\ hc'[t] = NoHost /\ hm'[t] = NoHost
  BY <1>1, BeginFrame
<1>3. /\ o # "none" /\ pc'[t] \in {"zero", "cread", "mread"}
      /\ pc'[t] = "zero" <=> o \in InitOp
      /\ pc'[t] = "cread" => c # NoGuest
      /\ pc'[t] = "mread" => m # NoGuest
  BY <1>2, OpNames, Apart, Sets DEF Begins, Places
<1>4. ArgumentsOf(t)'
  BY <1>2, <1>3, OpNames DEF Begins, ArgumentsOf
<1>5. LocalsOf(t)'
  BY <1>2, <1>3 DEF LocalsOf, Creating
<1> QED BY <1>4, <1>5, OthersKeep, BeginFrame

LEMMA BeginTenure ==
  ASSUME LockTypeOK, Arguments, Locals, Tenure, Words, NEW t \in Thread, NEW o, NEW c, NEW m,
         Begins(t, o, c, m)
  PROVE  Tenure' /\ Words'
<1>1. pc[t] = "idle" /\ op[t] = "none" /\ cnd[t] = NoGuest /\ obj[t] = NoGuest
  BY DEF Begins, Arguments, ArgumentsOf
<1>2. /\ \A u \in Thread, g \in Guest : u # t => (Uses(u, g)' <=> Uses(u, g))
      /\ \A g \in Guest : Uses(t, g)' <=> g \in {c, m}
      /\ \A g \in Guest : ~Uses(t, g)
  BY <1>1, BeginFrame, Apart DEF Uses, Others, Places
<1>3. /\ o \in Changes => \E g \in Guest :
           /\ Guest \cap {c, m} = {g}
           /\ life' = [life EXCEPT ![g] = "changing"]
           /\ \A u \in Thread : ~Uses(u, g)
           /\ IF o \in InitOp THEN life[g] = "raw" ELSE life[g] = "ready"
      /\ o \notin Changes => life' = life /\ \A g \in Guest \cap {c, m} : life[g] = "ready"
  <2>1. o \in Changes => \E g \in Guest : Guest \cap {c, m} = {g}
    BY Apart, Sets, OpNames DEF Begins
  <2>2. \A g \in Guest : life[g] = "raw" => \A u \in Thread : ~Uses(u, g)
    BY DEF Tenure
  <2> QED BY <2>1, <2>2 DEF Begins, Unused
<1>4. Tenure'
  <2> SUFFICES ASSUME NEW u \in Thread, NEW g \in Guest, Uses(u, g)'
               PROVE  IF op'[u] \in Changes
                        THEN life'[g] = "changing" /\ \A v \in Thread : Uses(v, g)' => v = u
                        ELSE life'[g] = "ready"
    BY DEF Tenure
  <2>1. CASE u = t
    BY <2>1, <1>2, <1>3, BeginFrame DEF LockTypeOK
  <2>2. CASE u # t
    BY <2>2, <1>2, <1>3, BeginFrame DEF LockTypeOK, Tenure, Others
  <2> QED BY <2>1, <2>2
<1>5. Words'
  <2>1. (\A g \in Guest : life[g] = "ready" => slot[g] # Wild)'
    BY <1>3, BeginFrame DEF Words, LockTypeOK
  <2>2. (\A g \in Guest : life[g] \in {"absent", "raw"} => slot[g] \notin Host)'
    BY <1>3, BeginFrame DEF Words, LockTypeOK
  <2>3. (\A u \in Thread, g \in Guest : Uses(u, g) /\ pc[u] # "zero" => slot[g] # Wild)'
    BY <1>2, <1>3, BeginFrame DEF Words, Others, Places, Changes
  <2>4. (\A u \in Thread, g \in Guest :
           Uses(u, g) /\ op[u] \in InitOp /\ pc[u] # "act" => slot[g] \notin Host)'
    BY <1>2, <1>3, BeginFrame DEF Words, Others, Changes
  <2>5. pc'[t] # "act"
    BY BeginFrame DEF Places
  <2> QED BY <2>1, <2>2, <2>3, <2>4, <2>5, BeginFrame DEF Words, Others
<1> QED BY <1>4, <1>5

LEMMA BeginLive ==
  ASSUME LockTypeOK, Arguments, Locals, Live, Private, NEW t \in Thread, NEW o, NEW c, NEW m,
         Begins(t, o, c, m)
  PROVE  Live' /\ Private'
<1>1. raw[t] = NoHost /\ hc[t] = NoHost /\ hm[t] = NoHost
  BY DEF Begins, Locals, LocalsOf, Creating
<1>2. Live'
  BY <1>1, BeginFrame, Apart DEF Live, Others, Target
<1>3. Private'
  BY <1>1, BeginFrame, Apart DEF Private, Others
<1> QED BY <1>2, <1>3

-----------------------------------------------------------------------------
(* A function returns.                                                     *)

LEMMA ReturnFrame ==
  ASSUME LockTypeOK, NEW t \in Thread, Return(t)
  PROVE  /\ Others(t)
         /\ op'[t] = "none" /\ cnd'[t] = NoGuest /\ obj'[t] = NoGuest /\ pc'[t] = "idle"
         /\ raw'[t] = NoHost /\ hc'[t] = NoHost /\ hm'[t] = NoHost
         /\ \A g \in Guest : ~Uses(t, g)'
         /\ \A u \in Thread, g \in Guest : u # t => (Uses(u, g)' <=> Uses(u, g))
  BY DEF LockTypeOK, Return, Others, Uses

LEMMA ReturnArguments ==
  ASSUME LockTypeOK, Arguments, Locals, NEW t \in Thread, Return(t)
  PROVE  Arguments' /\ Locals'
<1>1. ArgumentsOf(t)'
  BY ReturnFrame, OpNames DEF ArgumentsOf
<1>2. LocalsOf(t)'
  BY ReturnFrame DEF LocalsOf, Creating
<1> QED BY <1>1, <1>2, OthersKeep, ReturnFrame

\* The guest's objects and the host's stand as they did.
LEMMA ReturnKeeps ==
  ASSUME AInv, NEW t \in Thread, Return(t), op[t] \notin Changes, UNCHANGED <<slot, life, sort>>
  PROVE  Arguments' /\ Locals' /\ Tenure' /\ Words' /\ Live' /\ Private'
<1>1. LockTypeOK /\ Arguments /\ Locals /\ Tenure /\ Words /\ Live /\ Private
  BY DEF AInv
<1>2. Arguments' /\ Locals'
  BY <1>1, ReturnArguments
<1>3. Tenure'
  BY <1>1, ReturnFrame DEF Tenure, Others
<1>4. Words'
  BY <1>1, ReturnFrame DEF Words, Others
<1>5. Live'
  BY <1>1, ReturnFrame, Apart DEF Live, Others, Target
<1>6. Private'
  BY <1>1, ReturnFrame, Apart DEF Private, Others
<1> QED BY <1>2, <1>3, <1>4, <1>5, <1>6

LEMMA OneArgument ==
  ASSUME Arguments, NEW t \in Thread, op[t] \in Changes
  PROVE  \/ cnd[t] \in Guest /\ obj[t] = NoGuest
         \/ obj[t] \in Guest /\ cnd[t] = NoGuest
<1>1. op[t] \in {"cinit", "cdestroy"} \/ op[t] \in {"init", "destroy"}
      \/ op[t] \in {"rwinit", "rwdestroy"} \/ op[t] \in {"seminit", "semdestroy"}
  BY DEF Changes, InitOp, DestroyOp
<1>2. op[t] \in CondOp \/ op[t] \in MutexOp \/ op[t] \in RwlockOp \/ op[t] \in SemaphoreOp
  BY <1>1 DEF CondOp, MutexOp, RwlockOp, SemaphoreOp
<1> QED BY <1>2, Sets DEF Arguments, ArgumentsOf

\* The word of g changes, and what the guest may do with g; t has returned.
LEMMA ReturnWords ==
  ASSUME LockTypeOK, Tenure, Words, NEW t \in Thread, Return(t), NEW g \in Guest,
         \A u \in Thread : u # t => cnd[u] # g /\ obj[u] # g,
         \A k \in Guest : k # g => life'[k] = life[k] /\ slot'[k] = slot[k],
         life'[g] = "ready" => slot'[g] # Wild,
         life'[g] \in {"absent", "raw"} => slot'[g] \notin Host
  PROVE  Words'
<1>1. (\A k \in Guest : life[k] = "ready" => slot[k] # Wild)'
  BY DEF Words
<1>2. (\A k \in Guest : life[k] \in {"absent", "raw"} => slot[k] \notin Host)'
  BY DEF Words
<1>3. ASSUME NEW u \in Thread, NEW k \in Guest, Uses(u, k)'
      PROVE  u # t /\ k # g /\ Uses(u, k) /\ op'[u] = op[u] /\ pc'[u] = pc[u]
  BY <1>3, ReturnFrame DEF Others, Uses
<1>4. (\A u \in Thread, k \in Guest : Uses(u, k) /\ pc[u] # "zero" => slot[k] # Wild)'
  BY <1>3 DEF Words
<1>5. (\A u \in Thread, k \in Guest :
         Uses(u, k) /\ op[u] \in InitOp /\ pc[u] # "act" => slot[k] \notin Host)'
  BY <1>3 DEF Words
<1>6. ASSUME NEW u \in Thread, op'[u] \in Changes, pc'[u] = "act"
      PROVE  (/\ obj[u] # NoGuest =>
                   IF hm[u] = NoHost THEN slot[obj[u]] \notin Host ELSE slot[obj[u]] = hm[u]
              /\ cnd[u] # NoGuest =>
                   IF hc[u] = NoHost THEN slot[cnd[u]] \notin Host ELSE slot[cnd[u]] = hc[u])'
  <2>1. u # t /\ op[u] \in Changes /\ pc[u] = "act"
    BY <1>6, ReturnFrame DEF Others
  <2>2. /\ obj'[u] = obj[u] /\ cnd'[u] = cnd[u] /\ hc'[u] = hc[u] /\ hm'[u] = hm[u]
        /\ obj[u] # NoGuest => slot'[obj[u]] = slot[obj[u]]
        /\ cnd[u] # NoGuest => slot'[cnd[u]] = slot[cnd[u]]
    BY <2>1, ReturnFrame, Sets DEF Others, LockTypeOK
  <2> QED BY <2>1, <2>2 DEF Words
<1> QED BY <1>1, <1>2, <1>4, <1>5, <1>6 DEF Words

\* The object is ready, or it could not be made.
LEMMA InitReturnKeeps ==
  ASSUME AInv, NEW t \in Thread, ReturnError(t) \/ InitReturns(t) \/ DestroyBusy(t)
  PROVE  Arguments' /\ Locals' /\ Tenure' /\ Words' /\ Live' /\ Private'
<1>1. LockTypeOK /\ Arguments /\ Locals /\ Tenure /\ Words /\ Live /\ Private
  BY DEF AInv
<1>2. /\ Return(t) /\ slot' = slot /\ sort' = sort /\ pc[t] = "act"
      /\ ReturnError(t) => op[t] \notin DestroyOp
      /\ InitReturns(t) => op[t] \in InitOp
      /\ DestroyBusy(t) => op[t] = "destroy"
  BY DEF ReturnError, InitReturns, DestroyBusy, hosts, Acting
<1>3. Arguments' /\ Locals'
  BY <1>1, <1>2, ReturnArguments
<1>4. CASE op[t] \notin Changes
  <2>1. ReturnError(t)
    BY <1>2, <1>4 DEF Changes, DestroyOp
  <2>2. \A g \in Guest : Uses(t, g) => life[g] = "ready"
    BY <1>1, <1>4 DEF Tenure
  <2>3. life' = life
    BY <1>1, <2>1, <2>2 DEF ReturnError, LockTypeOK
  <2> QED BY <1>2, <1>4, <2>3, ReturnKeeps
<1>5. CASE op[t] \in Changes
  <2>1. PICK g \in Guest : /\ \A k \in Guest : Uses(t, k) <=> k = g
                           /\ g = IF obj[t] = NoGuest THEN cnd[t] ELSE obj[t]
                           /\ cnd[t] = NoGuest \/ obj[t] = NoGuest
    <3>1. (cnd[t] \in Guest /\ obj[t] = NoGuest) \/ (obj[t] \in Guest /\ cnd[t] = NoGuest)
      BY <1>1, <1>5, OneArgument
    <3> QED BY <1>2, <3>1, Apart DEF Uses
  <2>2. life[g] = "changing" /\ \A u \in Thread : Uses(u, g) => u = t
    BY <1>1, <1>5, <2>1 DEF Tenure
  <2>3. /\ \A k \in Guest : k # g => life'[k] = life[k]
        /\ life'[g] \in {"raw", "ready"}
        /\ life'[g] = "ready" => slot[g] # Wild
        /\ life'[g] = "raw" => slot[g] \notin Host
    <3>1. slot[g] # Wild
      BY <1>1, <1>2, <2>1 DEF Words
    <3>2. CASE ReturnError(t)
      <4>1. life' = [k \in Guest |-> IF life[k] = "changing" /\ Uses(t, k) THEN "raw" ELSE life[k]]
        BY <3>2 DEF ReturnError
      <4>2. slot[g] \notin Host
        <5>1. op[t] \in InitOp
          BY <1>2, <1>5, <3>2 DEF Changes
        <5>2. (hm[t] = NoHost /\ obj[t] = g) \/ (hc[t] = NoHost /\ cnd[t] = g)
          <6>1. \/ cnd[t] # NoGuest /\ hc[t] = NoHost
                \/ obj[t] # NoGuest /\ hm[t] = NoHost
            BY <3>2, <5>1 DEF ReturnError, InitOp, TimedOp
          <6> QED BY <2>1, <6>1
        <5> QED BY <1>1, <1>2, <1>5, <5>2, Apart DEF Words
      <4> QED BY <1>1, <2>1, <2>2, <4>1, <4>2 DEF LockTypeOK
    <3>3. CASE InitReturns(t) \/ DestroyBusy(t)
      <4>1. life' = [life EXCEPT ![g] = "ready"]
        <5>1. CASE DestroyBusy(t)
          <6>1. obj[t] \in Mutex
            BY <1>1, <1>2, <5>1 DEF Arguments, ArgumentsOf, MutexOp
          <6> QED BY <2>1, <5>1, <6>1, Apart, Sets DEF DestroyBusy
        <5>2. CASE InitReturns(t)
          <6>1. (obj[t] = NoGuest => hm[t] = NoHost) /\ (cnd[t] = NoGuest => hc[t] = NoHost)
            BY <1>1 DEF Locals, LocalsOf
          <6> QED BY <2>1, <5>2, <6>1 DEF InitReturns
        <5> QED BY <3>3, <5>1, <5>2
      <4> QED BY <1>1, <3>1, <4>1 DEF LockTypeOK
    <3> QED BY <3>2, <3>3
  <2>4. Tenure'
    BY <1>1, <1>2, <2>2, <2>3, ReturnFrame DEF Tenure, Others
  <2>5. Words'
    <3>1. \A u \in Thread : u # t => cnd[u] # g /\ obj[u] # g
      BY <1>1, <2>2, Apart DEF Uses, Arguments, ArgumentsOf
    <3> QED BY <1>1, <1>2, <2>3, <3>1, ReturnWords
  <2>6. Live'
    BY <1>1, <1>2, ReturnFrame, Apart DEF Live, Others, Target
  <2>7. Private'
    BY <1>1, <1>2, ReturnFrame, Apart DEF Private, Others
  <2> QED BY <1>3, <2>4, <2>5, <2>6, <2>7
<1> QED BY <1>4, <1>5

\* A host object is freed, which nobody else can name.
LEMMA DestroyKeeps ==
  ASSUME AInv, NEW t \in Thread, Destroy(t)
  PROVE  Arguments' /\ Locals' /\ Tenure' /\ Words' /\ Live' /\ Private'
<1>1. LockTypeOK /\ Arguments /\ Locals /\ Tenure /\ Words /\ Live /\ Private
  BY DEF AInv
<1>2. Return(t) /\ op[t] \in DestroyOp /\ op[t] \in Changes /\ pc[t] = "act"
  BY DEF Destroy, Changes
<1>3. Arguments' /\ Locals'
  BY <1>1, <1>2, ReturnArguments
<1>4. PICK g \in Guest : /\ \A k \in Guest : Uses(t, k) <=> k = g
                         /\ g = Doomed(t)
                         /\ slot[g] = Scrapped(t) \/ (slot[g] \notin Host /\ Scrapped(t) \notin Host)
  <2>1. \/ op[t] = "cdestroy" /\ cnd[t] \in Guest /\ obj[t] = NoGuest
        \/ op[t] # "cdestroy" /\ obj[t] \in Guest /\ cnd[t] = NoGuest
    BY <1>1, <1>2, Sets DEF Arguments, ArgumentsOf, DestroyOp, MutexOp, CondOp, RwlockOp, SemaphoreOp
  <2>2. \/ op[t] = "cdestroy" /\ (slot[cnd[t]] = hc[t] \/ (slot[cnd[t]] \notin Host /\ hc[t] = NoHost))
        \/ op[t] # "cdestroy" /\ (slot[obj[t]] = hm[t] \/ (slot[obj[t]] \notin Host /\ hm[t] = NoHost))
    BY <1>1, <1>2, <2>1, Apart DEF Words
  <2> QED BY <1>2, <2>1, <2>2, Apart DEF Uses, Doomed, Scrapped
<1>5. life[g] = "changing" /\ \A u \in Thread : Uses(u, g) => u = t
  BY <1>1, <1>2, <1>4 DEF Tenure
<1>6. /\ \A k \in Guest : k # g => life'[k] = life[k] /\ slot'[k] = slot[k]
      /\ life'[g] = "raw" /\ slot'[g] \notin Host
      /\ \A h \in Host : h # slot[g] => sort'[h] = sort[h]
  BY <1>1, <1>4, Apart DEF Destroy, LockTypeOK, Type
<1>7. \A u \in Thread : u # t => cnd[u] # g /\ obj[u] # g
  BY <1>1, <1>5, Apart DEF Uses, Arguments, ArgumentsOf
<1>8. Tenure'
  BY <1>1, <1>5, <1>6, <1>2, ReturnFrame DEF Tenure, Others
<1>9. Words'
  <2>1. life'[g] # "ready" /\ slot'[g] \notin Host
    BY <1>6
  <2> QED BY <1>1, <1>2, <1>6, <1>7, <2>1, ReturnWords
<1>10. Live'
  BY <1>1, <1>2, <1>6, <1>7, ReturnFrame, Apart DEF Live, Others, Target, Private
<1>11. Private'
  BY <1>1, <1>2, <1>6, <1>7, ReturnFrame, Apart DEF Private, Others
<1> QED BY <1>3, <1>8, <1>9, <1>10, <1>11

-----------------------------------------------------------------------------
(* The getters.                                                            *)

LEMMA ZeroKeeps ==
  ASSUME AInv, NEW t \in Thread, Zero(t)
  PROVE  Arguments' /\ Locals' /\ Tenure' /\ Words' /\ Live' /\ Private'
<1>1. LockTypeOK /\ Arguments /\ Locals /\ Tenure /\ Words /\ Live /\ Private
  BY DEF AInv
<1>2. /\ pc[t] = "zero" /\ op[t] \in InitOp /\ op[t] \in Changes
      /\ raw[t] = NoHost /\ hc[t] = NoHost /\ hm[t] = NoHost
  BY <1>1 DEF Zero, Locals, LocalsOf, Changes, Creating
<1>3. PICK g \in Guest :
        /\ \A k \in Guest : Uses(t, k) <=> k = g
        /\ IF op[t] = "cinit" THEN g = cnd[t] /\ obj[t] = NoGuest ELSE g = obj[t] /\ cnd[t] = NoGuest
  <2>1. \/ op[t] = "cinit" /\ cnd[t] \in Guest /\ obj[t] = NoGuest
        \/ op[t] # "cinit" /\ obj[t] \in Guest /\ cnd[t] = NoGuest
    BY <1>1, <1>2, Sets DEF Arguments, ArgumentsOf, InitOp, MutexOp, CondOp, RwlockOp, SemaphoreOp
  <2> QED BY <1>2, <2>1, Apart DEF Uses
<1>4. /\ slot' = [slot EXCEPT ![g] = 0]
      /\ pc' = [pc EXCEPT ![t] = IF op[t] = "cinit" THEN "cread" ELSE "mread"]
      /\ UNCHANGED <<life, sort, op, cnd, obj, raw, hc, hm>>
  BY <1>3 DEF Zero, Goto, hosts, args, handles
<1>5. /\ 0 \notin Host /\ 0 # Wild
      /\ slot'[g] = 0 /\ \A k \in Guest : k # g => slot'[k] = slot[k]
  BY <1>1, <1>4, Apart DEF LockTypeOK, Type
<1>6. /\ Others(t) /\ pc'[t] \in {"cread", "mread"}
      /\ \A u \in Thread, k \in Guest : Uses(u, k)' <=> Uses(u, k)
  BY <1>1, <1>2, <1>4 DEF LockTypeOK, Others, Uses
<1>7. ArgumentsOf(t)' /\ LocalsOf(t)'
  <2>1. ArgumentsOf(t)'
    BY <1>1, <1>2, <1>4, <1>6 DEF Arguments, ArgumentsOf
  <2>2. op[t] = "cinit" => pc'[t] = "cread" /\ cnd[t] # NoGuest
    BY <1>1, <1>3, <1>4, Apart DEF LockTypeOK
  <2>3. op[t] # "cinit" => pc'[t] = "mread" /\ obj[t] # NoGuest
    BY <1>1, <1>3, <1>4, Apart DEF LockTypeOK
  <2>4. LocalsOf(t)'
    BY <1>2, <1>4, <2>2, <2>3 DEF LocalsOf, Creating
  <2> QED BY <2>1, <2>4
<1>8. Arguments' /\ Locals'
  BY <1>1, <1>6, <1>7, OthersKeep
<1>9. Tenure'
  BY <1>1, <1>4, <1>6 DEF Tenure
<1>10. \A u \in Thread : u # t => cnd[u] # g /\ obj[u] # g
  BY <1>1, <1>2, <1>3, Apart DEF Tenure, Uses, Arguments, ArgumentsOf
<1>11. Words'
  <2>1. /\ (\A k \in Guest : life[k] = "ready" => slot[k] # Wild)'
        /\ (\A k \in Guest : life[k] \in {"absent", "raw"} => slot[k] \notin Host)'
    BY <1>1, <1>4, <1>5 DEF Words
  <2>2. (\A u \in Thread, k \in Guest : Uses(u, k) /\ pc[u] # "zero" => slot[k] # Wild)'
    BY <1>1, <1>3, <1>5, <1>6 DEF Words, Others
  <2>3. (\A u \in Thread, k \in Guest :
           Uses(u, k) /\ op[u] \in InitOp /\ pc[u] # "act" => slot[k] \notin Host)'
    BY <1>1, <1>2, <1>4, <1>5, <1>6 DEF Words, Others
  <2>4. ASSUME NEW u \in Thread, op'[u] \in Changes, pc'[u] = "act"
        PROVE  /\ u # t
               /\ obj[u] # NoGuest => slot'[obj[u]] = slot[obj[u]]
               /\ cnd[u] # NoGuest => slot'[cnd[u]] = slot[cnd[u]]
    <3>1. u # t
      BY <1>6, <2>4
    <3>2. (obj[u] # NoGuest => obj[u] \in Guest) /\ (cnd[u] # NoGuest => cnd[u] \in Guest)
      BY <1>1, Sets DEF LockTypeOK
    <3> QED BY <1>5, <1>10, <3>1, <3>2
  <2> QED BY <1>1, <1>4, <1>6, <2>1, <2>2, <2>3, <2>4 DEF Words, Others
<1>12. Live'
  BY <1>1, <1>4, <1>5, <1>6, <1>2, Apart DEF Live, Others, Target
<1>13. Private'
  BY <1>1, <1>4, <1>5 DEF Private
<1> QED BY <1>8, <1>9, <1>11, <1>12, <1>13

\* A step that leaves the guest's objects, the host's and the arguments alone.
LEMMA MovesTenure ==
  ASSUME LockTypeOK, Arguments, Tenure, NEW t \in Thread, Others(t),
         pc[t] # "idle", pc'[t] # "idle", UNCHANGED <<life, op, cnd, obj>>
  PROVE  Tenure' /\ \A u \in Thread, k \in Guest : Uses(u, k)' <=> Uses(u, k)
<1>1. \A u \in Thread, k \in Guest : Uses(u, k)' <=> Uses(u, k)
  BY DEF Others, Uses
<1> QED BY <1>1 DEF Tenure

\* A getter returns what is in the word, or finds that there is nothing.
LEMMA ReadKeeps ==
  ASSUME AInv, NEW t \in Thread, ReadCond(t) \/ ReadObject(t)
  PROVE  Arguments' /\ Locals' /\ Tenure' /\ Words' /\ Live' /\ Private'
<1>1. LockTypeOK /\ Arguments /\ Locals /\ Tenure /\ Words /\ Live /\ Private
  BY DEF AInv
<1>2. /\ ArgumentsOf(t) /\ LocalsOf(t)
      /\ UNCHANGED <<slot, life, sort, op, cnd, obj>>
      /\ pc' = [pc EXCEPT ![t] = pc'[t]]
  BY <1>1 DEF Arguments, Locals, ReadCond, ReadObject, Goto, memory, hosts, args, LockTypeOK
<1>3. CASE ReadCond(t)
  <2>1. /\ pc[t] = "cread" /\ cnd[t] \in Cond /\ cnd[t] \in Guest /\ slot[cnd[t]] # Wild
        /\ slot[cnd[t]] \in Host \cup Small \cup {Wild}
        /\ raw[t] = NoHost /\ hc[t] = NoHost /\ hm[t] = NoHost /\ hm' = hm
    <3>1. /\ pc[t] = "cread" /\ cnd[t] \in Cond /\ cnd[t] \in Guest
          /\ raw[t] = NoHost /\ hc[t] = NoHost /\ hm[t] = NoHost /\ hm' = hm
      BY <1>1, <1>2, <1>3, Sets DEF ReadCond, LocalsOf, Creating, LockTypeOK
    <3>2. Uses(t, cnd[t])
      BY <3>1 DEF Uses
    <3> QED BY <1>1, <3>1, <3>2 DEF Words, LockTypeOK
  <2>2. \/ /\ slot[cnd[t]] \in Host /\ hc' = [hc EXCEPT ![t] = slot[cnd[t]]]
           /\ pc'[t] = AfterCond(t) /\ raw' = raw
        \/ /\ slot[cnd[t]] \notin Host /\ op[t] \in NoCreate /\ hc' = [hc EXCEPT ![t] = NoHost]
           /\ pc'[t] = AfterCond(t) /\ raw' = raw
        \/ /\ slot[cnd[t]] \in Small /\ op[t] \notin NoCreate /\ hc' = hc
           /\ pc'[t] = "calloc" /\ raw' = [raw EXCEPT ![t] = slot[cnd[t]]]
    BY <1>1, <1>3, <2>1, Apart DEF ReadCond, IsPointer, Goto, LockTypeOK
  <2>3. /\ hc'[t] \in {NoHost, slot[cnd[t]]} /\ hc'[t] # Wild
        /\ hc'[t] = NoHost \/ (hc'[t] = slot[cnd[t]] /\ slot[cnd[t]] \in Host)
        /\ pc'[t] \in {"mread", "act", "calloc"} /\ raw'[t] \notin Host
        /\ pc'[t] # "calloc" /\ hc'[t] = NoHost => slot[cnd[t]] \notin Host
    BY <1>1, <2>1, <2>2, Apart DEF LockTypeOK, AfterCond
  <2>4. Others(t)
    BY <1>1, <1>2, <2>1, <2>2 DEF Others, LockTypeOK
  <2>5. Arguments' /\ Locals'
    <3>1. ArgumentsOf(t)'
      BY <1>2, <2>1, <2>3 DEF ArgumentsOf
    <3>2. LocalsOf(t)'
      BY <1>1, <1>2, <2>1, <2>2, <2>3, Apart DEF LocalsOf, Creating, AfterCond, LockTypeOK
    <3> QED BY <1>1, <2>4, <3>1, <3>2, OthersKeep
  <2>6. Tenure' /\ \A u \in Thread, k \in Guest : Uses(u, k)' <=> Uses(u, k)
    BY <1>1, <1>2, <2>1, <2>3, <2>4, MovesTenure
  <2>7. Words'
    <3>1. pc'[t] = "act" => obj[t] = NoGuest
      BY <2>2 DEF AfterCond
    <3> QED BY <1>1, <1>2, <2>1, <2>3, <2>4, <2>6, <3>1 DEF Words, Others
  <2>8. Live'
    BY <1>1, <1>2, <2>1, <2>3, <2>4, Apart, SortOf DEF Live, Others, Target
  <2>9. Private'
    BY <1>1, <1>2, <2>1, <2>3, <2>4, Apart DEF Private, Others
  <2> QED BY <2>5, <2>6, <2>7, <2>8, <2>9
<1>4. CASE ReadObject(t)
  <2>1. /\ pc[t] = "mread" /\ obj[t] \in Guest /\ slot[obj[t]] # Wild
        /\ slot[obj[t]] \in Host \cup Small \cup {Wild}
        /\ raw[t] = NoHost /\ hm[t] = NoHost /\ hc' = hc
    <3>1. /\ pc[t] = "mread" /\ obj[t] \in Guest
          /\ raw[t] = NoHost /\ hm[t] = NoHost /\ hc' = hc
      BY <1>1, <1>2, <1>4, Sets DEF ReadObject, LocalsOf, Creating, LockTypeOK
    <3>2. Uses(t, obj[t])
      BY <3>1 DEF Uses
    <3> QED BY <1>1, <3>1, <3>2 DEF Words, LockTypeOK
  <2>2. \/ /\ slot[obj[t]] \in Host /\ hm' = [hm EXCEPT ![t] = slot[obj[t]]]
           /\ pc'[t] = "act" /\ raw' = raw
        \/ /\ slot[obj[t]] \notin Host /\ op[t] \in NoCreate /\ hm' = [hm EXCEPT ![t] = NoHost]
           /\ pc'[t] = "act" /\ raw' = raw
        \/ /\ slot[obj[t]] \in Small /\ op[t] \notin NoCreate /\ hm' = hm
           /\ pc'[t] = "malloc" /\ raw' = [raw EXCEPT ![t] = slot[obj[t]]]
    BY <1>1, <1>4, <2>1, Apart DEF ReadObject, IsPointer, Goto, LockTypeOK
  <2>3. /\ hm'[t] \in {NoHost, slot[obj[t]]} /\ hm'[t] # Wild
        /\ hm'[t] = NoHost \/ (hm'[t] = slot[obj[t]] /\ slot[obj[t]] \in Host)
        /\ pc'[t] \in {"act", "malloc"} /\ raw'[t] \notin Host
        /\ pc'[t] # "malloc" /\ hm'[t] = NoHost => slot[obj[t]] \notin Host
    BY <1>1, <2>1, <2>2, Apart DEF LockTypeOK
  <2>4. Others(t)
    BY <1>1, <1>2, <2>1, <2>2 DEF Others, LockTypeOK
  <2>5. Arguments' /\ Locals'
    <3>1. ArgumentsOf(t)'
      BY <1>2, <2>1, <2>3 DEF ArgumentsOf
    <3>2. LocalsOf(t)'
      BY <1>1, <1>2, <2>1, <2>2, <2>3, Apart DEF LocalsOf, Creating, LockTypeOK
    <3> QED BY <1>1, <2>4, <3>1, <3>2, OthersKeep
  <2>6. Tenure' /\ \A u \in Thread, k \in Guest : Uses(u, k)' <=> Uses(u, k)
    BY <1>1, <1>2, <2>1, <2>3, <2>4, MovesTenure
  <2>7. Words'
    <3>1. op[t] \in Changes => cnd[t] = NoGuest
      BY <1>1, <2>1, Apart, OneArgument
    <3> QED BY <1>1, <1>2, <2>1, <2>3, <2>4, <2>6, <3>1 DEF Words, Others
  <2>8. Live'
    BY <1>1, <1>2, <2>1, <2>3, <2>4, Apart DEF Live, Others, Target
  <2>9. Private'
    BY <1>1, <1>2, <2>1, <2>3, <2>4, Apart DEF Private, Others
  <2> QED BY <2>5, <2>6, <2>7, <2>8, <2>9
<1> QED BY <1>3, <1>4

\* A new host object, whose address only its maker has.
LEMMA AllocateKeeps ==
  ASSUME AInv, NEW t \in Thread, Allocate(t)
  PROVE  Arguments' /\ Locals' /\ Tenure' /\ Words' /\ Live' /\ Private'
<1>1. LockTypeOK /\ Arguments /\ Locals /\ Tenure /\ Words /\ Live /\ Private
  BY DEF AInv
<1>2. PICK h \in Host :
        /\ sort[h] = "free" /\ sort' = [sort EXCEPT ![h] = Sort(Target(t))]
        /\ raw' = [raw EXCEPT ![t] = h]
  BY DEF Allocate
<1>3. /\ pc[t] \in {"calloc", "malloc"}
      /\ pc' = [pc EXCEPT ![t] = IF pc[t] = "calloc" THEN "cstore" ELSE "mstore"]
      /\ UNCHANGED <<slot, life, op, cnd, obj, hc, hm>>
  BY DEF Allocate, Goto, memory, args
<1>4. /\ ArgumentsOf(t) /\ LocalsOf(t) /\ Target(t) \in Guest
      /\ sort'[h] = Sort(Target(t)) /\ \A k \in Host : k # h => sort'[k] = sort[k]
  <2>1. ArgumentsOf(t) /\ LocalsOf(t)
    BY <1>1 DEF Arguments, Locals
  <2>2. Target(t) \in Guest
    BY <1>1, <1>3, <2>1, Sets DEF Target, LocalsOf, LockTypeOK
  <2> QED BY <1>1, <1>2, <2>1, <2>2 DEF LockTypeOK
<1>5. /\ Others(t) /\ raw'[t] = h /\ pc'[t] = (IF pc[t] = "calloc" THEN "cstore" ELSE "mstore")
  BY <1>1, <1>2, <1>3 DEF Others, LockTypeOK
<1>6. Arguments' /\ Locals'
  <2>1. ArgumentsOf(t)'
    BY <1>3, <1>4, <1>5 DEF ArgumentsOf
  <2>2. LocalsOf(t)'
    BY <1>3, <1>4, <1>5 DEF LocalsOf, Creating
  <2> QED BY <1>1, <1>5, <2>1, <2>2, OthersKeep
<1>7. Tenure' /\ \A u \in Thread, k \in Guest : Uses(u, k)' <=> Uses(u, k)
  BY <1>1, <1>3, <1>5, MovesTenure
<1>8. Words'
  BY <1>1, <1>3, <1>5, <1>7 DEF Words, Others
<1>9. \* The address was in nobody's hands.
      /\ \A g \in Guest : slot[g] # h
      /\ \A u \in Thread : hm[u] # h /\ hc[u] # h /\ raw[u] # h
  <2>1. \A g \in Guest : slot[g] # h
    BY <1>1, <1>2, SortOf DEF Live
  <2>2. ASSUME NEW u \in Thread PROVE hm[u] # h /\ hc[u] # h /\ raw[u] # h
    <3>1. ArgumentsOf(u) /\ LocalsOf(u)
      BY <1>1 DEF Arguments, Locals
    <3>2. hm[u] \in Host => obj[u] \in Guest
      BY <1>1, <3>1, Apart DEF LocalsOf, LockTypeOK
    <3>3. raw[u] \in Host => Target(u) \in Guest
      BY <1>1, <3>1, Sets, Apart DEF LocalsOf, Target, LockTypeOK, Creating
    <3> QED BY <1>1, <1>2, <3>2, <3>3, SortOf DEF Live
  <2> QED BY <2>1, <2>2
<1>10. \A u \in Thread : Target(u)' = Target(u)
  BY <1>3, <1>5 DEF Target, Others
<1>11. Live'
  BY <1>1, <1>3, <1>4, <1>5, <1>9, <1>10 DEF Live, Others
<1>12. Private'
  BY <1>1, <1>3, <1>5, <1>9 DEF Private, Others
<1> QED BY <1>6, <1>7, <1>8, <1>11, <1>12

LEMMA AllocateFailsKeeps ==
  ASSUME AInv, NEW t \in Thread, AllocateFails(t)
  PROVE  Arguments' /\ Locals' /\ Tenure' /\ Words' /\ Live' /\ Private'
<1>1. LockTypeOK /\ Arguments /\ Locals /\ Tenure /\ Words /\ Live /\ Private
  BY DEF AInv
<1>2. /\ \/ pc[t] = "calloc" /\ pc' = [pc EXCEPT ![t] = AfterCond(t)]
         \/ pc[t] = "malloc" /\ pc' = [pc EXCEPT ![t] = "act"]
      /\ raw' = [raw EXCEPT ![t] = NoHost]
      /\ UNCHANGED <<slot, life, sort, op, cnd, obj, hc, hm>>
  BY DEF AllocateFails, Goto, memory, hosts, args
<1>3. /\ ArgumentsOf(t) /\ LocalsOf(t)
      /\ pc[t] = "calloc" => pc'[t] = AfterCond(t)
      /\ pc[t] = "malloc" => pc'[t] = "act"
      /\ Others(t) /\ raw'[t] = NoHost
  BY <1>1, <1>2 DEF Arguments, Locals, Others, LockTypeOK
<1>4. pc[t] \in {"calloc", "malloc"} /\ pc'[t] \in {"mread", "act"} /\ op[t] \notin NoCreate
  BY <1>2, <1>3 DEF AfterCond, LocalsOf, Creating
<1>5. Arguments' /\ Locals'
  <2>1. ArgumentsOf(t)'
    BY <1>2, <1>3, <1>4 DEF ArgumentsOf
  <2>2. LocalsOf(t)'
    BY <1>2, <1>3, <1>4 DEF LocalsOf, Creating, AfterCond
  <2> QED BY <1>1, <1>3, <2>1, <2>2, OthersKeep
<1>6. Tenure' /\ \A u \in Thread, k \in Guest : Uses(u, k)' <=> Uses(u, k)
  BY <1>1, <1>2, <1>3, <1>4, MovesTenure
<1>7. Words'
  <2>1. op[t] \in Changes => \/ pc[t] = "calloc" /\ obj[t] = NoGuest /\ cnd[t] \in Guest
                             \/ pc[t] = "malloc" /\ cnd[t] = NoGuest /\ obj[t] \in Guest
    BY <1>1, <1>3, <1>4, OneArgument, Apart, Sets DEF LocalsOf
  <2>2. op[t] \in Changes => op[t] \in InitOp
    BY <1>4, OpNames DEF Changes
  <2>3. /\ hc[t] = NoHost \/ cnd[t] # NoGuest
        /\ pc[t] = "calloc" => hc[t] = NoHost
        /\ pc[t] = "malloc" => hm[t] = NoHost
    BY <1>3 DEF LocalsOf
  <2>4. op[t] \in Changes => \A k \in Guest : k \in {cnd[t], obj[t]} => slot[k] \notin Host
    BY <1>1, <1>4, <2>2 DEF Words, Uses
  <2> QED BY <1>1, <1>2, <1>3, <1>4, <1>6, <2>1, <2>3, <2>4 DEF Words, Others
<1>8. \A u \in Thread : u # t => Target(u)' = Target(u)
  BY <1>2, <1>3 DEF Target, Others
<1>9. Live'
  BY <1>1, <1>2, <1>3, <1>8, Apart DEF Live, Others
<1>10. Private'
  BY <1>1, <1>2, <1>3, Apart DEF Private, Others
<1> QED BY <1>5, <1>6, <1>7, <1>9, <1>10

\* The word gets the address, and the thread goes on with it.
LEMMA StoreKeeps ==
  ASSUME AInv, NEW t \in Thread, Store(t)
  PROVE  Arguments' /\ Locals' /\ Tenure' /\ Words' /\ Live' /\ Private'
<1>1. LockTypeOK /\ Arguments /\ Locals /\ Tenure /\ Words /\ Live /\ Private
  BY DEF AInv
<1> DEFINE h == raw[t]
           g == Target(t)
<1>2. /\ \/ /\ pc[t] = "cstore" /\ hc' = [hc EXCEPT ![t] = h] /\ hm' = hm
            /\ pc' = [pc EXCEPT ![t] = AfterCond(t)]
         \/ /\ pc[t] = "mstore" /\ hm' = [hm EXCEPT ![t] = h] /\ hc' = hc
            /\ pc' = [pc EXCEPT ![t] = "act"]
      /\ slot' = [slot EXCEPT ![g] = h]
      /\ raw' = [raw EXCEPT ![t] = NoHost]
      /\ UNCHANGED <<life, sort, op, cnd, obj>>
  BY DEF Store, Goto, hosts, args
<1>3. /\ ArgumentsOf(t) /\ LocalsOf(t) /\ h \in Host /\ g \in Guest
      /\ sort[h] = Sort(g) /\ op[t] \notin NoCreate /\ pc[t] \in {"cstore", "mstore"}
      /\ g = IF pc[t] = "cstore" THEN cnd[t] ELSE obj[t]
  <2>1. ArgumentsOf(t) /\ LocalsOf(t)
    BY <1>1 DEF Arguments, Locals
  <2>2. h \in Host /\ op[t] \notin NoCreate /\ pc[t] \in {"cstore", "mstore"}
    BY <1>2, <2>1 DEF LocalsOf, Creating
  <2>3. g \in Guest /\ g = IF pc[t] = "cstore" THEN cnd[t] ELSE obj[t]
    BY <1>1, <2>1, <2>2, Sets DEF LocalsOf, Target, LockTypeOK
  <2> QED BY <1>1, <2>1, <2>2, <2>3 DEF Live
<1> HIDE DEF h, g
<1>4. /\ Others(t) /\ raw'[t] = NoHost
      /\ slot'[g] = h /\ \A k \in Guest : k # g => slot'[k] = slot[k]
      /\ pc[t] = "cstore" => hc'[t] = h /\ hm'[t] = hm[t] /\ pc'[t] = AfterCond(t)
      /\ pc[t] = "mstore" => hm'[t] = h /\ hc'[t] = hc[t] /\ pc'[t] = "act"
  BY <1>1, <1>2, <1>3 DEF Others, LockTypeOK
<1>5. pc'[t] \in {"mread", "act"}
  BY <1>3, <1>4 DEF AfterCond
<1>6. Arguments' /\ Locals'
  <2>1. ArgumentsOf(t)'
    BY <1>2, <1>3, <1>5 DEF ArgumentsOf
  <2>2. LocalsOf(t)'
    BY <1>2, <1>3, <1>4, <1>5, Apart DEF LocalsOf, Creating, AfterCond
  <2> QED BY <1>1, <1>4, <2>1, <2>2, OthersKeep
<1>7. Tenure' /\ \A u \in Thread, k \in Guest : Uses(u, k)' <=> Uses(u, k)
  <2>1. pc[t] # "idle" /\ pc'[t] # "idle"
    BY <1>3, <1>5
  <2> QED BY <1>1, <1>2, <1>4, <2>1, MovesTenure
<1>8. Uses(t, g)
  BY <1>3 DEF Uses
<1>9. op[t] \in Changes => /\ op[t] \in InitOp
                           /\ \A u \in Thread : Uses(u, g) => u = t
                           /\ \A k \in Guest : Uses(t, k) => k = g
                           /\ cnd[t] = NoGuest \/ obj[t] = NoGuest
  <2>1. op[t] \in Changes => op[t] \in InitOp
    BY <1>3, OpNames DEF Changes
  <2> QED BY <1>1, <1>3, <1>8, <2>1, OneArgument, Apart DEF Tenure, Uses
<1>10. \* Who uses the word while it is stored, uses a ready object or is t.
       \A u \in Thread : Uses(u, g) => u = t \/ op[u] \notin Changes
  BY <1>1, <1>3, <1>8 DEF Tenure
<1>11. Words'
  <2>1. h # Wild /\ life[g] \in {"changing", "ready"}
    BY <1>1, <1>3, <1>8, Apart DEF Tenure
  <2>2. /\ (\A k \in Guest : life[k] = "ready" => slot[k] # Wild)'
        /\ (\A k \in Guest : life[k] \in {"absent", "raw"} => slot[k] \notin Host)'
    BY <1>1, <1>2, <1>4, <2>1 DEF Words
  <2>3. (\A u \in Thread, k \in Guest : Uses(u, k) /\ pc[u] # "zero" => slot[k] # Wild)'
    BY <1>1, <1>3, <1>4, <1>7, <2>1 DEF Words, Others
  <2>4. (\A u \in Thread, k \in Guest :
           Uses(u, k) /\ op[u] \in InitOp /\ pc[u] # "act" => slot[k] \notin Host)'
    <3> SUFFICES ASSUME NEW u \in Thread, NEW k \in Guest,
                        Uses(u, k), op[u] \in InitOp, pc'[u] # "act"
                 PROVE  slot'[k] \notin Host
      BY <1>2, <1>7
    <3>1. u # t
      <4>1. op[t] \in InitOp => pc'[t] = "act"
        BY <1>3, <1>4, <1>9, Apart DEF Changes, AfterCond
      <4> QED BY <4>1
    <3>2. k # g
      BY <1>10, <3>1 DEF Changes
    <3> QED BY <1>1, <1>4, <3>1, <3>2 DEF Words, Others
  <2>5. ASSUME NEW u \in Thread, op'[u] \in Changes, pc'[u] = "act"
        PROVE  (/\ obj[u] # NoGuest =>
                     IF hm[u] = NoHost THEN slot[obj[u]] \notin Host ELSE slot[obj[u]] = hm[u]
                /\ cnd[u] # NoGuest =>
                     IF hc[u] = NoHost THEN slot[cnd[u]] \notin Host ELSE slot[cnd[u]] = hc[u])'
    <3>1. CASE u = t
      BY <1>2, <1>3, <1>4, <1>9, <2>5, <3>1, Apart
    <3>2. CASE u # t
      <4>1. (obj[u] # NoGuest => obj[u] \in Guest) /\ (cnd[u] # NoGuest => cnd[u] \in Guest)
        BY <1>1, Sets DEF LockTypeOK
      <4>2. pc[u] = "act" /\ op[u] \in Changes
        BY <1>2, <1>4, <2>5, <3>2 DEF Others
      <4>3. obj[u] # g /\ cnd[u] # g
        BY <1>10, <3>2, <4>2 DEF Uses
      <4> QED BY <1>1, <1>2, <1>4, <3>2, <4>1, <4>2, <4>3 DEF Words, Others
    <3> QED BY <3>1, <3>2
  <2> QED BY <2>2, <2>3, <2>4, <2>5 DEF Words
<1>12. \A u \in Thread : u # t => Target(u)' = Target(u)
  BY <1>2, <1>4 DEF Target, Others
<1>13. /\ \A k \in Guest : slot[k] # h
       /\ \A u \in Thread : hm[u] # h /\ hc[u] # h /\ (u # t => raw[u] # h)
  BY <1>1, <1>3 DEF Private, h
<1>14. pc[t] = "cstore" => Sort(g) = "cond"
  BY <1>1, <1>3, Apart, SortOf, Sets DEF LockTypeOK
<1>15. Live'
  BY <1>1, <1>2, <1>3, <1>4, <1>12, <1>13, <1>14, Apart DEF Live, Others
<1>16. Private'
  BY <1>1, <1>2, <1>3, <1>4, <1>13, Apart DEF Private, Others
<1> QED BY <1>6, <1>7, <1>11, <1>15, <1>16

-----------------------------------------------------------------------------
(* Waiting on a condition.                                                 *)

LEMMA WaitKeeps ==
  ASSUME AInv, NEW t \in Thread, WaitBlocks(t) \/ WaitExpires(t)
  PROVE  Arguments' /\ Locals' /\ Tenure' /\ Words' /\ Live' /\ Private'
<1>1. LockTypeOK /\ Arguments /\ Locals /\ Tenure /\ Words /\ Live /\ Private
  BY DEF AInv
<1>2. /\ pc' = [pc EXCEPT ![t] = pc'[t]] /\ pc'[t] \in {"waiting", "reacquire"}
      /\ UNCHANGED <<slot, life, sort, op, cnd, obj, raw, hc, hm>>
      /\ op[t] \in WaitOp /\ hc[t] \in Host /\ hm[t] \in Host
      /\ pc[t] \in {"act", "waiting"} /\ raw[t] = NoHost
  BY <1>1 DEF WaitBlocks, WaitExpires, Give, Goto, memory, hosts, args, handles, LockTypeOK,
     Locals, LocalsOf, Creating
<1>3. Others(t) /\ ArgumentsOf(t) /\ LocalsOf(t)
  BY <1>1, <1>2 DEF Others, LockTypeOK, Arguments, Locals
<1>4. Arguments' /\ Locals'
  <2>1. ArgumentsOf(t)'
    BY <1>2, <1>3 DEF ArgumentsOf
  <2>2. LocalsOf(t)'
    BY <1>2, <1>3 DEF LocalsOf, Creating
  <2> QED BY <1>1, <1>3, <2>1, <2>2, OthersKeep
<1>5. Tenure' /\ \A u \in Thread, k \in Guest : Uses(u, k)' <=> Uses(u, k)
  BY <1>1, <1>2, <1>3, MovesTenure
<1>6. Words'
  <2>1. op[t] \notin Changes /\ op[t] \notin InitOp
    BY <1>2, OpNames DEF Changes
  <2>2. /\ (\A k \in Guest : life[k] = "ready" => slot[k] # Wild)'
        /\ (\A k \in Guest : life[k] \in {"absent", "raw"} => slot[k] \notin Host)'
    BY <1>1, <1>2 DEF Words
  <2>3. ASSUME NEW u \in Thread, NEW k \in Guest, Uses(u, k)'
        PROVE  /\ pc'[u] # "zero" => slot'[k] # Wild
               /\ op'[u] \in InitOp /\ pc'[u] # "act" => slot'[k] \notin Host
    BY <1>1, <1>2, <1>3, <1>5, <2>1, <2>3 DEF Words, Others
  <2>4. ASSUME NEW u \in Thread, op'[u] \in Changes, pc'[u] = "act"
        PROVE  u # t /\ pc[u] = "act" /\ op[u] \in Changes
    BY <1>2, <1>3, <2>1, <2>4 DEF Others
  <2> QED BY <1>1, <1>2, <2>2, <2>3, <2>4 DEF Words
<1>7. \A u \in Thread : raw[u] \in Host => Target(u)' = Target(u)
  BY <1>2, <1>3, Apart DEF Target, Others
<1>8. Live'
  BY <1>1, <1>2, <1>3, <1>7 DEF Live
<1>9. Private'
  BY <1>1, <1>2 DEF Private
<1> QED BY <1>4, <1>5, <1>6, <1>8, <1>9

\* A signal or a broadcast: t returns, and waiters go on.
LEMMA WakeFrame ==
  ASSUME LockTypeOK, Arguments, Locals, NEW t \in Thread, Wake(t)
  PROVE  /\ UNCHANGED <<slot, life, gtype, sort, type, owner, depth, obj, raw, hm, held>>
         /\ op[t] \in CondOp /\ pc[t] = "act"
         /\ op'[t] = "none" /\ cnd'[t] = NoGuest /\ obj'[t] = NoGuest /\ pc'[t] = "idle"
         /\ raw'[t] = NoHost /\ hc'[t] = NoHost /\ hm'[t] = NoHost
         /\ \A u \in Thread : u # t =>
              /\ pc'[u] = pc[u] \/ (pc[u] = "waiting" /\ pc'[u] = "reacquire")
              /\ op'[u] = op[u] /\ cnd'[u] = cnd[u] /\ hc'[u] = hc[u]
         /\ \A g \in Guest : ~Uses(t, g)'
         /\ \A u \in Thread, g \in Guest : u # t => (Uses(u, g)' <=> Uses(u, g))
<1>1. /\ UNCHANGED <<slot, life, gtype, sort, type, owner, depth, obj, raw, hm, held>>
      /\ op[t] \in CondOp /\ pc[t] = "act"
  BY DEF Wake, memory, hosts, CondOp
<1>2. raw[t] = NoHost /\ hm[t] = NoHost /\ obj[t] = NoGuest
  BY <1>1 DEF Arguments, ArgumentsOf, Locals, LocalsOf, Creating
<1>3. /\ op' = [op EXCEPT ![t] = "none"] /\ cnd' = [cnd EXCEPT ![t] = NoGuest]
      /\ hc' = [hc EXCEPT ![t] = NoHost]
      /\ \E W \in SUBSET Waiters(hc[t]) :
           pc' = [u \in Thread |-> IF u = t THEN "idle" ELSE IF u \in W THEN "reacquire" ELSE pc[u]]
  BY DEF Wake
<1>4. pc'[t] = "idle" /\ \A u \in Thread : u # t =>
        pc'[u] = pc[u] \/ (pc[u] = "waiting" /\ pc'[u] = "reacquire")
  BY <1>3 DEF Waiters
<1>5. /\ op'[t] = "none" /\ cnd'[t] = NoGuest /\ hc'[t] = NoHost
      /\ \A u \in Thread : u # t => op'[u] = op[u] /\ cnd'[u] = cnd[u] /\ hc'[u] = hc[u]
  BY <1>3 DEF LockTypeOK
<1> QED BY <1>1, <1>2, <1>4, <1>5 DEF Uses

LEMMA WakeKeeps ==
  ASSUME AInv, NEW t \in Thread, Wake(t)
  PROVE  Arguments' /\ Locals' /\ Tenure' /\ Words' /\ Live' /\ Private'
<1>1. LockTypeOK /\ Arguments /\ Locals /\ Tenure /\ Words /\ Live /\ Private
  BY DEF AInv
<1>2. Arguments' /\ Locals'
  <2> SUFFICES ASSUME NEW u \in Thread PROVE ArgumentsOf(u)' /\ LocalsOf(u)'
    BY DEF Arguments, Locals
  <2>1. CASE u = t
    BY <1>1, <2>1, WakeFrame, OpNames DEF ArgumentsOf, LocalsOf, Creating
  <2>2. CASE u # t
    BY <1>1, <2>2, WakeFrame DEF Arguments, Locals, ArgumentsOf, LocalsOf, Creating
  <2> QED BY <2>1, <2>2
<1>3. Tenure'
  BY <1>1, WakeFrame DEF Tenure
<1>4. Words'
  BY <1>1, WakeFrame, OpNames DEF Words
<1>5. \A u \in Thread : raw[u] \in Host => Target(u)' = Target(u)
  BY <1>1, WakeFrame, Apart DEF Target
<1>6. Live'
  BY <1>1, <1>5, WakeFrame, Apart DEF Live
<1>7. Private'
  BY <1>1, WakeFrame, Apart DEF Private
<1> QED BY <1>2, <1>3, <1>4, <1>6, <1>7

-----------------------------------------------------------------------------
(* The first invariant.                                                    *)

\* What is in guest memory before the guest runs.
LEMMA FirstWords ==
  LockInit => \A g \in Guest :
    /\ slot[g] \in Small \cup {Wild} /\ slot[g] \notin Host
    /\ life[g] = "ready" => slot[g] # Wild
    /\ life[g] = "ready" /\ g \in Mutex => slot[g] = Initialiser(gtype[g])
<1> SUFFICES ASSUME LockInit, NEW g \in Guest
             PROVE  /\ slot[g] \in Small \cup {Wild} /\ slot[g] \notin Host
                    /\ life[g] = "ready" => slot[g] # Wild
                    /\ life[g] = "ready" /\ g \in Mutex => slot[g] = Initialiser(gtype[g])
  OBVIOUS
<1>1. slot[g] = IF life[g] # "ready" THEN Wild ELSE IF g \in Mutex THEN Initialiser(gtype[g]) ELSE 0
  BY DEF LockInit, Init
<1>2. g \in Mutex => Initialiser(gtype[g]) \in Small
  BY Numbers DEF LockInit, Init
<1> QED BY <1>1, <1>2, Apart

LEMMA AInvInit == LockInit => AInv
<1> SUFFICES ASSUME LockInit PROVE AInv
  OBVIOUS
<1>1. LockTypeOK
  <2>1. slot \in [Guest -> Host \cup Small \cup {Wild}]
    <3>1. \A g \in Guest : slot[g] \in Host \cup Small \cup {Wild}
      BY FirstWords
    <3>2. slot = [g \in Guest |-> slot[g]]
      BY DEF LockInit, Init
    <3> QED BY <3>1, <3>2
  <2>2. life \in [Guest -> {"absent", "raw", "changing", "ready"}]
    BY DEF LockInit, Init
  <2>3. type \in [Host -> HostType]
    BY DEF LockInit, Init, HostType
  <2>4. raw \in [Thread -> Host \cup Small \cup {NoHost}]
    BY DEF LockInit, Init
  <2>5. gtype \in [Mutex -> Type]
    BY DEF LockInit, Init
  <2> QED BY <2>1, <2>2, <2>3, <2>4, <2>5 DEF LockTypeOK, LockInit, Init
<1>2. \A t \in Thread : /\ pc[t] = "idle" /\ op[t] = "none" /\ cnd[t] = NoGuest /\ obj[t] = NoGuest
                        /\ raw[t] = NoHost /\ hc[t] = NoHost /\ hm[t] = NoHost
  BY DEF LockInit, Init
<1>3. \A g \in Guest : slot[g] \notin Host /\ (life[g] = "ready" => slot[g] # Wild)
  BY FirstWords
<1>4. Arguments
  BY <1>2, OpNames DEF Arguments, ArgumentsOf
<1>5. Locals
  BY <1>2 DEF Locals, LocalsOf, Creating
<1>6. Tenure
  BY <1>2 DEF Tenure, Uses
<1>7. Words
  BY <1>2, <1>3 DEF Words, Uses
<1>8. Live
  BY <1>2, <1>3, Apart DEF Live
<1>9. Private
  BY <1>2, <1>3, Apart DEF Private
<1> QED BY <1>1, <1>4, <1>5, <1>6, <1>7, <1>8, <1>9 DEF AInv

LEMMA AInvStep == AInv /\ [LockNext]_lockvars => AInv'
<1> SUFFICES ASSUME AInv, [LockNext]_lockvars PROVE AInv'
  OBVIOUS
<1>1. LockTypeOK /\ Arguments /\ Locals /\ Tenure /\ Words /\ Live /\ Private
  BY DEF AInv
<1>2. CASE UNCHANGED lockvars
  BY <1>1, <1>2 DEF AInv, LockTypeOK, Arguments, ArgumentsOf, Locals, LocalsOf, Tenure, Words, Live,
     Private, Uses, Target, lockvars, vars, memory, hosts, args, handles, locks, history
<1>3. ASSUME NEW t \in Thread, SyncStep(t) \/ LockCall(t) \/ LockProceed(t) PROVE AInv'
  <2>1. CASE IsCall(t)
    <3>1. LockTypeOK'
      BY <1>1, <2>1, CallTypes
    <3>2. PICK o, c, m : Begins(t, o, c, m)
      BY <2>1, CallsBegin
    <3> QED BY <1>1, <3>1, <3>2, BeginArguments, BeginTenure, BeginLive DEF AInv
  <2>2. CASE SyncStep(t) /\ Proceed(t)
    <3>1. LockTypeOK'
      BY <1>1, <2>2, ProceedTypes
    <3>2. CASE \/ LockTakes(t) \/ LockRefused(t) \/ UnlockReturns(t) \/ WaitReturns(t)
      <4>1. Return(t) /\ UNCHANGED <<slot, life, sort>> /\ op[t] \notin Changes
        <5>1. Return(t) /\ UNCHANGED <<slot, life, sort>>
          BY <3>2 DEF LockTakes, LockRefused, UnlockReturns, WaitReturns, Take, Give, memory, hosts
        <5>2. op[t] \in {"lock", "trylock", "unlock"} \/ op[t] \in WaitOp
          BY <1>1, <3>2 DEF LockTakes, LockRefused, UnlockReturns, WaitReturns, Acting, Locals, LocalsOf
        <5> QED BY <5>1, <5>2 DEF Changes, InitOp, DestroyOp, WaitOp
      <4> QED BY <1>1, <3>1, <4>1, ReturnKeeps DEF AInv
    <3> QED BY <1>1, <2>2, <3>1, <3>2, ZeroKeeps, ReadKeeps, AllocateFailsKeeps, StoreKeeps,
               InitReturnKeeps, DestroyKeeps, WaitKeeps, WakeKeeps DEF AInv, Proceed
  <2>3. CASE LockProceed(t)
    <3>1. LockTypeOK'
      BY <1>1, <2>3, LockProceedTypes
    <3>2. CASE AllocateLock(t)
      BY <1>1, <3>1, <3>2, AllocateKeeps DEF AInv, AllocateLock
    <3>3. CASE ~AllocateLock(t)
      <4>1. Return(t) /\ UNCHANGED <<slot, life, sort>>
        BY <2>3, <3>3 DEF LockProceed, ReadLock, WriteLock, LockDeadlocks, UnlockRwlock, SemaphoreTaken,
           SemaphoreReturns, SemaphorePosted, memory, hosts
      <4>2. op[t] \in {"rdlock", "wrlock", "rwunlock", "semwait", "semtrywait", "semtimedwait",
                       "semvalue", "sempost"}
        BY <2>3, <3>3 DEF LockProceed, ReadLock, WriteLock, LockDeadlocks, UnlockRwlock, SemaphoreTaken,
           SemaphoreReturns, SemaphorePosted, Reads, Writes, Refuses, Waits, Holds
      <4>3. op[t] \notin Changes
        BY <4>2 DEF Changes, InitOp, DestroyOp
      <4> QED BY <1>1, <3>1, <4>1, <4>3, ReturnKeeps DEF AInv
    <3> QED BY <3>2, <3>3
  <2> QED BY <1>3, <2>1, <2>2, <2>3 DEF IsCall, SyncStep
<1>4. CASE Rest
  BY <1>2, <1>4 DEF Rest
<1> QED BY <1>2, <1>3, <1>4 DEF LockNext

(***************************************************************************)
(* Whatever guest threads do, racing first calls included, the bridge's    *)
(* state keeps its shape: what a thread knows fits the function it is in,  *)
(* each word and each handle is that of a live object of the right sort,   *)
(* and a host object belongs to one guest object.                          *)
(***************************************************************************)
THEOREM AInvAlways == LockSpec => []AInv
<1> QED BY AInvInit, AInvStep, PTL DEF LockSpec

\* Every variable of the two bridges keeps its type, with no bound on counts.
THEOREM LockTypesAlways == LockSpec => []LockTypeOK
<1>1. AInv => LockTypeOK
  BY DEF AInv
<1> QED BY <1>1, AInvAlways, PTL

(***************************************************************************)
(* The bridge never hands the host a freed object, one of another sort, or *)
(* what was in uninitialised guest memory, even when two threads are in    *)
(* the first call on the same static object (compat_mutex_get and the      *)
(* other getters take no lock).                                            *)
(***************************************************************************)
THEOREM HandlesAreLive == LockSpec => []HandlesLive
<1>1. AInv => HandlesLive
  BY DEF AInv, LockTypeOK, Live, HandlesLive
<1> QED BY <1>1, AInvAlways, PTL

-----------------------------------------------------------------------------
(* The second invariant.  Two frames: what words and handles say stands    *)
(* (Shape), and what is held stands (Holding).                             *)

\* A step may make an object ready only if its word names a host object.
ReadyNamed == \A g \in Guest : life'[g] = "ready" => life[g] = "ready" \/ slot[g] \in Host

LEMMA ShapeKept ==
  ASSUME AInv, Shape, NEW t \in Thread, Others(t), UNCHANGED <<slot, sort, type, gtype>>, ReadyNamed,
         \A g \in Guest : Uses(t, g)' => Uses(t, g),
         hm'[t] \in Host => slot[obj'[t]] = hm'[t],
         hc'[t] \in Host => slot[cnd'[t]] = hc'[t],
         pc'[t] \in Creating => slot[Target(t)'] \notin Host,
         raw[t] \notin Host,
         op'[t] = "init" /\ pc'[t] \notin {"zero", "act"} => slot[obj'[t]] = 0,
         pc'[t] = "malloc" => raw'[t] = slot[obj'[t]],
         pc'[t] # "mstore"
  PROVE  Shape'
<1>1. FirstAlone /\ Named /\ NotLeaked /\ TypesAgree
  BY DEF Shape
<1>2. \A u \in Thread, g \in Guest : Uses(u, g)' => Uses(u, g)
  BY DEF Others, Uses
<1>3. FirstAlone'
  BY <1>1, <1>2 DEF FirstAlone
<1>4. Named'
  <2> SUFFICES ASSUME NEW u \in Thread, u # t
               PROVE  (/\ hm[u] \in Host => slot[obj[u]] = hm[u]
                       /\ hc[u] \in Host => slot[cnd[u]] = hc[u]
                       /\ pc[u] \in Creating => slot[Target(u)] \notin Host)'
    BY DEF Named
  <2>1. Target(u)' = Target(u)
    BY DEF Others, Target
  <2> QED BY <1>1, <2>1 DEF Named, Others
<1>5. NotLeaked'
  BY <1>1 DEF NotLeaked, Others
<1>6. TypesAgree'
  <2>1. (\A m \in Mutex : /\ life[m] = "ready" /\ slot[m] \notin Host => slot[m] = Initialiser(gtype[m])
                          /\ slot[m] \in Host => type[slot[m]] = Meant(gtype[m]))'
    BY <1>1, Sets DEF TypesAgree, ReadyNamed
  <2>2. (\A u \in Thread :
           /\ op[u] = "init" /\ pc[u] \notin {"zero", "act"} => slot[obj[u]] = 0
           /\ pc[u] = "malloc" => raw[u] = slot[obj[u]]
           /\ pc[u] = "mstore" /\ obj[u] \in Mutex => type[raw[u]] = Meant(gtype[obj[u]]))'
    BY <1>1 DEF TypesAgree, Others
  <2> QED BY <2>1, <2>2 DEF TypesAgree
<1> QED BY <1>3, <1>4, <1>5, <1>6 DEF Shape

LEMMA HoldingKept ==
  ASSUME LockTypeOK, Holding,
         UNCHANGED <<slot, gtype, sort, owner, depth, held, readers, count, reading, writing, tokens>>,
         ReadyNamed,
         \A u \in Thread :
           /\ raw'[u] \in Host => raw'[u] = raw[u]
           /\ pc'[u] = "mstore" => pc[u] = "mstore" /\ obj'[u] = obj[u] /\ raw'[u] = raw[u]
           /\ op'[u] # "none" =>
                /\ op'[u] = op[u] /\ obj'[u] = obj[u]
                /\ op[u] = "seminit" => initial'[u] = initial[u]
                /\ pc'[u] \in {"waiting", "reacquire"} <=> pc[u] \in {"waiting", "reacquire"}
  PROVE  Holding'
<1>1. Unheld /\ MutexHeld /\ RwlockHeld /\ Counted
  BY DEF Holding
<1>2. Unheld'
  BY <1>1 DEF Unheld, Fresh
<1>3. MutexHeld'
  BY <1>1 DEF MutexHeld, WaitOp
<1>4. RwlockHeld'
  BY <1>1 DEF RwlockHeld
<1>5. Counted'
  BY <1>1, Sets DEF Counted, ReadyNamed
<1> QED BY <1>2, <1>3, <1>4, <1>5 DEF Holding

\* A function returns: the words and handles of the others stand.
LEMMA ReturnShape ==
  ASSUME AInv, Shape, NEW t \in Thread, Return(t), UNCHANGED <<slot, sort, type, gtype>>, ReadyNamed,
         pc[t] \notin Creating
  PROVE  Shape'
<1>1. LockTypeOK /\ Locals
  BY DEF AInv
<1>2. raw[t] = NoHost
  BY <1>1 DEF Locals, LocalsOf
<1>3. /\ Others(t) /\ op'[t] = "none" /\ pc'[t] = "idle" /\ hc'[t] = NoHost /\ hm'[t] = NoHost
      /\ \A g \in Guest : ~Uses(t, g)'
  BY <1>1, ReturnFrame
<1> QED BY <1>2, <1>3, Apart, ShapeKept DEF Creating

\* A function returns, and nothing is held or counted otherwise.
LEMMA ReturnHolding ==
  ASSUME AInv, Holding, NEW t \in Thread, Return(t), UNCHANGED <<slot, gtype, hosts, held, locks, history>>,
         ReadyNamed, \A u \in Thread : u # t => initial'[u] = initial[u]
  PROVE  Holding'
<1>1. LockTypeOK
  BY DEF AInv
<1> QED BY <1>1, ReturnFrame, HoldingKept, Apart DEF Others, hosts, locks, history

\* The functions that return with nothing done, and the end of an init.
LEMMA QuietReturns ==
  ASSUME AInv, BInv, NEW t \in Thread,
         \/ /\ SyncStep(t)
            /\ \/ ReturnError(t) \/ InitReturns(t) \/ DestroyBusy(t) \/ LockRefused(t)
               \/ UnlockReturns(t) /\ ~UnlockAllowed(t, hm[t])
         \/ LockDeadlocks(t) \/ SemaphoreReturns(t)
  PROVE  BInv'
<1>1. LockTypeOK /\ Arguments /\ Locals /\ Tenure /\ Words /\ Live /\ Private /\ Shape /\ Holding
  BY DEF AInv, BInv
<1>2. /\ Return(t) /\ pc[t] = "act"
      /\ UNCHANGED <<slot, gtype, hosts, held, locks, history>>
      /\ \A u \in Thread : u # t => initial'[u] = initial[u]
  BY <1>1 DEF SyncStep, ReturnError, InitReturns, DestroyBusy, LockRefused, UnlockReturns, Acting,
     LockDeadlocks, SemaphoreReturns, Refuses, Waits, Holds, memory, LockTypeOK
<1>3. ReadyNamed
  <2>1. CASE ReturnError(t)
    BY <1>1, <2>1 DEF ReturnError, ReadyNamed
  <2>2. CASE InitReturns(t)
    <3>1. op[t] \in Changes
      BY <2>2 DEF InitReturns, Changes
    <3>2. \/ hm[t] # NoHost /\ obj[t] \in Guest /\ life' = [life EXCEPT ![obj[t]] = "ready"]
          \/ hc[t] # NoHost /\ cnd[t] \in Guest /\ life' = [life EXCEPT ![cnd[t]] = "ready"]
      BY <1>1, <2>2, Sets DEF InitReturns, Locals, LocalsOf, LockTypeOK
    <3>3. /\ obj[t] # NoGuest => IF hm[t] = NoHost THEN slot[obj[t]] \notin Host ELSE slot[obj[t]] = hm[t]
          /\ cnd[t] # NoGuest => IF hc[t] = NoHost THEN slot[cnd[t]] \notin Host ELSE slot[cnd[t]] = hc[t]
      BY <1>1, <1>2, <3>1 DEF Words
    <3>4. hm[t] \in Host \cup {NoHost} /\ hc[t] \in Host \cup {NoHost}
      BY <1>1 DEF Live, LockTypeOK
    <3>5. CASE hm[t] # NoHost /\ obj[t] \in Guest /\ life' = [life EXCEPT ![obj[t]] = "ready"]
      BY <1>1, <3>3, <3>4, <3>5, Apart DEF ReadyNamed, LockTypeOK
    <3>6. CASE hc[t] # NoHost /\ cnd[t] \in Guest /\ life' = [life EXCEPT ![cnd[t]] = "ready"]
      BY <1>1, <3>3, <3>4, <3>6, Apart DEF ReadyNamed, LockTypeOK
    <3> QED BY <3>2, <3>5, <3>6
  <2>3. CASE DestroyBusy(t)
    <3>1. /\ op[t] \in Changes /\ hm[t] \in Host /\ obj[t] \in Guest
          /\ life' = [life EXCEPT ![obj[t]] = "ready"]
      BY <1>1, <2>3, Sets DEF DestroyBusy, Acting, Changes, DestroyOp, Arguments, ArgumentsOf, MutexOp
    <3>2. slot[obj[t]] \in Host
      BY <1>1, <1>2, <3>1, Apart DEF Words
    <3> QED BY <1>1, <3>1, <3>2 DEF ReadyNamed, LockTypeOK
  <2>4. CASE life' = life
    BY <2>4 DEF ReadyNamed
  <2> QED BY <2>1, <2>2, <2>3, <2>4 DEF LockRefused, UnlockReturns, LockDeadlocks, SemaphoreReturns, memory
<1>4. Shape'
  BY <1>1, <1>2, <1>3, ReturnShape DEF hosts, Creating
<1>5. Holding'
  BY <1>1, <1>2, <1>3, ReturnHolding
<1> QED BY <1>4, <1>5 DEF BInv

\* A getter reads a word or fails, or a wait ends.
LEMMA QuietSteps ==
  ASSUME AInv, BInv, NEW t \in Thread, SyncStep(t),
         ReadCond(t) \/ ReadObject(t) \/ AllocateFails(t) \/ WaitExpires(t)
  PROVE  BInv'
<1>1. /\ LockTypeOK /\ Arguments /\ Locals /\ Tenure /\ Words /\ Live /\ Private /\ Shape /\ Holding
      /\ Named /\ TypesAgree /\ ArgumentsOf(t) /\ LocalsOf(t)
  BY DEF AInv, BInv, Arguments, Locals, Shape
<1>2. /\ UNCHANGED <<slot, gtype, life, sort, type, owner, depth, held, readers, count, reading, writing, tokens>>
      /\ UNCHANGED <<op, cnd, obj>>
  BY DEF SyncStep, ReadCond, ReadObject, AllocateFails, WaitExpires, memory, hosts, args, locks, history
<1>3. ReadyNamed
  BY <1>2 DEF ReadyNamed
<1>4. pc[t] # "idle" /\ raw[t] \notin Host /\ pc[t] \notin {"mstore", "cstore"}
  BY <1>1, Apart DEF ReadCond, ReadObject, AllocateFails, WaitExpires, LocalsOf, Creating
<1>5. /\ \A u \in Thread : u # t => initial'[u] = initial[u]
      /\ op[t] = "seminit" => initial'[t] = initial[t]
  BY <1>1, <1>2 DEF SyncStep, LockTypeOK
<1>6. Others(t)
  BY <1>1, <1>2 DEF Others, ReadCond, ReadObject, AllocateFails, WaitExpires, Goto, args, handles, LockTypeOK
<1>7. /\ pc'[t] \notin {"mstore", "cstore", "idle"} /\ raw'[t] \notin Host
      /\ op[t] # "none" => (pc'[t] \in {"waiting", "reacquire"} <=> pc[t] \in {"waiting", "reacquire"})
      /\ hm'[t] \in Host => slot[obj[t]] = hm'[t]
      /\ hc'[t] \in Host => slot[cnd[t]] = hc'[t]
      /\ pc'[t] = "calloc" => cnd[t] # NoGuest /\ slot[cnd[t]] \notin Host
      /\ pc'[t] = "malloc" => slot[obj[t]] \notin Host /\ raw'[t] = slot[obj[t]]
      /\ pc'[t] # "act" => pc[t] # "zero"
  <2>1. CASE ReadCond(t)
    <3>1. /\ pc[t] = "cread" /\ cnd[t] \in Guest /\ slot[cnd[t]] \in Host \cup Small \cup {Wild}
          /\ hm' = hm /\ hc[t] = NoHost /\ raw[t] = NoHost
      BY <1>1, <2>1, Sets DEF ReadCond, LocalsOf, Creating, LockTypeOK
    <3>2. \/ /\ slot[cnd[t]] \in Host \cup {Wild} /\ hc'[t] = slot[cnd[t]]
             /\ pc'[t] = AfterCond(t) /\ raw' = raw
          \/ /\ slot[cnd[t]] \notin Host /\ hc'[t] = NoHost
             /\ pc'[t] = AfterCond(t) /\ raw' = raw
          \/ /\ slot[cnd[t]] \in Small /\ hc' = hc
             /\ pc'[t] = "calloc" /\ raw'[t] = slot[cnd[t]]
      BY <1>1, <2>1, <3>1, Apart DEF ReadCond, IsPointer, Goto, LockTypeOK
    <3> QED BY <1>1, <3>1, <3>2, Apart DEF AfterCond, Named
  <2>2. CASE ReadObject(t)
    <3>1. /\ pc[t] = "mread" /\ obj[t] \in Guest /\ slot[obj[t]] \in Host \cup Small \cup {Wild}
          /\ hc' = hc /\ hm[t] = NoHost /\ raw[t] = NoHost
      BY <1>1, <2>2, Sets DEF ReadObject, LocalsOf, Creating, LockTypeOK
    <3>2. \/ /\ slot[obj[t]] \in Host \cup {Wild} /\ hm'[t] = slot[obj[t]]
             /\ pc'[t] = "act" /\ raw' = raw
          \/ /\ slot[obj[t]] \notin Host /\ hm'[t] = NoHost
             /\ pc'[t] = "act" /\ raw' = raw
          \/ /\ slot[obj[t]] \in Small /\ hm' = hm
             /\ pc'[t] = "malloc" /\ raw'[t] = slot[obj[t]]
      BY <1>1, <2>2, <3>1, Apart DEF ReadObject, IsPointer, Goto, LockTypeOK
    <3> QED BY <1>1, <3>1, <3>2, Apart DEF Named
  <2>3. CASE AllocateFails(t)
    <3>1. /\ pc[t] \in {"calloc", "malloc"} /\ pc'[t] \in {"mread", "act"}
          /\ raw'[t] = NoHost /\ hc' = hc /\ hm' = hm
      BY <1>1, <2>3 DEF AllocateFails, Goto, AfterCond, LockTypeOK
    <3> QED BY <1>1, <3>1, Apart DEF Named
  <2>4. CASE WaitExpires(t)
    <3>1. pc[t] = "waiting" /\ pc'[t] = "reacquire" /\ raw' = raw /\ hc' = hc /\ hm' = hm
      BY <1>1, <2>4 DEF WaitExpires, Goto, handles, LockTypeOK
    <3> QED BY <1>1, <1>4, <3>1 DEF Named
  <2> QED BY <2>1, <2>2, <2>3, <2>4
<1>8. \A g \in Guest : Uses(t, g)' => Uses(t, g)
  BY <1>2, <1>4 DEF Uses
<1>9. pc'[t] \in Creating => slot[Target(t)'] \notin Host
  BY <1>2, <1>7, Apart DEF Creating, Target
<1>10. op[t] = "init" /\ pc'[t] \notin {"zero", "act"} => slot[obj[t]] = 0
  BY <1>1, <1>4, <1>7 DEF TypesAgree, ReadCond, ReadObject, AllocateFails, WaitExpires
<1>11. Shape'
  BY <1>1, <1>2, <1>3, <1>4, <1>6, <1>7, <1>8, <1>9, <1>10, ShapeKept
<1>12. Holding'
  BY <1>1, <1>2, <1>3, <1>4, <1>5, <1>6, <1>7, HoldingKept DEF Others, ArgumentsOf
<1> QED BY <1>11, <1>12 DEF BInv

LEMMA WakeSteps ==
  ASSUME AInv, BInv, NEW t \in Thread, SyncStep(t), Wake(t)
  PROVE  BInv'
<1>1. LockTypeOK /\ Arguments /\ Locals /\ Shape /\ Holding
  BY DEF AInv, BInv
<1>2. /\ UNCHANGED <<slot, gtype, life, sort, type, owner, depth, held, readers, count, reading, writing, tokens>>
      /\ UNCHANGED <<obj, raw, hm>>
  BY <1>1, WakeFrame DEF SyncStep, locks, history
<1>3. \A u \in Thread : u # t => initial'[u] = initial[u]
  BY <1>1 DEF SyncStep, LockTypeOK
<1>4. Holding'
  BY <1>1, <1>2, <1>3, WakeFrame, HoldingKept DEF ReadyNamed
<1>5. FirstAlone /\ Named /\ NotLeaked /\ TypesAgree
  BY <1>1 DEF Shape
<1>6. FirstAlone'
  BY <1>1, <1>5, WakeFrame DEF FirstAlone
<1>7. Named'
  <2> SUFFICES ASSUME NEW u \in Thread
               PROVE  (/\ hm[u] \in Host => slot[obj[u]] = hm[u]
                       /\ hc[u] \in Host => slot[cnd[u]] = hc[u]
                       /\ pc[u] \in Creating => slot[Target(u)] \notin Host)'
    BY DEF Named
  <2>1. CASE u = t
    BY <1>1, <1>2, <2>1, WakeFrame, Apart DEF Creating
  <2>2. CASE u # t
    <3>1. pc'[u] \in Creating => pc[u] \in Creating /\ Target(u)' = Target(u)
      BY <1>1, <2>2, WakeFrame DEF Target, Creating
    <3> QED BY <1>1, <1>5, <2>2, <3>1, WakeFrame DEF Named
  <2> QED BY <2>1, <2>2
<1>8. NotLeaked'
  BY <1>2, <1>5 DEF NotLeaked
<1>9. TypesAgree'
  <2>1. \A u \in Thread : /\ op'[u] # "none" => op'[u] = op[u]
                          /\ pc'[u] \in {"malloc", "mstore"} => pc'[u] = pc[u]
                          /\ op'[u] # "none" /\ pc[u] \in {"zero", "act"} => pc'[u] = pc[u]
    BY <1>1, WakeFrame
  <2> QED BY <1>2, <1>5, <2>1 DEF TypesAgree
<1> QED BY <1>4, <1>6, <1>7, <1>8, <1>9 DEF BInv, Shape

\* An init clears the word, which names nothing that is live.
LEMMA ZeroSteps ==
  ASSUME AInv, BInv, NEW t \in Thread, SyncStep(t), Zero(t)
  PROVE  BInv'
<1>1. /\ LockTypeOK /\ Arguments /\ Locals /\ Tenure /\ Words /\ Live /\ Private
      /\ FirstAlone /\ Named /\ NotLeaked /\ TypesAgree
      /\ Unheld /\ MutexHeld /\ RwlockHeld /\ Counted
  BY DEF AInv, BInv, Shape, Holding
<1>2. /\ pc[t] = "zero" /\ op[t] \in InitOp /\ op[t] \in Changes /\ op[t] # "none"
      /\ raw[t] = NoHost /\ hc[t] = NoHost /\ hm[t] = NoHost
  BY <1>1 DEF Zero, Locals, LocalsOf, Changes, Creating, InitOp
<1>3. PICK g \in Guest :
        /\ Uses(t, g)
        /\ IF op[t] = "cinit" THEN g = cnd[t] /\ obj[t] = NoGuest ELSE g = obj[t] /\ cnd[t] = NoGuest
  <2>1. \/ op[t] = "cinit" /\ cnd[t] \in Guest /\ obj[t] = NoGuest
        \/ op[t] # "cinit" /\ obj[t] \in Guest /\ cnd[t] = NoGuest
    BY <1>1, <1>2, Sets DEF Arguments, ArgumentsOf, InitOp, MutexOp, CondOp, RwlockOp, SemaphoreOp
  <2> QED BY <1>2, <2>1, Apart DEF Uses
<1>4. /\ slot' = [slot EXCEPT ![g] = 0]
      /\ pc' = [pc EXCEPT ![t] = IF op[t] = "cinit" THEN "cread" ELSE "mread"]
      /\ UNCHANGED <<life, gtype, sort, type, owner, depth, held, readers, count, reading, writing, tokens>>
      /\ UNCHANGED <<op, cnd, obj, raw, hc, hm>>
  BY <1>3 DEF Zero, Goto, hosts, args, handles, SyncStep, locks, history
<1>5. /\ 0 \notin Host /\ slot[g] \notin Host /\ life[g] = "changing"
      /\ slot'[g] = 0 /\ \A k \in Guest : k # g => slot'[k] = slot[k]
      /\ \A u \in Thread : Uses(u, g) => u = t
  BY <1>1, <1>2, <1>3, <1>4, Apart DEF LockTypeOK, Type, Words, Tenure
<1>6. /\ Others(t) /\ pc'[t] \in {"cread", "mread"}
      /\ \A u \in Thread : op[u] = "seminit" => initial'[u] = initial[u]
      /\ \A u \in Thread, k \in Guest : Uses(u, k)' <=> Uses(u, k)
  BY <1>1, <1>2, <1>4 DEF LockTypeOK, Others, Uses, SyncStep, InitOp
<1>7. \A u \in Thread : u # t => cnd[u] # g /\ obj[u] # g
  BY <1>1, <1>5, Apart DEF Uses, Arguments, ArgumentsOf
<1>8. \A k \in Guest : /\ slot'[k] \in Host <=> slot[k] \in Host
                       /\ slot'[k] \in Host => slot'[k] = slot[k]
  BY <1>5
<1>9. FirstAlone'
  BY <1>1, <1>6, <1>8 DEF FirstAlone
<1>10. Named'
  <2> SUFFICES ASSUME NEW u \in Thread
               PROVE  (/\ hm[u] \in Host => slot[obj[u]] = hm[u]
                       /\ hc[u] \in Host => slot[cnd[u]] = hc[u]
                       /\ pc[u] \in Creating => slot[Target(u)] \notin Host)'
    BY DEF Named
  <2>1. CASE u = t
    BY <1>2, <1>4, <1>6, <2>1, Apart DEF Creating
  <2>2. CASE u # t
    <3>1. /\ hm[u] \in Host => obj[u] \in Guest
          /\ hc[u] \in Host => cnd[u] \in Guest
          /\ pc[u] \in Creating => Target(u) \in Guest
      BY <1>1, Apart, Sets DEF Locals, LocalsOf, LockTypeOK, Target, Creating
    <3>2. pc'[u] = pc[u] /\ Target(u)' = Target(u)
      BY <1>4, <1>6, <2>2 DEF Others, Target
    <3> QED BY <1>1, <1>4, <1>5, <1>7, <1>8, <2>2, <3>1, <3>2 DEF Named
  <2> QED BY <2>1, <2>2
<1>11. NotLeaked'
  BY <1>1, <1>4, <1>5 DEF NotLeaked
<1>12. TypesAgree'
  <2>1. \A m \in Mutex : /\ life'[m] = "ready" /\ slot'[m] \notin Host => slot'[m] = Initialiser(gtype'[m])
                         /\ slot'[m] \in Host => type'[slot'[m]] = Meant(gtype'[m])
    BY <1>1, <1>4, <1>5, Sets DEF TypesAgree
  <2>2. ASSUME NEW u \in Thread
        PROVE  (/\ op[u] = "init" /\ pc[u] \notin {"zero", "act"} => slot[obj[u]] = 0
                /\ pc[u] = "malloc" => raw[u] = slot[obj[u]]
                /\ pc[u] = "mstore" /\ obj[u] \in Mutex => type[raw[u]] = Meant(gtype[obj[u]]))'
    <3>1. CASE u = t
      BY <1>3, <1>4, <1>5, <1>6, <3>1
    <3>2. CASE u # t
      <4>1. obj[u] \in Guest => slot'[obj[u]] = slot[obj[u]]
        BY <1>5, <1>7, <3>2
      <4>2. op[u] = "init" \/ pc[u] = "malloc" => obj[u] \in Guest
        BY <1>1, Sets, Apart DEF Arguments, ArgumentsOf, MutexOp, Locals, LocalsOf, LockTypeOK
      <4> QED BY <1>1, <1>4, <1>6, <3>2, <4>1, <4>2 DEF TypesAgree, Others
    <3> QED BY <3>1, <3>2
  <2> QED BY <2>1, <2>2 DEF TypesAgree
<1>13. Unheld'
  BY <1>1, <1>4 DEF Unheld, Fresh
<1>14. MutexHeld'
  BY <1>1, <1>4, <1>6, <1>8, <1>2, Sets DEF MutexHeld, Others
<1>15. RwlockHeld'
  BY <1>1, <1>4, <1>8, Sets DEF RwlockHeld
<1>16. Counted'
  <2>1. \A s \in Semaphore : /\ life'[s] = "ready" /\ slot'[s] \notin Host => tokens'[s] = 0
                             /\ slot'[s] \in Host => tokens'[s] = count'[slot'[s]]
    BY <1>1, <1>4, <1>8, Sets DEF Counted
  <2>2. ASSUME NEW u \in Thread
        PROVE  (/\ op[u] = "seminit" => tokens[obj[u]] = initial[u] \/ slot[obj[u]] \in Host
                /\ pc[u] = "mstore" /\ obj[u] \in Semaphore => tokens[obj[u]] = count[raw[u]])'
    <3>1. op[u] = "seminit" => obj[u] \in Guest
      BY <1>1, Sets DEF Arguments, ArgumentsOf, SemaphoreOp
    <3> QED BY <1>1, <1>4, <1>6, <1>8, <3>1 DEF Counted, Others
  <2> QED BY <2>1, <2>2 DEF Counted
<1> QED BY <1>9, <1>10, <1>11, <1>12, <1>13, <1>14, <1>15, <1>16 DEF BInv, Shape, Holding

\* A host object is made: free, so fresh, of the type and value asked for.
LEMMA AllocateSteps ==
  ASSUME AInv, BInv, NEW t \in Thread, AllocateLock(t)
  PROVE  BInv'
<1>1. /\ LockTypeOK /\ Arguments /\ Locals /\ Tenure /\ Words /\ Live /\ Private
      /\ FirstAlone /\ Named /\ NotLeaked /\ TypesAgree
      /\ Unheld /\ MutexHeld /\ RwlockHeld /\ Counted /\ ArgumentsOf(t) /\ LocalsOf(t)
  BY DEF AInv, BInv, Shape, Holding, Arguments, Locals
<1>2. PICK h \in Host :
        /\ sort[h] = "free" /\ sort' = [sort EXCEPT ![h] = Sort(Target(t))]
        /\ type' = [type EXCEPT ![h] = IF pc[t] = "malloc" THEN CreatedType(t) ELSE PTHREAD_MUTEX_NORMAL]
        /\ raw' = [raw EXCEPT ![t] = h]
  BY DEF Allocate, AllocateLock
<1>3. /\ pc[t] \in {"calloc", "malloc"}
      /\ pc' = [pc EXCEPT ![t] = IF pc[t] = "calloc" THEN "cstore" ELSE "mstore"]
      /\ UNCHANGED <<slot, life, gtype, op, cnd, obj, hc, hm, owner, depth, held>>
      /\ UNCHANGED <<readers, initial, reading, writing, tokens>>
      /\ count' = [k \in Host |-> IF sort[k] = "free" /\ sort'[k] = "semaphore"
                                  THEN InitialValue(t) ELSE count[k]]
  BY DEF AllocateLock, Allocate, Goto, memory, args, history
<1>4. /\ Target(t) \in Guest /\ Sort(Target(t)) # "free"
      /\ sort'[h] = Sort(Target(t)) /\ \A k \in Host : k # h => sort'[k] = sort[k] /\ type'[k] = type[k]
      /\ type'[h] = IF pc[t] = "malloc" THEN CreatedType(t) ELSE PTHREAD_MUTEX_NORMAL
  <2>1. Target(t) \in Guest
    BY <1>1, <1>3, Sets DEF Target, LocalsOf, LockTypeOK
  <2> QED BY <1>1, <1>2, <2>1, SortOf DEF LockTypeOK
<1>5. /\ Others(t) /\ raw'[t] = h /\ pc'[t] = (IF pc[t] = "calloc" THEN "cstore" ELSE "mstore")
  BY <1>1, <1>2, <1>3 DEF Others, LockTypeOK
<1>6. \* The address was in nobody's hands.
      /\ \A g \in Guest : slot[g] # h
      /\ \A u \in Thread : hm[u] # h /\ hc[u] # h /\ raw[u] # h
  <2>1. AInv' /\ Allocate(t)
    BY AInvStep DEF AllocateLock, LockNext, LockProceed
  <2>2. \A g \in Guest : slot[g] # h
    BY <1>1, <1>2, SortOf DEF Live
  <2>3. \A u \in Thread : hm'[u] # raw'[t] /\ hc'[u] # raw'[t] /\ (raw'[u] = raw'[t] => u = t)
    BY <1>5, <2>1 DEF AInv, Private
  <2>4. raw[t] \notin Host
    BY <1>1, <1>3, Apart DEF LocalsOf
  <2> QED BY <1>3, <1>5, <2>2, <2>3, <2>4 DEF Others
<1>7. \A k \in Host : k # h => sort'[k] = sort[k] /\ count'[k] = count[k]
  BY <1>3, <1>4
<1>8. \A u \in Thread : Target(u)' = Target(u)
  BY <1>3, <1>5 DEF Target, Others
<1>9. slot[Target(t)] \notin Host
  BY <1>1, <1>3 DEF Named, Creating
<1>10. FirstAlone'
  BY <1>1, <1>3, <1>5 DEF FirstAlone, Others, Uses
<1>11. Named'
  BY <1>1, <1>3, <1>5, <1>8, <1>9 DEF Named, Others
<1>12. NotLeaked'
  BY <1>1, <1>3, <1>4, <1>5, Apart DEF NotLeaked, Others, LocalsOf
<1>13. obj[t] \in Mutex /\ pc[t] = "malloc" => CreatedType(t) = Meant(gtype[obj[t]])
  <2> SUFFICES ASSUME obj[t] \in Mutex, pc[t] = "malloc" PROVE CreatedType(t) = Meant(gtype[obj[t]])
    OBVIOUS
  <2>0. gtype[obj[t]] \in Type
    BY <1>1 DEF LockTypeOK
  <2>1. raw[t] = slot[obj[t]] /\ slot[obj[t]] \notin Host
    BY <1>1, <1>9 DEF TypesAgree, Target
  <2>2. CASE op[t] = "init"
    <3>1. raw[t] = 0
      BY <1>1, <2>1, <2>2 DEF TypesAgree
    <3>2. /\ Encoded(raw[t]) = 0
          /\ mutex_type_from_guest(Attribute(gtype[obj[t]])) = Meant(gtype[obj[t]])
      BY <2>0, <3>1, Numbers
    <3> QED BY <2>2, <3>2 DEF CreatedType
  <2>3. CASE op[t] # "init"
    <3>1. op[t] \notin NoCreate
      BY <1>1, <1>3 DEF LocalsOf, Creating
    <3>2. op[t] \in MutexOp \cup WaitOp
      BY <1>1, Apart, Sets DEF ArgumentsOf, LockTypeOK
    <3>3. op[t] \notin Changes
      BY <2>3, <3>1, <3>2 DEF Changes, InitOp, DestroyOp, NoCreate, MutexOp, WaitOp
    <3>4. life[obj[t]] = "ready"
      BY <1>1, <1>3, <3>3, Sets DEF Tenure, Uses
    <3>5. raw[t] = Initialiser(gtype[obj[t]])
      BY <1>1, <2>1, <3>4 DEF TypesAgree
    <3>6. /\ Encoded(raw[t]) = (IF gtype[obj[t]] = "recursive" THEN 1
                                ELSE IF gtype[obj[t]] = "errorcheck" THEN 2 ELSE 0)
          /\ mutex_type_from_guest(0) = PTHREAD_MUTEX_NORMAL
      BY <2>0, <3>5, Numbers
    <3>7. Meant(gtype[obj[t]]) = IF gtype[obj[t]] = "recursive" THEN PTHREAD_MUTEX_RECURSIVE
                                 ELSE IF gtype[obj[t]] = "errorcheck" THEN PTHREAD_MUTEX_ERRORCHECK
                                 ELSE PTHREAD_MUTEX_NORMAL
      BY <2>0 DEF Meant, Type
    <3>8. CASE gtype[obj[t]] = "recursive"
      BY <2>3, <3>6, <3>7, <3>8 DEF CreatedType
    <3>9. CASE gtype[obj[t]] = "errorcheck"
      BY <2>3, <3>6, <3>7, <3>9 DEF CreatedType
    <3>10. CASE gtype[obj[t]] = "normal"
      BY <2>3, <3>6, <3>7, <3>10 DEF CreatedType
    <3> QED BY <2>0, <3>8, <3>9, <3>10 DEF Type
  <2> QED BY <2>2, <2>3
<1>14. TypesAgree'
  <2>1. \A m \in Mutex : /\ life'[m] = "ready" /\ slot'[m] \notin Host => slot'[m] = Initialiser(gtype'[m])
                         /\ slot'[m] \in Host => type'[slot'[m]] = Meant(gtype'[m])
    BY <1>1, <1>3, <1>4, <1>6, Sets DEF TypesAgree
  <2>2. ASSUME NEW u \in Thread
        PROVE  (/\ op[u] = "init" /\ pc[u] \notin {"zero", "act"} => slot[obj[u]] = 0
                /\ pc[u] = "malloc" => raw[u] = slot[obj[u]]
                /\ pc[u] = "mstore" /\ obj[u] \in Mutex => type[raw[u]] = Meant(gtype[obj[u]]))'
    <3>1. CASE u = t
      BY <1>1, <1>3, <1>4, <1>5, <1>13, <3>1 DEF TypesAgree
    <3>2. CASE u # t
      <4>1. pc[u] = "mstore" => raw[u] \in Host /\ raw[u] # h
        BY <1>1, <1>6 DEF Locals, LocalsOf
      <4> QED BY <1>1, <1>3, <1>4, <1>5, <3>2, <4>1 DEF TypesAgree, Others
    <3> QED BY <3>1, <3>2
  <2> QED BY <2>1, <2>2 DEF TypesAgree
<1>15. Unheld'
  <2>1. Fresh(h)
    BY <1>1, <1>2 DEF Unheld, Fresh
  <2> QED BY <1>1, <1>3, <1>4, <1>5, <2>1 DEF Unheld, Fresh, Others
<1>16. MutexHeld'
  <2>1. depth[h] = 0 /\ owner[h] = NoThread
    BY <1>1, <1>2 DEF Unheld
  <2>2. \A k \in Host : sort'[k] = "mutex" => (owner[k] = NoThread <=> depth[k] = 0)
    BY <1>1, <1>4, <2>1 DEF MutexHeld
  <2>3. \A u \in Thread : pc'[u] \in {"waiting", "reacquire"} <=> pc[u] \in {"waiting", "reacquire"}
    BY <1>3, <1>5 DEF Others
  <2> QED BY <1>1, <1>3, <2>2, <2>3 DEF MutexHeld
<1>17. RwlockHeld'
  <2>1. owner[h] = NoThread
    BY <1>1, <1>2 DEF Unheld
  <2>2. \A k \in Host, u \in Thread : sort'[k] = "rwlock" /\ owner[k] # NoThread => readers[k][u] = 0
    BY <1>1, <1>4, <2>1 DEF RwlockHeld
  <2> QED BY <1>1, <1>3, <2>2 DEF RwlockHeld
<1>18. pc[t] = "malloc" /\ obj[t] \in Semaphore => tokens[obj[t]] = count'[h]
  <2> SUFFICES ASSUME pc[t] = "malloc", obj[t] \in Semaphore PROVE tokens[obj[t]] = count'[h]
    OBVIOUS
  <2>1. Target(t) = obj[t] /\ Sort(Target(t)) = "semaphore"
    BY <1>4, SortOf DEF Target
  <2>2. count'[h] = InitialValue(t) /\ slot[obj[t]] \notin Host
    BY <1>2, <1>3, <1>4, <1>9, <2>1
  <2>3. CASE op[t] = "seminit"
    BY <1>1, <2>2, <2>3 DEF Counted, InitialValue
  <2>4. CASE op[t] # "seminit"
    <3>1. op[t] \notin NoCreate
      BY <1>1, <1>3 DEF LocalsOf, Creating
    <3>2. op[t] \in SemaphoreOp
      BY <1>1, Apart, Sets DEF ArgumentsOf, LockTypeOK
    <3>3. op[t] \notin Changes
      BY <2>4, <3>1, <3>2 DEF Changes, InitOp, DestroyOp, NoCreate, SemaphoreOp
    <3>4. life[obj[t]] = "ready"
      BY <1>1, <1>3, <3>3, Sets DEF Tenure, Uses
    <3> QED BY <1>1, <2>2, <2>4, <3>4 DEF Counted, InitialValue
  <2> QED BY <2>3, <2>4
<1>19. Counted'
  <2>1. \A s \in Semaphore : /\ life'[s] = "ready" /\ slot'[s] \notin Host => tokens'[s] = 0
                             /\ slot'[s] \in Host => tokens'[s] = count'[slot'[s]]
    BY <1>1, <1>3, <1>6, <1>7, Sets DEF Counted
  <2>2. ASSUME NEW u \in Thread
        PROVE  (/\ op[u] = "seminit" => tokens[obj[u]] = initial[u] \/ slot[obj[u]] \in Host
                /\ pc[u] = "mstore" /\ obj[u] \in Semaphore => tokens[obj[u]] = count[raw[u]])'
    <3>1. CASE u = t
      BY <1>1, <1>3, <1>5, <1>18, <3>1 DEF Counted
    <3>2. CASE u # t
      <4>1. pc[u] = "mstore" => raw[u] \in Host /\ raw[u] # h
        BY <1>1, <1>6 DEF Locals, LocalsOf
      <4> QED BY <1>1, <1>3, <1>5, <1>7, <3>2, <4>1 DEF Counted, Others
    <3> QED BY <3>1, <3>2
  <2> QED BY <2>1, <2>2 DEF Counted
<1> QED BY <1>10, <1>11, <1>12, <1>14, <1>15, <1>16, <1>17, <1>19 DEF BInv, Shape, Holding

\* The word gets the address: nobody else has resolved this word yet.
LEMMA StoreSteps ==
  ASSUME AInv, BInv, NEW t \in Thread, SyncStep(t), Store(t)
  PROVE  BInv'
<1>1. /\ LockTypeOK /\ Arguments /\ Locals /\ Tenure /\ Words /\ Live /\ Private
      /\ FirstAlone /\ Named /\ NotLeaked /\ TypesAgree
      /\ Unheld /\ MutexHeld /\ RwlockHeld /\ Counted /\ ArgumentsOf(t) /\ LocalsOf(t)
  BY DEF AInv, BInv, Shape, Holding, Arguments, Locals
<1> DEFINE h == raw[t]
           g == Target(t)
<1>2. /\ \/ /\ pc[t] = "cstore" /\ hc' = [hc EXCEPT ![t] = h] /\ hm' = hm
            /\ pc' = [pc EXCEPT ![t] = AfterCond(t)]
         \/ /\ pc[t] = "mstore" /\ hm' = [hm EXCEPT ![t] = h] /\ hc' = hc
            /\ pc' = [pc EXCEPT ![t] = "act"]
      /\ slot' = [slot EXCEPT ![g] = h]
      /\ raw' = [raw EXCEPT ![t] = NoHost]
      /\ UNCHANGED <<life, gtype, sort, type, owner, depth, held, readers, count, reading, writing, tokens>>
      /\ UNCHANGED <<op, cnd, obj>>
  BY DEF Store, Goto, hosts, args, SyncStep, locks, history
<1>3. /\ h \in Host /\ g \in Guest /\ sort[h] = Sort(g) /\ pc[t] \in {"cstore", "mstore"}
      /\ g = (IF pc[t] = "cstore" THEN cnd[t] ELSE obj[t]) /\ slot[g] \notin Host
      /\ Uses(t, g) /\ \A u \in Thread : Uses(u, g) => u = t
  <2>1. h \in Host /\ pc[t] \in {"cstore", "mstore"}
    BY <1>1, <1>2 DEF LocalsOf
  <2>2. g \in Guest /\ g = (IF pc[t] = "cstore" THEN cnd[t] ELSE obj[t]) /\ slot[g] \notin Host
    BY <1>1, <2>1, Sets DEF LocalsOf, Target, LockTypeOK, Named, Creating
  <2>3. Uses(t, g)
    BY <2>1, <2>2 DEF Uses
  <2> QED BY <1>1, <2>1, <2>2, <2>3 DEF Live, FirstAlone
<1>4. Fresh(h) /\ (\A k \in Guest : slot[k] # h) /\ (\A u \in Thread : hm[u] # h /\ hc[u] # h)
  BY <1>1, <1>3 DEF Unheld, Private
<1>5. /\ pc[t] = "mstore" /\ obj[t] \in Mutex => type[h] = Meant(gtype[obj[t]])
      /\ pc[t] = "mstore" /\ obj[t] \in Semaphore => tokens[obj[t]] = count[h]
  BY <1>1 DEF TypesAgree, Counted
<1>n. NotLeaked'
  <2>1. \A k \in Host : (\E j \in Guest : slot[j] = k) => k # h /\ \E j \in Guest : j # g /\ slot[j] = k
    BY <1>3, <1>4
  <2>2. /\ slot'[g] = h /\ \A k \in Guest : k # g => slot'[k] = slot[k]
        /\ \A u \in Thread : u # t => raw'[u] = raw[u]
    BY <1>1, <1>2, <1>3 DEF LockTypeOK
  <2> QED BY <1>1, <1>2, <1>3, <2>1, <2>2 DEF NotLeaked
<1> HIDE DEF h, g
<1>6. /\ Others(t) /\ raw'[t] = NoHost
      /\ slot'[g] = h /\ \A k \in Guest : k # g => slot'[k] = slot[k]
      /\ pc[t] = "cstore" => hc'[t] = h /\ hm'[t] = hm[t] /\ pc'[t] = AfterCond(t)
      /\ pc[t] = "mstore" => hm'[t] = h /\ hc'[t] = hc[t] /\ pc'[t] = "act"
  BY <1>1, <1>2, <1>3 DEF Others, LockTypeOK
<1>7. pc'[t] \in {"mread", "act"} /\ (pc'[t] # "act" => pc[t] = "cstore" /\ obj[t] # NoGuest)
  BY <1>3, <1>6 DEF AfterCond
<1>8. /\ \A u \in Thread, k \in Guest : Uses(u, k)' <=> Uses(u, k)
      /\ \A u \in Thread : op[u] = "seminit" => initial'[u] = initial[u]
  BY <1>1, <1>2, <1>3, <1>6, <1>7 DEF Others, Uses, SyncStep, LockTypeOK
<1>9. \A u \in Thread : u # t => cnd[u] # g /\ obj[u] # g
  BY <1>1, <1>3, Apart DEF Uses, Arguments, ArgumentsOf
<1>10. FirstAlone'
  BY <1>1, <1>3, <1>6, <1>8 DEF FirstAlone
<1>11. Named'
  <2> SUFFICES ASSUME NEW u \in Thread
               PROVE  (/\ hm[u] \in Host => slot[obj[u]] = hm[u]
                       /\ hc[u] \in Host => slot[cnd[u]] = hc[u]
                       /\ pc[u] \in Creating => slot[Target(u)] \notin Host)'
    BY DEF Named
  <2>1. CASE u = t
    <3>1. CASE pc[t] = "cstore"
      <4>1. hm[t] = NoHost /\ pc'[t] \notin Creating
        BY <1>1, <1>7, <3>1 DEF LocalsOf, Creating
      <4> QED BY <1>2, <1>3, <1>6, <2>1, <3>1, <4>1, Apart
    <3>2. CASE pc[t] = "mstore"
      <4>1. hc[t] \in Host => slot[cnd[t]] = hc[t] /\ cnd[t] \in Guest /\ cnd[t] # g
        BY <1>1, <1>3, <3>2, Apart, Sets DEF Named, LocalsOf, LockTypeOK
      <4> QED BY <1>2, <1>3, <1>6, <2>1, <3>2, <4>1 DEF Creating
    <3> QED BY <1>3, <3>1, <3>2
  <2>2. CASE u # t
    <3>1. /\ hm[u] \in Host => obj[u] \in Guest
          /\ hc[u] \in Host => cnd[u] \in Guest
          /\ pc[u] \in Creating => Target(u) \in Guest
      BY <1>1, Apart, Sets DEF Locals, LocalsOf, LockTypeOK, Target, Creating
    <3>2. pc'[u] = pc[u] /\ Target(u)' = Target(u) /\ Target(u) # g
      BY <1>2, <1>6, <1>9, <2>2 DEF Others, Target
    <3> QED BY <1>1, <1>2, <1>6, <1>9, <2>2, <3>1, <3>2 DEF Named, Others
  <2> QED BY <2>1, <2>2
<1>12. TypesAgree'
  <2>1. \A m \in Mutex : /\ life'[m] = "ready" /\ slot'[m] \notin Host => slot'[m] = Initialiser(gtype'[m])
                         /\ slot'[m] \in Host => type'[slot'[m]] = Meant(gtype'[m])
    <3>1. g \in Mutex => type[h] = Meant(gtype[g])
      BY <1>1, <1>3, <1>5, Apart, Sets DEF LockTypeOK
    <3> QED BY <1>1, <1>2, <1>3, <1>6, <3>1, Sets DEF TypesAgree
  <2>2. ASSUME NEW u \in Thread
        PROVE  (/\ op[u] = "init" /\ pc[u] \notin {"zero", "act"} => slot[obj[u]] = 0
                /\ pc[u] = "malloc" => raw[u] = slot[obj[u]]
                /\ pc[u] = "mstore" /\ obj[u] \in Mutex => type[raw[u]] = Meant(gtype[obj[u]]))'
    <3>1. CASE u = t
      <4>1. op[t] = "init" => pc'[t] = "act"
        BY <1>1, <1>3, <1>7, Apart DEF ArgumentsOf, MutexOp, LocalsOf
      <4> QED BY <1>2, <1>7, <3>1, <4>1
    <3>2. CASE u # t
      <4>1. obj[u] \in Guest => slot'[obj[u]] = slot[obj[u]]
        BY <1>6, <1>9, <3>2
      <4>2. op[u] = "init" \/ pc[u] = "malloc" => obj[u] \in Guest
        BY <1>1, Sets, Apart DEF Arguments, ArgumentsOf, MutexOp, Locals, LocalsOf, LockTypeOK
      <4> QED BY <1>1, <1>2, <1>6, <3>2, <4>1, <4>2 DEF TypesAgree, Others
    <3> QED BY <3>1, <3>2
  <2> QED BY <2>1, <2>2 DEF TypesAgree
<1>13. Unheld'
  BY <1>1, <1>2, <1>6, Apart DEF Unheld, Fresh, Others
<1>14. MutexHeld'
  <2>1. \A u \in Thread : pc'[u] \in {"waiting", "reacquire"} <=> pc[u] \in {"waiting", "reacquire"}
    BY <1>3, <1>6, <1>7 DEF Others
  <2>2. ASSUME NEW u \in Thread, NEW m \in Mutex
        PROVE  (held[u][m] = IF slot[m] \in Host /\ owner[slot[m]] = u THEN depth[slot[m]] ELSE 0)'
    <3>1. CASE m = g
      BY <1>1, <1>2, <1>3, <1>4, <1>6, <3>1, Apart DEF MutexHeld, Fresh
    <3>2. CASE m # g
      BY <1>1, <1>2, <1>6, <3>2, Sets DEF MutexHeld
    <3> QED BY <3>1, <3>2
  <2> QED BY <1>1, <1>2, <2>1, <2>2 DEF MutexHeld
<1>15. RwlockHeld'
  <2>1. ASSUME NEW u \in Thread, NEW r \in Rwlock
        PROVE  (/\ writing[u][r] <=> slot[r] \in Host /\ owner[slot[r]] = u
                /\ reading[u][r] = IF slot[r] \in Host THEN readers[slot[r]][u] ELSE 0)'
    <3>1. CASE r = g
      BY <1>1, <1>2, <1>3, <1>4, <1>6, <3>1, Apart DEF RwlockHeld, Fresh
    <3>2. CASE r # g
      BY <1>1, <1>2, <1>6, <3>2, Sets DEF RwlockHeld
    <3> QED BY <3>1, <3>2
  <2> QED BY <1>1, <1>2, <2>1 DEF RwlockHeld
<1>16. Counted'
  <2>1. \A s \in Semaphore : /\ life'[s] = "ready" /\ slot'[s] \notin Host => tokens'[s] = 0
                             /\ slot'[s] \in Host => tokens'[s] = count'[slot'[s]]
    <3>1. g \in Semaphore => tokens[g] = count[h]
      BY <1>1, <1>3, <1>5, Apart, Sets DEF LockTypeOK
    <3> QED BY <1>1, <1>2, <1>3, <1>6, <3>1, Sets DEF Counted
  <2>2. ASSUME NEW u \in Thread
        PROVE  (/\ op[u] = "seminit" => tokens[obj[u]] = initial[u] \/ slot[obj[u]] \in Host
                /\ pc[u] = "mstore" /\ obj[u] \in Semaphore => tokens[obj[u]] = count[raw[u]])'
    <3>1. op[u] = "seminit" => obj[u] \in Guest
      BY <1>1, Sets DEF Arguments, ArgumentsOf, SemaphoreOp
    <3>2. slot[obj[u]] \in Host /\ obj[u] \in Guest => slot'[obj[u]] \in Host
      BY <1>3, <1>6
    <3> QED BY <1>1, <1>2, <1>6, <1>7, <1>8, <3>1, <3>2 DEF Counted, Others
  <2> QED BY <2>1, <2>2 DEF Counted
<1> QED BY <1>10, <1>11, <1>n, <1>12, <1>13, <1>14, <1>15, <1>16 DEF BInv, Shape, Holding

\* A host object is freed, which nobody holds.
LEMMA DestroySteps ==
  ASSUME AInv, BInv, NEW t \in Thread, SyncStep(t), Destroy(t)
  PROVE  BInv'
<1>1. /\ LockTypeOK /\ Arguments /\ Locals /\ Tenure /\ Words /\ Live /\ Private
      /\ FirstAlone /\ Named /\ NotLeaked /\ TypesAgree
      /\ Unheld /\ MutexHeld /\ RwlockHeld /\ Counted
  BY DEF AInv, BInv, Shape, Holding
<1>2. /\ Return(t) /\ op[t] \in DestroyOp /\ op[t] \in Changes /\ pc[t] = "act" /\ raw[t] = NoHost
      /\ UNCHANGED <<gtype, owner, depth, held, readers, count, reading, writing, tokens>>
  BY <1>1 DEF Destroy, Changes, SyncStep, locks, history, Locals, LocalsOf, Creating
<1>3. /\ Others(t) /\ op'[t] = "none" /\ pc'[t] = "idle" /\ hc'[t] = NoHost /\ hm'[t] = NoHost
      /\ cnd'[t] = NoGuest /\ obj'[t] = NoGuest
      /\ raw'[t] = NoHost /\ (\A k \in Guest : ~Uses(t, k)')
      /\ \A u \in Thread, k \in Guest : u # t => (Uses(u, k)' <=> Uses(u, k))
      /\ \A u \in Thread : u # t => initial'[u] = initial[u]
  BY <1>1, <1>2, ReturnFrame DEF SyncStep, LockTypeOK
<1>4. PICK g \in Guest : /\ \A k \in Guest : Uses(t, k) <=> k = g
                         /\ g = Doomed(t) /\ (op[t] = "rwdestroy" => g = obj[t])
                         /\ slot[g] = Scrapped(t) \/ (slot[g] \notin Host /\ Scrapped(t) \notin Host)
  <2>1. \/ op[t] = "cdestroy" /\ cnd[t] \in Guest /\ obj[t] = NoGuest
        \/ op[t] # "cdestroy" /\ obj[t] \in Guest /\ cnd[t] = NoGuest
    BY <1>1, <1>2, Sets DEF Arguments, ArgumentsOf, DestroyOp, MutexOp, CondOp, RwlockOp, SemaphoreOp
  <2>2. \/ op[t] = "cdestroy" /\ (slot[cnd[t]] = hc[t] \/ (slot[cnd[t]] \notin Host /\ hc[t] = NoHost))
        \/ op[t] # "cdestroy" /\ (slot[obj[t]] = hm[t] \/ (slot[obj[t]] \notin Host /\ hm[t] = NoHost))
    BY <1>1, <1>2, <2>1, Apart DEF Words
  <2> QED BY <1>2, <2>1, <2>2, Apart DEF Uses, Doomed, Scrapped
<1>5. life[g] = "changing" /\ \A u \in Thread : Uses(u, g) => u = t
  BY <1>1, <1>2, <1>4 DEF Tenure
<1>6. /\ \A k \in Guest : k # g => life'[k] = life[k] /\ slot'[k] = slot[k]
      /\ life'[g] = "raw" /\ slot'[g] \notin Host
      /\ slot[g] \in Host => sort'[slot[g]] = "free" /\ owner[slot[g]] = NoThread
      /\ \A h \in Host : h # slot[g] => sort'[h] = sort[h] /\ type'[h] = type[h]
  BY <1>1, <1>4, Apart DEF Destroy, LockTypeOK, Type
<1>7. \A u \in Thread : u # t => cnd[u] # g /\ obj[u] # g
  BY <1>1, <1>5, Apart DEF Uses, Arguments, ArgumentsOf
<1>8. \A k \in Guest : slot'[k] \in Host => k # g /\ slot'[k] = slot[k] /\ slot[k] # slot[g]
  BY <1>1, <1>6 DEF Private
<1>9. FirstAlone'
  BY <1>1, <1>3, <1>5, <1>6 DEF FirstAlone
<1>10. Named'
  <2> SUFFICES ASSUME NEW u \in Thread
               PROVE  (/\ hm[u] \in Host => slot[obj[u]] = hm[u]
                       /\ hc[u] \in Host => slot[cnd[u]] = hc[u]
                       /\ pc[u] \in Creating => slot[Target(u)] \notin Host)'
    BY DEF Named
  <2>1. CASE u = t
    BY <1>3, <2>1, Apart DEF Creating
  <2>2. CASE u # t
    <3>1. /\ hm[u] \in Host => obj[u] \in Guest
          /\ hc[u] \in Host => cnd[u] \in Guest
          /\ pc[u] \in Creating => Target(u) \in Guest
      BY <1>1, Apart, Sets DEF Locals, LocalsOf, LockTypeOK, Target, Creating
    <3>2. pc'[u] = pc[u] /\ Target(u)' = Target(u) /\ Target(u) # g
      BY <1>3, <1>7, <2>2 DEF Others, Target
    <3> QED BY <1>1, <1>3, <1>6, <1>7, <2>2, <3>1, <3>2 DEF Named, Others
  <2> QED BY <2>1, <2>2
<1>11. NotLeaked'
  <2> SUFFICES ASSUME NEW h \in Host, sort'[h] # "free"
               PROVE  (\E k \in Guest : slot'[k] = h) \/ (\E u \in Thread : raw'[u] = h)
    BY DEF NotLeaked
  <2>1. h # slot[g] /\ sort[h] # "free"
    BY <1>6
  <2>2. CASE \E k \in Guest : slot[k] = h
    BY <1>6, <2>1, <2>2
  <2>3. CASE \E u \in Thread : raw[u] = h
    BY <1>2, <1>3, <2>3, Apart DEF Others
  <2> QED BY <1>1, <2>1, <2>2, <2>3 DEF NotLeaked
<1>12. TypesAgree'
  <2>1. \A m \in Mutex : /\ life'[m] = "ready" /\ slot'[m] \notin Host => slot'[m] = Initialiser(gtype'[m])
                         /\ slot'[m] \in Host => type'[slot'[m]] = Meant(gtype'[m])
    BY <1>1, <1>2, <1>6, <1>8, Sets DEF TypesAgree
  <2>2. ASSUME NEW u \in Thread
        PROVE  (/\ op[u] = "init" /\ pc[u] \notin {"zero", "act"} => slot[obj[u]] = 0
                /\ pc[u] = "malloc" => raw[u] = slot[obj[u]]
                /\ pc[u] = "mstore" /\ obj[u] \in Mutex => type[raw[u]] = Meant(gtype[obj[u]]))'
    <3>1. CASE u = t
      BY <1>3, <3>1
    <3>2. CASE u # t
      <4>1. obj[u] \in Guest => slot'[obj[u]] = slot[obj[u]]
        BY <1>6, <1>7, <3>2
      <4>2. op[u] = "init" \/ pc[u] = "malloc" => obj[u] \in Guest
        BY <1>1, Sets, Apart DEF Arguments, ArgumentsOf, MutexOp, Locals, LocalsOf, LockTypeOK
      <4>3. pc[u] = "mstore" => raw[u] \in Host /\ type'[raw[u]] = type[raw[u]]
        BY <1>1, <1>6 DEF Locals, LocalsOf, Private
      <4> QED BY <1>1, <1>2, <1>3, <3>2, <4>1, <4>2, <4>3 DEF TypesAgree, Others
    <3> QED BY <3>1, <3>2
  <2> QED BY <2>1, <2>2 DEF TypesAgree
<1>13. slot[g] \in Host => Fresh(slot[g])
  <2> SUFFICES ASSUME slot[g] \in Host PROVE Fresh(slot[g])
    OBVIOUS
  <2>1. sort[slot[g]] = Sort(g) /\ owner[slot[g]] = NoThread
    BY <1>1, <1>6 DEF Live
  <2>2. depth[slot[g]] = 0
    BY <1>1, <2>1 DEF Unheld, MutexHeld
  <2>3. CASE g \in Rwlock
    <3>1. op[t] = "rwdestroy" /\ obj[t] = g
      BY <1>1, <1>2, <1>4, <2>3, OpNames, Sets, Apart DEF Arguments, ArgumentsOf, Uses, DestroyOp,
         MutexOp, CondOp, SemaphoreOp
    <3> QED BY <1>1, <2>1, <2>2, <2>3, <3>1 DEF RwlockHeld, Fresh
  <2>4. CASE g \notin Rwlock
    BY <1>1, <2>1, <2>2, <2>4, SortOf DEF Unheld, Fresh
  <2> QED BY <2>3, <2>4
<1>14. Unheld'
  BY <1>1, <1>2, <1>3, <1>6, <1>13, Apart DEF Unheld, Fresh, Others
<1>15. MutexHeld'
  <2>1. \A u \in Thread, m \in Mutex :
          held[u][m] = IF slot'[m] \in Host /\ owner[slot'[m]] = u THEN depth[slot'[m]] ELSE 0
    BY <1>1, <1>6, <1>8, Apart, Sets DEF MutexHeld
  <2>2. \A h \in Host : sort'[h] = "mutex" => (owner[h] = NoThread <=> depth[h] = 0)
    BY <1>1, <1>6 DEF MutexHeld
  <2> QED BY <1>1, <1>2, <1>3, <2>1, <2>2 DEF MutexHeld, Others, WaitOp
<1>16. RwlockHeld'
  <2>1. \A u \in Thread, r \in Rwlock :
          /\ writing[u][r] <=> slot'[r] \in Host /\ owner[slot'[r]] = u
          /\ reading[u][r] = IF slot'[r] \in Host THEN readers[slot'[r]][u] ELSE 0
    <3> SUFFICES ASSUME NEW u \in Thread, NEW r \in Rwlock
                 PROVE  /\ writing[u][r] <=> slot'[r] \in Host /\ owner[slot'[r]] = u
                        /\ reading[u][r] = IF slot'[r] \in Host THEN readers[slot'[r]][u] ELSE 0
      OBVIOUS
    <3>1. CASE r = g
      BY <1>1, <1>6, <1>13, <3>1, Apart DEF RwlockHeld, Fresh
    <3>2. CASE r # g
      BY <1>1, <1>6, <3>2, Sets DEF RwlockHeld
    <3> QED BY <3>1, <3>2
  <2>2. \A h \in Host, u \in Thread : sort'[h] = "rwlock" /\ owner[h] # NoThread => readers[h][u] = 0
    BY <1>1, <1>6 DEF RwlockHeld
  <2> QED BY <1>1, <1>2, <1>3, <2>1, <2>2 DEF RwlockHeld, Others
<1>17. Counted'
  <2>1. \A s \in Semaphore : /\ life'[s] = "ready" /\ slot'[s] \notin Host => tokens'[s] = 0
                             /\ slot'[s] \in Host => tokens'[s] = count'[slot'[s]]
    BY <1>1, <1>2, <1>6, <1>8, Sets DEF Counted
  <2>2. ASSUME NEW u \in Thread
        PROVE  (/\ op[u] = "seminit" => tokens[obj[u]] = initial[u] \/ slot[obj[u]] \in Host
                /\ pc[u] = "mstore" /\ obj[u] \in Semaphore => tokens[obj[u]] = count[raw[u]])'
    <3>1. op[u] = "seminit" /\ u # t => obj[u] \in Guest /\ slot'[obj[u]] = slot[obj[u]]
      BY <1>1, <1>6, <1>7, Sets DEF Arguments, ArgumentsOf, SemaphoreOp
    <3> QED BY <1>1, <1>2, <1>3, <3>1 DEF Counted, Others
  <2> QED BY <2>1, <2>2 DEF Counted
<1> QED BY <1>9, <1>10, <1>11, <1>12, <1>14, <1>15, <1>16, <1>17 DEF BInv, Shape, Holding

\* A thread takes the host mutex behind its guest mutex, and returns.
LEMMA TakeSteps ==
  ASSUME AInv, BInv, NEW t \in Thread, SyncStep(t), LockTakes(t) \/ WaitReturns(t)
  PROVE  /\ BInv'
         /\ obj[t] \in Mutex /\ held'[t][obj[t]] = held[t][obj[t]] + 1
         /\ \A u \in Thread, k \in Mutex : u # t \/ k # obj[t] => held'[u][k] = held[u][k]
         /\ \/ \A u \in Thread : held[u][obj[t]] = 0
            \/ held[t][obj[t]] > 0 /\ gtype[obj[t]] = "recursive"
<1> DEFINE h == hm[t]
           m == obj[t]
<1>1. /\ LockTypeOK /\ Arguments /\ Locals /\ Tenure /\ Words /\ Live /\ Private
      /\ FirstAlone /\ Named /\ NotLeaked /\ TypesAgree
      /\ Unheld /\ MutexHeld /\ RwlockHeld /\ Counted
  BY DEF AInv, BInv, Shape, Holding
<1>2. /\ Return(t) /\ CanTake(t, h) /\ Take(t, h)
      /\ UNCHANGED <<slot, life, gtype, sort, type, readers, count, reading, writing, tokens>>
      /\ \A u \in Thread : u # t => initial'[u] = initial[u]
  BY <1>1 DEF LockTakes, WaitReturns, Take, SyncStep, memory, locks, history, LockTypeOK
<1>3. /\ m \in Mutex /\ h \in Host /\ slot[m] = h /\ sort[h] = "mutex" /\ held[t][m] < MaxDepth
      /\ pc[t] \notin Creating
  <2>1. CASE LockTakes(t)
    <3>1. op[t] \in {"lock", "trylock"} /\ h \in Host /\ pc[t] = "act"
      BY <2>1 DEF LockTakes
    <3> QED BY <1>1, <3>1, SortOf, Sets DEF Arguments, ArgumentsOf, MutexOp, Named, Live, MutexHeld, Creating
  <2>2. CASE WaitReturns(t)
    <3>1. op[t] \in WaitOp /\ h \in Host /\ pc[t] = "reacquire"
      BY <1>1, <2>2 DEF WaitReturns, Locals, LocalsOf
    <3> QED BY <1>1, <3>1, SortOf, Sets, Apart DEF Arguments, ArgumentsOf, Named, Live, MutexHeld, Creating
  <2> QED BY <2>1, <2>2
<1>4. Shape'
  BY <1>1, <1>2, <1>3, ReturnShape DEF ReadyNamed, BInv
<1>5. /\ Others(t) /\ op'[t] = "none" /\ pc'[t] = "idle" /\ raw'[t] = NoHost
  BY <1>1, <1>2, ReturnFrame
<1> HIDE DEF h, m
<1>6. /\ owner'[h] = t /\ \A k \in Host : k # h => owner'[k] = owner[k]
      /\ depth'[h] = depth[h] + 1 /\ \A k \in Host : k # h => depth'[k] = depth[k]
  BY <1>1, <1>2, <1>3 DEF Take, LockTypeOK
<1>7. /\ held'[t][m] = held[t][m] + 1
      /\ \A u \in Thread, k \in Mutex : u # t \/ k # m => held'[u][k] = held[u][k]
  <2>1. held \in [Thread -> [Mutex -> Nat]]
    BY <1>1 DEF LockTypeOK
  <2>2. held' = [held EXCEPT ![t][m] = held[t][m] + 1]
    BY <1>2, <1>3, <2>1 DEF Take, m
  <2> QED BY <1>3, <2>1, <2>2
<1>8. /\ owner[h] = NoThread => depth[h] = 0
      /\ held[t][m] = depth[h] /\ depth[h] \in Nat /\ depth'[h] # 0
      /\ \A u \in Thread : u # t => held[u][m] = 0
  <2>1. owner[h] = NoThread <=> depth[h] = 0
    BY <1>1, <1>3 DEF MutexHeld
  <2>2. depth[h] \in Nat /\ owner[h] \in Thread \cup {NoThread}
    BY <1>1, <1>3 DEF LockTypeOK
  <2>3. \A u \in Thread : held[u][m] = IF owner[h] = u THEN depth[h] ELSE 0
    BY <1>1, <1>3 DEF MutexHeld
  <2>4. owner[h] = NoThread \/ owner[h] = t
    BY <1>2 DEF CanTake
  <2> QED BY <1>6, <2>1, <2>2, <2>3, <2>4, Apart
<1>9. \A k \in Guest : k # m => slot[k] # h
  BY <1>1, <1>3, Sets DEF Private
<1>10. Unheld'
  <2>1. \A u \in Thread : raw[u] # h
    BY <1>1, <1>3, Sets DEF Private
  <2>2. \A k \in Host : k # h /\ Fresh(k) => Fresh(k)'
    BY <1>2, <1>6 DEF Fresh
  <2> QED BY <1>1, <1>2, <1>3, <1>5, <1>6, <2>1, <2>2, Apart DEF Unheld, Others
<1>11. MutexHeld'
  <2>1. \A k \in Host : sort'[k] = "mutex" => (owner'[k] = NoThread <=> depth'[k] = 0)
    <3>1. owner'[h] # NoThread
      BY <1>6, Apart
    <3> QED BY <1>1, <1>2, <1>6, <1>8, <3>1 DEF MutexHeld
  <2>2. ASSUME NEW u \in Thread, NEW k \in Mutex
        PROVE  held'[u][k] = IF slot'[k] \in Host /\ owner'[slot'[k]] = u THEN depth'[slot'[k]] ELSE 0
    <3>1. CASE k = m
      BY <1>2, <1>3, <1>6, <1>7, <1>8, <3>1
    <3>2. CASE k # m
      BY <1>1, <1>2, <1>6, <1>7, <1>9, <3>2, Sets DEF MutexHeld
    <3> QED BY <3>1, <3>2
  <2>3. ASSUME NEW u \in Thread
        PROVE  (/\ op[u] = "unlock" /\ gtype[obj[u]] = "normal" => held[u][obj[u]] > 0
                /\ op[u] \in WaitOp => held[u][obj[u]] = IF pc[u] \in {"waiting", "reacquire"} THEN 0 ELSE 1
                /\ op[u] \in {"lock", "trylock"} => held[u][obj[u]] < MaxDepth)'
    <3>1. CASE u = t
      BY <1>5, <3>1 DEF WaitOp
    <3>2. CASE u # t
      <4>1. op[u] \in MutexOp \cup WaitOp => obj[u] \in Mutex /\ held'[u][obj[u]] = held[u][obj[u]]
        BY <1>1, <1>7, <3>2 DEF Arguments, ArgumentsOf
      <4> QED BY <1>1, <1>2, <1>5, <3>2, <4>1 DEF MutexHeld, Others, MutexOp
    <3> QED BY <3>1, <3>2
  <2>4. \A u \in Thread, k \in Mutex : held'[u][k] <= MaxDepth
    <3>1. held[t][m] \in Nat
      BY <1>8
    <3> QED BY <1>1, <1>3, <1>7, <3>1, Apart DEF MutexHeld
  <2> QED BY <2>1, <2>2, <2>3, <2>4 DEF MutexHeld
<1>12. RwlockHeld'
  <2>1. \A r \in Rwlock : r # m /\ slot[r] # h
    BY <1>3, <1>9, Sets
  <2>2. \A k \in Host, u \in Thread : sort'[k] = "rwlock" /\ owner'[k] # NoThread => readers'[k][u] = 0
    BY <1>1, <1>2, <1>3, <1>6 DEF RwlockHeld
  <2>3. \A u \in Thread, r \in Rwlock :
          /\ writing'[u][r] <=> slot'[r] \in Host /\ owner'[slot'[r]] = u
          /\ reading'[u][r] = IF slot'[r] \in Host THEN readers'[slot'[r]][u] ELSE 0
    BY <1>1, <1>2, <1>6, <2>1 DEF RwlockHeld
  <2> QED BY <1>1, <1>2, <1>5, <2>2, <2>3 DEF RwlockHeld, Others
<1>13. Counted'
  BY <1>1, <1>2, <1>5 DEF Counted, Others
<1>14. (\A u \in Thread : held[u][m] = 0) \/ (held[t][m] > 0 /\ gtype[m] = "recursive")
  <2>1. CASE owner[h] = NoThread
    BY <1>8, <2>1
  <2>2. CASE owner[h] # NoThread
    <3>1. type[h] = PTHREAD_MUTEX_RECURSIVE /\ depth[h] # 0
      BY <1>1, <1>2, <1>3, <2>2 DEF CanTake, MutexHeld
    <3>2. gtype[m] \in Type /\ type[h] = Meant(gtype[m])
      BY <1>1, <1>2, <1>3 DEF TypesAgree, LockTypeOK
    <3>3. gtype[m] = "recursive"
      BY <3>1, <3>2, Numbers
    <3> QED BY <1>1, <1>3, <1>8, <3>1, <3>3
  <2> QED BY <2>1, <2>2
<1> QED BY <1>3, <1>4, <1>7, <1>10, <1>11, <1>12, <1>13, <1>14 DEF BInv, Holding, m

\* A thread gives the host mutex up, to return or to wait: it was the owner.
LEMMA GiveSteps ==
  ASSUME AInv, BInv, NEW t \in Thread, SyncStep(t),
         \/ UnlockReturns(t) /\ UnlockAllowed(t, hm[t])
         \/ WaitBlocks(t)
  PROVE  /\ BInv'
         /\ obj[t] \in Mutex /\ held[t][obj[t]] > 0 /\ held'[t][obj[t]] = held[t][obj[t]] - 1
         /\ \A u \in Thread, k \in Mutex : u # t \/ k # obj[t] => held'[u][k] = held[u][k]
<1> DEFINE h == hm[t]
           m == obj[t]
<1>1. /\ LockTypeOK /\ Arguments /\ Locals /\ Tenure /\ Words /\ Live /\ Private
      /\ FirstAlone /\ Named /\ NotLeaked /\ TypesAgree
      /\ Unheld /\ MutexHeld /\ RwlockHeld /\ Counted
  BY DEF AInv, BInv, Shape, Holding
<1>2. /\ Give(t, h)
      /\ UNCHANGED <<slot, life, gtype, sort, type, readers, count, reading, writing, tokens>>
      /\ \A u \in Thread : u # t => initial'[u] = initial[u]
  BY <1>1 DEF UnlockReturns, WaitBlocks, Give, SyncStep, memory, locks, history, LockTypeOK
<1>3. /\ m \in Mutex /\ h \in Host /\ slot[m] = h /\ sort[h] = "mutex" /\ pc[t] = "act"
      /\ op[t] \in WaitOp \cup {"unlock"}
  <2>1. op[t] \in WaitOp \cup {"unlock"} /\ h \in Host /\ pc[t] = "act"
    BY DEF UnlockReturns, WaitBlocks, Acting
  <2> QED BY <1>1, <2>1, SortOf, Sets, Apart DEF Arguments, ArgumentsOf, MutexOp, Named, Live
<1>4. /\ raw[t] = NoHost /\ raw'[t] = NoHost /\ Others(t)
      /\ \/ op'[t] = "none" /\ pc'[t] = "idle" /\ Return(t)
         \/ /\ op[t] \in WaitOp /\ pc'[t] = "waiting" /\ cnd[t] # NoGuest
            /\ UNCHANGED <<op, cnd, obj, hm, hc>>
  <2>1. raw[t] = NoHost
    BY <1>1, <1>3 DEF Locals, LocalsOf, Creating
  <2>2. CASE UnlockReturns(t)
    <3>1. Return(t)
      BY <2>2 DEF UnlockReturns
    <3> QED BY <1>1, <2>1, <3>1, ReturnFrame
  <2>3. CASE WaitBlocks(t)
    BY <1>1, <2>1, <2>3, Apart, Sets DEF WaitBlocks, Goto, args, handles, Others, LockTypeOK, Arguments, ArgumentsOf
  <2> QED BY <2>2, <2>3
<1>5. Shape'
  <2>1. CASE Return(t)
    BY <1>1, <1>2, <1>3, <2>1, ReturnShape DEF ReadyNamed, BInv, Creating
  <2>2. CASE op[t] \in WaitOp /\ pc'[t] = "waiting" /\ UNCHANGED <<op, cnd, obj, hm, hc>>
    <3>1. \A g \in Guest : Uses(t, g)' => Uses(t, g)
      BY <1>3, <2>2 DEF Uses
    <3>2. op'[t] # "init" /\ pc'[t] \notin Creating
      BY <2>2 DEF WaitOp, Creating
    <3> QED BY <1>1, <1>2, <1>4, <2>2, <3>1, <3>2, Apart, ShapeKept DEF ReadyNamed, BInv, Named, Creating
  <2> QED BY <1>4, <2>1, <2>2
<1> HIDE DEF h, m
<1>6. owner[h] = t /\ depth[h] = held[t][m] /\ depth[h] \in Nat /\ depth[h] > 0
  <2>1. CASE op[t] = "unlock"
    <3>1. UnlockAllowed(t, h)
      BY <2>1 DEF WaitBlocks, WaitOp, h
    <3>2. owner[h] = t
      <4>1. CASE type[h] = PTHREAD_MUTEX_NORMAL
        <5>1. gtype[m] \in Type /\ type[h] = Meant(gtype[m])
          BY <1>1, <1>3 DEF TypesAgree, LockTypeOK
        <5>2. gtype[m] = "normal"
          BY <4>1, <5>1, Numbers
        <5>3. held[t][m] > 0
          BY <1>1, <1>3, <2>1, <5>2 DEF MutexHeld, m
        <5> QED BY <1>1, <1>3, <5>3 DEF MutexHeld
      <4> QED BY <3>1, <4>1 DEF UnlockAllowed
    <3> QED BY <1>1, <1>3, <3>2, Apart DEF MutexHeld, LockTypeOK
  <2>2. CASE op[t] \in WaitOp
    <3>1. held[t][m] = 1
      BY <1>1, <1>3, <2>2 DEF MutexHeld, m
    <3>2. /\ held[t][m] = (IF owner[h] = t THEN depth[h] ELSE 0)
          /\ depth[h] \in Nat
      BY <1>1, <1>3 DEF MutexHeld, LockTypeOK
    <3> QED BY <3>1, <3>2
  <2> QED BY <1>3, <2>1, <2>2
<1>7. /\ owner'[h] = (IF depth[h] <= 1 THEN NoThread ELSE t) /\ \A k \in Host : k # h => owner'[k] = owner[k]
      /\ depth'[h] = depth[h] - 1 /\ \A k \in Host : k # h => depth'[k] = depth[k]
  BY <1>1, <1>2, <1>3, <1>6 DEF Give, LockTypeOK
<1>8. /\ held'[t][m] = held[t][m] - 1
      /\ \A u \in Thread, k \in Mutex : u # t \/ k # m => held'[u][k] = held[u][k]
  <2> DEFINE less == IF held[t][m] = 0 THEN 0 ELSE held[t][m] - 1
  <2>1. held \in [Thread -> [Mutex -> Nat]]
    BY <1>1 DEF LockTypeOK
  <2>2. held' = [held EXCEPT ![t][m] = less]
    BY <1>2, <1>3, <2>1 DEF Give, m
  <2>3. less = held[t][m] - 1
    BY <1>6
  <2> HIDE DEF less
  <2> QED BY <1>3, <2>1, <2>2, <2>3
<1>9. /\ \A k \in Guest : k # m => slot[k] # h
      /\ \A u \in Thread : u # t => held[u][m] = 0
  BY <1>1, <1>3, <1>6, Sets DEF Private, MutexHeld
<1>10. Unheld'
  <2>1. \A u \in Thread : raw[u] # h
    BY <1>1, <1>3, Sets DEF Private
  <2>2. \A k \in Host : k # h /\ Fresh(k) => Fresh(k)'
    BY <1>2, <1>7 DEF Fresh
  <2> QED BY <1>1, <1>2, <1>3, <1>4, <1>7, <2>1, <2>2, Apart DEF Unheld, Others
<1>11. MutexHeld'
  <2>1. \A k \in Host : sort'[k] = "mutex" => (owner'[k] = NoThread <=> depth'[k] = 0)
    <3>1. owner'[h] = NoThread <=> depth'[h] = 0
      BY <1>6, <1>7, Apart
    <3> QED BY <1>1, <1>2, <1>7, <3>1 DEF MutexHeld
  <2>2. ASSUME NEW u \in Thread, NEW k \in Mutex
        PROVE  held'[u][k] = IF slot'[k] \in Host /\ owner'[slot'[k]] = u THEN depth'[slot'[k]] ELSE 0
    <3>1. CASE k = m
      <4>1. u # NoThread
        BY Apart
      <4> QED BY <1>2, <1>3, <1>6, <1>7, <1>8, <1>9, <3>1, <4>1
    <3>2. CASE k # m
      BY <1>1, <1>2, <1>7, <1>8, <1>9, <3>2, Sets DEF MutexHeld
    <3> QED BY <3>1, <3>2
  <2>3. ASSUME NEW u \in Thread
        PROVE  (/\ op[u] = "unlock" /\ gtype[obj[u]] = "normal" => held[u][obj[u]] > 0
                /\ op[u] \in WaitOp => held[u][obj[u]] = IF pc[u] \in {"waiting", "reacquire"} THEN 0 ELSE 1
                /\ op[u] \in {"lock", "trylock"} => held[u][obj[u]] < MaxDepth)'
    <3>1. CASE u = t
      <4>1. op[t] \in WaitOp => held[t][m] = 1
        BY <1>1, <1>3 DEF MutexHeld, m
      <4> QED BY <1>4, <1>8, <3>1, <4>1 DEF WaitOp, m
    <3>2. CASE u # t
      <4>1. op[u] \in MutexOp \cup WaitOp => obj[u] \in Mutex /\ held'[u][obj[u]] = held[u][obj[u]]
        BY <1>1, <1>8, <3>2 DEF Arguments, ArgumentsOf
      <4> QED BY <1>1, <1>2, <1>4, <3>2, <4>1 DEF MutexHeld, Others, MutexOp
    <3> QED BY <3>1, <3>2
  <2>4. \A u \in Thread, k \in Mutex : held'[u][k] <= MaxDepth
    <3>1. held[t][m] \in Nat /\ held[t][m] <= MaxDepth
      BY <1>1, <1>3, <1>6 DEF MutexHeld
    <3> QED BY <1>1, <1>8, <3>1, Apart DEF MutexHeld
  <2> QED BY <2>1, <2>2, <2>3, <2>4 DEF MutexHeld
<1>12. RwlockHeld'
  <2>1. \A r \in Rwlock : r # m /\ slot[r] # h
    BY <1>3, <1>9, Sets
  <2>2. \A k \in Host, u \in Thread : sort'[k] = "rwlock" /\ owner'[k] # NoThread => readers'[k][u] = 0
    BY <1>1, <1>2, <1>3, <1>7 DEF RwlockHeld
  <2>3. \A u \in Thread, r \in Rwlock :
          /\ writing'[u][r] <=> slot'[r] \in Host /\ owner'[slot'[r]] = u
          /\ reading'[u][r] = IF slot'[r] \in Host THEN readers'[slot'[r]][u] ELSE 0
    BY <1>1, <1>2, <1>7, <2>1 DEF RwlockHeld
  <2> QED BY <1>1, <1>2, <1>4, <2>2, <2>3 DEF RwlockHeld, Others, WaitOp
<1>13. Counted'
  BY <1>1, <1>2, <1>4 DEF Counted, Others, WaitOp
<1> QED BY <1>3, <1>5, <1>6, <1>8, <1>10, <1>11, <1>12, <1>13 DEF BInv, Holding, m

-----------------------------------------------------------------------------
(* Read-write locks and semaphores.                                        *)

LEMMA RwlockSteps ==
  ASSUME AInv, BInv, NEW t \in Thread, ReadLock(t) \/ WriteLock(t) \/ UnlockRwlock(t)
  PROVE  BInv'
<1> DEFINE h == hm[t]
           r == obj[t]
<1>1. /\ LockTypeOK /\ Arguments /\ Locals /\ Tenure /\ Words /\ Live /\ Private
      /\ FirstAlone /\ Named /\ NotLeaked /\ TypesAgree
      /\ Unheld /\ MutexHeld /\ RwlockHeld /\ Counted
  BY DEF AInv, BInv, Shape, Holding
<1>2. /\ Return(t) /\ pc[t] = "act" /\ op[t] \in {"rdlock", "wrlock", "rwunlock"}
      /\ h \in Host /\ sort[h] = "rwlock"
      /\ UNCHANGED <<slot, life, gtype, sort, type, depth, held, count, initial, tokens>>
  BY DEF ReadLock, WriteLock, UnlockRwlock, Reads, Writes, Holds, memory, hosts, locks
<1>3. /\ r \in Rwlock /\ slot[r] = h /\ \A k \in Guest : slot[k] = h => k = r
      /\ \A u \in Thread : raw[u] # h
  BY <1>1, <1>2, Sets DEF Arguments, ArgumentsOf, RwlockOp, Named, Private
<1>4. Shape'
  BY <1>1, <1>2, ReturnShape DEF ReadyNamed, BInv, Creating
<1>5. /\ Others(t) /\ op'[t] = "none" /\ pc'[t] = "idle" /\ raw'[t] = NoHost
  BY <1>1, <1>2, ReturnFrame
<1>6. /\ owner[h] \in Thread \cup {NoThread} /\ t # NoThread
      /\ \A u \in Thread :
           /\ readers[h][u] \in Nat
           /\ writing[u][r] \in BOOLEAN
           /\ writing[u][r] <=> owner[h] = u
           /\ reading[u][r] = readers[h][u]
           /\ owner[h] # NoThread => readers[h][u] = 0
  <2>1. ASSUME NEW u \in Thread
        PROVE  /\ readers[h][u] \in Nat /\ writing[u][r] \in BOOLEAN
               /\ owner[h] \in Thread \cup {NoThread}
    BY <1>1, <1>2, <1>3 DEF LockTypeOK
  <2> QED BY <1>1, <1>2, <1>3, <2>1, Apart DEF RwlockHeld
<1>7. \* What the three functions do to the host's lock and to the guest's.
      /\ \A k \in Host : k # h => owner'[k] = owner[k]
      /\ \A k \in Host, u \in Thread : k # h \/ u # t => readers'[k][u] = readers[k][u]
      /\ \A k \in Rwlock, u \in Thread : k # r \/ u # t =>
           writing'[u][k] = writing[u][k] /\ reading'[u][k] = reading[u][k]
      /\ \A u \in Thread : /\ writing'[u][r] <=> owner'[h] = u
                           /\ reading'[u][r] = readers'[h][u]
                           /\ owner'[h] # NoThread => readers'[h][u] = 0
  <2>0. /\ owner \in [Host -> Thread \cup {NoThread}] /\ readers \in [Host -> [Thread -> Nat]]
        /\ writing \in [Thread -> [Rwlock -> BOOLEAN]] /\ reading \in [Thread -> [Rwlock -> Int]]
    BY <1>1 DEF LockTypeOK
  <2> HIDE DEF h, r
  <2>1. CASE ReadLock(t)
    <3>1. /\ owner[h] = NoThread /\ readers' = [readers EXCEPT ![h][t] = readers[h][t] + 1]
          /\ reading' = [reading EXCEPT ![t][r] = reading[t][r] + 1]
          /\ owner' = owner /\ writing' = writing
      BY <1>2, <1>3, <2>0, <2>1 DEF ReadLock, Reads, hosts, h, r
    <3> QED BY <1>2, <1>3, <1>6, <2>0, <3>1
  <2>2. CASE WriteLock(t)
    <3>1. /\ owner[h] = NoThread /\ \A u \in Thread : readers[h][u] = 0
          /\ owner' = [owner EXCEPT ![h] = t]
          /\ writing' = [writing EXCEPT ![t][r] = TRUE]
          /\ readers' = readers /\ reading' = reading
      BY <2>2 DEF WriteLock, Writes, locks, h, r
    <3>2. /\ owner'[h] = t /\ \A k \in Host : k # h => owner'[k] = owner[k]
      BY <1>2, <2>0, <3>1
    <3>3. writing'[t][r] = TRUE /\ \A k \in Rwlock, u \in Thread : k # r \/ u # t => writing'[u][k] = writing[u][k]
      BY <1>3, <2>0, <3>1
    <3>4. \A u \in Thread : owner[h] # u
      BY <3>1, Apart
    <3>5. \A u \in Thread : writing'[u][r] <=> owner'[h] = u
      BY <1>3, <1>6, <3>2, <3>3, <3>4
    <3>6. \A u \in Thread : /\ reading'[u][r] = readers'[h][u]
                            /\ owner'[h] # NoThread => readers'[h][u] = 0
      BY <1>6, <3>1, <3>2
    <3>7. \A k \in Host, u \in Thread : k # h \/ u # t => readers'[k][u] = readers[k][u]
      BY <3>1
    <3>8. \A k \in Rwlock, u \in Thread : k # r \/ u # t => reading'[u][k] = reading[u][k]
      BY <3>1
    <3> QED BY <3>2, <3>3, <3>5, <3>6, <3>7, <3>8
  <2>3. CASE UnlockRwlock(t) /\ owner[h] = t
    <3>1. /\ owner' = [owner EXCEPT ![h] = NoThread]
          /\ writing' = [writing EXCEPT ![t][r] = FALSE]
          /\ readers' = readers /\ reading' = reading
      BY <1>6, <2>3 DEF UnlockRwlock, h, r
    <3>2. /\ owner'[h] = NoThread /\ \A k \in Host : k # h => owner'[k] = owner[k]
      BY <1>2, <2>0, <3>1
    <3>3. writing'[t][r] = FALSE /\ \A k \in Rwlock, u \in Thread : k # r \/ u # t => writing'[u][k] = writing[u][k]
      BY <1>3, <2>0, <3>1
    <3>4. \A u \in Thread : NoThread # u
      BY Apart
    <3>5. \A u \in Thread : writing'[u][r] <=> owner'[h] = u
      BY <1>3, <1>6, <2>3, <3>2, <3>3, <3>4
    <3>6. \A u \in Thread : /\ reading'[u][r] = readers'[h][u]
                            /\ owner'[h] # NoThread => readers'[h][u] = 0
      BY <1>6, <2>3, <3>1, <3>2
    <3>7. \A k \in Host, u \in Thread : k # h \/ u # t => readers'[k][u] = readers[k][u]
      BY <3>1
    <3>8. \A k \in Rwlock, u \in Thread : k # r \/ u # t => reading'[u][k] = reading[u][k]
      BY <3>1
    <3> QED BY <3>2, <3>3, <3>5, <3>6, <3>7, <3>8
  <2>4. CASE UnlockRwlock(t) /\ owner[h] # t
    <3>1. op[t] = "rwunlock"
      BY <2>4 DEF UnlockRwlock, Holds
    <3>2. reading[t][r] > 0 /\ readers[h][t] > 0 /\ ~writing[t][r]
      BY <1>1, <1>6, <2>4, <3>1 DEF RwlockHeld, r
    <3>3. /\ readers' = [readers EXCEPT ![h][t] = IF @ = 0 THEN 0 ELSE @ - 1]
          /\ reading' = [reading EXCEPT ![t][r] = @ - 1]
          /\ owner' = owner /\ writing' = writing
      BY <2>4, <3>2 DEF UnlockRwlock, h, r
    <3>4. readers'[h][t] = readers[h][t] - 1 /\ reading'[t][r] = reading[t][r] - 1
      BY <1>2, <1>3, <1>6, <2>0, <3>2, <3>3
    <3>5. /\ \A k \in Host, u \in Thread : k # h \/ u # t => readers'[k][u] = readers[k][u]
          /\ \A k \in Rwlock, u \in Thread : k # r \/ u # t => reading'[u][k] = reading[u][k]
      BY <1>2, <1>3, <2>0, <3>3
    <3>6. owner[h] = NoThread
      BY <1>6, <3>2
    <3> QED BY <1>2, <1>6, <3>3, <3>4, <3>5, <3>6
  <2> QED BY <2>1, <2>2, <2>3, <2>4
<1> HIDE DEF h, r
<1>8. Unheld'
  <2>1. \A k \in Host : k # h /\ Fresh(k) => Fresh(k)'
    BY <1>2, <1>7 DEF Fresh
  <2> QED BY <1>1, <1>2, <1>3, <1>5, <1>7, <2>1, Apart DEF Unheld, Others
<1>9. MutexHeld'
  <2>1. \A m \in Mutex : m \in Guest /\ m # r
    BY <1>3, Sets
  <2>2. \A m \in Mutex : slot[m] # h
    BY <1>3, <2>1
  <2>3. \A k \in Host : sort'[k] = "mutex" => (owner'[k] = NoThread <=> depth'[k] = 0)
    BY <1>1, <1>2, <1>7 DEF MutexHeld
  <2> QED BY <1>1, <1>2, <1>5, <1>7, <2>2, <2>3 DEF MutexHeld, Others, WaitOp
<1>10. RwlockHeld'
  <2>1. \A k \in Host, u \in Thread : sort'[k] = "rwlock" /\ owner'[k] # NoThread => readers'[k][u] = 0
    BY <1>1, <1>2, <1>7 DEF RwlockHeld
  <2>2. ASSUME NEW u \in Thread, NEW k \in Rwlock
        PROVE  /\ writing'[u][k] <=> slot'[k] \in Host /\ owner'[slot'[k]] = u
               /\ reading'[u][k] = IF slot'[k] \in Host THEN readers'[slot'[k]][u] ELSE 0
    <3>1. CASE k = r
      BY <1>2, <1>3, <1>7, <3>1
    <3>2. CASE k # r
      <4>1. slot[k] # h
        BY <1>3, <3>2, Sets
      <4> QED BY <1>1, <1>2, <1>7, <3>2, <4>1 DEF RwlockHeld
    <3> QED BY <3>1, <3>2
  <2>3. ASSUME NEW u \in Thread
        PROVE  (/\ op[u] = "rwunlock" => writing[u][obj[u]] \/ reading[u][obj[u]] > 0
                /\ op[u] = "rwdestroy" => \A v \in Thread : ~writing[v][obj[u]] /\ reading[v][obj[u]] = 0)'
    <3>1. CASE u = t
      BY <1>5, <3>1
    <3>2. CASE u # t
      <4>1. op[u] \in {"rwunlock", "rwdestroy"} => obj[u] \in Rwlock
        BY <1>1 DEF Arguments, ArgumentsOf, RwlockOp
      <4>2. op[u] = "rwdestroy" => obj[u] # r
        <5> SUFFICES ASSUME op[u] = "rwdestroy", obj[u] = r PROVE FALSE
          OBVIOUS
        <5>1. Uses(u, r) /\ Uses(t, r) /\ op[u] \in Changes
          BY <1>1, <1>2 DEF Uses, Arguments, ArgumentsOf, Changes, DestroyOp, r
        <5> QED BY <1>1, <1>3, <3>2, <5>1, Sets DEF Tenure
      <4>3. op'[u] = op[u] /\ obj'[u] = obj[u]
        BY <1>5, <3>2 DEF Others
      <4> QED BY <1>1, <1>7, <3>2, <4>1, <4>2, <4>3 DEF RwlockHeld
    <3> QED BY <3>1, <3>2
  <2> QED BY <2>1, <2>2, <2>3 DEF RwlockHeld
<1>11. Counted'
  BY <1>1, <1>2, <1>5 DEF Counted, Others
<1> QED BY <1>4, <1>8, <1>9, <1>10, <1>11 DEF BInv, Holding

LEMMA SemaphoreSteps ==
  ASSUME AInv, BInv, NEW t \in Thread, SemaphoreTaken(t) \/ SemaphorePosted(t)
  PROVE  BInv'
<1> DEFINE h == hm[t]
           s == obj[t]
<1>1. /\ LockTypeOK /\ Arguments /\ Locals /\ Tenure /\ Words /\ Live /\ Private
      /\ FirstAlone /\ Named /\ NotLeaked /\ TypesAgree
      /\ Unheld /\ MutexHeld /\ RwlockHeld /\ Counted
  BY DEF AInv, BInv, Shape, Holding
<1>2. /\ Return(t) /\ pc[t] = "act" /\ op[t] \in {"semwait", "semtrywait", "semtimedwait", "sempost"}
      /\ h \in Host /\ sort[h] = "semaphore"
      /\ UNCHANGED <<slot, life, gtype, sort, type, owner, depth, held, readers, initial, reading, writing>>
  BY DEF SemaphoreTaken, SemaphorePosted, Waits, Holds, memory, hosts
<1>3. /\ s \in Semaphore /\ s \in Guest /\ slot[s] = h /\ \A k \in Guest : slot[k] = h => k = s
      /\ \A u \in Thread : raw[u] # h
  BY <1>1, <1>2, Sets DEF Arguments, ArgumentsOf, SemaphoreOp, Named, Private
<1>4. Shape'
  BY <1>1, <1>2, ReturnShape DEF ReadyNamed, BInv, Creating
<1>5. /\ Others(t) /\ op'[t] = "none" /\ pc'[t] = "idle" /\ raw'[t] = NoHost
  BY <1>1, <1>2, ReturnFrame
<1>6. /\ count'[h] = tokens'[s]
      /\ \A k \in Host : k # h => count'[k] = count[k]
      /\ \A k \in Semaphore : k # s => tokens'[k] = tokens[k]
  <2>1. /\ count \in [Host -> Nat] /\ tokens \in [Semaphore -> Int] /\ tokens[s] = count[h]
    BY <1>1, <1>2, <1>3 DEF LockTypeOK, Counted
  <2>2. \/ count' = [count EXCEPT ![h] = @ - 1] /\ tokens' = [tokens EXCEPT ![s] = @ - 1]
        \/ count' = [count EXCEPT ![h] = @ + 1] /\ tokens' = [tokens EXCEPT ![s] = @ + 1]
    BY DEF SemaphoreTaken, SemaphorePosted
  <2> HIDE DEF h, s
  <2> QED BY <1>2, <1>3, <2>1, <2>2
<1> HIDE DEF h, s
<1>7. Unheld'
  BY <1>1, <1>2, <1>5, Apart DEF Unheld, Fresh, Others
<1>8. MutexHeld'
  BY <1>1, <1>2, <1>5 DEF MutexHeld, Others, WaitOp
<1>9. RwlockHeld'
  BY <1>1, <1>2, <1>5 DEF RwlockHeld, Others
<1>10. Counted'
  <2>1. \A k \in Semaphore : /\ life'[k] = "ready" /\ slot'[k] \notin Host => tokens'[k] = 0
                             /\ slot'[k] \in Host => tokens'[k] = count'[slot'[k]]
    BY <1>1, <1>2, <1>3, <1>6, Sets DEF Counted
  <2>2. ASSUME NEW u \in Thread
        PROVE  (/\ op[u] = "seminit" => tokens[obj[u]] = initial[u] \/ slot[obj[u]] \in Host
                /\ pc[u] = "mstore" /\ obj[u] \in Semaphore => tokens[obj[u]] = count[raw[u]])'
    <3>1. CASE u = t
      BY <1>5, <3>1
    <3>2. CASE u # t
      <4>1. op[u] = "seminit" => obj[u] \in Semaphore
        BY <1>1 DEF Arguments, ArgumentsOf, SemaphoreOp
      <4>2. op[u] = "seminit" /\ obj[u] = s => slot'[obj[u]] \in Host
        BY <1>2, <1>3
      <4>3. pc[u] = "mstore" => raw[u] \in Host /\ raw[u] # h /\ slot[obj[u]] \notin Host
        <5>1. pc[u] = "mstore" => Target(u) = obj[u]
          BY DEF Target
        <5> QED BY <1>1, <1>3, <5>1 DEF Locals, LocalsOf, Named, Creating
      <4> QED BY <1>1, <1>2, <1>3, <1>5, <1>6, <3>2, <4>1, <4>2, <4>3 DEF Counted, Others
    <3> QED BY <3>1, <3>2
  <2> QED BY <2>1, <2>2 DEF Counted
<1> QED BY <1>4, <1>7, <1>8, <1>9, <1>10 DEF BInv, Holding

-----------------------------------------------------------------------------
(* The guest's calls, and what the guest sees to before it makes them.     *)

LEMMA CallGuards ==
  ASSUME LockTypeOK, NEW t \in Thread, IsCall(t)
  PROVE  /\ UNCHANGED <<reading, writing>>
         /\ \A u \in Thread : u # t => initial'[u] = initial[u]
         /\ \A m \in Mutex : gtype'[m] # gtype[m] => life[m] = "raw"
         /\ \A s \in Semaphore : tokens'[s] # tokens[s] => life[s] = "raw"
         /\ op'[t] = "seminit" => tokens'[obj'[t]] = initial'[t]
         /\ op'[t] = "unlock" /\ gtype'[obj'[t]] = "normal" => held[t][obj'[t]] > 0
         /\ op'[t] \in WaitOp => held[t][obj'[t]] = 1 /\ pc'[t] = "cread"
         /\ op'[t] \in {"lock", "trylock"} => held[t][obj'[t]] < MaxDepth
         /\ op'[t] = "rwunlock" => writing[t][obj'[t]] \/ reading[t][obj'[t]] > 0
         /\ op'[t] = "rwdestroy" =>
              \A u \in Thread : ~writing[u][obj'[t]] /\ reading[u][obj'[t]] = 0
<1> DEFINE Enters(o, c, m, l) == op'[t] = o /\ obj'[t] = m /\ pc'[t] = l
           Guards == /\ \A m \in Mutex : gtype'[m] # gtype[m] => life[m] = "raw"
                     /\ op'[t] # "seminit"
                     /\ op'[t] = "unlock" /\ gtype'[obj'[t]] = "normal" => held[t][obj'[t]] > 0
                     /\ op'[t] \in WaitOp => held[t][obj'[t]] = 1 /\ pc'[t] = "cread"
                     /\ op'[t] \in {"lock", "trylock"} => held[t][obj'[t]] < MaxDepth
                     /\ op'[t] \notin {"rwunlock", "rwdestroy"}
<1>1. ASSUME NEW o, NEW c, NEW m, NEW l, Enter(t, o, c, m, l) PROVE Enters(o, c, m, l)
  BY <1>1 DEF Enter, Goto, LockTypeOK
<1>2. CASE Call(t) /\ SyncStep(t)
  <2>1. UNCHANGED history /\ \A u \in Thread : u # t => initial'[u] = initial[u]
    BY <1>2 DEF SyncStep, LockTypeOK
  <2> HIDE DEF Enters
  <2>2. ASSUME NEW m \in Mutex, NEW ty \in Type, CallMutexInit(t, m, ty) PROVE Guards
    <3>1. Enters("init", NoGuest, m, "zero") /\ gtype' = [gtype EXCEPT ![m] = ty] /\ life[m] = "raw"
      BY <1>1, <2>2 DEF CallMutexInit
    <3> QED BY <3>1 DEF LockTypeOK, WaitOp, Enters
  <2>3. ASSUME NEW m \in Mutex, NEW o \in MutexOp, CallMutex(t, o, m) PROVE Guards
    <3>1. Enters(o, NoGuest, m, "mread") /\ gtype' = gtype
      BY <1>1, <2>3 DEF CallMutex, memory
    <3>2. o = "lock" => held[t][m] < MaxDepth
      BY <2>3, Apart DEF CallMutex, LockTypeOK
    <3> QED BY <2>3, <3>1, <3>2 DEF CallMutex, WaitOp, Enters
  <2>4. ASSUME NEW m \in Mutex, CallMutexDestroy(t, m) PROVE Guards
    <3>1. Enters("destroy", NoGuest, m, "mread") /\ gtype' = gtype
      BY <1>1, <2>4 DEF CallMutexDestroy
    <3> QED BY <3>1 DEF WaitOp, Enters
  <2>5. ASSUME NEW c \in Cond, CallCondInit(t, c) PROVE Guards
    <3>1. Enters("cinit", c, NoGuest, "zero") /\ gtype' = gtype
      BY <1>1, <2>5 DEF CallCondInit
    <3> QED BY <3>1 DEF WaitOp, Enters
  <2>6. ASSUME NEW c \in Cond, CallCondDestroy(t, c) PROVE Guards
    <3>1. Enters("cdestroy", c, NoGuest, "cread") /\ gtype' = gtype
      BY <1>1, <2>6 DEF CallCondDestroy
    <3> QED BY <3>1 DEF WaitOp, Enters
  <2>7. ASSUME NEW c \in Cond, NEW o \in CondOp, CallCond(t, o, c) PROVE Guards
    <3>1. Enters(o, c, NoGuest, "cread") /\ gtype' = gtype
      BY <1>1, <2>7 DEF CallCond, memory
    <3> QED BY <2>7, <3>1 DEF CallCond, WaitOp, Enters
  <2>8. ASSUME NEW c \in Cond, NEW m \in Mutex, NEW o \in WaitOp, CallWait(t, o, c, m) PROVE Guards
    <3>1. Enters(o, c, m, "cread") /\ gtype' = gtype /\ held[t][m] = 1
      BY <1>1, <2>8 DEF CallWait, memory
    <3> QED BY <2>8, <3>1 DEF WaitOp, Enters
  <2> HIDE DEF Guards
  <2>9. Guards
    BY <1>2, <2>2, <2>3, <2>4, <2>5, <2>6, <2>7, <2>8 DEF Call
  <2> QED BY <2>1, <2>9 DEF Guards, history
<1>3. CASE LockCall(t)
  <2>1. gtype' = gtype /\ UNCHANGED <<reading, writing>>
    BY <1>3 DEF LockCall, CallInit, CallDestroy, CallRwlock, CallSemaphore, memory, history
  <2> HIDE DEF Enters
  <2> DEFINE LockGuards ==
               /\ \A u \in Thread : u # t => initial'[u] = initial[u]
               /\ \A s \in Semaphore : tokens'[s] # tokens[s] => life[s] = "raw"
               /\ op'[t] = "seminit" => tokens'[obj'[t]] = initial'[t]
               /\ op'[t] \in RwlockOp \cup SemaphoreOp
               /\ op'[t] = "rwunlock" => writing[t][obj'[t]] \/ reading[t][obj'[t]] > 0
               /\ op'[t] = "rwdestroy" =>
                    \A u \in Thread : ~writing[u][obj'[t]] /\ reading[u][obj'[t]] = 0
  <2>2. ASSUME NEW g \in Rwlock \cup Semaphore, NEW o \in InitOp, NEW v \in 0 .. MaxCount, CallInit(t, g, o, v)
        PROVE  LockGuards
    <3>1. /\ Enters(o, NoGuest, g, "zero") /\ life[g] = "raw"
          /\ <<g, o>> \in (Rwlock \X {"rwinit"}) \cup (Semaphore \X {"seminit"})
          /\ initial' = [initial EXCEPT ![t] = v]
          /\ tokens' = IF g \in Semaphore THEN [tokens EXCEPT ![g] = v] ELSE tokens
      BY <1>1, <2>2 DEF CallInit
    <3>2. (g \in Rwlock /\ o = "rwinit") \/ (g \in Semaphore /\ o = "seminit")
      BY <3>1
    <3>3. initial'[t] = v /\ \A u \in Thread : u # t => initial'[u] = initial[u]
      BY <3>1 DEF LockTypeOK
    <3>4. g \in Semaphore => tokens'[g] = v /\ \A s \in Semaphore : s # g => tokens'[s] = tokens[s]
      BY <3>1 DEF LockTypeOK
    <3> QED BY <3>1, <3>2, <3>3, <3>4 DEF RwlockOp, SemaphoreOp, Enters
  <2>3. ASSUME NEW g \in Rwlock \cup Semaphore, NEW o \in DestroyOp, CallDestroy(t, g, o)
        PROVE  LockGuards
    <3>1. /\ Enters(o, NoGuest, g, "mread") /\ UNCHANGED <<initial, tokens>>
          /\ <<g, o>> \in (Rwlock \X {"rwdestroy"}) \cup (Semaphore \X {"semdestroy"})
          /\ g \in Rwlock => \A u \in Thread : reading[u][g] = 0 /\ ~writing[u][g]
      BY <1>1, <2>3 DEF CallDestroy, history
    <3>2. (g \in Rwlock /\ o = "rwdestroy") \/ (g \in Semaphore /\ o = "semdestroy")
      BY <3>1
    <3> QED BY <3>1, <3>2 DEF RwlockOp, SemaphoreOp, Enters
  <2>4. ASSUME NEW g \in Rwlock, NEW o \in RwlockOp, CallRwlock(t, g, o) PROVE LockGuards
    <3>1. Enters(o, NoGuest, g, "mread") /\ UNCHANGED <<initial, tokens>>
      BY <1>1, <2>4 DEF CallRwlock, history
    <3> QED BY <2>4, <3>1 DEF CallRwlock, RwlockOp, SemaphoreOp, Enters
  <2>5. ASSUME NEW g \in Semaphore, NEW o \in SemaphoreOp, CallSemaphore(t, g, o) PROVE LockGuards
    <3>1. Enters(o, NoGuest, g, "mread") /\ UNCHANGED <<initial, tokens>>
      BY <1>1, <2>5 DEF CallSemaphore, history
    <3> QED BY <2>5, <3>1 DEF CallSemaphore, SemaphoreOp, Enters
  <2> HIDE DEF LockGuards
  <2>6. LockGuards
    BY <1>3, <2>2, <2>3, <2>4, <2>5 DEF LockCall
  <2>7. op'[t] \notin WaitOp \cup {"unlock", "lock", "trylock"}
    BY <2>6 DEF LockGuards, RwlockOp, SemaphoreOp, WaitOp
  <2> QED BY <2>1, <2>6, <2>7 DEF LockGuards
<1> QED BY <1>2, <1>3 DEF IsCall

LEMMA CallSteps ==
  ASSUME AInv, BInv, Racy = FALSE, NEW t \in Thread, IsCall(t)
  PROVE  BInv'
<1>1. /\ LockTypeOK /\ Arguments /\ Locals /\ Tenure /\ Words /\ Live /\ Private
      /\ FirstAlone /\ Named /\ NotLeaked /\ TypesAgree
      /\ Unheld /\ MutexHeld /\ RwlockHeld /\ Counted
  BY DEF AInv, BInv, Shape, Holding
<1>2. PICK o, c, m : Begins(t, o, c, m)
  BY CallsBegin
<1>3. /\ Others(t) /\ op'[t] = o /\ cnd'[t] = c /\ obj'[t] = m /\ pc'[t] = Places(o, c)
      /\ UNCHANGED <<slot, sort, type, owner, depth, held, readers, count, raw, hc, hm>>
  BY <1>1, <1>2, BeginFrame DEF Begins, hosts, locks
<1>4. /\ pc[t] = "idle" /\ raw[t] = NoHost /\ hc[t] = NoHost /\ hm[t] = NoHost
      /\ pc'[t] \in {"zero", "cread", "mread"} /\ (o \in InitOp => pc'[t] = "zero")
  BY <1>1, <1>2, <1>3 DEF Begins, Locals, LocalsOf, Creating, Places
<1>5. /\ \A u \in Thread, g \in Guest : u # t => (Uses(u, g)' <=> Uses(u, g))
      /\ \A g \in Guest : Uses(t, g)' => g \in {c, m} \ {NoGuest}
  BY <1>3, Apart DEF Uses, Others
<1>6. /\ \A g \in Guest : life'[g] = "ready" => life[g] = "ready"
      /\ \A u \in Thread, g \in Guest : Uses(u, g) => life[g] # "raw"
      /\ \A g \in Guest : slot[g] \in Host \/ life[g] = "ready" => life[g] # "raw"
  BY <1>1, <1>2 DEF Begins, LockTypeOK, Tenure, Words
<1>7. \A k \in Mutex : life[k] # "raw" => gtype'[k] = gtype[k]
  BY <1>1, CallGuards
<1>8. FirstAlone'
  <2> SUFFICES ASSUME NEW g \in Guest, NEW u \in Thread, NEW v \in Thread,
                      slot[g] \notin Host, Uses(u, g)', Uses(v, g)'
               PROVE  u = v
    BY <1>3 DEF FirstAlone
  <2>1. \A w \in Thread : w # t /\ Uses(w, g) => ~Uses(t, g)'
    BY <1>2, <1>5 DEF Begins, FirstUseAlone
  <2> QED BY <1>1, <1>5, <2>1 DEF FirstAlone
<1>9. Named'
  <2>1. \A u \in Thread : u # t => Target(u)' = Target(u)
    BY <1>3 DEF Others, Target
  <2> QED BY <1>1, <1>3, <1>4, <2>1, Apart DEF Named, Others, Creating
<1>10. NotLeaked'
  BY <1>1, <1>3 DEF NotLeaked
<1>11. TypesAgree'
  <2>1. \A k \in Mutex : /\ life'[k] = "ready" /\ slot'[k] \notin Host => slot'[k] = Initialiser(gtype'[k])
                         /\ slot'[k] \in Host => type'[slot'[k]] = Meant(gtype'[k])
    BY <1>1, <1>3, <1>6, <1>7, Sets DEF TypesAgree
  <2>2. ASSUME NEW u \in Thread
        PROVE  (/\ op[u] = "init" /\ pc[u] \notin {"zero", "act"} => slot[obj[u]] = 0
                /\ pc[u] = "malloc" => raw[u] = slot[obj[u]]
                /\ pc[u] = "mstore" /\ obj[u] \in Mutex => type[raw[u]] = Meant(gtype[obj[u]]))'
    <3>1. CASE u = t
      BY <1>3, <1>4, <3>1 DEF InitOp
    <3>2. CASE u # t
      <4>1. pc[u] = "mstore" /\ obj[u] \in Mutex => gtype'[obj[u]] = gtype[obj[u]]
        BY <1>6, <1>7, Sets DEF Uses
      <4> QED BY <1>1, <1>3, <3>2, <4>1 DEF TypesAgree, Others
    <3> QED BY <3>1, <3>2
  <2> QED BY <2>1, <2>2 DEF TypesAgree
<1>12. Unheld'
  BY <1>1, <1>3 DEF Unheld, Fresh
<1>13. MutexHeld'
  <2>1. ASSUME NEW u \in Thread
        PROVE  (/\ op[u] = "unlock" /\ gtype[obj[u]] = "normal" => held[u][obj[u]] > 0
                /\ op[u] \in WaitOp => held[u][obj[u]] = IF pc[u] \in {"waiting", "reacquire"} THEN 0 ELSE 1
                /\ op[u] \in {"lock", "trylock"} => held[u][obj[u]] < MaxDepth)'
    <3>1. CASE u = t
      BY <1>1, <1>3, <3>1, CallGuards
    <3>2. CASE u # t
      <4>1. op[u] = "unlock" => gtype'[obj[u]] = gtype[obj[u]]
        BY <1>1, <1>6, <1>7, Sets DEF Uses, Arguments, ArgumentsOf, MutexOp
      <4> QED BY <1>1, <1>3, <3>2, <4>1 DEF MutexHeld, Others
    <3> QED BY <3>1, <3>2
  <2> QED BY <1>1, <1>3, <2>1 DEF MutexHeld
<1>14. RwlockHeld'
  <2>1. UNCHANGED <<reading, writing>>
    BY <1>1, CallGuards
  <2>2. ASSUME NEW u \in Thread
        PROVE  (/\ op[u] = "rwunlock" => writing[u][obj[u]] \/ reading[u][obj[u]] > 0
                /\ op[u] = "rwdestroy" => \A v \in Thread : ~writing[v][obj[u]] /\ reading[v][obj[u]] = 0)'
    <3>1. CASE u = t
      BY <1>1, <2>1, <3>1, CallGuards
    <3>2. CASE u # t
      BY <1>1, <1>3, <2>1, <3>2 DEF RwlockHeld, Others
    <3> QED BY <3>1, <3>2
  <2> QED BY <1>1, <1>3, <2>1, <2>2 DEF RwlockHeld
<1>15. Counted'
  <2>1. \A s \in Semaphore : life[s] # "raw" => tokens'[s] = tokens[s]
    BY <1>1, CallGuards
  <2>2. \A s \in Semaphore : /\ life'[s] = "ready" /\ slot'[s] \notin Host => tokens'[s] = 0
                             /\ slot'[s] \in Host => tokens'[s] = count'[slot'[s]]
    BY <1>1, <1>3, <1>6, <2>1, Sets DEF Counted
  <2>3. ASSUME NEW u \in Thread
        PROVE  (/\ op[u] = "seminit" => tokens[obj[u]] = initial[u] \/ slot[obj[u]] \in Host
                /\ pc[u] = "mstore" /\ obj[u] \in Semaphore => tokens[obj[u]] = count[raw[u]])'
    <3>1. CASE u = t
      BY <1>1, <1>4, <3>1, CallGuards
    <3>2. CASE u # t
      <4>1. op[u] = "seminit" => obj[u] \in Semaphore /\ pc[u] # "idle"
        BY <1>1 DEF Arguments, ArgumentsOf, SemaphoreOp
      <4>2. (op[u] = "seminit" \/ pc[u] = "mstore") /\ obj[u] \in Semaphore => tokens'[obj[u]] = tokens[obj[u]]
        BY <1>6, <2>1, <4>1, Sets DEF Uses
      <4>3. initial'[u] = initial[u]
        BY <1>1, <3>2, CallGuards
      <4> QED BY <1>1, <1>3, <3>2, <4>1, <4>2, <4>3 DEF Counted, Others
    <3> QED BY <3>1, <3>2
  <2> QED BY <2>2, <2>3 DEF Counted
<1> QED BY <1>8, <1>9, <1>10, <1>11, <1>12, <1>13, <1>14, <1>15 DEF BInv, Shape, Holding

-----------------------------------------------------------------------------
LEMMA BInvInit == LockInit => BInv
<1> SUFFICES ASSUME LockInit PROVE BInv
  OBVIOUS
<1>1. LockTypeOK
  BY AInvInit DEF AInv
<1>2. /\ \A t \in Thread : /\ pc[t] = "idle" /\ op[t] = "none"
                           /\ raw[t] = NoHost /\ hc[t] = NoHost /\ hm[t] = NoHost
      /\ \A g \in Guest : slot[g] \notin Host
      /\ \A h \in Host : /\ sort[h] = "free" /\ owner[h] = NoThread /\ depth[h] = 0
                         /\ \A t \in Thread : readers[h][t] = 0
      /\ \A t \in Thread, m \in Mutex : held[t][m] = 0
      /\ \A t \in Thread, r \in Rwlock : ~writing[t][r] /\ reading[t][r] = 0
      /\ \A s \in Semaphore : tokens[s] = 0
      /\ \A m \in Mutex : life[m] = "ready" => slot[m] = Initialiser(gtype[m])
  BY FirstWords, Sets DEF LockInit, Init
<1>3. FirstAlone /\ Named /\ NotLeaked /\ TypesAgree
  BY <1>2, Apart, Sets DEF FirstAlone, Named, NotLeaked, TypesAgree, Uses, Creating
<1>4. Unheld /\ MutexHeld
  BY <1>2, Apart, Sets DEF Unheld, MutexHeld, Fresh, WaitOp
<1>5. RwlockHeld /\ Counted
  BY <1>2, Apart, Sets DEF RwlockHeld, Counted
<1> QED BY <1>3, <1>4, <1>5 DEF BInv, Shape, Holding

\* Every step but the ones that take and give up a host mutex.
LEMMA StepKinds ==
  ASSUME NEW t \in Thread, SyncStep(t) \/ LockCall(t) \/ LockProceed(t)
  PROVE  \/ IsCall(t)
         \/ SyncStep(t) /\ (LockTakes(t) \/ WaitReturns(t))
         \/ SyncStep(t) /\ (WaitBlocks(t) \/ (UnlockReturns(t) /\ UnlockAllowed(t, hm[t])))
         \/ /\ held' = held /\ gtype' = gtype
            /\ \/ AllocateLock(t) \/ ReadLock(t) \/ WriteLock(t) \/ UnlockRwlock(t)
               \/ SemaphoreTaken(t) \/ SemaphorePosted(t) \/ LockDeadlocks(t) \/ SemaphoreReturns(t)
               \/ /\ SyncStep(t)
                  /\ \/ Zero(t) \/ ReadCond(t) \/ ReadObject(t) \/ AllocateFails(t) \/ Store(t)
                     \/ ReturnError(t) \/ InitReturns(t) \/ DestroyBusy(t) \/ LockRefused(t)
                     \/ UnlockReturns(t) /\ ~UnlockAllowed(t, hm[t])
                     \/ Destroy(t) \/ WaitExpires(t) \/ Wake(t)
<1>1. CASE LockCall(t) \/ (SyncStep(t) /\ Call(t))
  BY <1>1 DEF IsCall
<1>2. CASE LockProceed(t)
  BY <1>2 DEF LockProceed, AllocateLock, Allocate, ReadLock, WriteLock, UnlockRwlock, SemaphoreTaken,
     SemaphorePosted, LockDeadlocks, SemaphoreReturns, memory
<1>3. CASE SyncStep(t) /\ Proceed(t)
  BY <1>3 DEF Proceed, Zero, ReadCond, ReadObject, AllocateFails, Store, ReturnError, InitReturns,
     DestroyBusy, LockRefused, UnlockReturns, Destroy, WaitExpires, Wake, memory
<1> QED BY <1>1, <1>2, <1>3 DEF SyncStep

LEMMA BInvStep ==
  ASSUME Racy = FALSE, AInv, BInv, [LockNext]_lockvars
  PROVE  BInv'
<1>1. CASE UNCHANGED lockvars
  BY <1>1 DEF BInv, Shape, Holding, FirstAlone, Named, NotLeaked, TypesAgree, Unheld, Fresh, MutexHeld,
     RwlockHeld, Counted, Uses, Target, lockvars, vars, memory, hosts, args, handles, locks, history
<1>2. ASSUME NEW t \in Thread, SyncStep(t) \/ LockCall(t) \/ LockProceed(t) PROVE BInv'
  BY <1>2, StepKinds, CallSteps, TakeSteps, GiveSteps, AllocateSteps, RwlockSteps, SemaphoreSteps,
     QuietReturns, QuietSteps, ZeroSteps, StoreSteps, DestroySteps, WakeSteps
<1> QED BY <1>1, <1>2 DEF LockNext, Rest

LEMMA BInvAlways ==
  ASSUME Racy = FALSE
  PROVE  LockSpec => [](AInv /\ BInv)
<1>1. LockInit => AInv /\ BInv
  BY AInvInit, BInvInit
<1>2. AInv /\ BInv /\ [LockNext]_lockvars => (AInv /\ BInv)'
  BY AInvStep, BInvStep
<1> QED BY <1>1, <1>2, PTL DEF LockSpec

(***************************************************************************)
(* Of guests whose first calls do not race.  No two threads hold the same  *)
(* guest mutex, and a writer of a guest read-write lock is alone: the      *)
(* host objects behind the words exclude for the guest, through lazy       *)
(* creation, waits, destruction and re-initialisation.                     *)
(***************************************************************************)
THEOREM GuestsExclude ==
  ASSUME Racy = FALSE
  PROVE  LockSpec => []Exclusion
<1>1. AInv /\ BInv => Exclusion
  <2> SUFFICES ASSUME AInv, BInv PROVE Exclusion
    OBVIOUS
  <2>1. LockTypeOK /\ Live /\ MutexHeld /\ RwlockHeld
    BY DEF AInv, BInv, Holding
  <2>2. MutualExclusion
    BY <2>1 DEF MutualExclusion, MutexHeld
  <2>3. ASSUME NEW r \in Rwlock, NEW t \in Thread, NEW u \in Thread,
               writing[t][r], writing[u][r] \/ reading[u][r] > 0
        PROVE  t = u
    <3>1. slot[r] \in Host /\ owner[slot[r]] = t /\ sort[slot[r]] = "rwlock"
      BY <2>1, <2>3, SortOf, Sets DEF RwlockHeld, Live
    <3>2. reading[u][r] = 0
      BY <2>1, <3>1, Apart DEF RwlockHeld
    <3> QED BY <2>1, <2>3, <3>1, <3>2 DEF RwlockHeld
  <2> QED BY <2>2, <2>3 DEF Exclusion
<1> QED BY <1>1, BInvAlways, PTL

(***************************************************************************)
(* A signal sent to the guest condition reaches whoever waits on it: the   *)
(* host condition a thread sleeps on is the one the word names.            *)
(***************************************************************************)
THEOREM WaitersAreReachable ==
  ASSUME Racy = FALSE
  PROVE  LockSpec => []WaitersReachable
<1>1. AInv /\ BInv => WaitersReachable
  BY DEF AInv, BInv, Shape, Named, Locals, LocalsOf, WaitersReachable
<1> QED BY <1>1, BInvAlways, PTL

(***************************************************************************)
(* The heap: every live host object is in exactly one word, or in the      *)
(* hands of the one thread that is about to store it; so calloc's result   *)
(* in a getter is neither lost nor shared, and destroy frees it once.      *)
(***************************************************************************)
THEOREM OneWordEach ==
  ASSUME Racy = FALSE
  PROVE  LockSpec => []OneWordPerHost
<1>1. AInv /\ BInv => OneWordPerHost
  <2> SUFFICES ASSUME AInv, BInv, NEW h \in Host, sort[h] # "free"
               PROVE  Cardinality({g \in Guest : slot[g] = h} \cup {t \in Thread : raw[t] = h}) = 1
    BY DEF OneWordPerHost
  <2> DEFINE S == {g \in Guest : slot[g] = h} \cup {t \in Thread : raw[t] = h}
  <2>1. Private /\ NotLeaked
    BY DEF AInv, BInv, Shape
  <2>2. \E x : S = {x}
    <3>1. CASE \E g \in Guest : slot[g] = h
      <4>1. PICK g \in Guest : slot[g] = h
        BY <3>1
      <4>2. S = {g}
        BY <2>1, <4>1 DEF Private
      <4> QED BY <4>2
    <3>2. CASE \E t \in Thread : raw[t] = h
      <4>1. PICK t \in Thread : raw[t] = h
        BY <3>2
      <4>2. S = {t}
        BY <2>1, <4>1 DEF Private
      <4> QED BY <4>2
    <3> QED BY <2>1, <3>1, <3>2 DEF NotLeaked
  <2> QED BY <2>2, FS_Singleton
<1> QED BY <1>1, BInvAlways, PTL

(***************************************************************************)
(* A guest semaphore counts what it was given, plus the posts, less the    *)
(* waits that returned 0, whichever call made its host semaphore and       *)
(* however often the word was destroyed and initialised again.             *)
(***************************************************************************)
THEOREM PostsAreKept ==
  ASSUME Racy = FALSE
  PROVE  LockSpec => []PostsKept
<1>1. AInv /\ BInv => PostsKept
  BY DEF BInv, Holding, Counted, PostsKept
<1> QED BY <1>1, BInvAlways, PTL

(***************************************************************************)
(* Of guests whose first calls do not race.  Every variable keeps its      *)
(* type, and no mutex is entered more often than the guest may: the depth  *)
(* of a host mutex is bounded although the bridge never looks at it.       *)
(***************************************************************************)
THEOREM SyncTypesAlways ==
  ASSUME Racy = FALSE
  PROVE  LockSpec => []TypeOK
<1>1. AInv /\ BInv => TypeOK
  <2> SUFFICES ASSUME AInv, BInv PROVE TypeOK
    OBVIOUS
  <2>1. LockTypeOK /\ Live /\ NotLeaked /\ Unheld /\ MutexHeld
    BY DEF AInv, BInv, Shape, Holding
  <2>2. ASSUME NEW h \in Host PROVE depth[h] \in 0 .. MaxDepth
    <3>1. depth[h] \in Nat /\ owner[h] \in Thread \cup {NoThread}
      BY <2>1 DEF LockTypeOK
    <3>2. CASE depth[h] = 0
      BY <3>2, Apart
    <3>3. CASE depth[h] # 0
      <4>1. sort[h] = "mutex" /\ owner[h] \in Thread
        BY <2>1, <3>1, <3>3 DEF Unheld, MutexHeld
      <4>2. PICK g \in Guest : slot[g] = h
        BY <2>1, <3>3, <4>1 DEF NotLeaked, Unheld, Fresh
      <4>3. g \in Mutex
        BY <2>1, <4>1, <4>2, SortOf DEF Live
      <4>4. held[owner[h]][g] = depth[h] /\ held[owner[h]][g] <= MaxDepth
        BY <2>1, <4>1, <4>2, <4>3 DEF MutexHeld
      <4> QED BY <3>1, <4>4, Apart
    <3> QED BY <3>2, <3>3
  <2>3. depth \in [Host -> 0 .. MaxDepth]
    BY <2>1, <2>2 DEF LockTypeOK
  <2>4. held \in [Thread -> [Mutex -> 0 .. MaxDepth]]
    <3>1. held \in [Thread -> [Mutex -> Nat]] /\ \A t \in Thread, m \in Mutex : held[t][m] <= MaxDepth
      BY <2>1 DEF LockTypeOK, MutexHeld
    <3>2. \A t \in Thread : held[t] \in [Mutex -> 0 .. MaxDepth]
      BY <3>1, Apart
    <3> QED BY <3>1, <3>2
  <2> QED BY <2>1, <2>3, <2>4 DEF TypeOK, LockTypeOK
<1> QED BY <1>1, BInvAlways, PTL

-----------------------------------------------------------------------------
(* The refinement: what the guest holds says who owns the host mutex.      *)

HolderOf(m) == IF slot[m] \in Host THEN owner[slot[m]] ELSE NoThread
DepthOf(m) == IF slot[m] \in Host THEN depth[slot[m]] ELSE 0
HeldSays(m) ==
  /\ HolderOf(m) \in Thread \cup {NoThread} /\ DepthOf(m) \in Nat
  /\ \A t \in Thread : held[t][m] \in Nat /\ (HolderOf(m) = t <=> held[t][m] > 0)
  /\ HolderOf(m) = NoThread => DepthOf(m) = 0
  /\ \A t \in Thread : HolderOf(m) = t => DepthOf(m) = held[t][m]
OwnersHold == \A m \in Mutex : HeldSays(m)

LEMMA OwnersHoldAlways == AInv /\ BInv => OwnersHold
<1> SUFFICES ASSUME AInv, BInv, NEW m \in Mutex PROVE HeldSays(m)
  BY DEF OwnersHold
<1>1. LockTypeOK /\ Live /\ MutexHeld
  BY DEF AInv, BInv, Holding
<1>2. HolderOf(m) \in Thread \cup {NoThread} /\ DepthOf(m) \in Nat /\ \A t \in Thread : held[t][m] \in Nat
  BY <1>1, Sets DEF LockTypeOK, HolderOf, DepthOf
<1>3. HolderOf(m) = NoThread <=> DepthOf(m) = 0
  <2>1. slot[m] \in Host => sort[slot[m]] = "mutex"
    BY <1>1, SortOf, Sets DEF Live
  <2> QED BY <1>1, <2>1 DEF MutexHeld, HolderOf, DepthOf
<1>4. \A t \in Thread : held[t][m] = IF HolderOf(m) = t THEN DepthOf(m) ELSE 0
  BY <1>1, Apart DEF MutexHeld, HolderOf, DepthOf
<1> HIDE DEF HolderOf, DepthOf
<1> QED BY <1>2, <1>3, <1>4, Apart DEF HeldSays

LEMMA Abstraction == LockInit => Abstract!Init
<1> SUFFICES ASSUME LockInit PROVE Abstract!Init
  OBVIOUS
<1>1. \A m \in Mutex : slot[m] \notin Host
  BY FirstWords, Sets
<1> QED BY <1>1 DEF Abstract!Init, LockInit, Init, Type

\* The abstract mutexes, by what the guest holds.
LEMMA AbstractStep ==
  ASSUME AInv, BInv, AInv', BInv', [LockNext]_lockvars
  PROVE  [Abstract!Next]_Abstract!vars
<1>0. \A m \in Mutex : HeldSays(m) /\ HeldSays(m)'
  <2>1. OwnersHold
    BY OwnersHoldAlways
  <2>2. AInv' /\ BInv' => OwnersHold'
    BY OwnersHoldAlways, PTL
  <2> QED BY <2>1, <2>2 DEF OwnersHold
<1>1. ASSUME NEW m \in Mutex, \A t \in Thread : held'[t][m] = held[t][m]
      PROVE  HolderOf(m)' = HolderOf(m) /\ DepthOf(m)' = DepthOf(m)
  BY <1>0, <1>1, Apart DEF HeldSays
<1>2. \* A step that the abstract mutexes do not see.
      ASSUME gtype' = gtype, \A m \in Mutex, t \in Thread : held'[t][m] = held[t][m]
      PROVE  UNCHANGED Abstract!vars
  <2>1. \A m \in Mutex : HolderOf(m)' = HolderOf(m) /\ DepthOf(m)' = DepthOf(m)
    BY <1>1, <1>2
  <2> QED BY <1>2, <2>1 DEF Abstract!vars, HolderOf, DepthOf
<1>3. CASE UNCHANGED lockvars
  BY <1>2, <1>3 DEF lockvars, vars, memory
<1>4. ASSUME NEW t \in Thread, SyncStep(t) \/ LockCall(t) \/ LockProceed(t)
      PROVE  [Abstract!Next]_Abstract!vars
  <2>1. CASE SyncStep(t) /\ (LockTakes(t) \/ WaitReturns(t))
    <3>1. PICK m \in Mutex :
          /\ held'[t][m] = held[t][m] + 1
          /\ \A u \in Thread, k \in Mutex : u # t \/ k # m => held'[u][k] = held[u][k]
          /\ (\A u \in Thread : held[u][m] = 0) \/ (held[t][m] > 0 /\ gtype[m] = "recursive")
      BY <2>1, TakeSteps
    <3>2. gtype' = gtype
      BY <2>1 DEF LockTakes, WaitReturns, memory
    <3>3. /\ HolderOf(m)' = t /\ DepthOf(m)' = held[t][m] + 1
          /\ \A k \in Mutex : k # m => HolderOf(k)' = HolderOf(k) /\ DepthOf(k)' = DepthOf(k)
      BY <1>0, <1>1, <3>1 DEF HeldSays
    <3>4. CASE \A u \in Thread : held[u][m] = 0
      <4>1. HolderOf(m) = NoThread /\ held[t][m] = 0
        BY <1>0, <3>1, <3>4 DEF HeldSays
      <4>2. Abstract!Lock(t, m)
        <5>1. DepthOf(m)' = 1
          BY <3>3, <4>1
        <5>2. /\ [k \in Mutex |-> HolderOf(k)]' = [[k \in Mutex |-> HolderOf(k)] EXCEPT ![m] = t]
              /\ [k \in Mutex |-> DepthOf(k)]' = [[k \in Mutex |-> DepthOf(k)] EXCEPT ![m] = 1]
          BY <3>3, <5>1
        <5> QED BY <3>2, <4>1, <5>2 DEF Abstract!Lock, HolderOf, DepthOf
      <4> QED BY <3>1, <4>2 DEF Abstract!Next
    <3>5. CASE held[t][m] > 0 /\ gtype[m] = "recursive"
      <4>1. HolderOf(m) = t /\ held[t][m] = DepthOf(m)
        BY <1>0, <3>1, <3>5 DEF HeldSays
      <4>2. Abstract!Reenter(t, m)
        <5>1. /\ [k \in Mutex |-> HolderOf(k)]' = [k \in Mutex |-> HolderOf(k)]
              /\ [k \in Mutex |-> DepthOf(k)]' = [[k \in Mutex |-> DepthOf(k)] EXCEPT ![m] = @ + 1]
          BY <3>3, <4>1
        <5> QED BY <3>2, <3>5, <4>1, <5>1 DEF Abstract!Reenter, HolderOf, DepthOf
      <4> QED BY <3>1, <4>2 DEF Abstract!Next
    <3> QED BY <3>1, <3>4, <3>5
  <2>2. CASE SyncStep(t) /\ (WaitBlocks(t) \/ (UnlockReturns(t) /\ UnlockAllowed(t, hm[t])))
    <3>1. PICK m \in Mutex :
          /\ held[t][m] > 0 /\ held'[t][m] = held[t][m] - 1
          /\ \A u \in Thread, k \in Mutex : u # t \/ k # m => held'[u][k] = held[u][k]
      BY <2>2, GiveSteps
    <3>2. gtype' = gtype
      BY <2>2 DEF WaitBlocks, UnlockReturns, memory
    <3>3. /\ HolderOf(m) = t /\ DepthOf(m) = held[t][m] /\ held[t][m] \in Nat
          /\ \A k \in Mutex : k # m => HolderOf(k)' = HolderOf(k) /\ DepthOf(k)' = DepthOf(k)
      BY <1>0, <1>1, <3>1 DEF HeldSays
    <3>4. /\ HolderOf(m)' = (IF DepthOf(m) = 1 THEN NoThread ELSE t)
          /\ DepthOf(m)' = DepthOf(m) - 1
      <4>1. \A u \in Thread : u # t => held'[u][m] = 0
        BY <1>0, <3>1, <3>3 DEF HeldSays
      <4> QED BY <1>0, <3>1, <3>3, <4>1 DEF HeldSays
    <3>5. Abstract!Unlock(t, m)
      BY <3>1, <3>2, <3>3, <3>4 DEF Abstract!Unlock, HolderOf, DepthOf
    <3> QED BY <3>1, <3>5 DEF Abstract!Next
  <2>3. CASE IsCall(t)
    <3>1. held' = held
      <4>1. PICK o, c, k : Begins(t, o, c, k)
        BY <2>3, CallsBegin
      <4> QED BY <4>1 DEF Begins
    <3>2. CASE \E k \in Mutex, ty \in Type : CallMutexInit(t, k, ty)
      <4>1. PICK k \in Mutex, ty \in Type : CallMutexInit(t, k, ty)
        BY <3>2
      <4>2. gtype' = [gtype EXCEPT ![k] = ty] /\ life[k] = "raw"
        BY <4>1 DEF CallMutexInit
      <4>3. HolderOf(k) = NoThread
        BY <4>2, Sets DEF AInv, Words, HolderOf
      <4>4. \A j \in Mutex : HolderOf(j)' = HolderOf(j) /\ DepthOf(j)' = DepthOf(j)
        BY <1>1, <3>1
      <4>5. Abstract!Retype(k)
        BY <4>2, <4>3, <4>4 DEF Abstract!Retype, HolderOf, DepthOf, Type
      <4> QED BY <4>5 DEF Abstract!Next
    <3>3. CASE ~\E k \in Mutex, ty \in Type : CallMutexInit(t, k, ty)
      <4>1. gtype' = gtype
        BY <2>3, <3>3 DEF IsCall, Call, CallMutex, CallMutexDestroy, CallCondInit, CallCondDestroy, CallCond,
           CallWait, LockCall, CallInit, CallDestroy, CallRwlock, CallSemaphore, memory
      <4> QED BY <1>2, <3>1, <4>1
    <3> QED BY <3>2, <3>3
  <2>4. CASE held' = held /\ gtype' = gtype
    BY <1>2, <2>4
  <2> QED BY <1>4, <2>1, <2>2, <2>3, <2>4, StepKinds
<1> QED BY <1>3, <1>4 DEF LockNext, Rest

(***************************************************************************)
(* Of guests whose first calls do not race.  The bridge's mutexes are the  *)
(* mutexes the guest asked for: locks, waits and unlocks of a guest word   *)
(* take, re-enter and give up one abstract mutex, and only a free one is   *)
(* destroyed and initialised again with another type; and the host type    *)
(* that the getter reads from the word's bits or from the attribute's      *)
(* number is the one the guest means.                                      *)
(***************************************************************************)
THEOREM MutexesRefine ==
  ASSUME Racy = FALSE
  PROVE  LockSpec => ImplementsGuestMutex
<1>1. LockInit => Abstract!Init
  BY Abstraction
<1>2. AInv /\ BInv /\ (AInv /\ BInv)' /\ [LockNext]_lockvars => [Abstract!Next]_Abstract!vars
  BY AbstractStep
<1>3. BInv => TypeAsked
  BY DEF BInv, Shape, TypesAgree, TypeAsked
<1>4. LockSpec => []TypeAsked
  BY <1>3, BInvAlways, PTL
<1>5. LockSpec => [][TypeAsked']_vars
  BY <1>4, PTL
<1> QED BY <1>1, <1>2, <1>5, BInvAlways, PTL DEF LockSpec, ImplementsGuestMutex, Abstract!Spec
=============================================================================
