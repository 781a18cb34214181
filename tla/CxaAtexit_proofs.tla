--------------------------- MODULE CxaAtexit_proofs ---------------------------
(***************************************************************************)
(* Proofs about the exit registry, for any number of threads, calls,       *)
(* modules and any capacity.                                               *)
(***************************************************************************)
EXTENDS CxaAtexit, FiniteSetTheorems, TLAPS

USE CxaConstants DEF CxaConstants

\* atexit_lock is held exactly by the call that is inside a locked region.
LockInv == \A c \in Call : owner = c <=> pc[c] \in Holding

\* A registration in progress, and the entry it has stored but not counted.
RegInv ==
  \A c \in Call :
    /\ pc[c] \in {"unused"} \cup Registering => c \notin accepted
    /\ pc[c] \in Registering => obj[c] \in {c, NoObject}
    /\ pc[c] = "reg_count" =>
         /\ obj[c] = c
         /\ count < Capacity
         /\ entries[count].obj = c
         /\ entries[count].active

\* The counted entries are the accepted objects, one entry each.
EntryInv ==
  /\ \A i \in Slot : i < count => entries[i].obj \in accepted
  /\ \A i, j \in Slot : i < count /\ j < count /\ entries[i].obj = entries[j].obj => i = j
  /\ \A o \in accepted : \E i \in Slot : i < count /\ entries[i].obj = o

\* An entry is active exactly until a finalize call takes its object.
ActiveInv ==
  \A i \in Slot : i < count =>
    LET o == entries[i].obj
    IN  entries[i].active <=> started[o] = 0 /\ ~PickedUp(o)

\* An object taken and not yet entered was never entered.
PickInv ==
  \A c \in Call : pc[c] = "fin_picked" => obj[c] \in accepted /\ started[obj[c]] = 0

\* The slice [index, top) of a finalize call lies within the registry.
SweepInv ==
  /\ \A c \in Call : pc[c] \in Finalizing => index[c] <= top[c] /\ top[c] <= count
  /\ SweepComplete

IInv == LockInv /\ RegInv /\ EntryInv /\ ActiveInv /\ PickInv /\ AtMostOnce /\ SweepInv
-----------------------------------------------------------------------------
\* Copying an entry out and clearing its active field leaves an entry.
LEMMA DeactivatedEntry ==
  ASSUME NEW e \in Entry
  PROVE  [e EXCEPT !.active = FALSE] \in Entry
  BY DEF Entry

\* Clearing the active field of one slot changes that field and no other.
LEMMA DeactivatedFields ==
  ASSUME NEW e \in Entry
  PROVE  /\ [e EXCEPT !.active = FALSE].obj = e.obj
         /\ [e EXCEPT !.active = FALSE].dso = e.dso
         /\ [e EXCEPT !.active = FALSE].active = FALSE
  BY DEF Entry

\* Every step of the registry preserves the types.
LEMMA TypeStep == TypeOK /\ RegInv /\ PickInv /\ [Next]_vars => TypeOK'
<1> SUFFICES ASSUME TypeOK, RegInv, PickInv, [Next]_vars PROVE TypeOK'
  OBVIOUS
<1> USE DEF TypeOK, Location, Registering, Finalizing, Holding, Resting, Step, Object
<1>1. ASSUME NEW c \in Call, Enter(c) PROVE TypeOK'
  <2>1. PICK x \in Thread \cup Call :
          \/ \E o \in {c, NoObject}, d \in Dso : CallAtexit(x, c, o, d)
          \/ \E d \in Dso \cup {NoDso} : CallFinalize(x, c, d)
    BY <1>1 DEF Enter
  <2>2. ASSUME NEW o \in {c, NoObject}, NEW d \in Dso, CallAtexit(x, c, o, d)
        PROVE  TypeOK'
    BY <2>2 DEF CallAtexit
  <2>3. ASSUME NEW d \in Dso \cup {NoDso}, CallFinalize(x, c, d) PROVE TypeOK'
    BY <2>3 DEF CallFinalize
  <2> QED
    BY <2>1, <2>2, <2>3
<1>2. ASSUME NEW c \in Call, RegLock(c) \/ RegRefuse(c) \/ RegUnlock(c) PROVE TypeOK'
  BY <1>2 DEF RegLock, RegRefuse, RegUnlock, Acquire, Release
<1>3. ASSUME NEW c \in Call, RegStore(c) PROVE TypeOK'
  BY <1>3 DEF RegStore, HasRoom, Entry, Slot
<1>4. ASSUME NEW c \in Call, RegCount(c) PROVE TypeOK'
  <2>1. count + 1 \in 0 .. Capacity /\ obj[c] \in Object
    BY <1>4 DEF RegCount, RegInv
  <2> QED
    BY <1>4, <2>1 DEF RegCount
<1>5. ASSUME NEW c \in Call, FinLock(c) \/ FinRelock(c) \/ FinReturn(c) PROVE TypeOK'
  BY <1>5 DEF FinLock, FinRelock, FinReturn, Acquire, Release
<1>6. ASSUME NEW c \in Call, FinSkip(c) PROVE TypeOK'
  <2>1. index[c] - 1 \in 0 .. Capacity
    BY <1>6 DEF FinSkip
  <2> QED
    BY <1>6, <2>1 DEF FinSkip
<1>7. ASSUME NEW c \in Call, FinPick(c) PROVE TypeOK'
  <2>1. index[c] - 1 \in 0 .. Capacity /\ index[c] - 1 \in Slot
    BY <1>7 DEF FinPick, Slot
  <2>2. entries[index[c] - 1].obj \in Object \cup {NoObject}
    BY <2>1 DEF Entry
  <2>3. [entries[index[c] - 1] EXCEPT !.active = FALSE] \in Entry
    BY <2>1, DeactivatedEntry
  <2>4. entries' \in [Slot -> Entry]
    BY <1>7, <2>1, <2>3 DEF FinPick
  <2> QED
    BY <1>7, <2>1, <2>2, <2>4 DEF FinPick
<1>8. ASSUME NEW c \in Call, FinRun(c) PROVE TypeOK'
  BY <1>8 DEF FinRun, Release, PickInv
<1>9. ASSUME NEW c \in Call, DestructorReturns(c) PROVE TypeOK'
  BY <1>9 DEF DestructorReturns
<1>10. CASE UNCHANGED vars
  BY <1>10 DEF vars, frames
<1> QED
  BY <1>1, <1>2, <1>3, <1>4, <1>5, <1>6, <1>7, <1>8, <1>9, <1>10 DEF Next, Proceed, Quiet

\* The owner of atexit_lock stays the one call that is in a critical section.
LEMMA LockStep == TypeOK /\ LockInv /\ [Next]_vars => LockInv'
<1> SUFFICES ASSUME TypeOK, LockInv, [Next]_vars PROVE LockInv'
  OBVIOUS
<1> USE DEF TypeOK, LockInv, Holding, Step, Acquire, Release
<1>1. ASSUME NEW c \in Call, Enter(c) PROVE LockInv'
  BY <1>1 DEF Enter, CallAtexit, CallFinalize
<1>2. ASSUME NEW c \in Call, RegLock(c) \/ RegRefuse(c) \/ RegUnlock(c) PROVE LockInv'
  BY <1>2 DEF RegLock, RegRefuse, RegUnlock
<1>3. ASSUME NEW c \in Call, RegStore(c) \/ RegCount(c) PROVE LockInv'
  BY <1>3 DEF RegStore, RegCount
<1>4. ASSUME NEW c \in Call, FinLock(c) \/ FinRelock(c) \/ FinReturn(c) PROVE LockInv'
  BY <1>4 DEF FinLock, FinRelock, FinReturn
<1>5. ASSUME NEW c \in Call, FinSkip(c) \/ FinPick(c) PROVE LockInv'
  BY <1>5 DEF FinSkip, FinPick
<1>6. ASSUME NEW c \in Call, FinRun(c) \/ DestructorReturns(c) PROVE LockInv'
  BY <1>6 DEF FinRun, DestructorReturns
<1>7. CASE UNCHANGED vars
  BY <1>7 DEF vars, frames
<1> QED
  BY <1>1, <1>2, <1>3, <1>4, <1>5, <1>6, <1>7 DEF Next, Proceed, Quiet

\* Every step preserves what is known of a registering call's slot and count.
LEMMA RegStep == TypeOK /\ LockInv /\ RegInv /\ [Next]_vars => RegInv'
<1> SUFFICES ASSUME TypeOK, LockInv, RegInv, [Next]_vars PROVE RegInv'
  OBVIOUS
<1> USE DEF TypeOK, LockInv, RegInv, Holding, Registering, Step
<1>1. ASSUME NEW c \in Call, Enter(c) PROVE RegInv'
  BY <1>1 DEF Enter, CallAtexit, CallFinalize
<1>2. ASSUME NEW c \in Call, RegLock(c) \/ RegRefuse(c) \/ RegUnlock(c) PROVE RegInv'
  BY <1>2 DEF RegLock, RegRefuse, RegUnlock
<1>3. ASSUME NEW c \in Call, RegStore(c) PROVE RegInv'
  BY <1>3 DEF RegStore, HasRoom, Slot
<1>4. ASSUME NEW c \in Call, RegCount(c) PROVE RegInv'
  BY <1>4 DEF RegCount
<1>5. ASSUME NEW c \in Call, FinLock(c) \/ FinRelock(c) \/ FinReturn(c) PROVE RegInv'
  BY <1>5 DEF FinLock, FinRelock, FinReturn
<1>6. ASSUME NEW c \in Call, FinSkip(c) PROVE RegInv'
  BY <1>6 DEF FinSkip
<1>7. ASSUME NEW c \in Call, FinPick(c) PROVE RegInv'
  \* The picking call holds the lock, so no registration is between store and count.
  <2>1. \A b \in Call : pc'[b] # "reg_count"
    BY <1>7 DEF FinPick
  <2> QED
    BY <1>7, <2>1 DEF FinPick
<1>8. ASSUME NEW c \in Call, FinRun(c) \/ DestructorReturns(c) PROVE RegInv'
  BY <1>8 DEF FinRun, DestructorReturns
<1>9. CASE UNCHANGED vars
  BY <1>9 DEF vars, frames
<1> QED
  BY <1>1, <1>2, <1>3, <1>4, <1>5, <1>6, <1>7, <1>8, <1>9 DEF Next, Proceed, Quiet

\* FinPick changes one field of one entry.
LEMMA PickedEntries ==
  ASSUME TypeOK, NEW c \in Call, FinPick(c)
  PROVE  \A i \in Slot :
           /\ entries'[i].obj = entries[i].obj
           /\ entries'[i].dso = entries[i].dso
           /\ entries'[i].active = (entries[i].active /\ i # index[c] - 1)
<1> DEFINE k == index[c] - 1
<1>1. k \in Slot
  BY DEF FinPick, TypeOK, Slot
<1>2. entries' = [entries EXCEPT ![k] = [entries[k] EXCEPT !.active = FALSE]]
  BY DEF FinPick
<1>3. ASSUME NEW i \in Slot, i # k PROVE entries'[i] = entries[i]
  BY <1>1, <1>2, <1>3 DEF TypeOK
<1>4. /\ entries'[k].obj = entries[k].obj
      /\ entries'[k].dso = entries[k].dso
      /\ entries'[k].active = FALSE
  <2>1. entries'[k] = [entries[k] EXCEPT !.active = FALSE]
    BY <1>1, <1>2 DEF TypeOK
  <2>2. entries[k] \in Entry
    BY <1>1 DEF TypeOK
  <2> QED
    BY <2>1, <2>2, DeactivatedFields
<1>5. \A i \in Slot : entries[i].active \in BOOLEAN
  BY DEF TypeOK, Entry
<1> QED
  BY <1>3, <1>4, <1>5

\* The entries below count stay distinct accepted objects.
LEMMA EntryStep == TypeOK /\ LockInv /\ RegInv /\ EntryInv /\ [Next]_vars => EntryInv'
<1> SUFFICES ASSUME TypeOK, LockInv, RegInv, EntryInv, [Next]_vars PROVE EntryInv'
  OBVIOUS
<1> USE DEF EntryInv
<1>1. ASSUME UNCHANGED <<entries, count, accepted>> PROVE EntryInv'
  BY <1>1
<1>2. ASSUME NEW c \in Call, RegStore(c) PROVE EntryInv'
  <2>1. \A i \in Slot : i < count => entries'[i] = entries[i]
    BY <1>2 DEF RegStore, TypeOK, Slot
  <2>2. count' = count /\ accepted' = accepted
    BY <1>2 DEF RegStore
  <2> QED
    BY <2>1, <2>2
<1>3. ASSUME NEW c \in Call, RegCount(c) PROVE EntryInv'
  <2>1. /\ count \in Slot /\ entries[count].obj = c /\ c \notin accepted
        /\ accepted' = accepted \cup {c}
        /\ count' = count + 1 /\ entries' = entries
    BY <1>3 DEF RegCount, RegInv, Step, Registering, TypeOK, Slot
  <2>2. \A i \in Slot : i < count + 1 <=> i < count \/ i = count
    BY <2>1 DEF Slot
  <2> QED
    BY <2>1, <2>2
<1>4. ASSUME NEW c \in Call, FinPick(c) PROVE EntryInv'
  BY <1>4, PickedEntries DEF FinPick
<1> QED
  BY <1>1, <1>2, <1>3, <1>4
  DEF Next, Proceed, Enter, Quiet, vars, frames, CallAtexit, CallFinalize, RegLock,
      RegRefuse, RegUnlock, FinLock, FinSkip, FinRun, DestructorReturns, FinRelock,
      FinReturn

\* An object copied by a finalize call stays inactive in the registry.
LEMMA PickStep ==
  TypeOK /\ LockInv /\ EntryInv /\ ActiveInv /\ PickInv /\ SweepInv /\ [Next]_vars => PickInv'
<1> SUFFICES ASSUME TypeOK, LockInv, EntryInv, ActiveInv, PickInv, SweepInv, [Next]_vars
             PROVE  PickInv'
  OBVIOUS
<1> USE DEF TypeOK, PickInv, Step
<1>1. ASSUME NEW c \in Call, Enter(c) PROVE PickInv'
  BY <1>1 DEF Enter, CallAtexit, CallFinalize
<1>2. ASSUME NEW c \in Call, RegLock(c) \/ RegStore(c) \/ RegRefuse(c) PROVE PickInv'
  BY <1>2 DEF RegLock, RegStore, RegRefuse
<1>3. ASSUME NEW c \in Call, RegCount(c) \/ RegUnlock(c) PROVE PickInv'
  BY <1>3 DEF RegCount, RegUnlock
<1>4. ASSUME NEW c \in Call, FinLock(c) \/ FinRelock(c) \/ FinReturn(c) PROVE PickInv'
  BY <1>4 DEF FinLock, FinRelock, FinReturn
<1>5. ASSUME NEW c \in Call, FinSkip(c) \/ DestructorReturns(c) PROVE PickInv'
  BY <1>5 DEF FinSkip, DestructorReturns
<1>6. ASSUME NEW c \in Call, FinPick(c) PROVE PickInv'
  <2> DEFINE k == index[c] - 1
  <2>1. k \in Slot /\ k < count /\ entries[k].active
    BY <1>6 DEF FinPick, SweepInv, Finalizing, Slot, Wanted
  <2>2. entries[k].obj \in accepted /\ started[entries[k].obj] = 0
    BY <2>1 DEF EntryInv, ActiveInv
  <2> QED
    BY <1>6, <2>2 DEF FinPick
<1>7. ASSUME NEW c \in Call, FinRun(c) PROVE PickInv'
  \* The running call held the lock, so no other call has picked an entry.
  <2>1. \A b \in Call : pc'[b] # "fin_picked"
    BY <1>7 DEF FinRun, LockInv, Holding
  <2> QED
    BY <2>1
<1>8. CASE UNCHANGED vars
  BY <1>8 DEF vars, frames
<1> QED
  BY <1>1, <1>2, <1>3, <1>4, <1>5, <1>6, <1>7, <1>8 DEF Next, Proceed, Quiet

\* Steps that touch neither the registry nor a call that has picked an entry.
LEMMA ActiveFrame ==
  ASSUME ActiveInv, UNCHANGED <<entries, count, started>>,
         \A o : PickedUp(o)' <=> PickedUp(o)
  PROVE  ActiveInv'
  BY DEF ActiveInv

\* An object that is still active has not been entered, across every step.
LEMMA ActiveStep == TypeOK /\ IInv /\ [Next]_vars => ActiveInv'
<1> SUFFICES ASSUME TypeOK, IInv, [Next]_vars PROVE ActiveInv'
  OBVIOUS
<1> USE DEF IInv
<1>1. ASSUME NEW c \in Call, Enter(c) PROVE ActiveInv'
  BY <1>1, ActiveFrame DEF Enter, CallAtexit, CallFinalize, PickedUp, TypeOK, Step
<1>2. ASSUME NEW c \in Call, RegLock(c) \/ RegRefuse(c) \/ RegUnlock(c) PROVE ActiveInv'
  BY <1>2, ActiveFrame DEF RegLock, RegRefuse, RegUnlock, PickedUp, TypeOK, Step
<1>3. ASSUME NEW c \in Call, RegStore(c) PROVE ActiveInv'
  <2>1. \A i \in Slot : i < count => entries'[i] = entries[i]
    BY <1>3 DEF RegStore, TypeOK, Slot
  <2>2. UNCHANGED <<count, started>> /\ \A o : PickedUp(o)' <=> PickedUp(o)
    BY <1>3 DEF RegStore, PickedUp, TypeOK, Step
  <2> QED
    BY <2>1, <2>2 DEF ActiveInv
<1>4. ASSUME NEW c \in Call, RegCount(c) PROVE ActiveInv'
  <2>1. /\ count \in Slot /\ entries[count].obj = c /\ entries[count].active
        /\ c \notin accepted
        /\ UNCHANGED <<entries, started>> /\ count' = count + 1
    BY <1>4 DEF RegCount, RegInv, Step, Registering, TypeOK, Slot
  <2>2. \A o : PickedUp(o)' <=> PickedUp(o)
    BY <1>4 DEF RegCount, PickedUp, TypeOK, Step
  <2>3. started[c] = 0 /\ ~PickedUp(c)
    BY <2>1 DEF AtMostOnce, PickInv, PickedUp, TypeOK, Object
  <2>4. \A i \in Slot : i < count + 1 <=> i < count \/ i = count
    BY <2>1 DEF Slot
  <2> QED
    BY <2>1, <2>2, <2>3, <2>4 DEF ActiveInv
<1>5. ASSUME NEW c \in Call, FinLock(c) \/ FinRelock(c) \/ FinReturn(c) PROVE ActiveInv'
  BY <1>5, ActiveFrame DEF FinLock, FinRelock, FinReturn, PickedUp, TypeOK, Step
<1>6. ASSUME NEW c \in Call, FinSkip(c) \/ DestructorReturns(c) PROVE ActiveInv'
  BY <1>6, ActiveFrame DEF FinSkip, DestructorReturns, PickedUp, TypeOK, Step
<1>7. ASSUME NEW c \in Call, FinPick(c) PROVE ActiveInv'
  <2> DEFINE k == index[c] - 1
  <2>1. k \in Slot /\ k < count
    BY <1>7 DEF FinPick, SweepInv, Finalizing, Slot, TypeOK, Step
  <2>2. \A o : ~PickedUp(o)
    BY <1>7 DEF FinPick, LockInv, Holding, PickedUp, Step
  <2>3. \A o : PickedUp(o)' <=> o = entries[k].obj
    BY <1>7, <2>2 DEF FinPick, PickedUp, TypeOK, Step
  <2>4. UNCHANGED <<count, started>>
    BY <1>7 DEF FinPick
  <2>5. \A i \in Slot : i < count /\ entries[i].obj = entries[k].obj => i = k
    BY <2>1 DEF EntryInv
  <2> QED
    BY <1>7, <2>1, <2>2, <2>3, <2>4, <2>5, PickedEntries DEF ActiveInv
<1>8. ASSUME NEW c \in Call, FinRun(c) PROVE ActiveInv'
  <2>1. \A o : PickedUp(o) <=> o = obj[c]
    BY <1>8 DEF FinRun, LockInv, Holding, PickedUp, Step
  <2>2. \A o : ~PickedUp(o)'
    BY <1>8 DEF FinRun, LockInv, Holding, PickedUp, TypeOK, Step
  <2>3. /\ UNCHANGED <<entries, count>>
        /\ \A o \in Object : started'[o] = IF o = obj[c] THEN started[o] + 1 ELSE started[o]
        /\ \A o \in Object : started[o] \in Nat
    BY <1>8 DEF FinRun, TypeOK
  <2>4. \A i \in Slot : i < count => entries[i].obj \in Object
    BY DEF EntryInv, TypeOK
  <2> QED
    BY <2>1, <2>2, <2>3, <2>4 DEF ActiveInv
<1>9. CASE UNCHANGED vars
  BY <1>9, ActiveFrame DEF vars, frames, PickedUp
<1> QED
  BY <1>1, <1>2, <1>3, <1>4, <1>5, <1>6, <1>7, <1>8, <1>9 DEF Next, Proceed, Quiet

\* Entering the picked destructor is the only step that counts it, and it is its first.
LEMMA AtMostOnceStep ==
  TypeOK /\ PickInv /\ AtMostOnce /\ [Next]_vars => AtMostOnce'
<1> SUFFICES ASSUME TypeOK, PickInv, AtMostOnce, [Next]_vars PROVE AtMostOnce'
  OBVIOUS
<1> USE DEF AtMostOnce
<1>1. ASSUME UNCHANGED <<accepted, started>> PROVE AtMostOnce'
  BY <1>1
<1>2. ASSUME NEW c \in Call, RegCount(c) PROVE AtMostOnce'
  BY <1>2 DEF RegCount, TypeOK
<1>3. ASSUME NEW c \in Call, FinRun(c) PROVE AtMostOnce'
  BY <1>3 DEF FinRun, PickInv, TypeOK, Step
<1> QED
  BY <1>1, <1>2, <1>3
  DEF Next, Proceed, Enter, Quiet, vars, frames, CallAtexit, CallFinalize, RegLock,
      RegStore, RegRefuse, RegUnlock, FinLock, FinSkip, FinPick, DestructorReturns,
      FinRelock, FinReturn

\* The part of the registry a finalize call has scanned holds nothing it wants.
LEMMA SweepStep == TypeOK /\ LockInv /\ RegInv /\ SweepInv /\ [Next]_vars => SweepInv'
<1> SUFFICES ASSUME TypeOK, LockInv, RegInv, SweepInv, [Next]_vars PROVE SweepInv'
  OBVIOUS
<1> USE DEF TypeOK, SweepInv, SweepComplete, Finalizing, Step
<1>1. ASSUME NEW c \in Call, Enter(c) PROVE SweepInv'
  BY <1>1 DEF Enter, CallAtexit, CallFinalize, Wanted, Matches
<1>2. ASSUME NEW c \in Call, RegLock(c) \/ RegRefuse(c) \/ RegUnlock(c) PROVE SweepInv'
  BY <1>2 DEF RegLock, RegRefuse, RegUnlock, Wanted, Matches
<1>3. ASSUME NEW c \in Call, RegStore(c) PROVE SweepInv'
  <2>1. \A i \in Slot : i < count => entries'[i] = entries[i]
    BY <1>3 DEF RegStore, Slot
  <2> QED
    BY <1>3, <2>1 DEF RegStore, Wanted, Matches, Slot
<1>4. ASSUME NEW c \in Call, RegCount(c) PROVE SweepInv'
  BY <1>4 DEF RegCount, Wanted, Matches
<1>5. ASSUME NEW c \in Call, FinLock(c) \/ FinRelock(c) \/ FinReturn(c) PROVE SweepInv'
  BY <1>5 DEF FinLock, FinRelock, FinReturn, Wanted, Matches, Slot
<1>6. ASSUME NEW c \in Call, FinSkip(c) PROVE SweepInv'
  BY <1>6 DEF FinSkip, Wanted, Matches, Slot
<1>7. ASSUME NEW c \in Call, FinPick(c) PROVE SweepInv'
  <2>1. \A b \in Call, i \in Slot : Wanted(b, i)' => Wanted(b, i) /\ i # index[c] - 1
    BY <1>7, PickedEntries DEF FinPick, Wanted, Matches
  <2>2. \A i \in Slot : i \in Nat
    BY DEF Slot
  <2> QED
    BY <1>7, <2>1, <2>2 DEF FinPick
<1>8. ASSUME NEW c \in Call, FinRun(c) \/ DestructorReturns(c) PROVE SweepInv'
  BY <1>8 DEF FinRun, DestructorReturns, Wanted, Matches
<1>9. CASE UNCHANGED vars
  BY <1>9 DEF vars, frames, Wanted, Matches
<1> QED
  BY <1>1, <1>2, <1>3, <1>4, <1>5, <1>6, <1>7, <1>8, <1>9 DEF Next, Proceed, Quiet

-----------------------------------------------------------------------------
\* The inductive invariant holds in every reachable state.
THEOREM Invariance == Spec => [](TypeOK /\ IInv)
<1>1. Init => TypeOK /\ IInv
  <2> SUFFICES ASSUME Init PROVE TypeOK /\ IInv
    OBVIOUS
  <2>1. TypeOK
    BY DEF Init, TypeOK, Location, Resting, Entry, Object, Slot
  <2>2. LockInv /\ RegInv /\ PickInv
    BY DEF Init, LockInv, RegInv, PickInv, Holding, Registering
  <2>3. EntryInv /\ ActiveInv
    BY DEF Init, EntryInv, ActiveInv, Slot
  <2>4. AtMostOnce /\ SweepInv
    BY DEF Init, AtMostOnce, SweepInv, SweepComplete, Finalizing
  <2> QED
    BY <2>1, <2>2, <2>3, <2>4 DEF IInv
<1>2. TypeOK /\ IInv /\ [Next]_vars => (TypeOK /\ IInv)'
  BY TypeStep, LockStep, RegStep, EntryStep, ActiveStep, PickStep, AtMostOnceStep, SweepStep
  DEF IInv
<1> QED
  BY <1>1, <1>2, PTL DEF Spec

(***************************************************************************)
(* Type correctness: atexit_count never exceeds ATEXIT_CAPACITY and no     *)
(* index leaves the registry.                                              *)
(***************************************************************************)
THEOREM TypeCorrect == Spec => []TypeOK
  BY Invariance, PTL

(***************************************************************************)
(* However finalize calls of several threads and of running destructors    *)
(* overlap, compat_cxa_finalize enters no destructor twice.                *)
(***************************************************************************)
THEOREM DestroyedAtMostOnce == Spec => []AtMostOnce
<1>1. IInv => AtMostOnce
  BY DEF IInv
<1> QED
  BY <1>1, Invariance, PTL

(***************************************************************************)
(* A registration compat_cxa_atexit accepted is held by exactly one active *)
(* entry until a finalize call takes it.                                   *)
(***************************************************************************)
THEOREM RegistrationsKept == Spec => []NoLostRegistration
<1>1. TypeOK /\ IInv => NoLostRegistration
  <2> SUFFICES ASSUME TypeOK, IInv, NEW o \in accepted, started[o] = 0, ~PickedUp(o)
               PROVE  Cardinality({i \in Slot : i < count /\ entries[i].active
                                                /\ entries[i].obj = o}) = 1
    BY DEF NoLostRegistration
  <2> DEFINE S == {i \in Slot : i < count /\ entries[i].active /\ entries[i].obj = o}
  <2>1. PICK i \in Slot : i < count /\ entries[i].obj = o
    BY DEF IInv, EntryInv
  <2>2. entries[i].active
    BY <2>1 DEF IInv, ActiveInv
  <2>3. S = {i}
    BY <2>1, <2>2 DEF IInv, EntryInv
  <2> QED
    BY <2>3, FS_Singleton
<1> QED
  BY <1>1, Invariance, PTL

(***************************************************************************)
(* A finalize call leaves no matching entry behind in the slice of the     *)
(* registry it has scanned.                                                *)
(***************************************************************************)
THEOREM SweepsComplete == Spec => []SweepComplete
<1>1. IInv => SweepComplete
  BY DEF IInv, SweepInv
<1> QED
  BY <1>1, Invariance, PTL
=============================================================================
