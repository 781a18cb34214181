--------------------------- MODULE JniRegistry_proofs ---------------------------
(***************************************************************************)
(* Proofs about JniRegistry: what a lookup that meets no other one is      *)
(* given stays right for any number of threads, methods and fields, and    *)
(* in JniBridge, of which the registry is a part.  Then about the listings *)
(* in JniBridge: one that meets no other lists exactly, for every archive. *)
(***************************************************************************)
EXTENDS JniBridge, SequenceTheorems, WellFoundedInduction, TLAPS

LEMMA CapacityNat == \A k \in Kind : Capacity[k] \in Nat
  BY RegistryConstants DEF RegistryConstants

LEMMA HeldText == \A x \in Text : Held[x] \in Text /\ Held[Held[x]] = Held[x]
  BY RegistryConstants DEF RegistryConstants


(***************************************************************************)
(* The inductive invariant.  A solo grant's slot lies below the count, and *)
(* below every slot a thread is about to write: the count may go back in a *)
(* race, but not below a slot that was granted while nobody else was       *)
(* between its read of the count and its return.                           *)
(***************************************************************************)
Active(t) == at[t] # "idle"
Holds(t) == at[t] \in {"store", "name", "rest"}

SoloAlone == \A t, u \in Thread : Active(t) /\ solo[t] => ~Meets(t, u)
SoloUnlessRaced == raced \/ \A t \in Thread : Active(t) => solo[t]
InTable ==
  Running =>
    /\ \A k \in Kind : count[k] <= Capacity[k]
    /\ \A t \in Thread : at[t] \in {"name", "rest"} => mine[t] < Capacity[kind[t]]
SoloPlace ==
  Running => \A t \in Thread : solo[t] =>
    /\ at[t] = "load" => count[kind[t]] # Capacity[kind[t]]
    /\ at[t] = "store" => mine[t] = count[kind[t]] /\ mine[t] < Capacity[kind[t]]
    /\ at[t] \in {"name", "rest"} => count[kind[t]] = mine[t] + 1
    /\ at[t] = "rest" => slot[kind[t]][mine[t]].name = Held[key[t].name]
SlotsHeld ==
  \A k \in Kind : \A s \in Slot(k) : Kept(slot[k][s]) = slot[k][s]

\* The slots of which a solo lookup knows that they are not its method's.
Passed(t) ==
  IF at[t] = "scan" THEN i[t] ELSE IF Holds(t) THEN mine[t] ELSE count[kind[t]]
Scanned ==
  Running => \A t \in Thread : Active(t) /\ solo[t] =>
    \A s \in Slot(kind[t]) : s < Passed(t) => slot[kind[t]][s] # key[t]

GrantsBelow ==
  Running => \A g \in grants : g.solo =>
    /\ g.id < count[g.kind]
    /\ \A t \in Thread : Holds(t) /\ kind[t] = g.kind => g.id < mine[t]
GrantsFirst ==
  Running => \A g \in grants : g.solo =>
    /\ slot[g.kind][g.id] = Kept(g.key)
    /\ Kept(g.key) = g.key => \A s \in Slot(g.kind) : s < g.id => slot[g.kind][s] # g.key

IInv ==
  /\ RegistryTypeOK
  /\ SoloAlone /\ SoloUnlessRaced /\ InTable /\ SoloPlace
  /\ SlotsHeld /\ Scanned /\ GrantsBelow /\ GrantsFirst
  /\ OneIdPerMethod /\ OverrunOnlyByRace

\* What the slots of the kind of t become when t writes to its slot.
LEMMA SlotWritten ==
  ASSUME RegistryTypeOK, NEW t \in Thread, NEW c \in Key,
         mine[t] < Capacity[kind[t]],
         slot' = [slot EXCEPT ![kind[t]][mine[t]] = c]
  PROVE  /\ DOMAIN slot' = Kind
         /\ \A k \in Kind : slot'[k] \in [Slot(k) -> Key]
         /\ \A k \in Kind : \A s \in Slot(k) :
              slot'[k][s] = IF k = kind[t] /\ s = mine[t] THEN c ELSE slot[k][s]
  BY DEF RegistryTypeOK, Slot

LEMMA Writes ==
  ASSUME RegistryTypeOK, InTable, NEW t \in Thread, WriteName(t) \/ WriteRest(t)
  PROVE  \E c \in Key :
           /\ slot' = [slot EXCEPT ![kind[t]][mine[t]] = c]
           /\ Kept(slot[kind[t]][mine[t]]) = slot[kind[t]][mine[t]] => Kept(c) = c
           /\ WriteName(t) => c = [slot[kind[t]][mine[t]] EXCEPT !.name = Held[key[t].name]]
           /\ WriteRest(t) => c = [slot[kind[t]][mine[t]] EXCEPT !.rest = Held[key[t].rest]]
<1> DEFINE old == slot[kind[t]][mine[t]]
           nm == [old EXCEPT !.name = Held[key[t].name]]
           rs == [old EXCEPT !.rest = Held[key[t].rest]]
<1>0. mine[t] \in Slot(kind[t]) /\ kind[t] \in Kind
  <2>1. Running /\ at[t] \in {"name", "rest"}
    BY DEF WriteName, WriteRest, Goes
  <2>2. mine[t] \in Nat /\ kind[t] \in Kind /\ Capacity[kind[t]] \in Nat
    BY CapacityNat DEF RegistryTypeOK
  <2>3. mine[t] < Capacity[kind[t]]
    BY <2>1 DEF InTable
  <2> QED BY <2>2, <2>3 DEF Slot
<1>1. old \in Key /\ key[t] \in Key
  BY <1>0 DEF RegistryTypeOK
<1>2. nm \in Key /\ rs \in Key
  BY <1>1, HeldText DEF Key
<1>3. Kept(old) = old => Kept(nm) = nm /\ Kept(rs) = rs
  <2>1. /\ old = [name |-> old.name, rest |-> old.rest] /\ old.name \in Text /\ old.rest \in Text
        /\ key[t].name \in Text /\ key[t].rest \in Text
    BY <1>1 DEF Key
  <2>2. /\ nm = [name |-> Held[key[t].name], rest |-> old.rest]
        /\ rs = [name |-> old.name, rest |-> Held[key[t].rest]]
    BY <2>1
  <2>3. Kept(old) = old => Held[old.name] = old.name /\ Held[old.rest] = old.rest
    BY <2>1 DEF Kept
  <2> QED BY HeldText, <2>1, <2>2, <2>3 DEF Kept
<1>4. WriteName(t) => at[t] = "name"
  BY DEF WriteName, Goes
<1>5. WriteRest(t) => at[t] = "rest"
  BY DEF WriteRest, Goes
<1>6. WriteName(t) => slot' = [slot EXCEPT ![kind[t]][mine[t]] = nm]
  BY DEF WriteName
<1>7. WriteRest(t) => slot' = [slot EXCEPT ![kind[t]][mine[t]] = rs]
  BY DEF WriteRest
<1> QED BY <1>2, <1>3, <1>4, <1>5, <1>6, <1>7

LEMMA BeginKeeps ==
  ASSUME IInv, NEW t \in Thread, NEW k \in Kind, NEW c \in Key, Begin(t, k, c)
  PROVE  IInv'
<1> USE DEF Begin, Goes, shared, locals, ends
<1>1. RegistryTypeOK'
  BY DEF IInv, RegistryTypeOK
<1>2. SoloAlone'
  <2> SUFFICES ASSUME NEW v \in Thread, NEW u \in Thread, u # v,
                      at'[v] # "idle", solo'[v], at'[u] # "idle", kind'[u] = kind'[v]
               PROVE  FALSE
    BY DEF SoloAlone, Active, Meets
  <2>1. CASE v = t
    BY <2>1 DEF IInv, RegistryTypeOK
  <2>2. CASE u = t
    BY <2>2 DEF IInv, RegistryTypeOK
  <2>3. CASE v # t /\ u # t
    BY <2>3 DEF IInv, RegistryTypeOK, SoloAlone, Active, Meets
  <2> QED BY <2>1, <2>2, <2>3
<1>3. SoloUnlessRaced'
  BY DEF IInv, RegistryTypeOK, SoloUnlessRaced, Active
<1>4. InTable'
  BY DEF IInv, RegistryTypeOK, InTable, Running
<1>5. SoloPlace'
  BY DEF IInv, RegistryTypeOK, SoloPlace, SoloAlone, InTable, Active, Meets, Running
<1>6. SlotsHeld'
  BY DEF IInv, RegistryTypeOK, SlotsHeld, Slot
<1>7. Scanned'
  <2> SUFFICES ASSUME Running', NEW u \in Thread, at'[u] # "idle", solo'[u],
                      NEW s \in Slot(kind'[u]), s < Passed(u)'
               PROVE  slot'[kind'[u]][s] # key'[u]
    BY DEF Scanned, Active
  <2>1. CASE u = t
    BY <2>1 DEF IInv, RegistryTypeOK, Passed, Slot
  <2>2. CASE u # t
    BY <2>2 DEF IInv, RegistryTypeOK, Passed, Scanned, Active, Holds, Running
  <2> QED BY <2>1, <2>2
<1>8. GrantsBelow'
  BY DEF IInv, RegistryTypeOK, GrantsBelow, SoloAlone, Active, Holds, Meets, Running
<1>9. GrantsFirst'
  BY DEF IInv, RegistryTypeOK, GrantsFirst, Running, Slot
<1>10. OneIdPerMethod'
  BY DEF IInv, RegistryTypeOK, OneIdPerMethod
<1>11. OverrunOnlyByRace'
  BY DEF IInv, RegistryTypeOK, OverrunOnlyByRace
<1> QED BY <1>1, <1>2, <1>3, <1>4, <1>5, <1>6, <1>7, <1>8, <1>9, <1>10, <1>11 DEF IInv

LEMMA FoundKeeps ==
  ASSUME IInv, NEW t \in Thread, Found(t)
  PROVE  IInv'
<1> USE DEF Found, Goes, shared, locals, ends, Grant
<1>1. RegistryTypeOK'
  <2>1. [kind |-> kind[t], key |-> key[t], id |-> i[t], solo |-> solo[t]]
          \in [kind : Kind, key : Key, id : Nat, solo : BOOLEAN]
    BY DEF IInv, RegistryTypeOK
  <2>2. grants' \subseteq [kind : Kind, key : Key, id : Nat, solo : BOOLEAN]
    BY <2>1 DEF IInv, RegistryTypeOK
  <2> QED BY <2>2 DEF IInv, RegistryTypeOK
<1>2. SoloAlone'
  BY DEF IInv, RegistryTypeOK, SoloAlone, Active, Meets
<1>3. SoloUnlessRaced'
  BY DEF IInv, RegistryTypeOK, SoloUnlessRaced, Active
<1>4. InTable'
  BY DEF IInv, RegistryTypeOK, InTable, Running
<1>5. SoloPlace'
  BY DEF IInv, RegistryTypeOK, SoloPlace, SoloAlone, InTable, Active, Meets, Running
<1>6. SlotsHeld'
  BY DEF IInv, RegistryTypeOK, SlotsHeld, Slot
<1>7. Scanned'
  BY DEF IInv, RegistryTypeOK, Scanned, SoloAlone, Active, Holds, Passed, Meets, Running, Slot
<1>8. GrantsBelow'
  <2> SUFFICES ASSUME Running', NEW g \in grants', g.solo
               PROVE  /\ g.id < count[g.kind]
                      /\ \A u \in Thread : Holds(u)' /\ kind[u] = g.kind => g.id < mine[u]
    BY DEF GrantsBelow
  <2>1. CASE g \in grants
    BY <2>1 DEF IInv, RegistryTypeOK, GrantsBelow, Holds, Running
  <2>2. CASE g = [kind |-> kind[t], key |-> key[t], id |-> i[t], solo |-> solo[t]]
    BY <2>2 DEF IInv, RegistryTypeOK, SoloAlone, Active, Meets, Holds
  <2> QED BY <2>1, <2>2
<1>9. GrantsFirst'
  <2> DEFINE new == [kind |-> kind[t], key |-> key[t], id |-> i[t], solo |-> solo[t]]
  <2>1. ASSUME solo[t]
        PROVE  /\ slot[kind[t]][i[t]] = Kept(key[t])
               /\ \A s \in Slot(kind[t]) : s < i[t] => slot[kind[t]][s] # key[t]
    <3>1. i[t] \in Slot(kind[t]) /\ kind[t] \in Kind
      BY CapacityNat DEF IInv, InTable, RegistryTypeOK, Slot
    <3>2. Kept(slot[kind[t]][i[t]]) = slot[kind[t]][i[t]]
      BY <3>1 DEF IInv, SlotsHeld
    <3>3. \A s \in Slot(kind[t]) : s < i[t] => slot[kind[t]][s] # key[t]
      BY <2>1 DEF IInv, Scanned, Active, Passed
    <3> QED BY <3>2, <3>3
  <2> SUFFICES ASSUME Running', NEW g \in grants', g.solo
               PROVE  /\ slot[g.kind][g.id] = Kept(g.key)
                      /\ Kept(g.key) = g.key =>
                           \A s \in Slot(g.kind) : s < g.id => slot[g.kind][s] # g.key
    BY DEF GrantsFirst
  <2>2. CASE g \in grants
    BY <2>2 DEF IInv, GrantsFirst, Running
  <2>3. CASE g = new
    BY <2>1, <2>3
  <2> QED BY <2>2, <2>3
<1>10. OneIdPerMethod'
  <2> DEFINE new == [kind |-> kind[t], key |-> key[t], id |-> i[t], solo |-> solo[t]]
  <2>1. \A g \in grants : g.solo /\ solo[t] /\ g.kind = kind[t] /\ g.key = key[t] /\ Kept(g.key) = g.key
          => g.id = i[t]

    <3> SUFFICES ASSUME NEW g \in grants, g.solo, solo[t], g.kind = kind[t], g.key = key[t],
                        Kept(g.key) = g.key
                 PROVE  g.id = i[t]
      OBVIOUS
    <3>1. g.id \in Slot(kind[t]) /\ i[t] \in Slot(kind[t])
      <4>1. /\ g.id \in Nat /\ i[t] \in Nat /\ kind[t] \in Kind
            /\ count[kind[t]] \in Nat /\ Capacity[kind[t]] \in Nat
        BY CapacityNat DEF IInv, RegistryTypeOK
      <4>2. g.id < count[kind[t]] /\ i[t] < count[kind[t]] /\ count[kind[t]] <= Capacity[kind[t]]
        BY <4>1 DEF IInv, InTable, GrantsBelow
      <4> QED BY <4>1, <4>2 DEF Slot
    <3>2. slot[kind[t]][g.id] = key[t] /\ ~(i[t] < g.id)
      BY <3>1 DEF IInv, GrantsFirst
    <3>3. ~(g.id < i[t])
      BY <3>1, <3>2 DEF IInv, Scanned, Active, Passed
    <3> QED BY <3>1, <3>2, <3>3 DEF Slot
  <2>2. ASSUME NEW g \in grants, NEW h \in grants
        PROVE  g.solo /\ h.solo /\ g.kind = h.kind /\ g.key = h.key /\ Kept(g.key) = g.key => g.id = h.id
    BY DEF IInv, OneIdPerMethod
  <2>3. grants' = grants \cup {new}
    OBVIOUS
  <2> QED BY <2>1, <2>2, <2>3 DEF OneIdPerMethod
<1>11. OverrunOnlyByRace'
  BY DEF IInv, RegistryTypeOK, OverrunOnlyByRace
<1> QED BY <1>1, <1>2, <1>3, <1>4, <1>5, <1>6, <1>7, <1>8, <1>9, <1>10, <1>11 DEF IInv

LEMMA CompareKeeps ==
  ASSUME IInv, NEW t \in Thread, Compare(t)
  PROVE  IInv'
<1> USE DEF Compare, Goes, shared, locals, ends
<1>1. RegistryTypeOK'
  <2>1. i' \in [Thread -> Nat] /\ at' = at
    BY DEF IInv, RegistryTypeOK
  <2> QED BY <2>1 DEF IInv, RegistryTypeOK
<1>2. SoloAlone'
  BY DEF IInv, RegistryTypeOK, SoloAlone, Active, Meets
<1>3. SoloUnlessRaced'
  BY DEF IInv, RegistryTypeOK, SoloUnlessRaced, Active
<1>4. InTable'
  BY DEF IInv, RegistryTypeOK, InTable, Running
<1>5. SoloPlace'
  BY DEF IInv, RegistryTypeOK, SoloPlace, SoloAlone, InTable, Active, Meets, Running
<1>6. SlotsHeld'
  BY DEF IInv, RegistryTypeOK, SlotsHeld, Slot
<1>7. Scanned'
  <2> SUFFICES ASSUME Running, NEW u \in Thread, at[u] # "idle", solo[u],
                      NEW s \in Slot(kind[u]), s < Passed(u)'
               PROVE  slot[kind[u]][s] # key[u]
    BY DEF IInv, RegistryTypeOK, Scanned, Active, Running
  <2>1. CASE u = t
    <3>1. s \in Nat /\ i[t] \in Nat /\ s < i[t] + 1
      BY <2>1 DEF IInv, RegistryTypeOK, Passed, Slot
    <3>2. s < i[t] => slot[kind[t]][s] # key[t]
      BY <2>1 DEF IInv, Scanned, Active, Passed
    <3> QED BY <2>1, <3>1, <3>2
  <2>2. CASE u # t
    BY <2>2 DEF IInv, RegistryTypeOK, Passed, Scanned, Active, Holds
  <2> QED BY <2>1, <2>2
<1>8. GrantsBelow'
  BY DEF IInv, RegistryTypeOK, GrantsBelow, SoloAlone, Active, Holds, Meets, Running
<1>9. GrantsFirst'
  BY DEF IInv, RegistryTypeOK, GrantsFirst, Running, Slot
<1>10. OneIdPerMethod'
  BY DEF IInv, RegistryTypeOK, OneIdPerMethod
<1>11. OverrunOnlyByRace'
  BY DEF IInv, RegistryTypeOK, OverrunOnlyByRace
<1> QED BY <1>1, <1>2, <1>3, <1>4, <1>5, <1>6, <1>7, <1>8, <1>9, <1>10, <1>11 DEF IInv

LEMMA NotFoundKeeps ==
  ASSUME IInv, NEW t \in Thread, NotFound(t)
  PROVE  IInv'
<1> USE DEF NotFound, Goes, shared, locals, ends
<1>1. RegistryTypeOK'
  BY DEF IInv, RegistryTypeOK
<1>2. SoloAlone'
  BY DEF IInv, RegistryTypeOK, SoloAlone, Active, Meets
<1>3. SoloUnlessRaced'
  BY DEF IInv, RegistryTypeOK, SoloUnlessRaced, Active
<1>4. InTable'
  BY DEF IInv, RegistryTypeOK, InTable, Running
<1>5. SoloPlace'
  BY DEF IInv, RegistryTypeOK, SoloPlace, SoloAlone, InTable, Active, Meets, Running
<1>6. SlotsHeld'
  BY DEF IInv, RegistryTypeOK, SlotsHeld, Slot
<1>7. Scanned'
  <2> SUFFICES ASSUME Running, NEW u \in Thread, at[u] # "idle", solo[u],
                      NEW s \in Slot(kind[u]), s < Passed(u)'
               PROVE  slot[kind[u]][s] # key[u]
    BY DEF IInv, RegistryTypeOK, Scanned, Active, Running
  <2>1. CASE u = t
    <3>1. s \in Nat /\ i[t] \in Nat /\ s < i[t]
      BY <2>1 DEF IInv, RegistryTypeOK, Passed, Holds, Slot
    <3> QED BY <2>1, <3>1 DEF IInv, Scanned, Active, Passed
  <2>2. CASE u # t
    BY <2>2 DEF IInv, RegistryTypeOK, Passed, Scanned, Active, Holds
  <2> QED BY <2>1, <2>2
<1>8. GrantsBelow'
  BY DEF IInv, RegistryTypeOK, GrantsBelow, SoloAlone, Active, Holds, Meets, Running
<1>9. GrantsFirst'
  BY DEF IInv, RegistryTypeOK, GrantsFirst, Running, Slot
<1>10. OneIdPerMethod'
  BY DEF IInv, RegistryTypeOK, OneIdPerMethod
<1>11. OverrunOnlyByRace'
  BY DEF IInv, RegistryTypeOK, OverrunOnlyByRace
<1> QED BY <1>1, <1>2, <1>3, <1>4, <1>5, <1>6, <1>7, <1>8, <1>9, <1>10, <1>11 DEF IInv

LEMMA ExhaustedKeeps ==
  ASSUME IInv, NEW t \in Thread, Exhausted(t)
  PROVE  IInv'
<1> USE DEF Exhausted, Goes, shared, locals, ends
<1>1. RegistryTypeOK'
  BY DEF IInv, RegistryTypeOK
<1>2. SoloAlone'
  BY DEF IInv, RegistryTypeOK, SoloAlone, Active, Meets
<1>3. SoloUnlessRaced'
  BY DEF IInv, RegistryTypeOK, SoloUnlessRaced, Active
<1>4. InTable'
  BY DEF IInv, RegistryTypeOK, InTable, Running
<1>5. SoloPlace'
  BY DEF IInv, RegistryTypeOK, SoloPlace, SoloAlone, InTable, Active, Meets, Running
<1>6. SlotsHeld'
  BY DEF IInv, RegistryTypeOK, SlotsHeld, Slot
<1>7. Scanned'
  BY DEF IInv, RegistryTypeOK, Scanned, SoloAlone, Active, Holds, Passed, Meets, Running, Slot
<1>8. GrantsBelow'
  BY DEF IInv, RegistryTypeOK, GrantsBelow, SoloAlone, Active, Holds, Meets, Running
<1>9. GrantsFirst'
  BY DEF IInv, RegistryTypeOK, GrantsFirst, Running, Slot
<1>10. OneIdPerMethod'
  BY DEF IInv, RegistryTypeOK, OneIdPerMethod
<1>11. OverrunOnlyByRace'
  BY DEF IInv, RegistryTypeOK, OverrunOnlyByRace
<1> QED BY <1>1, <1>2, <1>3, <1>4, <1>5, <1>6, <1>7, <1>8, <1>9, <1>10, <1>11 DEF IInv

LEMMA RoomKeeps ==
  ASSUME IInv, NEW t \in Thread, Room(t)
  PROVE  IInv'
<1> USE DEF Room, Goes, shared, locals, ends
<1>1. RegistryTypeOK'
  BY DEF IInv, RegistryTypeOK
<1>2. SoloAlone'
  BY DEF IInv, RegistryTypeOK, SoloAlone, Active, Meets
<1>3. SoloUnlessRaced'
  BY DEF IInv, RegistryTypeOK, SoloUnlessRaced, Active
<1>4. InTable'
  BY DEF IInv, RegistryTypeOK, InTable, Running
<1>5. SoloPlace'
  BY DEF IInv, RegistryTypeOK, SoloPlace, SoloAlone, InTable, Active, Meets, Running
<1>6. SlotsHeld'
  BY DEF IInv, RegistryTypeOK, SlotsHeld, Slot
<1>7. Scanned'
  BY DEF IInv, RegistryTypeOK, Scanned, SoloAlone, Active, Holds, Passed, Meets, Running, Slot
<1>8. GrantsBelow'
  BY DEF IInv, RegistryTypeOK, GrantsBelow, SoloAlone, Active, Holds, Meets, Running
<1>9. GrantsFirst'
  BY DEF IInv, RegistryTypeOK, GrantsFirst, Running, Slot
<1>10. OneIdPerMethod'
  BY DEF IInv, RegistryTypeOK, OneIdPerMethod
<1>11. OverrunOnlyByRace'
  BY DEF IInv, RegistryTypeOK, OverrunOnlyByRace
<1> QED BY <1>1, <1>2, <1>3, <1>4, <1>5, <1>6, <1>7, <1>8, <1>9, <1>10, <1>11 DEF IInv

LEMMA LoadKeeps ==
  ASSUME IInv, NEW t \in Thread, Load(t)
  PROVE  IInv'
<1> USE DEF Load, Goes, shared, locals, ends
<1>1. RegistryTypeOK'
  BY DEF IInv, RegistryTypeOK
<1>2. SoloAlone'
  BY DEF IInv, RegistryTypeOK, SoloAlone, Active, Meets
<1>3. SoloUnlessRaced'
  BY DEF IInv, RegistryTypeOK, SoloUnlessRaced, Active
<1>4. InTable'
  BY DEF IInv, RegistryTypeOK, InTable, Running
<1>5. SoloPlace'
  <2> SUFFICES ASSUME Running, NEW u \in Thread, solo[u]
               PROVE  /\ at'[u] = "load" => count[kind[u]] # Capacity[kind[u]]
                      /\ at'[u] = "store" => mine'[u] = count[kind[u]] /\ mine'[u] < Capacity[kind[u]]
                      /\ at'[u] \in {"name", "rest"} => count[kind[u]] = mine'[u] + 1
                      /\ at'[u] = "rest" => slot[kind[u]][mine'[u]].name = Held[key[u].name]
    BY DEF SoloPlace, Running
  <2>1. CASE u = t
    <3>1. count[kind[t]] \in Nat /\ Capacity[kind[t]] \in Nat /\ kind[t] \in Kind
      BY CapacityNat DEF IInv, RegistryTypeOK
    <3>2. count[kind[t]] <= Capacity[kind[t]] /\ count[kind[t]] # Capacity[kind[t]]
      BY <2>1, <3>1 DEF IInv, InTable, SoloPlace
    <3>3. mine'[t] = count[kind[t]] /\ at'[t] = "store"
      BY DEF IInv, RegistryTypeOK
    <3> QED BY <2>1, <3>1, <3>2, <3>3
  <2>2. CASE u # t
    BY <2>2 DEF IInv, RegistryTypeOK, SoloPlace
  <2> QED BY <2>1, <2>2
<1>6. SlotsHeld'
  BY DEF IInv, RegistryTypeOK, SlotsHeld, Slot
<1>7. Scanned'
  BY DEF IInv, RegistryTypeOK, Scanned, SoloAlone, Active, Holds, Passed, Meets, Running, Slot
<1>8. GrantsBelow'
  <2> SUFFICES ASSUME Running, NEW g \in grants, g.solo
               PROVE  /\ g.id < count[g.kind]
                      /\ \A u \in Thread : Holds(u)' /\ kind[u] = g.kind => g.id < mine'[u]
    BY DEF GrantsBelow, Running
  <2>1. g.id < count[g.kind] /\ \A u \in Thread : Holds(u) /\ kind[u] = g.kind => g.id < mine[u]
    BY DEF IInv, GrantsBelow
  <2>2. ASSUME NEW u \in Thread, u # t PROVE Holds(u)' = Holds(u) /\ mine'[u] = mine[u]
    BY <2>2 DEF IInv, RegistryTypeOK, Holds
  <2>3. mine'[t] = count[kind[t]]
    BY DEF IInv, RegistryTypeOK
  <2> QED BY <2>1, <2>2, <2>3
<1>9. GrantsFirst'
  BY DEF IInv, RegistryTypeOK, GrantsFirst, Running, Slot
<1>10. OneIdPerMethod'
  BY DEF IInv, RegistryTypeOK, OneIdPerMethod
<1>11. OverrunOnlyByRace'
  BY DEF IInv, RegistryTypeOK, OverrunOnlyByRace
<1> QED BY <1>1, <1>2, <1>3, <1>4, <1>5, <1>6, <1>7, <1>8, <1>9, <1>10, <1>11 DEF IInv

LEMMA StoreKeeps ==
  ASSUME IInv, NEW t \in Thread, Store(t)
  PROVE  IInv'
<1> USE DEF Store, Goes, shared, locals, ends
<1>1. RegistryTypeOK'
  BY DEF IInv, RegistryTypeOK
<1>2. SoloAlone'
  BY DEF IInv, RegistryTypeOK, SoloAlone, Active, Meets
<1>3. SoloUnlessRaced'
  BY DEF IInv, RegistryTypeOK, SoloUnlessRaced, Active
<1>4. InTable'
  <2>1. /\ kind[t] \in Kind /\ mine[t] \in Nat /\ Capacity[kind[t]] \in Nat
        /\ count' = [count EXCEPT ![kind[t]] = mine[t] + 1]
        /\ overrun' = (mine[t] >= Capacity[kind[t]])
    BY CapacityNat DEF IInv, RegistryTypeOK
  <2> SUFFICES ASSUME Running'
               PROVE  /\ \A k \in Kind : count'[k] <= Capacity[k]
                      /\ \A u \in Thread : at'[u] \in {"name", "rest"} => mine[u] < Capacity[kind[u]]
    BY DEF InTable
  <2>2. mine[t] < Capacity[kind[t]]
    <3>1. ~overrun'
      BY DEF Running
    <3>2. ~(mine[t] >= Capacity[kind[t]])
      BY <3>1, <2>1, Zenon
    <3> QED BY <3>2, <2>1
  <2>3. ASSUME NEW k \in Kind PROVE count'[k] <= Capacity[k]
    BY <2>1, <2>2 DEF IInv, RegistryTypeOK, InTable
  <2>4. ASSUME NEW u \in Thread, at'[u] \in {"name", "rest"} PROVE mine[u] < Capacity[kind[u]]
    BY <2>2, <2>4 DEF IInv, RegistryTypeOK, InTable
  <2> QED BY <2>3, <2>4
<1>5. SoloPlace'
  BY DEF IInv, RegistryTypeOK, SoloPlace, SoloAlone, InTable, Active, Meets, Running
<1>6. SlotsHeld'
  BY DEF IInv, RegistryTypeOK, SlotsHeld, Slot
<1>7. Scanned'
  BY DEF IInv, RegistryTypeOK, Scanned, SoloAlone, Active, Holds, Passed, Meets, Running, Slot
<1>8. GrantsBelow'
  BY DEF IInv, RegistryTypeOK, GrantsBelow, SoloAlone, Active, Holds, Meets, Running
<1>9. GrantsFirst'
  BY DEF IInv, RegistryTypeOK, GrantsFirst, Running, Slot
<1>10. OneIdPerMethod'
  BY DEF IInv, RegistryTypeOK, OneIdPerMethod
<1>11. OverrunOnlyByRace'
  <2> SUFFICES ASSUME overrun', ~raced PROVE FALSE
    BY DEF OverrunOnlyByRace
  <2>1. kind[t] \in Kind /\ mine[t] \in Nat /\ Capacity[kind[t]] \in Nat
    BY CapacityNat DEF IInv, RegistryTypeOK
  <2>2. solo[t]
    BY DEF IInv, SoloUnlessRaced, Active
  <2>3. mine[t] < Capacity[kind[t]]
    BY <2>2 DEF IInv, SoloPlace
  <2>4. mine[t] >= Capacity[kind[t]]
    <3>1. overrun' = (mine[t] >= Capacity[kind[t]])
      OBVIOUS
    <3> QED BY <3>1, Zenon
  <2> QED BY <2>1, <2>3, <2>4
<1> QED BY <1>1, <1>2, <1>3, <1>4, <1>5, <1>6, <1>7, <1>8, <1>9, <1>10, <1>11 DEF IInv

LEMMA WriteNameKeeps ==
  ASSUME IInv, NEW t \in Thread, WriteName(t)
  PROVE  IInv'
<1> USE DEF WriteName, Goes, shared, locals, ends
<1>0. PICK w \in Key :
        /\ slot' = [slot EXCEPT ![kind[t]][mine[t]] = w]
        /\ Kept(slot[kind[t]][mine[t]]) = slot[kind[t]][mine[t]] => Kept(w) = w
        /\ w = [slot[kind[t]][mine[t]] EXCEPT !.name = Held[key[t].name]]
  BY Writes DEF IInv
<1>s. /\ mine[t] \in Slot(kind[t]) /\ kind[t] \in Kind
      /\ DOMAIN slot' = Kind
      /\ \A k \in Kind : slot'[k] \in [Slot(k) -> Key]
      /\ \A k \in Kind : \A s \in Slot(k) :
           slot'[k][s] = IF k = kind[t] /\ s = mine[t] THEN w ELSE slot[k][s]
  <2>1. mine[t] \in Nat /\ kind[t] \in Kind /\ Capacity[kind[t]] \in Nat
    BY CapacityNat DEF IInv, RegistryTypeOK
  <2>2. mine[t] < Capacity[kind[t]]
    BY <2>1 DEF IInv, InTable
  <2>3. mine[t] \in Slot(kind[t])
    BY <2>1, <2>2 DEF Slot
  <2>4. RegistryTypeOK /\ slot' = [slot EXCEPT ![kind[t]][mine[t]] = w]
    BY <1>0 DEF IInv
  <2>5. /\ DOMAIN slot' = Kind
        /\ \A k \in Kind : slot'[k] \in [Slot(k) -> Key]
        /\ \A k \in Kind : \A s \in Slot(k) :
             slot'[k][s] = IF k = kind[t] /\ s = mine[t] THEN w ELSE slot[k][s]
    <3> HIDE DEF WriteName, WriteRest, Goes, Grant
    <3> QED BY <2>2, <2>4, SlotWritten
  <2> QED BY <2>1, <2>3, <2>5
<1>1. RegistryTypeOK'
  BY <1>s DEF IInv, RegistryTypeOK
<1>2. SoloAlone'
  BY DEF IInv, RegistryTypeOK, SoloAlone, Active, Meets
<1>3. SoloUnlessRaced'
  BY DEF IInv, RegistryTypeOK, SoloUnlessRaced, Active
<1>4. InTable'
  BY DEF IInv, RegistryTypeOK, InTable, Running
<1>5. SoloPlace'
  <2> SUFFICES ASSUME NEW u \in Thread, solo[u]
               PROVE  /\ at'[u] = "load" => count[kind[u]] # Capacity[kind[u]]
                      /\ at'[u] = "store" => mine[u] = count[kind[u]] /\ mine[u] < Capacity[kind[u]]
                      /\ at'[u] \in {"name", "rest"} => count[kind[u]] = mine[u] + 1
                      /\ at'[u] = "rest" => slot'[kind[u]][mine[u]].name = Held[key[u].name]
    BY DEF SoloPlace
  <2>1. CASE u = t
    <3>1. slot'[kind[t]][mine[t]].name = Held[key[t].name]
      <4>1. slot[kind[t]][mine[t]] \in Key
        BY <1>s DEF IInv, RegistryTypeOK
      <4>2. w.name = Held[key[t].name]
        BY <1>0, <4>1 DEF Key
      <4> QED BY <1>s, <4>2
    <3> QED BY <2>1, <3>1 DEF IInv, RegistryTypeOK, SoloPlace
  <2>2. CASE u # t
    <3>1. at[u] = "rest" => kind[u] # kind[t]
      BY <2>2 DEF IInv, SoloAlone, Active, Meets
    <3>2. at[u] = "rest" => mine[u] \in Slot(kind[u]) /\ kind[u] \in Kind
      BY CapacityNat DEF IInv, RegistryTypeOK, InTable, Slot
    <3> QED BY <2>2, <3>1, <3>2, <1>s DEF IInv, RegistryTypeOK, SoloPlace
  <2> QED BY <2>1, <2>2
<1>6. SlotsHeld'
  BY <1>0, <1>s DEF IInv, SlotsHeld
<1>7. Scanned'
  BY DEF IInv, RegistryTypeOK, Scanned, SoloAlone, Active, Holds, Passed, Meets, Running, Slot
<1>8. GrantsBelow'
  BY DEF IInv, RegistryTypeOK, GrantsBelow, SoloAlone, Active, Holds, Meets, Running
<1>9. GrantsFirst'
  <2>1. ASSUME NEW g \in grants, g.solo
        PROVE  /\ g.kind \in Kind /\ g.id \in Slot(g.kind)
               /\ g.kind = kind[t] => g.id < mine[t]
               /\ slot[g.kind][g.id] = Kept(g.key)
               /\ Kept(g.key) = g.key => \A s \in Slot(g.kind) : s < g.id => slot[g.kind][s] # g.key
    <3>1. /\ g.kind \in Kind /\ g.id \in Nat /\ count[g.kind] \in Nat /\ Capacity[g.kind] \in Nat
      BY CapacityNat DEF IInv, RegistryTypeOK
    <3>2. g.id < count[g.kind] /\ count[g.kind] <= Capacity[g.kind]
      BY <2>1, <3>1 DEF IInv, GrantsBelow, InTable
    <3>3. g.id \in Slot(g.kind)
      BY <3>1, <3>2 DEF Slot
    <3>4. g.kind = kind[t] => g.id < mine[t]
      BY <2>1 DEF IInv, GrantsBelow, Holds
    <3>5. /\ slot[g.kind][g.id] = Kept(g.key)
          /\ Kept(g.key) = g.key => \A s \in Slot(g.kind) : s < g.id => slot[g.kind][s] # g.key
      BY <2>1 DEF IInv, GrantsFirst
    <3> QED BY <3>1, <3>3, <3>4, <3>5
  <2>2. ASSUME NEW g \in grants, g.solo
        PROVE  /\ slot'[g.kind][g.id] = Kept(g.key)
               /\ Kept(g.key) = g.key => \A s \in Slot(g.kind) : s < g.id => slot'[g.kind][s] # g.key
    <3>1. g.id \in Nat /\ mine[t] \in Nat
      BY DEF IInv, RegistryTypeOK
    <3>2. \A s \in Slot(g.kind) : s <= g.id => slot'[g.kind][s] = slot[g.kind][s]
      <4> SUFFICES ASSUME NEW s \in Slot(g.kind), s <= g.id
                   PROVE  slot'[g.kind][s] = slot[g.kind][s]
        OBVIOUS
      <4>1. g.kind = kind[t] => s # mine[t]
        BY <2>1, <2>2, <3>1 DEF Slot
      <4> QED BY <1>s, <2>1, <2>2, <4>1
    <3>3. g.id \in Slot(g.kind) /\ g.id <= g.id
      BY <2>1, <2>2, <3>1
    <3>4. \A s \in Slot(g.kind) : s < g.id => s <= g.id
      BY <3>1 DEF Slot
    <3> QED BY <2>1, <2>2, <3>2, <3>3, <3>4
  <2> QED BY <2>2 DEF GrantsFirst
<1>10. OneIdPerMethod'
  BY DEF IInv, RegistryTypeOK, OneIdPerMethod
<1>11. OverrunOnlyByRace'
  BY DEF IInv, RegistryTypeOK, OverrunOnlyByRace
<1> QED BY <1>1, <1>2, <1>3, <1>4, <1>5, <1>6, <1>7, <1>8, <1>9, <1>10, <1>11 DEF IInv

LEMMA WriteRestKeeps ==
  ASSUME IInv, NEW t \in Thread, WriteRest(t)
  PROVE  IInv'
<1> USE DEF WriteRest, Goes, shared, locals, ends, Grant
<1>0. PICK w \in Key :
        /\ slot' = [slot EXCEPT ![kind[t]][mine[t]] = w]
        /\ Kept(slot[kind[t]][mine[t]]) = slot[kind[t]][mine[t]] => Kept(w) = w
        /\ w = [slot[kind[t]][mine[t]] EXCEPT !.rest = Held[key[t].rest]]
  BY Writes DEF IInv
<1>s. /\ mine[t] \in Slot(kind[t]) /\ kind[t] \in Kind
      /\ DOMAIN slot' = Kind
      /\ \A k \in Kind : slot'[k] \in [Slot(k) -> Key]
      /\ \A k \in Kind : \A s \in Slot(k) :
           slot'[k][s] = IF k = kind[t] /\ s = mine[t] THEN w ELSE slot[k][s]
  <2>1. mine[t] \in Nat /\ kind[t] \in Kind /\ Capacity[kind[t]] \in Nat
    BY CapacityNat DEF IInv, RegistryTypeOK
  <2>2. mine[t] < Capacity[kind[t]]
    BY <2>1 DEF IInv, InTable
  <2>3. mine[t] \in Slot(kind[t])
    BY <2>1, <2>2 DEF Slot
  <2>4. RegistryTypeOK /\ slot' = [slot EXCEPT ![kind[t]][mine[t]] = w]
    BY <1>0 DEF IInv
  <2>5. /\ DOMAIN slot' = Kind
        /\ \A k \in Kind : slot'[k] \in [Slot(k) -> Key]
        /\ \A k \in Kind : \A s \in Slot(k) :
             slot'[k][s] = IF k = kind[t] /\ s = mine[t] THEN w ELSE slot[k][s]
    <3> HIDE DEF WriteName, WriteRest, Goes, Grant
    <3> QED BY <2>2, <2>4, SlotWritten
  <2> QED BY <2>1, <2>3, <2>5
<1>1. RegistryTypeOK'
  <2>1. [kind |-> kind[t], key |-> key[t], id |-> mine[t], solo |-> solo[t]]
          \in [kind : Kind, key : Key, id : Nat, solo : BOOLEAN]
    BY DEF IInv, RegistryTypeOK
  <2>2. grants' \subseteq [kind : Kind, key : Key, id : Nat, solo : BOOLEAN]
    BY <2>1 DEF IInv, RegistryTypeOK
  <2> QED BY <2>2, <1>s DEF IInv, RegistryTypeOK
<1>2. SoloAlone'
  BY DEF IInv, RegistryTypeOK, SoloAlone, Active, Meets
<1>3. SoloUnlessRaced'
  BY DEF IInv, RegistryTypeOK, SoloUnlessRaced, Active
<1>4. InTable'
  BY DEF IInv, RegistryTypeOK, InTable, Running
<1>5. SoloPlace'
  BY DEF IInv, RegistryTypeOK, SoloPlace, SoloAlone, InTable, Active, Meets, Running
<1>6. SlotsHeld'
  BY <1>0, <1>s DEF IInv, SlotsHeld
<1>7. Scanned'
  BY DEF IInv, RegistryTypeOK, Scanned, SoloAlone, Active, Holds, Passed, Meets, Running, Slot
<1>8. GrantsBelow'
  <2> DEFINE new == [kind |-> kind[t], key |-> key[t], id |-> mine[t], solo |-> solo[t]]
  <2>1. grants' = grants \cup {new} /\ count' = count /\ mine' = mine /\ kind' = kind
    OBVIOUS
  <2>2. ASSUME NEW u \in Thread, Holds(u)' PROVE u # t /\ Holds(u)
    BY <2>2 DEF IInv, RegistryTypeOK, Holds
  <2>3. ASSUME NEW g \in grants, g.solo
        PROVE  /\ g.id < count[g.kind]
               /\ \A u \in Thread : Holds(u)' /\ kind[u] = g.kind => g.id < mine[u]
    BY <2>2, <2>3 DEF IInv, GrantsBelow
  <2>4. ASSUME solo[t]
        PROVE  /\ mine[t] < count[kind[t]]
               /\ \A u \in Thread : Holds(u)' => kind[u] # kind[t]
    <3>1. mine[t] < count[kind[t]]
      BY <2>4 DEF IInv, SoloPlace, RegistryTypeOK
    <3>2. ASSUME NEW u \in Thread, Holds(u)' PROVE kind[u] # kind[t]
      BY <2>2, <2>4, <3>2 DEF IInv, SoloAlone, Active, Meets, Holds
    <3> QED BY <3>1, <3>2
  <2> QED BY <2>1, <2>3, <2>4 DEF GrantsBelow
<1>9. GrantsFirst'
  <2> DEFINE new == [kind |-> kind[t], key |-> key[t], id |-> mine[t], solo |-> solo[t]]
  <2>1. ASSUME NEW g \in grants, g.solo
        PROVE  /\ g.kind \in Kind /\ g.id \in Slot(g.kind)
               /\ g.kind = kind[t] => g.id < mine[t]
               /\ slot[g.kind][g.id] = Kept(g.key)
               /\ Kept(g.key) = g.key => \A s \in Slot(g.kind) : s < g.id => slot[g.kind][s] # g.key
    <3>1. /\ g.kind \in Kind /\ g.id \in Nat /\ count[g.kind] \in Nat /\ Capacity[g.kind] \in Nat
      BY CapacityNat DEF IInv, RegistryTypeOK
    <3>2. g.id < count[g.kind] /\ count[g.kind] <= Capacity[g.kind]
      BY <2>1, <3>1 DEF IInv, GrantsBelow, InTable
    <3>3. g.id \in Slot(g.kind)
      BY <3>1, <3>2 DEF Slot
    <3>4. g.kind = kind[t] => g.id < mine[t]
      BY <2>1 DEF IInv, GrantsBelow, Holds
    <3>5. /\ slot[g.kind][g.id] = Kept(g.key)
          /\ Kept(g.key) = g.key => \A s \in Slot(g.kind) : s < g.id => slot[g.kind][s] # g.key
      BY <2>1 DEF IInv, GrantsFirst
    <3> QED BY <3>1, <3>3, <3>4, <3>5
  <2>2. ASSUME NEW g \in grants, g.solo
        PROVE  /\ slot'[g.kind][g.id] = Kept(g.key)
               /\ Kept(g.key) = g.key => \A s \in Slot(g.kind) : s < g.id => slot'[g.kind][s] # g.key
    <3>1. g.id \in Nat /\ mine[t] \in Nat
      BY DEF IInv, RegistryTypeOK
    <3>2. \A s \in Slot(g.kind) : s <= g.id => slot'[g.kind][s] = slot[g.kind][s]
      <4> SUFFICES ASSUME NEW s \in Slot(g.kind), s <= g.id
                   PROVE  slot'[g.kind][s] = slot[g.kind][s]
        OBVIOUS
      <4>1. g.kind = kind[t] => s # mine[t]
        BY <2>1, <2>2, <3>1 DEF Slot
      <4> QED BY <1>s, <2>1, <2>2, <4>1
    <3>3. g.id \in Slot(g.kind) /\ g.id <= g.id
      BY <2>1, <2>2, <3>1
    <3>4. \A s \in Slot(g.kind) : s < g.id => s <= g.id
      BY <3>1 DEF Slot
    <3> QED BY <2>1, <2>2, <3>2, <3>3, <3>4
  <2>3. solo[t] => slot'[kind[t]][mine[t]] = Kept(key[t])
    <3>1. slot[kind[t]][mine[t]] \in Key
      BY <1>s DEF IInv, RegistryTypeOK
    <3>2. w = [name |-> slot[kind[t]][mine[t]].name, rest |-> Held[key[t].rest]]
      BY <1>0, <3>1 DEF Key
    <3>3. solo[t] => slot[kind[t]][mine[t]].name = Held[key[t].name]
      BY DEF IInv, SoloPlace
    <3> QED BY <1>s, <3>2, <3>3 DEF Kept
  <2>4. solo[t] => \A s \in Slot(kind[t]) : s < mine[t] => slot'[kind[t]][s] # key[t]
    <3> SUFFICES ASSUME solo[t], NEW s \in Slot(kind[t]), s < mine[t]
                 PROVE  slot'[kind[t]][s] # key[t]
      OBVIOUS
    <3>1. slot[kind[t]][s] # key[t]
      BY DEF IInv, Scanned, Active, Passed, Holds
    <3>2. s # mine[t]
      BY DEF Slot
    <3> QED BY <3>1, <3>2, <1>s
  <2>5. grants' = grants \cup {new}
    OBVIOUS
  <2> QED BY <2>2, <2>3, <2>4, <2>5 DEF GrantsFirst
<1>10. OneIdPerMethod'
  <2> DEFINE new == [kind |-> kind[t], key |-> key[t], id |-> mine[t], solo |-> solo[t]]
  <2>1. ASSUME NEW g \in grants, g.solo, solo[t], g.kind = kind[t], g.key = key[t], Kept(g.key) = g.key
        PROVE  FALSE
    <3>1. /\ g.id \in Nat /\ kind[t] \in Kind /\ mine[t] \in Nat
          /\ count[kind[t]] \in Nat /\ Capacity[kind[t]] \in Nat
      BY CapacityNat DEF IInv, RegistryTypeOK
    <3>2. g.id < mine[t] /\ g.id < count[kind[t]] /\ count[kind[t]] <= Capacity[kind[t]]
      BY <2>1, <3>1 DEF IInv, GrantsBelow, InTable, Holds
    <3>3. g.id \in Slot(kind[t])
      BY <3>1, <3>2 DEF Slot
    <3>4. slot[kind[t]][g.id] # key[t]
      BY <2>1, <3>2, <3>3 DEF IInv, Scanned, Active, Passed, Holds
    <3>5. slot[kind[t]][g.id] = key[t]
      BY <2>1 DEF IInv, GrantsFirst
    <3> QED BY <3>4, <3>5
  <2>2. ASSUME NEW g \in grants, NEW h \in grants
        PROVE  g.solo /\ h.solo /\ g.kind = h.kind /\ g.key = h.key /\ Kept(g.key) = g.key => g.id = h.id
    BY DEF IInv, OneIdPerMethod
  <2>3. grants' = grants \cup {new}
    OBVIOUS
  <2> QED BY <2>1, <2>2, <2>3 DEF OneIdPerMethod
<1>11. OverrunOnlyByRace'
  BY DEF IInv, RegistryTypeOK, OverrunOnlyByRace
<1> QED BY <1>1, <1>2, <1>3, <1>4, <1>5, <1>6, <1>7, <1>8, <1>9, <1>10, <1>11 DEF IInv

-----------------------------------------------------------------------------
LEMMA InitIInv == RegistryInit => IInv
<1> SUFFICES ASSUME RegistryInit PROVE IInv
  OBVIOUS
<1> USE DEF RegistryInit
<1>1. RegistryTypeOK
  BY RegistryConstants DEF RegistryConstants, RegistryTypeOK, Key, Kind
<1>2. SlotsHeld
  BY RegistryConstants DEF RegistryConstants, SlotsHeld, Kept
<1>3. InTable
  <2>1. \A k \in Kind : count[k] = 0
    OBVIOUS
  <2>2. \A t \in Thread : at[t] = "idle"
    OBVIOUS
  <2> HIDE DEF RegistryInit
  <2> QED BY <2>1, <2>2, CapacityNat DEF InTable
<1> QED BY <1>1, <1>2, <1>3 DEF IInv, SoloAlone, SoloUnlessRaced, SoloPlace, Scanned, GrantsBelow,
           GrantsFirst, OneIdPerMethod, OverrunOnlyByRace, Active, Meets

LEMMA StepIInv == IInv /\ [RegistryNext]_registry => IInv'
<1> SUFFICES ASSUME IInv, [RegistryNext]_registry PROVE IInv'
  OBVIOUS
<1>1. CASE UNCHANGED registry
  BY <1>1 DEF IInv, registry, shared, locals, ends, RegistryTypeOK, SoloAlone, SoloUnlessRaced, InTable,
     SoloPlace, SlotsHeld, Scanned, GrantsBelow, GrantsFirst, OneIdPerMethod, OverrunOnlyByRace,
     Active, Holds, Meets, Passed, Running
<1>2. ASSUME NEW t \in Thread, GetMethodID(t) \/ GetFieldID(t)
      PROVE  IInv'
  BY <1>2, BeginKeeps DEF GetMethodID, GetFieldID, Kind
<1>3. ASSUME NEW t \in Thread, Lookup(t)
      PROVE  IInv'
  BY <1>3, FoundKeeps, CompareKeeps, NotFoundKeeps, ExhaustedKeeps, RoomKeeps, LoadKeeps, StoreKeeps,
     WriteNameKeeps, WriteRestKeeps DEF Lookup
<1> QED BY <1>1, <1>2, <1>3 DEF RegistryNext, register_method, register_field

\* The inductive invariant holds of every behaviour of the registries.
THEOREM Inductive == RegistrySpec => []IInv
  BY InitIInv, StepIInv, PTL DEF RegistrySpec

\* The registries' variables keep their types: register_method, register_field.
THEOREM RegistryTypeCorrect == RegistrySpec => []RegistryTypeOK
  BY Inductive, PTL DEF IInv

\* An ID given to a lookup that met no other one names its method for good.
THEOREM SoloIdsKept == RegistrySpec => []SoloIdKept
<1>1. IInv => SoloIdKept
  BY DEF IInv, GrantsBelow, GrantsFirst, SoloIdKept, Resolves
<1> QED BY <1>1, Inductive, PTL

\* Two such lookups of one method get one ID.
THEOREM OneIdForEachMethod == RegistrySpec => []OneIdPerMethod
  BY Inductive, PTL DEF IInv

\* A slot past the table is taken only after two lookups have met.
THEOREM OverrunNeedsRace == RegistrySpec => []OverrunOnlyByRace
  BY Inductive, PTL DEF IInv

-----------------------------------------------------------------------------
(***************************************************************************)
(* The guest's threads in JniBridge, with main's startup and shutdown,     *)
(* use the registries as RegistrySpec says, so the above holds of them.    *)
(***************************************************************************)
THEOREM BridgeImplementsRegistry == BridgeSpec => RegistrySpec
<1>1. BridgeInit => RegistryInit
  BY DEF BridgeInit
<1>2. [BridgeNext]_bridge => [RegistryNext]_registry
  BY DEF BridgeNext, bridge, RegistryNext, Startup, Shutdown, AsksForMethod, AsksForField, CallsList,
     RunsLookup, RunsListing, GetMethodID, GetFieldID
<1> QED BY <1>1, <1>2, PTL DEF BridgeSpec, RegistrySpec

\* In the bridge, an ID given to a lookup that met no other one names its method for good.
THEOREM BridgeKeepsSoloIds == BridgeSpec => []SoloIdKept
  BY BridgeImplementsRegistry, SoloIdsKept, PTL

-----------------------------------------------------------------------------
(* The listings: the helpers of ObbIndex first.                            *)

\* The components of a path, and the empty one.
Name == STRING
NoName == ""

LEMMA SmallestOf ==
  ASSUME NEW S, S \subseteq Nat, S # {}
  PROVE  \E n \in S : \A m \in S : n <= m
<1>1. PICK n \in S : \A m \in S : ~(<<m, n>> \in OpToRel(<, Nat))
  BY NatLessThanWellFounded, WFMin, Zenon
<1>2. \A m \in S : n <= m
  <2> SUFFICES ASSUME NEW m \in S PROVE n <= m
    OBVIOUS
  <2>1. m \in Nat /\ n \in Nat /\ ~(m < n)
    BY <1>1 DEF OpToRel
  <2> QED BY <2>1
<1> QED BY <1>2

LEMMA LargestOf ==
  ASSUME NEW k \in Nat, NEW S, S \subseteq 1 .. k, S # {}
  PROVE  \E n \in S : \A m \in S : n >= m
<1> DEFINE T == {k - m : m \in S}
<1>1. T \subseteq Nat /\ T # {}
  <2>1. \A m \in S : m \in Nat /\ k - m \in Nat
    BY SMT
  <2>2. T \subseteq Nat
    BY <2>1, Zenon
  <2>3. PICK m \in S : TRUE
    OBVIOUS
  <2>4. k - m \in T
    BY <2>3, Zenon
  <2> QED BY <2>2, <2>4, Zenon
<1>2. PICK l \in T : \A m \in T : l <= m
  <2> HIDE DEF T
  <2> QED BY <1>1, SmallestOf
<1>3. PICK n \in S : l = k - n
  BY SMT
<1>4. \A m \in S : k - n <= k - m
  BY <1>2, <1>3, Zenon
<1> QED BY <1>4, SMT

Named(path) == {n \in DOMAIN path : path[n] # NoName}

\* What Trim keeps of a path with a name in it.
LEMMA TrimNamed ==
  ASSUME NEW path \in Seq(Name), Named(path) # {}
  PROVE  \E low, high \in 1 .. Len(path) :
           /\ low <= high /\ path[low] # NoName /\ path[high] # NoName
           /\ \A n \in Named(path) : low <= n /\ n <= high
           /\ Trim(path) = SubSeq(path, low, high)
<1> DEFINE named == Named(path)
           low == CHOOSE n \in named : \A m \in named : n <= m
           high == CHOOSE n \in named : \A m \in named : n >= m
<1>1. Trim(path) = IF named = {} THEN <<>> ELSE SubSeq(path, low, high)
  BY Zenon DEF Trim, Named, NoName
<1>2. Len(path) \in Nat /\ named \subseteq 1 .. Len(path) /\ named \subseteq Nat /\ named # {}
  <2>1. Len(path) \in Nat /\ DOMAIN path = 1 .. Len(path) /\ 1 .. Len(path) \subseteq Nat
    BY SMT
  <2>2. named \subseteq DOMAIN path
    BY Zenon DEF Named
  <2> QED BY <2>1, <2>2, Zenon
<1>3. \A n \in named : path[n] # NoName
  BY DEF Named
<1> HIDE DEF named
<1>4. low \in named /\ \A m \in named : low <= m
  BY <1>2, SmallestOf, Zenon
<1>5. high \in named /\ \A m \in named : high >= m
  BY <1>2, LargestOf, Zenon
<1> HIDE DEF low, high
<1>6. /\ low \in 1 .. Len(path) /\ high \in 1 .. Len(path) /\ low <= high
      /\ \A n \in named : low <= n /\ n <= high
  BY <1>2, <1>4, <1>5, SMT
<1>7. Trim(path) = SubSeq(path, low, high) /\ path[low] # NoName /\ path[high] # NoName
  BY <1>1, <1>2, <1>3, <1>4, <1>5, Zenon
<1> QED BY <1>6, <1>7, Zenon DEF named

\* A trimmed path begins with a name and ends with one.
Trimmed(path) == path # <<>> => path[1] # NoName /\ path[Len(path)] # NoName

LEMMA TrimTrims ==
  ASSUME NEW path \in Seq(Name)
  PROVE  Trim(path) \in Seq(Name) /\ Trimmed(Trim(path))
<1>1. CASE Named(path) = {}
  <2>1. Trim(path) = <<>>
    BY <1>1, Zenon DEF Trim, Named, NoName
  <2> QED BY <2>1, SMT DEF Trimmed
<1>2. CASE Named(path) # {}
  <2>1. PICK low, high \in 1 .. Len(path) :
           /\ low <= high /\ path[low] # NoName /\ path[high] # NoName
           /\ Trim(path) = SubSeq(path, low, high)
    BY <1>2, TrimNamed, Zenon
  <2>2. \A n \in low .. high : path[n] \in Name
    BY SMT
  <2>3. low \in Int /\ high \in Int
    BY SMT
  <2> DEFINE u == SubSeq(path, low, high)
  <2>4. u \in Seq(Name)
    BY <2>1, SMT
  <2>5. Len(u) = high - low + 1
    BY <2>1, SMT
  <2>6. u[1] = path[low] /\ u[high - low + 1] = path[high]
    BY <2>1, SMT
  <2> QED BY <2>1, <2>4, <2>5, <2>6, Zenon DEF Trimmed
<1> QED BY <1>1, <1>2

LEMMA TrimKeeps ==
  ASSUME NEW path \in Seq(Name), path # <<>>, Trimmed(path)
  PROVE  Trim(path) = path
<1>1. Len(path) \in Nat /\ Len(path) >= 1 /\ DOMAIN path = 1 .. Len(path)
  BY SMT
<1>2. 1 \in Named(path) /\ Len(path) \in Named(path)
  <2>1. 1 \in DOMAIN path /\ Len(path) \in DOMAIN path
    BY <1>1, SMT
  <2> QED BY <2>1, Zenon DEF Named, Trimmed
<1>3. PICK low, high \in 1 .. Len(path) :
         /\ \A n \in Named(path) : low <= n /\ n <= high
         /\ Trim(path) = SubSeq(path, low, high)
  BY <1>2, TrimNamed, Zenon
<1>4. low = 1 /\ high = Len(path)
  <2>1. low <= 1 /\ Len(path) <= high
    BY <1>2, <1>3, Zenon
  <2>2. low \in Nat /\ high \in Nat /\ low >= 1 /\ high <= Len(path)
    BY <1>1, SMT
  <2> QED BY <2>1, <2>2, SMT
<1> QED BY <1>3, <1>4, SubSeqFull, Zenon

\* A child of a trimmed path is a trimmed path.
LEMMA ChildTrimmed ==
  ASSUME NEW path \in Seq(Name), NEW c \in Name, c # NoName
  PROVE  Trim(Append(Trim(path), c)) = Append(Trim(path), c)
<1> DEFINE d == Trim(path)
<1>1. d \in Seq(Name) /\ Trimmed(d)
  BY TrimTrims
<1> HIDE DEF d
<1>2. /\ Append(d, c) \in Seq(Name)
      /\ Len(Append(d, c)) = Len(d) + 1 /\ Append(d, c)[Len(d) + 1] = c
      /\ \A n \in 1 .. Len(d) : Append(d, c)[n] = d[n]
  BY <1>1, SMT
<1>3. Append(d, c)[1] # NoName
  <2>1. CASE d = <<>>
    BY <2>1, <1>2, SMT
  <2>2. CASE d # <<>>
    <3>1. 1 \in 1 .. Len(d)
      <4>1. d \in Seq(Name)
        BY <1>1
      <4> QED BY <4>1, <2>2, SMT
    <3> QED BY <1>1, <1>2, <2>2, <3>1 DEF Trimmed
  <2> QED BY <2>1, <2>2
<1>4. Trimmed(Append(d, c))
  BY <1>2, <1>3 DEF Trimmed
<1>5. Append(d, c) # <<>>
  <2>1. Len(d) + 1 # 0 /\ Len(<<>>) = 0
    BY <1>1, SMT
  <2> QED BY <1>2, <2>1
<1> QED BY <1>2, <1>4, <1>5, TrimKeeps DEF d

\* A prefix, element by element.
LEMMA PrefixAt ==
  ASSUME NEW s \in Seq(Name), NEW t \in Seq(Name)
  PROVE  IsPrefix(s, t) <=> Len(s) <= Len(t) /\ \A n \in 1 .. Len(s) : s[n] = t[n]
<1>1. SubSeq(s, 1, Len(s)) = s
  BY SubSeqFull
<1>2. ASSUME Len(s) <= Len(t)
      PROVE  SubSeq(t, 1, Len(s)) = s <=> \A n \in 1 .. Len(s) : s[n] = t[n]
  <2> DEFINE u == SubSeq(t, 1, Len(s))
  <2>1. /\ 1 \in Int /\ Len(s) \in Int /\ Len(s) \in Nat
        /\ \A n \in 1 .. Len(s) : t[n] \in Name
    BY <1>2, SMT
  <2>2. /\ u \in Seq(Name) /\ Len(u) = IF 1 <= Len(s) THEN Len(s) - 1 + 1 ELSE 0
        /\ \A n \in 1 .. Len(s) - 1 + 1 : u[n] = t[1 + n - 1]
    BY <2>1, SMT
  <2> HIDE DEF u
  <2>3. Len(u) = Len(s) /\ \A n \in 1 .. Len(s) : u[n] = t[n]
    BY <2>1, <2>2, SMT
  <2>4. u = s <=> \A n \in 1 .. Len(s) : s[n] = u[n]
    BY <2>2, <2>3, SeqEqual
  <2> QED BY <2>3, <2>4 DEF u
<1> QED BY <1>1, <1>2, Zenon DEF IsPrefix

LEMMA StrictPrefixAt ==
  ASSUME NEW s \in Seq(Name), NEW t \in Seq(Name)
  PROVE  IsStrictPrefix(s, t) <=> Len(s) < Len(t) /\ \A n \in 1 .. Len(s) : s[n] = t[n]
<1>1. Len(s) \in Nat /\ Len(t) \in Nat
  BY SMT
<1>2. Len(s) = Len(t) /\ (\A n \in 1 .. Len(s) : s[n] = t[n]) => s = t
  BY SeqEqual, Zenon
<1> QED BY <1>1, <1>2, PrefixAt, SMT DEF IsStrictPrefix

\* The first component of name below the directory d.
Child(name, d) == name[Len(d) + 1]

LEMMA ChildOf ==
  ASSUME NEW d \in Seq(Name), NEW name \in Seq(Name)
  PROVE  /\ Below(name, d) => /\ Child(name, d) \in Name /\ Child(name, d) # NoName
                              /\ Child(name, d) \in ToSet(name)
                              /\ Head(Remainder(name, d)) = Child(name, d)
         /\ \A c \in Name : c # NoName =>
              (IsPrefix(Append(d, c), name) <=> Below(name, d) /\ Child(name, d) = c)
<1>1. /\ Len(d) \in Nat /\ Len(name) \in Nat /\ DOMAIN name = 1 .. Len(name)
      /\ \A n \in 1 .. Len(name) : name[n] \in Name
  BY SMT
<1>2. ASSUME Below(name, d)
      PROVE  /\ Child(name, d) \in Name /\ Child(name, d) # NoName
             /\ Child(name, d) \in ToSet(name)
             /\ Head(Remainder(name, d)) = Child(name, d)
  <2>1. Len(d) < Len(name) /\ name[Len(d) + 1] # NoName
    BY <1>2, StrictPrefixAt, Zenon DEF Below, NoName
  <2>2. Len(d) + 1 \in 1 .. Len(name) /\ Len(name) \in Len(d) + 1 .. Len(name)
    <3>1. Len(d) \in Nat /\ Len(name) \in Nat /\ Len(d) < Len(name)
      BY <1>1, <2>1
    <3> QED BY <3>1, SMT
  <2>3. Head(Remainder(name, d)) = name[Len(d) + 1]
    BY <2>2, HeadTailOfSubSeq DEF Remainder
  <2> QED BY <1>1, <2>1, <2>2, <2>3, Zenon DEF Child, ToSet
<1>3. ASSUME NEW c \in Name, c # NoName
      PROVE  IsPrefix(Append(d, c), name) <=> Below(name, d) /\ Child(name, d) = c
  <2>1. /\ Append(d, c) \in Seq(Name)
        /\ Len(Append(d, c)) = Len(d) + 1 /\ Append(d, c)[Len(d) + 1] = c
        /\ \A n \in 1 .. Len(d) : Append(d, c)[n] = d[n]
    BY SMT
  <2>2. IsPrefix(Append(d, c), name) <=>
          Len(d) + 1 <= Len(name) /\ \A n \in 1 .. Len(d) + 1 : Append(d, c)[n] = name[n]
    BY <2>1, PrefixAt, Zenon
  <2>3. (\A n \in 1 .. Len(d) + 1 : Append(d, c)[n] = name[n]) <=>
          (\A n \in 1 .. Len(d) : d[n] = name[n]) /\ c = name[Len(d) + 1]
    BY <1>1, <2>1, SMT
  <2>4. Below(name, d) <=>
          Len(d) < Len(name) /\ (\A n \in 1 .. Len(d) : d[n] = name[n]) /\ name[Len(d) + 1] # NoName
    BY StrictPrefixAt, Zenon DEF Below, NoName
  <2>5. Len(d) + 1 <= Len(name) <=> Len(d) < Len(name)
    BY <1>1, SMT
  <2> QED BY <1>3, <2>2, <2>3, <2>4, <2>5, Zenon DEF Child
<1> QED BY <1>2, <1>3

\* The children of a directory are the first components below it.
LEMMA ChildrenAre ==
  ASSUME NEW d \in Seq(Name)
  PROVE  /\ \A c : c \in Children(d) <=>
                     \E e \in DOMAIN Archive : Below(Archive[e], d) /\ c = Child(Archive[e], d)
         /\ \A c \in Children(d) : c \in Name /\ c # NoName
<1>1. \A e \in DOMAIN Archive : Archive[e] \in Seq(Name)
  BY ObbConstants, SMT DEF Name
<1>2. \A c : c \in Children(d) <=>
        /\ \E e \in DOMAIN Archive : c \in ToSet(Archive[e])
        /\ c # NoName /\ \E e \in DOMAIN Archive : IsPrefix(Append(d, c), Archive[e])
  BY Zenon DEF Children, NoName
<1>3. \A e \in DOMAIN Archive : \A c \in ToSet(Archive[e]) : c \in Name
  BY <1>1, SMT DEF ToSet
<1>4. ASSUME NEW c, NEW e \in DOMAIN Archive, Below(Archive[e], d), c = Child(Archive[e], d)
      PROVE  c \in Children(d)
  <2>1. /\ c \in Name /\ c # NoName /\ c \in ToSet(Archive[e])
        /\ IsPrefix(Append(d, c), Archive[e])
    BY <1>1, <1>4, ChildOf, Zenon
  <2> QED BY <1>2, <2>1, Zenon
<1>5. ASSUME NEW c \in Children(d)
      PROVE  /\ c \in Name /\ c # NoName
             /\ \E e \in DOMAIN Archive : Below(Archive[e], d) /\ c = Child(Archive[e], d)
  <2>1. c \in Name /\ c # NoName
    BY <1>2, <1>3, Zenon
  <2>2. PICK e \in DOMAIN Archive : IsPrefix(Append(d, c), Archive[e])
    BY <1>2, Zenon
  <2>3. Below(Archive[e], d) /\ Child(Archive[e], d) = c
    BY <1>1, <2>1, <2>2, ChildOf, Zenon
  <2> QED BY <2>1, <2>3
<1> QED BY <1>4, <1>5, Zenon

-----------------------------------------------------------------------------
(* The inductive invariant of the listings: nothing is said of one that    *)
(* has met another or the close.                                           *)

Met(t, e) == Below(entries[e], Trim(dir[t]))
Component(t, e) == Child(entries[e], Trim(dir[t]))
Cell(m) == Head(list_result[m])
Listing(t) == step[t] # "idle"

ListingTypes ==
  /\ entries \in {Archive, <<>>}
  /\ phase = "startup" => \A t \in Caller : ~Listing(t)
  /\ DOMAIN list_result = DOMAIN Archive
  /\ DOMAIN step = Caller /\ DOMAIN dir = Caller /\ DOMAIN index = Caller
  /\ DOMAIN result_count = Caller /\ DOMAIN taken = Caller
  /\ \A t \in Caller : dir[t] \in Seq(Name) /\ index[t] \in Nat /\ result_count[t] \in Nat

\* A listing is alone until it meets another one.
Lonely == \A t, u \in Caller : Listing(t) /\ alone[t] /\ u # t => ~Listing(u)

\* The cells hold each component below dir of the entries so far, once.
Gathered(t) ==
  /\ result_count[t] < index[t] /\ index[t] <= Len(entries) + 1
  /\ \A m \in 1 .. result_count[t] :
       \E e \in 1 .. index[t] - 1 : Met(t, e) /\ Cell(m) = Component(t, e)
  /\ \A m, k \in 1 .. result_count[t] : Cell(m) = Cell(k) => m = k
  /\ \A e \in 1 .. index[t] - 1 : Met(t, e) =>
       \E m \in 1 .. result_count[t] : Cell(m) = Component(t, e)

\* The names copied so far are those of the first cells.
Copying(t) ==
  /\ taken[t] \in Seq(Name) /\ Len(taken[t]) <= result_count[t]
  /\ \A m \in 1 .. Len(taken[t]) : taken[t][m] = Cell(m)
  /\ step[t] = "copy" => index[t] = Len(entries) + 1

Undisturbed == \A t \in Caller : Listing(t) /\ alone[t] => Gathered(t) /\ Copying(t)

Exactly(a) ==
  IsInjective(a.names) /\ ToSet(a.names) = (IF a.open THEN Children(Trim(a.dir)) ELSE {})

Answered == \A a \in answers : a.dir \in Seq(Name) /\ (a.alone => Exactly(a))

ListingInv == ListingTypes /\ Lonely /\ Undisturbed /\ Answered

\* An index that is open is the whole archive, and its names are typed.
LEMMA EntriesTyped ==
  ASSUME ListingTypes
  PROVE  /\ Len(entries) \in Nat /\ DOMAIN entries = 1 .. Len(entries)
         /\ \A e \in 1 .. Len(entries) :
              entries[e] \in Seq(Name) /\ e \in DOMAIN list_result
<1>1. Archive \in Seq(Seq(Name))
  BY ObbConstants DEF Name
<1>2. CASE entries = Archive
  BY <1>1, <1>2, SMT DEF ListingTypes
<1>3. CASE entries = <<>>
  BY <1>3, SMT
<1> QED BY <1>2, <1>3, Zenon DEF ListingTypes

LEMMA ListingInit == BridgeInit => ListingInv
<1> SUFFICES ASSUME BridgeInit PROVE ListingInv
  OBVIOUS
<1>1. /\ entries = <<>> /\ answers = {} /\ \A t \in Caller : ~Listing(t)
      /\ DOMAIN list_result = DOMAIN Archive
      /\ DOMAIN step = Caller /\ DOMAIN dir = Caller /\ DOMAIN index = Caller
      /\ DOMAIN result_count = Caller /\ DOMAIN taken = Caller
      /\ \A t \in Caller : dir[t] = <<>> /\ index[t] = 1 /\ result_count[t] = 0
  BY Zenon DEF BridgeInit, ObbInit, Listing
<1>2. <<>> \in Seq(Name) /\ 1 \in Nat /\ 0 \in Nat
  BY SMT
<1>3. ListingTypes
  BY <1>1, <1>2, Zenon DEF ListingTypes
<1> QED BY <1>1, <1>3, Zenon DEF ListingInv, Lonely, Undisturbed, Answered

\* A step that is not a thread's own leaves each listing that stays alone as it was.
LEMMA LeftAlone ==
  ASSUME ListingInv, UNCHANGED <<entries, list_result, step, dir, index, result_count, taken>>,
         \A t \in Caller : alone'[t] => alone[t], UNCHANGED answers,
         phase' = "startup" => phase = "startup"
  PROVE  ListingInv'
<1>1. /\ ListingTypes /\ Lonely /\ Undisturbed /\ Answered
  BY DEF ListingInv
<1>2. ListingTypes'
  BY <1>1, Zenon DEF ListingTypes, Listing
<1>3. Lonely'
  BY <1>1, Zenon DEF Lonely, Listing
<1>4. Undisturbed'
  <2> SUFFICES ASSUME NEW t \in Caller, Listing(t)', alone'[t] PROVE Gathered(t)' /\ Copying(t)'
    BY Zenon DEF Undisturbed
  <2>1. Gathered(t) /\ Copying(t)
    BY <1>1, Zenon DEF Undisturbed, Listing
  <2>2. Gathered(t)'
    BY <2>1 DEF Gathered, Met, Component, Cell
  <2>3. Copying(t)'
    BY <2>1 DEF Copying, Cell
  <2> QED BY <2>2, <2>3
<1>5. Answered'
  BY <1>1 DEF Answered, Exactly
<1> QED BY <1>2, <1>3, <1>4, <1>5 DEF ListingInv

\* main closes the index: whoever lists is no longer alone.
LEMMA CloseKeeps ==
  ASSUME ListingInv, Shutdown
  PROVE  ListingInv'
<1>1. /\ entries' = <<>> /\ phase' = "closed"
      /\ DOMAIN list_result' = DOMAIN list_result
      /\ \A t \in Caller : alone'[t] => ~Listing(t)
      /\ UNCHANGED <<step, dir, index, result_count, taken, answers>>
  BY Zenon DEF Shutdown, CloseIndex, Listing
<1>2. ListingTypes'
  BY <1>1, Zenon DEF ListingInv, ListingTypes
<1>3. Lonely' /\ Undisturbed'
  BY <1>1, Zenon DEF Lonely, Undisturbed, Listing
<1>4. Answered'
  BY <1>1 DEF ListingInv, Answered, Exactly
<1> QED BY <1>2, <1>3, <1>4 DEF ListingInv

LEMMA OpenKeeps ==
  ASSUME ListingInv, Startup
  PROVE  ListingInv'
<1>1. /\ entries' \in {Archive, <<>>} /\ phase = "startup"
      /\ UNCHANGED <<list_result, step, dir, index, result_count, taken, alone, answers>>
  BY DEF Startup, OpenIndex, buffer, listing
<1>2. \A t \in Caller : ~Listing(t)
  BY <1>1, Zenon DEF ListingInv, ListingTypes
<1>3. ListingTypes'
  BY <1>1, <1>2, Zenon DEF ListingInv, ListingTypes, Listing
<1>4. Lonely' /\ Undisturbed'
  BY <1>1, <1>2, Zenon DEF Lonely, Undisturbed, Listing
<1>5. Answered'
  BY <1>1 DEF ListingInv, Answered, Exactly
<1> QED BY <1>3, <1>4, <1>5 DEF ListingInv

\* A listing begins: alone if nobody lists, and nobody else is from then on.
LEMMA BeginKeepsListings ==
  ASSUME ListingInv, NEW t \in Caller, NEW path \in Paths, ListBegin(t, path),
         phase # "startup", UNCHANGED phase
  PROVE  ListingInv'
<1>1. ListingTypes /\ Lonely /\ Answered
  BY DEF ListingInv
<1>2. /\ step[t] = "idle"
      /\ step' = [step EXCEPT ![t] = "grow"] /\ dir' = [dir EXCEPT ![t] = path]
      /\ index' = [index EXCEPT ![t] = 1] /\ result_count' = [result_count EXCEPT ![t] = 0]
      /\ taken' = [taken EXCEPT ![t] = <<>>]
      /\ UNCHANGED <<entries, list_result, answers>>
  BY Zenon DEF ListBegin, Steps, buffer
<1>3. /\ alone'[t] => \A u \in Caller \ {t} : ~Listing(u)
      /\ \A u \in Caller \ {t} : alone'[u] => ~Listing(u)
  BY Zenon DEF ListBegin, Listing
<1>4. /\ step'[t] = "grow" /\ dir'[t] = path /\ index'[t] = 1 /\ result_count'[t] = 0
      /\ taken'[t] = <<>>
      /\ \A u \in Caller \ {t} : /\ step'[u] = step[u] /\ dir'[u] = dir[u] /\ index'[u] = index[u]
                                 /\ result_count'[u] = result_count[u]
      /\ DOMAIN step' = Caller /\ DOMAIN dir' = Caller /\ DOMAIN index' = Caller
      /\ DOMAIN result_count' = Caller /\ DOMAIN taken' = Caller
  BY <1>1, <1>2, Zenon DEF ListingTypes
<1>5. path \in Seq(Name) /\ 1 \in Nat /\ 0 \in Nat
  BY BridgeConstants, SMT DEF Name
<1>6. \A u \in Caller :
        dir'[u] \in Seq(Name) /\ index'[u] \in Nat /\ result_count'[u] \in Nat
  BY <1>1, <1>4, <1>5, Zenon DEF ListingTypes
<1>7. ListingTypes'
  BY <1>1, <1>2, <1>4, <1>6, Zenon DEF ListingTypes
<1>8. Lonely'
  <2>1. \A u \in Caller \ {t} : Listing(u)' <=> Listing(u)
    BY <1>4, Zenon DEF Listing
  <2> SUFFICES ASSUME NEW w \in Caller, NEW u \in Caller, Listing(w)', alone'[w], u # w
               PROVE  ~Listing(u)'
    BY Zenon DEF Lonely
  <2>2. w = t
    BY <1>3, <2>1, Zenon
  <2> QED BY <1>3, <2>1, <2>2, Zenon
<1>9. Undisturbed'
  <2> SUFFICES ASSUME NEW u \in Caller, Listing(u)', alone'[u] PROVE Gathered(u)' /\ Copying(u)'
    BY Zenon DEF Undisturbed
  <2>1. u = t
    BY <1>3, <1>4, Zenon DEF Listing
  <2>2. Len(entries) \in Nat
    BY <1>1, EntriesTyped
  <2>3. Gathered(t)'
    <3>1. result_count'[t] < index'[t] /\ index'[t] <= Len(entries') + 1
      BY <1>2, <1>4, <2>2, SMT
    <3>2. ~(\E m : m \in 1 .. result_count'[t]) /\ ~(\E e : e \in 1 .. index'[t] - 1)
      BY <1>4, SMT
    <3> QED BY <3>1, <3>2, Zenon DEF Gathered
  <2>4. Copying(t)'
    <3>1. /\ taken'[t] \in Seq(Name) /\ Len(taken'[t]) = 0 /\ Len(taken'[t]) <= result_count'[t]
          /\ ~\E m : m \in 1 .. Len(taken'[t])
      BY <1>4, SMT
    <3> QED BY <3>1, <1>4, Zenon DEF Copying
  <2> QED BY <2>1, <2>3, <2>4
<1>10. Answered'
  BY <1>1, <1>2 DEF Answered, Exactly
<1> QED BY <1>7, <1>8, <1>9, <1>10 DEF ListingInv

\* What a step of t's listing must show: the others that list are not alone.
LEMMA OwnStep ==
  ASSUME ListingInv, NEW t \in Caller, Listing(t), phase # "startup", UNCHANGED <<entries, alone, phase>>,
         DOMAIN list_result' = DOMAIN list_result,
         DOMAIN step' = Caller, DOMAIN index' = Caller, DOMAIN result_count' = Caller,
         DOMAIN taken' = Caller, UNCHANGED dir,
         \A u \in Caller \ {t} : /\ step'[u] = step[u] /\ index'[u] = index[u]
                                 /\ result_count'[u] = result_count[u],
         index'[t] \in Nat, result_count'[t] \in Nat,
         Listing(t)' /\ alone[t] => Gathered(t)' /\ Copying(t)',
         Answered'
  PROVE  ListingInv'
<1>1. ListingTypes /\ Lonely
  BY DEF ListingInv
<1>2. \A u \in Caller : index'[u] \in Nat /\ result_count'[u] \in Nat
  BY <1>1, Zenon DEF ListingTypes
<1>3. ListingTypes'
  BY <1>1, <1>2, Zenon DEF ListingTypes
<1>4. \A u \in Caller \ {t} : Listing(u) => ~alone[u]
  BY <1>1, Zenon DEF Lonely
<1>5. Lonely'
  BY <1>1, <1>4, Zenon DEF Lonely, Listing
<1>6. Undisturbed'
  BY <1>4, Zenon DEF Undisturbed, Listing
<1> QED BY <1>3, <1>5, <1>6 DEF ListingInv

\* The steps that only move a listing on.
LEMMA MovesKeep ==
  ASSUME ListingInv, NEW t \in Caller, Grow(t) \/ GrowFails(t) \/ Filled(t),
         phase # "startup", UNCHANGED phase
  PROVE  ListingInv'
<1>1. ListingTypes /\ Undisturbed /\ Answered
  BY DEF ListingInv
<1>2. /\ Listing(t) /\ UNCHANGED <<entries, list_result, dir, index, result_count, taken, alone, answers>>
      /\ \E to \in {"fill", "idle", "copy"} : step' = [step EXCEPT ![t] = to]
      /\ step'[t] = "copy" => index[t] > Len(entries)
  <2>1. CASE Grow(t)
    BY <1>1, <2>1, Zenon DEF Grow, Steps, Listing, ListingTypes
  <2>2. CASE GrowFails(t)
    BY <1>1, <2>2, Zenon DEF GrowFails, Steps, Listing, ListingTypes, buffer
  <2>3. CASE Filled(t)
    BY <1>1, <2>3, Zenon DEF Filled, Steps, Listing, ListingTypes, buffer
  <2> QED BY <2>1, <2>2, <2>3
<1>3. DOMAIN step' = Caller /\ \A u \in Caller \ {t} : step'[u] = step[u]
  BY <1>1, <1>2, Zenon DEF ListingTypes
<1>4. ASSUME alone[t] PROVE Gathered(t)' /\ Copying(t)'
  <2>1. Gathered(t) /\ Copying(t)
    BY <1>1, <1>2, <1>4, Zenon DEF Undisturbed
  <2>2. Gathered(t)'
    BY <1>2, <2>1 DEF Gathered, Met, Component, Cell
  <2>3. step'[t] = "copy" => index[t] = Len(entries) + 1
    <3>1. index[t] \in Nat /\ Len(entries) \in Nat /\ index[t] <= Len(entries) + 1
      BY <1>1, <2>1, EntriesTyped DEF ListingTypes, Gathered
    <3> QED BY <1>2, <3>1, SMT
  <2>4. Copying(t)'
    BY <1>2, <2>1, <2>3 DEF Copying, Cell
  <2> QED BY <2>2, <2>4
<1>5. Answered'
  BY <1>1, <1>2 DEF Answered, Exactly
<1>6. \A u \in Caller : index'[u] = index[u] /\ result_count'[u] = result_count[u]
  BY <1>2
<1>7. index'[t] \in Nat /\ result_count'[t] \in Nat
  BY <1>1, <1>2 DEF ListingTypes
<1>8. /\ DOMAIN list_result' = DOMAIN list_result /\ DOMAIN index' = Caller
      /\ DOMAIN result_count' = Caller /\ DOMAIN taken' = Caller
      /\ UNCHANGED <<entries, alone, dir>>
  BY <1>1, <1>2 DEF ListingTypes
<1> QED BY <1>2, <1>3, <1>4, <1>5, <1>6, <1>7, <1>8, OwnStep, Zenon

\* An entry: a component below dir is written to the next cell unless it is in one.
LEMMA FillKeeps ==
  ASSUME ListingInv, NEW t \in Caller, Fill(t), phase # "startup", UNCHANGED phase
  PROVE  ListingInv'
<1> DEFINE e == index[t]
           n == result_count[t]
           name == entries[e]
           d == Trim(dir[t])
           New == Below(name, d) /\ \A m \in 1 .. n : Cell(m) # Component(t, e)
<1>1. ListingTypes /\ Undisturbed /\ Answered
  BY DEF ListingInv
<1>2. /\ e <= Len(entries) /\ step[t] = "fill" /\ step' = [step EXCEPT ![t] = "fill"]
      /\ index' = [index EXCEPT ![t] = @ + 1]
      /\ UNCHANGED <<entries, dir, taken, alone, answers>>
      /\ IF New
           THEN /\ list_result' = [list_result EXCEPT ![n + 1] = Remainder(name, d)]
                /\ result_count' = [result_count EXCEPT ![t] = n + 1]
           ELSE UNCHANGED <<list_result, result_count>>
  BY Zenon DEF Fill, Steps, Cell, Component, Child
<1>3. /\ e \in Nat /\ n \in Nat /\ Len(entries) \in Nat /\ d \in Seq(Name)
      /\ DOMAIN entries = 1 .. Len(entries)
      /\ \A k \in 1 .. Len(entries) : entries[k] \in Seq(Name) /\ k \in DOMAIN list_result
  BY <1>1, EntriesTyped, TrimTrims, Zenon DEF ListingTypes
<1>4. /\ step'[t] = "fill" /\ index'[t] = e + 1
      /\ result_count'[t] = IF New THEN n + 1 ELSE n
      /\ \A u \in Caller \ {t} : /\ step'[u] = step[u] /\ index'[u] = index[u]
                                 /\ result_count'[u] = result_count[u]
      /\ DOMAIN step' = Caller /\ DOMAIN index' = Caller /\ DOMAIN result_count' = Caller
      /\ DOMAIN taken' = Caller /\ DOMAIN list_result' = DOMAIN list_result
  <2>1. DOMAIN step = Caller /\ DOMAIN index = Caller /\ DOMAIN result_count = Caller /\ DOMAIN taken = Caller
    BY <1>1 DEF ListingTypes
  <2> HIDE DEF New, e, n, name, d
  <2>2. CASE New
    BY <1>2, <2>1, <2>2, Zenon DEF e
  <2>3. CASE ~New
    BY <1>2, <2>1, <2>3, Zenon DEF e, n
  <2> QED BY <2>2, <2>3
<1>5. ASSUME alone[t] PROVE Gathered(t)' /\ Copying(t)'
  <2>1. Gathered(t) /\ Copying(t)
    BY <1>1, <1>2, <1>5, Zenon DEF Undisturbed, Listing
  <2>2. \A k : Met(t, k)' = Met(t, k) /\ Component(t, k)' = Component(t, k)
    BY <1>2 DEF Met, Component
  <2>3. /\ n < e /\ e <= Len(entries) + 1 /\ e \in 1 .. Len(entries) /\ n + 1 \in 1 .. Len(entries)
    <3>1. n < e
      BY <2>1 DEF Gathered
    <3> HIDE DEF e, n
    <3> QED BY <1>2, <1>3, <3>1, SMT
  <2>4. /\ \A m \in 1 .. n : \E k \in 1 .. e - 1 : Met(t, k) /\ Cell(m) = Component(t, k)
        /\ \A m, k \in 1 .. n : Cell(m) = Cell(k) => m = k
        /\ \A k \in 1 .. e - 1 : Met(t, k) => \E m \in 1 .. n : Cell(m) = Component(t, k)
    BY <2>1 DEF Gathered
  <2>5. Met(t, e) <=> Below(name, d)
    BY DEF Met
  <2> DEFINE NewCell(m) == Head(list_result'[m])
  <2>6. \A m : Cell(m)' = NewCell(m)
    BY DEF Cell
  <2>7. \A k \in 1 .. e : k \in 1 .. e - 1 \/ k = e
    <3> HIDE DEF e
    <3> QED BY <1>3, SMT
  <2>8. ASSUME NEW c \in Nat, n <= c, result_count'[t] = c, c <= e,
               \A m \in 1 .. c : \E k \in 1 .. e : Met(t, k) /\ NewCell(m) = Component(t, k),
               \A m, k \in 1 .. c : NewCell(m) = NewCell(k) => m = k,
               \A k \in 1 .. e : Met(t, k) => \E m \in 1 .. c : NewCell(m) = Component(t, k),
               \A m \in 1 .. n : NewCell(m) = Cell(m)
        PROVE  Gathered(t)' /\ Copying(t)'
    <3>1. index'[t] = e + 1
      BY <1>4
    <3>2. /\ taken[t] \in Seq(Name) /\ Len(taken[t]) <= n
          /\ \A m \in 1 .. Len(taken[t]) : taken[t][m] = Cell(m)
      BY <2>1 DEF Copying
    <3>3. UNCHANGED taken /\ step'[t] # "copy"
      BY <1>2, <1>4
    <3> HIDE DEF n, e, name, d, New, NewCell
    <3>4. /\ result_count'[t] < index'[t] /\ index'[t] <= Len(entries') + 1
          /\ index'[t] - 1 = e
      BY <1>2, <1>3, <2>3, <2>8, <3>1, SMT
    <3>5. Gathered(t)'
      <4>1. \A m \in 1 .. result_count'[t] :
              \E k \in 1 .. index'[t] - 1 : Met(t, k)' /\ Cell(m)' = Component(t, k)'
        <5> SUFFICES ASSUME NEW m \in 1 .. result_count'[t]
                     PROVE  \E k \in 1 .. index'[t] - 1 : Met(t, k)' /\ Cell(m)' = Component(t, k)'
          OBVIOUS
        <5>1. PICK k \in 1 .. e : Met(t, k) /\ NewCell(m) = Component(t, k)
          BY <2>8, Zenon
        <5>2. k \in 1 .. index'[t] - 1
          BY <3>4, Zenon
        <5>3. Met(t, k)' /\ Cell(m)' = Component(t, k)'
          BY <2>2, <2>6, <5>1, Zenon
        <5> QED BY <5>2, <5>3, Zenon
      <4>2. \A m, k \in 1 .. result_count'[t] : Cell(m)' = Cell(k)' => m = k
        BY <2>6, <2>8, Zenon
      <4>3. \A k \in 1 .. index'[t] - 1 : Met(t, k)' =>
              \E m \in 1 .. result_count'[t] : Cell(m)' = Component(t, k)'
        <5> SUFFICES ASSUME NEW k \in 1 .. index'[t] - 1, Met(t, k)'
                     PROVE  \E m \in 1 .. result_count'[t] : Cell(m)' = Component(t, k)'
          OBVIOUS
        <5>1. k \in 1 .. e /\ Met(t, k)
          BY <2>2, <3>4, Zenon
        <5>2. PICK m \in 1 .. c : NewCell(m) = Component(t, k)
          BY <2>8, <5>1, Zenon
        <5>3. Cell(m)' = Component(t, k)' /\ m \in 1 .. result_count'[t]
          BY <2>2, <2>6, <2>8, <5>2, Zenon
        <5> QED BY <5>3, Zenon
      <4> QED BY <3>4, <4>1, <4>2, <4>3, Zenon DEF Gathered
    <3>6. Copying(t)'
      <4>1. /\ Len(taken[t]) <= c
            /\ \A m \in 1 .. Len(taken[t]) : m \in 1 .. n
        BY <1>3, <2>8, <3>2, SMT
      <4>2. \A m \in 1 .. Len(taken[t]) : taken[t][m] = Cell(m)'
        BY <2>6, <2>8, <3>2, <4>1, Zenon
      <4> QED BY <2>8, <3>2, <3>3, <4>1, <4>2, Zenon DEF Copying
    <3> QED BY <3>5, <3>6
  <2>9. CASE New
    <3>1. \A m \in 1 .. n : NewCell(m) = Cell(m)
      <4>1. \A m \in 1 .. n : m \in DOMAIN list_result /\ m # n + 1
        <5> HIDE DEF n, e
        <5> QED BY <1>3, <2>3, SMT
      <4>2. list_result' = [list_result EXCEPT ![n + 1] = Remainder(name, d)]
        BY <1>2, <2>9
      <4> QED BY <4>1, <4>2, Zenon DEF Cell
    <3>2. NewCell(n + 1) = Component(t, e)
      <4>1. n + 1 \in DOMAIN list_result
        BY <1>3, <2>3
      <4>2. list_result'[n + 1] = Remainder(name, d)
        BY <1>2, <2>9, <4>1, Zenon
      <4>3. Head(Remainder(name, d)) = Child(name, d)
        <5>1. name \in Seq(Name) /\ Below(name, d)
          BY <1>3, <2>3, <2>9
        <5> QED BY <1>3, <5>1, ChildOf, Zenon
      <4> QED BY <4>2, <4>3, Zenon DEF Component
    <3>3. result_count'[t] = n + 1
      BY <1>4, <2>9
    <3>4. \A m \in 1 .. n : Cell(m) # Component(t, e)
      BY <2>9
    <3>5. Met(t, e)
      BY <2>5, <2>9
    <3> HIDE DEF n, e, name, d, New, NewCell
    <3>6. /\ \A m \in 1 .. n + 1 : m \in 1 .. n \/ m = n + 1
          /\ \A m \in 1 .. n : m \in 1 .. n + 1
          /\ n + 1 \in 1 .. n + 1 /\ n + 1 \in Nat /\ n <= n + 1 /\ n + 1 <= e
          /\ \A k \in 1 .. e - 1 : k \in 1 .. e
          /\ e \in 1 .. e
      BY <1>3, <2>3, SMT
    <3>7. \A m \in 1 .. n + 1 : \E k \in 1 .. e : Met(t, k) /\ NewCell(m) = Component(t, k)
      <4> SUFFICES ASSUME NEW m \in 1 .. n + 1
                   PROVE  \E k \in 1 .. e : Met(t, k) /\ NewCell(m) = Component(t, k)
        OBVIOUS
      <4>1. CASE m = n + 1
        BY <3>2, <3>5, <3>6, <4>1, Zenon
      <4>2. CASE m \in 1 .. n
        <5>1. PICK k \in 1 .. e - 1 : Met(t, k) /\ Cell(m) = Component(t, k)
          BY <2>4, <4>2, Zenon
        <5>2. k \in 1 .. e /\ NewCell(m) = Component(t, k)
          BY <3>1, <3>6, <4>2, <5>1, Zenon
        <5> QED BY <5>1, <5>2, Zenon
      <4> QED BY <3>6, <4>1, <4>2, Zenon
    <3>8. \A m, k \in 1 .. n + 1 : NewCell(m) = NewCell(k) => m = k
      <4> SUFFICES ASSUME NEW m \in 1 .. n + 1, NEW k \in 1 .. n + 1, NewCell(m) = NewCell(k)
                   PROVE  m = k
        OBVIOUS
      <4>1. CASE m \in 1 .. n /\ k \in 1 .. n
        <5>1. NewCell(m) = Cell(m) /\ NewCell(k) = Cell(k)
          BY <3>1, <4>1, Zenon
        <5>2. Cell(m) = Cell(k) => m = k
          BY <2>4, <4>1
        <5> QED BY <5>1, <5>2
      <4>2. CASE m \in 1 .. n /\ k = n + 1
        BY <3>1, <3>2, <3>4, <4>2, Zenon
      <4>3. CASE m = n + 1 /\ k \in 1 .. n
        BY <3>1, <3>2, <3>4, <4>3, Zenon
      <4> QED BY <3>6, <4>1, <4>2, <4>3, Zenon
    <3>9. \A k \in 1 .. e : Met(t, k) => \E m \in 1 .. n + 1 : NewCell(m) = Component(t, k)
      BY <2>4, <2>7, <3>1, <3>2, <3>6, Zenon
    <3> QED BY <2>8, <3>1, <3>3, <3>6, <3>7, <3>8, <3>9, Zenon
  <2>10. CASE ~New
    <3>1. UNCHANGED list_result /\ result_count'[t] = n
      BY <1>2, <1>4, <2>10
    <3>2. \A m : NewCell(m) = Cell(m)
      BY <3>1 DEF Cell
    <3>3. Met(t, e) => \E m \in 1 .. n : Cell(m) = Component(t, e)
      BY <2>5, <2>10, Zenon
    <3> HIDE DEF n, e, name, d, New, NewCell
    <3>4. n \in Nat /\ n <= n /\ n <= e /\ \A k \in 1 .. e - 1 : k \in 1 .. e
      BY <1>3, <2>3, SMT
    <3>5. \A m \in 1 .. n : \E k \in 1 .. e : Met(t, k) /\ NewCell(m) = Component(t, k)
      BY <2>4, <3>2, <3>4, Zenon
    <3>6. \A m, k \in 1 .. n : NewCell(m) = NewCell(k) => m = k
      BY <2>4, <3>2, Zenon
    <3>7. \A k \in 1 .. e : Met(t, k) => \E m \in 1 .. n : NewCell(m) = Component(t, k)
      BY <2>4, <2>7, <3>2, <3>3, Zenon
    <3> QED BY <2>8, <3>1, <3>2, <3>4, <3>5, <3>6, <3>7, Zenon
  <2> QED BY <2>9, <2>10
<1>6. Answered'
  BY <1>1, <1>2 DEF Answered, Exactly
<1>7. index'[t] \in Nat /\ result_count'[t] \in Nat
  <2> HIDE DEF e, n, New
  <2> QED BY <1>3, <1>4, SMT
<1>8. Listing(t) /\ UNCHANGED <<entries, alone, dir>>
  BY <1>2, Zenon DEF Listing
<1> HIDE DEF e, n, name, d, New
<1> QED BY <1>4, <1>5, <1>6, <1>7, <1>8, OwnStep, Zenon

\* A name is copied from the next cell.
LEMMA CopyKeeps ==
  ASSUME ListingInv, NEW t \in Caller, Copy(t), phase # "startup", UNCHANGED phase
  PROVE  ListingInv'
<1> DEFINE s == taken[t]
           c == Cell(Len(s) + 1)
<1>1. ListingTypes /\ Undisturbed /\ Answered
  BY DEF ListingInv
<1>2. /\ Len(s) < result_count[t] /\ step[t] = "copy" /\ step' = [step EXCEPT ![t] = "copy"]
      /\ taken' = [taken EXCEPT ![t] = Append(s, c)]
      /\ UNCHANGED <<entries, list_result, dir, index, result_count, alone, answers>>
  BY Zenon DEF Copy, Steps, buffer, Cell
<1>3. /\ DOMAIN step' = Caller /\ DOMAIN taken' = Caller
      /\ \A u \in Caller \ {t} : step'[u] = step[u]
      /\ step'[t] = "copy" /\ taken'[t] = Append(s, c)
  BY <1>1, <1>2, Zenon DEF ListingTypes
<1>4. ASSUME alone[t] PROVE Gathered(t)' /\ Copying(t)'
  <2>1. Gathered(t) /\ Copying(t)
    BY <1>1, <1>2, <1>4, Zenon DEF Undisturbed, Listing
  <2>2. Gathered(t)'
    BY <1>2, <2>1 DEF Gathered, Met, Component, Cell
  <2>3. /\ s \in Seq(Name) /\ \A m \in 1 .. Len(s) : s[m] = Cell(m)
        /\ index[t] = Len(entries) + 1
    BY <1>2, <2>1 DEF Copying
  <2>4. c \in Name
    <3>1. Len(s) + 1 \in 1 .. result_count[t]
      <4>1. Len(s) \in Nat /\ result_count[t] \in Nat /\ Len(s) < result_count[t]
        BY <1>1, <1>2, <2>3, LenProperties DEF ListingTypes
      <4> QED BY <4>1, SMT
    <3>2. PICK e \in 1 .. index[t] - 1 : Met(t, e) /\ c = Component(t, e)
      BY <2>1, <3>1 DEF Gathered
    <3>3. e \in 1 .. Len(entries)
      BY <1>1, <2>3, EntriesTyped, SMT
    <3>4. entries[e] \in Seq(Name) /\ Trim(dir[t]) \in Seq(Name)
      BY <1>1, <3>3, EntriesTyped, TrimTrims, Zenon DEF ListingTypes
    <3> QED BY <3>2, <3>4, ChildOf, Zenon DEF Met, Component
  <2> HIDE DEF s, c
  <2>5. /\ Append(s, c) \in Seq(Name) /\ Len(Append(s, c)) = Len(s) + 1
        /\ \A m \in 1 .. Len(s) : Append(s, c)[m] = s[m]
        /\ Append(s, c)[Len(s) + 1] = c /\ Len(s) \in Nat
    BY <2>3, <2>4, SMT
  <2>6. \A m : Cell(m)' = Cell(m)
    BY <1>2 DEF Cell
  <2>7. \A m \in 1 .. Len(s) + 1 : Append(s, c)[m] = Cell(m)'
    <3>1. \A m \in 1 .. Len(s) + 1 : m \in 1 .. Len(s) \/ m = Len(s) + 1
      BY <2>5, SMT
    <3> SUFFICES ASSUME NEW m \in 1 .. Len(s) + 1 PROVE Append(s, c)[m] = Cell(m)'
      OBVIOUS
    <3>2. CASE m \in 1 .. Len(s)
      BY <2>3, <2>5, <2>6, <3>2, Zenon
    <3>3. CASE m = Len(s) + 1
      BY <2>5, <2>6, <3>3, Zenon DEF c
    <3> QED BY <3>1, <3>2, <3>3
  <2>8. Len(Append(s, c)) <= result_count'[t] /\ index'[t] = Len(entries') + 1
    <3>1. Len(s) \in Nat /\ result_count[t] \in Nat /\ Len(s) < result_count[t]
      BY <1>1, <1>2, <2>5 DEF ListingTypes
    <3>2. result_count' = result_count /\ index' = index /\ entries' = entries
      BY <1>2
    <3> QED BY <2>3, <2>5, <3>1, <3>2, SMT
  <2>9. Copying(t)'
    BY <1>3, <2>5, <2>7, <2>8, Zenon DEF Copying
  <2> QED BY <2>2, <2>9
<1>5. Answered'
  BY <1>1, <1>2 DEF Answered, Exactly
<1>6. /\ Listing(t) /\ UNCHANGED <<entries, alone, dir>>
      /\ DOMAIN list_result' = DOMAIN list_result /\ DOMAIN index' = Caller
      /\ DOMAIN result_count' = Caller
      /\ index'[t] \in Nat /\ result_count'[t] \in Nat
      /\ \A u \in Caller \ {t} : index'[u] = index[u] /\ result_count'[u] = result_count[u]
  BY <1>1, <1>2, Zenon DEF ListingTypes, Listing
<1> QED BY <1>3, <1>4, <1>5, <1>6, OwnStep, Zenon

\* The cells of a listing that saw the whole index are the children of dir, once each.
LEMMA CopiedExactly ==
  ASSUME ListingTypes, NEW t \in Caller, Gathered(t), Copying(t), step[t] = "copy",
         Len(taken[t]) = result_count[t]
  PROVE  /\ IsInjective(taken[t])
         /\ ToSet(taken[t]) = IF entries # <<>> THEN Children(Trim(dir[t])) ELSE {}
<1> DEFINE s == taken[t]
           d == Trim(dir[t])
<1>1. /\ s \in Seq(Name) /\ result_count[t] = Len(s)
      /\ \A m \in 1 .. Len(s) : s[m] = Cell(m)
      /\ index[t] = Len(entries) + 1
  BY DEF Copying
<1>2. /\ Len(entries) \in Nat /\ DOMAIN entries = 1 .. Len(entries)
      /\ d \in Seq(Name) /\ (Len(entries) + 1) - 1 = Len(entries)
  BY EntriesTyped, TrimTrims DEF ListingTypes
<1>3. /\ \A m \in 1 .. Len(s) :
           \E e \in DOMAIN entries : Below(entries[e], d) /\ s[m] = Child(entries[e], d)
      /\ \A m, k \in 1 .. Len(s) : s[m] = s[k] => m = k
      /\ \A e \in DOMAIN entries : Below(entries[e], d) =>
           \E m \in 1 .. Len(s) : s[m] = Child(entries[e], d)
  <2>1. /\ \A m \in 1 .. Len(s) : \E e \in 1 .. index[t] - 1 : Met(t, e) /\ Cell(m) = Component(t, e)
        /\ \A m, k \in 1 .. Len(s) : Cell(m) = Cell(k) => m = k
        /\ \A e \in 1 .. index[t] - 1 : Met(t, e) => \E m \in 1 .. Len(s) : Cell(m) = Component(t, e)
    BY <1>1 DEF Gathered
  <2>2. 1 .. index[t] - 1 = DOMAIN entries
    BY <1>1, <1>2
  <2>3. \A e : Met(t, e) = Below(entries[e], d) /\ Component(t, e) = Child(entries[e], d)
    BY DEF Met, Component
  <2> HIDE DEF s, d
  <2>4. \A m, k \in 1 .. Len(s) : s[m] = s[k] => m = k
    <3> SUFFICES ASSUME NEW m \in 1 .. Len(s), NEW k \in 1 .. Len(s), s[m] = s[k] PROVE m = k
      OBVIOUS
    <3>1. Cell(m) = Cell(k)
      BY <1>1, Zenon
    <3> QED BY <2>1, <3>1
  <2>5. \A m \in 1 .. Len(s) :
           \E e \in DOMAIN entries : Below(entries[e], d) /\ s[m] = Child(entries[e], d)
    <3> SUFFICES ASSUME NEW m \in 1 .. Len(s)
                 PROVE  \E e \in DOMAIN entries : Below(entries[e], d) /\ s[m] = Child(entries[e], d)
      OBVIOUS
    <3>1. PICK e \in 1 .. index[t] - 1 : Met(t, e) /\ Cell(m) = Component(t, e)
      BY <2>1, Zenon
    <3>2. e \in DOMAIN entries /\ s[m] = Cell(m)
      BY <1>1, <2>2, Zenon
    <3> QED BY <2>3, <3>1, <3>2, Zenon
  <2>6. \A e \in DOMAIN entries : Below(entries[e], d) =>
           \E m \in 1 .. Len(s) : s[m] = Child(entries[e], d)
    <3> SUFFICES ASSUME NEW e \in DOMAIN entries, Below(entries[e], d)
                 PROVE  \E m \in 1 .. Len(s) : s[m] = Child(entries[e], d)
      OBVIOUS
    <3>1. e \in 1 .. index[t] - 1 /\ Met(t, e)
      BY <2>2, <2>3, Zenon
    <3>2. PICK m \in 1 .. Len(s) : Cell(m) = Component(t, e)
      BY <2>1, <3>1, Zenon
    <3> QED BY <1>1, <2>3, <3>2, Zenon
  <2> QED BY <2>4, <2>5, <2>6
<1>4. DOMAIN s = 1 .. Len(s)
  BY <1>1, LenProperties
<1> HIDE DEF s, d
<1>5. IsInjective(s)
  BY <1>3, <1>4, Zenon DEF IsInjective
<1>6. \A c : c \in ToSet(s) <=> \E e \in DOMAIN entries : Below(entries[e], d) /\ c = Child(entries[e], d)
  <2>1. \A c : c \in ToSet(s) <=> \E m \in 1 .. Len(s) : c = s[m]
    BY <1>4, Zenon DEF ToSet
  <2>2. ASSUME NEW c \in ToSet(s)
        PROVE  \E e \in DOMAIN entries : Below(entries[e], d) /\ c = Child(entries[e], d)
    <3>1. PICK m \in 1 .. Len(s) : c = s[m]
      BY <2>1, <2>2, Zenon
    <3>2. PICK e \in DOMAIN entries : Below(entries[e], d) /\ s[m] = Child(entries[e], d)
      BY <1>3, Zenon
    <3> QED BY <3>1, <3>2, Zenon
  <2>3. ASSUME NEW e \in DOMAIN entries, Below(entries[e], d)
        PROVE  Child(entries[e], d) \in ToSet(s)
    <3>1. PICK m \in 1 .. Len(s) : s[m] = Child(entries[e], d)
      BY <1>3, <2>3, Zenon
    <3> QED BY <2>1, <3>1, Zenon
  <2> QED BY <2>2, <2>3, Zenon
<1>7. CASE entries = <<>>
  <2>1. ~\E e : e \in DOMAIN entries
    BY <1>7, SMT
  <2>2. ToSet(s) = {}
    BY <1>6, <2>1, Zenon
  <2> QED BY <1>5, <1>7, <2>2 DEF s
<1>8. CASE entries # <<>>
  <2>1. entries = Archive
    BY <1>8 DEF ListingTypes
  <2>2. ToSet(s) = Children(d)
    <3>1. \A c : c \in Children(d) <=>
            \E e \in DOMAIN Archive : Below(Archive[e], d) /\ c = Child(Archive[e], d)
      BY <1>2, ChildrenAre, Zenon
    <3>2. \A c : c \in ToSet(s) <=>
            \E e \in DOMAIN Archive : Below(Archive[e], d) /\ c = Child(Archive[e], d)
      BY <1>6, <2>1, Zenon
    <3>3. \A c : c \in ToSet(s) <=> c \in Children(d)
      BY <3>1, <3>2, Zenon
    <3> QED BY <3>3, Zenon
  <2> QED BY <1>5, <1>8, <2>2, Zenon DEF s, d
<1> QED BY <1>7, <1>8

\* A listing returns.
LEMMA CopiedKeeps ==
  ASSUME ListingInv, NEW t \in Caller, Copied(t), phase # "startup", UNCHANGED phase
  PROVE  ListingInv'
<1> DEFINE a == [dir |-> dir[t], names |-> taken[t], alone |-> alone[t], open |-> entries # <<>>]
<1>1. ListingTypes /\ Undisturbed /\ Answered
  BY DEF ListingInv
<1>2. /\ Len(taken[t]) = result_count[t] /\ step[t] = "copy" /\ step' = [step EXCEPT ![t] = "idle"]
      /\ answers' = answers \cup {a}
      /\ UNCHANGED <<entries, list_result, dir, index, result_count, taken, alone>>
  BY Zenon DEF Copied, Steps, Answer, buffer
<1>3. /\ DOMAIN step' = Caller /\ step'[t] = "idle" /\ \A u \in Caller \ {t} : step'[u] = step[u]
  BY <1>1, <1>2, Zenon DEF ListingTypes
<1>4. alone[t] => Exactly(a)
  <2> SUFFICES ASSUME alone[t] PROVE Exactly(a)
    OBVIOUS
  <2>1. Gathered(t) /\ Copying(t)
    BY <1>1, <1>2, Zenon DEF Undisturbed, Listing
  <2>2. /\ IsInjective(taken[t])
        /\ ToSet(taken[t]) = IF entries # <<>> THEN Children(Trim(dir[t])) ELSE {}
    BY <1>1, <1>2, <2>1, CopiedExactly, Zenon
  <2>3. a.names = taken[t] /\ a.dir = dir[t] /\ a.open = (entries # <<>>)
    BY Zenon
  <2> HIDE DEF a
  <2> QED BY <2>2, <2>3, Zenon DEF Exactly
<1>5. a.dir \in Seq(Name) /\ a.alone = alone[t]
  BY <1>1, Zenon DEF ListingTypes
<1> HIDE DEF a
<1>6. Answered'
  <2>1. \A b : Exactly(b)' = Exactly(b)
    BY DEF Exactly
  <2>2. \A b \in answers' : b.dir \in Seq(Name) /\ (b.alone => Exactly(b))
    BY <1>1, <1>2, <1>4, <1>5, Zenon DEF Answered
  <2> QED BY <2>2 DEF Answered, Exactly
<1>7. /\ Listing(t) /\ UNCHANGED <<entries, alone, dir>>
      /\ DOMAIN list_result' = DOMAIN list_result /\ DOMAIN index' = Caller
      /\ DOMAIN result_count' = Caller /\ DOMAIN taken' = Caller
      /\ index'[t] \in Nat /\ result_count'[t] \in Nat
      /\ \A u \in Caller \ {t} : index'[u] = index[u] /\ result_count'[u] = result_count[u]
  BY <1>1, <1>2, Zenon DEF ListingTypes, Listing
<1>8. ~Listing(t)'
  BY <1>3 DEF Listing
<1> QED BY <1>3, <1>6, <1>7, <1>8, OwnStep, Zenon

LEMMA ListingStep == ListingInv /\ [BridgeNext]_bridge => ListingInv'
<1> SUFFICES ASSUME ListingInv, [BridgeNext]_bridge PROVE ListingInv'
  OBVIOUS
<1>1. CASE Startup
  BY <1>1, OpenKeeps
<1>2. CASE Shutdown
  BY <1>2, CloseKeeps
<1>3. ASSUME NEW t \in Thread, CallsList(t) PROVE ListingInv'
  <2>1. PICK path \in Paths : ListBegin(t, path)
    BY <1>3 DEF CallsList
  <2>2. phase # "startup" /\ UNCHANGED phase /\ t \in Caller
    BY <1>3, BridgeConstants DEF CallsList, Calls
  <2> QED BY <2>1, <2>2, BeginKeepsListings
<1>4. ASSUME NEW t \in Thread, RunsListing(t) PROVE ListingInv'
  <2>1. List(t) /\ UNCHANGED phase /\ t \in Caller
    BY <1>4, BridgeConstants DEF RunsListing
  <2>2. Listing(t)
    BY <2>1, Zenon DEF List, Grow, GrowFails, Fill, Filled, Copy, Copied, Steps, Listing
  <2>3. phase # "startup"
    BY <2>1, <2>2, Zenon DEF ListingInv, ListingTypes
  <2> QED BY <2>1, <2>3, MovesKeep, FillKeeps, CopyKeeps, CopiedKeeps, Zenon DEF List
<1>5. ASSUME UNCHANGED obbvars, phase' = "startup" => phase = "startup" PROVE ListingInv'
  <2>1. UNCHANGED <<entries, list_result, step, dir, index, result_count, taken, alone, answers>>
    BY <1>5 DEF obbvars, buffer, listing
  <2> QED BY <1>5, <2>1, LeftAlone
<1>6. ASSUME NEW t \in Thread, AsksForMethod(t) \/ AsksForField(t) \/ RunsLookup(t)
      PROVE  UNCHANGED obbvars /\ UNCHANGED phase
  BY <1>6 DEF AsksForMethod, AsksForField, RunsLookup, Calls
<1>7. CASE UNCHANGED bridge
  BY <1>5, <1>7 DEF bridge
<1> QED BY <1>1, <1>2, <1>3, <1>4, <1>5, <1>6, <1>7, Zenon DEF BridgeNext

\* The archive's sizes answer for a name exactly when an entry bears it.
LEMMA SizesAnswer ==
  ASSUME NEW path, entries = Archive, Trim(path) = path
  PROVE  AssetSize(path) = -2 <=> path \notin {Without(Archive[e]) : e \in DOMAIN Archive}
<1> DEFINE same == {e \in DOMAIN entries : Without(entries[e]) = Trim(path)}
           first == CHOOSE e \in same : \A f \in same : e <= f
<1>1. AssetSize(path) = IF same = {} THEN -2
                        ELSE IF IsDirectory(entries[first]) THEN -1 ELSE Size[first]
  BY Zenon DEF AssetSize
<1>2. same = {} <=> path \notin {Without(Archive[e]) : e \in DOMAIN Archive}
  BY Zenon
<1>3. ASSUME same # {} PROVE first \in same
  <2>1. same \subseteq DOMAIN Archive
    BY Zenon
  <2>2. DOMAIN Archive \subseteq Nat
    BY ObbConstants, SMT
  <2>3. same \subseteq Nat
    BY <2>1, <2>2, Zenon
  <2> HIDE DEF same
  <2>4. \E e \in same : \A f \in same : e <= f
    BY <1>3, <2>3, SmallestOf
  <2> QED BY <2>4, Zenon
<1>4. first \in same => Size[first] \in Nat
  <2>1. first \in same => first \in DOMAIN Archive
    BY Zenon
  <2> HIDE DEF first, same
  <2> QED BY <2>1, ObbConstants, Zenon
<1> HIDE DEF first, same
<1>5. same # {} => AssetSize(path) \in {-1} \cup Nat
  BY <1>1, <1>3, <1>4, Zenon
<1>6. AssetSize(path) \in {-1} \cup Nat => AssetSize(path) # -2
  BY SMT
<1> QED BY <1>1, <1>2, <1>5, <1>6, Zenon

LEMMA ListingExact == ListingInv => AloneListsExactly
<1> SUFFICES ASSUME ListingInv, NEW a \in answers, a.alone
             PROVE  /\ IsInjective(a.names)
                    /\ ToSet(a.names) = IF a.open THEN Children(Trim(a.dir)) ELSE {}
                    /\ entries # <<>> => \A c \in ToSet(a.names) :
                         LET path == Append(Trim(a.dir), c)
                         IN AssetSize(path) = -2 <=>
                              path \notin {Without(Archive[e]) : e \in DOMAIN Archive}
  BY Zenon DEF AloneListsExactly
<1>1. /\ a.dir \in Seq(Name) /\ IsInjective(a.names)
      /\ ToSet(a.names) = IF a.open THEN Children(Trim(a.dir)) ELSE {}
  BY Zenon DEF ListingInv, Answered, Exactly
<1>2. ASSUME entries # <<>>, NEW c \in ToSet(a.names)
      PROVE  AssetSize(Append(Trim(a.dir), c)) = -2 <=>
               Append(Trim(a.dir), c) \notin {Without(Archive[e]) : e \in DOMAIN Archive}
  <2>1. entries = Archive
    BY <1>2, Zenon DEF ListingInv, ListingTypes
  <2>2. c \in Children(Trim(a.dir))
    BY <1>1, <1>2, Zenon
  <2>3. c \in Name /\ c # NoName
    BY <1>1, <2>2, TrimTrims, ChildrenAre, Zenon
  <2>4. Trim(Append(Trim(a.dir), c)) = Append(Trim(a.dir), c)
    BY <1>1, <2>3, ChildTrimmed, Zenon
  <2> QED BY <2>1, <2>4, SizesAnswer, Zenon
<1> QED BY <1>1, <1>2, Zenon

(***************************************************************************)
(* With any archive, any threads and any paths: a listing that met no      *)
(* other listing and no close returns each child of the directory once and *)
(* nothing else, or nothing when the index was closed before it began, and *)
(* nfsmw_obb_asset_size answers for each name it returned unless that is a *)
(* directory without an entry of its own (nfsmw_obb_list, its adapters     *)
(* list and forEach in jni_bridge.c, nfsmw_obb_asset_size).                *)
(***************************************************************************)
THEOREM AloneListsAll == BridgeSpec => []AloneListsExactly
<1> QED BY ListingInit, ListingStep, ListingExact, PTL DEF BridgeSpec
=============================================================================
