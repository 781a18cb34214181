----------------------------- MODULE JniRegistry -----------------------------
(***************************************************************************)
(* The registries of JNI method and field IDs (jni_bridge.c): tables of    *)
(* name, signature and is_static which the guest's lookups search and      *)
(* extend, from any of its threads and without a lock.  An ID is the       *)
(* address of a slot.  Each read and each write of a shared variable is a  *)
(* step of its own.                                                        *)
(*                                                                         *)
(* The signature and is_static of a slot are one part, rest.  solo, raced, *)
(* and grants are history: which lookups met no other one of the same      *)
(* kind, whether any two ever met, and what every lookup returned.         *)
(***************************************************************************)
EXTENDS Naturals

CONSTANTS
  Thread,
  Text,      \* names and signatures; "" is the text of a zeroed slot
  Held,      \* what the array of a slot holds of a text: snprintf cuts it
  Capacity   \* METHOD_CAPACITY and FIELD_CAPACITY

Kind == {"method", "field"}
Key == [name : Text, rest : Text]

ASSUME RegistryConstants ==
  /\ "" \in Text
  /\ Held \in [Text -> Text]
  /\ \A x \in Text : Held[Held[x]] = Held[x]
  /\ Held[""] = ""
  /\ Capacity \in [Kind -> Nat \ {0}]

Slot(k) == 0 .. Capacity[k] - 1
Kept(key) == [name |-> Held[key.name], rest |-> Held[key.rest]]

VARIABLES
  count,     \* method_count and field_count
  slot,      \* methods and fields
  at, kind, key, i, mine,  \* of each thread's lookup: its locals
  solo, raced, grants,     \* history
  aborted,   \* the registry was exhausted
  overrun    \* a slot past the table was taken; what follows is not modelled

shared == <<count, slot>>
locals == <<kind, key, i, mine>>
ends == <<aborted, overrun>>
registry == <<shared, at, locals, solo, raced, grants, ends>>

Running == ~aborted /\ ~overrun
Goes(t, from, to) == Running /\ at[t] = from /\ at' = [at EXCEPT ![t] = to]
Meets(t, u) == u # t /\ at[u] # "idle" /\ kind[u] = kind[t]

\* The lookup of t returns the slot with the index id.
Grant(t, id) ==
  grants' = grants \cup {[kind |-> kind[t], key |-> key[t], id |-> id, solo |-> solo[t]]}

-----------------------------------------------------------------------------
\* Thread t asks for the ID of c in the registry k.
Begin(t, k, c) ==
  /\ Goes(t, "idle", "scan")
  /\ kind' = [kind EXCEPT ![t] = k]
  /\ key' = [key EXCEPT ![t] = c]
  /\ i' = [i EXCEPT ![t] = 0]
  /\ LET met == {u \in Thread \ {t} : at[u] # "idle" /\ kind[u] = k} IN
       /\ solo' = [u \in Thread |-> IF u = t THEN met = {} ELSE solo[u] /\ u \notin met]
       /\ raced' = (raced \/ met # {})
  /\ UNCHANGED <<shared, mine, grants, ends>>

GetMethodID(t) == \E c \in Key : Begin(t, "method", c)
GetFieldID(t) == \E c \in Key : Begin(t, "field", c)

\* Mutant: the search compares names only.
FoundByName(t) ==
  /\ Goes(t, "scan", "idle")
  /\ i[t] < count[kind[t]]
  /\ slot[kind[t]][i[t]].name = key[t].name
  /\ Grant(t, i[t])
  /\ UNCHANGED <<shared, locals, solo, raced, ends>>

Found(t) ==
  /\ Goes(t, "scan", "idle")
  /\ i[t] < count[kind[t]]
  /\ slot[kind[t]][i[t]] = key[t]
  /\ Grant(t, i[t])
  /\ UNCHANGED <<shared, locals, solo, raced, ends>>

Compare(t) ==
  /\ Goes(t, "scan", "scan")
  /\ i[t] < count[kind[t]]
  /\ slot[kind[t]][i[t]] # key[t]
  /\ i' = [i EXCEPT ![t] = @ + 1]
  /\ UNCHANGED <<shared, kind, key, mine, solo, raced, grants, ends>>

NotFound(t) ==
  /\ Goes(t, "scan", "check")
  /\ i[t] >= count[kind[t]]
  /\ UNCHANGED <<shared, locals, solo, raced, grants, ends>>

Exhausted(t) ==
  /\ Goes(t, "check", "idle")
  /\ count[kind[t]] = Capacity[kind[t]]
  /\ aborted' = TRUE
  /\ UNCHANGED <<shared, locals, solo, raced, grants, overrun>>

\* Mutant: the table's end is not looked for.
RoomAlways(t) ==
  /\ Goes(t, "check", "load")
  /\ UNCHANGED <<shared, locals, solo, raced, grants, ends>>

Room(t) ==
  /\ Goes(t, "check", "load")
  /\ count[kind[t]] # Capacity[kind[t]]
  /\ UNCHANGED <<shared, locals, solo, raced, grants, ends>>

\* method_count++ reads the count ...
Load(t) ==
  /\ Goes(t, "load", "store")
  /\ mine' = [mine EXCEPT ![t] = count[kind[t]]]
  /\ UNCHANGED <<shared, kind, key, i, solo, raced, grants, ends>>

\* ... and writes it back; the slot lies where the count was.
Store(t) ==
  /\ Goes(t, "store", "name")
  /\ count' = [count EXCEPT ![kind[t]] = mine[t] + 1]
  /\ overrun' = (mine[t] >= Capacity[kind[t]])
  /\ UNCHANGED <<slot, locals, solo, raced, grants, aborted>>

WriteName(t) ==
  /\ Goes(t, "name", "rest")
  /\ slot' = [slot EXCEPT ![kind[t]][mine[t]].name = Held[key[t].name]]
  /\ UNCHANGED <<count, locals, solo, raced, grants, ends>>

\* signature and is_static; then the lookup returns the new slot.
WriteRest(t) ==
  /\ Goes(t, "rest", "idle")
  /\ slot' = [slot EXCEPT ![kind[t]][mine[t]].rest = Held[key[t].rest]]
  /\ Grant(t, mine[t])
  /\ UNCHANGED <<count, locals, solo, raced, ends>>

Lookup(t) ==
  \/ Found(t) \/ Compare(t) \/ NotFound(t) \/ Exhausted(t) \/ Room(t)
  \/ Load(t) \/ Store(t) \/ WriteName(t) \/ WriteRest(t)

register_method(t) == kind[t] = "method" /\ Lookup(t)
register_field(t) == kind[t] = "field" /\ Lookup(t)

\* as_method and as_field: only an address in the used part of the table.
Resolves(k, id) == id < count[k]

-----------------------------------------------------------------------------
\* After initialize_tables.
RegistryInit ==
  /\ count = [k \in Kind |-> 0]
  /\ slot = [k \in Kind |-> [s \in Slot(k) |-> [name |-> "", rest |-> ""]]]
  /\ at = [t \in Thread |-> "idle"]
  /\ kind \in [Thread -> {"method"}]
  /\ key = [t \in Thread |-> [name |-> "", rest |-> ""]]
  /\ i = [t \in Thread |-> 0] /\ mine = [t \in Thread |-> 0]
  /\ solo = [t \in Thread |-> TRUE]
  /\ raced = FALSE /\ grants = {}
  /\ aborted = FALSE /\ overrun = FALSE

RegistryNext ==
  \E t \in Thread : GetMethodID(t) \/ GetFieldID(t) \/ register_method(t) \/ register_field(t)

RegistrySpec == RegistryInit /\ [][RegistryNext]_registry

-----------------------------------------------------------------------------
RegistryTypeOK ==
  /\ count \in [Kind -> Nat]
  /\ DOMAIN slot = Kind
  /\ \A k \in Kind : slot[k] \in [Slot(k) -> Key]
  /\ at \in [Thread -> {"idle", "scan", "check", "load", "store", "name", "rest"}]
  /\ kind \in [Thread -> Kind] /\ key \in [Thread -> Key]
  /\ i \in [Thread -> Nat] /\ mine \in [Thread -> Nat]
  /\ solo \in [Thread -> BOOLEAN] /\ raced \in BOOLEAN
  /\ grants \subseteq [kind : Kind, key : Key, id : Nat, solo : BOOLEAN]
  /\ aborted \in BOOLEAN /\ overrun \in BOOLEAN

(***************************************************************************)
(* An ID returned to a lookup that met no other one names its method for   *)
(* good: whatever races before and after, among other lookups, as_method   *)
(* accepts it and its slot holds what was asked for, as far as the slot's  *)
(* arrays hold it (register_method, register_field).                       *)
(***************************************************************************)
SoloIdKept ==
  Running => \A g \in grants : g.solo =>
    Resolves(g.kind, g.id) /\ slot[g.kind][g.id] = Kept(g.key)

(***************************************************************************)
(* Two lookups of one method, neither of which met another lookup, get one *)
(* ID, when the method's texts fit into a slot.                            *)
(***************************************************************************)
OneIdPerMethod ==
  \A g, h \in grants :
    g.solo /\ h.solo /\ g.kind = h.kind /\ g.key = h.key /\ Kept(g.key) = g.key => g.id = h.id

(***************************************************************************)
(* The check against the capacity is enough for lookups that do not meet:  *)
(* a slot past the end of the table is taken only after a race.            *)
(***************************************************************************)
OverrunOnlyByRace == overrun => raced
=============================================================================
