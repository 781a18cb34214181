------------------------------ MODULE ObbIndex ------------------------------
(***************************************************************************)
(* The index of the OBB archive (obb_index.c) and the two JNI calls list   *)
(* and forEach on it (jni_bridge.c).  The result of a listing lies in one  *)
(* static array, list_result, that every listing of every guest thread     *)
(* fills anew and that the caller reads after nfsmw_obb_list has returned. *)
(*                                                                         *)
(* A path is its components: "cars/a/" is <<"cars", "a", "">>.  The code   *)
(* copies it into prefix[4096] without a look at its length; longer paths  *)
(* are outside the model.                                                  *)
(***************************************************************************)
EXTENDS Naturals, Integers, Sequences, SequencesExt

CONSTANTS
  Caller,    \* the guest threads
  Archive,   \* the names of the central directory, in its order
  Size       \* the size of each entry

ASSUME ObbConstants ==
  /\ Archive \in Seq(Seq(STRING)) /\ \A e \in DOMAIN Archive : Archive[e] # <<>>
  /\ Size \in [DOMAIN Archive -> Nat]

VARIABLES
  entries,                    \* the index: all of Archive, or nothing
  list_result, list_capacity,
  step, dir, index, result_count,  \* of each thread's listing: its locals
  taken,                      \* the names the JNI adapter has copied
  alone,                      \* history: no other listing and no close met it
  answers                     \* history: what the listings returned

buffer == <<list_result, list_capacity>>
listing == <<step, dir, index, result_count, taken, alone>>
obbvars == <<entries, buffer, listing, answers>>

\* A cell never written since realloc, or freed.
Unwritten == <<"?">>

\* normalize, and the loop that drops the slashes at the end.
Trim(path) ==
  LET named == {n \in DOMAIN path : path[n] # ""}
  IN IF named = {} THEN <<>>
     ELSE SubSeq(path, CHOOSE n \in named : \A m \in named : n <= m,
                       CHOOSE n \in named : \A m \in named : n >= m)

Without(path) == IF Last(path) = "" THEN Front(path) ELSE path
IsDirectory(path) == Last(path) = ""

\* nfsmw_obb_asset_size: the first entry of that name.
AssetSize(path) ==
  LET same == {e \in DOMAIN entries : Without(entries[e]) = Trim(path)}
  IN IF same = {} THEN -2
     ELSE LET e == CHOOSE e \in same : \A f \in same : e <= f
          IN IF IsDirectory(entries[e]) THEN -1 ELSE Size[e]

\* The part of a name behind the prefix, of which the first component counts.
Below(name, d) == IsStrictPrefix(d, name) /\ name[Len(d) + 1] # ""
Remainder(name, d) == SubSeq(name, Len(d) + 1, Len(name))

-----------------------------------------------------------------------------
\* nfsmw_obb_open: a bad entry leaves no index at all.
OpenIndex ==
  /\ entries' \in {Archive, <<>>}
  /\ UNCHANGED <<buffer, listing, answers>>

\* nfsmw_obb_close, from nfsmw_jni_shutdown.
CloseIndex ==
  /\ entries' = <<>>
  /\ list_result' = [n \in DOMAIN list_result |-> Unwritten]
  /\ list_capacity' = 0
  /\ alone' = [t \in Caller |-> alone[t] /\ step[t] = "idle"]
  /\ UNCHANGED <<step, dir, index, result_count, taken, answers>>

Steps(t, from, to) == step[t] = from /\ step' = [step EXCEPT ![t] = to]

ListBegin(t, path) ==
  /\ Steps(t, "idle", "grow")
  /\ dir' = [dir EXCEPT ![t] = path]
  /\ index' = [index EXCEPT ![t] = 1]
  /\ result_count' = [result_count EXCEPT ![t] = 0]
  /\ taken' = [taken EXCEPT ![t] = <<>>]
  /\ LET met == {u \in Caller \ {t} : step[u] # "idle"}
     IN alone' = [u \in Caller |-> IF u = t THEN met = {} ELSE alone[u] /\ u \notin met]
  /\ UNCHANGED <<entries, buffer, answers>>

Grow(t) ==
  /\ Steps(t, "grow", "fill")
  /\ list_capacity' = IF list_capacity < Len(entries) THEN Len(entries) ELSE list_capacity
  /\ UNCHANGED <<entries, list_result, dir, index, result_count, taken, alone, answers>>

Answer(t, names) ==
  answers' = answers \cup {[dir |-> dir[t], names |-> names, alone |-> alone[t],
                            open |-> entries # <<>>]}

\* realloc fails: the guest gets no children; answers does not count it.
GrowFails(t) ==
  /\ list_capacity < Len(entries)
  /\ Steps(t, "grow", "idle")
  /\ UNCHANGED <<entries, buffer, dir, index, result_count, taken, alone, answers>>

\* Mutant: a name is looked for only in the last cell.
FillLast(t) ==
  /\ index[t] <= Len(entries)
  /\ Steps(t, "fill", "fill")
  /\ index' = [index EXCEPT ![t] = @ + 1]
  /\ LET name == entries[index[t]]
         d == Trim(dir[t])
         n == result_count[t]
     IN IF Below(name, d) /\ (n = 0 \/ Head(list_result[n]) # name[Len(d) + 1])
          THEN /\ list_result' = [list_result EXCEPT ![n + 1] = Remainder(name, d)]
               /\ result_count' = [result_count EXCEPT ![t] = n + 1]
          ELSE UNCHANGED <<list_result, result_count>>
  /\ UNCHANGED <<entries, list_capacity, dir, taken, alone, answers>>

\* The next entry: its first component below dir, unless it is already there.
Fill(t) ==
  /\ index[t] <= Len(entries)
  /\ Steps(t, "fill", "fill")
  /\ index' = [index EXCEPT ![t] = @ + 1]
  /\ LET name == entries[index[t]]
         d == Trim(dir[t])
         n == result_count[t]
     IN IF Below(name, d) /\ \A m \in 1 .. n : Head(list_result[m]) # name[Len(d) + 1]
          THEN /\ list_result' = [list_result EXCEPT ![n + 1] = Remainder(name, d)]
               /\ result_count' = [result_count EXCEPT ![t] = n + 1]
          ELSE UNCHANGED <<list_result, result_count>>
  /\ UNCHANGED <<entries, list_capacity, dir, taken, alone, answers>>

Filled(t) ==
  /\ index[t] > Len(entries)
  /\ Steps(t, "fill", "copy")
  /\ UNCHANGED <<entries, buffer, dir, index, result_count, taken, alone, answers>>

\* The adapter copies the first component of the next child into a string.
Copy(t) ==
  /\ Len(taken[t]) < result_count[t]
  /\ Steps(t, "copy", "copy")
  /\ taken' = [taken EXCEPT ![t] = Append(@, Head(list_result[Len(@) + 1]))]
  /\ UNCHANGED <<entries, buffer, dir, index, result_count, alone, answers>>

Copied(t) ==
  /\ Len(taken[t]) = result_count[t]
  /\ Steps(t, "copy", "idle")
  /\ Answer(t, taken[t])
  /\ UNCHANGED <<entries, buffer, dir, index, result_count, taken, alone>>

List(t) == Grow(t) \/ GrowFails(t) \/ Fill(t) \/ Filled(t) \/ Copy(t) \/ Copied(t)

ObbInit ==
  /\ entries = <<>>
  /\ list_result = [n \in DOMAIN Archive |-> Unwritten] /\ list_capacity = 0
  /\ step = [t \in Caller |-> "idle"] /\ dir = [t \in Caller |-> <<>>]
  /\ index = [t \in Caller |-> 1] /\ result_count = [t \in Caller |-> 0]
  /\ taken = [t \in Caller |-> <<>>]
  /\ alone = [t \in Caller |-> TRUE] /\ answers = {}

-----------------------------------------------------------------------------
\* The children of a directory, by definition.
Children(d) ==
  {c \in UNION {ToSet(Archive[e]) : e \in DOMAIN Archive} :
     c # "" /\ \E e \in DOMAIN Archive : IsPrefix(Append(d, c), Archive[e])}

(***************************************************************************)
(* A listing that met no other listing and no close has every child of the *)
(* directory once and nothing else, however the path is written; after the *)
(* close it is empty.  nfsmw_obb_asset_size finds whatever it names,       *)
(* unless that is a directory with no entry of its own (nfsmw_obb_list,    *)
(* its adapters list and forEach, nfsmw_obb_asset_size).                   *)
(***************************************************************************)
AloneListsExactly ==
  \A a \in answers : a.alone =>
    /\ IsInjective(a.names)
    /\ ToSet(a.names) = IF a.open THEN Children(Trim(a.dir)) ELSE {}
    /\ entries # <<>> => \A c \in ToSet(a.names) :
         LET path == Append(Trim(a.dir), c)
         IN AssetSize(path) = -2 <=> path \notin {Without(Archive[e]) : e \in DOMAIN Archive}
=============================================================================
