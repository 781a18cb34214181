-------------------------------- MODULE Linker --------------------------------
(***************************************************************************)
(* How guest imports find their providers: the census (symbol_probe.c),    *)
(* which predicts, and the relocation stage (relocation_probe.c over       *)
(* elf32_loader.c), which binds module after module in mapping order, the  *)
(* dependencies first.  Relocation records that name no symbol are left    *)
(* out, and the addend of those that do.                                   *)
(***************************************************************************)
EXTENDS Naturals, FiniteSets

CONSTANTS
  ModuleCount,  \* image_count
  Name,         \* symbol names
  Profiles,     \* what the tables and host libraries may say of a name
  MaxRecords    \* bound: records of one module's two REL tables

Module == 1 .. ModuleCount

\* What a module's dynamic symbol table says of a name.
Entry == {"absent", "undefined", "weak_undefined", "local", "export", "ifunc", "tls"}

(***************************************************************************)
(* The tables and libraries that may know a name, in the order in which    *)
(* relocation asks them.  A name in the list of boundary names that no     *)
(* bridge has is blocked.  The soft-float list and the soft-float thunks   *)
(* have the same names.                                                    *)
(***************************************************************************)
Order == <<"softfp", "alias", "compat", "boundary", "host">>
Source == {"softfp", "alias", "compat", "boundary", "host"}

ASSUME LinkerConstants ==
  /\ ModuleCount \in Nat \ {0}
  /\ Profiles \subseteq SUBSET Source
  /\ MaxRecords \in Nat

VARIABLES
  table,        \* table[m][n]: the entry of module m for name n
  knows,        \* knows[n]: which sources know the name
  pc,
  current,      \* current_image
  records,      \* records of the current image applied so far
  unresolved,   \* unresolved_relocations
  unbridged, missing,   \* imports the census counts as such
  bound,        \* the words relocation has written
  asked         \* addresses the guest got at run time

world == <<table, knows>>
census == <<unbridged, missing>>
vars == <<world, pc, current, records, unresolved, census, bound, asked>>

-----------------------------------------------------------------------------
Imports(m, n) == table[m][n] \in {"undefined", "weak_undefined"}

\* elf32_find_export: a thread-local symbol is no export.
Exports(m, n) == table[m][n] \in {"export", "ifunc"}

\* The census also takes a thread-local symbol for an export.
SeemsExported(n) == \E m \in Module : table[m][n] \in {"export", "ifunc", "tls"}

\* Mutant: the module mapped last wins.
ExporterLast(m, n) ==
  {d \in 1 .. m - 1 : Exports(d, n) /\ \A e \in d + 1 .. m - 1 : ~Exports(e, n)}

\* The first of the modules mapped before m that exports the name.
Exporter(m, n) ==
  {d \in 1 .. m - 1 : Exports(d, n) /\ \A e \in 1 .. d - 1 : ~Exports(e, n)}

\* Mutant: the host libraries are asked before the list of boundary names.
FirstSourceHostly(n) ==
  {s \in knows[n] : s = "host" \/ ("host" \notin knows[n] /\
     \E i \in 1 .. 5 : Order[i] = s /\ \A j \in 1 .. i - 1 : Order[j] \notin knows[n])}

\* The first source that knows a name no earlier guest module exports.
FirstSource(n) ==
  {s \in knows[n] : \E i \in 1 .. 5 :
     Order[i] = s /\ \A j \in 1 .. i - 1 : Order[j] \notin knows[n]}

Value(from, module) == [from |-> from, module |-> module]

\* relocation_lookup: the addresses it may answer, none for 0.
Lookup(m, n) ==
  IF Exporter(m, n) # {}
  THEN {Value("guest", d) : d \in Exporter(m, n)}
  ELSE {Value(s, 0) : s \in FirstSource(n) \ {"boundary"}}

Word(m, n, value) == [image |-> m, name |-> n, value |-> value]

-----------------------------------------------------------------------------
\* An import no guest module seems to export and no thunk or bridge serves.
Unserved(m, n) ==
  Imports(m, n) /\ ~SeemsExported(n) /\ knows[n] \cap {"softfp", "compat"} = {}

\* Mutant: a boundary name the host libraries export passes for served.
UnbridgedUnknown(m, n) ==
  Unserved(m, n) /\ "boundary" \in knows[n] /\ "host" \notin knows[n]

Unbridged(m, n) == Unserved(m, n) /\ "boundary" \in knows[n]

Missing(m, n) ==
  /\ Unserved(m, n)
  /\ knows[n] \cap {"boundary", "host"} = {}
  /\ table[m][n] = "undefined"

\* nfsmw_probe_symbols.
Census ==
  /\ pc = "census"
  /\ pc' = "relocate"
  /\ unbridged' = {i \in Module \X Name : Unbridged(i[1], i[2])}
  /\ missing' = {i \in Module \X Name : Missing(i[1], i[2])}
  /\ UNCHANGED <<world, current, records, unresolved, bound, asked>>

\* The symbol tables of a module are malformed.
CensusFails ==
  /\ pc = "census"
  /\ pc' = "failed"
  /\ UNCHANGED <<world, current, records, unresolved, census, bound, asked>>

-----------------------------------------------------------------------------
(* elf32_relocate of the current image: its next record names n.           *)

NextRecord ==
  /\ pc = "relocate" /\ current <= ModuleCount /\ records < MaxRecords
  /\ records' = records + 1
  /\ UNCHANGED <<world, pc, current, census, asked>>

Write(n, value) == bound' = bound \cup {Word(current, n, value)} /\ UNCHANGED unresolved

\* A module's own definition of the name is final.
BindOwn(n) ==
  /\ NextRecord
  /\ table[current][n] \in {"local", "export"}
  /\ Write(n, Value("guest", current))

BindImport(n) ==
  /\ NextRecord
  /\ Imports(current, n)
  /\ \E value \in Lookup(current, n) : Write(n, value)

\* A weak import nobody provides is NULL.
BindNull(n) ==
  /\ NextRecord
  /\ table[current][n] = "weak_undefined" /\ Lookup(current, n) = {}
  /\ Write(n, Value("null", 0))

\* Any other is counted and its word left alone.
LeaveUnresolved(n) ==
  /\ NextRecord
  /\ table[current][n] = "undefined" /\ Lookup(current, n) = {}
  /\ unresolved' = unresolved + 1
  /\ UNCHANGED bound

\* An own IFUNC or thread-local symbol, a bad record, or mprotect fails.
RelocateFails ==
  /\ pc = "relocate" /\ current <= ModuleCount
  /\ pc' = "failed"
  /\ UNCHANGED <<world, current, records, unresolved, census, bound, asked>>

ImageDone ==
  /\ pc = "relocate" /\ current <= ModuleCount
  /\ current' = current + 1
  /\ records' = 0
  /\ UNCHANGED <<world, pc, unresolved, census, bound, asked>>

\* main's gate, when constructors are to run (Boot has the rest).
RelocationPassed ==
  /\ pc = "relocate" /\ current > ModuleCount
  /\ pc' = IF unresolved = 0 THEN "guest" ELSE "refused"
  /\ UNCHANGED <<world, current, records, unresolved, census, bound, asked>>

(***************************************************************************)
(* Running guest code asks for an address itself: eglGetProcAddress is the *)
(* host's, and compat_dlsym hands every handle but OpenSL's to dlsym.      *)
(***************************************************************************)
GuestAsks(n) ==
  /\ pc = "guest" /\ "host" \in knows[n]
  /\ asked' = asked \cup {n}
  /\ UNCHANGED <<world, pc, current, records, unresolved, census, bound>>

Init ==
  /\ table \in [Module -> [Name -> Entry]]
  /\ knows \in [Name -> Profiles]
  /\ pc = "census"
  /\ current = 1
  /\ records = 0
  /\ unresolved = 0
  /\ unbridged = {} /\ missing = {}
  /\ bound = {}
  /\ asked = {}

Record(n) == BindOwn(n) \/ BindImport(n) \/ BindNull(n) \/ LeaveUnresolved(n)

Next ==
  \/ Census \/ CensusFails
  \/ \E n \in Name : Record(n)
  \/ RelocateFails \/ ImageDone \/ RelocationPassed
  \/ \E n \in Name : GuestAsks(n)

Spec == Init /\ [][Next]_vars

-----------------------------------------------------------------------------
\* Every variable keeps its type.
TypeOK ==
  /\ table \in [Module -> [Name -> Entry]]
  /\ knows \in [Name -> SUBSET Source]
  /\ pc \in {"census", "relocate", "guest", "refused", "failed"}
  /\ current \in 1 .. ModuleCount + 1
  /\ records \in 0 .. MaxRecords
  /\ unresolved \in Nat
  /\ unbridged \subseteq Module \X Name /\ missing \subseteq Module \X Name
  /\ bound \subseteq [image : Module, name : Name,
                      value : [from : Source \cup {"guest", "null"}, module : 0 .. ModuleCount]]
  /\ asked \subseteq Name

(***************************************************************************)
(* No word is bound to a host function whose scalar floats would be passed *)
(* in other registers than the guest uses, or whose objects Bionic lays    *)
(* out differently: those names come from a guest module, a thunk or a     *)
(* bridge, or stay unresolved.                                             *)
(***************************************************************************)
NoForeignAbi ==
  \A w \in bound : w.value.from = "host" => knows[w.name] \cap {"softfp", "boundary"} = {}

(***************************************************************************)
(* research/abi-contract.md says of functions with scalar floats           *)
(* "Directly resolving functions such as glClearColor [...] to host GLES   *)
(* will corrupt their arguments", and calls EGL's entry a "controlled      *)
(* eglGetProcAddress wrapper": the guest is not handed the host's own      *)
(* function for such a name when it asks for it.                           *)
(***************************************************************************)
AskedIsThunked == \A n \in asked : "softfp" \notin knows[n]

\* Every import some module exports is exported by one mapped before.
DependencyOrder ==
  \A m \in Module, n \in Name :
    Imports(m, n) /\ SeemsExported(n) => \E d \in 1 .. m - 1 : Exports(d, n)

(***************************************************************************)
(* When the modules are mapped in dependency order, all of them bind an    *)
(* imported name to one and the same definition, so that what one module   *)
(* allocates another can free.                                             *)
(***************************************************************************)
ImportsAgree ==
  DependencyOrder =>
    \A v, w \in bound :
      v.name = w.name /\ Imports(v.image, v.name) /\ Imports(w.image, w.name) =>
        v.value = w.value

(***************************************************************************)
(* The census promises no more than relocation delivers: when the modules  *)
(* are mapped in dependency order and it reports neither an unbridged nor  *)
(* a missing import, relocation leaves no word unresolved.                 *)
(***************************************************************************)
CensusPredicts ==
  pc # "census" /\ DependencyOrder /\ unbridged = {} /\ missing = {} => unresolved = 0
=============================================================================
