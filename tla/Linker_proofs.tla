----------------------------- MODULE Linker_proofs -----------------------------
(***************************************************************************)
(* Linker's type invariant and safety properties, for every number of      *)
(* guest modules and every set of names.                                   *)
(***************************************************************************)
EXTENDS Linker, TLAPS, WellFoundedInduction

USE LinkerConstants DEF Module

\* A bound word comes from the module itself, or from where the import's
\* lookup answers, or it is the NULL of an import without an answer.
BoundInv ==
  \A w \in bound :
    \/ ~Imports(w.image, w.name) /\ w.value.from = "guest"
    \/ w.value \in Lookup(w.image, w.name)
    \/ Lookup(w.image, w.name) = {} /\ w.value = Value("null", 0)

\* The census counts exactly what its definitions say.
CensusTaken ==
  /\ unbridged = {i \in Module \X Name : Unbridged(i[1], i[2])}
  /\ missing = {i \in Module \X Name : Missing(i[1], i[2])}

\* An unresolved word names an import without an answer, after the census.
UnresolvedInv ==
  /\ pc = "census" => unresolved = 0
  /\ pc = "relocate" => CensusTaken
  /\ unresolved # 0 =>
       CensusTaken /\ \E m \in Module, n \in Name :
                        table[m][n] = "undefined" /\ Lookup(m, n) = {}

IInv == TypeOK /\ BoundInv /\ UnresolvedInv

-----------------------------------------------------------------------------
\* Of several earlier modules that export a name one is the first.
LEMMA ExporterExists ==
  ASSUME NEW m \in Module, NEW n, \E d \in 1 .. m - 1 : Exports(d, n)
  PROVE  Exporter(m, n) # {}
<1> DEFINE E == {d \in 1 .. m - 1 : Exports(d, n)}
<1>1. E \subseteq Nat /\ E # {}
  OBVIOUS
<1>2. PICK d \in E : \A e \in E : ~(<<e, d>> \in OpToRel(<, Nat))
  <2> HIDE DEF E
  <2> QED BY <1>1, NatLessThanWellFounded, WFMin, Zenon
<1>3. \A e \in 1 .. d - 1 : ~Exports(e, n)
  <2> SUFFICES ASSUME NEW e \in 1 .. d - 1, Exports(e, n) PROVE FALSE
    OBVIOUS
  <2>1. e \in E /\ e \in Nat /\ d \in Nat /\ e < d
    OBVIOUS
  <2> QED BY <1>2, <2>1 DEF OpToRel
<1> QED BY <1>3 DEF Exporter

\* No two of them are.
LEMMA ExporterUnique ==
  ASSUME NEW l \in Module, NEW m \in Module, NEW n,
         NEW d \in Exporter(l, n), NEW e \in Exporter(m, n)
  PROVE  d = e
<1>1. d \in Nat /\ e \in Nat /\ d >= 1 /\ e >= 1 /\ Exports(d, n) /\ Exports(e, n)
  BY DEF Exporter
<1>2. ~(d < e)
  BY <1>1 DEF Exporter
<1>3. ~(e < d)
  BY <1>1 DEF Exporter
<1> QED BY <1>1, <1>2, <1>3

\* The sources are asked in the order of relocation_lookup.
LEMMA SourceOrder ==
  ASSUME NEW n, knows[n] \subseteq Source
  PROVE  FirstSource(n) =
           IF "softfp" \in knows[n] THEN {"softfp"}
           ELSE IF "alias" \in knows[n] THEN {"alias"}
           ELSE IF "compat" \in knows[n] THEN {"compat"}
           ELSE IF "boundary" \in knows[n] THEN {"boundary"}
           ELSE knows[n]
<1>1. Order[1] = "softfp" /\ Order[2] = "alias" /\ Order[3] = "compat"
      /\ Order[4] = "boundary" /\ Order[5] = "host"
  BY DEF Order
<1>2. 1 .. 5 = {1, 2, 3, 4, 5}
  OBVIOUS
<1>3. /\ 1 .. 1 - 1 = {} /\ 1 .. 2 - 1 = {1} /\ 1 .. 3 - 1 = {1, 2}
      /\ 1 .. 4 - 1 = {1, 2, 3} /\ 1 .. 5 - 1 = {1, 2, 3, 4}
  OBVIOUS
<1>4. ASSUME NEW s \in knows[n]
      PROVE  s \in FirstSource(n) <=>
               \/ s = "softfp"
               \/ s = "alias" /\ "softfp" \notin knows[n]
               \/ s = "compat" /\ {"softfp", "alias"} \cap knows[n] = {}
               \/ s = "boundary" /\ {"softfp", "alias", "compat"} \cap knows[n] = {}
               \/ s = "host" /\ {"softfp", "alias", "compat", "boundary"} \cap knows[n] = {}
  <2>1. s \in FirstSource(n) <=>
          \E i \in {1, 2, 3, 4, 5} : Order[i] = s /\ \A j \in 1 .. i - 1 : Order[j] \notin knows[n]
    BY <1>2 DEF FirstSource
  <2> QED BY <2>1, <1>1, <1>3
<1>5. FirstSource(n) \subseteq knows[n]
  BY DEF FirstSource
<1>6. CASE "softfp" \in knows[n]
  BY <1>4, <1>5, <1>6 DEF Source
<1>7. CASE "softfp" \notin knows[n] /\ "alias" \in knows[n]
  BY <1>4, <1>5, <1>7 DEF Source
<1>8. CASE {"softfp", "alias"} \cap knows[n] = {} /\ "compat" \in knows[n]
  BY <1>4, <1>5, <1>8 DEF Source
<1>9. CASE {"softfp", "alias", "compat"} \cap knows[n] = {} /\ "boundary" \in knows[n]
  BY <1>4, <1>5, <1>9 DEF Source
<1>10. CASE {"softfp", "alias", "compat", "boundary"} \cap knows[n] = {}
  BY <1>4, <1>5, <1>10 DEF Source
<1> QED BY <1>6, <1>7, <1>8, <1>9, <1>10

\* A lookup has an answer's type.
LEMMA LookupType ==
  ASSUME TypeOK, NEW m \in Module, NEW n \in Name
  PROVE  Lookup(m, n) \subseteq
           [from : Source \cup {"guest", "null"}, module : 0 .. ModuleCount]
<1> SUFFICES ASSUME NEW value \in Lookup(m, n)
             PROVE  value \in [from : Source \cup {"guest", "null"}, module : 0 .. ModuleCount]
  OBVIOUS
<1>1. CASE Exporter(m, n) # {}
  <2>1. PICK d \in Exporter(m, n) : value = Value("guest", d)
    BY <1>1 DEF Lookup
  <2>2. d \in 0 .. ModuleCount
    BY DEF Exporter
  <2> QED BY <2>1, <2>2 DEF Value
<1>2. CASE Exporter(m, n) = {}
  <2>1. PICK s \in FirstSource(n) : value = Value(s, 0)
    BY <1>2 DEF Lookup
  <2>2. s \in Source /\ 0 \in 0 .. ModuleCount
    BY DEF FirstSource, TypeOK
  <2> QED BY <2>1, <2>2 DEF Value
<1> QED BY <1>1, <1>2

-----------------------------------------------------------------------------
LEMMA InitInv == Init => IInv
<1> SUFFICES ASSUME Init PROVE IInv
  OBVIOUS
<1>1. knows \in [Name -> SUBSET Source]
  BY DEF Init
<1>2. TypeOK
  BY <1>1 DEF Init, TypeOK
<1> QED BY <1>2 DEF Init, IInv, BoundInv, UnresolvedInv

LEMMA TypeStep == TypeOK /\ [Next]_vars => TypeOK'
<1> SUFFICES ASSUME TypeOK, [Next]_vars PROVE TypeOK'
  OBVIOUS
<1> USE DEF TypeOK
<1>1. CASE Census
  BY <1>1 DEF Census, world
<1>2. CASE CensusFails
  BY <1>2 DEF CensusFails, world, census
<1>3. ASSUME NEW n \in Name, Record(n) PROVE TypeOK'
  <2>1. NextRecord
    BY <1>3 DEF Record, BindOwn, BindImport, BindNull, LeaveUnresolved
  <2>2. current \in Module
    BY <2>1 DEF NextRecord
  <2>3. CASE \E value \in [from : Source \cup {"guest", "null"}, module : 0 .. ModuleCount] :
               Write(n, value)
    BY <2>1, <2>2, <2>3 DEF NextRecord, Write, Word, world, census
  <2>4. CASE BindOwn(n)
    BY <2>2, <2>3, <2>4 DEF BindOwn, Value
  <2>5. CASE BindImport(n)
    BY <2>2, <2>3, <2>5, LookupType DEF BindImport
  <2>6. CASE BindNull(n)
    BY <2>2, <2>3, <2>6 DEF BindNull, Value
  <2>7. CASE LeaveUnresolved(n)
    BY <2>1, <2>7 DEF LeaveUnresolved, NextRecord, world, census
  <2> QED BY <1>3, <2>4, <2>5, <2>6, <2>7 DEF Record
<1>4. CASE RelocateFails
  BY <1>4 DEF RelocateFails, world, census
<1>5. CASE ImageDone
  BY <1>5 DEF ImageDone, world, census
<1>6. CASE RelocationPassed
  BY <1>6 DEF RelocationPassed, world, census
<1>7. ASSUME NEW n \in Name, GuestAsks(n) PROVE TypeOK'
  BY <1>7 DEF GuestAsks, world, census
<1>8. CASE UNCHANGED vars
  BY <1>8 DEF vars, world, census
<1> QED BY <1>1, <1>2, <1>3, <1>4, <1>5, <1>6, <1>7, <1>8 DEF Next

\* The modules' tables and the sources never change.
LEMMA WorldStays == ASSUME [Next]_vars PROVE UNCHANGED world
BY DEF Next, vars, Census, CensusFails, Record, BindOwn, BindImport, BindNull, LeaveUnresolved,
       NextRecord, RelocateFails, ImageDone, RelocationPassed, GuestAsks

\* So a lookup has the same answers in both states of a step.
LEMMA LookupStays ==
  ASSUME UNCHANGED world
  PROVE  /\ \A m, n : Lookup(m, n)' = Lookup(m, n) /\ (Imports(m, n)' <=> Imports(m, n))
         /\ \A m, n : Unbridged(m, n)' <=> Unbridged(m, n)
         /\ \A m, n : Missing(m, n)' <=> Missing(m, n)
<1>1. table' = table /\ knows' = knows
  BY DEF world
<1>2. \A m, n : (Imports(m, n)' <=> Imports(m, n)) /\ (Exports(m, n)' <=> Exports(m, n))
  BY <1>1 DEF Imports, Exports
<1>3. \A m, n : Exporter(m, n)' = Exporter(m, n)
  BY <1>2 DEF Exporter
<1>4. \A n : FirstSource(n)' = FirstSource(n)
  BY <1>1 DEF FirstSource
<1>5. \A n : SeemsExported(n)' <=> SeemsExported(n)
  BY <1>1 DEF SeemsExported
<1>6. \A m, n : Lookup(m, n)' = Lookup(m, n)
  BY <1>3, <1>4 DEF Lookup
<1>7. \A m, n : Unserved(m, n)' <=> Unserved(m, n)
  BY <1>1, <1>2, <1>5 DEF Unserved
<1> QED BY <1>1, <1>2, <1>6, <1>7 DEF Unbridged, Missing

LEMMA BoundStep == TypeOK /\ BoundInv /\ [Next]_vars => BoundInv'
<1> SUFFICES ASSUME TypeOK, BoundInv, [Next]_vars PROVE BoundInv'
  OBVIOUS
<1>1. \A m, n : Lookup(m, n)' = Lookup(m, n) /\ (Imports(m, n)' <=> Imports(m, n))
  BY WorldStays, LookupStays
<1>2. CASE UNCHANGED bound
  BY <1>1, <1>2 DEF BoundInv, Value
<1>3. ASSUME NEW n \in Name, NEW value, Write(n, value),
             \/ ~Imports(current, n) /\ value.from = "guest"
             \/ value \in Lookup(current, n)
             \/ Lookup(current, n) = {} /\ value = Value("null", 0)
      PROVE  BoundInv'
  BY <1>1, <1>3 DEF BoundInv, Write, Word, Value
<1>4. ASSUME NEW n \in Name, Record(n) PROVE BoundInv'
  <2>1. CASE BindOwn(n)
    BY <1>3, <2>1 DEF BindOwn, Imports, Value
  <2>2. CASE BindImport(n)
    BY <1>3, <2>2 DEF BindImport
  <2>3. CASE BindNull(n)
    BY <1>3, <2>3 DEF BindNull
  <2>4. CASE LeaveUnresolved(n)
    BY <1>2, <2>4 DEF LeaveUnresolved
  <2> QED BY <1>4, <2>1, <2>2, <2>3, <2>4 DEF Record
<1>5. CASE Census \/ CensusFails \/ RelocateFails \/ ImageDone \/ RelocationPassed
           \/ UNCHANGED vars \/ \E n \in Name : GuestAsks(n)
  BY <1>2, <1>5 DEF Census, CensusFails, RelocateFails, ImageDone, RelocationPassed, vars, GuestAsks
<1> QED BY <1>4, <1>5 DEF Next

LEMMA UnresolvedStep == TypeOK /\ UnresolvedInv /\ [Next]_vars => UnresolvedInv'
<1> SUFFICES ASSUME TypeOK, UnresolvedInv, [Next]_vars PROVE UnresolvedInv'
  OBVIOUS
<1>1. /\ \A m, n : Lookup(m, n)' = Lookup(m, n)
      /\ \A m, n : (Unbridged(m, n)' <=> Unbridged(m, n)) /\ (Missing(m, n)' <=> Missing(m, n))
  BY WorldStays, LookupStays
<1>2. table' = table
  BY WorldStays DEF world
<1>3. ASSUME UNCHANGED census PROVE CensusTaken' <=> CensusTaken
  BY <1>1, <1>3 DEF CensusTaken, census
<1>4. CASE Census
  <2>1. CensusTaken'
    BY <1>1, <1>4 DEF Census, CensusTaken
  <2>2. pc' = "relocate" /\ unresolved' = 0
    BY <1>4 DEF Census, UnresolvedInv
  <2> QED BY <2>1, <2>2 DEF UnresolvedInv
<1>5. CASE /\ UNCHANGED <<census, unresolved>> /\ pc' # "census"
           /\ pc' = "relocate" => pc = "relocate"
  BY <1>1, <1>2, <1>3, <1>5 DEF UnresolvedInv
<1>6. CASE CensusFails \/ RelocateFails \/ ImageDone \/ RelocationPassed \/ \E n \in Name : GuestAsks(n)
  BY <1>5, <1>6 DEF CensusFails, RelocateFails, ImageDone, RelocationPassed, GuestAsks
<1>7. ASSUME NEW n \in Name, Record(n) PROVE UnresolvedInv'
  <2>1. NextRecord
    BY <1>7 DEF Record, BindOwn, BindImport, BindNull, LeaveUnresolved
  <2>2. CASE UNCHANGED unresolved
    BY <1>5, <2>1, <2>2 DEF NextRecord
  <2>3. CASE LeaveUnresolved(n)
    <3>1. CensusTaken /\ current \in Module
      BY <2>1 DEF NextRecord, UnresolvedInv, TypeOK
    <3>2. CensusTaken'
      BY <1>3, <2>1, <3>1 DEF NextRecord
    <3>3. PICK m \in Module : table[m][n] = "undefined" /\ Lookup(m, n) = {}
      BY <2>3, <3>1 DEF LeaveUnresolved
    <3>4. table'[m][n] = "undefined" /\ Lookup(m, n)' = {}
      BY <1>1, <1>2, <3>3
    <3> QED BY <2>1, <3>2, <3>4 DEF NextRecord, UnresolvedInv
  <2> QED BY <1>7, <2>2, <2>3 DEF Record, BindOwn, BindImport, BindNull, Write
<1>8. CASE UNCHANGED vars
  BY <1>1, <1>2, <1>3, <1>8 DEF UnresolvedInv, vars
<1> QED BY <1>4, <1>6, <1>7, <1>8 DEF Next

THEOREM Invariance == Spec => []IInv
<1>1. IInv /\ [Next]_vars => IInv'
  BY TypeStep, BoundStep, UnresolvedStep DEF IInv
<1> QED BY InitInv, <1>1, PTL DEF Spec

-----------------------------------------------------------------------------
\* TypeOK: every variable keeps its type.
THEOREM TypeCorrect == Spec => []TypeOK
<1>1. IInv => TypeOK
  BY DEF IInv
<1> QED BY Invariance, <1>1, PTL

(***************************************************************************)
(* NoForeignAbi: relocation_lookup asks the soft-float thunks and the list *)
(* of boundary names before the host libraries, so no word is bound to a   *)
(* host function with scalar floats or with objects Bionic lays out        *)
(* differently.                                                            *)
(***************************************************************************)
THEOREM HostsOwnAbiOnly == Spec => []NoForeignAbi
<1>1. IInv => NoForeignAbi
  <2> SUFFICES ASSUME IInv, NEW w \in bound, w.value.from = "host"
               PROVE  knows[w.name] \cap {"softfp", "boundary"} = {}
    BY DEF NoForeignAbi
  <2>1. w.image \in Module /\ w.name \in Name /\ knows[w.name] \subseteq Source
    BY DEF IInv, TypeOK
  <2>2. w.value \in Lookup(w.image, w.name)
    BY DEF IInv, BoundInv, Value
  <2>3. Exporter(w.image, w.name) = {}
    BY <2>2 DEF Lookup, Value
  <2>4. "host" \in FirstSource(w.name)
    BY <2>2, <2>3 DEF Lookup, Value
  <2> QED BY <2>1, <2>4, SourceOrder
<1> QED BY Invariance, <1>1, PTL

(***************************************************************************)
(* ImportsAgree: in dependency order every module finds the same first     *)
(* exporter, or none does and all ask the same source.                     *)
(***************************************************************************)
THEOREM OneDefinition == Spec => []ImportsAgree
<1>1. IInv => ImportsAgree
  <2> SUFFICES ASSUME IInv, DependencyOrder, NEW v \in bound, NEW w \in bound,
                      v.name = w.name, Imports(v.image, v.name), Imports(w.image, w.name)
               PROVE  v.value = w.value
    BY DEF ImportsAgree
  <2> DEFINE n == v.name
  <2>1. /\ v.image \in Module /\ w.image \in Module /\ n \in Name
        /\ knows[n] \subseteq Source
    BY DEF IInv, TypeOK
  <2>2. /\ v.value \in Lookup(v.image, n) \/ (Lookup(v.image, n) = {} /\ v.value = Value("null", 0))
        /\ w.value \in Lookup(w.image, n) \/ (Lookup(w.image, n) = {} /\ w.value = Value("null", 0))
    BY DEF IInv, BoundInv
  <2>3. CASE SeemsExported(n)
    <3>1. Exporter(v.image, n) # {} /\ Exporter(w.image, n) # {}
      BY <2>1, <2>3, ExporterExists DEF DependencyOrder
    <3>2. /\ v.value \in {Value("guest", d) : d \in Exporter(v.image, n)}
          /\ w.value \in {Value("guest", d) : d \in Exporter(w.image, n)}
      BY <2>2, <3>1 DEF Lookup
    <3> QED BY <2>1, <3>2, ExporterUnique
  <2>4. CASE ~SeemsExported(n)
    <3>1. Exporter(v.image, n) = {} /\ Exporter(w.image, n) = {}
      BY <2>1, <2>4 DEF SeemsExported, Exporter, Exports
    <3>2. \A r, s \in FirstSource(n) \ {"boundary"} : r = s
      BY <2>1, SourceOrder DEF Source
    <3> QED BY <2>2, <3>1, <3>2 DEF Lookup
  <2> QED BY <2>3, <2>4
<1> QED BY Invariance, <1>1, PTL

(***************************************************************************)
(* CensusPredicts: an import relocation finds no answer for is one that    *)
(* nfsmw_probe_symbols has counted as unbridged or missing.                *)
(***************************************************************************)
THEOREM CensusIsSafe == Spec => []CensusPredicts
<1>1. IInv => CensusPredicts
  <2> SUFFICES ASSUME IInv, DependencyOrder, unbridged = {}, missing = {}, unresolved # 0
               PROVE  FALSE
    BY DEF CensusPredicts
  <2>1. CensusTaken
    BY DEF IInv, UnresolvedInv
  <2>2. PICK m \in Module, n \in Name : table[m][n] = "undefined" /\ Lookup(m, n) = {}
    BY DEF IInv, UnresolvedInv
  <2>3. Exporter(m, n) = {} /\ FirstSource(n) \subseteq {"boundary"}
    BY <2>2 DEF Lookup
  <2>4. ~SeemsExported(n)
    BY <2>2, <2>3, ExporterExists DEF DependencyOrder, Imports
  <2>5. knows[n] \subseteq Source
    BY DEF IInv, TypeOK
  <2>6. knows[n] \subseteq {"boundary", "host"} /\ ("host" \in knows[n] => "boundary" \in knows[n])
    BY <2>3, <2>5, SourceOrder DEF Source
  <2>7. Unserved(m, n)
    BY <2>2, <2>4, <2>6 DEF Unserved, Imports
  <2>8. Unbridged(m, n) \/ Missing(m, n)
    BY <2>2, <2>6, <2>7 DEF Unbridged, Missing
  <2>9. <<m, n>> \in Module \X Name /\ <<m, n>>[1] = m /\ <<m, n>>[2] = n
    OBVIOUS
  <2> QED BY <2>1, <2>8, <2>9 DEF CensusTaken
<1> QED BY Invariance, <1>1, PTL
=============================================================================
