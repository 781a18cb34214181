---------------------------- MODULE Libraries_proofs ----------------------------
(***************************************************************************)
(* The guest's libraries, from the APK to the process: the installer puts  *)
(* them on the device whole, for every list of libraries; then the loader  *)
(* maps one (ElfImage): its type invariant and safety properties, for      *)
(* every number of pages and segments and every way in which segments      *)
(* share pages.                                                            *)
(***************************************************************************)
EXTENDS ElfImage, Installer, TLAPS

-----------------------------------------------------------------------------
(***************************************************************************)
(* The installer.  The inductive invariant: while setup works, the test    *)
(* that starts the game at once fails, so that no state a kill leaves      *)
(* behind is believed; the files it has unpacked are whole in TMP; and mv  *)
(* meets a LIBDIR only if rm gave up.                                      *)
(***************************************************************************)
Works == {"find", "clean", "make", "extract", "unzip", "remove", "move"}
Content == {"none", "empty", "whole"}
Believed == ready /\ libs[App] = "whole"

InstallTypes ==
  /\ tmp \in [Library -> Content] /\ libs \in [Library -> Content]
  /\ n \in Nat \ {0}
Unpacked ==
  /\ at \in {"extract", "unzip"} => \A k \in 1 .. n - 1 : \/ tmp[Libraries[k]] = "whole"
                                                          \/ at = "unzip" /\ Libraries[k] = Libraries[n]
  /\ at = "unzip" => n \in 1 .. Len(Libraries)
  /\ at \in {"remove", "move"} => Whole(tmp)
OutOfTheWay == at = "move" => gave_up \/ "libs" \notin dirs
BelievedWhole == Believed => gave_up \/ Whole(libs)
InstallInv ==
  /\ InstallTypes /\ Unpacked /\ OutOfTheWay /\ BelievedWhole
  /\ at \in Works => ~Believed
  /\ at \in {"mark", "launch"} => gave_up \/ Whole(libs)

LEMMA LibraryFacts ==
  /\ Len(Libraries) \in Nat /\ App \in Library
  /\ \A k \in 1 .. Len(Libraries) : Libraries[k] \in Library
  /\ \A l \in Library : \E k \in 1 .. Len(Libraries) : Libraries[k] = l
<1>1. Len(Libraries) \in Nat /\ DOMAIN Libraries = 1 .. Len(Libraries) /\ Len(Libraries) # 0
  BY InstallerConstants
<1>2. App = Libraries[Len(Libraries)] /\ Len(Libraries) \in 1 .. Len(Libraries)
  BY <1>1 DEF App, Last
<1> QED BY <1>1, <1>2 DEF Library, ToSet

LEMMA InstallStarts == InstallInit => InstallInv
<1> SUFFICES ASSUME InstallInit PROVE InstallInv
  OBVIOUS
<1>1. InstallTypes
  <2>1. Nothing \in [Library -> Content] /\ 1 \in Nat \ {0}
    BY DEF Nothing, Content
  <2> QED BY <2>1 DEF InstallInit, InstallTypes
<1> QED BY <1>1 DEF InstallInit, InstallInv, Unpacked, OutOfTheWay, BelievedWhole, Believed, Works

\* The steps that leave the disk, the loop and rm's outcome alone.
LEMMA DiskUntouched ==
  ASSUME InstallInv, UNCHANGED <<disk, n, gave_up>>,
         \/ at' = at \/ at' \in {"idle", "check"}
         \/ at \in Works /\ at' \in {"clean", "make"}
         \/ at' = "launch" /\ (Believed \/ at = "mark")
         \/ at' = "find" /\ ~Believed
         \/ at' = "remove" /\ at = "extract" /\ n > Len(Libraries)
  PROVE  InstallInv'
<1>1. UNCHANGED <<dirs, tmp, libs, ready, n, gave_up>>
  BY DEF disk
<1>2. InstallTypes'
  BY <1>1 DEF InstallInv, InstallTypes
<1>3. at' = "remove" => Whole(tmp)
  <2>1. CASE at = "remove"
    BY <2>1 DEF InstallInv, Unpacked
  <2> SUFFICES ASSUME at = "extract", n > Len(Libraries), NEW l \in Library PROVE tmp[l] = "whole"
    BY <2>1 DEF Whole
  <2>2. PICK k \in 1 .. Len(Libraries) : Libraries[k] = l
    BY LibraryFacts
  <2>3. k \in 1 .. n - 1
    BY LibraryFacts DEF InstallInv, InstallTypes
  <2> QED BY <2>2, <2>3 DEF InstallInv, Unpacked
<1>4. Unpacked'
  BY <1>1, <1>3 DEF InstallInv, Unpacked, Whole
<1> QED BY <1>1, <1>2, <1>4 DEF InstallInv, OutOfTheWay, BelievedWhole, Believed, Works, Whole

LEMMA InstallStep == InstallInv /\ [InstallNext]_installation => InstallInv'
<1> SUFFICES ASSUME InstallInv, [InstallNext]_installation PROVE InstallInv'
  OBVIOUS
<1>1. InstallTypes /\ Unpacked /\ OutOfTheWay /\ BelievedWhole /\ (at \in Works => ~Believed)
  BY DEF InstallInv
<1>2. CASE Start \/ CopyData \/ Kill \/ Check \/ Find \/ CleanGivesUp \/ Extracted \/ MoveRefused
           \/ MarkLost \/ Runtime \/ UNCHANGED installation
           \/ \E command \in {"make", "unzip", "move"} : Fails(command)
  <2>1. UNCHANGED <<disk, n, gave_up>>
    BY <1>2 DEF Start, CopyData, Kill, Check, Find, CleanGivesUp, Extracted, MoveRefused, MarkLost,
                Runtime, Fails, installation
  <2>2. CASE UNCHANGED installation \/ CopyData
    BY <2>1, <2>2, DiskUntouched DEF installation, CopyData
  <2>3. CASE Start \/ Kill \/ MoveRefused \/ Runtime
             \/ \E command \in {"make", "unzip", "move"} : Fails(command)
    BY <2>1, <2>3, DiskUntouched DEF Start, Kill, MoveRefused, Runtime, Fails, Goto
  <2>4. CASE Check \/ Find \/ CleanGivesUp \/ MarkLost
    BY <2>1, <2>4, DiskUntouched DEF Check, Find, CleanGivesUp, MarkLost, Goto, Works, Believed
  <2>5. CASE Extracted
    BY <2>1, <2>5, DiskUntouched DEF Extracted, Goto
  <2> QED BY <1>2, <2>2, <2>3, <2>4, <2>5
<1>3. CASE LoseApp
  <2>1. /\ at = "idle" /\ at' = "idle" /\ UNCHANGED <<dirs, tmp, ready, n, gave_up>>
        /\ libs' = [libs EXCEPT ![App] = "none"]
    BY <1>3 DEF LoseApp
  <2>2. libs' \in [Library -> Content] /\ libs'[App] = "none"
    BY <1>1, <2>1, LibraryFacts DEF InstallTypes, Content
  <2> QED BY <1>1, <2>1, <2>2 DEF InstallInv, InstallTypes, Unpacked, OutOfTheWay, BelievedWhole, Believed, Works
<1>4. CASE Clean
  <2>1. /\ at = "clean" /\ at' = "make" /\ tmp' = Nothing /\ UNCHANGED <<libs, ready, n, gave_up>>
    BY <1>4 DEF Clean, Goto
  <2>2. Nothing \in [Library -> Content]
    BY DEF Nothing, Content
  <2> QED BY <1>1, <2>1, <2>2
          DEF InstallInv, InstallTypes, Unpacked, OutOfTheWay, BelievedWhole, Believed, Works, Whole
<1>5. CASE Make
  <2>1. /\ at = "make" /\ at' = "extract" /\ n' = 1 /\ UNCHANGED <<tmp, libs, ready, gave_up>>
    BY <1>5 DEF Make, Goto
  <2>2. Unpacked'
    BY <2>1 DEF Unpacked
  <2> QED BY <1>1, <2>1, <2>2
          DEF InstallInv, InstallTypes, OutOfTheWay, BelievedWhole, Believed, Works, Whole
<1>6. CASE OpenFile
  <2>1. /\ at = "extract" /\ at' = "unzip" /\ n <= Len(Libraries)
        /\ tmp' = [tmp EXCEPT ![Libraries[n]] = "empty"] /\ UNCHANGED <<libs, ready, n, gave_up>>
    BY <1>6 DEF OpenFile, Goto
  <2>2. tmp' \in [Library -> Content]
    BY <1>1, <2>1 DEF InstallTypes, Content
  <2>3. n \in 1 .. Len(Libraries)
    BY <1>1, <2>1, LibraryFacts DEF InstallTypes, Unpacked
  <2>4. Unpacked'
    <3> SUFFICES ASSUME NEW k \in 1 .. n - 1, Libraries[k] # Libraries[n]
                 PROVE  tmp'[Libraries[k]] = "whole"
      BY <2>1, <2>3 DEF Unpacked
    <3>1. Libraries[k] \in Library /\ tmp[Libraries[k]] = "whole"
      BY <1>1, <2>1, <2>3, LibraryFacts DEF Unpacked
    <3> QED BY <1>1, <2>1, <3>1 DEF InstallTypes
  <2> QED BY <1>1, <2>1, <2>2, <2>4
          DEF InstallInv, InstallTypes, OutOfTheWay, BelievedWhole, Believed, Works, Whole
<1>7. CASE Unzip
  <2>1. /\ at = "unzip" /\ at' = "extract" /\ n' = n + 1
        /\ tmp' = [tmp EXCEPT ![Libraries[n]] = "whole"] /\ UNCHANGED <<libs, ready, gave_up>>
    BY <1>7 DEF Unzip, Goto
  <2>2. tmp' \in [Library -> Content] /\ n' \in Nat \ {0} /\ n \in 1 .. Len(Libraries)
    <3>1. tmp' \in [Library -> Content]
      BY <1>1, <2>1 DEF InstallTypes, Content
    <3>2. n \in Nat /\ n + 1 \in Nat \ {0}
      BY <1>1 DEF InstallTypes
    <3>3. n \in 1 .. Len(Libraries)
      BY <1>1, <2>1 DEF Unpacked
    <3> QED BY <2>1, <3>1, <3>2, <3>3
  <2>3. Unpacked'
    <3> SUFFICES ASSUME NEW k \in 1 .. (n + 1) - 1 PROVE tmp'[Libraries[k]] = "whole"
      BY <2>1 DEF Unpacked
    <3>1. k \in 1 .. n - 1 \/ k = n
      BY <2>2, LibraryFacts
    <3>2. Libraries[k] \in Library /\ (tmp[Libraries[k]] = "whole" \/ Libraries[k] = Libraries[n])
      BY <1>1, <2>1, <2>2, <3>1, LibraryFacts DEF Unpacked
    <3> QED BY <1>1, <2>1, <3>2 DEF InstallTypes
  <2> QED BY <1>1, <2>1, <2>2, <2>3
          DEF InstallInv, InstallTypes, OutOfTheWay, BelievedWhole, Believed, Works, Whole
<1>8. CASE RemoveFile
  <2>1. /\ at = "remove" /\ at' = "remove" /\ UNCHANGED <<tmp, ready, n, gave_up>>
        /\ libs' = libs \/ \E l \in Library : libs' = [libs EXCEPT ![l] = "none"]
    BY <1>8 DEF RemoveFile
  <2>2. libs' \in [Library -> Content] /\ (libs'[App] = libs[App] \/ libs'[App] = "none")
    BY <1>1, <2>1, LibraryFacts DEF InstallTypes, Content
  <2>3. ~Believed'
    BY <1>1, <2>1, <2>2 DEF Believed, Works
  <2> QED BY <1>1, <2>1, <2>2, <2>3
          DEF InstallInv, InstallTypes, Unpacked, OutOfTheWay, BelievedWhole, Works, Whole
<1>9. CASE Removed \/ RemoveGivesUp
  <2>1. /\ at = "remove" /\ at' = "move" /\ UNCHANGED <<tmp, libs, ready, n>>
        /\ gave_up' \/ "libs" \notin dirs'
        /\ ~Believed
    BY <1>1, <1>9 DEF Removed, RemoveGivesUp, Goto, disk, Works
  <2> QED BY <1>1, <2>1
          DEF InstallInv, InstallTypes, Unpacked, OutOfTheWay, BelievedWhole, Believed, Works, Whole
<1>10. CASE Move
  <2>1. /\ at = "move" /\ at' = "mark" /\ tmp' = Nothing /\ UNCHANGED <<ready, n, gave_up>>
        /\ libs' = IF "libs" \in dirs THEN libs ELSE tmp
    BY <1>10 DEF Move, Goto
  <2>2. gave_up' \/ Whole(libs')
    BY <1>1, <2>1 DEF Unpacked, OutOfTheWay
  <2>3. Nothing \in [Library -> Content] /\ libs' \in [Library -> Content]
    BY <1>1, <2>1 DEF Nothing, InstallTypes, Content
  <2> QED BY <1>1, <2>1, <2>2, <2>3
          DEF InstallInv, InstallTypes, Unpacked, OutOfTheWay, BelievedWhole, Believed, Works, Whole
<1>11. CASE Mark
  <2>1. /\ at = "mark" /\ at' = "launch" /\ UNCHANGED <<tmp, libs, n, gave_up>>
        /\ gave_up \/ Whole(libs)
    BY <1>11 DEF Mark, Goto, InstallInv
  <2> QED BY <1>1, <2>1
          DEF InstallInv, InstallTypes, Unpacked, OutOfTheWay, BelievedWhole, Believed, Works, Whole
<1> QED BY <1>2, <1>3, <1>4, <1>5, <1>6, <1>7, <1>8, <1>9, <1>10, <1>11 DEF InstallNext, Setup

(***************************************************************************)
(* Whatever the list of libraries, and however often setup or the runtime  *)
(* is killed, a command fails or the user deletes libapp.so: the launcher  *)
(* starts the runtime only on a LIBDIR whose libraries are all whole,      *)
(* unless the last rm -rf gave up on it (setup.sh, the launcher).          *)
(***************************************************************************)
THEOREM InstalledWhole == InstallSpec => []LaunchedWhole
<1>1. InstallInv => LaunchedWhole
  BY DEF InstallInv, LaunchedWhole, Whole
<1> QED BY <1>1, InstallStarts, InstallStep, PTL DEF InstallSpec

-----------------------------------------------------------------------------
(* The loader.                                                             *)

USE ElfImageConstants DEF Page, Segment, Pages, Returned, RW, NoPages, file, InLoop, LoopEnds

Covered(p, S) == \E s \in S : p \in Pages(s)

\* Nothing makes a page outside the segments accessible.
Outside == \A p \in Page : ~Covered(p, Segment) => protection[p] = {}

\* The loops of elf32_map and set_segments_writable before segment k.
WritableTo(k) == \A p \in Page : Covered(p, 1 .. k - 1) => protection[p] = RW

\* protect_segments before segment k: the last segment so far decides.
ProtectedTo(k) ==
  \A p \in Page : Covered(p, 1 .. k - 1) =>
    \E s \in 1 .. k - 1 :
      /\ p \in Pages(s) /\ \A t \in s + 1 .. k - 1 : p \notin Pages(t)
      /\ protection[p] = segment[s].flags

Settled ==
  \/ pc \in {"mapped", "bound"} \/ (pc = "refused" /\ ~broken)
  \/ pc = "done" /\ result = "success"

\* What the loops have done to the pages.
RightsInv ==
  /\ pc \in {"prepare", "writable"} => Outside /\ WritableTo(index)
  /\ pc = "apply" => index = 1 /\ Outside /\ WritableTo(SegmentCount + 1)
  /\ pc \in {"protect", "restore"} => Outside /\ ProtectedTo(index)
  /\ Settled => \A p \in Page : Granted(p)

\* What is open or mapped at each place.
HeldInv ==
  /\ pc \in {"open", "input", "reserve"} => ~mapping /\ protection = NoPages
  /\ pc \in {"open", "input", "reserve", "prepare", "protect"} => result = "failure"
  /\ pc \in {"prepare", "protect", "writable", "apply", "restore"} => mapping
  /\ pc = "done" /\ result = "success" => mapping
  /\ pc \in {"writable", "apply", "restore"} => ~descriptor /\ ~file_mapping
  /\ pc \notin {"refused", "gone"} => ~broken
  /\ NothingLeft

IInv == TypeOK /\ HeldInv /\ RightsInv

-----------------------------------------------------------------------------
LEMMA InitInv == Init => IInv
<1> SUFFICES ASSUME Init PROVE IInv
  OBVIOUS
<1>1. TypeOK
  <2>1. segment \in [Segment -> [first : Page, last : Page, flags : Protections]]
    <3> DEFINE H == [first : Page, last : Page, flags : Protections]
    <3>1. segment \in [Segment -> {h \in H : h.first <= h.last}]
      BY DEF Init
    <3> HIDE DEF H
    <3>2. segment \in [Segment -> H]
      BY <3>1
    <3> QED BY <3>2 DEF H
  <2>2. index \in 1 .. SegmentCount + 1
    BY DEF Init
  <2>3. protection \in [Page -> SUBSET {"R", "W", "X"}]
    BY DEF Init
  <2> QED BY <2>1, <2>2, <2>3 DEF Init, TypeOK
<1>2. HeldInv
  BY DEF Init, HeldInv, NothingLeft
<1>3. RightsInv
  BY DEF Init, RightsInv, Settled
<1> QED BY <1>1, <1>2, <1>3 DEF IInv

\* The program headers never change.
LEMMA SegmentStays == ASSUME [Next]_vars PROVE segment' = segment
BY DEF Next, vars, MapStep, Open, MapInput, Reserve, StageFails, Prepare, PrepareFails, ParseDynamic,
       Done, ProtectStep, Protect, ProtectFails, Protected, RestoreFails, Restored, RelocateStep,
       Relocate, RelocateFails, MakeWritable, MakeWritableFails, AllWritable, Apply, ApplyFails,
       Applied, Unmap

\* mprotect keeps the type of the pages' rights, also when it fails.
LEMMA MprotectType ==
  ASSUME protection \in [Page -> SUBSET {"R", "W", "X"}], NEW flags \in SUBSET {"R", "W", "X"}
  PROVE  /\ \A P : Mprotect(P, flags) => protection' \in [Page -> SUBSET {"R", "W", "X"}]
         /\ MprotectFails(flags) => protection' \in [Page -> SUBSET {"R", "W", "X"}]
<1>1. ASSUME NEW P, Mprotect(P, flags) PROVE protection' \in [Page -> SUBSET {"R", "W", "X"}]
  BY <1>1 DEF Mprotect
<1> QED BY <1>1 DEF MprotectFails

\* The flags of the segment a loop has come to.
LEMMA FlagsType ==
  ASSUME TypeOK, index <= SegmentCount
  PROVE  index \in Segment /\ segment[index].flags \in SUBSET {"R", "W", "X"}
<1>1. index \in Segment
  BY DEF TypeOK
<1>2. segment[index] \in [first : Page, last : Page, flags : Protections]
  BY <1>1 DEF TypeOK
<1> QED BY <1>1, <1>2

LEMMA TypeStep == TypeOK /\ [Next]_vars => TypeOK'
<1> SUFFICES ASSUME TypeOK, [Next]_vars PROVE TypeOK'
  OBVIOUS
<1>1. segment' \in [Segment -> [first : Page, last : Page, flags : Protections]]
  BY SegmentStays DEF TypeOK
<1>2. index' \in 1 .. SegmentCount + 1
  BY DEF TypeOK, Next, vars, MapStep, Open, MapInput, Reserve, StageFails,
    Prepare, PrepareFails, ParseDynamic, Done, ProtectStep, Protect, ProtectFails, Protected,
    RestoreFails, Restored, RelocateStep, Relocate, RelocateFails, MakeWritable, MakeWritableFails,
    AllWritable, Apply, ApplyFails, Applied, Unmap
<1>3. protection' \in [Page -> SUBSET {"R", "W", "X"}]
  <2>1. CASE Prepare \/ PrepareFails \/ MakeWritable \/ MakeWritableFails
    <3>1. RW \in SUBSET {"R", "W", "X"}
      OBVIOUS
    <3>2. protection \in [Page -> SUBSET {"R", "W", "X"}]
      BY DEF TypeOK
    <3>3. (\E P : Mprotect(P, RW)) \/ MprotectFails(RW)
      BY <2>1 DEF Prepare, PrepareFails, MakeWritable, MakeWritableFails
    <3> QED BY <3>1, <3>2, <3>3, MprotectType
  <2>2. CASE Protect \/ ProtectFails \/ RestoreFails
    <3>1. protection \in [Page -> SUBSET {"R", "W", "X"}]
      BY DEF TypeOK
    <3>2. segment[index].flags \in SUBSET {"R", "W", "X"}
      BY <2>2, FlagsType DEF Protect, ProtectFails, RestoreFails, InLoop
    <3>3. \/ \E P : Mprotect(P, segment[index].flags)
          \/ MprotectFails(segment[index].flags)
      BY <2>2 DEF Protect, ProtectFails, RestoreFails
    <3> QED BY <3>1, <3>2, <3>3, MprotectType
  <2>3. CASE Done \/ Unmap
    BY <2>3 DEF Done, Unmap, TypeOK
  <2>4. CASE UNCHANGED protection
    BY <2>4 DEF TypeOK
  <2> QED BY <2>1, <2>2, <2>3, <2>4 DEF Next, vars, MapStep, Open, MapInput, Reserve, StageFails,
        ParseDynamic, ProtectStep, Protected, Restored, RelocateStep, Relocate, RelocateFails,
        AllWritable, Apply, ApplyFails, Applied
<1>4. /\ pc' \in {"open", "input", "reserve", "prepare", "protect", "done",
                  "writable", "apply", "restore"} \cup Returned
      /\ result' \in {"success", "failure"} /\ broken' \in BOOLEAN
  BY DEF TypeOK, Next, vars, MapStep, Open, MapInput, Reserve, StageFails,
    Prepare, PrepareFails, ParseDynamic, Done, ProtectStep, Protect, ProtectFails, Protected,
    RestoreFails, Restored, RelocateStep, Relocate, RelocateFails, MakeWritable, MakeWritableFails,
    AllWritable, Apply, ApplyFails, Applied, Unmap
<1>5. descriptor' \in BOOLEAN /\ file_mapping' \in BOOLEAN /\ mapping' \in BOOLEAN
  BY DEF TypeOK, Next, vars, MapStep, Open, MapInput, Reserve, StageFails,
    Prepare, PrepareFails, ParseDynamic, Done, ProtectStep, Protect, ProtectFails, Protected,
    RestoreFails, Restored, RelocateStep, Relocate, RelocateFails, MakeWritable, MakeWritableFails,
    AllWritable, Apply, ApplyFails, Applied, Unmap
<1>6. relocated' \subseteq Page
  BY DEF TypeOK, Next, vars, MapStep, Open, MapInput, Reserve, StageFails,
    Prepare, PrepareFails, ParseDynamic, Done, ProtectStep, Protect, ProtectFails, Protected,
    RestoreFails, Restored, RelocateStep, Relocate, RelocateFails, MakeWritable, MakeWritableFails,
    AllWritable, Apply, ApplyFails, Applied, Unmap
<1> QED BY <1>1, <1>2, <1>3, <1>4, <1>5, <1>6 DEF TypeOK

LEMMA HeldStep == TypeOK /\ HeldInv /\ [Next]_vars => HeldInv'
<1> SUFFICES ASSUME TypeOK, HeldInv, [Next]_vars PROVE HeldInv'
  OBVIOUS
<1> USE DEF HeldInv, NothingLeft
<1>1. CASE MapStep
  BY <1>1 DEF MapStep, Open, MapInput, Reserve, StageFails, Prepare, PrepareFails, ParseDynamic,
              Done, TypeOK
<1>2. CASE ProtectStep
  BY <1>2 DEF ProtectStep, Protect, ProtectFails, Protected, RestoreFails, Restored
<1>3. CASE RelocateStep
  BY <1>3 DEF RelocateStep, Relocate, RelocateFails, MakeWritable, MakeWritableFails, AllWritable,
              Apply, ApplyFails, Applied
<1>4. CASE Unmap
  BY <1>4 DEF Unmap
<1>5. CASE UNCHANGED vars
  BY <1>5 DEF vars
<1> QED BY <1>1, <1>2, <1>3, <1>4, <1>5 DEF Next
-----------------------------------------------------------------------------
(* The loops over the segments, one segment further.                       *)

\* A page is in a segment before k + 1 if it is in one before k or in k.
LEMMA CoveredNext ==
  ASSUME NEW k \in Segment, NEW p
  PROVE  /\ Covered(p, 1 .. k) <=> Covered(p, 1 .. k - 1) \/ p \in Pages(k)
         /\ Covered(p, 1 .. k) => Covered(p, Segment)
BY DEF Covered

LEMMA OutsideNext ==
  ASSUME Outside, NEW k \in Segment, NEW flags, Mprotect(Pages(k), flags), segment' = segment,
         protection \in [Page -> SUBSET {"R", "W", "X"}]
  PROVE  Outside'
BY DEF Outside, Mprotect, Covered

LEMMA WritableNext ==
  ASSUME NEW k \in Segment, WritableTo(k), Mprotect(Pages(k), RW), segment' = segment,
         protection \in [Page -> SUBSET {"R", "W", "X"}]
  PROVE  \A p \in Page : Covered(p, 1 .. k) => protection'[p] = RW
BY CoveredNext DEF WritableTo, Mprotect
LEMMA ProtectedNext ==
  ASSUME NEW k \in Segment, ProtectedTo(k), Mprotect(Pages(k), segment[k].flags), segment' = segment,
         protection \in [Page -> SUBSET {"R", "W", "X"}]
  PROVE  \A p \in Page : Covered(p, 1 .. k) =>
           \E s \in 1 .. k :
             /\ p \in Pages(s) /\ \A t \in s + 1 .. k : p \notin Pages(t)
             /\ protection'[p] = segment[s].flags
<1> SUFFICES ASSUME NEW p \in Page, Covered(p, 1 .. k)
             PROVE  \E s \in 1 .. k :
                      /\ p \in Pages(s) /\ \A t \in s + 1 .. k : p \notin Pages(t)
                      /\ protection'[p] = segment[s].flags
  OBVIOUS
<1>1. CASE p \in Pages(k)
  <2>1. protection'[p] = segment[k].flags
    BY <1>1 DEF Mprotect
  <2>2. k \in 1 .. k /\ k + 1 .. k = {}
    OBVIOUS
  <2> QED BY <1>1, <2>1, <2>2
<1>2. CASE p \notin Pages(k)
  <2>1. PICK s \in 1 .. k - 1 :
          /\ p \in Pages(s) /\ \A t \in s + 1 .. k - 1 : p \notin Pages(t)
          /\ protection[p] = segment[s].flags
    BY <1>2, CoveredNext DEF ProtectedTo
  <2>2. protection'[p] = segment[s].flags
    BY <1>2, <2>1 DEF Mprotect
  <2>3. \A t \in s + 1 .. k : t = k \/ t \in s + 1 .. k - 1
    BY <2>1
  <2>4. s \in 1 .. k
    BY <2>1
  <2> QED BY <1>2, <2>1, <2>2, <2>3, <2>4
<1> QED BY <1>1, <1>2

\* All segments done, each page has what it is to have.
LEMMA ProtectedAll ==
  ASSUME Outside, ProtectedTo(SegmentCount + 1)
  PROVE  \A p \in Page : Granted(p)
<1>1. SegmentCount + 1 - 1 = SegmentCount
  OBVIOUS
<1> QED BY <1>1 DEF Outside, ProtectedTo, Covered, Granted

\* None done yet: there is nothing to show.
LEMMA NoneDone == WritableTo(1) /\ ProtectedTo(1)
BY DEF WritableTo, ProtectedTo, Covered
-----------------------------------------------------------------------------
LEMMA RightsStep == TypeOK /\ HeldInv /\ RightsInv /\ [Next]_vars => RightsInv'
<1> SUFFICES ASSUME TypeOK, HeldInv, RightsInv, [Next]_vars PROVE RightsInv'
  OBVIOUS
<1>1. /\ segment' = segment
      /\ protection \in [Page -> SUBSET {"R", "W", "X"}]
      /\ index \in 1 .. SegmentCount + 1
  BY SegmentStays DEF TypeOK
<1> DEFINE Loop == {"prepare", "writable", "protect", "restore"}
<1>2. ASSUME UNCHANGED protection
      PROVE  /\ Outside' <=> Outside
             /\ \A k : (WritableTo(k)' <=> WritableTo(k)) /\ (ProtectedTo(k)' <=> ProtectedTo(k))
             /\ \A p : Granted(p)' <=> Granted(p)
  BY <1>1, <1>2 DEF Outside, WritableTo, ProtectedTo, Covered, Granted
<1>3. ASSUME pc' \notin Loop \cup {"apply"}, ~Settled' PROVE RightsInv'
  BY <1>3 DEF RightsInv
<1>4. ASSUME pc' \notin Loop, UNCHANGED protection, Settled' => Settled, pc' # "apply"
      PROVE  RightsInv'
  BY <1>2, <1>4 DEF RightsInv
<1>5. ASSUME index \in Segment, NEW flags, Mprotect(Pages(index), flags), Outside, index' = index + 1
      PROVE  Outside' /\ index' - 1 = index
  BY <1>1, <1>5, OutsideNext
<1>6. CASE Open \/ MapInput \/ StageFails \/ PrepareFails \/ ProtectFails \/ RestoreFails
           \/ Done \/ RelocateFails \/ MakeWritableFails \/ Unmap \/ UNCHANGED vars
           \/ (\E p \in Page : Apply(p))
  <2>1. CASE Open \/ MapInput \/ StageFails \/ PrepareFails \/ ProtectFails \/ RestoreFails
             \/ MakeWritableFails \/ Unmap
    <3>1. pc' \notin Loop \cup {"apply"} /\ ~Settled'
      BY <2>1 DEF Open, MapInput, StageFails, PrepareFails, ProtectFails, RestoreFails,
                  MakeWritableFails, Unmap, Settled, HeldInv
    <3> QED BY <1>3, <3>1
  <2>2. CASE Done \/ RelocateFails
    <3>1. CASE pc = "done" /\ result # "success"
      BY <1>3, <2>2, <3>1 DEF Done, RelocateFails, Settled
    <3>2. CASE pc = "mapped" \/ result = "success"
      BY <1>4, <2>2, <3>2 DEF Done, RelocateFails, Settled
    <3> QED BY <2>2, <3>1, <3>2 DEF Done, RelocateFails
  <2>3. CASE UNCHANGED <<pc, index, result, protection, broken>>
    BY <1>2, <2>3 DEF RightsInv, Settled
  <2> QED BY <1>6, <2>1, <2>2, <2>3 DEF vars, Apply
<1>7. CASE Reserve \/ Relocate
  <2>1. pc' \in {"prepare", "writable"} /\ index' = 1 /\ UNCHANGED protection /\ Outside
    BY <1>7 DEF Reserve, Relocate, RightsInv, Settled, HeldInv, Outside, Granted, Covered
  <2> QED BY <1>2, <2>1, NoneDone DEF RightsInv, Settled
<1>8. CASE Prepare \/ MakeWritable
  <2>1. /\ pc' = pc /\ pc \in {"prepare", "writable"} /\ index' = index + 1 /\ index \in Segment
        /\ Mprotect(Pages(index), RW)
    BY <1>1, <1>8 DEF Prepare, MakeWritable
  <2>2. Outside /\ WritableTo(index)
    BY <2>1 DEF RightsInv
  <2>3. Outside' /\ index' - 1 = index
    BY <1>5, <2>1, <2>2
  <2>4. WritableTo(index)'
    BY <1>1, <2>1, <2>2, <2>3, WritableNext DEF WritableTo, Covered
  <2> QED BY <2>1, <2>3, <2>4 DEF RightsInv, Settled
<1>9. CASE ParseDynamic \/ ApplyFails \/ Applied
  <2>1. pc' \in {"protect", "restore"} /\ UNCHANGED protection /\ Outside /\ index' = 1
    BY <1>9 DEF ParseDynamic, ApplyFails, Applied, RightsInv
  <2> QED BY <1>2, <2>1, NoneDone DEF RightsInv, Settled
<1>10. CASE Protect
  <2>1. /\ pc' = pc /\ pc \in {"protect", "restore"} /\ index' = index + 1 /\ index \in Segment
        /\ Mprotect(Pages(index), segment[index].flags)
    BY <1>1, <1>10 DEF Protect
  <2>2. Outside /\ ProtectedTo(index)
    BY <2>1 DEF RightsInv
  <2>3. Outside' /\ index' - 1 = index
    BY <1>5, <2>1, <2>2
  <2>4. \A p \in Page : Covered(p, 1 .. index) =>
          \E s \in 1 .. index :
            /\ p \in Pages(s) /\ \A t \in s + 1 .. index : p \notin Pages(t)
            /\ protection'[p] = segment[s].flags
    BY <1>1, <2>1, <2>2, ProtectedNext
  <2>5. ProtectedTo(index)'
    BY <1>1, <2>3, <2>4 DEF ProtectedTo, Covered
  <2> QED BY <2>1, <2>3, <2>5 DEF RightsInv, Settled
<1>11. CASE Protected \/ Restored
  <2>1. /\ pc \in {"protect", "restore"} /\ index = SegmentCount + 1
        /\ pc' \notin Loop \cup {"apply"} /\ UNCHANGED protection
    BY <1>1, <1>11 DEF Protected, Restored
  <2>2. \A p \in Page : Granted(p)
    BY <2>1, ProtectedAll DEF RightsInv
  <2> QED BY <1>2, <2>1, <2>2 DEF RightsInv
<1>12. CASE AllWritable
  <2>1. /\ pc = "writable" /\ index = SegmentCount + 1 /\ pc' = "apply" /\ index' = 1
        /\ UNCHANGED protection
    BY <1>1, <1>12 DEF AllWritable
  <2>2. Outside /\ WritableTo(SegmentCount + 1)
    BY <2>1 DEF RightsInv
  <2> QED BY <1>2, <2>1, <2>2 DEF RightsInv, Settled
<1> QED BY <1>6, <1>7, <1>8, <1>9, <1>10, <1>11, <1>12 DEF Next, MapStep, ProtectStep, RelocateStep

THEOREM Invariance == Spec => []IInv
<1>1. IInv /\ [Next]_vars => IInv'
  BY TypeStep, HeldStep, RightsStep DEF IInv
<1> QED BY InitInv, <1>1, PTL DEF Spec

-----------------------------------------------------------------------------
\* TypeOK: every variable keeps its type, and no loop runs past the headers.
THEOREM TypeCorrect == Spec => []TypeOK
<1>1. IInv => TypeOK
  BY DEF IInv
<1> QED BY Invariance, <1>1, PTL

(***************************************************************************)
(* NothingLeft: the label done of elf32_map gives back what its failed     *)
(* stage had taken, and elf32_unmap the image.                             *)
(***************************************************************************)
THEOREM MapCleansUp == Spec => []NothingLeft
<1>1. IInv => NothingLeft
  BY DEF IInv, HeldInv
<1> QED BY Invariance, <1>1, PTL

(***************************************************************************)
(* RightsExact: protect_segments gives every page what its last segment    *)
(* asks for, after elf32_map and after elf32_relocate alike.               *)
(***************************************************************************)
THEOREM RightsRestored == Spec => []RightsExact
<1>1. IInv => RightsExact
  BY DEF IInv, RightsInv, Settled, RightsExact
<1> QED BY Invariance, <1>1, PTL

\* WritesAllowed: records are applied only when set_segments_writable is done.
THEOREM RelocationWrites == Spec => WritesAllowed
<1>1. IInv /\ [Next]_vars => [\A p \in relocated' \ relocated : "W" \in protection[p]]_vars
  <2> SUFFICES ASSUME IInv, Next, NEW p \in relocated' \ relocated
               PROVE  "W" \in protection[p]
    OBVIOUS
  <2>1. p \in Page /\ Apply(p)
    BY DEF Next, MapStep, Open, MapInput, Reserve, StageFails, Prepare, PrepareFails, ParseDynamic,
       Done, ProtectStep, Protect, ProtectFails, Protected, RestoreFails, Restored, RelocateStep,
       Relocate, RelocateFails, MakeWritable, MakeWritableFails, AllWritable, Apply, ApplyFails,
       Applied, Unmap
  <2>2. Covered(p, 1 .. SegmentCount + 1 - 1)
    BY <2>1 DEF Apply, Covered
  <2> QED BY <2>1, <2>2 DEF IInv, RightsInv, WritableTo, Apply
<1> QED BY Invariance, <1>1, PTL DEF Spec, WritesAllowed
=============================================================================
