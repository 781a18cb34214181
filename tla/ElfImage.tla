------------------------------- MODULE ElfImage -------------------------------
(***************************************************************************)
(* One guest library in elf32_loader.c: mapped by elf32_map, written by    *)
(* elf32_relocate, given up by elf32_unmap, and what mprotect makes of its *)
(* pages in between.  Which word gets which value is Linker's subject.     *)
(***************************************************************************)
EXTENDS Naturals

CONSTANTS
  PageCount,     \* host pages from virtual_minimum to virtual_maximum
  SegmentCount,  \* PT_LOAD headers with p_memsz # 0
  Protections    \* what they ask for in p_flags

Page == 1 .. PageCount
Segment == 1 .. SegmentCount
RW == {"R", "W"}

\* The headers and tables the loader reads lie in the image: all segments of
\* Android's libraries can be read.
ASSUME ElfImageConstants ==
  /\ PageCount \in Nat \ {0} /\ SegmentCount \in Nat \ {0}
  /\ Protections \subseteq {r \in SUBSET {"R", "W", "X"} : "R" \in r}

VARIABLES
  segment,       \* program_headers: first and last page, and flags
  pc,
  index,         \* the segment a loop has come to
  result,        \* what the running function will return
  descriptor, file_mapping, mapping,   \* TRUE while open or mapped
  protection,    \* protection[p] of the pages of the mapping
  relocated,     \* pages relocation has written
  broken         \* relocation's own mprotect has failed

file == <<descriptor, file_mapping>>
vars == <<segment, pc, index, result, file, mapping, protection, relocated, broken>>

-----------------------------------------------------------------------------
\* Segments end and begin within pages, so that two may share one.
Pages(s) == segment[s].first .. segment[s].last

Mprotect(P, flags) ==
  protection' = [p \in Page |-> IF p \in P THEN flags ELSE protection[p]]

\* A failing mprotect may have changed part of the range.
MprotectFails(flags) ==
  \E P \in SUBSET Pages(index) : Mprotect(P, flags)

InLoop(loop) == pc = loop /\ index <= SegmentCount
LoopEnds(loop, next) == pc = loop /\ index > SegmentCount /\ pc' = next /\ index' = 1

-----------------------------------------------------------------------------
(* elf32_map.  Every failure goes to done.                                 *)

Open ==
  /\ pc = "open" /\ pc' = "input"
  /\ descriptor' = TRUE
  /\ UNCHANGED <<segment, index, result, file_mapping, mapping, protection, relocated, broken>>

MapInput ==
  /\ pc = "input" /\ pc' = "reserve"
  /\ file_mapping' = TRUE
  /\ UNCHANGED <<segment, index, result, descriptor, mapping, protection, relocated, broken>>

\* The headers are in order and the anonymous mapping is made, PROT_NONE.
Reserve ==
  /\ pc = "reserve" /\ pc' = "prepare"
  /\ index' = 1
  /\ mapping' = TRUE
  /\ UNCHANGED <<segment, result, file, protection, relocated, broken>>

\* open, fstat or mmap fails, or a header, table or bound is not as it must be.
StageFails ==
  /\ pc \in {"open", "input", "reserve"} \/ (pc = "prepare" /\ index > SegmentCount)
  /\ pc' = "done"
  /\ UNCHANGED <<segment, index, result, file, mapping, protection, relocated, broken>>

\* A segment is made writable and its bytes are copied.
Prepare ==
  /\ InLoop("prepare")
  /\ Mprotect(Pages(index), RW)
  /\ index' = index + 1
  /\ UNCHANGED <<segment, pc, result, file, mapping, relocated, broken>>

PrepareFails ==
  /\ InLoop("prepare")
  /\ MprotectFails(RW)
  /\ pc' = "done"
  /\ UNCHANGED <<segment, index, result, file, mapping, relocated, broken>>

\* The mapped program headers and PT_DYNAMIC are in order.
ParseDynamic ==
  /\ LoopEnds("prepare", "protect")
  /\ UNCHANGED <<segment, result, file, mapping, protection, relocated, broken>>

\* Mutant: the anonymous mapping of a module that failed stays.
DoneKeepsMapping ==
  /\ pc = "done" /\ pc' = IF result = "success" THEN "mapped" ELSE "gone"
  /\ descriptor' = FALSE /\ file_mapping' = FALSE
  /\ UNCHANGED <<segment, index, result, mapping, protection, relocated, broken>>

NoPages == [p \in Page |-> {}]

\* The label done of elf32_map.
Done ==
  /\ pc = "done"
  /\ descriptor' = FALSE /\ file_mapping' = FALSE
  /\ IF result = "success"
     THEN pc' = "mapped" /\ UNCHANGED <<mapping, protection>>
     ELSE pc' = "gone" /\ mapping' = FALSE /\ protection' = NoPages
  /\ UNCHANGED <<segment, index, result, relocated, broken>>

-----------------------------------------------------------------------------
(* protect_segments, called by elf32_map ("protect") and, whether records  *)
(* failed or not, by elf32_relocate ("restore").                           *)

\* Mutant: segments that are written anyway are not visited.
ProtectCodeOnly ==
  /\ InLoop("protect") \/ InLoop("restore")
  /\ IF "X" \in segment[index].flags
     THEN Mprotect(Pages(index), segment[index].flags)
     ELSE UNCHANGED protection
  /\ index' = index + 1
  /\ UNCHANGED <<segment, pc, result, file, mapping, relocated, broken>>

Protect ==
  /\ InLoop("protect") \/ InLoop("restore")
  /\ Mprotect(Pages(index), segment[index].flags)
  /\ index' = index + 1
  /\ UNCHANGED <<segment, pc, result, file, mapping, relocated, broken>>

ProtectFails ==
  /\ InLoop("protect")
  /\ MprotectFails(segment[index].flags)
  /\ pc' = "done"
  /\ UNCHANGED <<segment, index, result, file, mapping, relocated, broken>>

Protected ==
  /\ LoopEnds("protect", "done")
  /\ result' = "success"
  /\ UNCHANGED <<segment, file, mapping, protection, relocated, broken>>

RestoreFails ==
  /\ InLoop("restore")
  /\ MprotectFails(segment[index].flags)
  /\ pc' = "refused"
  /\ broken' = TRUE
  /\ UNCHANGED <<segment, index, result, file, mapping, relocated>>

Restored ==
  /\ LoopEnds("restore", IF result = "success" THEN "bound" ELSE "refused")
  /\ UNCHANGED <<segment, result, file, mapping, protection, relocated, broken>>

-----------------------------------------------------------------------------
(* elf32_relocate.                                                         *)

Relocate ==
  /\ pc = "mapped" /\ pc' = "writable"
  /\ index' = 1
  /\ result' = "failure"
  /\ UNCHANGED <<segment, file, mapping, protection, relocated, broken>>

\* parse_relocation_info fails: nothing was touched.
RelocateFails ==
  /\ pc = "mapped" /\ pc' = "refused"
  /\ UNCHANGED <<segment, index, result, file, mapping, protection, relocated, broken>>

\* Mutant: executable segments are left alone.
MakeWritableDataOnly ==
  /\ InLoop("writable")
  /\ IF "X" \in segment[index].flags
     THEN UNCHANGED protection
     ELSE Mprotect(Pages(index), RW)
  /\ index' = index + 1
  /\ UNCHANGED <<segment, pc, result, file, mapping, relocated, broken>>

\* set_segments_writable.
MakeWritable ==
  /\ InLoop("writable")
  /\ Mprotect(Pages(index), RW)
  /\ index' = index + 1
  /\ UNCHANGED <<segment, pc, result, file, mapping, relocated, broken>>

\* It fails, and elf32_relocate returns without protect_segments.
MakeWritableFails ==
  /\ InLoop("writable")
  /\ MprotectFails(RW)
  /\ pc' = "refused"
  /\ broken' = TRUE
  /\ UNCHANGED <<segment, index, result, file, mapping, relocated>>

AllWritable ==
  /\ LoopEnds("writable", "apply")
  /\ UNCHANGED <<segment, result, file, mapping, protection, relocated, broken>>

\* A record's word is written.  Its place is in a segment: range_in_image
\* looks only at the mapping, the linker that made the library at the rest.
Apply(p) ==
  /\ pc = "apply"
  /\ \E s \in Segment : p \in Pages(s)
  /\ relocated' = relocated \cup {p}
  /\ UNCHANGED <<segment, pc, index, result, file, mapping, protection, broken>>

\* A record is bad: the rest is left, and the segments are protected again.
ApplyFails ==
  /\ pc = "apply" /\ pc' = "restore"
  /\ UNCHANGED <<segment, index, result, file, mapping, protection, relocated, broken>>

Applied ==
  /\ pc = "apply" /\ pc' = "restore"
  /\ result' = "success"
  /\ UNCHANGED <<segment, index, file, mapping, protection, relocated, broken>>

-----------------------------------------------------------------------------
\* elf32_unmap, called by main between two of its stages.
Unmap ==
  /\ pc \in {"mapped", "refused", "bound"}
  /\ pc' = "gone"
  /\ mapping' = FALSE
  /\ protection' = NoPages
  /\ UNCHANGED <<segment, index, result, file, relocated, broken>>

Init ==
  /\ segment \in [Segment -> {h \in [first : Page, last : Page, flags : Protections] :
                                h.first <= h.last}]
  /\ \E s \in Segment : segment[s].first = 1
  /\ \E s \in Segment : segment[s].last = PageCount
  /\ pc = "open"
  /\ index = 1
  /\ result = "failure"
  /\ descriptor = FALSE /\ file_mapping = FALSE /\ mapping = FALSE
  /\ protection = NoPages
  /\ relocated = {}
  /\ broken = FALSE

MapStep ==
  \/ Open \/ MapInput \/ Reserve \/ StageFails
  \/ Prepare \/ PrepareFails \/ ParseDynamic \/ Done

ProtectStep == Protect \/ ProtectFails \/ Protected \/ RestoreFails \/ Restored

RelocateStep ==
  \/ Relocate \/ RelocateFails
  \/ MakeWritable \/ MakeWritableFails \/ AllWritable
  \/ \E p \in Page : Apply(p)
  \/ ApplyFails \/ Applied

Next == MapStep \/ ProtectStep \/ RelocateStep \/ Unmap

Spec == Init /\ [][Next]_vars

-----------------------------------------------------------------------------
Returned == {"mapped", "bound", "refused", "gone"}

\* Every variable keeps its type.
TypeOK ==
  /\ segment \in [Segment -> [first : Page, last : Page, flags : Protections]]
  /\ pc \in {"open", "input", "reserve", "prepare", "protect", "done",
             "writable", "apply", "restore"} \cup Returned
  /\ index \in 1 .. SegmentCount + 1
  /\ result \in {"success", "failure"}
  /\ descriptor \in BOOLEAN /\ file_mapping \in BOOLEAN /\ mapping \in BOOLEAN
  /\ protection \in [Page -> SUBSET {"R", "W", "X"}]
  /\ relocated \subseteq Page
  /\ broken \in BOOLEAN

(***************************************************************************)
(* Wherever elf32_map fails, it leaves no descriptor, no view of the file  *)
(* and no reserved memory; where it succeeds, only the image.              *)
(***************************************************************************)
NothingLeft ==
  pc \in Returned =>
    /\ ~descriptor /\ ~file_mapping
    /\ mapping <=> pc # "gone"
    /\ ~mapping => protection = NoPages

\* The page has what the last of its segments asks for, and none outside.
Granted(p) ==
  \/ \E s \in Segment :
       /\ p \in Pages(s) /\ \A t \in s + 1 .. SegmentCount : p \notin Pages(t)
       /\ protection[p] = segment[s].flags
  \/ (\A s \in Segment : p \notin Pages(s)) /\ protection[p] = {}

(***************************************************************************)
(* When elf32_map or elf32_relocate has returned, also with a bad record,  *)
(* and no mprotect of relocation has failed, every page has exactly the    *)
(* rights that the last of its segments asks for: text is executable and   *)
(* not writable, but where a later segment shares its page.                *)
(***************************************************************************)
RightsExact ==
  pc \in {"mapped", "bound", "refused"} /\ ~broken => \A p \in Page : Granted(p)

\* No word is relocated, in text either, while its page cannot be written.
WritesAllowed == [][\A p \in relocated' \ relocated : "W" \in protection[p]]_vars
=============================================================================
