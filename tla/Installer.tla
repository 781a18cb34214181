------------------------------ MODULE Installer ------------------------------
(***************************************************************************)
(* The first start of the port: setup.sh takes the five guest libraries    *)
(* out of the user's APK, and the launcher starts the runtime when setup   *)
(* exits with 0.  The process can be killed between any two steps, a       *)
(* command can fail, and the user starts the launcher again.               *)
(*                                                                         *)
(* A kill loses nothing that was written; a power cut that loses writes    *)
(* is not modelled.                                                        *)
(***************************************************************************)
EXTENDS Naturals, Sequences, SequencesExt

CONSTANTS
  Libraries,  \* the libraries, in the order setup extracts them
  MaxFaults   \* bound: kills, failing commands and deletions by the user

ASSUME InstallerConstants ==
  Libraries \in Seq(STRING) /\ Libraries # <<>> /\ MaxFaults \in Nat

Library == ToSet(Libraries)
App == Last(Libraries)  \* libapp.so
Nothing == [l \in Library |-> "none"]

VARIABLES
  at,        \* the next step of setup, "idle" or "launch"
  data,      \* the APK and the OBB are in gamedata and their hashes match
  dirs,      \* which of TMP, LIBDIR and LIBDIR/android-libs.new exist
  tmp, libs, \* the files of TMP and LIBDIR: "none", "empty", "whole"
  ready,     \* the file READY exists
  n,         \* the loop over the libraries
  gave_up,   \* history: the last rm left something of LIBDIR behind
  faults

disk == <<dirs, tmp, libs, ready>>
installation == <<at, data, disk, n, gave_up, faults>>

Goto(from, to) == at = from /\ at' = to
Fault == faults < MaxFaults /\ faults' = faults + 1
\* The command fails and setup exits with 1.
Fails(from) == Goto(from, "idle") /\ Fault /\ UNCHANGED <<data, disk, n, gave_up>>

-----------------------------------------------------------------------------
(* The user.                                                               *)

Start == Goto("idle", "check") /\ UNCHANGED <<data, disk, n, gave_up, faults>>

CopyData == data' = TRUE /\ ~data /\ UNCHANGED <<at, disk, n, gave_up, faults>>

\* libapp.so is deleted or emptied, and READY stays.
LoseApp ==
  /\ at = "idle" /\ libs[App] = "whole"
  /\ libs' = [libs EXCEPT ![App] = "none"]
  /\ Fault
  /\ UNCHANGED <<at, data, dirs, tmp, ready, n, gave_up>>

\* Of setup or of the runtime, at any time.
Kill == at # "idle" /\ at' = "idle" /\ Fault /\ UNCHANGED <<data, disk, n, gave_up>>

-----------------------------------------------------------------------------
(* setup.sh.                                                               *)

\* Mutant: the marker alone is believed.
CheckMarker ==
  /\ at = "check"
  /\ at' = IF ready THEN "launch" ELSE "find"
  /\ UNCHANGED <<data, disk, n, gave_up, faults>>

Check ==
  /\ at = "check"
  /\ at' = IF ready /\ libs[App] = "whole" THEN "launch" ELSE "find"
  /\ UNCHANGED <<data, disk, n, gave_up, faults>>

\* The hashes of the APK and the OBB.
Find ==
  /\ at = "find"
  /\ at' = IF data THEN "clean" ELSE "idle"
  /\ UNCHANGED <<data, disk, n, gave_up, faults>>

\* rm -rf TMP; what rm leaves, the extraction overwrites.
Clean ==
  /\ Goto("clean", "make")
  /\ tmp' = Nothing /\ dirs' = dirs \ {"tmp"}
  /\ UNCHANGED <<data, libs, ready, n, gave_up, faults>>

CleanGivesUp == Goto("clean", "make") /\ Fault /\ UNCHANGED <<data, disk, n, gave_up>>

Make ==
  /\ Goto("make", "extract")
  /\ dirs' = dirs \cup {"tmp"}
  /\ n' = 1
  /\ UNCHANGED <<data, tmp, libs, ready, gave_up, faults>>

\* The shell empties the file, then unzip writes it.
OpenFile ==
  /\ n <= Len(Libraries)
  /\ Goto("extract", "unzip")
  /\ tmp' = [tmp EXCEPT ![Libraries[n]] = "empty"]
  /\ UNCHANGED <<data, dirs, libs, ready, n, gave_up, faults>>

Unzip ==
  /\ Goto("unzip", "extract")
  /\ tmp' = [tmp EXCEPT ![Libraries[n]] = "whole"]
  /\ n' = n + 1
  /\ UNCHANGED <<data, dirs, libs, ready, gave_up, faults>>

Extracted ==
  /\ n > Len(Libraries)
  /\ Goto("extract", "remove")
  /\ UNCHANGED <<data, disk, n, gave_up, faults>>

\* rm -rf LIBDIR, a file at a time in any order; a kill leaves the rest.
RemoveFile ==
  /\ at = "remove"
  /\ \/ \E l \in Library : /\ libs[l] # "none"
                           /\ libs' = [libs EXCEPT ![l] = "none"]
                           /\ UNCHANGED dirs
     \/ "nested" \in dirs /\ dirs' = dirs \ {"nested"} /\ UNCHANGED libs
  /\ UNCHANGED <<at, data, tmp, ready, n, gave_up, faults>>

\* Mutant: rm without -r, which leaves a directory in LIBDIR.
RemovedFiles ==
  /\ libs = Nothing
  /\ Goto("remove", "move")
  /\ dirs' = IF "nested" \in dirs THEN dirs ELSE dirs \ {"libs"}
  /\ gave_up' = FALSE
  /\ UNCHANGED <<data, tmp, libs, ready, n, faults>>

Removed ==
  /\ libs = Nothing /\ "nested" \notin dirs
  /\ Goto("remove", "move")
  /\ dirs' = dirs \ {"libs"}
  /\ gave_up' = FALSE
  /\ UNCHANGED <<data, tmp, libs, ready, n, faults>>

\* rm's exit status is not looked at.
RemoveGivesUp ==
  /\ "libs" \in dirs
  /\ Goto("remove", "move")
  /\ gave_up' = TRUE
  /\ Fault
  /\ UNCHANGED <<data, disk, n>>

\* mv TMP LIBDIR; a LIBDIR that still exists takes TMP into itself.
Move ==
  /\ Goto("move", "mark")
  /\ "nested" \notin dirs
  /\ IF "libs" \in dirs
       THEN dirs' = (dirs \ {"tmp"}) \cup {"nested"} /\ UNCHANGED libs
       ELSE dirs' = (dirs \ {"tmp"}) \cup {"libs"} /\ libs' = tmp
  /\ tmp' = Nothing
  /\ UNCHANGED <<data, ready, n, gave_up, faults>>

\* LIBDIR/android-libs.new is there already and is not empty.
MoveRefused ==
  /\ "nested" \in dirs
  /\ Goto("move", "idle")
  /\ UNCHANGED <<data, disk, n, gave_up, faults>>

Mark ==
  /\ Goto("mark", "launch")
  /\ ready' = TRUE
  /\ UNCHANGED <<data, dirs, tmp, libs, n, gave_up, faults>>

\* printf's exit status is not looked at.
MarkLost == Goto("mark", "launch") /\ Fault /\ UNCHANGED <<data, disk, n, gave_up>>

Setup ==
  \/ Check \/ Find \/ Clean \/ CleanGivesUp \/ Make \/ OpenFile \/ Unzip \/ Extracted
  \/ RemoveFile \/ Removed \/ RemoveGivesUp \/ Move \/ MoveRefused \/ Mark \/ MarkLost
  \/ \E command \in {"make", "unzip", "move"} : Fails(command)

\* The launcher: the runtime runs on LIBDIR and ends.
Runtime == Goto("launch", "idle") /\ UNCHANGED <<data, disk, n, gave_up, faults>>

-----------------------------------------------------------------------------
InstallInit ==
  /\ at = "idle" /\ data = FALSE
  /\ dirs = {} /\ tmp = Nothing /\ libs = Nothing /\ ready = FALSE
  /\ n = 1 /\ gave_up = FALSE /\ faults = 0

InstallNext == Start \/ CopyData \/ LoseApp \/ Kill \/ Setup \/ Runtime

InstallSpec == InstallInit /\ [][InstallNext]_installation

\* A started setup goes on unless it is killed, and the user tries again.
FairInstallSpec == InstallSpec /\ WF_installation(Start) /\ WF_installation(Setup \/ Runtime)

-----------------------------------------------------------------------------
\* All five libraries, each as it was extracted.
Whole(files) == \A l \in Library : files[l] = "whole"

(***************************************************************************)
(* The runtime is started on all five libraries, each as it was extracted, *)
(* whenever setup or the runtime was killed, whatever command failed and   *)
(* even when a marker of an earlier installation lies there: unless the    *)
(* last rm left a part of LIBDIR behind, which setup does not look at.     *)
(***************************************************************************)
LaunchedWhole == at = "launch" => gave_up \/ Whole(libs)

(***************************************************************************)
(* What line 12 takes for an installation and is none: rm failed after it  *)
(* had removed another library than libapp.so, mv put the new directory    *)
(* inside the old one, and the marker says that all is well.               *)
(***************************************************************************)
Sealed == gave_up /\ ready /\ libs[App] = "whole" /\ ~Whole(libs)

(***************************************************************************)
(* No interruption leaves files that a later start cannot deal with: once  *)
(* the user's data is there, a user who tries again comes to the game with *)
(* all five libraries, again and again.  The one exception is an           *)
(* installation that a failed rm has sealed: setup then leaves it as it is *)
(* and starts the runtime on what there is, until the user deletes         *)
(* libapp.so.                                                              *)
(***************************************************************************)
RetryHeals == <>data => []<>(at = "launch" /\ Whole(libs)) \/ <>[]Sealed
=============================================================================
