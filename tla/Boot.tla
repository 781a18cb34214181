-------------------------------- MODULE Boot --------------------------------
(***************************************************************************)
(* The life of the process (main.c): map the guest modules, take the       *)
(* provider census, try the host's devices, relocate, patch, and, as far   *)
(* as the environment variables ask, run constructors, start JNI and play; *)
(* then give back what was taken.  Every stage can fail, and all failures  *)
(* meet at the label done.                                                 *)
(*                                                                         *)
(* Modules are numbered in the order of module_names.  Each has Functions  *)
(* initialisers and as many finalisers; what they do is the guest's.       *)
(***************************************************************************)
EXTENDS Naturals

CONSTANTS
  ModuleCount,  \* MODULE_COUNT
  Functions     \* DT_INIT or DT_FINI and the entries of the array, per module

ASSUME BootConstants == ModuleCount \in Nat \ {0} /\ Functions \in Nat \ {0}

Module == 1 .. ModuleCount

VARIABLES
  pc,
  index,                    \* main's loop index, as the modules completed
  mapped,                   \* main's count of modules to unmap
  image,                    \* "none", "mapped", or "bound" when relocated
  hosts,                    \* the host libraries dlopened for relocation
  unresolved,               \* some relocation has no provider
  patched,
  run_constructors, run_jni, run_game,  \* NFSMW_RUN_... are set
  constructors_started, constructors_completed,
  called,                   \* initialisers of each module that were called
  finalized,                \* finalisers of each module that were called
  jni_started, game_returned,  \* history: nfsmw_jni_startup, nfsmw_jni_run returned 0
  obb, platform,            \* the OBB index is open, the SDL runtime started
  destructors_run,          \* nfsmw_compat_finalize has returned
  result,
  status                    \* the exit status, when pc is "exited"

env == <<run_constructors, run_jni, run_game>>
loaded == <<mapped, image, hosts, unresolved, patched>>
progress == <<constructors_started, constructors_completed, called, finalized, destructors_run,
              jni_started, game_returned>>
devices == <<obb, platform>>
vars == <<pc, index, loaded, env, progress, devices, result, status>>

Goto(from, to) == pc = from /\ pc' = to

\* goto done, from any stage.
Fails(from) == Goto(from, "done") /\ UNCHANGED <<index, loaded, env, progress, devices, result, status>>

-----------------------------------------------------------------------------
(* Mapping, census, preflights.                                            *)

Map ==
  /\ pc = "map" /\ index < ModuleCount
  /\ pc' = "describe"
  /\ image' = [image EXCEPT ![index + 1] = "mapped"]
  /\ mapped' = mapped + 1
  /\ UNCHANGED <<index, hosts, unresolved, patched, env, progress, devices, result, status>>

\* elf32_map unmaps what it had reserved before it reports the failure.
MapFails == index < ModuleCount /\ Fails("map")

Describe ==
  /\ Goto("describe", "map")
  /\ index' = index + 1
  /\ UNCHANGED <<loaded, env, progress, devices, result, status>>

DescribeFails == Fails("describe")

AllMapped ==
  /\ index = ModuleCount
  /\ Goto("map", "census")
  /\ UNCHANGED <<index, loaded, env, progress, devices, result, status>>

Census == Goto("census", "preflight") /\ UNCHANGED <<index, loaded, env, progress, devices, result, status>>

CensusFails == Fails("census")

\* The probe closes the devices it opens; then the host libraries are opened.
Preflight ==
  /\ Goto("preflight", "relocate")
  /\ index' = 0
  /\ hosts' = "open"
  /\ UNCHANGED <<mapped, image, unresolved, patched, env, progress, devices, result, status>>

PreflightFails == Fails("preflight")

-----------------------------------------------------------------------------
(* nfsmw_relocation_probe, then nfsmw_apply_app_patches.                   *)

Relocate ==
  /\ pc = "relocate" /\ index < ModuleCount
  /\ image' = [image EXCEPT ![index + 1] = "bound"]
  /\ unresolved' \in {unresolved, TRUE}
  /\ index' = index + 1
  /\ UNCHANGED <<pc, mapped, hosts, patched, env, progress, devices, result, status>>

RelocateFails ==
  /\ index < ModuleCount
  /\ Goto("relocate", "done")
  /\ hosts' = "closed"
  /\ UNCHANGED <<index, mapped, image, unresolved, patched, env, progress, devices,
                 result, status>>

RetainHosts ==
  /\ index = ModuleCount
  /\ Goto("relocate", "patch")
  /\ hosts' = "retained"
  /\ UNCHANGED <<index, mapped, image, unresolved, patched, env, progress, devices,
                 result, status>>

Patch ==
  /\ Goto("patch", IF run_constructors THEN "gate" ELSE "passed")
  /\ patched' = TRUE
  /\ UNCHANGED <<index, mapped, image, hosts, unresolved, env, progress, devices,
                 result, status>>

PatchFails == Fails("patch")

-----------------------------------------------------------------------------
(* Constructors (initializer_trace.c), JNI and the game.                   *)

\* Mutant: guest code runs although relocations are unresolved.
GateOpen ==
  /\ Goto("gate", "constructors")
  /\ constructors_started' = TRUE
  /\ index' = 0
  /\ UNCHANGED <<loaded, env, constructors_completed, called, finalized, destructors_run,
                 jni_started, game_returned, devices, result, status>>

Gate ==
  /\ ~unresolved
  /\ Goto("gate", "constructors")
  /\ constructors_started' = TRUE
  /\ index' = 0
  /\ UNCHANGED <<loaded, env, constructors_completed, called, finalized, destructors_run,
                 jni_started, game_returned, devices, result, status>>

\* Relocations are unresolved, or the signal self-test fails.
GateRefuses == Fails("gate")

\* The next initialiser of module index + 1; its address lies in the image.
Construct ==
  /\ pc = "constructors" /\ index < ModuleCount
  /\ LET m == index + 1 IN
       /\ called' = [called EXCEPT ![m] = @ + 1]
       /\ index' = IF called[m] + 1 = Functions THEN m ELSE index
  /\ UNCHANGED <<pc, loaded, env, constructors_started, constructors_completed, finalized,
                 destructors_run, jni_started, game_returned, devices, result, status>>

ConstructFails == index < ModuleCount /\ Fails("constructors")

Constructed ==
  /\ index = ModuleCount
  /\ Goto("constructors", IF run_jni THEN "exports" ELSE "passed")
  /\ constructors_completed' = TRUE
  /\ UNCHANGED <<index, loaded, env, constructors_started, called, finalized,
                 destructors_run, jni_started, game_returned, devices, result, status>>

\* nfsmw_jni_startup: the exports and the OBB index, the SDL runtime, the guest.
OpenObb ==
  /\ Goto("exports", "display")
  /\ obb' = TRUE
  /\ UNCHANGED <<index, loaded, env, progress, platform, result, status>>

OpenObbFails == Fails("exports")

StartPlatform ==
  /\ Goto("display", "jni")
  /\ platform' = TRUE
  /\ UNCHANGED <<index, loaded, env, progress, obb, result, status>>

\* nfsmw_platform_runtime_start stops what it started before it reports.
StartPlatformFails == Fails("display")

JniStarted ==
  /\ Goto("jni", IF run_game THEN "game" ELSE "passed")
  /\ jni_started' = TRUE
  /\ UNCHANGED <<index, loaded, env, constructors_started, constructors_completed, called,
                 finalized, destructors_run, game_returned, devices, result, status>>

\* The bitmap self-test fails, or a JNI_OnLoad answers the wrong version.
JniFails == Fails("jni")

GameFails == Fails("game")

\* Mutant: the game's end leaves the devices open.
GameReturnsOpen ==
  /\ Goto("game", "exited")
  /\ status' = 0
  /\ game_returned' = TRUE
  /\ UNCHANGED <<index, loaded, env, constructors_started, constructors_completed, called,
                 finalized, destructors_run, jni_started, devices, result>>

\* nfsmw_jni_shutdown and _exit(0): the guest is not torn down.
GameReturns ==
  /\ Goto("game", "exited")
  /\ obb' = FALSE /\ platform' = FALSE
  /\ status' = 0
  /\ game_returned' = TRUE
  /\ UNCHANGED <<index, loaded, env, constructors_started, constructors_completed, called,
                 finalized, destructors_run, jni_started, result>>

Passed ==
  /\ Goto("passed", "done")
  /\ result' = 0
  /\ UNCHANGED <<index, loaded, env, progress, devices, status>>

-----------------------------------------------------------------------------
(* The label done, after constructors were started.                        *)

\* Mutant: the destructors are left to the operating system after a failure.
ShutdownSkips ==
  /\ constructors_started
  /\ Goto("done", IF result = 0 THEN "finalize" ELSE "finalizers")
  /\ obb' = FALSE /\ platform' = FALSE
  /\ index' = ModuleCount
  /\ UNCHANGED <<loaded, env, progress, result, status>>

Shutdown ==
  /\ constructors_started
  /\ Goto("done", "finalize")
  /\ obb' = FALSE /\ platform' = FALSE
  /\ index' = ModuleCount
  /\ UNCHANGED <<loaded, env, progress, result, status>>

\* nfsmw_compat_finalize runs every destructor the guest registered.
RunDestructors ==
  /\ Goto("finalize", IF constructors_completed THEN "finalizers" ELSE "exit")
  /\ destructors_run' = TRUE
  /\ UNCHANGED <<index, loaded, env, constructors_started, constructors_completed, called,
                 finalized, jni_started, game_returned, devices, result, status>>

\* The next finaliser of module index: DT_FINI_ARRAY downwards, then DT_FINI.
Finalize ==
  /\ pc = "finalizers" /\ index # 0
  /\ finalized' = [finalized EXCEPT ![index] = @ + 1]
  /\ index' = IF finalized[index] + 1 = Functions THEN index - 1 ELSE index
  /\ UNCHANGED <<pc, loaded, env, constructors_started, constructors_completed, called,
                 destructors_run, jni_started, game_returned, devices, result, status>>

\* Mutant: the failure does not reach the exit status.
FinalizeFailsQuietly ==
  /\ index # 0
  /\ Goto("finalizers", "exit")
  /\ UNCHANGED <<index, loaded, env, progress, devices, result, status>>

FinalizeFails ==
  /\ index # 0
  /\ Goto("finalizers", "exit")
  /\ result' = 1
  /\ UNCHANGED <<index, loaded, env, progress, devices, status>>

Finalized ==
  /\ index = 0
  /\ Goto("finalizers", "exit")
  /\ UNCHANGED <<index, loaded, env, progress, devices, result, status>>

Exit ==
  /\ Goto("exit", "exited")
  /\ status' = result
  /\ UNCHANGED <<index, loaded, env, progress, devices, result>>

-----------------------------------------------------------------------------
(* The label done, when no guest code has run.                             *)

\* Mutant: mapped is not counted down.
UnmapSame ==
  /\ ~constructors_started
  /\ pc = "done" /\ mapped # 0
  /\ image' = [image EXCEPT ![mapped] = "none"]
  /\ UNCHANGED <<pc, index, mapped, hosts, unresolved, patched, env, progress, devices,
                 result, status>>

Unmap ==
  /\ ~constructors_started
  /\ pc = "done" /\ mapped # 0
  /\ mapped' = mapped - 1
  /\ image' = [image EXCEPT ![mapped] = "none"]
  /\ UNCHANGED <<pc, index, hosts, unresolved, patched, env, progress, devices, result, status>>

ReleaseHosts ==
  /\ ~constructors_started
  /\ mapped = 0
  /\ Goto("done", "exited")
  /\ hosts' = "closed"
  /\ status' = result
  /\ UNCHANGED <<index, mapped, image, unresolved, patched, env, progress, devices, result>>

-----------------------------------------------------------------------------
Init ==
  /\ pc = "map"
  /\ index = 0
  /\ mapped = 0
  /\ image = [m \in Module |-> "none"]
  /\ hosts = "closed"
  /\ unresolved = FALSE
  /\ patched = FALSE
  /\ run_constructors \in BOOLEAN /\ run_jni \in BOOLEAN /\ run_game \in BOOLEAN
  /\ constructors_started = FALSE
  /\ constructors_completed = FALSE
  /\ called = [m \in Module |-> 0]
  /\ finalized = [m \in Module |-> 0]
  /\ obb = FALSE /\ platform = FALSE
  /\ destructors_run = FALSE
  /\ jni_started = FALSE /\ game_returned = FALSE
  /\ result = 1
  /\ status = 1

Load ==
  \/ Map \/ MapFails \/ Describe \/ DescribeFails \/ AllMapped
  \/ Census \/ CensusFails \/ Preflight \/ PreflightFails
  \/ Relocate \/ RelocateFails \/ RetainHosts \/ Patch \/ PatchFails

RunGuest ==
  \/ Gate \/ GateRefuses \/ Construct \/ ConstructFails \/ Constructed
  \/ OpenObb \/ OpenObbFails \/ StartPlatform \/ StartPlatformFails
  \/ JniStarted \/ JniFails \/ GameFails \/ GameReturns \/ Passed

Leave ==
  \/ Shutdown \/ RunDestructors \/ Finalize \/ FinalizeFails \/ Finalized \/ Exit
  \/ Unmap \/ ReleaseHosts

Next == Load \/ RunGuest \/ Leave

Spec == Init /\ [][Next]_vars

\* main runs; the guest's initialisers, destructors and its game return.
FairSpec == Spec /\ WF_vars(Next)

-----------------------------------------------------------------------------
\* Every variable keeps its type; no lifecycle function is called twice.
TypeOK ==
  /\ pc \in {"map", "describe", "census", "preflight", "relocate", "patch", "gate",
             "constructors", "exports", "display", "jni", "game", "passed",
             "done", "finalize", "finalizers", "exit", "exited"}
  /\ index \in 0 .. ModuleCount /\ mapped \in 0 .. ModuleCount
  /\ image \in [Module -> {"none", "mapped", "bound"}]
  /\ hosts \in {"closed", "open", "retained"}
  /\ unresolved \in BOOLEAN /\ patched \in BOOLEAN
  /\ run_constructors \in BOOLEAN /\ run_jni \in BOOLEAN /\ run_game \in BOOLEAN
  /\ constructors_started \in BOOLEAN /\ constructors_completed \in BOOLEAN
  /\ called \in [Module -> 0 .. Functions]
  /\ finalized \in [Module -> 0 .. Functions]
  /\ obb \in BOOLEAN /\ platform \in BOOLEAN /\ destructors_run \in BOOLEAN
  /\ jni_started \in BOOLEAN /\ game_returned \in BOOLEAN
  /\ result \in 0 .. 1 /\ status \in 0 .. 1

(***************************************************************************)
(* Guest code runs only in a complete image, and keeps it: from the first  *)
(* initialiser to the end of the process, on every failure path too, all   *)
(* modules are mapped, relocated with nothing unresolved and patched, and  *)
(* the host libraries they are bound to stay open.                         *)
(***************************************************************************)
GuestKeepsItsCode ==
  constructors_started =>
    /\ \A m \in Module : image[m] = "bound"
    /\ hosts = "retained" /\ patched /\ ~unresolved

(***************************************************************************)
(* Teardown mirrors startup: a module's finalisers run only when every     *)
(* initialiser of every module ran and the registered destructors were     *)
(* run, and after those of every later module.                             *)
(***************************************************************************)
FinalizersMirror ==
  \A m \in Module : finalized[m] # 0 =>
    /\ destructors_run
    /\ \A n \in Module : called[n] = Functions
    /\ \A n \in Module : m < n => finalized[n] = Functions

(***************************************************************************)
(* Whatever stage failed, the process ends with the OBB and the runtime's  *)
(* devices closed (the preflight closes its own, see ClosedInOrder); and   *)
(* when no guest code has run, with every module unmapped and every host   *)
(* library closed.                                                         *)
(***************************************************************************)
NothingHeld ==
  pc = "exited" =>
    /\ ~obb /\ ~platform
    /\ ~constructors_started =>
         hosts = "closed" /\ \A m \in Module : image[m] = "none"

(***************************************************************************)
(* Exit status 0 means that the stages that came to their end are those    *)
(* the environment asked for and no other: main looks at NFSMW_RUN_JNI     *)
(* only with NFSMW_RUN_CONSTRUCTORS set, at NFSMW_RUN_GAME only with both, *)
(* so that alone they ask for nothing.  After the constructors, either the *)
(* game returned and ended the process, or every destructor and finaliser  *)
(* ran.                                                                    *)
(***************************************************************************)
ZeroMeansPassed ==
  pc = "exited" /\ status = 0 =>
    /\ patched
    /\ constructors_completed <=> run_constructors
    /\ jni_started <=> run_constructors /\ run_jni
    /\ game_returned <=> run_constructors /\ run_jni /\ run_game
    /\ constructors_completed => \A m \in Module : called[m] = Functions
    /\ constructors_completed /\ ~game_returned =>
         destructors_run /\ \A m \in Module : finalized[m] = Functions

(***************************************************************************)
(* runtime/README.md says of NFSMW_RUN_CONSTRUCTORS: "After a clean return *)
(* it runs registered C++ destructors and ELF finalizers in reverse order".*)
(* A clean return is an exit status of 0.                                  *)
(***************************************************************************)
CleanReturnFinalizes ==
  pc = "exited" /\ status = 0 /\ run_constructors =>
    destructors_run /\ \A m \in Module : finalized[m] = Functions
=============================================================================
