----------------------------- MODULE Boot_proofs -----------------------------
(***************************************************************************)
(* Boot's type invariant and safety properties, for every number of guest  *)
(* modules and of lifecycle functions; then that the process with its      *)
(* display implements Boot, and three properties of the display.           *)
(***************************************************************************)
EXTENDS Display, TLAPS

USE BootConstants DEF BootConstants, Module, Goto, Fails

Before == {"map", "describe", "census", "preflight", "relocate", "patch", "gate"}
InGuest == {"constructors", "exports", "display", "jni", "game", "finalize", "finalizers", "exit"}

\* mapped counts the images that are mapped, and index follows it.
Counting ==
  /\ \A m \in Module : image[m] = "none" <=> m > mapped
  /\ pc = "map" => mapped = index
  /\ pc = "describe" => mapped = index + 1
  /\ pc \in {"census", "preflight", "relocate", "patch", "gate"} => mapped = ModuleCount

\* What relocation has done so far.
Binding ==
  /\ pc = "relocate" => \A m \in Module : m <= index => image[m] = "bound"
  /\ pc \in {"patch", "gate"} => hosts = "retained" /\ \A m \in Module : image[m] = "bound"
  /\ pc = "gate" => patched

\* Guest code runs between the gate and the end of the process.
Running ==
  /\ pc \in InGuest => constructors_started
  /\ pc \in Before => ~constructors_started

\* The initialisers called so far are those of the modules before index.
Constructing ==
  /\ ~constructors_started => ~constructors_completed /\ \A n \in Module : called[n] = 0
  /\ pc = "constructors" => \A n \in Module :
       /\ n <= index => called[n] = Functions
       /\ n = index + 1 => called[n] < Functions
       /\ n > index + 1 => called[n] = 0
  /\ constructors_completed => \A n \in Module : called[n] = Functions
  /\ pc \in {"exports", "display", "jni", "game"} => constructors_completed

\* The finalisers called so far are those of the modules after index.
Finalizing ==
  /\ pc \notin {"finalizers", "exit", "exited"} => \A n \in Module : finalized[n] = 0
  /\ pc = "finalize" => index = ModuleCount
  /\ pc = "finalizers" =>
       /\ constructors_completed /\ destructors_run
       /\ \A n \in Module :
            /\ n > index => finalized[n] = Functions
            /\ n = index => finalized[n] < Functions
            /\ n < index => finalized[n] = 0

\* Devices are open only between nfsmw_jni_startup and the label done.
Holding ==
  /\ obb \/ platform =>
       constructors_started /\ pc \in {"display", "jni", "game", "passed", "done"}
  /\ pc = "exited" /\ ~constructors_started => hosts = "closed" /\ mapped = 0

\* What a result of 0 says before it becomes the exit status.
Passing ==
  /\ pc = "gate" \/ constructors_started => run_constructors
  /\ pc = "passed" \/ result = 0 => patched /\ (run_constructors => constructors_completed)
  /\ pc \in {"exports", "display", "jni", "game"} => run_jni
  /\ pc = "game" => run_game
  /\ pc # "exited" => status = 1
  /\ pc = "exit" /\ result = 0 /\ run_constructors =>
       \A n \in Module : finalized[n] = Functions

\* How far the guest came, and by whose wish.
Reaching ==
  /\ jni_started => run_constructors /\ run_jni
  /\ pc = "game" => jni_started
  /\ pc = "passed" \/ result = 0 =>
       (run_constructors /\ run_jni => jni_started /\ ~run_game)
  /\ pc # "exited" => ~game_returned
  /\ pc = "exit" => destructors_run

IInv ==
  /\ TypeOK /\ Counting /\ Binding /\ Running /\ Constructing /\ Finalizing /\ Holding
  /\ Passing /\ Reaching /\ GuestKeepsItsCode /\ FinalizersMirror /\ ZeroMeansPassed

\* The inductive invariant holds initially.
LEMMA InitInv == Init => IInv
<1> SUFFICES ASSUME Init PROVE IInv
  OBVIOUS
<1>1. TypeOK
  <2>1. 0 \in 0 .. ModuleCount /\ 0 \in 0 .. Functions /\ 1 \in 0 .. 1
    BY SMT
  <2> QED BY <2>1, Zenon DEF Init, TypeOK
<1>2. Counting /\ Binding /\ Finalizing
  BY SMT DEF Init, Counting, Binding, Finalizing
<1>3. Running /\ Constructing /\ Holding /\ Passing /\ Reaching
  <2>1. 0 # 1
    BY SMT
  <2> QED BY <2>1, Zenon DEF Init, Running, Constructing, Holding, Passing, Reaching, Before, InGuest
<1>4. GuestKeepsItsCode /\ FinalizersMirror /\ ZeroMeansPassed
  BY Zenon DEF Init, GuestKeepsItsCode, FinalizersMirror, ZeroMeansPassed
<1> QED BY <1>1, <1>2, <1>3, <1>4 DEF IInv

\* Loading goes on before guest code, and leaves the guest's progress alone.
LEMMA LoadFrame ==
  ASSUME Load
  PROVE  /\ pc \in Before \ {"gate"} /\ pc' \in Before \cup {"passed", "done"}
         /\ UNCHANGED <<env, progress, devices, result, status>>
  BY Zenon DEF Load, Before, Map, MapFails, Describe, DescribeFails, AllMapped, Census,
     CensusFails, Preflight, PreflightFails, Relocate, RelocateFails, RetainHosts, Patch,
     PatchFails

\* Nothing is loaded or finalised while the guest runs.
LEMMA GuestFrame ==
  ASSUME RunGuest
  PROVE  /\ pc \in {"gate", "constructors", "exports", "display", "jni", "game", "passed"}
         /\ pc' \in {"constructors", "exports", "display", "jni", "game", "passed", "done", "exited"}
         /\ UNCHANGED <<loaded, env, finalized, destructors_run>>
  BY Zenon DEF RunGuest, Gate, GateRefuses, Construct, ConstructFails, Constructed, OpenObb,
     OpenObbFails, StartPlatform, StartPlatformFails, JniStarted, JniFails, GameFails,
     GameReturns, Passed, loaded, progress

\* The steps from done to exit when guest code has run.
Teardown == Shutdown \/ RunDestructors \/ Finalize \/ FinalizeFails \/ Finalized \/ Exit

\* They leave the images, and what was constructed, alone.
LEMMA TeardownFrame ==
  ASSUME Teardown
  PROVE  /\ pc \in {"done", "finalize", "finalizers", "exit"}
         /\ pc' \in {"finalize", "finalizers", "exit", "exited"}
         /\ pc = "done" => constructors_started
         /\ UNCHANGED <<loaded, env, constructors_started, constructors_completed, called>>
  BY Zenon DEF Teardown, Shutdown, RunDestructors, Finalize, FinalizeFails, Finalized, Exit,
     loaded, progress

\* The steps from done to exit when none has.
Release == Unmap \/ ReleaseHosts

\* They leave the guest's progress and the result alone.
LEMMA ReleaseFrame ==
  ASSUME Release
  PROVE  /\ pc = "done" /\ pc' \in {"done", "exited"} /\ ~constructors_started
         /\ UNCHANGED <<index, unresolved, patched, env, progress, devices, result>>
  BY Zenon DEF Release, Unmap, ReleaseHosts

\* Guest code starts at the gate and nowhere else.
LEMMA RunningStep ==
  ASSUME Running, [Next]_vars
  PROVE  Running'
<1>1. CASE Load
  <2>1. /\ ~constructors_started /\ constructors_started' = constructors_started
        /\ pc' \notin InGuest
    BY <1>1, LoadFrame, Zenon DEF Running, Before, InGuest, progress
  <2> QED BY <2>1, Zenon DEF Running
<1>2. CASE RunGuest
  <2>1. pc' = "done" \/ constructors_started'
    BY <1>2, Zenon DEF Running, InGuest, RunGuest, Gate, GateRefuses, Construct,
       ConstructFails, Constructed, OpenObb, OpenObbFails, StartPlatform, StartPlatformFails,
       JniStarted, JniFails, GameFails, GameReturns, Passed, progress
  <2> QED BY <2>1, <1>2, GuestFrame, Zenon DEF Running, Before, InGuest
<1>3. CASE Teardown
  BY <1>3, TeardownFrame, Zenon DEF Running, Before, InGuest
<1>4. CASE Release
  BY <1>4, ReleaseFrame, Zenon DEF Running, Before, InGuest, progress
<1>5. CASE UNCHANGED vars
  BY <1>5 DEF Running, vars, progress
<1> QED BY <1>1, <1>2, <1>3, <1>4, <1>5 DEF Next, Leave, Teardown, Release

\* What the loading steps that change something change.
LEMMA LoadEffects ==
  ASSUME Load
  PROVE  /\ Map \/ Describe \/ Preflight \/ Relocate \/ UNCHANGED <<index, mapped>>
         /\ Map \/ Relocate \/ UNCHANGED image
         /\ hosts' \in {hosts, "closed", "open", "retained"}
         /\ unresolved' \in {unresolved, TRUE} /\ patched' \in {patched, TRUE}
  BY Zenon DEF Load, Map, MapFails, Describe, DescribeFails, AllMapped, Census, CensusFails,
     Preflight, PreflightFails, Relocate, RelocateFails, RetainHosts, Patch, PatchFails, loaded

\* What the guest's steps change.
LEMMA GuestEffects ==
  ASSUME RunGuest
  PROVE  /\ Gate \/ Construct \/ UNCHANGED index
         /\ Construct \/ UNCHANGED called
         /\ result' \in {result, 0} /\ status' \in {status, 0}
  BY Zenon DEF RunGuest, Gate, GateRefuses, Construct, ConstructFails, Constructed, OpenObb,
     OpenObbFails, StartPlatform, StartPlatformFails, JniStarted, JniFails, GameFails,
     GameReturns, Passed, progress

\* Every step preserves the types; no lifecycle function is called twice.
LEMMA TypeStep ==
  ASSUME TypeOK, Counting, Constructing, Finalizing, [Next]_vars
  PROVE  TypeOK'
<1>1. CASE Load
  <2>1. pc' \in Before \cup {"passed", "done"} /\ UNCHANGED <<env, progress, devices, result, status>>
    BY <1>1, LoadFrame
  <2>2. index' \in 0 .. ModuleCount /\ mapped' \in 0 .. ModuleCount
    <3>1. CASE Map
      BY <3>1, SMT DEF TypeOK, Counting, Map
    <3>2. CASE Describe
      BY <3>2, SMT DEF TypeOK, Counting, Describe, loaded
    <3>3. CASE Preflight
      BY <3>3, SMT DEF TypeOK, Preflight
    <3>4. CASE Relocate
      BY <3>4, SMT DEF TypeOK, Relocate
    <3> QED BY <3>1, <3>2, <3>3, <3>4, <1>1, LoadEffects DEF TypeOK
  <2>3. image' \in [Module -> {"none", "mapped", "bound"}]
    <3>1. CASE Map
      BY <3>1, Zenon DEF TypeOK, Map
    <3>2. CASE Relocate
      BY <3>2, Zenon DEF TypeOK, Relocate
    <3> QED BY <3>1, <3>2, <1>1, LoadEffects DEF TypeOK
  <2>4. hosts' \in {"closed", "open", "retained"} /\ unresolved' \in BOOLEAN /\ patched' \in BOOLEAN
    BY <1>1, LoadEffects, Zenon DEF TypeOK
  <2>5. pc' \in {"map", "describe", "census", "preflight", "relocate", "patch", "gate", "passed", "done"}
    BY <2>1, Zenon DEF Before
  <2>6. /\ constructors_started' \in BOOLEAN /\ constructors_completed' \in BOOLEAN
        /\ called' \in [Module -> 0 .. Functions] /\ finalized' \in [Module -> 0 .. Functions]
        /\ destructors_run' \in BOOLEAN
        /\ jni_started' \in BOOLEAN /\ game_returned' \in BOOLEAN
    BY <2>1 DEF TypeOK, progress
  <2>7. /\ run_constructors' \in BOOLEAN /\ run_jni' \in BOOLEAN /\ run_game' \in BOOLEAN
        /\ obb' \in BOOLEAN /\ platform' \in BOOLEAN
        /\ result' \in 0 .. 1 /\ status' \in 0 .. 1
    BY <2>1 DEF TypeOK, env, devices
  <2> QED BY <2>2, <2>3, <2>4, <2>5, <2>6, <2>7, Zenon DEF TypeOK
<1>2. CASE RunGuest
  <2>1. UNCHANGED <<loaded, env, finalized, destructors_run>> /\
        pc' \in {"constructors", "exports", "display", "jni", "game", "passed", "done", "exited"}
    BY <1>2, GuestFrame
  <2>2. index' \in 0 .. ModuleCount /\ called' \in [Module -> 0 .. Functions]
    <3>1. CASE Gate
      BY <3>1, SMT DEF TypeOK, Gate
    <3>2. CASE Construct
      BY <3>2, SMT DEF TypeOK, Constructing, Construct
    <3> QED BY <3>1, <3>2, <1>2, GuestEffects DEF TypeOK, Gate
  <2>3. result' \in 0 .. 1 /\ status' \in 0 .. 1
    BY <1>2, GuestEffects, SMT DEF TypeOK
  <2>4. /\ constructors_started' \in BOOLEAN /\ constructors_completed' \in BOOLEAN
        /\ obb' \in BOOLEAN /\ platform' \in BOOLEAN
        /\ jni_started' \in BOOLEAN /\ game_returned' \in BOOLEAN
    BY <1>2, Zenon DEF TypeOK, RunGuest, Gate, GateRefuses, Construct, ConstructFails, Constructed,
       OpenObb, OpenObbFails, StartPlatform, StartPlatformFails, JniStarted, JniFails,
       GameFails, GameReturns, Passed, progress, devices
  <2> QED BY <2>1, <2>2, <2>3, <2>4, Zenon DEF TypeOK, loaded, env
<1>3. CASE Teardown
  <2>1. UNCHANGED <<loaded, env, constructors_started, constructors_completed, called>> /\
        pc' \in {"finalize", "finalizers", "exit", "exited"}
    BY <1>3, TeardownFrame
  <2>2. index' \in 0 .. ModuleCount /\ result' \in 0 .. 1 /\ status' \in 0 .. 1
    BY <1>3, SMTT(40) DEF TypeOK, Teardown, Shutdown, RunDestructors, Finalize, FinalizeFails,
       Finalized, Exit
  <2>3. finalized' \in [Module -> 0 .. Functions]
    <3>1. CASE Finalize
      BY <3>1, SMT DEF TypeOK, Finalizing, Finalize
    <3>2. CASE ~Finalize
      BY <3>2, <1>3, Zenon DEF TypeOK, Teardown, Shutdown, RunDestructors, FinalizeFails,
         Finalized, Exit, progress
    <3> QED BY <3>1, <3>2
  <2>4. /\ obb' \in BOOLEAN /\ platform' \in BOOLEAN /\ destructors_run' \in BOOLEAN
        /\ jni_started' \in BOOLEAN /\ game_returned' \in BOOLEAN
    BY <1>3, ZenonT(40) DEF TypeOK, Teardown, Shutdown, RunDestructors, Finalize, FinalizeFails,
       Finalized, Exit, progress, devices
  <2> QED BY <2>1, <2>2, <2>3, <2>4, Zenon DEF TypeOK, loaded, env
<1>4. CASE Release
  <2>1. pc' \in {"done", "exited"} /\ UNCHANGED <<index, unresolved, patched, env, progress, devices, result>>
    BY <1>4, ReleaseFrame
  <2>2. mapped' \in 0 .. ModuleCount /\ status' \in 0 .. 1
    BY <1>4, SMT DEF TypeOK, Release, Unmap, ReleaseHosts
  <2>3. image' \in [Module -> {"none", "mapped", "bound"}]
    BY <1>4, Zenon DEF TypeOK, Release, Unmap, ReleaseHosts
  <2>4. hosts' \in {"closed", "open", "retained"}
    BY <1>4, Zenon DEF TypeOK, Release, Unmap, ReleaseHosts
  <2>5. /\ constructors_started' \in BOOLEAN /\ constructors_completed' \in BOOLEAN
        /\ called' \in [Module -> 0 .. Functions] /\ finalized' \in [Module -> 0 .. Functions]
        /\ destructors_run' \in BOOLEAN /\ obb' \in BOOLEAN /\ platform' \in BOOLEAN
        /\ jni_started' \in BOOLEAN /\ game_returned' \in BOOLEAN
    BY <2>1 DEF TypeOK, progress, devices
  <2>6. /\ run_constructors' \in BOOLEAN /\ run_jni' \in BOOLEAN /\ run_game' \in BOOLEAN
        /\ unresolved' \in BOOLEAN /\ patched' \in BOOLEAN
        /\ index' \in 0 .. ModuleCount /\ result' \in 0 .. 1
    BY <2>1 DEF TypeOK, env
  <2> QED BY <2>1, <2>2, <2>3, <2>4, <2>5, <2>6, Zenon DEF TypeOK
<1>5. CASE UNCHANGED vars
  BY <1>5 DEF TypeOK, vars, env, loaded, progress, devices
<1> QED BY <1>1, <1>2, <1>3, <1>4, <1>5 DEF Next, Leave, Teardown, Release

\* Every step preserves the count of mapped images.
LEMMA CountingStep ==
  ASSUME TypeOK, Counting, Running, [Next]_vars
  PROVE  Counting'
<1>1. CASE Map
  BY <1>1, SMT DEF TypeOK, Counting, Map
<1>2. CASE Describe
  BY <1>2, SMT DEF TypeOK, Counting, Describe, loaded
<1>3. CASE AllMapped
  BY <1>3, SMT DEF TypeOK, Counting, AllMapped, loaded
<1>4. CASE Relocate
  BY <1>4, SMT DEF TypeOK, Counting, Relocate
<1>5. CASE Load /\ ~Map /\ ~Describe /\ ~AllMapped /\ ~Relocate
  <2>1. /\ UNCHANGED <<image, mapped>>
        /\ \/ pc' \in {"passed", "done"}
           \/ /\ pc \in {"census", "preflight", "relocate", "patch", "gate"}
              /\ pc' \in {"census", "preflight", "relocate", "patch", "gate"}
    BY <1>5, Zenon DEF Load, MapFails, DescribeFails, Census, CensusFails, Preflight,
       PreflightFails, RelocateFails, RetainHosts, Patch, PatchFails, loaded
  <2> QED BY <2>1, SMT DEF Counting
<1>6. CASE RunGuest
  BY <1>6, GuestFrame, SMT DEF Counting, loaded
<1>7. CASE Teardown
  BY <1>7, TeardownFrame, SMT DEF Counting, loaded
<1>8. CASE Unmap
  BY <1>8, SMT DEF TypeOK, Counting, Unmap
<1>9. CASE ReleaseHosts
  BY <1>9, SMT DEF Counting, ReleaseHosts
<1>10. CASE UNCHANGED vars
  BY <1>10 DEF Counting, vars, loaded
<1> QED BY <1>1, <1>2, <1>3, <1>4, <1>5, <1>6, <1>7, <1>8, <1>9, <1>10 DEF Next, Leave, Teardown

\* Every step preserves what relocation has done.
LEMMA BindingStep ==
  ASSUME TypeOK, Binding, [Next]_vars
  PROVE  Binding'
<1>1. CASE Preflight
  BY <1>1, SMT DEF Binding, Preflight
<1>2. CASE Relocate
  BY <1>2, SMT DEF TypeOK, Binding, Relocate
<1>3. CASE RetainHosts
  BY <1>3, SMT DEF TypeOK, Binding, RetainHosts
<1>4. CASE Patch
  BY <1>4, Zenon DEF Binding, Patch
<1>5. CASE Load /\ ~Preflight /\ ~Relocate /\ ~RetainHosts /\ ~Patch
  <2>1. pc' \notin {"relocate", "patch", "gate"}
    BY <1>5, Zenon DEF Load, Map, MapFails, Describe, DescribeFails, AllMapped, Census,
       CensusFails, PreflightFails, RelocateFails, PatchFails
  <2> QED BY <2>1, Zenon DEF Binding
<1>6. CASE RunGuest \/ Teardown \/ Release
  <2>1. pc' \notin {"relocate", "patch", "gate"}
    BY <1>6, GuestFrame, TeardownFrame, ReleaseFrame, Zenon
  <2> QED BY <2>1, Zenon DEF Binding
<1>7. CASE UNCHANGED vars
  BY <1>7 DEF Binding, vars, loaded
<1> QED BY <1>1, <1>2, <1>3, <1>4, <1>5, <1>6, <1>7 DEF Next, Leave, Teardown, Release

\* Once guest code runs, no step takes any of its images away.
LEMMA CodeStep ==
  ASSUME Binding, Running, GuestKeepsItsCode, [Next]_vars
  PROVE  GuestKeepsItsCode'
<1>1. CASE Load
  BY <1>1, LoadFrame, Zenon DEF Running, GuestKeepsItsCode, progress
<1>2. CASE Gate
  BY <1>2, Zenon DEF Binding, GuestKeepsItsCode, Gate, loaded
<1>3. CASE RunGuest /\ ~Gate
  <2>1. UNCHANGED constructors_started
    BY <1>3, Zenon DEF RunGuest, GateRefuses, Construct, ConstructFails, Constructed, OpenObb,
       OpenObbFails, StartPlatform, StartPlatformFails, JniStarted, JniFails, GameFails,
       GameReturns, Passed, progress
  <2> QED BY <2>1, <1>3, GuestFrame DEF GuestKeepsItsCode, loaded
<1>4. CASE Teardown
  BY <1>4, TeardownFrame DEF GuestKeepsItsCode, loaded
<1>5. CASE Release
  BY <1>5, ReleaseFrame, Zenon DEF GuestKeepsItsCode, progress
<1>6. CASE UNCHANGED vars
  BY <1>6 DEF GuestKeepsItsCode, vars, loaded, progress
<1> QED BY <1>1, <1>2, <1>3, <1>4, <1>5, <1>6 DEF Next, Leave, Teardown, Release

\* Every step preserves the order of the initialisers.
LEMMA ConstructingStep ==
  ASSUME TypeOK, Running, Constructing, [Next]_vars
  PROVE  Constructing'
<1>1. CASE Load
  <2>1. /\ ~constructors_started /\ pc' \notin {"constructors", "exports", "display", "jni", "game"}
        /\ UNCHANGED <<called, constructors_started, constructors_completed>>
    BY <1>1, LoadFrame, Zenon DEF Running, Before, progress
  <2> QED BY <2>1, Zenon DEF Constructing
<1>2. CASE Gate
  <2>1. \A n \in Module : called[n] = 0
    BY <1>2, Zenon DEF Gate, Running, Before, Constructing
  <2>2. pc' = "constructors" /\ constructors_started' /\ ~constructors_completed'
    BY <1>2, Zenon DEF Gate, Running, Before, Constructing
  <2>3. \A n \in Module : /\ n <= index' => called'[n] = Functions
                          /\ n = index' + 1 => called'[n] < Functions
                          /\ n > index' + 1 => called'[n] = 0
    BY <1>2, <2>1, SMT DEF Gate
  <2> QED BY <2>2, <2>3, Zenon DEF Constructing
<1>3. CASE Construct
  <2>1. constructors_started
    BY <1>3, Zenon DEF Construct, Running, InGuest
  <2>2. ~constructors_completed
    <3> SUFFICES ASSUME constructors_completed PROVE FALSE
      OBVIOUS
    <3>1. index + 1 \in Module
      BY <1>3, SMT DEF Construct, TypeOK
    <3>2. called[index + 1] = Functions
      BY <3>1, Zenon DEF Constructing
    <3>3. called[index + 1] < Functions
      BY <3>1, <1>3, SMT DEF Constructing, Construct
    <3> QED BY <3>2, <3>3, SMT
  <2>3. \A n \in Module : /\ n <= index' => called'[n] = Functions
                          /\ n = index' + 1 => called'[n] < Functions
                          /\ n > index' + 1 => called'[n] = 0
    BY <1>3, SMT DEF Construct, TypeOK, Constructing
  <2> QED BY <2>1, <2>2, <2>3, <1>3, Zenon DEF Constructing, Construct
<1>4. CASE Constructed
  <2>1. \A n \in Module : called[n] = Functions
    BY <1>4, SMT DEF Constructed, TypeOK, Constructing
  <2>2. constructors_started
    BY <1>4, Zenon DEF Constructed, Running, InGuest
  <2> QED BY <2>1, <2>2, <1>4, Zenon DEF Constructed, Constructing
<1>5. CASE RunGuest /\ ~Gate /\ ~Construct /\ ~Constructed
  <2>1. /\ UNCHANGED <<called, constructors_started, constructors_completed>>
        /\ pc' # "constructors"
        /\ \/ pc' \notin {"exports", "display", "jni", "game"}
           \/ pc \in {"exports", "display", "jni", "game"}
    BY <1>5, Zenon DEF RunGuest, GateRefuses, ConstructFails, OpenObb,
       OpenObbFails, StartPlatform, StartPlatformFails, JniStarted, JniFails, GameFails,
       GameReturns, Passed, progress
  <2> QED BY <2>1, Zenon DEF Constructing
<1>6. CASE Teardown \/ Release
  <2>1. /\ UNCHANGED <<called, constructors_started, constructors_completed>>
        /\ pc' \notin {"constructors", "exports", "display", "jni", "game"}
    BY <1>6, TeardownFrame, ReleaseFrame, Zenon DEF progress
  <2> QED BY <2>1, Zenon DEF Constructing
<1>7. CASE UNCHANGED vars
  BY <1>7 DEF Constructing, vars, progress
<1> QED BY <1>1, <1>2, <1>3, <1>4, <1>5, <1>6, <1>7 DEF Next, Leave, Teardown, Release

\* Every step preserves the order of the finalisers.
LEMMA FinalizingStep ==
  ASSUME TypeOK, Finalizing, [Next]_vars
  PROVE  Finalizing'
<1>1. CASE Load \/ RunGuest \/ Release
  <2>1. /\ UNCHANGED finalized
        /\ pc \notin {"finalizers", "exit", "exited"}
        /\ pc' \notin {"finalize", "finalizers"}
    BY <1>1, LoadFrame, GuestFrame, ReleaseFrame, Zenon DEF Before, progress
  <2> QED BY <2>1, Zenon DEF Finalizing
<1>2. CASE Shutdown
  BY <1>2, Zenon DEF Shutdown, Finalizing, progress
<1>3. CASE RunDestructors
  <2>1. CASE constructors_completed
    <3>1. /\ pc' = "finalizers" /\ constructors_completed' /\ destructors_run'
          /\ index' = ModuleCount
          /\ \A n \in Module : finalized'[n] = 0
      BY <1>3, <2>1, Zenon DEF RunDestructors, Finalizing
    <3>2. \A n \in Module : /\ n > index' => finalized'[n] = Functions
                            /\ n = index' => finalized'[n] < Functions
                            /\ n < index' => finalized'[n] = 0
      BY <3>1, SMT
    <3> QED BY <3>1, <3>2, Zenon DEF Finalizing
  <2>2. CASE ~constructors_completed
    BY <1>3, <2>2, Zenon DEF RunDestructors, Finalizing
  <2> QED BY <2>1, <2>2
<1>4. CASE Finalize
  <2>1. \A n \in Module : /\ n > index' => finalized'[n] = Functions
                          /\ n = index' => finalized'[n] < Functions
                          /\ n < index' => finalized'[n] = 0
    <3>1. index \in Module /\ finalized \in [Module -> 0 .. Functions]
      BY <1>4, SMT DEF Finalize, TypeOK
    <3>2. CASE finalized[index] + 1 = Functions
      BY <1>4, <3>1, <3>2, SMT DEF Finalize, Finalizing
    <3>3. CASE finalized[index] + 1 # Functions
      BY <1>4, <3>1, <3>3, SMT DEF Finalize, Finalizing
    <3> QED BY <3>2, <3>3
  <2> QED BY <2>1, <1>4, Zenon DEF Finalize, Finalizing
<1>5. CASE FinalizeFails \/ Finalized \/ Exit
  <2>1. pc' \in {"exit", "exited"}
    BY <1>5, Zenon DEF FinalizeFails, Finalized, Exit
  <2> QED BY <2>1, Zenon DEF Finalizing
<1>6. CASE UNCHANGED vars
  BY <1>6 DEF Finalizing, vars, progress
<1> QED BY <1>1, <1>2, <1>3, <1>4, <1>5, <1>6 DEF Next, Leave, Teardown, Release

\* A finaliser is called only in its turn.
LEMMA MirrorStep ==
  ASSUME TypeOK, Running, Constructing, Finalizing, FinalizersMirror, [Next]_vars
  PROVE  FinalizersMirror'
<1>1. CASE Load \/ RunGuest \/ Release
  <2>1. /\ UNCHANGED finalized
        /\ pc \notin {"finalizers", "exit", "exited"}
    BY <1>1, LoadFrame, GuestFrame, ReleaseFrame, Zenon DEF Before, progress
  <2> QED BY <2>1, Zenon DEF Finalizing, FinalizersMirror
<1>2. CASE Finalize
  <2>1. \A n \in Module : called'[n] = Functions
    BY <1>2, Zenon DEF Finalize, Constructing, Finalizing
  <2>2. destructors_run'
    BY <1>2, Zenon DEF Finalize, Finalizing
  <2>3. \A m \in Module : finalized'[m] # 0 =>
          \A n \in Module : m < n => finalized'[n] = Functions
    BY <1>2, SMT DEF Finalize, TypeOK, Finalizing
  <2> QED BY <2>1, <2>2, <2>3, Zenon DEF FinalizersMirror
<1>3. CASE Teardown /\ ~Finalize
  <2>1. UNCHANGED <<finalized, called>>
    BY <1>3, Zenon DEF Teardown, Shutdown, RunDestructors, FinalizeFails, Finalized, Exit, progress
  <2>2. destructors_run => destructors_run'
    BY <1>3, Zenon DEF Teardown, Shutdown, RunDestructors, FinalizeFails, Finalized, Exit, progress
  <2> QED BY <2>1, <2>2, Zenon DEF FinalizersMirror
<1>4. CASE UNCHANGED vars
  BY <1>4 DEF FinalizersMirror, vars, progress
<1> QED BY <1>1, <1>2, <1>3, <1>4 DEF Next, Leave, Teardown, Release

\* Every step preserves what is known of the devices.
LEMMA HoldingStep ==
  ASSUME TypeOK, Running, Holding, [Next]_vars
  PROVE  Holding'
<1>1. CASE Load
  <2>1. ~constructors_started /\ pc' # "exited" /\ UNCHANGED <<obb, platform>>
    BY <1>1, LoadFrame, Zenon DEF Running, Before, devices
  <2> QED BY <2>1, Zenon DEF Holding
<1>2. CASE RunGuest
  <2>1. \/ ~obb' /\ ~platform'
        \/ constructors_started' /\ pc' \in {"display", "jni", "game", "passed", "done"}
    BY <1>2, Zenon DEF Running, Holding, InGuest, RunGuest, Gate, GateRefuses, Construct,
       ConstructFails, Constructed, OpenObb, OpenObbFails, StartPlatform, StartPlatformFails,
       JniStarted, JniFails, GameFails, GameReturns, Passed, progress, devices
  <2>2. pc' = "exited" => constructors_started'
    BY <1>2, Zenon DEF Running, InGuest, RunGuest, Gate, GateRefuses, Construct,
       ConstructFails, Constructed, OpenObb, OpenObbFails, StartPlatform, StartPlatformFails,
       JniStarted, JniFails, GameFails, GameReturns, Passed, progress
  <2> QED BY <2>1, <2>2, Zenon DEF Holding
<1>3. CASE Teardown
  <2>1. ~obb' /\ ~platform'
    <3>1. CASE Shutdown
      BY <3>1, Zenon DEF Shutdown
    <3>2. CASE Teardown /\ ~Shutdown
      <4>1. pc \in {"finalize", "finalizers", "exit"} /\ UNCHANGED <<obb, platform>>
        BY <3>2, Zenon DEF Teardown, RunDestructors, Finalize, FinalizeFails, Finalized, Exit,
           devices
      <4>2. ~(obb \/ platform)
        BY <4>1, Zenon DEF Holding
      <4> QED BY <4>1, <4>2, Zenon
    <3> QED BY <1>3, <3>1, <3>2
  <2>2. constructors_started'
    BY <1>3, TeardownFrame, Zenon DEF Running, InGuest
  <2> QED BY <2>1, <2>2, Zenon DEF Holding
<1>4. CASE Release
  <2>1. ~obb' /\ ~platform'
    <3>1. ~(obb \/ platform) /\ UNCHANGED <<obb, platform>>
      BY <1>4, ReleaseFrame, Zenon DEF Holding, devices
    <3> QED BY <3>1, Zenon
  <2>2. pc' = "exited" => hosts' = "closed" /\ mapped' = 0
    BY <1>4, Zenon DEF Release, Unmap, ReleaseHosts
  <2> QED BY <2>1, <2>2, Zenon DEF Holding
<1>5. CASE UNCHANGED vars
  BY <1>5 DEF Holding, vars, loaded, progress, devices
<1> QED BY <1>1, <1>2, <1>3, <1>4, <1>5 DEF Next, Leave, Teardown, Release

\* Every step preserves what a result of 0 says.
LEMMA PassingStep ==
  ASSUME TypeOK, Running, Constructing, Finalizing, GuestKeepsItsCode, Passing, [Next]_vars
  PROVE  Passing'
<1>1. CASE Load
  <2>1. /\ UNCHANGED <<env, progress, result, status>> /\ status = 1 /\ status' = 1
        /\ ~constructors_started
        /\ pc' \notin {"exports", "display", "jni", "game", "exit", "exited"}
    BY <1>1, LoadFrame, Zenon DEF Running, Before, Passing
  <2>2. patched => patched'
    BY <1>1, LoadEffects, Zenon
  <2>3. pc' = "gate" => run_constructors
    BY <1>1, Zenon DEF Load, Map, MapFails, Describe, DescribeFails, AllMapped, Census,
       CensusFails, Preflight, PreflightFails, Relocate, RelocateFails, RetainHosts, Patch,
       PatchFails
  <2>4. pc' = "passed" => patched' /\ ~run_constructors
    BY <1>1, Zenon DEF Load, Map, MapFails, Describe, DescribeFails, AllMapped, Census,
       CensusFails, Preflight, PreflightFails, Relocate, RelocateFails, RetainHosts, Patch,
       PatchFails
  <2> QED BY <2>1, <2>2, <2>3, <2>4, Zenon DEF Passing, env, progress
<1>2. CASE RunGuest
  <2>1. UNCHANGED <<patched, run_constructors, run_jni, run_game, finalized>>
    BY <1>2, GuestFrame DEF loaded, env
  <2>2. pc' # "gate" /\ pc' # "exit"
    BY <1>2, GuestFrame, Zenon
  <2>2a. constructors_started' => run_constructors
    BY <1>2, Zenon DEF Passing, RunGuest, Gate, GateRefuses, Construct,
       ConstructFails, Constructed, OpenObb, OpenObbFails, StartPlatform, StartPlatformFails,
       JniStarted, JniFails, GameFails, GameReturns, Passed, progress
  <2>3. pc' = "passed" \/ result' = 0 =>
          patched /\ (run_constructors => constructors_completed')
    <3>1. CASE Passed
      BY <3>1, Zenon DEF Passed, Passing, progress
    <3>2. CASE Constructed
      BY <3>2, Zenon DEF Constructed, Running, InGuest, GuestKeepsItsCode
    <3>3. CASE JniStarted
      BY <3>3, Zenon DEF JniStarted, Running, InGuest, GuestKeepsItsCode, Constructing, progress
    <3>4. CASE ~Passed /\ ~Constructed /\ ~JniStarted
      <4>1. pc' # "passed" /\ UNCHANGED <<result, constructors_completed>>
        BY <1>2, <3>4, Zenon DEF RunGuest, Gate, GateRefuses, Construct, ConstructFails,
           OpenObb, OpenObbFails, StartPlatform, StartPlatformFails, JniFails, GameFails,
           GameReturns, progress
      <4> QED BY <4>1, Zenon DEF Passing
    <3> QED BY <3>1, <3>2, <3>3, <3>4
  <2>4. pc' \in {"exports", "display", "jni", "game"} => run_jni
    BY <1>2, Zenon DEF Passing, RunGuest, Gate, GateRefuses, Construct,
       ConstructFails, Constructed, OpenObb, OpenObbFails, StartPlatform, StartPlatformFails,
       JniStarted, JniFails, GameFails, GameReturns, Passed
  <2>5. pc' = "game" => run_game
    BY <1>2, Zenon DEF Passing, RunGuest, Gate, GateRefuses, Construct,
       ConstructFails, Constructed, OpenObb, OpenObbFails, StartPlatform, StartPlatformFails,
       JniStarted, JniFails, GameFails, GameReturns, Passed
  <2>6. pc' # "exited" => status' = 1
    BY <1>2, Zenon DEF Passing, RunGuest, Gate, GateRefuses, Construct,
       ConstructFails, Constructed, OpenObb, OpenObbFails, StartPlatform, StartPlatformFails,
       JniStarted, JniFails, GameFails, GameReturns, Passed
  <2> QED BY <2>1, <2>2, <2>3, <2>4, <2>5, <2>6, <2>2a, Zenon DEF Passing
<1>3. CASE Teardown
  <2>1. /\ UNCHANGED <<patched, run_constructors, run_jni, run_game, constructors_started,
                       constructors_completed>>
        /\ pc' \notin {"passed", "gate", "exports", "display", "jni", "game"}
    BY <1>3, TeardownFrame, Zenon DEF loaded, env
  <2>2. result' \in {result, 1}
    BY <1>3, Zenon DEF Teardown, Shutdown, RunDestructors, Finalize, FinalizeFails, Finalized, Exit
  <2>3. pc' # "exited" => status' = 1
    BY <1>3, Zenon DEF Passing, Teardown, Shutdown, RunDestructors, Finalize, FinalizeFails,
       Finalized, Exit
  <2>4. pc' = "exit" /\ result' = 0 /\ run_constructors =>
          \A n \in Module : finalized'[n] = Functions
    <3>1. CASE RunDestructors
      BY <3>1, Zenon DEF RunDestructors, Passing
    <3>2. CASE Finalized
      <4>1. \A n \in Module : finalized[n] = Functions
        BY <3>2, SMT DEF Finalized, Finalizing
      <4>2. UNCHANGED finalized
        BY <3>2, Zenon DEF Finalized, progress
      <4> QED BY <4>1, <4>2
    <3>3. CASE FinalizeFails
      BY <3>3, SMT DEF FinalizeFails
    <3>4. CASE Shutdown \/ Finalize \/ Exit
      BY <3>4, Zenon DEF Shutdown, Finalize, Exit
    <3> QED BY <1>3, <3>1, <3>2, <3>3, <3>4 DEF Teardown
  <2>5. result' = 0 => result = 0
    BY <2>2, SMT
  <2> QED BY <2>1, <2>3, <2>4, <2>5, Zenon DEF Passing
<1>4. CASE Release
  <2>1. /\ UNCHANGED <<patched, run_constructors, run_jni, run_game, constructors_started,
                       constructors_completed, result>>
        /\ pc' \notin {"passed", "gate", "exports", "display", "jni", "game", "exit"}
    BY <1>4, ReleaseFrame, Zenon DEF env, progress
  <2>2. pc' # "exited" => status' = 1
    BY <1>4, Zenon DEF Passing, Release, Unmap, ReleaseHosts
  <2> QED BY <2>1, <2>2, Zenon DEF Passing
<1>5. CASE UNCHANGED vars
  BY <1>5 DEF Passing, vars, env, loaded, progress
<1> QED BY <1>1, <1>2, <1>3, <1>4, <1>5 DEF Next, Leave, Teardown, Release

\* Every step preserves what is known of the stages the guest has passed.
LEMMA ReachingStep ==
  ASSUME Running, Finalizing, Passing, Reaching, [Next]_vars
  PROVE  Reaching'
<1>1. CASE Load
  <2>1. /\ UNCHANGED <<env, progress, result>>
        /\ pc \notin {"game", "exited"} /\ pc' \notin {"game", "exit", "exited"}
    BY <1>1, LoadFrame, Zenon DEF Before
  <2>2. pc' = "passed" => ~run_constructors
    BY <1>1, Zenon DEF Load, Map, MapFails, Describe, DescribeFails, AllMapped, Census,
       CensusFails, Preflight, PreflightFails, Relocate, RelocateFails, RetainHosts, Patch,
       PatchFails
  <2> QED BY <2>1, <2>2, Zenon DEF Reaching, env, progress
<1>2. CASE RunGuest
  <2>1. UNCHANGED <<run_constructors, run_jni, run_game>> /\ pc' # "exit" /\ pc # "exited"
    BY <1>2, GuestFrame, Zenon DEF env
  <2>2. jni_started' => run_constructors /\ run_jni
    BY <1>2, Zenon DEF Reaching, Passing, Running, InGuest, RunGuest, Gate, GateRefuses, Construct,
       ConstructFails, Constructed, OpenObb, OpenObbFails, StartPlatform, StartPlatformFails,
       JniStarted, JniFails, GameFails, GameReturns, Passed, progress
  <2>3. pc' = "game" => jni_started'
    BY <1>2, Zenon DEF RunGuest, Gate, GateRefuses, Construct,
       ConstructFails, Constructed, OpenObb, OpenObbFails, StartPlatform, StartPlatformFails,
       JniStarted, JniFails, GameFails, GameReturns, Passed
  <2>4. pc' = "passed" \/ result' = 0 => (run_constructors /\ run_jni => jni_started' /\ ~run_game)
    BY <1>2, Zenon DEF Reaching, RunGuest, Gate, GateRefuses, Construct,
       ConstructFails, Constructed, OpenObb, OpenObbFails, StartPlatform, StartPlatformFails,
       JniStarted, JniFails, GameFails, GameReturns, Passed, progress
  <2>5. pc' # "exited" => ~game_returned'
    BY <1>2, <2>1, Zenon DEF Reaching, RunGuest, Gate, GateRefuses, Construct,
       ConstructFails, Constructed, OpenObb, OpenObbFails, StartPlatform, StartPlatformFails,
       JniStarted, JniFails, GameFails, GameReturns, Passed, progress
  <2> QED BY <2>1, <2>2, <2>3, <2>4, <2>5, Zenon DEF Reaching
<1>3. CASE Teardown
  <2>1. /\ UNCHANGED <<run_constructors, run_jni, run_game>>
        /\ pc' \notin {"passed", "game"} /\ pc # "exited"
    BY <1>3, TeardownFrame, Zenon DEF env
  <2>2. UNCHANGED <<jni_started, game_returned>>
    BY <1>3, Zenon DEF Teardown, Shutdown, RunDestructors, Finalize, FinalizeFails, Finalized, Exit,
       progress
  <2>3. result' = 0 => result = 0
    <3>1. result' \in {result, 1}
      BY <1>3, Zenon DEF Teardown, Shutdown, RunDestructors, Finalize, FinalizeFails, Finalized, Exit
    <3> QED BY <3>1, SMT
  <2>4. pc' = "exit" => destructors_run'
    BY <1>3, Zenon DEF Finalizing, Teardown, Shutdown, RunDestructors, Finalize, FinalizeFails,
       Finalized, Exit, progress
  <2> QED BY <2>1, <2>2, <2>3, <2>4, Zenon DEF Reaching
<1>4. CASE Release
  <2>1. /\ pc = "done" /\ pc' \in {"done", "exited"}
        /\ UNCHANGED <<run_constructors, run_jni, run_game, jni_started, game_returned, result>>
    BY <1>4, ReleaseFrame DEF env, progress
  <2> QED BY <2>1, Zenon DEF Reaching
<1>5. CASE UNCHANGED vars
  BY <1>5 DEF Reaching, vars, env, progress
<1> QED BY <1>1, <1>2, <1>3, <1>4, <1>5 DEF Next, Leave, Teardown, Release

\* The process exits with 0 only from exit, from the game, or with no guest started.
LEMMA ZeroStep ==
  ASSUME Running, Constructing, GuestKeepsItsCode, Passing, Reaching, ZeroMeansPassed, [Next]_vars
  PROVE  ZeroMeansPassed'
<1>1. CASE GameReturns
  <2>1. pc = "game" /\ game_returned' /\ UNCHANGED <<loaded, env, constructors_started,
          constructors_completed, called, jni_started>>
    BY <1>1, Zenon DEF GameReturns
  <2>2. /\ constructors_started /\ patched /\ run_constructors /\ run_jni /\ run_game /\ jni_started
        /\ constructors_completed /\ \A n \in Module : called[n] = Functions
    BY <2>1, Zenon DEF Running, InGuest, Constructing, GuestKeepsItsCode, Passing, Reaching
  <2> QED BY <2>1, <2>2, Zenon DEF ZeroMeansPassed, loaded, env
<1>2. CASE Exit
  <2>1. /\ pc = "exit" /\ status' = result
        /\ UNCHANGED <<patched, run_constructors, run_jni, run_game, progress>>
    BY <1>2, Zenon DEF Exit, loaded, env
  <2>2. ~game_returned /\ destructors_run /\ constructors_started /\ run_constructors
    BY <2>1, Zenon DEF Running, InGuest, Passing, Reaching
  <2>3. result = 0 =>
          /\ patched /\ constructors_completed /\ \A n \in Module : called[n] = Functions
          /\ jni_started <=> run_jni
          /\ ~(run_jni /\ run_game)
          /\ \A n \in Module : finalized[n] = Functions
    BY <2>1, <2>2, Zenon DEF Passing, Reaching, Constructing
  <2> QED BY <2>1, <2>2, <2>3, Zenon DEF ZeroMeansPassed, progress
<1>3. CASE ReleaseHosts
  <2>1. /\ pc = "done" /\ status' = result /\ ~constructors_started
        /\ UNCHANGED <<patched, run_constructors, run_jni, run_game, progress>>
    BY <1>3, Zenon DEF ReleaseHosts, env
  <2>2. ~constructors_completed /\ ~game_returned
    BY <2>1, Zenon DEF Constructing, Reaching
  <2>3. result = 0 => patched /\ ~run_constructors /\ ~jni_started
    BY <2>2, Zenon DEF Passing, Reaching
  <2> QED BY <2>1, <2>2, <2>3, Zenon DEF ZeroMeansPassed, progress
<1>4. CASE Load \/ (RunGuest /\ ~GameReturns) \/ (Teardown /\ ~Exit) \/ Unmap
  <2>1. pc' # "exited"
    <3>1. CASE Load
      BY <3>1, LoadFrame, Zenon DEF Before
    <3>2. CASE RunGuest /\ ~GameReturns
      BY <3>2, Zenon DEF RunGuest, Gate, GateRefuses, Construct, ConstructFails, Constructed,
         OpenObb, OpenObbFails, StartPlatform, StartPlatformFails, JniStarted, JniFails,
         GameFails, Passed
    <3>3. CASE Teardown /\ ~Exit
      BY <3>3, Zenon DEF Teardown, Shutdown, RunDestructors, Finalize, FinalizeFails, Finalized
    <3>4. CASE Unmap
      BY <3>4, Zenon DEF Unmap
    <3> QED BY <1>4, <3>1, <3>2, <3>3, <3>4
  <2> QED BY <2>1, Zenon DEF ZeroMeansPassed
<1>5. CASE UNCHANGED vars
  BY <1>5 DEF ZeroMeansPassed, vars, env, loaded, progress
<1> QED BY <1>1, <1>2, <1>3, <1>4, <1>5 DEF Next, Leave, Teardown

-----------------------------------------------------------------------------
\* The inductive invariant holds in every reachable state.
THEOREM Invariance == Spec => []IInv
<1>1. IInv /\ [Next]_vars => IInv'
  BY TypeStep, CountingStep, BindingStep, RunningStep, ConstructingStep, FinalizingStep,
     HoldingStep, PassingStep, ReachingStep, CodeStep, MirrorStep, ZeroStep DEF IInv
<1> QED BY <1>1, InitInv, PTL DEF Spec

\* The types hold in every reachable state.
THEOREM TypeCorrect == Spec => []TypeOK
  BY Invariance, PTL DEF IInv

(***************************************************************************)
(* main never lets guest code run in an incomplete image, and never unmaps *)
(* an image or closes a host library once guest code has run.              *)
(***************************************************************************)
THEOREM GuestCodeStays == Spec => []GuestKeepsItsCode
  BY Invariance, PTL DEF IInv

(***************************************************************************)
(* main calls the finalisers in the reverse of the order in which it       *)
(* called the initialisers, after the registered destructors, and only     *)
(* when all initialisers returned.                                         *)
(***************************************************************************)
THEOREM TeardownMirrors == Spec => []FinalizersMirror
  BY Invariance, PTL DEF IInv

(***************************************************************************)
(* Whatever failed, the process ends with its devices closed, and with     *)
(* nothing mapped when no guest code has run.                              *)
(***************************************************************************)
THEOREM NothingLeaks == Spec => []NothingHeld
<1>1. IInv => NothingHeld
  BY SMT DEF IInv, TypeOK, Counting, Holding, NothingHeld
<1> QED BY <1>1, Invariance, PTL

(***************************************************************************)
(* main's exit status 0 stands for the stages that were asked for, by the  *)
(* nesting of main's tests, and for no other.                              *)
(***************************************************************************)
THEOREM ZeroIsEarned == Spec => []ZeroMeansPassed
  BY Invariance, PTL DEF IInv

-----------------------------------------------------------------------------
(* The display.                                                            *)

Probing == {"probe_init", "probe_window", "probe_context", "probe_thunks", "probe_frames",
            "probe_close", "probe_devices"}
Starting == {"start_init", "start_window", "start_context", "start_thunks", "start_functions"}
Framing == {"capture", "cursor", "swap"}
Stopping == {"audio", "controller", "context", "window", "sdl", "library", "memset"}
Fixed == {"library", "sdl", "window", "context", "controller"}

\* Where main is when a routine of the display runs.
Places ==
  /\ at \in {"idle", "probed", "up", "failed", "stopped", "exit"} \cup Probing \cup Starting \cup Framing
            \cup Stopping
  /\ at \in Probing => pc = "preflight"
  /\ ~constructors_started => at \in {"idle", "probed"} \cup Probing
  /\ constructors_started /\ pc \in {"finalize", "finalizers", "exit", "exited"} => at = "exit"

\* Once started, the display only draws and stops.
Started ==
  ever => constructors_started /\ at \in {"up", "failed", "stopped", "exit"} \cup Framing \cup Stopping

\* Main waits for its own start of the audio.
Mixing ==
  /\ calls \in [AudioCall -> UnderWay \cup {"none", "done", "failed", "crashed"}]
  /\ calls["mixer"] \in UnderWay => pc = "game" /\ at = "capture"

\* What is open before each call.
Contents ==
  /\ open \subseteq Fixed \cup AudioCall /\ audio_device \in AudioCall \cup {"none"}
  /\ "sdl" \in open => "library" \in open
  /\ "window" \in open \/ "controller" \in open => "sdl" \in open
  /\ "sdl" \notin open => open \subseteq Fixed
  /\ "context" \in open => "window" \in open
  /\ at \in {"idle", "memset", "stopped", "exit"} => open = {}
  /\ at = "idle" => ~passed
  /\ at = "probed" => open = {} \/ (open = {"library"} /\ incomplete /\ ~passed)
  /\ at \in {"probe_init", "start_init"} => open = {"library"}
  /\ at \in {"probe_window", "start_window", "start_thunks", "start_functions"} => "sdl" \in open
  /\ at \in {"up", "failed"} \cup Framing => "sdl" \in open
  /\ at \in {"probe_context", "start_context"} => "window" \in open
  /\ at = "window" => "context" \notin open
  /\ at = "library" => open \subseteq {"library"}

\* After a start that binds them, the thunks hold the driver's last mapping.
Bound ==
  /\ at = "start_functions" => thunks = {load}
  /\ ever => thunks = {load}

\* Until a start of the audio meets the stop, it finds the runtime as it was.
Meeting ==
  /\ started => ever /\ at \notin {"stopped", "exit"}
  /\ ~met =>
       /\ ~Crashed /\ (audio_device = "none" \/ started)
       /\ \A c \in AudioCall : calls[c] \in UnderWay =>
            started /\ at \in {"up", "failed"} \cup Framing

DInv == Places /\ Started /\ Mixing /\ Contents /\ Bound /\ Meeting

\* No start of the audio has the name of something else.
LEMMA Names ==
  /\ "mixer" \in AudioCall
  /\ \A c \in AudioCall : c \notin Fixed /\ c # "none"
<1>1. {"library", "sdl", "window", "context", "controller", "mixer", "none"} \cap GuestCalls = {}
  BY DisplayConstants DEF DisplayConstants
<1>2. ASSUME NEW c \in AudioCall PROVE c \notin Fixed /\ c # "none"
  <2>1. CASE c = "mixer"
    BY <2>1, SMT DEF Fixed
  <2>2. CASE c \in GuestCalls
    BY <1>1, <2>2, SMT DEF Fixed
  <2> QED BY <2>1, <2>2 DEF AudioCall
<1> QED BY <1>2, Zenon DEF AudioCall

LEMMA DisplayInitInv == DisplayInit => DInv
<1> SUFFICES ASSUME DisplayInit PROVE DInv
  OBVIOUS
<1>1. /\ at = "idle" /\ open = {} /\ audio_device = "none" /\ ~started /\ ~ever /\ ~constructors_started
      /\ pc = "map" /\ passed = FALSE
      /\ calls = [c \in AudioCall |-> "none"]
  BY Zenon DEF DisplayInit, Init
<1>2. "none" \notin UnderWay /\ "none" # "crashed"
  BY Zenon DEF UnderWay
<1>3. \A c \in AudioCall : calls[c] = "none"
  BY <1>1, Zenon
<1>4. Mixing /\ ~Crashed
  BY <1>1, <1>2, <1>3, Names, Zenon DEF Mixing, Crashed
<1>5. Meeting
  BY <1>1, <1>2, <1>3, <1>4, Zenon DEF Meeting
<1>6. Places /\ Started /\ Contents /\ Bound
  BY <1>1, Zenon DEF Places, Started, Contents, Bound, Probing, Starting, Framing, Stopping
<1> QED BY <1>4, <1>5, <1>6 DEF DInv

\* Boot's state stands still while the display works.
LEMMA DisplayStepFrame ==
  ASSUME [DisplayNext]_<<vars, displayvars>>
  PROVE  [Next]_vars
<1>1. CASE DisplayStep
  BY <1>1 DEF DisplayStep
<1>2. CASE BootStep
  BY <1>2 DEF BootStep
<1>3. CASE UNCHANGED <<vars, displayvars>>
  BY <1>3
<1> QED BY <1>1, <1>2, <1>3, Zenon DEF DisplayNext

(***************************************************************************)
(* The process with its display is the process of Boot: each call to SDL   *)
(* or GL is a step inside one of main's stages.                            *)
(***************************************************************************)
THEOREM DisplayImplementsBoot == DisplaySpec => Spec
<1>1. DisplayInit => Init
  BY DEF DisplayInit
<1> QED BY <1>1, DisplayStepFrame, PTL DEF DisplaySpec, Spec

(***************************************************************************)
(* So, with the display, guest code keeps its images and host libraries.   *)
(***************************************************************************)
THEOREM DisplayKeepsGuestCode == DisplaySpec => []GuestKeepsItsCode
  BY DisplayImplementsBoot, GuestCodeStays, PTL

-----------------------------------------------------------------------------
\* The places of the stop.
LEMMA StopPlaces ==
  Len(StopOrder) = 8 /\ \A p : p \in Stopping <=> \E n \in 1 .. Len(StopOrder) - 1 : p = StopOrder[n]
<1>1. Len(StopOrder) = 8
  BY SMT DEF StopOrder
<1>2. /\ StopOrder[1] = "audio" /\ StopOrder[2] = "controller" /\ StopOrder[3] = "context"
      /\ StopOrder[4] = "window" /\ StopOrder[5] = "sdl" /\ StopOrder[6] = "library"
      /\ StopOrder[7] = "memset"
  BY SMT DEF StopOrder
<1>3. \A n \in 1 .. 7 : n = 1 \/ n = 2 \/ n = 3 \/ n = 4 \/ n = 5 \/ n = 6 \/ n = 7
  BY SMT
<1>4. 1 \in 1 .. 7 /\ 2 \in 1 .. 7 /\ 3 \in 1 .. 7 /\ 4 \in 1 .. 7 /\ 5 \in 1 .. 7 /\ 6 \in 1 .. 7 /\ 7 \in 1 .. 7
  BY SMT
<1>5. Len(StopOrder) - 1 = 7
  BY <1>1, SMT
<1>6. ASSUME NEW p, p \in Stopping PROVE \E n \in 1 .. 7 : p = StopOrder[n]
  BY <1>2, <1>4, <1>6, Zenon DEF Stopping
<1>7. ASSUME NEW n \in 1 .. 7 PROVE StopOrder[n] \in Stopping
  BY <1>2, <1>3, Zenon DEF Stopping
<1> QED BY <1>1, <1>5, <1>6, <1>7, Zenon

\* The stop closes in its order.
LEMMA StopEffects ==
  ASSUME Stop
  PROVE  /\ \/ at = "audio" /\ at' = "controller" /\ open' = open \ {audio_device}
            \/ at = "controller" /\ at' = "context" /\ open' = open \ {"controller"}
            \/ at = "context" /\ at' = "window" /\ open' = open \ {"context"}
            \/ at = "window" /\ at' = "sdl" /\ open' = open \ {"window"}
            \/ /\ at = "sdl" /\ at' = "library"
               /\ open' = open \ ({"sdl", "window", "context", "controller"} \cup AudioCall)
            \/ at = "library" /\ at' = "memset" /\ open' = open \ {"library"}
            \/ /\ at = "memset" /\ at' \in {"stopped", "exit"} /\ open' = open \ {"memset"}
               /\ ~started' /\ audio_device' = "none"
         /\ at # "memset" => (started' <=> started) /\ audio_device' = audio_device
         /\ UNCHANGED <<incomplete, passed, thunks, ever>>
<1>1. Len(StopOrder) - 1 = 7
  BY StopPlaces, SMT
<1>2. PICK n \in 1 .. 7 :
        /\ at = StopOrder[n]
        /\ at' = IF StopOrder[n + 1] = "stopped" /\ pc # "display" THEN "exit" ELSE StopOrder[n + 1]
        /\ open' = open \ Closes(at)
        /\ started' = (started /\ at # "memset")
        /\ audio_device' = IF at = "memset" THEN "none" ELSE audio_device
        /\ UNCHANGED <<incomplete, graphics, passed, thunks, ever, drawing>>
  BY <1>1, Zenon DEF Stop
<1>3. n = 1 \/ n = 2 \/ n = 3 \/ n = 4 \/ n = 5 \/ n = 6 \/ n = 7
  BY SMT
<1>a. /\ StopOrder[1] = "audio" /\ StopOrder[2] = "controller" /\ StopOrder[3] = "context"
      /\ StopOrder[4] = "window" /\ StopOrder[5] = "sdl" /\ StopOrder[6] = "library"
      /\ StopOrder[7] = "memset" /\ StopOrder[8] = "stopped"
  BY SMT DEF StopOrder
<1>b. /\ n = 1 => n + 1 = 2
      /\ n = 2 => n + 1 = 3
      /\ n = 3 => n + 1 = 4
      /\ n = 4 => n + 1 = 5
      /\ n = 5 => n + 1 = 6
      /\ n = 6 => n + 1 = 7
      /\ n = 7 => n + 1 = 8
  BY SMT
<1>c. /\ at = "audio" => Closes(at) = {audio_device}
      /\ at = "sdl" => Closes(at) = {"sdl", "window", "context", "controller"} \cup AudioCall
      /\ at \notin {"audio", "sdl"} => Closes(at) = {at}
  BY DEF Closes
<1>d. at # "memset" => (started' <=> started) /\ audio_device' = audio_device
  BY <1>2, Zenon
<1>4. CASE n \in {1, 2, 3}
  BY <1>2, <1>4, <1>a, <1>b, <1>c, <1>d, Zenon
<1>5. CASE n \in {4, 5, 6}
  BY <1>2, <1>5, <1>a, <1>b, <1>c, <1>d, Zenon
<1>6. CASE n = 7
  BY <1>2, <1>6, <1>a, <1>b, <1>c, <1>d, Zenon
<1> QED BY <1>3, <1>4, <1>5, <1>6, Zenon

\* Where Probe goes.
LEMMA ProbeFrame ==
  ASSUME Probe
  PROVE  /\ pc = "preflight"
         /\ at \in {"idle"} \cup Probing /\ at' \in {"probed"} \cup Probing
         /\ UNCHANGED <<started, ever, audio_device>>
  BY Zenon DEF Probe, ProbeOpens, ProbeInit, ProbeInitFails, ProbeWindow, ProbeContext, ProbeThunks,
     ProbeFrames, ProbeClose, ProbeDevices, Steps, Binds, Probing, run

\* Where Start goes.
LEMMA StartFrame ==
  ASSUME Start
  PROVE  /\ pc = "display"
         /\ at \in {"probed"} \cup Starting /\ at' \in {"up", "audio"} \cup Starting
         /\ UNCHANGED <<incomplete, passed, audio_device>>
  BY Zenon DEF Start, StartOpens, StartInit, StartWindow, StartContext, StartFails, StartThunks,
     StartFunctions, Opens, Steps, Binds, Starting

\* Where a frame goes: it opens and closes nothing.
LEMMA FrameFrame ==
  ASSUME Frame
  PROVE  /\ \/ pc = "game" /\ at \in {"up"} \cup Framing /\ at' \in {"up"} \cup Framing
            \/ UNCHANGED at
         /\ UNCHANGED <<open, incomplete, passed, thunks, started, ever, audio_device>>
<1>1. CASE Render
  BY <1>1, Zenon DEF Render, Steps, Framing, run, sdl
<1>2. CASE Capture
  BY <1>2, Zenon DEF Capture, Steps, Framing, run, sdl
<1>3. CASE DrawCursor
  BY <1>3, Zenon DEF DrawCursor, Steps, Framing, run, sdl
<1>4. CASE CallGL
  BY <1>4, Zenon DEF CallGL, run, sdl
<1>5. CASE Swap
  BY <1>5, Zenon DEF Swap, Steps, Framing, run, sdl
<1> QED BY <1>1, <1>2, <1>3, <1>4, <1>5 DEF Frame

\* What a step of main leaves alone, and where it may be taken.
LEMMA BootFrame ==
  ASSUME BootStep, Running
  PROVE  /\ UNCHANGED <<at, open, incomplete, passed, thunks, started, ever, audio_device, calls>>
         /\ pc = "game" => at \in {"up", "failed", "exit"}
         /\ constructors_started => constructors_started'
         /\ at \in Probing => pc # "preflight"
         /\ pc' \in {"finalize", "finalizers", "exit", "exited"} /\ constructors_started' =>
              /\ constructors_started
              /\ pc \in {"finalize", "finalizers", "exit"} \/ at = "exit"
<1>1. UNCHANGED <<at, open, incomplete, passed, thunks, started, ever, audio_device, calls>>
  BY Zenon DEF BootStep, sdl, run
<1>2. Next /\ StageEnds
  BY DEF BootStep
<1>a. pc = "game" => at \in {"up", "failed", "exit"}
  BY <1>2, Zenon DEF StageEnds
<1>3. at \in Probing => pc # "preflight"
  BY <1>2, Zenon DEF StageEnds, Probing
<1>4. CASE Load
  BY <1>1, <1>3, <1>4, <1>a, LoadFrame, Zenon DEF Running, Before, progress
<1>5. CASE RunGuest
  <2>1. constructors_started => constructors_started'
    BY <1>5, Zenon DEF RunGuest, Gate, GateRefuses, Construct, ConstructFails, Constructed, OpenObb,
       OpenObbFails, StartPlatform, StartPlatformFails, JniStarted, JniFails, GameFails,
       GameReturns, Passed, progress
  <2>2. CASE GameReturns
    <3>1. pc = "game" /\ pc' = "exited"
      BY <2>2 DEF GameReturns, Goto
    <3>2. at = "exit"
      BY <3>1, <1>2, Zenon DEF StageEnds
    <3> QED BY <3>1, <3>2, <2>1, <1>1, <1>3, <1>a, Zenon DEF Running, InGuest
  <2>3. CASE ~GameReturns
    <3>1. pc' # "exited"
      BY <2>3, <1>5, Zenon DEF RunGuest, Gate, GateRefuses, Construct, ConstructFails, Constructed,
         OpenObb, OpenObbFails, StartPlatform, StartPlatformFails, JniStarted, JniFails,
         GameFails, Passed
    <3> QED BY <3>1, <2>1, <1>1, <1>3, <1>5, <1>a, GuestFrame, Zenon
  <2> QED BY <2>2, <2>3
<1>6. CASE Teardown
  <2>1. /\ pc \in {"done", "finalize", "finalizers", "exit"} /\ UNCHANGED constructors_started
        /\ pc = "done" => constructors_started
    BY <1>6, TeardownFrame
  <2>2. pc = "done" => at = "exit"
    BY <2>1, <1>2, Zenon DEF StageEnds
  <2> QED BY <2>1, <2>2, <1>1, <1>3, <1>a, Zenon
<1>7. CASE Release
  <2>1. ~constructors_started /\ ~constructors_started'
    BY <1>7, ReleaseFrame DEF progress
  <2> QED BY <2>1, <1>1, <1>3, <1>a, Zenon
<1> QED BY <1>2, <1>4, <1>5, <1>6, <1>7, Zenon DEF Next, Leave, Teardown, Release

\* Where a start of the audio is taken, and where it goes.
LEMMA AudioFrame ==
  ASSUME Mixing, AudioStart
  PROVE  /\ UNCHANGED <<incomplete, passed, thunks, started, ever>>
         /\ pc # "exited"
         /\ at' = at \/ (pc = "game" /\ at = "capture" /\ at' = "failed")
         /\ \E c \in AudioCall, p \in UnderWay \cup {"done", "failed", "crashed"} :
              /\ calls' = [calls EXCEPT ![c] = p]
              /\ at' = at \/ c = "mixer"
              /\ p \in UnderWay /\ c = "mixer" => pc = "game" /\ at = "capture" /\ at' = at
<1>1. PICK c \in AudioCall :
        pc # "exited" /\ (AudioChecks(c) \/ AudioOpens(c) \/ AudioStores(c) \/ AudioReports(c))
  BY DEF AudioStart
<1>2. calls["mixer"] \in UnderWay => pc = "game" /\ at = "capture"
  BY DEF Mixing
<1>3. CASE AudioChecks(c)
  BY <1>1, <1>3, Zenon DEF AudioChecks, Reaches, UnderWay, sdl, run
<1>4. CASE AudioOpens(c)
  <2>1. UNCHANGED <<at, incomplete, passed, thunks, started, ever>> /\ calls[c] \in UnderWay
    BY <1>4, Zenon DEF AudioOpens, UnderWay, run
  <2>2. \E p \in UnderWay \cup {"done", "failed", "crashed"} : calls' = [calls EXCEPT ![c] = p]
    BY <1>4, Zenon DEF AudioOpens, UnderWay, Reaches
  <2> QED BY <1>1, <1>2, <2>1, <2>2, Zenon
<1>5. CASE AudioStores(c)
  <2>1. UNCHANGED <<at, incomplete, passed, thunks, started, ever>> /\ calls[c] \in UnderWay
    BY <1>5, Zenon DEF AudioStores, UnderWay, run
  <2>2. \E p \in UnderWay \cup {"done", "failed", "crashed"} : calls' = [calls EXCEPT ![c] = p]
    BY <1>5, Zenon DEF AudioStores, UnderWay, Reaches
  <2> QED BY <1>1, <1>2, <2>1, <2>2, Zenon
<1>6. CASE AudioReports(c)
  <2>1. /\ UNCHANGED <<incomplete, passed, thunks, started, ever>> /\ calls[c] \in UnderWay
        /\ at' = at \/ (c = "mixer" /\ at' = "failed")
    BY <1>6, Zenon DEF AudioReports, UnderWay, sdl, run
  <2>2. \E p \in {"done", "failed", "crashed"} : calls' = [calls EXCEPT ![c] = p]
    BY <1>6, Zenon DEF AudioReports, Reaches
  <2>3. \A p \in {"done", "failed", "crashed"} : p \notin UnderWay
    BY SMT DEF UnderWay
  <2> QED BY <1>1, <1>2, <2>1, <2>2, <2>3, Zenon
<1> QED BY <1>1, <1>3, <1>4, <1>5, <1>6, Zenon

LEMMA PlacesStep ==
  ASSUME Places, Mixing, Running, Running', [DisplayNext]_<<vars, displayvars>>
  PROVE  Places'
<1>1. CASE Probe /\ UNCHANGED vars
  <2>1. ~constructors_started
    BY <1>1, ProbeFrame, Zenon DEF Running, Before
  <2> QED BY <1>1, <2>1, ProbeFrame, Zenon DEF Places, vars, progress
<1>2. CASE Start /\ UNCHANGED vars
  <2>1. constructors_started
    BY <1>2, StartFrame, Zenon DEF Running, InGuest
  <2>2. constructors_started' /\ pc' = "display"
    BY <1>2, <2>1, StartFrame DEF vars, progress
  <2>3. at' \in {"up", "audio"} \cup Starting
    BY <1>2, StartFrame
  <2>4. at' \notin Probing
    BY <2>3, Zenon DEF Starting, Probing
  <2> QED BY <2>2, <2>3, <2>4, Zenon DEF Places, Stopping
<1>3. CASE StopBegins /\ UNCHANGED vars
  BY <1>3, Zenon DEF StopBegins, Places, Running, InGuest, Stopping, Probing, vars, progress
<1>4. CASE Stop /\ UNCHANGED vars
  BY <1>4, StopEffects, Zenon DEF Places, Stopping, Probing, vars, progress
<1>5. CASE AudioStart /\ UNCHANGED vars
  <2>1. pc = "game" => constructors_started
    BY Zenon DEF Running, InGuest
  <2>2. at' = at \/ (pc = "game" /\ at = "capture" /\ at' = "failed")
    BY <1>5, AudioFrame
  <2> QED BY <1>5, <2>1, <2>2, Zenon DEF Places, Probing, vars, progress
<1>6. CASE Frame /\ UNCHANGED vars
  BY <1>6, FrameFrame, Zenon DEF Places, Running, InGuest, Framing, Probing, vars, progress
<1>7. CASE BootStep
  <2>1. CASE constructors_started
    BY <1>7, <2>1, BootFrame, Zenon DEF Places
  <2>2. CASE ~constructors_started
    BY <1>7, <2>2, BootFrame, Zenon DEF Places
  <2> QED BY <2>1, <2>2
<1>8. CASE UNCHANGED <<vars, displayvars>>
  BY <1>8 DEF Places, vars, progress, displayvars
<1> QED BY <1>1, <1>2, <1>3, <1>4, <1>5, <1>6, <1>7, <1>8, Zenon DEF DisplayNext, DisplayStep

LEMMA StartedStep ==
  ASSUME Places, Started, Mixing, Running, [DisplayNext]_<<vars, displayvars>>
  PROVE  Started'
<1>1. CASE Probe /\ UNCHANGED vars
  <2>1. ~constructors_started /\ UNCHANGED ever
    BY <1>1, ProbeFrame, Zenon DEF Running, Before
  <2> QED BY <2>1, Zenon DEF Started
<1>2. CASE Start /\ UNCHANGED vars
  <2>1. constructors_started' /\ at \in {"probed"} \cup Starting
    BY <1>2, StartFrame, Zenon DEF Running, InGuest, vars, progress
  <2>2. ~ever
    BY <2>1, Zenon DEF Started, Starting, Framing, Stopping
  <2>3. ever' => at' = "up"
    BY <1>2, <2>2, Zenon DEF Start, StartOpens, StartInit, StartWindow, StartContext, StartFails,
       StartThunks, StartFunctions, Opens, Steps, run
  <2> QED BY <2>1, <2>3, Zenon DEF Started
<1>3. CASE StopBegins /\ UNCHANGED vars
  BY <1>3, Zenon DEF StopBegins, Started, Stopping, vars, progress, run
<1>4. CASE Stop /\ UNCHANGED vars
  BY <1>4, StopEffects, Zenon DEF Started, Stopping, vars, progress
<1>5. CASE AudioStart /\ UNCHANGED vars
  <2>1. at' = at \/ at' = "failed"
    BY <1>5, AudioFrame, Zenon
  <2> QED BY <1>5, <2>1, AudioFrame, Zenon DEF Started, vars, progress
<1>6. CASE Frame /\ UNCHANGED vars
  BY <1>6, FrameFrame, Zenon DEF Started, vars, progress
<1>7. CASE BootStep
  BY <1>7, BootFrame, Zenon DEF Started
<1>8. CASE UNCHANGED <<vars, displayvars>>
  BY <1>8 DEF Started, vars, progress, displayvars, run
<1> QED BY <1>1, <1>2, <1>3, <1>4, <1>5, <1>6, <1>7, <1>8, Zenon DEF DisplayNext, DisplayStep

LEMMA MixingStep ==
  ASSUME Mixing, Running, [DisplayNext]_<<vars, displayvars>>
  PROVE  Mixing'
<1> DEFINE InGame == pc = "game" /\ at = "capture"
<1>1. CASE UNCHANGED calls /\ (calls["mixer"] \in UnderWay /\ InGame => InGame')
  BY <1>1 DEF Mixing
<1>2. CASE (Probe \/ Start \/ StopBegins \/ Stop) /\ UNCHANGED calls
  <2>1. ~InGame
    BY <1>2, ProbeFrame, StartFrame, StopEffects, Zenon DEF StopBegins, Probing, Starting
  <2> QED BY <1>1, <1>2, <2>1
<1>3. CASE Frame /\ UNCHANGED calls /\ UNCHANGED vars
  <2>1. CASE calls["mixer"] \in UnderWay /\ InGame
    <3>1. at' = at
      BY <1>3, <2>1, Zenon DEF Frame, Render, Capture, DrawCursor, CallGL, Swap, Steps
    <3> QED BY <1>1, <1>3, <3>1, <2>1 DEF vars
  <2> QED BY <1>1, <1>3, <2>1
<1>4. CASE AudioStart /\ UNCHANGED vars
  <2>1. PICK c \in AudioCall, p \in UnderWay \cup {"done", "failed", "crashed"} :
          /\ calls' = [calls EXCEPT ![c] = p]
          /\ at' = at \/ c = "mixer"
          /\ p \in UnderWay /\ c = "mixer" => InGame /\ at' = at
    BY <1>4, AudioFrame
  <2>2. UNCHANGED pc
    BY <1>4 DEF vars
  <2>3. calls' \in [AudioCall -> UnderWay \cup {"none", "done", "failed", "crashed"}]
    BY <2>1, SMT DEF Mixing
  <2>4. CASE c = "mixer"
    BY <2>1, <2>2, <2>3, <2>4, Names, SMT DEF Mixing
  <2>5. CASE c # "mixer"
    <3>1. calls'["mixer"] = calls["mixer"]
      BY <2>1, <2>5, Names, SMT DEF Mixing
    <3> QED BY <2>2, <2>3, <2>1, <2>5, <3>1, Zenon DEF Mixing
  <2> QED BY <2>4, <2>5
<1>5. CASE BootStep
  <2>1. ~InGame /\ UNCHANGED calls
    BY <1>5, BootFrame, Zenon
  <2> QED BY <1>1, <2>1
<1>6. CASE UNCHANGED <<vars, displayvars>>
  BY <1>1, <1>6 DEF vars, displayvars
<1> QED BY <1>2, <1>3, <1>4, <1>5, <1>6, Zenon DEF DisplayNext, DisplayStep

\* What is open is closed under Needs.
LEMMA NeedsMet ==
  ASSUME Contents
  PROVE  \A d \in open : Needs(d) \subseteq open
<1> SUFFICES ASSUME NEW d \in open PROVE Needs(d) \subseteq open
  OBVIOUS
<1>1. /\ "sdl" \in open => "library" \in open
      /\ "window" \in open \/ "controller" \in open => "sdl" \in open
      /\ "sdl" \notin open => open \subseteq Fixed
      /\ "context" \in open => "window" \in open
  BY DEF Contents
<1>2. Needs(d) = IF d = "library" THEN {} ELSE IF d = "sdl" THEN {"library"}
                 ELSE IF d = "context" THEN {"window"} ELSE {"sdl"}
  BY SMT DEF Needs
<1>3. d \notin {"library", "sdl", "context"} => "sdl" \in open
  BY <1>1, SMT DEF Fixed
<1> QED BY <1>1, <1>2, <1>3, SMT

\* Every call of the probe finds open what it needs.
LEMMA ProbeContents ==
  ASSUME Contents, Probe
  PROVE  Contents'
<1>1. CASE ProbeOpens
  <2>1. /\ pc = "preflight" /\ at = "idle" /\ open = {} /\ UNCHANGED <<passed, audio_device>>
        /\ ~passed
    BY <1>1, Zenon DEF ProbeOpens, Contents
  <2>2. CASE at' = "probed" /\ open' = open
    BY <2>1, <2>2, SMT DEF Contents, Framing, Fixed
  <2>3. CASE at' = "probed" /\ open' = {"library"} /\ incomplete'
    BY <2>1, <2>3, SMT DEF Contents, Framing, Fixed
  <2>4. CASE at' = "probe_init" /\ open' = {"library"}
    BY <2>1, <2>4, SMT DEF Contents, Framing, Fixed
  <2> QED BY <1>1, <2>2, <2>3, <2>4, Zenon DEF ProbeOpens
<1>2. CASE ProbeInit
  BY <1>2, SMT DEF ProbeInit, Steps, Contents, Framing, Fixed
<1>3. CASE ProbeInitFails
  BY <1>3, SMT DEF ProbeInitFails, Steps, Contents, Framing, Fixed
<1>4. CASE ProbeWindow
  <2>1. CASE at' = "probe_context" /\ open' = open \cup {"window"}
    BY <1>4, <2>1, SMT DEF ProbeWindow, Contents, Framing, Fixed
  <2>2. CASE at' = "probe_devices" /\ open' = open
    BY <1>4, <2>2, SMT DEF ProbeWindow, Contents, Framing, Fixed
  <2> QED BY <1>4, <2>1, <2>2, Zenon DEF ProbeWindow
<1>5. CASE ProbeContext
  <2>1. CASE at' = "probe_thunks" /\ open' = open \cup {"context"}
    BY <1>5, <2>1, SMT DEF ProbeContext, Contents, Framing, Fixed
  <2>2. CASE at' = "probe_close" /\ open' = open
    BY <1>5, <2>2, SMT DEF ProbeContext, Contents, Framing, Fixed
  <2> QED BY <1>5, <2>1, <2>2, Zenon DEF ProbeContext
<1>6. CASE ProbeThunks
  BY <1>6, SMT DEF ProbeThunks, Binds, Steps, Contents, Framing, Fixed
<1>7. CASE ProbeFrames
  BY <1>7, SMT DEF ProbeFrames, Steps, Contents, Framing, Fixed
<1>8. CASE ProbeClose
  BY <1>8, SMT DEF ProbeClose, Steps, Contents, Framing, Fixed
<1>9. CASE ProbeDevices
  BY <1>9, SMT DEF ProbeDevices, Steps, Contents, Framing, Fixed
<1> QED BY <1>1, <1>2, <1>3, <1>4, <1>5, <1>6, <1>7, <1>8, <1>9 DEF Probe

LEMMA StartContents ==
  ASSUME Contents, Start
  PROVE  Contents'
<1>1. CASE StartOpens
  <2>1. open' = {"library"}
    <3>1. open' = open \cup {"library"} /\ (open = {} \/ open = {"library"})
      BY <1>1 DEF StartOpens, Opens, Steps, Contents
    <3> QED BY <3>1, SMT
  <2>2. at' = "start_init" /\ UNCHANGED audio_device
    BY <1>1 DEF StartOpens, Opens, Steps
  <2> QED BY <2>1, <2>2, SMT DEF Contents, Framing, Fixed
<1>2. CASE StartInit
  BY <1>2, SMT DEF StartInit, Opens, Steps, Contents, Framing, Fixed
<1>3. CASE StartWindow
  BY <1>3, SMT DEF StartWindow, Opens, Steps, Contents, Framing, Fixed
<1>4. CASE StartContext
  BY <1>4, SMT DEF StartContext, Opens, Steps, Contents, Framing, Fixed
<1>5. CASE StartFails
  BY <1>5, SMT DEF StartFails, Contents, Framing, Fixed
<1>6. CASE StartThunks
  BY <1>6, SMT DEF StartThunks, Binds, Contents, Framing, Fixed
<1>7. CASE StartFunctions
  BY <1>7, SMT DEF StartFunctions, Steps, Contents, Framing, Fixed
<1> QED BY <1>1, <1>2, <1>3, <1>4, <1>5, <1>6, <1>7 DEF Start

\* The stop closes each thing before what it needs, whoever opens audio meanwhile.
LEMMA ContentsStep ==
  ASSUME Contents, Mixing, Running, [DisplayNext]_<<vars, displayvars>>
  PROVE  Contents'
<1>1. CASE StopBegins
  <2>1. at' = "audio" /\ UNCHANGED <<open, incomplete, passed, audio_device>>
    BY <1>1 DEF StopBegins, sdl
  <2> QED BY <2>1, SMT DEF Contents, Framing
<1>2. CASE Stop
  <2>0. /\ audio_device \in AudioCall \cup {"none"} /\ audio_device \notin Fixed
        /\ "none" \in AudioCall \cup {"none"}
        /\ open \subseteq Fixed \cup AudioCall
    BY Names, SMT DEF Contents, Fixed
  <2>1. CASE at = "audio"
    <3>1. at' = "controller" /\ open' = open \ {audio_device} /\ audio_device' = audio_device
      BY <1>2, <2>1, StopEffects, Zenon
    <3>2. \A d \in Fixed : d \in open' <=> d \in open
      BY <3>1, <2>0, SMT
    <3>3. /\ "library" \in open' <=> "library" \in open
          /\ "sdl" \in open' <=> "sdl" \in open
          /\ "window" \in open' <=> "window" \in open
          /\ "controller" \in open' <=> "controller" \in open
          /\ "context" \in open' <=> "context" \in open
      BY <3>2, Zenon DEF Fixed
    <3>4. open' \subseteq open
      BY <3>1, SMT
    <3>5. open' \subseteq Fixed \cup AudioCall /\ ("sdl" \notin open' => open' \subseteq Fixed)
      BY <2>0, <3>3, <3>4, SMT DEF Contents
    <3> QED BY <3>1, <3>3, <3>5, <2>0, <2>1, Zenon DEF Contents, Framing
  <2>2. CASE at = "controller"
    <3>1. at' = "context" /\ open' = open \ {"controller"} /\ audio_device' = audio_device
      BY <1>2, <2>2, StopEffects, Zenon
    <3> QED BY <3>1, <2>2, SMT DEF Contents, Framing, Fixed
  <2>3. CASE at = "context"
    <3>1. at' = "window" /\ open' = open \ {"context"} /\ audio_device' = audio_device
      BY <1>2, <2>3, StopEffects, Zenon
    <3> QED BY <3>1, <2>3, SMT DEF Contents, Framing, Fixed
  <2>4. CASE at = "window"
    <3>1. at' = "sdl" /\ open' = open \ {"window"} /\ audio_device' = audio_device
      BY <1>2, <2>4, StopEffects, Zenon
    <3> QED BY <3>1, <2>4, SMT DEF Contents, Framing, Fixed
  <2>5. CASE at = "sdl"
    <3>1. /\ at' = "library" /\ audio_device' = audio_device
          /\ open' = open \ ({"sdl", "window", "context", "controller"} \cup AudioCall)
      BY <1>2, <2>5, StopEffects, Zenon
    <3>2. open' \subseteq {"library"}
      <4> SUFFICES ASSUME NEW d \in open' PROVE d = "library"
        OBVIOUS
      <4>1. d \in open /\ d \notin {"sdl", "window", "context", "controller"} /\ d \notin AudioCall
        BY <3>1, Zenon
      <4> QED BY <2>0, <4>1, Zenon DEF Fixed
    <3> QED BY <3>1, <3>2, <2>0, SMT DEF Contents, Framing, Fixed
  <2>6. CASE at = "library"
    <3>1. at' = "memset" /\ open' = open \ {"library"} /\ audio_device' = audio_device
      BY <1>2, <2>6, StopEffects, Zenon
    <3>2. open' = {}
      BY <3>1, <2>6, SMT DEF Contents
    <3> QED BY <3>1, <3>2, <2>0, SMT DEF Contents, Framing
  <2>7. CASE at = "memset"
    <3>1. at' \in {"stopped", "exit"} /\ open' = open \ {"memset"} /\ audio_device' = "none"
      BY <1>2, <2>7, StopEffects, Zenon
    <3>2. open' = {}
      BY <3>1, <2>7, SMT DEF Contents
    <3> QED BY <3>1, <3>2, <2>0, SMT DEF Contents, Framing
  <2> QED BY <1>2, <2>1, <2>2, <2>3, <2>4, <2>5, <2>6, <2>7, StopEffects, Zenon
<1>3. CASE AudioStart
  <2>1. /\ UNCHANGED <<incomplete, passed>>
        /\ at' = at \/ (at = "capture" /\ at' = "failed")
    BY <1>3, AudioFrame
  <2>2. PICK c \in AudioCall : AudioChecks(c) \/ AudioOpens(c) \/ AudioStores(c) \/ AudioReports(c)
    BY <1>3 DEF AudioStart
  <2>3. /\ open' = open \/ ("sdl" \in open /\ open' = open \cup {c})
        /\ audio_device' \in {audio_device, c, "none"}
    BY <2>2, Zenon DEF AudioChecks, AudioOpens, AudioStores, AudioReports, sdl
  <2>4. audio_device' \in AudioCall \cup {"none"}
    BY <2>3, SMT DEF Contents
  <2>5. CASE open' = open
    BY <2>1, <2>4, <2>5, SMT DEF Contents, Framing
  <2>6. CASE "sdl" \in open /\ open' = open \cup {c}
    <3>1. c \notin Fixed
      BY Names
    <3>2. at' = at \/ at' = "failed"
      BY <2>1
    <3>3. /\ "library" \in open' <=> "library" \in open
          /\ "sdl" \in open' /\ "sdl" \in open
          /\ "window" \in open' <=> "window" \in open
          /\ "controller" \in open' <=> "controller" \in open
          /\ "context" \in open' <=> "context" \in open
      BY <2>6, <3>1, Zenon DEF Fixed
    <3>4. open' \subseteq Fixed \cup AudioCall
      BY <2>6, SMT DEF Contents
    <3>5. at \notin {"idle", "memset", "stopped", "exit", "probed", "probe_init", "start_init", "library"}
      <4>1. ~(open \subseteq {"library"})
        BY <2>6, Zenon
      <4> QED BY <2>6, <4>1, Zenon DEF Contents
    <3> QED BY <2>1, <2>4, <3>2, <3>3, <3>4, <3>5, Zenon DEF Contents, Framing
  <2> QED BY <2>3, <2>5, <2>6
<1>4. CASE Frame
  <2>1. UNCHANGED <<open, incomplete, passed, audio_device>>
    BY <1>4, FrameFrame
  <2>2. (at' \in {"up"} \cup Framing /\ at \in {"up"} \cup Framing) \/ UNCHANGED at
    BY <1>4, FrameFrame, Zenon
  <2> QED BY <2>1, <2>2, SMT DEF Contents, Framing
<1>5. CASE BootStep
  <2>1. UNCHANGED <<at, open, incomplete, passed, audio_device>>
    BY <1>5, BootFrame
  <2> QED BY <2>1 DEF Contents
<1>6. CASE UNCHANGED <<vars, displayvars>>
  BY <1>6 DEF Contents, displayvars, sdl
<1> QED BY <1>1, <1>2, <1>3, <1>4, <1>5, <1>6, ProbeContents, StartContents, Zenon
        DEF DisplayNext, DisplayStep

\* The driver keeps its mapping once guest code has run.
LEMMA DriverKept ==
  ASSUME HostsHoldDriver, GuestKeepsItsCode, constructors_started
  PROVE  DriverMapped
  BY Zenon DEF DriverMapped, GuestKeepsItsCode

LEMMA BoundStep ==
  ASSUME HostsHoldDriver, GuestKeepsItsCode, Places, Started, Mixing, Bound, Running,
         [DisplayNext]_<<vars, displayvars>>
  PROVE  Bound'
<1>1. constructors_started => load' = load \/ UNCHANGED displayvars
  BY DriverKept, Zenon DEF DisplayNext, Loads
<1>2. CASE Probe
  <2>1. ~constructors_started /\ UNCHANGED ever
    BY <1>2, ProbeFrame, Zenon DEF Running, Before
  <2>2. at' # "start_functions"
    BY <1>2, ProbeFrame, Zenon DEF Probing
  <2> QED BY <2>1, <2>2, Zenon DEF Bound, Started
<1>3. CASE Start
  <2>1. constructors_started
    BY <1>3, StartFrame, Zenon DEF Running, InGuest
  <2>2. load' = load
    BY <1>1, <2>1 DEF displayvars
  <2>3. CASE StartThunks
    <3>1. ~ever /\ UNCHANGED ever
      BY <2>3, Zenon DEF StartThunks, Started, Framing, Stopping, run
    <3>2. at' = "start_functions" => thunks' = {load}
      BY <2>3, Zenon DEF StartThunks, Binds
    <3> QED BY <3>1, <3>2, <2>2, Zenon DEF Bound
  <2>4. CASE StartFunctions
    BY <2>4, <2>2, Zenon DEF StartFunctions, Steps, Bound
  <2>5. CASE ~StartThunks /\ ~StartFunctions
    <3>1. at' # "start_functions" /\ UNCHANGED <<thunks, ever>>
      BY <1>3, <2>5, Zenon DEF Start, StartOpens, StartInit, StartWindow, StartContext, StartFails,
         Opens, Steps, run
    <3> QED BY <3>1, <2>2, Zenon DEF Bound
  <2> QED BY <2>3, <2>4, <2>5
<1>4. CASE StopBegins \/ Stop \/ AudioStart \/ Frame \/ BootStep \/ UNCHANGED displayvars
  <2>1. UNCHANGED <<thunks, ever>>
    <3>1. CASE StopBegins
      BY <3>1, Zenon DEF StopBegins, sdl, run
    <3>2. CASE UNCHANGED displayvars
      BY <3>2 DEF displayvars, sdl, run
    <3> QED BY <1>4, <3>1, <3>2, StopEffects, AudioFrame, FrameFrame, BootFrame, Zenon
  <2>2. at' = "start_functions" => at = "start_functions"
    <3>1. CASE StopBegins \/ AudioStart
      BY <3>1, AudioFrame, Zenon DEF StopBegins
    <3>2. CASE Frame
      BY <3>2, FrameFrame, Zenon DEF Framing
    <3>3. CASE Stop
      BY <3>3, StopEffects, Zenon
    <3>4. CASE UNCHANGED displayvars
      BY <3>4 DEF displayvars
    <3> QED BY <1>4, <3>1, <3>2, <3>3, <3>4, BootFrame, Zenon
  <2>3. at = "start_functions" \/ ever => constructors_started
    BY Zenon DEF Places, Started, Probing
  <2>4. constructors_started => load' = load
    BY <1>1 DEF displayvars
  <2> QED BY <2>1, <2>2, <2>3, <2>4, Zenon DEF Bound
<1> QED BY <1>2, <1>3, <1>4, Zenon DEF DisplayNext, DisplayStep

\* What a step of one start of the audio needs, and what it leaves.
LEMMA AudioEffects ==
  ASSUME Mixing, NEW c \in AudioCall,
         AudioChecks(c) \/ AudioOpens(c) \/ AudioStores(c) \/ AudioReports(c)
  PROVE  /\ calls[c] \in UnderWay \/ started
         /\ \A e \in AudioCall : e # c => calls'[e] = calls[e]
         /\ "library" \in open => calls'[c] # "crashed"
         /\ audio_device' \in {audio_device, "none"} \/ calls[c] \in UnderWay
<1>1. \A p : Reaches(c, p) => calls'[c] = p /\ \A e \in AudioCall : e # c => calls'[e] = calls[e]
  BY Zenon DEF Reaches, Mixing
<1>2. "crashed" \notin UnderWay /\ "done" # "crashed" /\ "failed" # "crashed"
  BY SMT DEF UnderWay
<1>3. CASE AudioChecks(c)
  BY <1>1, <1>2, <1>3, Zenon DEF AudioChecks, UnderWay, sdl
<1>4. CASE AudioOpens(c)
  BY <1>1, <1>2, <1>4, Zenon DEF AudioOpens, UnderWay
<1>5. CASE AudioStores(c)
  BY <1>1, <1>2, <1>5, Zenon DEF AudioStores, UnderWay
<1>6. CASE AudioReports(c)
  BY <1>1, <1>2, <1>6, Zenon DEF AudioReports, UnderWay, sdl
<1> QED BY <1>3, <1>4, <1>5, <1>6

\* While no start of the audio meets the stop.
LEMMA MeetingStep ==
  ASSUME Started, Mixing, Contents, Meeting, Running, [DisplayNext]_<<vars, displayvars>>
  PROVE  Meeting'
<1> DEFINE Up == {"up", "failed"} \cup Framing
<1>1. met => met' \/ UNCHANGED displayvars
  BY Zenon DEF DisplayNext, Meets
<1>2. ASSUME ~met', NEW c \in AudioCall, calls'[c] \in UnderWay, ~UNCHANGED displayvars
      PROVE  at' \notin Stopping
  BY <1>2, StopPlaces, Zenon DEF DisplayNext, Meets
<1>3. ~met => \A c \in AudioCall : calls[c] # "crashed"
  BY Zenon DEF Meeting, Crashed
<1>4. CASE (Probe \/ Start \/ StopBegins \/ Stop) /\ UNCHANGED calls /\ ~UNCHANGED displayvars
  <2>1. /\ started' => ever' /\ at' \notin {"stopped", "exit"}
        /\ started' \/ (~started /\ audio_device' = audio_device) \/ audio_device' = "none"
        /\ at \notin Up \/ at' \in Stopping
    <3>1. CASE Probe
      <4>1. at \in {"idle"} \cup Probing /\ at' \in {"probed"} \cup Probing
            /\ UNCHANGED <<started, ever, audio_device>>
        BY <3>1, ProbeFrame
      <4> QED BY <4>1, Zenon DEF Probing, Framing, Meeting
    <3>2. CASE Start
      <4>1. at \in {"probed"} \cup Starting /\ at' \in {"up", "audio"} \cup Starting
            /\ UNCHANGED audio_device
        BY <3>2, StartFrame
      <4>2. ((started' <=> started) /\ (ever' <=> ever)) \/ (started' /\ ever')
        BY <3>2, Zenon DEF Start, StartOpens, StartInit, StartWindow, StartContext, StartFails,
           StartThunks, StartFunctions, Opens, run
      <4>3. at \notin Up /\ at' \notin {"stopped", "exit"}
        BY <4>1, Zenon DEF Starting, Framing
      <4>4. started => ever
        BY Zenon DEF Meeting
      <4>5. started' => ever'
        BY <4>2, <4>4, Zenon
      <4>6. started' \/ ~started
        BY <4>2, Zenon
      <4>7. audio_device' = audio_device
        BY <4>1
      <4> HIDE DEF Up
      <4> QED BY <4>3, <4>5, <4>6, <4>7, Zenon
    <3>3. CASE StopBegins
      BY <3>3, Zenon DEF StopBegins, Stopping, Meeting, sdl, run
    <3>4. CASE Stop
      BY <3>4, StopEffects, Zenon DEF Framing, Meeting
    <3> QED BY <1>4, <3>1, <3>2, <3>3, <3>4
  <2>2. ASSUME ~met', NEW c \in AudioCall, calls'[c] \in UnderWay PROVE FALSE
    <3>1. at' \notin Stopping
      BY <1>2, <1>4, <2>2
    <3>2. at \in Up
      BY <1>1, <1>4, <2>2, Zenon DEF Meeting
    <3> QED BY <2>1, <3>1, <3>2
  <2>3. ~met' => ~Crashed'
    BY <1>1, <1>3, <1>4, Zenon DEF Crashed
  <2>4. ~met' => audio_device' = "none" \/ started'
    BY <1>1, <1>4, <2>1, Zenon DEF Meeting
  <2> QED BY <2>1, <2>2, <2>3, <2>4, Zenon DEF Meeting
<1>5. CASE ((Frame /\ UNCHANGED calls) \/ BootStep) /\ ~UNCHANGED displayvars
  <2>1. UNCHANGED <<started, ever, audio_device, calls>> /\ (at' \in Up \/ UNCHANGED at)
    BY <1>5, FrameFrame, BootFrame, Zenon
  <2>2. ~met' => ~Crashed'
    BY <1>1, <1>3, <1>5, <2>1, Zenon DEF Crashed
  <2>3. "stopped" \notin Up /\ "exit" \notin Up
    BY Zenon DEF Framing
  <2> HIDE DEF Up
  <2>4. ASSUME ~met', NEW c \in AudioCall, calls'[c] \in UnderWay PROVE started' /\ at' \in Up
    BY <1>1, <1>5, <2>1, <2>4, Zenon DEF Meeting, Up
  <2> QED BY <1>1, <1>5, <2>1, <2>2, <2>3, <2>4, Zenon DEF Meeting, Up
<1>6. CASE AudioStart /\ ~UNCHANGED displayvars
  <2>1. UNCHANGED <<started, ever>> /\ (at' = at \/ at' = "failed")
    BY <1>6, AudioFrame, Zenon
  <2>2. PICK c \in AudioCall : AudioChecks(c) \/ AudioOpens(c) \/ AudioStores(c) \/ AudioReports(c)
    BY <1>6 DEF AudioStart
  <2>3. /\ calls[c] \in UnderWay \/ started
        /\ \A e \in AudioCall : e # c => calls'[e] = calls[e]
        /\ "library" \in open => calls'[c] # "crashed"
        /\ audio_device' \in {audio_device, "none"} \/ calls[c] \in UnderWay
    BY <2>2, AudioEffects
  <2>4. started' => ever' /\ at' \notin {"stopped", "exit"}
    BY <2>1, Zenon DEF Meeting
  <2>5. CASE met'
    BY <2>4, <2>5, Zenon DEF Meeting
  <2>6. CASE ~met'
    <3>1. ~met
      BY <1>1, <1>6, <2>6
    <3>2. started
      BY <2>3, <3>1, Zenon DEF Meeting
    <3>3. at \in Up \cup Stopping
      BY <3>2, Zenon DEF Meeting, Started
    <3>4. at \in Up => "library" \in open
      BY Zenon DEF Contents
    <3>5. calls[c] \in UnderWay => at \in Up
      BY <3>1, Zenon DEF Meeting
    <3>6. ASSUME NEW e \in AudioCall, calls'[e] \in UnderWay PROVE at' \in Up
      <4>1. at' \notin Stopping
        BY <1>2, <1>6, <2>6, <3>6
      <4> QED BY <2>1, <3>3, <4>1, Zenon
    <3>7. calls'[c] # "crashed"
      <4>1. CASE at \in Up
        BY <2>3, <3>4, <4>1
      <4>2. CASE at \notin Up
        <5>1. calls[c] \notin UnderWay
          BY <3>5, <4>2
        <5>2. AudioChecks(c)
          BY <2>2, <5>1, Zenon DEF AudioOpens, AudioStores, AudioReports, UnderWay
        <5> QED BY <5>2, Zenon DEF AudioChecks, Reaches, Mixing
      <4> QED BY <4>1, <4>2
    <3>8. ~Crashed'
      BY <1>3, <2>3, <3>1, <3>7, Zenon DEF Crashed
    <3> QED BY <2>1, <2>4, <3>2, <3>6, <3>8, Zenon DEF Meeting
  <2> QED BY <2>5, <2>6
<1>7. CASE UNCHANGED displayvars
  <2>1. UNCHANGED <<started, ever, at, met, audio_device, calls>>
    BY <1>7 DEF displayvars, sdl, run
  <2> QED BY <2>1, Zenon DEF Meeting, Crashed
<1> QED BY <1>4, <1>5, <1>6, <1>7, Zenon DEF DisplayNext, DisplayStep

-----------------------------------------------------------------------------
(***************************************************************************)
(* The runtime closes what it opened before what that needs, and the       *)
(* process ends with nothing open, for every failure and for every audio   *)
(* device that threads of the guest open, store or lose while main stops   *)
(* the runtime.  Without such a meeting no call goes into SDL without SDL  *)
(* and no device's id outlives the stop.                                   *)
(***************************************************************************)
THEOREM DevicesCloseInOrder == DisplaySpec => []ClosedInOrder
<1> DEFINE Inv == Places /\ Started /\ Mixing /\ Contents /\ Meeting
<1>1. DisplayInit => Inv
  BY DisplayInitInv DEF DInv
<1>2. Inv /\ IInv /\ IInv' /\ [DisplayNext]_<<vars, displayvars>> => Inv'
  BY PlacesStep, StartedStep, MixingStep, ContentsStep, MeetingStep, Zenon DEF IInv
<1>3. Inv => ClosedInOrder
  <2> SUFFICES ASSUME Inv PROVE ClosedInOrder
    OBVIOUS
  <2>1. \A d \in open : Needs(d) \subseteq open
    BY NeedsMet
  <2>2. pc = "exited" => at \in {"idle", "probed", "exit"}
    BY Zenon DEF Places, Probing
  <2>3. pc = "exited" => open \subseteq (IF incomplete /\ ~passed THEN {"library"} ELSE {})
    BY <2>2, Zenon DEF Contents
  <2>4. Crashed \/ (audio_device # "none" /\ ~started) => met
    BY Zenon DEF Meeting
  <2> QED BY <2>1, <2>3, <2>4 DEF ClosedInOrder
<1>4. DisplaySpec => []IInv
  BY DisplayImplementsBoot, Invariance, PTL
<1> HIDE DEF Inv
<1> QED BY <1>1, <1>2, <1>3, <1>4, PTL DEF DisplaySpec

(***************************************************************************)
(* When a host library of the relocation is the driver that SDL maps, the  *)
(* thunks that a start of the runtime has bound stay bound to the mapped   *)
(* driver to the end of the process.                                       *)
(***************************************************************************)
THEOREM ThunksStayLive == ASSUME HostsHoldDriver PROVE DisplaySpec => []ThunksLive
<1>1. DisplayInit => Places /\ Started /\ Mixing /\ Bound
  BY DisplayInitInv DEF DInv
<1>2. Places /\ Started /\ Mixing /\ Bound /\ IInv /\ IInv' /\ [DisplayNext]_<<vars, displayvars>>
        => Places' /\ Started' /\ Mixing' /\ Bound'
  BY PlacesStep, StartedStep, MixingStep, BoundStep, Zenon DEF IInv
<1>3. Started /\ Bound /\ IInv => ThunksLive
  BY DriverKept, Zenon DEF Started, Bound, ThunksLive, IInv
<1>4. DisplaySpec => []IInv
  BY DisplayImplementsBoot, Invariance, PTL
<1> QED BY <1>1, <1>2, <1>3, <1>4, PTL DEF DisplaySpec

-----------------------------------------------------------------------------
(* The overlay.  Whatever GL calls are still to be made, each register of  *)
(* GL ends as the guest left it, and is right when a clear is reached.     *)

Registers == {"framebuffer", "scissor", "box", "color", "mask"}
Boxes == [x : Int, y : Int, w : Int, h : Int]
Values == {0, 1} \cup BOOLEAN \cup {"all", "none", "cursor", "guest's", "color"} \cup Boxes
Calls == [name : Registers \cup {"clear"}, value : Values]

\* What a register must hold when the overlay of a cursor at c clears.
Right(c, r, v) ==
  /\ r = "framebuffer" => v = 0
  /\ r = "scissor" => v = TRUE
  /\ r = "mask" => v = "all"
  /\ r = "box" =>
       /\ OnBars(v, c)
       /\ v.x >= 0 /\ v.x + v.w <= Width /\ v.y >= 0 /\ v.y + v.h <= Height

\* Of the first n calls of s, none touches r; or the i-th is the last that does.
Untouched(s, r, n) == \A i \in 1 .. n : s[i].name # r
LastToTouch(s, r, i, n) == s[i].name = r /\ \A j \in i + 1 .. n : s[j].name # r

\* The calls of s take GL from state g to state h.
Restores(s, g, h) ==
  \A r \in Registers :
    \/ Untouched(s, r, Len(s)) /\ g[r] = h[r]
    \/ \E i \in 1 .. Len(s) : LastToTouch(s, r, i, Len(s)) /\ s[i].value = h[r]

\* From state g, each clear of s is reached with its registers right.
ClearsRight(s, g, c) ==
  \A n \in 1 .. Len(s) : s[n].name = "clear" =>
    \A r \in Registers :
      \/ Untouched(s, r, n - 1) /\ Right(c, r, g[r])
      \/ \E i \in 1 .. n - 1 : LastToTouch(s, r, i, n - 1) /\ Right(c, r, s[i].value)

Scripted ==
  /\ gl \in [Registers -> Values] /\ guest_gl \in [Registers -> Values]
  /\ guest_gl.scissor \in BOOLEAN
  /\ script \in Seq(Calls)
  /\ at \notin {"cursor", "swap"} => script = <<>>

OverlayInv == Scripted /\ Restores(script, gl, guest_gl) /\ ClearsRight(script, gl, cursor)

\* The clamp leaves room for half a bar on either side.
LEMMA ClampRange ==
  ASSUME NEW v \in Int, NEW size \in Nat, size > 16
  PROVE  Clamp(v, size) \in Int /\ Clamp(v, size) >= 8 /\ Clamp(v, size) <= size - 9
  BY SMT DEF Clamp

\* Script t makes the calls of s and then one more.
OneMore(s, m, v, t) ==
  /\ t \in Seq(Calls) /\ Len(t) = Len(s) + 1
  /\ \A i \in 1 .. Len(s) : t[i] = s[i]
  /\ t[Len(s) + 1] = [name |-> m, value |-> v]

\* One more call at the end of a script.
LEMMA CallAppended ==
  ASSUME NEW s \in Seq(Calls), NEW m \in Registers \cup {"clear"}, NEW v \in Values,
         NEW t, t = s \o Call(m, v)
  PROVE  OneMore(s, m, v, t)
<1> DEFINE c == [name |-> m, value |-> v]
<1>1. c \in Calls
  BY Zenon DEF Calls
<1>2. t = s \o <<c>>
  BY DEF Call
<1> HIDE DEF c
<1>3. t \in Seq(Calls) /\ Len(t) = Len(s) + 1 /\ \A i \in 1 .. Len(s) : t[i] = s[i]
  BY <1>1, <1>2, SMT
<1>4. t[Len(s) + 1] = c
  BY <1>1, <1>2, SMT
<1> QED BY <1>3, <1>4 DEF c, OneMore

\* The first call of a script.
LEMMA CallAlone ==
  ASSUME NEW m \in Registers \cup {"clear"}, NEW v \in Values
  PROVE  /\ Call(m, v) \in Seq(Calls) /\ Len(Call(m, v)) = 1
         /\ Call(m, v)[1] = [name |-> m, value |-> v]
<1> DEFINE c == [name |-> m, value |-> v]
<1>1. c \in Calls
  BY Zenon DEF Calls
<1> HIDE DEF c
<1>2. <<c>> \in Seq(Calls) /\ Len(<<c>>) = 1 /\ <<c>>[1] = c
  BY <1>1, SMT
<1> QED BY <1>2 DEF c, Call

\* The calls of a capture, one by one.
LEMMA CaptureCalls ==
  ASSUME NEW v \in Values, NEW s, s = Call("framebuffer", 0) \o Call("framebuffer", v)
  PROVE  /\ s \in Seq(Calls) /\ Len(s) = 2
         /\ s[1] = [name |-> "framebuffer", value |-> 0]
         /\ s[2] = [name |-> "framebuffer", value |-> v]
<1> DEFINE c == Call("framebuffer", 0)
<1>1. 0 \in Values /\ "framebuffer" \in Registers \cup {"clear"}
  BY SMT DEF Values, Registers
<1>2. c \in Seq(Calls) /\ Len(c) = 1 /\ c[1] = [name |-> "framebuffer", value |-> 0]
  BY <1>1, CallAlone
<1>3. s = c \o Call("framebuffer", v)
  OBVIOUS
<1> HIDE DEF c
<1>4. OneMore(c, "framebuffer", v, s)
  BY <1>1, <1>2, <1>3, CallAppended, Zenon
<1> QED BY <1>2, <1>4, SMT DEF OneMore

\* The two bars that the overlay clears.
Across(x, y) == [x |-> Clamp(x, Width) - 8, y |-> Height - 1 - Clamp(y, Height) - 1, w |-> 17, h |-> 3]
Down(x, y) == [x |-> Clamp(x, Width) - 1, y |-> Height - 1 - Clamp(y, Height) - 8, w |-> 3, h |-> 17]

\* The clamp takes a coordinate to the nearest place that leaves room.
LEMMA ClampNearest ==
  ASSUME NEW v \in Int, NEW size \in Nat, size > 16
  PROVE  Clamp(v, size) = Nearest(v, size)
  BY SMT DEF Clamp, Nearest

\* They lie inside the drawable, wherever the cursor is.
LEMMA BarsInside ==
  ASSUME NEW x \in Axis, NEW y \in Axis, NEW c, c = <<x, y>>
  PROVE  /\ Across(x, y) \in Boxes /\ Right(c, "box", Across(x, y))
         /\ Down(x, y) \in Boxes /\ Right(c, "box", Down(x, y))
<1>1. x \in Int /\ y \in Int /\ Width \in Nat /\ Height \in Nat /\ Width > 16 /\ Height > 16
  BY DisplayConstants DEF DisplayConstants
<1> DEFINE u == Clamp(x, Width)
           v == Clamp(y, Height)
<1>2. u \in Int /\ u >= 8 /\ u <= Width - 9 /\ v \in Int /\ v >= 8 /\ v <= Height - 9
  BY <1>1, ClampRange
<1> HIDE DEF u, v
<1>3. Across(x, y) = [x |-> u - 8, y |-> Height - 1 - v - 1, w |-> 17, h |-> 3]
  BY DEF Across, u, v
<1>4. Down(x, y) = [x |-> u - 1, y |-> Height - 1 - v - 8, w |-> 3, h |-> 17]
  BY DEF Down, u, v
<1>5. Across(x, y) \in Boxes /\ Down(x, y) \in Boxes
  BY <1>1, <1>2, <1>3, <1>4, SMT DEF Boxes
<1>6. \A b : Right(c, "box", b) <=>
        /\ OnBars(b, c)
        /\ b.x >= 0 /\ b.x + b.w <= Width /\ b.y >= 0 /\ b.y + b.h <= Height
  BY Zenon DEF Right
<1>7. /\ u - 8 >= 0 /\ (u - 8) + 17 <= Width
      /\ Height - 1 - v - 1 >= 0 /\ (Height - 1 - v - 1) + 3 <= Height
      /\ u - 1 >= 0 /\ (u - 1) + 3 <= Width
      /\ Height - 1 - v - 8 >= 0 /\ (Height - 1 - v - 8) + 17 <= Height
  BY <1>1, <1>2, SMT
<1>8. Nearest(c[1], Width) = u /\ Nearest(c[2], Height) = v
  BY <1>1, ClampNearest, Zenon DEF u, v
<1>9. \A b : OnBars(b, c) <=>
        \/ /\ b.x >= u - 8 /\ b.x + b.w <= u + 8 + 1
           /\ b.y >= Height - 1 - v - 1 /\ b.y + b.h <= Height - 1 - v + 1 + 1
        \/ /\ b.x >= u - 1 /\ b.x + b.w <= u + 1 + 1
           /\ b.y >= Height - 1 - v - 8 /\ b.y + b.h <= Height - 1 - v + 8 + 1
  BY <1>8, Zenon DEF OnBars
<1>10. OnBars(Across(x, y), c)
  <2>1. /\ u - 8 >= u - 8 /\ (u - 8) + 17 <= u + 8 + 1
        /\ Height - 1 - v - 1 >= Height - 1 - v - 1
        /\ (Height - 1 - v - 1) + 3 <= Height - 1 - v + 1 + 1
    BY <1>1, <1>2, SMT
  <2> QED BY <2>1, <1>3, <1>9
<1>11. OnBars(Down(x, y), c)
  <2>1. /\ u - 1 >= u - 1 /\ (u - 1) + 3 <= u + 1 + 1
        /\ Height - 1 - v - 8 >= Height - 1 - v - 8
        /\ (Height - 1 - v - 8) + 17 <= Height - 1 - v + 8 + 1
    BY <1>1, <1>2, SMT
  <2> QED BY <2>1, <1>4, <1>9
<1>12. Right(c, "box", Across(x, y)) /\ Right(c, "box", Down(x, y))
  BY <1>3, <1>4, <1>6, <1>7, <1>10, <1>11
<1> QED BY <1>5, <1>12

\* The calls that both forms of the overlay begin with.
Begins(s, a, d) ==
  /\ s[1] = [name |-> "framebuffer", value |-> 0]
  /\ s[2] = [name |-> "scissor", value |-> TRUE]
  /\ s[3] = [name |-> "mask", value |-> "all"]
  /\ s[4] = [name |-> "color", value |-> "cursor"]
  /\ s[5] = [name |-> "box", value |-> a]
  /\ s[6] = [name |-> "clear", value |-> "color"]
  /\ s[7] = [name |-> "box", value |-> d]
  /\ s[8] = [name |-> "clear", value |-> "color"]
  /\ s[9] = [name |-> "color", value |-> gl.color]
  /\ s[10] = [name |-> "mask", value |-> gl.mask]
  /\ s[11] = [name |-> "box", value |-> gl.box]

\* One more call leaves the beginning as it is.
LEMMA BeginsKept ==
  ASSUME NEW s, NEW m, NEW v, NEW t, NEW a, NEW d, OneMore(s, m, v, t), Len(s) \in {11, 12},
         Begins(s, a, d)
  PROVE  Begins(t, a, d)
<1>1. \A i \in 1 .. Len(s) : t[i] = s[i]
  BY DEF OneMore
<1>2. \A i \in 1 .. 11 : t[i] = s[i]
  BY <1>1, SMT
<1>3. /\ t[1] = s[1] /\ t[2] = s[2] /\ t[3] = s[3] /\ t[4] = s[4] /\ t[5] = s[5] /\ t[6] = s[6]
      /\ t[7] = s[7] /\ t[8] = s[8] /\ t[9] = s[9] /\ t[10] = s[10] /\ t[11] = s[11]
  BY <1>2, SMT
<1> QED BY <1>3, Zenon DEF Begins

\* The calls of the overlay that both of its forms make.
LEMMA OverlayPrefix ==
  ASSUME gl \in [Registers -> Values], NEW a \in Boxes, NEW d \in Boxes, NEW s,
         s = Call("framebuffer", 0) \o Call("scissor", TRUE)
             \o Call("mask", "all") \o Call("color", "cursor")
             \o Call("box", a) \o Call("clear", "color")
             \o Call("box", d) \o Call("clear", "color")
             \o Call("color", gl.color) \o Call("mask", gl.mask) \o Call("box", gl.box)
  PROVE  s \in Seq(Calls) /\ Len(s) = 11 /\ Begins(s, a, d)
<1> DEFINE N == Registers \cup {"clear"}
<1>1. /\ "framebuffer" \in N /\ "scissor" \in N /\ "box" \in N /\ "color" \in N /\ "mask" \in N
      /\ "clear" \in N
  BY SMT DEF Registers
<1>2. /\ 0 \in Values /\ TRUE \in Values /\ "all" \in Values /\ "cursor" \in Values
      /\ "color" \in Values /\ a \in Values /\ d \in Values
  BY Zenon DEF Values
<1>3. gl.color \in Values /\ gl.mask \in Values /\ gl.box \in Values
  BY Zenon DEF Registers
<1> DEFINE s1 == Call("framebuffer", 0)
           s2 == s1 \o Call("scissor", TRUE)
           s3 == s2 \o Call("mask", "all")
           s4 == s3 \o Call("color", "cursor")
           s5 == s4 \o Call("box", a)
           s6 == s5 \o Call("clear", "color")
           s7 == s6 \o Call("box", d)
           s8 == s7 \o Call("clear", "color")
           s9 == s8 \o Call("color", gl.color)
           s10 == s9 \o Call("mask", gl.mask)
           s11 == s10 \o Call("box", gl.box)
<1>s. s = s11
  OBVIOUS
<1>4. /\ s1 \in Seq(Calls) /\ Len(s1) = 1
      /\ s1[1] = [name |-> "framebuffer", value |-> 0]
  BY <1>1, <1>2, CallAlone
<1>5. /\ s2 \in Seq(Calls) /\ Len(s2) = 2
      /\ \A i \in 1 .. 1 : s2[i] = s1[i]
      /\ s2[2] = [name |-> "scissor", value |-> TRUE]
  <2>1. s2 = s1 \o Call("scissor", TRUE)
    OBVIOUS
  <2> HIDE DEF s1, s2
  <2>2. OneMore(s1, "scissor", TRUE, s2)
    BY <2>1, <1>1, <1>2, <1>3, <1>4, CallAppended, Zenon
  <2> QED BY <2>2, <1>4, SMT DEF OneMore
<1>6. /\ s3 \in Seq(Calls) /\ Len(s3) = 3
      /\ \A i \in 1 .. 2 : s3[i] = s2[i]
      /\ s3[3] = [name |-> "mask", value |-> "all"]
  <2>1. s3 = s2 \o Call("mask", "all")
    OBVIOUS
  <2> HIDE DEF s2, s3
  <2>2. OneMore(s2, "mask", "all", s3)
    BY <2>1, <1>1, <1>2, <1>3, <1>5, CallAppended, Zenon
  <2> QED BY <2>2, <1>5, SMT DEF OneMore
<1>7. /\ s4 \in Seq(Calls) /\ Len(s4) = 4
      /\ \A i \in 1 .. 3 : s4[i] = s3[i]
      /\ s4[4] = [name |-> "color", value |-> "cursor"]
  <2>1. s4 = s3 \o Call("color", "cursor")
    OBVIOUS
  <2> HIDE DEF s3, s4
  <2>2. OneMore(s3, "color", "cursor", s4)
    BY <2>1, <1>1, <1>2, <1>3, <1>6, CallAppended, Zenon
  <2> QED BY <2>2, <1>6, SMT DEF OneMore
<1>8. /\ s5 \in Seq(Calls) /\ Len(s5) = 5
      /\ \A i \in 1 .. 4 : s5[i] = s4[i]
      /\ s5[5] = [name |-> "box", value |-> a]
  <2>1. s5 = s4 \o Call("box", a)
    OBVIOUS
  <2> HIDE DEF s4, s5
  <2>2. OneMore(s4, "box", a, s5)
    BY <2>1, <1>1, <1>2, <1>3, <1>7, CallAppended, Zenon
  <2> QED BY <2>2, <1>7, SMT DEF OneMore
<1>9. /\ s6 \in Seq(Calls) /\ Len(s6) = 6
      /\ \A i \in 1 .. 5 : s6[i] = s5[i]
      /\ s6[6] = [name |-> "clear", value |-> "color"]
  <2>1. s6 = s5 \o Call("clear", "color")
    OBVIOUS
  <2> HIDE DEF s5, s6
  <2>2. OneMore(s5, "clear", "color", s6)
    BY <2>1, <1>1, <1>2, <1>3, <1>8, CallAppended, Zenon
  <2> QED BY <2>2, <1>8, SMT DEF OneMore
<1>10. /\ s7 \in Seq(Calls) /\ Len(s7) = 7
      /\ \A i \in 1 .. 6 : s7[i] = s6[i]
      /\ s7[7] = [name |-> "box", value |-> d]
  <2>1. s7 = s6 \o Call("box", d)
    OBVIOUS
  <2> HIDE DEF s6, s7
  <2>2. OneMore(s6, "box", d, s7)
    BY <2>1, <1>1, <1>2, <1>3, <1>9, CallAppended, Zenon
  <2> QED BY <2>2, <1>9, SMT DEF OneMore
<1>11. /\ s8 \in Seq(Calls) /\ Len(s8) = 8
      /\ \A i \in 1 .. 7 : s8[i] = s7[i]
      /\ s8[8] = [name |-> "clear", value |-> "color"]
  <2>1. s8 = s7 \o Call("clear", "color")
    OBVIOUS
  <2> HIDE DEF s7, s8
  <2>2. OneMore(s7, "clear", "color", s8)
    BY <2>1, <1>1, <1>2, <1>3, <1>10, CallAppended, Zenon
  <2> QED BY <2>2, <1>10, SMT DEF OneMore
<1>12. /\ s9 \in Seq(Calls) /\ Len(s9) = 9
      /\ \A i \in 1 .. 8 : s9[i] = s8[i]
      /\ s9[9] = [name |-> "color", value |-> gl.color]
  <2>1. s9 = s8 \o Call("color", gl.color)
    OBVIOUS
  <2> HIDE DEF s8, s9
  <2>2. OneMore(s8, "color", gl.color, s9)
    BY <2>1, <1>1, <1>2, <1>3, <1>11, CallAppended, Zenon
  <2> QED BY <2>2, <1>11, SMT DEF OneMore
<1>13. /\ s10 \in Seq(Calls) /\ Len(s10) = 10
      /\ \A i \in 1 .. 9 : s10[i] = s9[i]
      /\ s10[10] = [name |-> "mask", value |-> gl.mask]
  <2>1. s10 = s9 \o Call("mask", gl.mask)
    OBVIOUS
  <2> HIDE DEF s9, s10
  <2>2. OneMore(s9, "mask", gl.mask, s10)
    BY <2>1, <1>1, <1>2, <1>3, <1>12, CallAppended, Zenon
  <2> QED BY <2>2, <1>12, SMT DEF OneMore
<1>14. /\ s11 \in Seq(Calls) /\ Len(s11) = 11
      /\ \A i \in 1 .. 10 : s11[i] = s10[i]
      /\ s11[11] = [name |-> "box", value |-> gl.box]
  <2>1. s11 = s10 \o Call("box", gl.box)
    OBVIOUS
  <2> HIDE DEF s10, s11
  <2>2. OneMore(s10, "box", gl.box, s11)
    BY <2>1, <1>1, <1>2, <1>3, <1>13, CallAppended, Zenon
  <2> QED BY <2>2, <1>13, SMT DEF OneMore
<1> HIDE DEF s1, s2, s3, s4, s5, s6, s7, s8, s9, s10, s11
<1>21. s11[1] = [name |-> "framebuffer", value |-> 0]
  BY <1>4, <1>5, <1>6, <1>7, <1>8, <1>9, <1>10, <1>11, <1>12, <1>13, <1>14, SMT
<1>22. s11[2] = [name |-> "scissor", value |-> TRUE]
  BY <1>5, <1>6, <1>7, <1>8, <1>9, <1>10, <1>11, <1>12, <1>13, <1>14, SMT
<1>23. s11[3] = [name |-> "mask", value |-> "all"]
  BY <1>6, <1>7, <1>8, <1>9, <1>10, <1>11, <1>12, <1>13, <1>14, SMT
<1>24. s11[4] = [name |-> "color", value |-> "cursor"]
  BY <1>7, <1>8, <1>9, <1>10, <1>11, <1>12, <1>13, <1>14, SMT
<1>25. s11[5] = [name |-> "box", value |-> a]
  BY <1>8, <1>9, <1>10, <1>11, <1>12, <1>13, <1>14, SMT
<1>26. s11[6] = [name |-> "clear", value |-> "color"]
  BY <1>9, <1>10, <1>11, <1>12, <1>13, <1>14, SMT
<1>27. s11[7] = [name |-> "box", value |-> d]
  BY <1>10, <1>11, <1>12, <1>13, <1>14, SMT
<1>28. s11[8] = [name |-> "clear", value |-> "color"]
  BY <1>11, <1>12, <1>13, <1>14, SMT
<1>29. s11[9] = [name |-> "color", value |-> gl.color]
  BY <1>12, <1>13, <1>14, SMT
<1>30. s11[10] = [name |-> "mask", value |-> gl.mask]
  BY <1>13, <1>14, SMT
<1>31. s11[11] = [name |-> "box", value |-> gl.box]
  BY <1>14, SMT
<1> QED BY <1>s, <1>14, <1>21, <1>22, <1>23, <1>24, <1>25, <1>26, <1>27, <1>28, <1>29, <1>30, <1>31 DEF Begins

\* The calls of the overlay, one by one.
LEMMA OverlayCalls ==
  ASSUME gl \in [Registers -> Values], gl.scissor \in BOOLEAN, NEW x \in Axis, NEW y \in Axis
  PROVE  LET s == Overlay(x, y)
         IN  /\ s \in Seq(Calls)
             /\ Begins(s, Across(x, y), Down(x, y))
             /\ \/ /\ gl.scissor /\ Len(s) = 12
                   /\ s[12] = [name |-> "framebuffer", value |-> gl.framebuffer]
                \/ /\ ~gl.scissor /\ Len(s) = 13
                   /\ s[12] = [name |-> "scissor", value |-> FALSE]
                   /\ s[13] = [name |-> "framebuffer", value |-> gl.framebuffer]
<1> DEFINE a == Across(x, y)
           d == Down(x, y)
           p == Call("framebuffer", 0) \o Call("scissor", TRUE)
                \o Call("mask", "all") \o Call("color", "cursor")
                \o Call("box", a) \o Call("clear", "color")
                \o Call("box", d) \o Call("clear", "color")
                \o Call("color", gl.color) \o Call("mask", gl.mask) \o Call("box", gl.box)
           q == p \o Call("scissor", FALSE)
           s == Overlay(x, y)
<1>1. a \in Boxes /\ d \in Boxes
  BY BarsInside, Zenon
<1>2. s = (p \o (IF gl.scissor THEN <<>> ELSE Call("scissor", FALSE)))
            \o Call("framebuffer", gl.framebuffer)
  BY Zenon DEF Overlay, Across, Down
<1>3. /\ FALSE \in Values /\ gl.framebuffer \in Values
      /\ "framebuffer" \in Registers \cup {"clear"} /\ "scissor" \in Registers \cup {"clear"}
  BY Zenon DEF Values, Registers
<1>4. p \in Seq(Calls) /\ Len(p) = 11 /\ Begins(p, a, d)
  <2>1. p = Call("framebuffer", 0) \o Call("scissor", TRUE)
                \o Call("mask", "all") \o Call("color", "cursor")
                \o Call("box", a) \o Call("clear", "color")
                \o Call("box", d) \o Call("clear", "color")
                \o Call("color", gl.color) \o Call("mask", gl.mask) \o Call("box", gl.box)
    OBVIOUS
  <2> HIDE DEF a, d, p
  <2> QED BY <1>1, <2>1, OverlayPrefix, Zenon
<1>6. CASE gl.scissor
  <2>1. s = p \o Call("framebuffer", gl.framebuffer)
    <3>1. p \o <<>> = p
      <4> HIDE DEF p
      <4> QED BY <1>4, SMT
    <3> HIDE DEF p, s
    <3> QED BY <1>2, <1>6, <3>1
  <2> HIDE DEF p, s, a, d
  <2>2. OneMore(p, "framebuffer", gl.framebuffer, s)
    BY <2>1, <1>3, <1>4, CallAppended, Zenon
  <2>3. Begins(s, a, d)
    BY <2>2, <1>4, BeginsKept, SMT
  <2>4. s \in Seq(Calls) /\ Len(s) = 12 /\ s[12] = [name |-> "framebuffer", value |-> gl.framebuffer]
    BY <2>2, <1>4, SMT DEF OneMore
  <2> QED BY <2>3, <2>4, <1>6 DEF s, a, d
<1>7. CASE ~gl.scissor
  <2>1. s = q \o Call("framebuffer", gl.framebuffer)
    <3> HIDE DEF p, s
    <3> QED BY <1>2, <1>7
  <2>2. q = p \o Call("scissor", FALSE)
    OBVIOUS
  <2> HIDE DEF p, q, s, a, d
  <2>3. OneMore(p, "scissor", FALSE, q)
    BY <2>2, <1>3, <1>4, CallAppended, Zenon
  <2>4. q \in Seq(Calls) /\ Len(q) = 12 /\ q[12] = [name |-> "scissor", value |-> FALSE]
    BY <2>3, <1>4, SMT DEF OneMore
  <2>5. OneMore(q, "framebuffer", gl.framebuffer, s)
    BY <2>1, <2>4, <1>3, CallAppended, Zenon
  <2>6. Begins(s, a, d)
    <3>1. Begins(q, a, d)
      <4>1. Len(p) \in {11, 12}
        BY <1>4, SMT
      <4> QED BY <2>3, <4>1, <1>4, BeginsKept, Zenon
    <3> QED BY <3>1, <2>4, <2>5, BeginsKept, SMT
  <2>7. /\ s \in Seq(Calls) /\ Len(s) = 13 /\ s[12] = [name |-> "scissor", value |-> FALSE]
        /\ s[13] = [name |-> "framebuffer", value |-> gl.framebuffer]
    BY <2>4, <2>5, SMT DEF OneMore
  <2> QED BY <2>6, <2>7, <1>7 DEF s, a, d
<1> QED BY <1>6, <1>7, Zenon

\* A capture puts the framebuffer back and clears nothing.
LEMMA CaptureSafe ==
  ASSUME gl \in [Registers -> Values], NEW c
  PROVE  LET s == Call("framebuffer", 0) \o Call("framebuffer", gl.framebuffer)
         IN  s \in Seq(Calls) /\ Restores(s, gl, gl) /\ ClearsRight(s, gl, c)
<1> DEFINE s == Call("framebuffer", 0) \o Call("framebuffer", gl.framebuffer)
<1>1. gl.framebuffer \in Values
  BY Zenon DEF Registers
<1>2. /\ s \in Seq(Calls) /\ Len(s) = 2
      /\ s[1] = [name |-> "framebuffer", value |-> 0]
      /\ s[2] = [name |-> "framebuffer", value |-> gl.framebuffer]
  BY <1>1, CaptureCalls
<1> HIDE DEF s
<1>3. s[1].name = "framebuffer" /\ s[2].name = "framebuffer" /\ s[2].value = gl.framebuffer
  BY <1>2
<1>4. ClearsRight(s, gl, c)
  BY <1>2, <1>3, SMT DEF ClearsRight
<1>5. LastToTouch(s, "framebuffer", 2, 2)
  BY <1>3, SMT DEF LastToTouch
<1>6. \A r \in Registers : r # "framebuffer" => Untouched(s, r, 2)
  BY <1>3, SMT DEF Untouched
<1>7. Restores(s, gl, gl)
  BY <1>2, <1>3, <1>5, <1>6, SMT DEF Restores
<1> QED BY <1>2, <1>4, <1>7 DEF s

\* The overlay sets what a clear relies on first, and puts everything back.
LEMMA OverlaySafe ==
  ASSUME gl \in [Registers -> Values], gl.scissor \in BOOLEAN, NEW x \in Axis, NEW y \in Axis,
         NEW c, c = <<x, y>>
  PROVE  /\ Overlay(x, y) \in Seq(Calls) /\ Restores(Overlay(x, y), gl, gl)
         /\ ClearsRight(Overlay(x, y), gl, c)
<1> DEFINE s == Overlay(x, y)
           a == Across(x, y)
           d == Down(x, y)
<1>1. /\ s \in Seq(Calls) /\ Begins(s, a, d)
      /\ \/ /\ gl.scissor /\ Len(s) = 12
            /\ s[12] = [name |-> "framebuffer", value |-> gl.framebuffer]
         \/ /\ ~gl.scissor /\ Len(s) = 13
            /\ s[12] = [name |-> "scissor", value |-> FALSE]
            /\ s[13] = [name |-> "framebuffer", value |-> gl.framebuffer]
  BY OverlayCalls, Zenon
<1>2. Right(c, "box", a) /\ Right(c, "box", d)
  BY BarsInside
<1> HIDE DEF s, a, d
<1>3. /\ s[1].name = "framebuffer" /\ s[2].name = "scissor" /\ s[3].name = "mask"
      /\ s[4].name = "color" /\ s[5].name = "box" /\ s[6].name = "clear" /\ s[7].name = "box"
      /\ s[8].name = "clear" /\ s[9].name = "color" /\ s[10].name = "mask" /\ s[11].name = "box"
  BY <1>1, SMT DEF Begins
<1>4. \/ Len(s) = 12 /\ s[12].name = "framebuffer"
      \/ Len(s) = 13 /\ s[12].name = "scissor" /\ s[13].name = "framebuffer"
  BY <1>1, SMT
<1>5. /\ s[1].value = 0 /\ s[3].value = "all" /\ s[5].value = a /\ s[7].value = d
      /\ s[9].value = gl["color"] /\ s[10].value = gl["mask"] /\ s[11].value = gl["box"]
  BY <1>1, SMT DEF Begins
<1>6. s[2].value = TRUE
  <2>1. s[2] = [name |-> "scissor", value |-> TRUE]
    BY <1>1 DEF Begins
  <2> QED BY <2>1, SMT
<1>7. \E i \in {12, 13} : i = Len(s) /\ s[i].name = "framebuffer" /\ s[i].value = gl["framebuffer"]
  BY <1>1, SMT
<1>8. Len(s) = 13 => s[12].value = gl["scissor"]
  <2>1. Len(s) = 13 => ~gl["scissor"] /\ s[12] = [name |-> "scissor", value |-> FALSE]
    BY <1>1, SMT
  <2>2. gl["scissor"] \in BOOLEAN
    OBVIOUS
  <2>3. ~gl["scissor"] => gl["scissor"] = FALSE
    BY <2>2, Zenon
  <2>4. Len(s) = 13 => s[12].value = FALSE
    BY <2>1, SMT
  <2> QED BY <2>1, <2>3, <2>4, Zenon
<1>9. Len(s) = 12 => s[2].value = gl["scissor"]
  <2>1. Len(s) = 12 => gl["scissor"]
    BY <1>1, SMT
  <2>2. gl["scissor"] \in BOOLEAN
    OBVIOUS
  <2>3. gl["scissor"] => gl["scissor"] = TRUE
    BY <2>2, Zenon
  <2> QED BY <2>1, <2>3, <1>6, Zenon
<1>10. ClearsRight(s, gl, c)
  <2>1. ASSUME NEW n \in {6, 8}, NEW r \in Registers
        PROVE  \E i \in 1 .. n - 1 : LastToTouch(s, r, i, n - 1) /\ Right(c, r, s[i].value)
    <3>1. CASE r = "framebuffer"
      <4>1. LastToTouch(s, r, 1, n - 1)
        BY <3>1, <1>3, SMT DEF LastToTouch
      <4>2. Right(c, r, s[1].value)
        BY <3>1, <1>5 DEF Right
      <4> QED BY <4>1, <4>2, SMT
    <3>2. CASE r = "scissor"
      <4>1. LastToTouch(s, r, 2, n - 1)
        BY <3>2, <1>3, SMT DEF LastToTouch
      <4>2. Right(c, r, s[2].value)
        BY <3>2, <1>6, Zenon DEF Right
      <4> QED BY <4>1, <4>2, SMT
    <3>3. CASE r = "mask"
      <4>1. LastToTouch(s, r, 3, n - 1)
        BY <3>3, <1>3, SMT DEF LastToTouch
      <4>2. Right(c, r, s[3].value)
        BY <3>3, <1>5 DEF Right
      <4> QED BY <4>1, <4>2, SMT
    <3>4. CASE r = "color"
      <4>1. LastToTouch(s, r, 4, n - 1)
        BY <3>4, <1>3, SMT DEF LastToTouch
      <4>2. Right(c, r, s[4].value)
        BY <3>4 DEF Right
      <4> QED BY <4>1, <4>2, SMT
    <3>5. CASE r = "box"
      <4>1. LastToTouch(s, r, n - 1, n - 1)
        BY <3>5, <1>3, SMT DEF LastToTouch
      <4>2. Right(c, r, s[5].value) /\ Right(c, r, s[7].value)
        BY <3>5, <1>2, <1>5
      <4> QED BY <4>1, <4>2, SMT
    <3> QED BY <3>1, <3>2, <3>3, <3>4, <3>5, Zenon DEF Registers
  <2>2. \A n \in 1 .. Len(s) : s[n].name = "clear" => n \in {6, 8}
    <3>1. CASE Len(s) = 12
      BY <3>1, <1>3, <1>4, SMT
    <3>2. CASE Len(s) = 13
      BY <3>2, <1>3, <1>4, SMT
    <3> QED BY <3>1, <3>2, <1>4
  <2> QED BY <2>1, <2>2, Zenon DEF ClearsRight
<1>11. Restores(s, gl, gl)
  <2> SUFFICES ASSUME NEW r \in Registers
               PROVE  \E i \in 1 .. Len(s) : LastToTouch(s, r, i, Len(s)) /\ s[i].value = gl[r]
    BY Zenon DEF Restores
  <2>1. CASE r = "framebuffer"
    BY <2>1, <1>7, SMT DEF LastToTouch
  <2>2. CASE r = "scissor"
    <3>1. CASE Len(s) = 12
      <4>1. LastToTouch(s, r, 2, 12)
        BY <2>2, <3>1, <1>3, <1>4, SMT DEF LastToTouch
      <4> QED BY <2>2, <4>1, <3>1, <1>9, SMT
    <3>2. CASE Len(s) = 13
      <4>1. LastToTouch(s, r, 12, 13)
        BY <2>2, <3>2, <1>4, SMT DEF LastToTouch
      <4> QED BY <2>2, <4>1, <3>2, <1>8, SMT
    <3> QED BY <3>1, <3>2, <1>4
  <2>3. CASE r = "mask"
    <3>1. LastToTouch(s, r, 10, Len(s))
      <4>1. CASE Len(s) = 12
        BY <2>3, <4>1, <1>3, <1>4, SMT DEF LastToTouch
      <4>2. CASE Len(s) = 13
        BY <2>3, <4>2, <1>3, <1>4, SMT DEF LastToTouch
      <4> QED BY <4>1, <4>2, <1>4
    <3> QED BY <2>3, <3>1, <1>4, <1>5, SMT
  <2>4. CASE r = "color"
    <3>1. LastToTouch(s, r, 9, Len(s))
      <4>1. CASE Len(s) = 12
        BY <2>4, <4>1, <1>3, <1>4, SMT DEF LastToTouch
      <4>2. CASE Len(s) = 13
        BY <2>4, <4>2, <1>3, <1>4, SMT DEF LastToTouch
      <4> QED BY <4>1, <4>2, <1>4
    <3> QED BY <2>4, <3>1, <1>4, <1>5, SMT
  <2>5. CASE r = "box"
    <3>1. LastToTouch(s, r, 11, Len(s))
      <4>1. CASE Len(s) = 12
        BY <2>5, <4>1, <1>3, <1>4, SMT DEF LastToTouch
      <4>2. CASE Len(s) = 13
        BY <2>5, <4>2, <1>3, <1>4, SMT DEF LastToTouch
      <4> QED BY <4>1, <4>2, <1>4
    <3> QED BY <2>5, <3>1, <1>4, <1>5, SMT
  <2> QED BY <2>1, <2>2, <2>3, <2>4, <2>5, Zenon DEF Registers
<1> QED BY <1>1, <1>10, <1>11 DEF s

\* Making the next call keeps what the rest of the script promises.
LEMMA CallStep ==
  ASSUME NEW s \in Seq(Calls), s # <<>>, NEW g \in [Registers -> Values], NEW h,
         NEW c, Restores(s, g, h), ClearsRight(s, g, c), NEW k,
         k = IF Head(s).name = "clear" THEN g ELSE [g EXCEPT ![Head(s).name] = Head(s).value]
  PROVE  /\ k \in [Registers -> Values] /\ Tail(s) \in Seq(Calls)
         /\ Restores(Tail(s), k, h) /\ ClearsRight(Tail(s), k, c)
<1> DEFINE t == Tail(s)
<1>1. Head(s) = s[1] /\ s[1] \in Calls /\ Len(s) \in Nat /\ Len(s) >= 1
  BY SMT
<1>2. s[1].name \in Registers \cup {"clear"} /\ s[1].value \in Values
  BY <1>1, SMT DEF Calls
<1>3. t \in Seq(Calls) /\ Len(t) = Len(s) - 1 /\ \A i \in 1 .. Len(t) : t[i] = s[i + 1]
  BY SMT
<1>4. "clear" \notin Registers
  BY SMT DEF Registers
<1>5. k \in [Registers -> Values]
  BY <1>1, <1>2, SMT
<1>6. \A r \in Registers : k[r] = IF s[1].name = r THEN s[1].value ELSE g[r]
  BY <1>1, <1>2, <1>4, SMT
<1> HIDE DEF t
<1>7. ASSUME NEW r \in Registers, NEW n \in 1 .. Len(s), Untouched(s, r, n)
      PROVE  Untouched(t, r, n - 1) /\ k[r] = g[r]
  <2>1. s[1].name # r /\ \A i \in 1 .. n : s[i].name # r
    BY <1>7, <1>1, SMT DEF Untouched
  <2>2. \A i \in 1 .. n - 1 : t[i].name # r
    BY <2>1, <1>1, <1>3, SMT
  <2> QED BY <2>1, <2>2, <1>6, Zenon DEF Untouched
<1>8. ASSUME NEW r \in Registers, NEW n \in 1 .. Len(s), LastToTouch(s, r, 1, n)
      PROVE  Untouched(t, r, n - 1) /\ k[r] = s[1].value
  <2>1. s[1].name = r /\ \A i \in 2 .. n : s[i].name # r
    BY <1>8, SMT DEF LastToTouch
  <2>2. \A i \in 1 .. n - 1 : t[i].name # r
    BY <2>1, <1>1, <1>3, SMT
  <2> QED BY <2>1, <2>2, <1>6, Zenon DEF Untouched
<1>9. ASSUME NEW r \in Registers, NEW n \in 1 .. Len(s), NEW i \in 2 .. n, LastToTouch(s, r, i, n)
      PROVE  i - 1 \in 1 .. n - 1 /\ LastToTouch(t, r, i - 1, n - 1) /\ t[i - 1].value = s[i].value
  <2>1. s[i].name = r /\ \A j \in i + 1 .. n : s[j].name # r
    BY <1>9 DEF LastToTouch
  <2>2. t[i - 1] = s[i] /\ \A j \in i .. n - 1 : t[j].name # r
    BY <2>1, <1>1, <1>3, SMT
  <2>3. i - 1 \in 1 .. n - 1 /\ (i - 1) + 1 = i
    BY SMT
  <2> QED BY <2>1, <2>2, <2>3 DEF LastToTouch
<1>10. Restores(t, k, h)
  <2> SUFFICES ASSUME NEW r \in Registers
               PROVE  \/ Untouched(t, r, Len(t)) /\ k[r] = h[r]
                      \/ \E i \in 1 .. Len(t) : LastToTouch(t, r, i, Len(t)) /\ t[i].value = h[r]
    BY DEF Restores
  <2>1. Len(s) \in 1 .. Len(s) /\ Len(s) - 1 = Len(t)
    BY <1>1, <1>3, SMT
  <2>2. CASE Untouched(s, r, Len(s)) /\ g[r] = h[r]
    BY <2>1, <2>2, <1>7
  <2>3. CASE \E i \in 1 .. Len(s) : LastToTouch(s, r, i, Len(s)) /\ s[i].value = h[r]
    <3>1. PICK i \in 1 .. Len(s) : LastToTouch(s, r, i, Len(s)) /\ s[i].value = h[r]
      BY <2>3
    <3>2. CASE i = 1
      BY <2>1, <3>1, <3>2, <1>8
    <3>3. CASE i # 1
      <4>1. i \in 2 .. Len(s)
        BY <3>3, <1>1, SMT
      <4>2. /\ i - 1 \in 1 .. Len(t) /\ LastToTouch(t, r, i - 1, Len(t))
            /\ t[i - 1].value = h[r]
        BY <2>1, <3>1, <4>1, <1>9
      <4> QED BY <4>2
    <3> QED BY <3>2, <3>3
  <2> QED BY <2>2, <2>3, Zenon DEF Restores
<1>11. ClearsRight(t, k, c)
  <2> SUFFICES ASSUME NEW n \in 1 .. Len(t), t[n].name = "clear", NEW r \in Registers
               PROVE  \/ Untouched(t, r, n - 1) /\ Right(c, r, k[r])
                      \/ \E i \in 1 .. n - 1 : LastToTouch(t, r, i, n - 1) /\ Right(c, r, t[i].value)
    BY Zenon DEF ClearsRight
  <2>1. n + 1 \in 1 .. Len(s) /\ n \in 1 .. Len(s) /\ (n + 1) - 1 = n /\ s[n + 1].name = "clear"
    BY <1>1, <1>3, SMT
  <2>2. \/ Untouched(s, r, n) /\ Right(c, r, g[r])
        \/ \E i \in 1 .. n : LastToTouch(s, r, i, n) /\ Right(c, r, s[i].value)
    <3>1. \/ Untouched(s, r, (n + 1) - 1) /\ Right(c, r, g[r])
          \/ \E i \in 1 .. (n + 1) - 1 : LastToTouch(s, r, i, (n + 1) - 1) /\ Right(c, r, s[i].value)
      BY <2>1, Zenon DEF ClearsRight
    <3> QED BY <3>1, <2>1
  <2>3. CASE Untouched(s, r, n) /\ Right(c, r, g[r])
    BY <2>1, <2>3, <1>7
  <2>4. CASE \E i \in 1 .. n : LastToTouch(s, r, i, n) /\ Right(c, r, s[i].value)
    <3>1. PICK i \in 1 .. n : LastToTouch(s, r, i, n) /\ Right(c, r, s[i].value)
      BY <2>4
    <3>2. CASE i = 1
      BY <2>1, <3>1, <3>2, <1>8
    <3>3. CASE i # 1
      <4>1. i \in 2 .. n
        BY <3>3, SMT
      <4>2. i - 1 \in 1 .. n - 1 /\ LastToTouch(t, r, i - 1, n - 1) /\ t[i - 1].value = s[i].value
        BY <2>1, <3>1, <4>1, <1>9
      <4>3. Right(c, r, t[i - 1].value)
        BY <3>1, <4>2
      <4> QED BY <4>2, <4>3
    <3> QED BY <3>2, <3>3
  <2> QED BY <2>2, <2>3, <2>4
<1> QED BY <1>3, <1>5, <1>10, <1>11 DEF t

\* An empty script promises only that GL is as the guest left it.
LEMMA NothingScripted ==
  ASSUME NEW g, NEW h, NEW c
  PROVE  /\ Restores(<<>>, g, h) <=> \A r \in Registers : g[r] = h[r]
         /\ ClearsRight(<<>>, g, c)
<1>1. Len(<<>>) = 0 /\ ~\E i : i \in 1 .. 0
  BY SMT
<1> QED BY <1>1, SMT DEF Restores, ClearsRight, Untouched

\* What the guest leaves behind are settings of the registers.
LEMMA GuestSettings ==
  ASSUME NEW g \in GuestGL
  PROVE  g \in [Registers -> Values] /\ g.scissor \in BOOLEAN
<1>1. GuestBoxes \subseteq Boxes
  BY DisplayConstants DEF DisplayConstants, Boxes
<1>2. /\ DOMAIN g = Registers /\ g = [r \in DOMAIN g |-> g[r]]
      /\ g["framebuffer"] \in {0, 1} /\ g["scissor"] \in BOOLEAN /\ g["box"] \in GuestBoxes
      /\ g["color"] = "guest's" /\ g["mask"] \in {"all", "none"}
  BY SMT DEF GuestGL, Registers
<1>3. \A r \in Registers : g[r] \in Values
  BY <1>1, <1>2, Zenon DEF Registers, Values
<1> QED BY <1>2, <1>3, Zenon

LEMMA OverlayInit == DisplayInit => OverlayInv
<1> SUFFICES ASSUME DisplayInit PROVE OverlayInv
  OBVIOUS
<1> DEFINE whole == [x |-> 0, y |-> 0, w |-> Width, h |-> Height]
<1>1. /\ guest_gl = gl /\ script = <<>>
      /\ gl = [framebuffer |-> 0, scissor |-> FALSE, box |-> whole, color |-> "guest's", mask |-> "all"]
  BY DEF DisplayInit
<1>2. whole \in Boxes
  BY DisplayConstants, SMT DEF DisplayConstants, Boxes
<1> HIDE DEF whole
<1>3. /\ 0 \in Values /\ FALSE \in Values /\ whole \in Values /\ "guest's" \in Values /\ "all" \in Values
      /\ FALSE \in BOOLEAN
  BY <1>2, Zenon DEF Values
<1>4. /\ DOMAIN gl = Registers /\ gl = [r \in DOMAIN gl |-> gl[r]]
      /\ gl["framebuffer"] = 0 /\ gl["scissor"] = FALSE /\ gl["box"] = whole
      /\ gl["color"] = "guest's" /\ gl["mask"] = "all"
  BY <1>1, SMT DEF Registers
<1>5. \A r \in Registers : gl[r] \in Values
  BY <1>3, <1>4, Zenon DEF Registers
<1>6. gl \in [Registers -> Values] /\ gl.scissor \in BOOLEAN
  BY <1>3, <1>4, <1>5, Zenon
<1>7. script \in Seq(Calls)
  BY <1>1, SMT
<1> QED BY <1>1, <1>6, <1>7, NothingScripted, Zenon DEF OverlayInv, Scripted

\* Only a frame draws, and only it leaves the places where a script runs.
LEMMA OthersDrawNothing ==
  ASSUME Mixing, [DisplayNext]_<<vars, displayvars>>, ~Frame
  PROVE  /\ UNCHANGED <<gl, guest_gl, script, cursor>>
         /\ at \in {"cursor", "swap"} => at' = at
<1>1. CASE Probe
  <2>1. UNCHANGED drawing
    BY <1>1, Zenon DEF Probe, ProbeOpens, ProbeInit, ProbeInitFails, ProbeWindow, ProbeContext,
       ProbeThunks, ProbeFrames, ProbeClose, ProbeDevices
  <2> QED BY <1>1, <2>1, ProbeFrame, Zenon DEF Probing, drawing
<1>2. CASE Start
  <2>1. UNCHANGED drawing
    BY <1>2, Zenon DEF Start, StartOpens, StartInit, StartWindow, StartContext, StartFails,
       StartThunks, StartFunctions, Opens
  <2> QED BY <1>2, <2>1, StartFrame, Zenon DEF Starting, drawing
<1>3. CASE StopBegins
  BY <1>3, Zenon DEF StopBegins, drawing
<1>4. CASE Stop
  <2>1. UNCHANGED drawing
    BY <1>4, Zenon DEF Stop
  <2> QED BY <1>4, <2>1, StopEffects, Zenon DEF drawing
<1>5. CASE AudioStart
  <2>1. PICK c \in AudioCall : AudioChecks(c) \/ AudioOpens(c) \/ AudioStores(c) \/ AudioReports(c)
    BY <1>5 DEF AudioStart
  <2>2. UNCHANGED drawing /\ (at' = at \/ (c = "mixer" /\ calls[c] \in UnderWay))
    BY <2>1, Zenon DEF AudioChecks, AudioOpens, AudioStores, AudioReports, UnderWay
  <2> QED BY <2>2, Zenon DEF Mixing, drawing
<1>6. CASE BootStep
  BY <1>6, Zenon DEF BootStep, drawing
<1>7. CASE UNCHANGED <<vars, displayvars>>
  BY <1>7 DEF displayvars, drawing
<1> QED BY <1>1, <1>2, <1>3, <1>4, <1>5, <1>6, <1>7, Zenon DEF DisplayNext, DisplayStep

\* A frame keeps the promises of its script.
LEMMA FrameDraws ==
  ASSUME OverlayInv, Frame
  PROVE  OverlayInv'
<1>1. /\ gl \in [Registers -> Values] /\ guest_gl \in [Registers -> Values]
      /\ guest_gl.scissor \in BOOLEAN /\ script \in Seq(Calls)
      /\ Restores(script, gl, guest_gl) /\ ClearsRight(script, gl, cursor)
  BY DEF OverlayInv, Scripted
<1>2. script = <<>> => gl = guest_gl
  <2> SUFFICES ASSUME script = <<>> PROVE gl = guest_gl
    OBVIOUS
  <2>1. Restores(<<>>, gl, guest_gl)
    BY <1>1
  <2>2. \A r \in Registers : gl[r] = guest_gl[r]
    BY <2>1, NothingScripted, Zenon
  <2> QED BY <1>1, <2>2, SMT
<1>3. at \notin {"cursor", "swap"} => script = <<>>
  BY Zenon DEF OverlayInv, Scripted
<1>4. CASE Render
  <2>1. script = <<>> /\ script' = <<>> /\ gl' \in GuestGL /\ guest_gl' = gl'
    BY <1>3, <1>4, Zenon DEF Render, Steps
  <2>2. gl' \in [Registers -> Values] /\ gl'.scissor \in BOOLEAN
    BY <2>1, GuestSettings
  <2>3. Restores(script', gl', guest_gl') /\ ClearsRight(script', gl', cursor')
    BY <2>1, NothingScripted, Zenon
  <2>4. Scripted'
    BY <1>1, <2>1, <2>2, Zenon DEF Scripted
  <2> QED BY <2>3, <2>4 DEF OverlayInv
<1>5. CASE Capture \/ DrawCursor
  <2>1. /\ script = <<>> /\ UNCHANGED <<gl, guest_gl>> /\ at' \in {"cursor", "swap"}
        /\ \/ script' = <<>>
           \/ script' = Call("framebuffer", 0) \o Call("framebuffer", gl.framebuffer)
           \/ \E x \in Axis, y \in Axis : script' = Overlay(x, y) /\ cursor' = <<x, y>>
    <3>1. CASE Capture
      <4>1. /\ at = "capture" /\ at' = "cursor" /\ UNCHANGED <<gl, guest_gl>>
            /\ script' \in {<<>>, Call("framebuffer", 0) \o Call("framebuffer", gl.framebuffer)}
        BY <3>1 DEF Capture, Steps
      <4>2. script = <<>>
        BY <1>3, <4>1, Zenon
      <4> QED BY <4>1, <4>2, Zenon
    <3>2. CASE DrawCursor
      <4>1. /\ script = <<>> /\ at' = "swap" /\ UNCHANGED <<gl, guest_gl>>
            /\ script' = script \/ \E x, y \in Axis : script' = Overlay(x, y) /\ cursor' = <<x, y>>
        BY <3>2, Zenon DEF DrawCursor, Steps
      <4>2. script' = <<>> \/ \E x \in Axis, y \in Axis : script' = Overlay(x, y) /\ cursor' = <<x, y>>
        BY <4>1, Zenon
      <4> QED BY <4>1, <4>2, Zenon
    <3> QED BY <1>5, <3>1, <3>2
  <2>2. gl = guest_gl /\ gl.scissor \in BOOLEAN
    BY <1>1, <1>2, <2>1
  <2>3. script' \in Seq(Calls) /\ Restores(script', gl, gl) /\ ClearsRight(script', gl, cursor')
    <3>1. CASE script' = <<>>
      BY <1>1, <2>1, <3>1, NothingScripted, Zenon
    <3>2. CASE script' = Call("framebuffer", 0) \o Call("framebuffer", gl.framebuffer)
      BY <1>1, <3>2, CaptureSafe
    <3>3. CASE \E x \in Axis, y \in Axis : script' = Overlay(x, y) /\ cursor' = <<x, y>>
      <4>1. PICK x \in Axis, y \in Axis : script' = Overlay(x, y) /\ cursor' = <<x, y>>
        BY <3>3
      <4>2. /\ Overlay(x, y) \in Seq(Calls) /\ Restores(Overlay(x, y), gl, gl)
            /\ ClearsRight(Overlay(x, y), gl, cursor')
        BY <1>1, <2>2, <4>1, OverlaySafe
      <4> QED BY <4>1, <4>2
    <3> QED BY <2>1, <3>1, <3>2, <3>3, Zenon
  <2>4. Scripted'
    BY <1>1, <2>1, <2>3, Zenon DEF Scripted
  <2>5. Restores(script', gl', guest_gl') /\ ClearsRight(script', gl', cursor')
    BY <2>1, <2>2, <2>3
  <2> QED BY <2>4, <2>5 DEF OverlayInv
<1>6. CASE CallGL
  <2>1. /\ script # <<>> /\ script' = Tail(script) /\ UNCHANGED <<at, guest_gl, cursor>>
        /\ gl' = IF Head(script).name = "clear" THEN gl
                 ELSE [gl EXCEPT ![Head(script).name] = Head(script).value]
    BY <1>6 DEF CallGL
  <2>2. /\ gl' \in [Registers -> Values] /\ script' \in Seq(Calls)
        /\ Restores(script', gl', guest_gl') /\ ClearsRight(script', gl', cursor')
    BY <1>1, <2>1, CallStep
  <2>3. at' \in {"cursor", "swap"}
    BY <1>3, <2>1, Zenon
  <2>4. Scripted'
    BY <1>1, <2>1, <2>2, <2>3, Zenon DEF Scripted
  <2> QED BY <2>2, <2>4 DEF OverlayInv
<1>7. CASE Swap
  <2>1. script = <<>> /\ UNCHANGED <<gl, guest_gl, script>>
    BY <1>7 DEF Swap
  <2>2. Scripted'
    BY <1>1, <2>1, Zenon DEF Scripted
  <2>3. Restores(script', gl', guest_gl') /\ ClearsRight(script', gl', cursor')
    BY <1>1, <2>1, NothingScripted, Zenon
  <2> QED BY <2>2, <2>3 DEF OverlayInv
<1> QED BY <1>4, <1>5, <1>6, <1>7 DEF Frame

LEMMA OverlayStep ==
  ASSUME Mixing, OverlayInv, [DisplayNext]_<<vars, displayvars>>
  PROVE  OverlayInv'
<1>1. CASE ~Frame
  <2>1. UNCHANGED <<gl, guest_gl, script, cursor>> /\ (at \in {"cursor", "swap"} => at' = at)
    BY <1>1, OthersDrawNothing
  <2>2. Scripted /\ Restores(script, gl, guest_gl) /\ ClearsRight(script, gl, cursor)
    BY DEF OverlayInv
  <2>3. Scripted'
    BY <2>1, <2>2, Zenon DEF Scripted
  <2>4. Restores(script', gl', guest_gl') /\ ClearsRight(script', gl', cursor')
    BY <2>1, <2>2
  <2> QED BY <2>3, <2>4 DEF OverlayInv
<1> QED BY <1>1, FrameDraws

(***************************************************************************)
(* For every drawable of more than 16 by 16 pixels, every place of the     *)
(* cursor on or off it, and whatever the guest has bound, whichever its    *)
(* scissor box, the overlay clears only pixels of the two bars about the   *)
(* place of the drawable nearest to the cursor, in the default             *)
(* framebuffer, and by the swap each register of GL is again as the guest  *)
(* left it.                                                                *)
(***************************************************************************)
THEOREM OverlayStaysHarmless == DisplaySpec => []OverlayHarmless
<1>1. OverlayInv => OverlayHarmless
  <2> SUFFICES ASSUME OverlayInv PROVE OverlayHarmless
    OBVIOUS
  <2>1. /\ gl \in [Registers -> Values] /\ guest_gl \in [Registers -> Values]
        /\ script \in Seq(Calls)
        /\ Restores(script, gl, guest_gl) /\ ClearsRight(script, gl, cursor)
    BY DEF OverlayInv, Scripted
  <2>2. ASSUME script # <<>>, Head(script).name = "clear"
        PROVE  \A r \in Registers : Right(cursor, r, gl[r])
    <3>1. 1 \in 1 .. Len(script) /\ script[1].name = "clear" /\ ~\E i : i \in 1 .. 1 - 1
      BY <2>1, <2>2, SMT
    <3> QED BY <2>1, <3>1, Zenon DEF ClearsRight
  <2>3. ASSUME script # <<>>, Head(script).name = "clear"
        PROVE  /\ gl.framebuffer = 0 /\ gl.scissor /\ gl.mask = "all"
               /\ OnBars(gl.box, cursor)
               /\ gl.box.x >= 0 /\ gl.box.x + gl.box.w <= Width
               /\ gl.box.y >= 0 /\ gl.box.y + gl.box.h <= Height
    <3>1. /\ Right(cursor, "framebuffer", gl.framebuffer) /\ Right(cursor, "scissor", gl.scissor)
          /\ Right(cursor, "mask", gl.mask) /\ Right(cursor, "box", gl.box)
      BY <2>2, <2>3, Zenon DEF Registers
    <3> QED BY <3>1, Zenon DEF Right
  <2>4. ASSUME script = <<>> PROVE gl = guest_gl
    <3>1. Restores(<<>>, gl, guest_gl)
      BY <2>1, <2>4
    <3>2. \A r \in Registers : gl[r] = guest_gl[r]
      BY <3>1, NothingScripted, Zenon
    <3> QED BY <2>1, <3>2, SMT
  <2> QED BY <2>3, <2>4, Zenon DEF OverlayHarmless
<1>2. DisplayInit => Mixing /\ OverlayInv
  BY DisplayInitInv, OverlayInit DEF DInv
<1>3. Mixing /\ OverlayInv /\ IInv /\ [DisplayNext]_<<vars, displayvars>> => Mixing' /\ OverlayInv'
  BY MixingStep, OverlayStep, Zenon DEF IInv
<1>4. DisplaySpec => []IInv
  BY DisplayImplementsBoot, Invariance, PTL
<1> QED BY <1>1, <1>2, <1>3, <1>4, PTL DEF DisplaySpec
=============================================================================
