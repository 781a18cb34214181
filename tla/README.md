# A verification project for nfsmw-r36s

nfsmw-r36s runs the Android build of *Need for Speed: Most Wanted* (five ARM32
Bionic libraries) on a Linux handheld.  A small host program maps the guest
libraries, binds their imports to host functions and bridges, runs their
constructors, plays the part of the Java side (JNI, input, FMOD's AudioTrack
thread, OpenSL ES), and tears everything down.  This directory holds TLA+
models of that program, their TLC configurations, and TLAPS proofs.

All paths below are relative to `src/runtime/src/` unless they start
otherwise.

## 1. Inventory

| Component | Source | State | Operations | Modelled in |
|---|---|---|---|---|
| Process life | `main.c`, `initializer_trace.c` | `mapped`, `images`, `constructors_started/completed`, `result`, the three `NFSMW_RUN_*` variables | map, describe, census, preflight, relocate, patch, run constructors, JNI start, game, shutdown, destructors, finalisers, unmap | `Boot` |
| C++ exit registry | `compat_bridge.c:375-420` | `atexit_entries`, `atexit_count`, `atexit_lock` | `__cxa_atexit`, `__cxa_thread_atexit_impl`, `__cxa_finalize` | `CxaAtexit` |
| Mutex and condition bridge | `compat_bridge.c:518-691` | one word per guest object; host objects | init, destroy, lock, trylock, unlock, signal, broadcast, wait, timedwait | `SyncBridge`, `GuestMutex` |
| Read-write locks and semaphores | `compat_bridge.c:693-824` | as for mutexes | init, destroy, rdlock, wrlock, unlock; wait, trywait, timedwait, post, getvalue | `LockBridge` over `SyncBridge` |
| Game loop: input and cursor | `jni_bridge.c:1929-2300`, `platform_probe.c:773-816` | `previous`, cursor, `touch_down`; the guest's keys, touch and stick | read the controller, button edges, end of frame | `GameInput` |
| Audio | `jni_bridge.c:2215-2290`, `opensl_bridge.c`, `platform_probe.c:818-854` | SDL queue and device, player and its callback, FMOD buffer | FMOD format and pull, player create, destroy, enqueue, callback, pump | `AudioPipeline` |
| ELF loader | `elf32_loader.c` | mapping, segments and their protection, relocated words | map, relocate, find export, unmap | `ElfImage`; `Linker`: symbols; `Boot`: absent, mapped, bound |
| Relocation and symbols | `relocation_probe.c`, `symbol_probe.c`, `softfp_symbols.c` | host library handles, provider counts | census, resolve a name, relocate, retain and release the hosts | `Linker`; `Boot`: the handles |
| JNI tables, registry, objects | `jni_bridge.c:1-1870` | tables of method and field IDs; fake objects, strings, arrays, a bitmap | look up an ID, call by ID, new object, lock a bitmap | `JniRegistry`, `JniBridge`; objects: not modelled |
| Display runtime, overlay | `platform_probe.c` | SDL's library, window, context, controller and audio device; GL state around the overlay | probe, start, present, capture, draw the cursor, stop | `Display` over `Boot` |
| OBB index | `obb_index.c` | entries of the ZIP directory, one array for the result of a listing | open, size of an asset, list, close | `ObbIndex` |
| Once, threads, keys, attributes | `compat_bridge.c:826-1020` | none of its own | translate a record and forward the call | not modelled |
| Signals and jumps | `compat_bridge.c`, `bionic_setjmp.S` | saved registers and signal mask | sigaction, sigsetjmp, siglongjmp | not modelled |
| stdio, stat, dirent, ctype | `compat_bridge.c` | three standard streams | record translation | not modelled |
| Soft-float thunks | `softfp_bridge.c` | a table of function pointers | bind, one-line calls | `Display`: the binding and the life of the addresses |
| Crash trace | `crash_trace.c` | none | print and exit from a signal handler | not modelled |
| Installer, launcher | `src/portmaster`, `src/tools/extract_nfsmw.sh` | installed files, a readiness marker | find, hash, unpack, remove, move, mark, run | `Installer` |
| Audits, tests, packaging | `src/tools`, `build_port.sh` | none | development only | not modelled |

**How they interact.**  `main` calls every stage in turn; each stage reports
failure by its return value and every failure meets at one label, `done`.  The
relocation stage writes addresses of host functions and of bridge functions
into guest images, so from then on the guest calls the bridges directly, on any
of its threads: the exit registry, the mutex bridge and the JNI tables are
entered concurrently.  The game loop runs on the main thread: it reads SDL,
calls the guest's key, touch and tick functions, pulls the FMOD mixer, and
calls the guest's OpenSL callback, which calls back into the OpenSL bridge.
SDL's audio thread drains the queue both producers fill.

**What is hard, and what correct means.**

* *Process life.*  A failure can happen at every stage, with some modules
  mapped, some bound, a constructor half done.  Correct: guest code never runs
  in an incomplete image and never loses the image it runs in; finalisers
  mirror initialisers; nothing is left open; the exit status is truthful.
* *Exit registry.*  The lock is dropped around each destructor, and destructors
  register and finalise themselves.  Correct: at most once, nothing that matches
  left behind or lost, no deadlock.
* *Mutex bridge.*  A host object is created lazily, without a lock, by whichever
  call comes first, of a type that two numbers of another C library ask for.
  Correct: one host object per guest object, never a stale or foreign address,
  the guest's own mutex contract.
* *Input.*  Several edges in one frame, in index order, each able to change what
  the next one means.  A stick need not rest
  at its centre.  Correct: the guest never keeps a touch the player ended; keys do not stick
  outside cursor mode; the cursor does not drift; the loop can be left.
* *Audio.*  Two producers, each with a look at the queue and a later write, and
  a consumer on another thread.  Correct: bounded delay, no callback into a
  destroyed player, neither producer starves the other.

* *One image.*  Its pages are made writable, written and protected twice, by
  loops that can fail anywhere, and segments can share a page.  Correct: each
  page ends with its segment's rights, nothing is written that cannot be, a
  failed mapping leaves nothing behind.
* *Read-write locks, semaphores.*  Created like mutexes, on the same heap, so that
  an address freed by one sort of object returns as another.  Correct: exclusion
  of writers, and no post lost or taken twice.
* *Display.*  SDL's library, window and context are opened twice, by the
  preflight and by the runtime, and every call can fail; the thunks keep
  addresses from inside a driver that a closed window may unmap; the overlay
  draws in the guest's GL context; a guest thread may be between the checks of
  `audio_start` and its call when `main` stops the runtime.  Correct: every
  address in use belongs to a mapping that is there, devices are closed before
  what they need, only the overlay's own pixels are cleared, and GL's state is the
  guest's at every swap.
* *JNI registry and listings.*  Two tables and one result array that guest
  threads use without a lock.  Correct: what did not meet a race is never spoilt
  by one.
* *Installer.*  A shell script that can be killed between any two commands and
  whose removals can fail.  Correct: the runtime starts on all libraries or not
  at all, and trying again helps.
* *Relocation.*  A name may be known to several guest modules and to five other
  sources, which the census and relocation ask in two different ways.  Correct:
  one definition of a name for all modules, no host function of another ABI,
  a census that keeps its promise.

Every hazard, at its line, is listed under "hazards" in `PROJECT.json`.

## 2. Plan

Done, in the order of importance: `CxaAtexit`, `SyncBridge` over `GuestMutex`,
`GameInput`, `AudioPipeline`, `Boot`, `Linker`, `ElfImage`; then `Display` over
`Boot`, `JniRegistry` and `ObbIndex` composed in `JniBridge`, `LockBridge` over
`SyncBridge`, and `Installer`.  Every safety property that a run checks is
proved, the refinements included (section 6); liveness is left to TLC.

Next:

1. An abstract listing that `ObbIndex` implements while nobody else lists, and
   an abstract installation that a kill leaves old or new.
2. Composition of `Boot` with `CxaAtexit`: the exit registry as the stage
   `finalize`, with guest threads still running.

## 3. The modules and the code

Every definition that models code is listed in `PROJECT.json` under "map" with
its lines.  A definition whose comment starts with "Mutant" is a plausible
wrong version of the one it precedes; no specification uses it.

### CxaAtexit: the C++ exit registry

A *call* of a registry function is an element of `Call`, numbered in the order
of the calls, with its locals (`pc`, `obj`, `dso`, `index`) as functions of the
call.  The caller of a call is a thread, or the finalize call whose destructor
makes it, so that nesting is a chain.  One step is what lies between two
operations on `atexit_lock` or on the entries: `RegLock`, `RegStore` (or
`RegRefuse`), `RegCount`, `RegUnlock`; `FinLock`, `FinSkip`, `FinPick`,
`FinRun` (unlock and enter the destructor), `DestructorReturns`, `FinRelock`,
`FinReturn`.  `top`, `accepted` and `started` are history variables.

* `AtMostOnce`: no destructor is entered twice, and none that was refused.
* `NoLostRegistration`: an accepted registration has exactly one live entry
  until its destructor is taken.
* `SweepComplete`: when a finalize call returns, no matching entry among those
  it started with is live.
* `FinalizeReturns` (liveness): no destructor that registers or finalises from
  within a finalize call blocks it.

Run `cxa_atexit`: two threads, four calls, two modules, two entries.  Four calls
are enough for a destructor that calls finalize while the other thread
registers into the last slot, or for the registry to be full when a destructor
registers; 235 033 states.

### SyncBridge, GuestMutex and LockBridge: the synchronisation bridge

`slot[g]` is the word of guest memory: a number that is `Small` while a static
initialiser or zero is in it, `Wild` for uninitialised memory, a member of
`Host` for an address.  `Type` is a mutex type as the guest means it.  Bionic's
headers turn it into an `Attribute` or a static `Initialiser` (0, 0x4000,
0x8000), which are external numbers; the bridge turns those into glibc's by
`mutex_type_from_guest` and by `Encoded`, the two bits of the word that
`compat_mutex_get` looks at.  `type[h]` is the host's number, and only the
refinement compares it with what the guest `Meant`.  Each call reads the word
(`ReadObject`, `ReadCond`), allocates (`Allocate`), stores (`Store`) and then
uses the host object, one step each, with nothing between them locked, as in
`compat_mutex_get` and `compat_cond_get`.  Host pthreads are glibc's and
external: `Take`, `Give`, `Waiters`.

The guest is the environment, with the discipline POSIX asks of it: it
initialises before use, does not destroy what is in use, does not unlock a
normal mutex it does not hold.  `Racy` says whether two threads may be in the
first call on a static object at the same time.

`LockBridge` adds read-write locks and semaphores.  Their getters are those of
mutexes but for the host object they allocate, so `ReadObject`, `Allocate`,
`Store` and `Destroy` serve all of them; `Sort` says what lives at a host
address.  `readers` and `count` are the host's state, `reading`, `writing` and
`tokens` what the guest was told.  `sem_init` of a shared semaphore returns -1
and changes nothing: no step.

* `Exclusion`: `MutualExclusion` for mutexes, and no reader or second writer
  beside a writer.
* `PostsKept`: a semaphore's host count is its initial value plus posts less
  waits, whichever call created it.
* `MutualExclusion`, `HandlesLive`, `WaitersReachable`, `OneWordPerHost`: see
  the comments in the module.
* `ImplementsGuestMutex`: with the owner and depth of the host mutex the word
  names, every step is a step of `GuestMutex` or leaves it unchanged, and no step
  leaves a host mutex of another type than the guest meant (`TypeAsked`).  The
  mutant takes the type from bits 13 and 14.

Runs: `sync_bridge` (three threads, three host addresses, `Racy = FALSE`; a
program has one mutex and one condition, or one read-write lock, or one
semaphore of at most two; 25 897 states up to symmetry).  It says nothing of two
first calls at once on one object; `HandlesLive` is proved of them too.  Three
threads are two waiters and a signaller, or two readers and a writer.  There is
a host address to spare for a re-initialised object.  `sync_bridge_racy` (two
threads, `Racy = TRUE`) finds `MutualExclusion` violated: see section 5.

### GameInput: input and cursor

One frame is `ReadInput`, then one step per changed button in index order, then
`FrameEnds`.  A pass of the code's loop over an unchanged button does nothing
and is no step.  `guest_keys`, `guest_touch` and `guest_stick` are what the
guest was last told.  The stick is kept as an integer, 28671 times the float
the code writes.  The JNI motion event is left out: the code zeroes the four
stick axes in it.  `StickStep` is C's division, which rounds towards zero on
both sides of the centre.  The rest of the frame that can also end the loop, an audio
error, belongs to `AudioPipeline`.

* `TouchHeld`: a touch the guest has been told of has the cursor showing and A
  held, in every order of A's release, Select and a shoulder button, and is
  inside the limits of the cursor.
* `KeysFollow`: keys that cursor mode does not take agree with the player after
  each edge; the guest never sees Back.
* `CursorModeQuiet` (action property): in cursor mode A, the D-pad and the stick
  do not reach the guest.
* `CursorFollows` (action property): the cursor moves only where the D-pad or the
  stick pushes it, the stick by at least the guest's dead zone.  A division that
  rounds down (the mutant) makes it drift.
* `LoopEnds` (liveness): the exit chord or the frame limit ends the loop.

Run `game_input`: six buttons (A, Back, Guide, Start, a shoulder, D-pad up),
every subset pressed in every frame, two stick positions, with -32768, with
a reading of -5000 that the division has to truncate, and with one just inside
the dead zone, a screen of three by two positions, no frame limit or two frames;
193 714 states.  Buttons not wired are treated like Start or like D-pad up; the
proofs are for any set of buttons.

### AudioPipeline: the mixer, OpenSL and SDL's queue

`phase` is where the loop is in its frame; a look at the queue (`MixerLow`,
`PlayerLow`) and the write that depends on it are separate steps, and SDL's
`Drain` may come between.  The guest creates and destroys its player,
registers a callback, and adds a buffer, from its tick or from the callback.
Sizes are in units of the smallest buffer.

* `QueueBounded`: at most three mixer buffers or two player buffers are pending
  (one more than each threshold).
* `CallbackOfPlayer` (action property): a callback is entered only for a live
  player that has had a buffer.
* `PlayerFed` (liveness): a player whose buffers are at least as long as what
  the mixer keeps pending is called back again and again; a player with shorter
  buffers may starve behind the mixer, and the property says so by its
  premise.

Run `audio`: one player buffer of three units, mixer buffers of one or two,
formats outside the accepted limits included; 1 491 states.

### Boot: the life of the process

One action per stage and one for its failure, from the first `elf32_map` to the
exit status, for any number of modules and of lifecycle functions per module.
`image[m]` is absent, mapped or bound.  Wrong usage (`argc != 2`) returns 2
before any state exists and is left out.

* `GuestKeepsItsCode`, `FinalizersMirror`: see the comments in the module.  Within
  one module the functions are counted, so the order of its tables is not
  modelled, only the order across modules.
* `NothingHeld`: devices are closed at the end, and what was mapped is unmapped when
  no guest code ran.  The SDL library of the preflight is `ClosedInOrder`'s.
* `ZeroMeansPassed`: with exit status 0, the stages that came to their end are
  exactly those that were asked for, JNI startup (`jni_started`) and the game
  (`game_returned`), both history variables, among them.  `main` looks at
  `NFSMW_RUN_JNI` and `NFSMW_RUN_GAME` only after the constructors, so without
  `NFSMW_RUN_CONSTRUCTORS` they ask for nothing and the status is still 0.

`Boot` is checked through `Display`, which refines it; `boot_exit` checks it
alone and finds `CleanReturnFinalizes` violated: see section 5.

### Display: the process with its display

`Display` EXTENDS `Boot`: a step is a step of the display while main's stage
stands still (`DisplayStep`), or a step of `Boot`, which may end a stage only
where its routine has ended (`StageEnds`).  `at` is the next call of the routine
that runs, `open` what SDL holds.  `Probe` is `nfsmw_platform_probe`, `Start`
and `Stop` are `nfsmw_platform_runtime_start` and `_stop`; each call can fail.
The driver is mapped while SDL has a window or the relocation's host handles
keep it (`HostsHoldDriver`), and `load` numbers its mappings; `thunks` is the
set of mappings the 16 addresses of `softfp_bridge.c` are from, more than one
after a binding that stopped in the middle.  `Render` lets the guest leave GL in
any state, any box of `GuestBoxes` among it, and `Overlay` is the list of GL calls
of `runtime_draw_cursor`, made one by one.

`nfsmw_platform_runtime_audio_start` may be called by any thread of the guest at
any time (`GuestCalls`), and by `main` for FMOD's mixer, which waits for it.  It
is four steps, as nothing in the code keeps them together: `AudioChecks`,
`AudioOpens`, `AudioStores`, `AudioReports`; `calls` says where each call is.
Between them main may close SDL, its library, and clear the runtime.  A call then
is refused, reaches code that may be unmapped or a null pointer (`crashed`, where
the process ends), or stores an id after the `memset`.  `met` remembers that a
call was under way in a stop.

* `ThunksLive`: from the runtime's start to the process's end, also after the
  stop, while destructors and finalisers run, the thunks' addresses lie in the
  driver as it is mapped now.  It needs `HostsHoldDriver`: the launcher links
  `libEGL` and `libGLESv2` to one driver file (`src/portmaster/Need for Speed
  Most Wanted.sh:50-59`), and the relocation retains a handle on it.  Without
  that, the stop unmaps the driver before destructors run: the launcher makes the
  links only when it finds the driver's file, and no run has
  `HostsHoldDriver = FALSE`.
* `ClosedInOrder`: a device is closed before what it needs, also one that a call
  of the guest opened and stored while main was stopping, or that another call's
  store has hidden; and at the end nothing is open but an SDL library that lacks
  a symbol, which `open_sdl` leaves open in the preflight.  A crash, or an id that
  outlives the runtime, comes only of a call that met a stop: the code does not
  rule that out, and the property does not say it does.
* `OverlayHarmless`: whatever box and test the guest left, each clear of the
  overlay has the default framebuffer, the scissor test on, the full mask and a box
  on one of the two bars about the nearest place on the screen; and at the swap GL
  is as the guest had it.  `Nearest` and `OnBars` say which pixels these are
  without the code's `Clamp`.  The mutant leaves the two `glScissor` calls out.
* `Terminates` (liveness): every run of the process ends, if not by a fault of such
  a call then with an exit status.

Run `boot`: five modules, two functions each, all eight environments, a failure
at every stage and SDL call, cursor positions at both ends of the screen and
beyond, the whole screen and a small box as the guest's scissor, two frames, and
one guest call beside the mixer's, so that two calls and the stop meet at every
step; 704 844 states.

Left out: `runtime_gl_diagnostics`, which reads state and drains `glGetError`,
so that the guest does not see its own errors; what the guest's constructors
would do with thunks between the preflight and the runtime's start, when the
addresses are the preflight's.

### JniRegistry, ObbIndex and JniBridge: the guest's threads on the JNI tables

`JniRegistry` is `register_method` and `register_field`: `methods[method_count++]`
is four steps (`Load`, `Store`, `WriteName`, `WriteRest`), the search and the
check are steps of their own, and nothing is locked.  An ID is the index of a
slot.  `Held` is what `snprintf` keeps of a text.  `ObbIndex` is the index of
the archive, with paths as sequences of components, and its one result array:
`Fill` writes it, and `Copy` is the adapter in `dispatch_object` and
`jni_call_object_method_a` that reads it after `nfsmw_obb_list` has returned.
`JniBridge` composes them: threads look up IDs and call `list` through an ID that
any of them was given, dispatched by the name in its slot; main opens the index
and closes it while threads go on.

Races do spoil what takes part in them, and the properties say exactly what
stays right:

* `SoloIdKept`: the ID of a lookup that met no other one names its method for
  good, whatever races before and after.
* `OverrunOnlyByRace`: without a race the capacity holds.  The model ends at an
  overrun.
* `AloneListsExactly`: a listing that met no other one and no close has every
  child once and nothing else, and the sizes agree with it.

Run `jni_bridge`: two threads, four calls, two method slots and one field slot,
a text that does not fit its slot, an archive of five entries with a directory
without an entry of its own and an empty component; 1 079 000 states up to
symmetry.

Left out: the copy of a path into `prefix[4096]` (`obb_index.c:198-214`), whose
length the code does not check: longer paths are outside the model; fake
objects, which are allocated and never freed, and the calls that return
constants. A method is dispatched by name alone, whatever its class, and the
form of the call with an array of arguments lacks two names the other has
(`getNotchesBoundingRects`, `loadClass`); no property is about that.

### Installer: setup and launcher

One action per command of `setup.sh`.  `rm -rf` of the installed directory is a
file at a time, in any order (`RemoveFile`); a redirection creates an empty file
before `unzip` fills it (`OpenFile`, `Unzip`).  A kill can come between any two
steps, a command can fail, `rm`'s and `printf`'s status is not looked at, and
the user can delete `libapp.so` and starts again.

* `LaunchedWhole`: the runtime starts only on all five libraries, unless the
  last `rm` left files behind (`gave_up`): then `mv` puts the new directory
  inside the old one and setup says it is ready.
* `RetryHeals` (liveness): with the user's data in place, trying again leads to
  the runtime's start on all five libraries, again and again.  The exception is
  `Sealed`: `rm` failed after it had removed another library than `libapp.so`, the
  new directory went inside the old one, and the marker of line 50 was written,
  so that line 12 starts the runtime on the rest every time.  Starts of that kind
  do not count; only the user who deletes `libapp.so` gets out.

Run `installer`: five libraries and four faults; 26 601 states.  A power cut that
loses unflushed writes is not modelled: nothing in the script flushes.

### Linker: the census and relocation

`table[m][n]` is what module m's symbol table says of name n, `knows[n]` the set
of sources outside the modules that know it: the soft-float thunks, the two
aliases, the bridges, the list of boundary names, the host libraries.  Both are
arbitrary and fixed from the start.  `Lookup` is `relocation_lookup`: the
modules mapped earlier, then the sources in `Order`.  `Census` is
`nfsmw_probe_symbols`, in one step because nothing runs beside it.  Then each
relocation record that names a symbol is one step (`BindOwn`, `BindImport`,
`BindNull`, `LeaveUnresolved`), in any order of names, as the tables may list
them so.  `GuestAsks` is what running guest code does past the linker.

* `NoForeignAbi`: no word is bound to a host function that passes scalar floats
  or lays out objects in another way than the guest.
* `ImportsAgree`: when modules are mapped in dependency order, all that import
  a name bind it to one definition.
* `CensusPredicts`: a census without unbridged or missing imports means that
  relocation leaves nothing unresolved.

`DependencyOrder`, the premise of the last two, is what the list `modules` in
`main.c:15-23` is for.  Without it both fail, as they should: a module that
imports from a later one is bound to the host or not at all.

Runs: `linker` (four modules, so that a second exporter can lie between two
importers; one name, as names do not influence each other; one record per
module; at most two sources know the name; 1 650 619 states) and `linker_asks`
(one module), which finds `AskedIsThunked` violated: see section 5.

### ElfImage: one guest library

`protection[p]` is what `mprotect` last granted on a host page of the image's
mapping; a segment covers the pages from its first to its last byte, so that
two may share a page.  The loops of `elf32_map`, `set_segments_writable` and
`protect_segments` are one step per segment, `index` being the segment they
have come to; `StageFails`, `PrepareFails`, `ProtectFails`, `RestoreFails`,
`MakeWritableFails`, `RelocateFails` and `ApplyFails` are their failures.  A
failing `mprotect` may have changed part of its range.

* `NothingLeft`: after a failure nothing stays open or mapped.
* `RightsExact`: after `elf32_map`, after `elf32_relocate`, and also after a bad
  record, each page has what the last of its segments asks for.  An `mprotect`
  that fails inside `elf32_relocate` is excluded (`broken`): the code returns
  with text still writable, and `main` gives the image up.  On a page that two
  segments share only the last one's rights hold, so that text there need not be
  executable.
* `WritesAllowed` (action property): a record is never applied to a page that
  cannot be written.

The segments are assumed to be readable, as the loader reads its tables through
the image, and records to lie in segments: `range_in_image` only compares with
the whole mapping, so a record in a gap would fault.

Run `elf_image`: three segments over three pages in every order, overlap and
combination of R, RX and RW; 1 453 222 states.

## 4. Bounds and fairness

Each bound is a CONSTANT: `MaxCalls` (calls per behaviour), `MaxDepth` (entries
of a recursive mutex), `MaxCount` (a semaphore), `Host` (live host objects),
`Programs` (the objects a guest program has), `Limits` (frames), `MaxFrames`,
`Axis` (cursor positions), `GuestBoxes` (the guest's scissor), `GuestCalls` (its
starts of the audio), `ModuleCount`, `Functions`, `MaxRecords` (records per
module), `PageCount`, `SegmentCount`, `Asked` and `Paths` (what the guest looks
up and lists), `MaxFaults` (of the installer).  `Capacity` in the runs is 1 or 2
instead of the code's hundreds, so that the limit is met.

| Fairness | Justification in the code |
|---|---|
| `CxaAtexit`: weak fairness of each call's own next step | A thread that runs is scheduled; destructors return.  Guest threads need not make calls. |
| `GameInput`: weak fairness of `Next` | One thread, and none of its calls waits for the player. |
| `AudioPipeline`: weak fairness of the loop's steps and of SDL's `Drain` | The loop does not wait; an open device is unpaused (`platform_probe.c:838`) and plays. |
| `Boot`: weak fairness of `Next` | `main` runs, and guest code returns. |
| `Display`: weak fairness of its next step | As `Boot`; SDL's calls return, a thread inside `audio_start` is scheduled, and it makes finitely many such calls (`GuestCalls`).  After a fault the process makes no step. |
| `Installer`: weak fairness of `Start`, and of `Setup` or `Runtime` | A script that is not killed goes on, the game is left in the end, and the user tries again. |
| `SyncBridge`, `LockBridge`, `Linker`, `ElfImage`, `JniBridge`: none | Only safety is stated: the guest decides when it unlocks, and the loader is a bounded pass. |

Deadlock is checked for `CxaAtexit`, `SyncBridge` with `LockBridge`, and
`Installer`.  In the other models the process, the loop or the budget of calls
ends, so the last state has no successor.

## 5. Where the code and its documents disagree

* `compat_mutex_get` (`compat_bridge.c:550`) reads the guest word, allocates and
  stores with no lock.  Two threads in the first lock of a statically
  initialised mutex each create a host mutex and both own the guest mutex.
  `research/abi-contract.md:93` asks for side tables keyed by guest address.
  Run `sync_bridge_racy`.
* `runtime/README.md:11` says that after a clean return registered destructors
  and finalisers run.  When the game itself was run, `main` calls `_exit(0)`
  right after it (`main.c:141-146`).  The comment at `jni_bridge.c:2307` says
  why the guest's own teardown is left out; it does not speak of these.  Run
  `boot_exit`.
* `research/abi-contract.md:56` lists a controlled `eglGetProcAddress` wrapper as
  EGL's provider.  There is none: the name falls through to the host libraries
  (`relocation_probe.c:172`), and `compat_dlsym` passes names on to `dlsym`, so a
  guest that asks at run time for a function with scalar floats gets the
  host's.  Run `linker_asks`.

## 6. What is proved

All proofs hold for every value of the constants that satisfies the `ASSUME` of
the module, which every run evaluates.

| Module | Theorems | Inductive invariant |
|---|---|---|
| `CxaAtexit_proofs` | `TypeCorrect`, `DestroyedAtMostOnce`, `RegistrationsKept`, `SweepsComplete` | who holds the lock (`LockInv`), that the slot being filled is the first free one (`RegInv`), which entries belong to accepted registrations (`EntryInv`, `ActiveInv`), that a copied entry is inactive (`PickInv`), and what a scan has left behind (`SweepInv`).  At-most-once alone is not inductive: it needs to know that an entry copied out of the registry is no longer active when the lock is dropped. |
| `GameInput_proofs` | `TypeCorrect`, `NoTouchLeftDown`, `KeysAreThePlayers`, `CursorModeHides`, `CursorGoesWherePushed` | the properties themselves (`TouchPaired` for touches) with the types, which hold the cursor's limits, and that the keys follow `previous`, not `buttons`. |
| `AudioPipeline_proofs` | `Invariance`, `DelayBounded` (with the types), `CallbackHasPlayer` | what a look at the queue still guarantees when the write comes, although SDL may have drained since (`LooksHold`), and that a callback has a live player (`PlayerKnown`). |
| `Boot_proofs` | `TypeCorrect`, `GuestCodeStays`, `TeardownMirrors`, `NothingLeaks`, `ZeroIsEarned`; `DisplayImplementsBoot`, `DisplayKeepsGuestCode`, `DevicesCloseInOrder`, `ThunksStayLive`, `OverlayStaysHarmless` | how many modules are mapped and bound at each stage (`Counting`, `Binding`), which stages come after the gate (`Running`), how far constructors and finalisers have come (`Constructing`, `Finalizing`), which devices are open (`Holding`), what a result of 0 stands for (`Passing`) and which stages JNI and the game have come to (`Reaching`); for the display, at which of main's stages its routines run (`Places`, `Started`), what is open before each call (`Contents`) and which driver mapping the thunks hold (`Bound`), where main's own start of the audio can be (`Mixing`) and that a call that is past its checks when the runtime is not up has met a stop (`Meeting`); for the overlay, what the calls still to come do to each register (`OverlayInv`). |
| `Linker_proofs` | `TypeCorrect`, `HostsOwnAbiOnly`, `OneDefinition`, `CensusIsSafe` | every bound word comes from the module itself, from its lookup, or is the NULL of a lookup without answer (`BoundInv`); the census is what its definitions say, and an unresolved word has an import without answer behind it (`UnresolvedInv`).  The lemmas say that an exported name has exactly one first exporter and which source `FirstSource` is. |
| `Libraries_proofs` | `InstalledWhole`; `TypeCorrect`, `MapCleansUp`, `RightsRestored`, `RelocationWrites` | of the installer, that the test which starts the game at once fails while setup works, that the files unpacked so far are whole, and that `mv` meets a directory only if `rm` gave up (`InstallInv`); of `ElfImage`, what each loop has done to the pages of the segments before `index` (`RightsInv`), and what is open or mapped at each place (`HeldInv`).  The lemmas `WritableNext` and `ProtectedNext` carry a loop one segment further. |
| `JniRegistry_proofs` | `RegistryTypeCorrect`, `SoloIdsKept`, `OneIdForEachMethod`, `OverrunNeedsRace`, `BridgeImplementsRegistry`, `BridgeKeepsSoloIds`, `AloneListsAll` | a solo lookup that fills a slot has it to itself, above every ID that was granted (`SoloPlace`, `GrantsBelow`), and what its search has passed is not what it looks for (`Scanned`); other lookups write only to slots that no solo lookup was given.  `RegistryTypeOK` and `OneIdPerMethod` are proved and in no run.  For the listings: what the cells and the names of a listing that is still alone hold (`Gathered`, `Copying`). |
| `LockBridge_proofs` | `AInvAlways`, `LockTypesAlways`, `HandlesAreLive`; for `Racy = FALSE`: `GuestsExclude`, `WaitersAreReachable`, `OneWordEach`, `PostsAreKept`, `SyncTypesAlways`, `MutexesRefine` | in two layers, below: `AInv` of every guest, `BInv` of guests whose first calls do not race. |

For `Boot_proofs` the refinement says that every step of `Display` is a step of
`Boot` or leaves its variables alone, so that `Boot`'s theorems hold of the
process with its display; `DevicesCloseInOrder` needs what is open at each
call and `Meeting`, `ThunksStayLive` also that the host handles are held from the relocation
to the end of a process that has run guest code, and the assumption
`HostsHoldDriver`.

*The overlay.*  That the swap finds GL as the guest left it cannot be carried
from call to call by saying how far the script has come: a script is built from
what the guest had bound, and has one length for each state.  `OverlayInv` speaks of what is
left of it instead: of every register, the last call still to come that sets it
sets it to the guest's value, or none is to come and it has that value already
(`Restores`); and every clear still to come is reached with the default
framebuffer, the scissor test on, the full mask and a box on a bar of the cursor
that is drawn (`ClearsRight`).  Taking one call from the front keeps both.  The
lemmas about the cursor say that the code's clamp is the nearest place
(`ClampNearest`) and that its arms lie on the drawable, whatever its size.

*The audio's start.*  What SDL has open does not say whether a call may still
reach it, because the call is on another thread.  `Meeting` is what does: as long as
no call was under way in a stop, a call past its checks finds the runtime started
and SDL open, so it can neither crash nor store late.  A stop that begins with a
call under way sets `met`, and a call cannot pass its checks once `started` is
cleared, so every step either keeps the first or has met.

*The synchronisation bridge.*  `AInv` says where a thread can be and what it
holds in its locals there (`Arguments`, `Locals`), that nobody else is in a call
on an object that is created or destroyed (`Tenure`), what a guest word can hold
(`Words`), that an address in a word or in a thread's hands is that of a live
object of the right sort (`Live`), and that a host object belongs to one guest
object and, until it is stored, to its maker (`Private`).  `Private` is what
makes `Live` inductive: `destroy` frees one object, and nobody else may have its
address.  None of this needs the first calls to be ordered, so `HandlesLive`
holds of every guest: a race in `compat_mutex_get` loses an object, and never
gives the host a dangling one.

The other properties are false of guests that race there (run
`sync_bridge_racy`), so their theorems assume `Racy = FALSE`: a
guest in which, as long as an object has no host object, one thread at a time is
in a call on it.  `BInv` adds
that only one thread is in the calls on an object without a host object
(`FirstAlone`), that a handle once read is still what the word says (`Named`),
that no live object is out of reach (`NotLeaked`), that the host mutex has the
type the guest `Meant`, and a word not yet used the number that `Encoded`
takes to it (`TypesAgree`), and that the owner, the depth, the readers and the
count of the host object are what the guest has done to its own (`MutexHeld`,
`RwlockHeld`, `Counted`).  `Exclusion` follows because two guests that hold one
mutex would both own one host object.  The refinement reads the abstract holder
and depth off the host object behind the word: with `MutexHeld` every step of the
bridge is a lock, a wait, an unlock, a destruction or an initialisation of
`GuestMutex`, or leaves it alone.

*The listings.*  `Gathered` says that the cells of the shared array hold each
component below the directory that the entries before `index` have, once;
`Copying` that the adapter's names are those of the first cells.  Both are
claimed only of a listing that is still alone, so that a step of another thread
need not keep them: whoever begins takes `alone` from the one that lists, and
`Lonely` says that no third listing is there.  Nothing is said of a listing that
met another, and `AloneListsExactly` claims nothing of it either.  The lemmas
`TrimTrims`, `ChildTrimmed`, `ChildOf` and `ChildrenAre` say what the helpers on
paths give, for every archive; `ObbConstants` and `Paths \subseteq Seq(STRING)`
are their only assumptions.

*The installer.*  `LaunchedWhole` alone is not inductive: a kill may leave half a
set of libraries with the marker of an earlier installation.  What saves the
next start is that setup begins to work only when the test of line 12 fails, and
that `rm` and the loop never make it succeed again: `libapp.so` comes back only
with the `mv` of a whole directory.

The type invariants are proved for every component but `Display`, `ObbIndex` and
`Installer`, where the invariants hold the types they need, and are in no run.

Only model-checked: the liveness properties `FinalizeReturns`, `LoopEnds`,
`PlayerFed`, `Terminates` and `RetryHeals`, which need fairness and `ENABLED`.  Of
first calls that race, of listings that meet and of calls to the audio that meet a stop nothing more is
claimed than the properties above say.

## 7. What is left out, and why

* Layout of records between Bionic and glibc, formatting, logging, the pixels of
  a screenshot or of text drawn into a bitmap: data without control that matters
  to the properties.
* Functions of the bridges that translate a record and forward the call, without
  state of their own: stdio, stat, dirent, ctype, once, threads, keys,
  attributes, signals, jumps, and the math thunks.
* Fake JNI objects, as said above; the crash trace, which prints and exits.
* The guest's own code: it is the environment of every model.
* Guest threads that destroy their OpenSL player while the main thread pumps it:
  excluded by an assumption stated in `AudioPipeline`; and guest threads that go
  on while `main` runs their libraries' finalisers, except in `CxaAtexit` and for
  the audio device.
* `src/tools/extract_nfsmw.sh`, audits, tests and packaging: they run on a build
  host.
