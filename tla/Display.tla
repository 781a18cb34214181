------------------------------- MODULE Display -------------------------------
(***************************************************************************)
(* The process of Boot with its display (platform_probe.c): the preflight  *)
(* probe, the SDL runtime the game draws with, the frame loop's screenshot *)
(* and cursor overlay, and the stop, each call to SDL or GL in its order   *)
(* and each of them able to fail; and the soft-float GLES thunks, which    *)
(* keep addresses inside the graphics driver (softfp_bridge.c).            *)
(*                                                                         *)
(* A stage of Boot begins with its first step here and ends with Boot's    *)
(* action.  SDL maps the driver with the first GL window and unmaps it     *)
(* with the last; it stays mapped while another handle keeps it.  A thread *)
(* of the guest may open the audio device at any time, step by step.       *)
(***************************************************************************)
EXTENDS Boot, Integers, Sequences

CONSTANTS
  HostsHoldDriver,  \* a relocation host library is the driver SDL maps
  Width, Height,    \* the drawable
  Axis,             \* bound: coordinates of the cursor, on and off the screen
  GuestBoxes,       \* bound: scissor boxes the guest leaves
  GuestCalls,       \* bound: the guest's calls that may open the audio device
  MaxFrames         \* bound: frames the game renders

ASSUME DisplayConstants ==
  /\ HostsHoldDriver \in BOOLEAN
  /\ Width \in Nat /\ Width > 16 /\ Height \in Nat /\ Height > 16
  /\ Axis \subseteq Int /\ MaxFrames \in Nat
  /\ GuestBoxes \subseteq [x : Int, y : Int, w : Int, h : Int]
  /\ {"library", "sdl", "window", "context", "controller", "mixer", "none"} \cap GuestCalls = {}

\* Starts of the audio: by a thread of the guest, or by main for FMOD's mixer.
\* The device that a call opens is named by the call.
AudioCall == GuestCalls \cup {"mixer"}

\* What a device needs while it is open.
Needs(d) ==
  CASE d = "library" -> {}
    [] d = "sdl" -> {"library"}
    [] d = "context" -> {"window"}
    [] OTHER -> {"sdl"}

\* The state of GL the overlay touches, as the guest may leave it.
GuestGL == [framebuffer : {0, 1}, scissor : BOOLEAN, box : GuestBoxes, color : {"guest's"},
            mask : {"all", "none"}]

VARIABLES
  at,          \* the next call of the routine that runs, or where it ended
  open,        \* what SDL holds for us
  incomplete,  \* the preflight's SDL library lacked a symbol
  graphics, passed,      \* the probe's results
  load,        \* how often the driver was mapped
  thunks,      \* the mappings that the thunks' addresses are from; 0 is NULL
  started,     \* runtime.started
  audio_device,          \* runtime.audio_device: the call that opened it, or "none"
  calls,       \* where each start of the audio is
  ever,        \* history: the runtime was started
  met,         \* history: a start of the audio was under way in a stop
  gl, guest_gl,          \* GL's state, and as the guest left it
  script,      \* GL calls the overlay has still to make
  cursor,      \* the place of the cursor that is drawn
  frames

sdl == <<open, incomplete, graphics, passed, thunks, audio_device>>
drawing == <<gl, guest_gl, script, cursor, frames>>
run == <<started, ever>>
displayvars == <<at, sdl, calls, met, load, run, drawing>>

DriverMapped == "window" \in open \/ (HostsHoldDriver /\ hosts # "closed")
\* The driver is mapped anew when nothing held it.
Loads == load' = IF ~DriverMapped /\ DriverMapped' THEN load + 1 ELSE load

Steps(stage, from, to) == pc = stage /\ at = from /\ at' = to

-----------------------------------------------------------------------------
(* nfsmw_platform_probe.                                                   *)

\* open_sdl: no library, a library that is left open, or all of it.
ProbeOpens ==
  /\ pc = "preflight" /\ at = "idle"
  /\ \/ at' = "probed" /\ UNCHANGED <<open, incomplete>>
     \/ at' = "probed" /\ open' = {"library"} /\ incomplete' = TRUE
     \/ at' = "probe_init" /\ open' = {"library"} /\ UNCHANGED incomplete
  /\ UNCHANGED <<graphics, passed, thunks, audio_device, run, drawing>>

ProbeInit ==
  /\ Steps("preflight", "probe_init", "probe_window")
  /\ open' = open \cup {"sdl"}
  /\ UNCHANGED <<incomplete, graphics, passed, thunks, audio_device, run, drawing>>

ProbeInitFails ==
  /\ Steps("preflight", "probe_init", "probed")
  /\ open' = {}
  /\ UNCHANGED <<incomplete, graphics, passed, thunks, audio_device, run, drawing>>

\* probe_graphics: the subsystem, the attributes or the window may fail.
ProbeWindow ==
  /\ pc = "preflight" /\ at = "probe_window"
  /\ \/ at' = "probe_context" /\ open' = open \cup {"window"}
     \/ at' = "probe_devices" /\ UNCHANGED open
  /\ UNCHANGED <<incomplete, graphics, passed, thunks, audio_device, run, drawing>>

ProbeContext ==
  /\ pc = "preflight" /\ at = "probe_context"
  /\ \/ at' = "probe_thunks" /\ open' = open \cup {"context"}
     \/ at' = "probe_close" /\ UNCHANGED open
  /\ UNCHANGED <<incomplete, graphics, passed, thunks, audio_device, run, drawing>>

\* nfsmw_softfp_bind_gles stops at the first name that is not resolved.
Binds(done, failed) ==
  \/ at' = done /\ thunks' = {load}
  \/ at' = failed /\ thunks' \in {thunks, thunks \cup {load}}

ProbeThunks ==
  /\ pc = "preflight" /\ at = "probe_thunks"
  /\ Binds("probe_frames", "probe_close")
  /\ UNCHANGED <<open, incomplete, graphics, passed, audio_device, run, drawing>>

\* Three frames, and the drawable's size decides.
ProbeFrames ==
  /\ Steps("preflight", "probe_frames", "probe_close")
  /\ graphics' \in BOOLEAN
  /\ UNCHANGED <<open, incomplete, passed, thunks, audio_device, run, drawing>>

ProbeClose ==
  /\ Steps("preflight", "probe_close", "probe_devices")
  /\ open' = open \ {"context", "window"}
  /\ UNCHANGED <<incomplete, graphics, passed, thunks, audio_device, run, drawing>>

\* probe_controller and probe_audio close what they open; SDL_Quit, dlclose.
ProbeDevices ==
  /\ Steps("preflight", "probe_devices", "probed")
  /\ passed' \in {FALSE, graphics}
  /\ open' = {}
  /\ UNCHANGED <<incomplete, graphics, thunks, audio_device, run, drawing>>

Probe ==
  \/ ProbeOpens \/ ProbeInit \/ ProbeInitFails \/ ProbeWindow \/ ProbeContext
  \/ ProbeThunks \/ ProbeFrames \/ ProbeClose \/ ProbeDevices

-----------------------------------------------------------------------------
(* nfsmw_platform_runtime_start and _stop.                                 *)

Opens(from, to, device) ==
  /\ Steps("display", from, to)
  /\ open' = open \cup {device}
  /\ UNCHANGED <<incomplete, graphics, passed, thunks, audio_device, run, drawing>>

StartOpens == Opens("probed", "start_init", "library")
StartInit == Opens("start_init", "start_window", "sdl")
StartWindow == Opens("start_window", "start_context", "window")
StartContext == Opens("start_context", "start_thunks", "context")

\* The label fail, from any call; open_sdl may have opened the library.
StartFails ==
  /\ pc = "display"
  /\ at \in {"probed", "start_init", "start_window", "start_context", "start_functions"}
  /\ at' = "audio"
  /\ open' \in {open, open \cup {"library"}}
  /\ UNCHANGED <<incomplete, graphics, passed, thunks, audio_device, run, drawing>>

\* Mutant: the runtime relies on the preflight's binding.
StartThunksKept ==
  /\ Steps("display", "start_thunks", "start_functions")
  /\ UNCHANGED <<sdl, run, drawing>>

StartThunks ==
  /\ pc = "display" /\ at = "start_thunks"
  /\ Binds("start_functions", "audio")
  /\ UNCHANGED <<open, incomplete, graphics, passed, audio_device, run, drawing>>

\* The GL functions of the overlay; then a controller, if there is one.
StartFunctions ==
  /\ Steps("display", "start_functions", "up")
  /\ open' \in {open, open \cup {"controller"}}
  /\ started' = TRUE /\ ever' = TRUE
  /\ UNCHANGED <<incomplete, graphics, passed, thunks, audio_device, drawing>>

Start ==
  \/ StartOpens \/ StartInit \/ StartWindow \/ StartContext \/ StartFails
  \/ StartThunks \/ StartFunctions

\* Mutant: the window is destroyed before its context is deleted.
StopOrderSwapped ==
  <<"audio", "controller", "window", "context", "sdl", "library", "memset", "stopped">>

StopOrder ==
  <<"audio", "controller", "context", "window", "sdl", "library", "memset", "stopped">>

\* nfsmw_jni_shutdown, at the game's end or at the label done.
StopBegins ==
  /\ pc = "game" \/ (pc = "done" /\ constructors_started)
  /\ at \in {"probed", "up", "failed", "stopped"}
  /\ at' = "audio"
  /\ pc = "game" => at = "up"
  /\ UNCHANGED <<sdl, run, drawing>>

\* What the close at this place of the stop closes.
Closes(place) ==
  CASE place = "audio" -> {audio_device}
    [] place = "sdl" -> {"sdl", "window", "context", "controller"} \cup AudioCall
    [] OTHER -> {place}

\* The next close; SDL_Quit closes all that SDL holds; last, the memset.
Stop ==
  \E n \in 1 .. Len(StopOrder) - 1 :
    /\ at = StopOrder[n]
    /\ at' = IF StopOrder[n + 1] = "stopped" /\ pc # "display" THEN "exit" ELSE StopOrder[n + 1]
    /\ open' = open \ Closes(at)
    /\ started' = (started /\ at # "memset")
    /\ audio_device' = IF at = "memset" THEN "none" ELSE audio_device
    /\ UNCHANGED <<incomplete, graphics, passed, thunks, ever, drawing>>

-----------------------------------------------------------------------------
(* nfsmw_platform_runtime_audio_start.  Nothing keeps main from stopping   *)
(* the runtime between two steps of a guest thread's call: SDL_Quit closes *)
(* what the call has opened, a call into SDL after the dlclose may fault,  *)
(* and after the memset it goes through a null pointer.                    *)

UnderWay == {"checked", "opened", "refused", "stored", "failing"}
Crashed == \E c \in AudioCall : calls[c] = "crashed"

Reaches(c, place) == calls' = [calls EXCEPT ![c] = place]

AudioChecks(c) ==
  /\ calls[c] = "none"
  /\ started /\ audio_device = "none"
  /\ c = "mixer" => pc = "game" /\ at = "capture"
  /\ Reaches(c, "checked")
  /\ UNCHANGED <<at, sdl, run, drawing>>

AudioOpens(c) ==
  /\ calls[c] = "checked"
  /\ \/ "sdl" \in open /\ open' = open \cup {c} /\ Reaches(c, "opened")
     \/ started /\ Reaches(c, "refused") /\ UNCHANGED open
     \/ "library" \notin open /\ Reaches(c, "crashed") /\ UNCHANGED open
  /\ UNCHANGED <<at, incomplete, graphics, passed, thunks, audio_device, run, drawing>>

\* A device that was refused is stored as well, as none.
AudioStores(c) ==
  /\ \/ calls[c] = "opened" /\ audio_device' = c /\ Reaches(c, "stored")
     \/ calls[c] = "refused" /\ audio_device' = "none" /\ Reaches(c, "failing")
  /\ UNCHANGED <<at, open, incomplete, graphics, passed, thunks, run, drawing>>

\* SDL is called to start the device, or for its error if its pointer is
\* not null.  A mixer without a device is the game's failure.
AudioReports(c) ==
  /\ \/ calls[c] = "stored" /\ started /\ Reaches(c, "done")
     \/ calls[c] = "failing" /\ Reaches(c, "failed")
     \/ calls[c] = "stored" /\ "library" \notin open /\ Reaches(c, "crashed")
     \/ calls[c] = "failing" /\ started /\ "library" \notin open /\ Reaches(c, "crashed")
  /\ at' = IF c = "mixer" /\ calls'[c] = "failed" THEN "failed" ELSE at
  /\ UNCHANGED <<sdl, run, drawing>>

AudioStart ==
  /\ pc # "exited"
  /\ \E c \in AudioCall : AudioChecks(c) \/ AudioOpens(c) \/ AudioStores(c) \/ AudioReports(c)

-----------------------------------------------------------------------------
(* A frame: nativeRender, then nfsmw_platform_runtime_present.             *)

Render ==
  /\ frames < MaxFrames
  /\ Steps("game", "up", "capture")
  /\ gl' \in GuestGL /\ guest_gl' = gl'
  /\ UNCHANGED <<sdl, run, script, cursor, frames>>

Call(name, value) == <<[name |-> name, value |-> value]>>

\* runtime_capture_frame, on the frames it is asked for, once main is back
\* from its own start of the audio.
Capture ==
  /\ calls["mixer"] \notin UnderWay
  /\ Steps("game", "capture", "cursor")
  /\ script' \in {<<>>, Call("framebuffer", 0) \o Call("framebuffer", gl.framebuffer)}
  /\ UNCHANGED <<sdl, run, gl, guest_gl, cursor, frames>>

Clamp(v, size) ==
  LET low == IF v < 8 THEN 8 ELSE v
  IN IF low >= size - 8 THEN size - 9 ELSE low

\* Mutant: the clears are not confined to the bars.
OverlayUnboxed(x, y) ==
  Call("framebuffer", 0) \o Call("scissor", TRUE)
  \o Call("mask", "all") \o Call("color", "cursor") \o Call("clear", "color")
  \o Call("color", gl.color) \o Call("mask", gl.mask)
  \o (IF gl.scissor THEN <<>> ELSE Call("scissor", FALSE))
  \o Call("framebuffer", gl.framebuffer)

\* runtime_draw_cursor: two bars, cleared under a scissor, then all put back.
Overlay(x, y) ==
  LET across == [x |-> Clamp(x, Width) - 8, y |-> Height - 1 - Clamp(y, Height) - 1, w |-> 17, h |-> 3]
      down == [x |-> Clamp(x, Width) - 1, y |-> Height - 1 - Clamp(y, Height) - 8, w |-> 3, h |-> 17]
  IN  Call("framebuffer", 0) \o Call("scissor", TRUE)
      \o Call("mask", "all") \o Call("color", "cursor")
      \o Call("box", across) \o Call("clear", "color")
      \o Call("box", down) \o Call("clear", "color")
      \o Call("color", gl.color) \o Call("mask", gl.mask) \o Call("box", gl.box)
      \o (IF gl.scissor THEN <<>> ELSE Call("scissor", FALSE))
      \o Call("framebuffer", gl.framebuffer)

DrawCursor ==
  /\ script = <<>>
  /\ Steps("game", "cursor", "swap")
  /\ \/ UNCHANGED <<script, cursor>>
     \/ \E x, y \in Axis : script' = Overlay(x, y) /\ cursor' = <<x, y>>
  /\ UNCHANGED <<sdl, run, gl, guest_gl, frames>>

CallGL ==
  /\ script # <<>>
  /\ script' = Tail(script)
  /\ gl' = IF Head(script).name = "clear" THEN gl
           ELSE [gl EXCEPT ![Head(script).name] = Head(script).value]
  /\ UNCHANGED <<at, sdl, run, guest_gl, cursor, frames>>

Swap ==
  /\ script = <<>>
  /\ Steps("game", "swap", "up")
  /\ frames' = frames + 1
  /\ cursor' = <<0, 0>>
  /\ UNCHANGED <<sdl, run, gl, guest_gl, script>>

Frame == Render \/ Capture \/ DrawCursor \/ CallGL \/ Swap

-----------------------------------------------------------------------------
(* The composition: a step of the display while main's stage stands still, *)
(* or a step of Boot, which ends a stage only where its routine has ended. *)

DisplayStep ==
  /\ \/ (Probe \/ Start \/ StopBegins \/ Stop \/ Frame) /\ UNCHANGED calls
     \/ AudioStart
  /\ UNCHANGED vars

StageEnds ==
  /\ pc = "preflight" => at = "probed" /\ (passed <=> pc' # "done")
  /\ pc = "display" => at = (IF pc' = "jni" THEN "up" ELSE "stopped")
  /\ pc = "game" => IF pc' = "exited" THEN at = "exit" ELSE at \in {"up", "failed"}
  /\ pc = "done" /\ constructors_started => at = "exit"

BootStep == Next /\ StageEnds /\ UNCHANGED <<at, sdl, calls, run, drawing>>

DisplayInit ==
  /\ Init
  /\ at = "idle" /\ open = {} /\ incomplete = FALSE
  /\ graphics = FALSE /\ passed = FALSE
  /\ load = 0 /\ thunks = {0}
  /\ started = FALSE /\ ever = FALSE /\ audio_device = "none"
  /\ calls = [c \in AudioCall |-> "none"] /\ met = FALSE
  /\ gl = [framebuffer |-> 0, scissor |-> FALSE, box |-> [x |-> 0, y |-> 0, w |-> Width, h |-> Height], color |-> "guest's", mask |-> "all"]
  /\ guest_gl = gl /\ script = <<>> /\ cursor = <<0, 0>> /\ frames = 0

\* A start of the audio is under way in a stop.
Meets ==
  met' = \/ met
         \/ /\ \E n \in 1 .. Len(StopOrder) - 1 : at' = StopOrder[n]
            /\ \E c \in AudioCall : calls'[c] \in UnderWay

DisplayNext == ~Crashed /\ (DisplayStep \/ BootStep) /\ Loads /\ Meets

DisplaySpec == DisplayInit /\ [][DisplayNext]_<<vars, displayvars>>

\* main runs, and SDL's calls return; Boot's fairness, step by step.
FairDisplaySpec == DisplaySpec /\ WF_<<vars, displayvars>>(DisplayNext)

-----------------------------------------------------------------------------
(***************************************************************************)
(* From the runtime's start to the end of the process, past its stop and   *)
(* through the guest's destructors and finalisers, the soft-float thunks   *)
(* call into the driver as it is mapped now, never into an earlier mapping *)
(* or one that is gone (runtime_start, runtime_stop, the host handles the  *)
(* relocation retains).                                                    *)
(***************************************************************************)
ThunksLive == ever => DriverMapped /\ thunks = {load}

(***************************************************************************)
(* What the runtime opened is closed before what it needs, also a device   *)
(* that a guest thread opens and stores while main stops the runtime or    *)
(* that another call's store has hidden; and nothing is open at the end,   *)
(* whatever failed, but the preflight's SDL library when it lacks a symbol *)
(* (open_sdl, runtime_stop).  A call into SDL without SDL, or an id left   *)
(* behind the memset, comes only of a start of the audio that was under    *)
(* way in the stop, which nothing in the code rules out.                   *)
(***************************************************************************)
ClosedInOrder ==
  /\ \A d \in open : Needs(d) \subseteq open
  /\ pc = "exited" => open \subseteq (IF incomplete /\ ~passed THEN {"library"} ELSE {})
  /\ Crashed \/ (audio_device # "none" /\ ~started) => met

\* The box lies on a bar of a cursor at c: 17 by 3 pixels about the place
\* nearest to c that leaves eight pixels on each side, or 3 by 17.
Nearest(v, size) == IF v < 8 THEN 8 ELSE IF v > size - 9 THEN size - 9 ELSE v
OnBars(box, c) ==
  LET x == Nearest(c[1], Width)
      y == Height - 1 - Nearest(c[2], Height)
      Within(r) == box.x >= x - r /\ box.x + box.w <= x + r + 1
      Level(r) == box.y >= y - r /\ box.y + box.h <= y + r + 1
  IN (Within(8) /\ Level(1)) \/ (Within(1) /\ Level(8))

(***************************************************************************)
(* The overlay clears only pixels of the cursor's bars, inside the default *)
(* framebuffer, wherever the cursor is and whatever the guest has bound,   *)
(* and at the swap GL's state is as the guest left it (runtime_capture_    *)
(* frame, runtime_draw_cursor).                                            *)
(***************************************************************************)
OverlayHarmless ==
  /\ script # <<>> /\ Head(script).name = "clear" =>
       /\ gl.framebuffer = 0 /\ gl.scissor /\ gl.mask = "all"
       /\ OnBars(gl.box, cursor)
       /\ gl.box.x >= 0 /\ gl.box.x + gl.box.w <= Width
       /\ gl.box.y >= 0 /\ gl.box.y + gl.box.h <= Height
  /\ at = "swap" /\ script = <<>> => gl = guest_gl

\* Every run of the process ends, be it by a fault.
Terminates == <>(pc = "exited" \/ Crashed)
=============================================================================
