--------------------------- MODULE AudioPipeline ---------------------------
(***************************************************************************)
(* Sound: two producers in front of one SDL queue.  Every frame of the     *)
(* game loop (nfsmw_jni_run) first pulls one buffer from the FMOD mixer    *)
(* when at most two of its buffers are pending, then lets the OpenSL       *)
(* bridge (opensl_bridge.c) call the guest's buffer-queue callback when at *)
(* most one of the player's buffers is pending.  SDL's audio thread drains *)
(* the queue at any time, also between a look at the queue and the write   *)
(* that follows it.  Sizes are in units of the smallest buffer.            *)
(*                                                                         *)
(* The guest calls the OpenSL functions from its tick or from the          *)
(* callback, on the loop's thread.  It uses a player it created and did    *)
(* not destroy, and adds a buffer when it is called back, or when GetState *)
(* says that nothing is pending.                                           *)
(***************************************************************************)
EXTENDS Naturals

CONSTANTS
  PlayerBuffer,         \* size of the guest's OpenSL buffers
  Rates, Lengths, Counts,   \* what fmodGetInfo may answer
  MaxRate,              \* 192000
  MinLength, MaxLength, \* 64 and 16384 sample frames
  MaxCount,             \* 32 buffers
  FrameBytes            \* 4: two 16-bit channels

ASSUME AudioConstants ==
  /\ PlayerBuffer \in Nat \ {0}
  /\ Rates \subseteq Nat /\ Lengths \subseteq Nat /\ Counts \subseteq Nat
  /\ {MaxRate, MinLength, MaxLength, MaxCount, FrameBytes} \subseteq Nat \ {0}

VARIABLES
  phase,               \* where the loop is in its frame
  device,              \* "closed", or who opened the SDL device first
  queued,              \* SDL's queue
  player,              \* history: the guest has a player
  player_buffers,      \* history: buffers it added to this player
  queue_callback,      \* whether one is registered
  queue_buffer_size,
  callback_active,
  fmod_audio_started,
  fmod_buffer_size

opensl == <<player, player_buffers, queue_callback, queue_buffer_size, callback_active>>
fmod == <<fmod_audio_started, fmod_buffer_size>>
vars == <<phase, device, queued, opensl, fmod>>

Goto(from, to) == phase = from /\ phase' = to

-----------------------------------------------------------------------------
(* platform_probe.c                                                        *)

\* A device that is already open is kept, with the format it has.
DeviceStart(who) == device' = IF device = "closed" THEN who ELSE device

QueueAudio(size) == device # "closed" /\ queued' = queued + size

\* SDL's thread plays some of what is queued (SDL is external).
Drain ==
  /\ device # "closed"
  /\ queued > 0
  /\ \E left \in 0 .. queued - 1 : queued' = left
  /\ UNCHANGED <<phase, device, opensl, fmod>>

-----------------------------------------------------------------------------
(* Guest calls of the OpenSL functions, in its tick or in the callback.    *)

InGuest == phase \in {"tick", "callback", "called"}

CreateAudioPlayer ==
  /\ InGuest /\ ~player
  /\ DeviceStart("player")
  /\ player' = TRUE
  /\ UNCHANGED <<phase, queued, player_buffers, queue_callback, queue_buffer_size,
                 callback_active, fmod>>

\* Mutant: the buffer size outlives the player.
DestroyKeepsSize ==
  /\ InGuest /\ player
  /\ player' = FALSE /\ player_buffers' = 0
  /\ queue_callback' = FALSE
  /\ UNCHANGED <<phase, device, queued, queue_buffer_size, callback_active, fmod>>

Destroy ==
  /\ InGuest /\ player
  /\ player' = FALSE /\ player_buffers' = 0
  /\ queue_callback' = FALSE
  /\ queue_buffer_size' = 0
  /\ UNCHANGED <<phase, device, queued, callback_active, fmod>>

RegisterCallback ==
  /\ InGuest /\ player
  /\ \E set \in BOOLEAN : queue_callback' = set
  /\ UNCHANGED <<phase, device, queued, player, player_buffers, queue_buffer_size,
                 callback_active, fmod>>

\* One buffer per callback; in a tick only into an empty queue.
Enqueue ==
  /\ phase \in {"tick", "callback"} /\ player
  /\ phase = "tick" => queued = 0
  /\ QueueAudio(PlayerBuffer)
  /\ queue_buffer_size' = PlayerBuffer
  /\ player_buffers' = 1
  /\ phase' = IF phase = "callback" THEN "called" ELSE phase
  /\ UNCHANGED <<device, player, queue_callback, callback_active, fmod>>

\* A NULL or empty buffer, or SDL out of memory: the size is not recorded.
EnqueueFails ==
  /\ phase = "callback" /\ player
  /\ phase' = "called"
  /\ UNCHANGED <<device, queued, opensl, fmod>>

GuestCall ==
  \/ CreateAudioPlayer \/ Destroy \/ RegisterCallback \/ Enqueue \/ EnqueueFails

-----------------------------------------------------------------------------
(* One frame of the loop.                                                  *)

TickReturns == Goto("tick", "fmod") /\ UNCHANGED <<device, queued, opensl, fmod>>

Acceptable(rate, length, count) ==
  rate <= MaxRate /\ length \in MinLength .. MaxLength /\ count \in 1 .. MaxCount

FmodStarts ==
  /\ Goto("fmod", "mix")
  /\ ~fmod_audio_started
  /\ \E rate \in Rates \ {0}, length \in Lengths, count \in Counts :
       /\ Acceptable(rate, length, count)
       /\ fmod_buffer_size' = length * FrameBytes
  /\ DeviceStart("fmod")
  /\ fmod_audio_started' = TRUE
  /\ UNCHANGED <<queued, opensl>>

\* A format out of range, no memory, or no audio device: the game ends.
FmodStartFails ==
  /\ Goto("fmod", "failed")
  /\ ~fmod_audio_started
  /\ UNCHANGED <<device, queued, opensl, fmod>>

\* The mixer has started before, or has no sample rate yet.
FmodReady ==
  /\ Goto("fmod", IF fmod_audio_started THEN "mix" ELSE "pump")
  /\ fmod_audio_started \/ 0 \in Rates
  /\ UNCHANGED <<device, queued, opensl, fmod>>

\* Mutant: the mixer is pulled with three buffers pending.
MixerLowLate == queued <= fmod_buffer_size * 3

MixerLow == queued <= fmod_buffer_size * 2

MixerPulls ==
  /\ Goto("mix", "process")
  /\ MixerLow
  /\ UNCHANGED <<device, queued, opensl, fmod>>

\* Enough is pending, or the mixer does not run.
MixerRests ==
  /\ Goto("mix", "pump")
  /\ UNCHANGED <<device, queued, opensl, fmod>>

\* fmodProcess has filled the buffer (the guest's mixer is external).
MixerQueues ==
  /\ Goto("process", "pump")
  /\ QueueAudio(fmod_buffer_size)
  /\ UNCHANGED <<device, opensl, fmod>>

\* SDL refuses the buffer: the game ends.
MixerQueueFails ==
  /\ Goto("process", "failed")
  /\ UNCHANGED <<device, queued, opensl, fmod>>

PlayerLow == queued <= queue_buffer_size

PumpCalls ==
  /\ Goto("pump", "callback")
  /\ queue_callback
  /\ queue_buffer_size # 0
  /\ ~callback_active
  /\ PlayerLow
  /\ callback_active' = TRUE
  /\ UNCHANGED <<device, queued, player, player_buffers, queue_callback,
                 queue_buffer_size, fmod>>

\* Mutant: the flag is not reset after the callback.
CallbackReturnsActive ==
  /\ phase \in {"callback", "called"}
  /\ phase' = "present"
  /\ UNCHANGED <<device, queued, opensl, fmod>>

CallbackReturns ==
  /\ phase \in {"callback", "called"}
  /\ phase' = "present"
  /\ callback_active' = FALSE
  /\ UNCHANGED <<device, queued, player, player_buffers, queue_callback,
                 queue_buffer_size, fmod>>

PumpRests ==
  /\ Goto("pump", "present")
  /\ ~(queue_callback /\ queue_buffer_size # 0 /\ ~callback_active /\ PlayerLow)
  /\ UNCHANGED <<device, queued, opensl, fmod>>

Present == Goto("present", "tick") /\ UNCHANGED <<device, queued, opensl, fmod>>

\* The exit chord or the frame limit.
Quits == Goto("present", "done") /\ UNCHANGED <<device, queued, opensl, fmod>>

-----------------------------------------------------------------------------
Init ==
  /\ phase = "tick"
  /\ device = "closed"
  /\ queued = 0
  /\ player = FALSE /\ player_buffers = 0
  /\ queue_callback = FALSE
  /\ queue_buffer_size = 0
  /\ callback_active = FALSE
  /\ fmod_audio_started = FALSE
  /\ fmod_buffer_size = 0

LoopStep ==
  \/ TickReturns
  \/ FmodStarts \/ FmodStartFails \/ FmodReady
  \/ MixerPulls \/ MixerRests \/ MixerQueues \/ MixerQueueFails
  \/ PumpCalls \/ CallbackReturns \/ PumpRests
  \/ Present \/ Quits

Next == GuestCall \/ LoopStep \/ Drain

Spec == Init /\ [][Next]_vars

(***************************************************************************)
(* The loop's thread runs, guest ticks and callbacks return, and SDL plays *)
(* an open, unpaused device.  The guest is never forced to call.           *)
(***************************************************************************)
FairSpec == Spec /\ WF_vars(LoopStep) /\ WF_vars(Drain)

-----------------------------------------------------------------------------
\* Every variable keeps its type.
TypeOK ==
  /\ phase \in {"tick", "fmod", "mix", "process", "pump", "callback", "called",
                "present", "failed", "done"}
  /\ device \in {"closed", "player", "fmod"}
  /\ queued \in Nat
  /\ player \in BOOLEAN /\ player_buffers \in 0 .. 1
  /\ queue_callback \in BOOLEAN
  /\ queue_buffer_size \in {0, PlayerBuffer}
  /\ callback_active \in BOOLEAN
  /\ callback_active <=> phase \in {"callback", "called"}
  /\ fmod_audio_started \in BOOLEAN
  /\ fmod_buffer_size \in {0} \cup {length * FrameBytes : length \in MinLength .. MaxLength}

(***************************************************************************)
(* The delay of the sound is bounded although two producers look at the    *)
(* queue and write to it separately: never more is pending than three      *)
(* mixer buffers or two of the player's, whichever is more.                *)
(***************************************************************************)
QueueBounded ==
  queued <= 3 * fmod_buffer_size \/ queued <= 2 * PlayerBuffer

(***************************************************************************)
(* A callback is entered only for a player the guest still has and to      *)
(* which it has added a buffer: what an earlier, destroyed player left     *)
(* behind never triggers one.                                              *)
(***************************************************************************)
CallbackOfPlayer ==
  [][phase = "pump" /\ phase' = "callback" => player /\ player_buffers # 0]_vars

(***************************************************************************)
(* The player is not starved by the mixer that is served before it: when   *)
(* its buffer is at least three mixer buffers long, a registered callback  *)
(* is called again, as long as the guest keeps it and the game runs.       *)
(***************************************************************************)
Waiting ==
  queue_callback /\ queue_buffer_size # 0 /\ queue_buffer_size >= 3 * fmod_buffer_size

PlayerFed ==
  (phase = "present" /\ Waiting) ~> (phase \in {"callback", "failed", "done"} \/ ~Waiting)
=============================================================================
