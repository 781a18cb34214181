------------------------ MODULE AudioPipeline_proofs ------------------------
(***************************************************************************)
(* AudioPipeline's type invariant, the bound on the queue and the rule     *)
(* about callbacks, for every buffer size and every range of formats.      *)
(***************************************************************************)
EXTENDS AudioPipeline, TLAPS

USE DEF Goto, AudioConstants

(***************************************************************************)
(* A look at the queue stays true while SDL drains it: the mixer is about  *)
(* to write onto at most two of its buffers, a callback that has not added *)
(* its buffer runs with at most one of the player's pending.               *)
(***************************************************************************)
LooksHold ==
  /\ phase = "process" => queued <= 2 * fmod_buffer_size
  /\ phase = "callback" => queued <= PlayerBuffer
  /\ ~fmod_audio_started => fmod_buffer_size = 0
  /\ phase \in {"mix", "process"} => fmod_audio_started

\* What the bridge knows about the player is about the one the guest has.
PlayerKnown ==
  /\ queue_callback => player
  /\ queue_buffer_size # 0 => player_buffers # 0
  /\ player_buffers # 0 => player

IInv == TypeOK /\ LooksHold /\ QueueBounded /\ PlayerKnown

\* A mixer buffer has a natural size.
LEMMA SizesNatural == TypeOK => fmod_buffer_size \in Nat /\ queue_buffer_size \in Nat
  BY AudioConstants, SMT DEF TypeOK

\* The type invariant holds initially.
LEMMA InitType == Init => TypeOK
<1> SUFFICES ASSUME Init PROVE TypeOK
  OBVIOUS
<1>1. queued \in Nat /\ player_buffers \in 0 .. 1
  BY SMT DEF Init
<1>2. callback_active <=> phase \in {"callback", "called"}
  BY Zenon DEF Init
<1> QED BY <1>1, <1>2, Zenon DEF Init, TypeOK

\* Every step of the guest, the loop and SDL preserves the types.
LEMMA TypeStep == ASSUME TypeOK, [Next]_vars PROVE TypeOK'
<1> USE AudioConstants
<1>1. CASE GuestCall
  <2>1. CASE CreateAudioPlayer
    BY <2>1, SMT DEF TypeOK, CreateAudioPlayer, DeviceStart, fmod
  <2>2. CASE Destroy
    <3>1. player_buffers' \in 0 .. 1
      BY <2>2, SMT DEF Destroy
    <3> QED BY <2>2, <3>1, Zenon DEF TypeOK, Destroy, fmod
  <2>5. CASE RegisterCallback
    BY <2>5, Zenon DEF TypeOK, RegisterCallback, fmod
  <2>3. CASE Enqueue
    BY <2>3, SMT DEF TypeOK, Enqueue, QueueAudio, fmod
  <2>4. CASE EnqueueFails
    BY <2>4, SMT DEF TypeOK, EnqueueFails, fmod, opensl
  <2> QED BY <1>1, <2>1, <2>2, <2>3, <2>4, <2>5 DEF GuestCall
<1>2. CASE Drain
  BY <1>2, SMT DEF TypeOK, Drain, fmod, opensl
<1>3. CASE FmodStarts
  <2>1. fmod_buffer_size' \in {length * FrameBytes : length \in MinLength .. MaxLength}
    BY <1>3 DEF FmodStarts, Acceptable
  <2> QED BY <1>3, <2>1, SMT DEF TypeOK, FmodStarts, DeviceStart, opensl
<1>4. CASE MixerQueues
  BY <1>4, SizesNatural, SMT DEF TypeOK, MixerQueues, QueueAudio, fmod, opensl
<1>5. CASE PumpCalls \/ CallbackReturns
  <2>1. CASE PumpCalls
    BY <2>1, SMT DEF TypeOK, PumpCalls, fmod
  <2>2. CASE CallbackReturns
    <3>1. ~callback_active' /\ phase' = "present"
      BY <2>2 DEF CallbackReturns
    <3> QED BY <2>2, <3>1, Zenon DEF TypeOK, CallbackReturns, fmod
  <2> QED BY <1>5, <2>1, <2>2
<1>6. CASE TickReturns \/ FmodStartFails \/ FmodReady \/ MixerPulls \/ MixerRests
           \/ MixerQueueFails \/ PumpRests \/ Present \/ Quits
  BY <1>6, SMT DEF TypeOK, TickReturns, FmodStartFails, FmodReady, MixerPulls, MixerRests,
     MixerQueueFails, PumpRests, Present, Quits, fmod, opensl
<1>7. CASE UNCHANGED vars
  BY <1>7 DEF TypeOK, vars, fmod, opensl
<1> QED BY <1>1, <1>2, <1>3, <1>4, <1>5, <1>6, <1>7 DEF Next, LoopStep

\* Nothing but the owner of a look adds to the queue before it writes.
LEMMA LooksStep ==
  ASSUME TypeOK, TypeOK', LooksHold, [Next]_vars
  PROVE  LooksHold'
<1> USE AudioConstants, SizesNatural
<1>1. CASE GuestCall
  <2>1. UNCHANGED fmod /\ phase' \notin {"mix", "process"}
    BY <1>1 DEF GuestCall, CreateAudioPlayer, Destroy, RegisterCallback, Enqueue, EnqueueFails,
       InGuest
  <2>2. phase' = "callback" => UNCHANGED <<phase, queued>>
    BY <1>1 DEF GuestCall, CreateAudioPlayer, Destroy, RegisterCallback, Enqueue, EnqueueFails
  <2> QED BY <2>1, <2>2 DEF LooksHold, fmod
<1>2. CASE Drain
  BY <1>2, SMT DEF TypeOK, LooksHold, Drain, fmod, opensl
<1>3. CASE LoopStep
  <2>1. CASE PumpCalls
    BY <1>3, <2>1, SMT DEF TypeOK, LooksHold, PumpCalls, PlayerLow, fmod
  <2>2. CASE MixerPulls
    BY <1>3, <2>2, SMT DEF TypeOK, LooksHold, MixerPulls, MixerLow, fmod, opensl
  <2>3. CASE FmodStarts
    BY <2>3, SMT DEF TypeOK, LooksHold, FmodStarts, opensl
  <2>4. CASE FmodReady
    BY <2>4, SMT DEF TypeOK, LooksHold, FmodReady, fmod, opensl
  <2>5. CASE TickReturns \/ FmodStartFails \/ MixerRests \/ MixerQueues \/ MixerQueueFails
             \/ CallbackReturns \/ PumpRests \/ Present \/ Quits
    <3>1. UNCHANGED fmod /\ phase' \notin {"mix", "process", "callback"}
      BY <2>5 DEF TickReturns, FmodStartFails, MixerRests, MixerQueues, MixerQueueFails,
         CallbackReturns, PumpRests, Present, Quits
    <3> QED BY <3>1 DEF LooksHold, fmod
  <2> QED BY <1>3, <2>1, <2>2, <2>3, <2>4, <2>5 DEF LoopStep
<1>4. CASE UNCHANGED vars
  BY <1>4 DEF LooksHold, vars, fmod, opensl
<1> QED BY <1>1, <1>2, <1>3, <1>4 DEF Next

\* Each write fits, because the look it relies on still holds.
LEMMA BoundStep ==
  ASSUME TypeOK, TypeOK', LooksHold, QueueBounded, [Next]_vars
  PROVE  QueueBounded'
<1> USE AudioConstants, SizesNatural
<1>1. CASE Enqueue
  BY <1>1, SMT DEF TypeOK, LooksHold, QueueBounded, Enqueue, QueueAudio, fmod
<1>2. CASE MixerQueues
  BY <1>2, SMT DEF TypeOK, LooksHold, QueueBounded, MixerQueues, QueueAudio, fmod
<1>3. CASE FmodStarts
  <2>1. fmod_buffer_size' \in Nat
    BY SMT DEF TypeOK
  <2> QED BY <1>3, <2>1, SMT DEF TypeOK, LooksHold, QueueBounded, FmodStarts
<1>4. CASE Drain
  BY <1>4, SMT DEF TypeOK, QueueBounded, Drain, fmod
<1>5. CASE UNCHANGED <<queued, fmod_buffer_size>>
  BY <1>5 DEF QueueBounded
<1>6. ASSUME GuestCall \/ LoopStep \/ UNCHANGED vars,
             ~Enqueue, ~MixerQueues, ~FmodStarts
      PROVE  UNCHANGED <<queued, fmod_buffer_size>>
  BY <1>6 DEF GuestCall, LoopStep, CreateAudioPlayer, Destroy, RegisterCallback, EnqueueFails,
     TickReturns, FmodStartFails, FmodReady, MixerPulls, MixerRests, MixerQueueFails, PumpCalls,
     CallbackReturns, PumpRests, Present, Quits, fmod, opensl, vars
<1> QED BY <1>1, <1>2, <1>3, <1>4, <1>5, <1>6 DEF Next

\* Destroy forgets all that the bridge knew about the player.
LEMMA PlayerStep ==
  ASSUME TypeOK, PlayerKnown, [Next]_vars
  PROVE  PlayerKnown'
<1>1. CASE GuestCall
  BY <1>1, SMT DEF TypeOK, PlayerKnown, GuestCall, CreateAudioPlayer, Destroy, RegisterCallback,
     Enqueue, EnqueueFails, fmod, opensl
<1>2. CASE UNCHANGED <<player, player_buffers, queue_callback, queue_buffer_size>>
  BY <1>2 DEF PlayerKnown
<1>3. ASSUME Drain \/ LoopStep \/ UNCHANGED vars
      PROVE  UNCHANGED <<player, player_buffers, queue_callback, queue_buffer_size>>
  BY <1>3 DEF Drain, LoopStep, TickReturns, FmodStarts, FmodStartFails, FmodReady, MixerPulls,
     MixerRests, MixerQueues, MixerQueueFails, PumpCalls, CallbackReturns, PumpRests, Present,
     Quits, fmod, opensl, vars
<1> QED BY <1>1, <1>2, <1>3 DEF Next

\* The inductive invariant holds in every reachable state.
THEOREM Invariance == Spec => []IInv
<1>1. Init => IInv
  BY InitType, AudioConstants, SMT DEF Init, IInv, LooksHold, QueueBounded, PlayerKnown
<1>2. IInv /\ [Next]_vars => IInv'
  BY TypeStep, LooksStep, BoundStep, PlayerStep DEF IInv
<1> QED BY <1>1, <1>2, PTL DEF Spec

(***************************************************************************)
(* At most three mixer buffers or two player buffers are ever pending, for *)
(* every buffer size: nfsmw_opensl_pump and the FMOD pull of nfsmw_jni_run.*)
(***************************************************************************)
THEOREM DelayBounded == Spec => [](TypeOK /\ QueueBounded)
<1>1. IInv => TypeOK /\ QueueBounded
  BY DEF IInv
<1> QED BY <1>1, Invariance, PTL

(***************************************************************************)
(* nfsmw_opensl_pump enters the callback only for a player that the guest  *)
(* still has and has given a buffer.                                       *)
(***************************************************************************)
THEOREM CallbackHasPlayer == Spec => CallbackOfPlayer
<1>1. ASSUME IInv, [Next]_vars
      PROVE  phase = "pump" /\ phase' = "callback" => player /\ player_buffers # 0
  <2> SUFFICES ASSUME phase = "pump", phase' = "callback"
               PROVE  player /\ player_buffers # 0
    OBVIOUS
  <2>1. PumpCalls
    BY <1>1 DEF Next, GuestCall, LoopStep, CreateAudioPlayer, Destroy, RegisterCallback, Enqueue,
       EnqueueFails, InGuest, Drain, TickReturns, FmodStarts, FmodStartFails, FmodReady,
       MixerPulls, MixerRests, MixerQueues, MixerQueueFails, CallbackReturns, PumpRests, Present,
       Quits, vars
  <2> QED BY <1>1, <2>1 DEF PumpCalls, IInv, PlayerKnown
<1> QED BY <1>1, Invariance, PTL DEF Spec, CallbackOfPlayer
=============================================================================
