-------------------------- MODULE GameInput_proofs --------------------------
(***************************************************************************)
(* GameInput's type invariant, with the cursor inside its limits, and what *)
(* the guest is told of touches and keys, for every screen, every set of   *)
(* buttons and every stick reading.                                        *)
(***************************************************************************)
EXTENDS GameInput, TLAPS

\* The named buttons are different ones.
LEMMA Buttons ==
  /\ A \in Button /\ Back \in Button /\ Guide \in Button /\ Start \in Button
  /\ Up \in Button /\ Down \in Button /\ Left \in Button /\ Right \in Button
  /\ A # Back /\ A # Guide /\ Back # Guide
  /\ \A i \in Dpad : i \in Button /\ i \notin {A, Back, Guide}
  /\ \A i \in Shoulders : i \in Button /\ i \notin {A, Back, Guide} /\ i \notin Dpad
  BY SMT DEF Button, A, Back, Guide, Start, Up, Down, Left, Right, Dpad, Shoulders

\* The clamps of the cursor code bring any number between the limits.
LEMMA Clamped ==
  ASSUME NEW n \in Int, NEW low \in Int, NEW high \in Int, low <= high
  PROVE  Clamp(n, low, high) \in low .. high
  BY SMT DEF Clamp

\* A stick reading gives a whole number of cursor pixels and stick units.
LEMMA StickWhole ==
  ASSUME NEW raw \in Axis
  PROVE  StickStep(raw) \in Int /\ Direct(raw) \in Int
  BY SMT DEF Axis, StickStep, Direct, Abs, Least, DeadZone, FullScale

\* The limits of the cursor are in order.
LEMMA Limited ==
  /\ MinX \in Int /\ MaxX \in Int /\ StartX \in MinX .. MaxX
  /\ MinY \in Int /\ MaxY \in Int /\ StartY \in MinY .. MaxY
  /\ MinX <= MaxX /\ MinY <= MaxY
<1>1. /\ MinX \in Int /\ MaxX \in Int /\ StartX \in MinX .. MaxX
      /\ MinY \in Int /\ MaxY \in Int /\ StartY \in MinY .. MaxY
  BY InputConstants, Zenon
<1> QED BY <1>1, SMT

\* What every step of the button loop has in common.
LEMMA EdgeFrame ==
  ASSUME ButtonEdge
  PROVE  \E i \in Button :
           /\ Edge(i)
           /\ guest_keys' = guest_keys \/ guest_keys' = [guest_keys EXCEPT ![i] = buttons[i]]
           /\ \/ guest_touch' = guest_touch /\ touch_down' = touch_down
              \/ \E down \in BOOLEAN : guest_touch' = down /\ touch_down' = down
           /\ cursor_visible' \in {cursor_visible, ~cursor_visible, FALSE}
<1> DEFINE Frame(i) ==
      /\ Edge(i)
      /\ guest_keys' = guest_keys \/ guest_keys' = [guest_keys EXCEPT ![i] = buttons[i]]
      /\ \/ guest_touch' = guest_touch /\ touch_down' = touch_down
         \/ \E down \in BOOLEAN : guest_touch' = down /\ touch_down' = down
      /\ cursor_visible' \in {cursor_visible, ~cursor_visible, FALSE}
<1> USE DEF SendKey, SuppressKey, Touch, NoTouch, LiftTouch
<1>1. SelectPressed \/ SelectIgnored => Frame(Back)
  BY Zenon DEF SelectPressed, SelectIgnored
<1>2. GuideChanged => Frame(Guide)
  BY Zenon DEF GuideChanged
<1>3. APressed => Frame(A)
  BY Zenon DEF APressed
<1>4. AReleased => Frame(A)
  BY Zenon DEF AReleased
<1>5. ASSUME NEW i \in Button PROVE DpadChanged(i) \/ KeyChanged(i) => Frame(i)
  BY Zenon DEF DpadChanged, KeyChanged
<1>6. ASSUME NEW i \in Button PROVE ShoulderChanged(i) => Frame(i)
  BY Zenon DEF ShoulderChanged
<1>7. \E i \in Button : Frame(i)
  BY <1>1, <1>2, <1>3, <1>4, <1>5, <1>6, Buttons, Zenon DEF ButtonEdge
<1> QED BY <1>7

\* The type invariant holds initially.
LEMMA InitType == Init => TypeOK
<1> SUFFICES ASSUME Init PROVE TypeOK
  OBVIOUS
<1>1. frame \in Nat /\ guest_stick \in Int \X Int
  BY SMT DEF Init
<1>2. cursor_x \in MinX .. MaxX /\ cursor_y \in MinY .. MaxY
  BY Limited, Zenon DEF Init
<1>3. Released \in [Button -> BOOLEAN]
  BY Zenon DEF Released
<1>4. stick \in Axis \X Axis
  <2>1. 0 \in Axis
    BY SMT DEF Axis
  <2> QED BY <2>1, Zenon DEF Init
<1> QED BY <1>1, <1>2, <1>3, <1>4, Zenon DEF Init, TypeOK

\* Every step preserves the types; the cursor only moves through Clamp.
LEMMA TypeStep == ASSUME TypeOK, [Next]_vars PROVE TypeOK'
<1>1. ASSUME NEW pressed \in SUBSET Wired, NEW reading \in Sticks, ReadInput(pressed, reading)
      PROVE  TypeOK'
  <2> DEFINE b == [i \in Button |-> i \in pressed]
  <2>1. reading[1] \in Axis /\ reading[2] \in Axis
    <3>1. reading \in Axis \X Axis
      BY InputConstants, Zenon
    <3> QED BY <3>1, SMT
  <2>2. StickStep(reading[1]) \in Int /\ StickStep(reading[2]) \in Int
        /\ Direct(reading[1]) \in Int /\ Direct(reading[2]) \in Int
    BY <2>1, StickWhole, Zenon
  <2>3. b \in [Button -> BOOLEAN]
    BY SMT
  <2>4. buttons' = b /\ quit' = (b[Back] /\ b[Start]) /\ phase' = "edges"
    BY <1>1, Zenon DEF ReadInput
  <2>5. guest_stick' \in Int \X Int
    <3>1. guest_stick' = <<0, 0>> \/ guest_stick' = <<Direct(reading[1]), Direct(reading[2])>>
      BY <1>1, Zenon DEF ReadInput, WriteStick
    <3> QED BY <3>1, <2>2, SMT
  <2>6. cursor_x' \in MinX .. MaxX /\ cursor_y' \in MinY .. MaxY
    <3>1. CASE UNCHANGED cursor
      BY <3>1, Zenon DEF TypeOK, cursor
    <3>2. CASE ~UNCHANGED cursor
      <4>1. PICK dx \in Int, dy \in Int :
              /\ cursor_x' = Clamp(cursor_x + dx, MinX, MaxX)
              /\ cursor_y' = Clamp(cursor_y + dy, MinY, MaxY)
        <5>1. CursorStep(reading[1], b, Left, Right) \in Int
          BY <2>2, SMT DEF CursorStep
        <5>2. CursorStep(reading[2], b, Up, Down) \in Int
          BY <2>2, SMT DEF CursorStep
        <5> QED BY <1>1, <3>2, <5>1, <5>2, Zenon DEF ReadInput, MoveCursor
      <4>2. cursor_x + dx \in Int /\ cursor_y + dy \in Int
        BY <4>1, Limited, SMT DEF TypeOK
      <4> QED BY <4>1, <4>2, Limited, Clamped
    <3> QED BY <3>1, <3>2
  <2>7. quit' \in BOOLEAN
    BY <2>4, Zenon
  <2>9. stick' \in Axis \X Axis
    BY <1>1, InputConstants, Zenon DEF ReadInput
  <2>8. UNCHANGED <<frame, frame_limit, previous, cursor_visible, touch_down, guest_keys,
                    guest_touch>>
    BY <1>1 DEF ReadInput
  <2> QED BY <2>3, <2>4, <2>5, <2>6, <2>7, <2>8, <2>9, Zenon DEF TypeOK
<1>2. CASE ButtonEdge
  <2>1. PICK i \in Button :
           /\ Edge(i)
           /\ guest_keys' = guest_keys \/ guest_keys' = [guest_keys EXCEPT ![i] = buttons[i]]
           /\ \/ guest_touch' = guest_touch /\ touch_down' = touch_down
              \/ \E down \in BOOLEAN : guest_touch' = down /\ touch_down' = down
           /\ cursor_visible' \in {cursor_visible, ~cursor_visible, FALSE}
    BY <1>2, EdgeFrame
  <2>2. buttons[i] \in BOOLEAN
    BY Zenon DEF TypeOK
  <2>3. previous' \in [Button -> BOOLEAN] /\ guest_keys' \in [Button -> BOOLEAN]
    BY <2>1, <2>2, Zenon DEF TypeOK, Edge
  <2>4. UNCHANGED <<loop, stick, buttons, cursor, guest_stick>>
    BY <2>1 DEF Edge
  <2>5. guest_touch' \in BOOLEAN /\ touch_down' \in BOOLEAN /\ cursor_visible' \in BOOLEAN
    BY <2>1, Zenon DEF TypeOK
  <2> QED BY <2>3, <2>4, <2>5, Zenon DEF TypeOK, loop, cursor
<1>3. CASE FrameEnds
  <2>1. frame' \in Nat
    BY <1>3, SMT DEF TypeOK, FrameEnds
  <2> QED BY <1>3, <2>1, Zenon DEF TypeOK, FrameEnds, cursor, guest
<1>4. CASE LimitReached
  BY <1>4, Zenon DEF TypeOK, LimitReached, cursor, guest
<1>5. CASE UNCHANGED vars
  BY <1>5, Zenon DEF TypeOK, vars, loop, cursor, guest
<1> QED BY <1>1, <1>2, <1>3, <1>4, <1>5 DEF Next

(***************************************************************************)
(* The types hold and the cursor is on the screen in every reachable       *)
(* state, for every screen and every stick reading.                        *)
(***************************************************************************)
THEOREM TypeCorrect == Spec => []TypeOK
  BY InitType, TypeStep, PTL DEF Spec

-----------------------------------------------------------------------------
\* The part of TouchHeld a button can disturb; the limits are in TypeOK.
TouchPaired ==
  /\ guest_touch = touch_down
  /\ guest_touch => cursor_visible /\ previous[A]

\* Whatever button changes, a touch ends with A, with the cursor, or not at all.
LEMMA TouchStep ==
  ASSUME TypeOK, TouchPaired, [Next]_vars
  PROVE  TouchPaired'
<1> USE DEF TouchPaired
<1>1. CASE ButtonEdge
  <2> DEFINE Same == guest_touch' = guest_touch /\ touch_down' = touch_down
             Lifted == guest_touch' = FALSE /\ touch_down' = FALSE
  <2>1. LiftTouch => Lifted
    <3>1. guest_touch \in BOOLEAN /\ touch_down \in BOOLEAN
      BY DEF TypeOK
    <3> QED BY <3>1, Zenon DEF LiftTouch, Touch, NoTouch
  <2>2. ASSUME NEW i \in Button, Edge(i), i # A
        PROVE  previous'[A] = previous[A]
    BY <2>2, Buttons, Zenon DEF Edge, TypeOK
  <2>3. CASE SelectPressed
    <3>1. CASE cursor_visible
      BY <2>1, <2>3, <3>1, Zenon DEF SelectPressed
    <3>2. CASE ~cursor_visible
      BY <2>3, <3>2, Zenon DEF SelectPressed, NoTouch
    <3> QED BY <3>1, <3>2
  <2>4. CASE APressed
    <3>1. previous'[A] = buttons[A]
      BY <2>4, Buttons, Zenon DEF APressed, Edge, TypeOK
    <3>2. buttons[A] /\ cursor_visible' = cursor_visible
      BY <2>4 DEF APressed
    <3>3. CASE cursor_visible /\ ~touch_down
      <4>1. guest_touch' = TRUE /\ touch_down' = TRUE
        BY <2>4, <3>3, Zenon DEF APressed, Touch
      <4> QED BY <3>1, <3>2, <3>3, <4>1, Zenon
    <3>4. CASE ~(cursor_visible /\ ~touch_down)
      <4>1. Same
        BY <2>4, <3>4, Zenon DEF APressed, NoTouch
      <4> QED BY <3>1, <3>2, <4>1, Zenon
    <3> QED BY <3>3, <3>4
  <2>5. CASE AReleased
    BY <2>1, <2>5, Zenon DEF AReleased
  <2>6. ASSUME NEW i \in Button, ShoulderChanged(i)
        PROVE  TouchPaired'
    <3>1. CASE buttons[i] /\ cursor_visible
      BY <2>1, <2>6, <3>1, Zenon DEF ShoulderChanged
    <3>2. CASE ~(buttons[i] /\ cursor_visible)
      <4>1. Same /\ cursor_visible' = cursor_visible
        BY <2>6, <3>2, Zenon DEF ShoulderChanged, NoTouch
      <4>2. i # A
        BY <2>6, Buttons, Zenon DEF ShoulderChanged
      <4>3. previous'[A] = previous[A]
        BY <2>2, <2>6, <4>2 DEF ShoulderChanged
      <4> QED BY <4>1, <4>3, Zenon
    <3> QED BY <3>1, <3>2
  <2>7. ASSUME NEW i \in Button, Edge(i), i # A, NoTouch, UNCHANGED cursor_visible
        PROVE  TouchPaired'
    BY <2>2, <2>7, Zenon DEF NoTouch
  <2>8. Back \in Button /\ Guide \in Button /\ Back # A /\ Guide # A
    BY Buttons
  <2>9. CASE SelectIgnored \/ GuideChanged
    BY <2>7, <2>8, <2>9 DEF SelectIgnored, GuideChanged
  <2>10. ASSUME NEW i \in Button, DpadChanged(i) \/ KeyChanged(i)
         PROVE  TouchPaired'
    <3>1. i # A
      BY <2>10, Buttons, Zenon DEF DpadChanged, KeyChanged
    <3> QED BY <2>7, <2>10, <3>1 DEF DpadChanged, KeyChanged
  <2> QED BY <1>1, <2>3, <2>4, <2>5, <2>6, <2>9, <2>10 DEF ButtonEdge
<1>2. CASE UNCHANGED <<guest_touch, touch_down, cursor_visible, previous>>
  BY <1>2, Zenon
<1>3. ASSUME Next \/ UNCHANGED vars, ~ButtonEdge
      PROVE  UNCHANGED <<guest_touch, touch_down, cursor_visible, previous>>
  BY <1>3 DEF Next, ReadInput, FrameEnds, LimitReached, vars, guest
<1> QED BY <1>1, <1>2, <1>3

(***************************************************************************)
(* No touch outlives A or the cursor: nfsmw_jni_run tells the guest of a   *)
(* release on every path that ends one, for every order of button edges.   *)
(***************************************************************************)
THEOREM NoTouchLeftDown == Spec => []TouchHeld
<1>1. Init => TouchPaired
  BY Zenon DEF Init, TouchPaired
<1>2. TypeOK /\ TouchPaired => TouchHeld
  BY Zenon DEF TypeOK, TouchPaired, TouchHeld
<1> QED BY <1>1, <1>2, TypeCorrect, TouchStep, PTL DEF Spec

-----------------------------------------------------------------------------
\* An edge of a followed key is sent, and an edge of another leaves it alone.
LEMMA KeysStep ==
  ASSUME TypeOK, KeysFollow, [Next]_vars
  PROVE  KeysFollow'
<1> DEFINE Followed == Button \ (Dpad \cup {A, Back, Guide})
<1>1. ASSUME NEW i \in Button, Edge(i), i \notin Followed,
             SuppressKey \/ (i # Back /\ SendKey(i))
      PROVE  KeysFollow'
  <2>1. \A k \in Followed : previous'[k] = previous[k] /\ guest_keys'[k] = guest_keys[k]
    BY <1>1, Zenon DEF Edge, SendKey, SuppressKey, TypeOK
  <2>2. guest_keys'[Back] = guest_keys[Back]
    BY <1>1, Buttons, Zenon DEF SendKey, SuppressKey, TypeOK
  <2> QED BY <2>1, <2>2, Zenon DEF KeysFollow
<1>2. ASSUME NEW i \in Followed, Edge(i), SendKey(i)
      PROVE  KeysFollow'
  <2>1. \A k \in Followed \ {i} : previous'[k] = previous[k] /\ guest_keys'[k] = guest_keys[k]
    BY <1>2, Zenon DEF Edge, SendKey, TypeOK
  <2>2. previous'[i] = buttons[i] /\ guest_keys'[i] = buttons[i]
    BY <1>2, Zenon DEF Edge, SendKey, TypeOK
  <2>3. i # Back
    BY <1>2
  <2>4. guest_keys'[Back] = guest_keys[Back]
    BY <1>2, <2>3, Buttons, Zenon DEF SendKey, TypeOK
  <2> QED BY <2>1, <2>2, <2>4, Zenon DEF KeysFollow
<1>3. CASE ButtonEdge
  <2>1. A \in Button \ Followed /\ Back \in Button \ Followed /\ Guide \in Button \ Followed
        /\ A # Back
    BY Buttons, Zenon
  <2>2. CASE SelectPressed \/ SelectIgnored \/ GuideChanged
    BY <1>1, <2>1, <2>2 DEF SelectPressed, SelectIgnored, GuideChanged
  <2>3. CASE APressed \/ AReleased
    BY <1>1, <2>1, <2>3 DEF APressed, AReleased
  <2>4. ASSUME NEW i \in Button, DpadChanged(i)
        PROVE  KeysFollow'
    <3>1. i \notin Followed /\ i # Back
      BY <2>4, Buttons, Zenon DEF DpadChanged
    <3> QED BY <1>1, <2>4, <3>1 DEF DpadChanged
  <2>5. ASSUME NEW i \in Button, ShoulderChanged(i) \/ KeyChanged(i)
        PROVE  KeysFollow'
    <3>1. i \in Followed
      BY <2>5, Buttons, Zenon DEF ShoulderChanged, KeyChanged
    <3> QED BY <1>2, <2>5, <3>1 DEF ShoulderChanged, KeyChanged
  <2> QED BY <1>3, <2>2, <2>3, <2>4, <2>5 DEF ButtonEdge
<1>4. CASE UNCHANGED <<guest_keys, previous>>
  BY <1>4, Zenon DEF KeysFollow
<1>5. ASSUME Next \/ UNCHANGED vars, ~ButtonEdge
      PROVE  UNCHANGED <<guest_keys, previous>>
  BY <1>5 DEF Next, ReadInput, FrameEnds, LimitReached, vars, guest
<1> QED BY <1>3, <1>4, <1>5

(***************************************************************************)
(* The keys that cursor mode never takes are always the player's: the      *)
(* button loop of nfsmw_jni_run sends each of their edges once.            *)
(***************************************************************************)
THEOREM KeysAreThePlayers == Spec => []KeysFollow
<1>1. Init => KeysFollow
  BY Buttons, Zenon DEF Init, KeysFollow, Released
<1> QED BY <1>1, TypeCorrect, KeysStep, PTL DEF Spec

-----------------------------------------------------------------------------
\* The D-pad buttons are the ones from index 11 on.
LEMMA DpadHigh == \A i \in Dpad : i >= Up
  BY SMT DEF Dpad, Up, Right

(***************************************************************************)
(* While the cursor shows, the stick and the buttons that drive it tell    *)
(* the guest nothing new: nfsmw_jni_run suppresses A's and the D-pad's     *)
(* edges, releases too, and writes a neutral stick.                        *)
(***************************************************************************)
THEOREM CursorModeHides == Spec => CursorModeQuiet
<1> DEFINE Keys == \A i \in Dpad \cup {A} : guest_keys'[i] = guest_keys[i]
           Stick == guest_stick' \in {guest_stick, <<0, 0>>}
<1>1. ASSUME TypeOK, Next \/ UNCHANGED vars, cursor_visible, cursor_visible'
      PROVE  Keys /\ Stick
  <2>1. ASSUME NEW pressed \in SUBSET Wired, NEW reading \in Sticks, ReadInput(pressed, reading)
        PROVE  Keys /\ Stick
    BY <1>1, <2>1, Zenon DEF ReadInput, WriteStick
  <2>2. CASE ButtonEdge
    <3>1. Stick
      BY <2>2, EdgeFrame, Zenon DEF Edge
    <3>2. CASE SelectPressed \/ SelectIgnored \/ GuideChanged
      BY <3>1, <3>2, Zenon DEF SelectPressed, SelectIgnored, GuideChanged, SuppressKey
    <3>3. CASE APressed \/ AReleased
      <4>1. CursorTakes(A)
        BY <1>1, Zenon DEF CursorTakes
      <4>2. UNCHANGED guest_keys
        BY <3>3, <4>1, Zenon DEF APressed, AReleased, SuppressKey
      <4> QED BY <3>1, <4>2, Zenon
    <3>4. ASSUME NEW i \in Button, DpadChanged(i)
          PROVE  Keys
      <4>1. CursorTakes(i)
        BY <1>1, <3>4, DpadHigh, Zenon DEF DpadChanged, CursorTakes
      <4>2. UNCHANGED guest_keys
        BY <3>4, <4>1, Zenon DEF DpadChanged, SuppressKey
      <4> QED BY <4>2, Zenon
    <3>5. ASSUME NEW i \in Button, ShoulderChanged(i) \/ KeyChanged(i)
          PROVE  Keys
      <4>1. SendKey(i) /\ i \notin Dpad \cup {A}
        BY <3>5, Buttons, Zenon DEF ShoulderChanged, KeyChanged
      <4>2. guest_keys \in [Button -> BOOLEAN] /\ Dpad \cup {A} \subseteq Button
        BY <1>1, Buttons, Zenon DEF TypeOK
      <4> QED BY <4>1, <4>2, Zenon DEF SendKey
    <3> QED BY <2>2, <3>1, <3>2, <3>3, <3>4, <3>5 DEF ButtonEdge
  <2>3. CASE FrameEnds \/ LimitReached \/ UNCHANGED vars
    BY <2>3, Zenon DEF FrameEnds, LimitReached, vars, guest
  <2> QED BY <1>1, <2>1, <2>2, <2>3 DEF Next
<1>2. TypeOK /\ [Next]_vars => [cursor_visible /\ cursor_visible' => Keys /\ Stick]_vars
  BY <1>1, Zenon
<1> QED BY <1>2, TypeCorrect, PTL DEF Spec, CursorModeQuiet

-----------------------------------------------------------------------------
(***************************************************************************)
(* What the cursor's clamps do to a step: from inside the limits they      *)
(* shorten it, and never turn it round.                                    *)
(***************************************************************************)
LEMMA ClampKeepsSide ==
  ASSUME NEW low \in Int, NEW high \in Int, NEW n \in low .. high, NEW d \in Int
  PROVE  /\ Clamp(n + d, low, high) < n => d < 0
         /\ Clamp(n + d, low, high) > n => d > 0
  BY SMT DEF Clamp

\* \div on the numbers it is applied to here.
LEMMA Quotient ==
  ASSUME NEW n \in Nat
  PROVE  n \div 4096 \in Nat /\ (n < 4096 => n \div 4096 = 0)
  BY SMT

\* Truncated division leaves every reading short of 4096 at rest, on either side.
LEMMA StickStepSide ==
  ASSUME NEW raw \in Axis
  PROVE  /\ StickStep(raw) < 0 => raw <= -DeadZone
         /\ StickStep(raw) > 0 => raw >= DeadZone
<1>1. CASE raw < 0
  <2>1. -raw \in Nat /\ raw \in Int
    <3>1. raw \in Int
      BY SMT DEF Axis
    <3> QED BY <1>1, <3>1, SMT
  <2>2. (-raw) \div 4096 \in Nat /\ (-raw < 4096 => (-raw) \div 4096 = 0)
    BY <2>1, Quotient
  <2>3. StickStep(raw) = -((-raw) \div 4096)
    BY <1>1 DEF StickStep
  <2> QED BY <2>1, <2>2, <2>3, SMT DEF DeadZone
<1>2. CASE ~(raw < 0)
  <2>1. raw \in Nat
    BY <1>2, SMT DEF Axis
  <2>2. raw \div 4096 \in Nat /\ (raw < 4096 => raw \div 4096 = 0)
    BY <2>1, Quotient
  <2>3. StickStep(raw) = raw \div 4096
    BY <1>2 DEF StickStep
  <2> QED BY <2>1, <2>2, <2>3, SMT DEF DeadZone
<1> QED BY <1>1, <1>2

\* One axis of MoveCursor moves the way it is pushed.
LEMMA AxisFollows ==
  ASSUME NEW raw \in Axis, NEW b \in [Button -> BOOLEAN],
         NEW neg \in Button, NEW pos \in Button,
         NEW low \in Int, NEW high \in Int, NEW n \in low .. high, NEW m,
         m = Clamp(n + CursorStep(raw, b, neg, pos), low, high)
  PROVE  /\ m < n => b[neg] \/ (raw <= -DeadZone /\ ~b[pos])
         /\ m > n => ~b[neg] /\ (b[pos] \/ raw >= DeadZone)
<1>1. CASE b[neg]
  <2>1. CursorStep(raw, b, neg, pos) = -8
    BY <1>1, Zenon DEF CursorStep
  <2>2. ~(m > n)
    BY <2>1, ClampKeepsSide, SMT
  <2> QED BY <1>1, <2>2, Zenon
<1>2. CASE ~b[neg] /\ b[pos]
  <2>1. CursorStep(raw, b, neg, pos) = 8
    BY <1>2, Zenon DEF CursorStep
  <2>2. ~(m < n)
    BY <2>1, ClampKeepsSide, SMT
  <2> QED BY <1>2, <2>2, Zenon
<1>3. CASE ~b[neg] /\ ~b[pos]
  <2>1. CursorStep(raw, b, neg, pos) = StickStep(raw)
    BY <1>3, Zenon DEF CursorStep
  <2>2. StickStep(raw) \in Int
    BY StickWhole
  <2>3. (m < n => raw <= -DeadZone) /\ (m > n => raw >= DeadZone)
    BY <2>1, <2>2, ClampKeepsSide, StickStepSide, Zenon
  <2> QED BY <1>3, <2>3, Zenon
<1> QED BY <1>1, <1>2, <1>3, Zenon

(***************************************************************************)
(* The cursor moves only where the D-pad or the stick pushes it, for every *)
(* screen and every reading: the quotients of nfsmw_jni_run vanish for     *)
(* both signs inside the zone the guest's own stick ignores.               *)
(***************************************************************************)
THEOREM CursorGoesWherePushed == Spec => CursorFollows
<1> DEFINE Follows == /\ Pushed(stick'[1], Left, Right, cursor_x', cursor_x)
                      /\ Pushed(stick'[2], Up, Down, cursor_y', cursor_y)
<1>1. ASSUME TypeOK, UNCHANGED cursor
      PROVE  Follows
  <2>1. cursor_x \in Int /\ cursor_y \in Int
    <3>1. cursor_x \in MinX .. MaxX /\ cursor_y \in MinY .. MaxY
      BY <1>1 DEF TypeOK
    <3> QED BY <3>1, Limited, SMT
  <2>2. cursor_x' = cursor_x /\ cursor_y' = cursor_y
    BY <1>1, Zenon DEF cursor
  <2>3. ~(cursor_x' < cursor_x) /\ ~(cursor_x' > cursor_x)
    BY <2>1, <2>2, SMT
  <2>4. ~(cursor_y' < cursor_y) /\ ~(cursor_y' > cursor_y)
    BY <2>1, <2>2, SMT
  <2> QED BY <2>3, <2>4, Zenon DEF Pushed
<1>2. ASSUME TypeOK, NEW pressed \in SUBSET Wired, NEW reading \in Sticks,
             ReadInput(pressed, reading), ~UNCHANGED cursor
      PROVE  Follows
  <2> DEFINE b == [i \in Button |-> i \in pressed]
  <2>1. stick' = reading /\ buttons' = b
    BY <1>2, Zenon DEF ReadInput
  <2>2. /\ cursor_x' = Clamp(cursor_x + CursorStep(reading[1], b, Left, Right), MinX, MaxX)
        /\ cursor_y' = Clamp(cursor_y + CursorStep(reading[2], b, Up, Down), MinY, MaxY)
    BY <1>2, Zenon DEF ReadInput, MoveCursor
  <2>3. reading[1] \in Axis /\ reading[2] \in Axis
    <3>1. reading \in Axis \X Axis
      BY InputConstants, Zenon
    <3> QED BY <3>1, SMT
  <2>4. b \in [Button -> BOOLEAN]
    BY SMT
  <2>5. cursor_x \in MinX .. MaxX /\ cursor_y \in MinY .. MaxY
    BY <1>2 DEF TypeOK
  <2> HIDE DEF b
  <2>6. Pushed(stick'[1], Left, Right, cursor_x', cursor_x)
    <3>1. Left \in Button /\ Right \in Button /\ MinX \in Int /\ MaxX \in Int
      BY Buttons, Limited
    <3>2. /\ cursor_x' < cursor_x => b[Left] \/ (reading[1] <= -DeadZone /\ ~b[Right])
          /\ cursor_x' > cursor_x => ~b[Left] /\ (b[Right] \/ reading[1] >= DeadZone)
      BY <2>2, <2>3, <2>4, <2>5, <3>1, AxisFollows
    <3>3. stick'[1] = reading[1] /\ buttons'[Left] = b[Left] /\ buttons'[Right] = b[Right]
      BY <2>1, Zenon
    <3> QED BY <3>2, <3>3, Zenon DEF Pushed
  <2>7. Pushed(stick'[2], Up, Down, cursor_y', cursor_y)
    <3>1. Up \in Button /\ Down \in Button /\ MinY \in Int /\ MaxY \in Int
      BY Buttons, Limited
    <3>2. /\ cursor_y' < cursor_y => b[Up] \/ (reading[2] <= -DeadZone /\ ~b[Down])
          /\ cursor_y' > cursor_y => ~b[Up] /\ (b[Down] \/ reading[2] >= DeadZone)
      BY <2>2, <2>3, <2>4, <2>5, <3>1, AxisFollows
    <3>3. stick'[2] = reading[2] /\ buttons'[Up] = b[Up] /\ buttons'[Down] = b[Down]
      BY <2>1, Zenon
    <3> QED BY <3>2, <3>3, Zenon DEF Pushed
  <2> QED BY <2>6, <2>7
<1>3. ASSUME ButtonEdge \/ FrameEnds \/ LimitReached
      PROVE  UNCHANGED cursor
  <2>1. ASSUME ButtonEdge PROVE UNCHANGED cursor
    BY <2>1, EdgeFrame DEF Edge, cursor
  <2>2. ASSUME FrameEnds \/ LimitReached PROVE UNCHANGED cursor
    BY <2>2 DEF FrameEnds, LimitReached, cursor
  <2> QED BY <1>3, <2>1, <2>2
<1>4. TypeOK /\ [Next]_vars => [Follows]_vars
  BY <1>1, <1>2, <1>3 DEF Next
<1> QED BY <1>4, TypeCorrect, PTL DEF Spec, CursorFollows
=============================================================================
