------------------------------ MODULE GameInput ------------------------------
(***************************************************************************)
(* The input half of the game loop (nfsmw_jni_run): every frame reads the  *)
(* controller once, moves the cursor, writes the stick to the guest's      *)
(* controller object, and turns each button edge, in index order, into a   *)
(* key event, a touch or a cursor toggle.                                  *)
(*                                                                         *)
(* A pass of the code's button loop over a button that did not change does *)
(* nothing, so a step of the model handles the lowest changed button; the  *)
(* frame goes on when previous equals buttons.                             *)
(***************************************************************************)
EXTENDS Integers

CONSTANTS
  Wired,        \* the buttons the controller has, among 0 .. 14
  Sticks,       \* the readings of the stick considered, as pairs
  MinX, MaxX, MinY, MaxY,   \* limits of the cursor: 8, 631, 8, 471
  StartX, StartY,           \* its first position: 320, 240
  Limits        \* values of frame_limit; 0 is no limit

Button == 0 .. 14

A      == 0
Back   == 4
Guide  == 5     \* android_keys[5] is 0
Start  == 6
Shoulders == {9, 10}
Up     == 11
Down   == 12
Left   == 13
Right  == 14
Dpad   == Up .. Right

Axis == {raw \in Int : -32768 <= raw /\ raw <= 32767}

DeadZone == 4096
FullScale == 32767

ASSUME InputConstants ==
  /\ Wired \subseteq Button
  /\ Sticks \subseteq Axis \X Axis
  /\ MinX \in Int /\ MaxX \in Int /\ StartX \in MinX .. MaxX
  /\ MinY \in Int /\ MaxY \in Int /\ StartY \in MinY .. MaxY
  /\ Limits \subseteq Nat

VARIABLES
  phase,            \* "read", "edges" or "done"
  frame,            \* completed frames; kept at 0 when there is no limit
  frame_limit,
  stick,            \* this frame's raw_steering and raw_vertical
  buttons, previous,
  quit,             \* this frame's result of the input call
  cursor_x, cursor_y, cursor_visible,
  touch_down,
  guest_keys,       \* the keys the guest was last told are down
  guest_touch,      \* whether the guest was last told of a touch down
  guest_stick       \* the two floats in the guest's controller, times 28671

loop   == <<phase, frame, frame_limit, quit>>
cursor == <<cursor_x, cursor_y>>
guest  == <<guest_keys, guest_touch, guest_stick>>
vars   == <<loop, stick, buttons, previous, cursor, cursor_visible, touch_down, guest>>

Abs(n) == IF n < 0 THEN -n ELSE n

Least(m, n) == IF m <= n THEN m ELSE n

\* The stick outside its dead zone, scaled so that full deflection is 28671.
Direct(raw) ==
  LET magnitude == Least(Abs(raw), FullScale) - DeadZone
  IN  IF magnitude <= 0 THEN 0 ELSE IF raw < 0 THEN -magnitude ELSE magnitude

\* Mutant: a negative reading is divided as by a shift, rounding down.
StickStepFloors(raw) == raw \div 4096

\* C's division by 4096, which truncates towards zero; \div rounds down.
StickStep(raw) == IF raw < 0 THEN -((-raw) \div 4096) ELSE raw \div 4096

\* How far the cursor moves: the first D-pad button of a pair wins.
CursorStep(raw, b, negative, positive) ==
  IF b[negative] THEN -8 ELSE IF b[positive] THEN 8 ELSE StickStep(raw)

Clamp(n, low, high) ==
  IF n < low THEN low ELSE IF n > high THEN high ELSE n

-----------------------------------------------------------------------------
InLoop == frame_limit = 0 \/ frame < frame_limit

WriteStick(x, y) ==
  guest_stick' = IF cursor_visible THEN <<0, 0>> ELSE <<Direct(x), Direct(y)>>

MoveCursor(x, y, b) ==
  IF cursor_visible
  THEN /\ cursor_x' = Clamp(cursor_x + CursorStep(x, b, Left, Right), MinX, MaxX)
       /\ cursor_y' = Clamp(cursor_y + CursorStep(y, b, Up, Down), MinY, MaxY)
  ELSE UNCHANGED cursor

(***************************************************************************)
(* The start of a frame, up to the button loop.  The JNI motion event is   *)
(* left out: the code zeroes the four stick axes it carries.               *)
(***************************************************************************)
ReadInput(pressed, reading) ==
  LET b == [i \in Button |-> i \in pressed] IN
  /\ phase = "read"
  /\ InLoop
  /\ phase' = "edges"
  /\ buttons' = b
  /\ quit' = (b[Back] /\ b[Start])
  /\ stick' = reading
  /\ MoveCursor(reading[1], reading[2], b)
  /\ WriteStick(reading[1], reading[2])
  /\ UNCHANGED <<frame, frame_limit, previous, cursor_visible, touch_down,
                 guest_keys, guest_touch>>

-----------------------------------------------------------------------------
\* Button i is the next one whose change the loop meets.
Edge(i) ==
  /\ phase = "edges"
  /\ buttons[i] # previous[i]
  /\ \A j \in Button : j < i => buttons[j] = previous[j]
  /\ previous' = [previous EXCEPT ![i] = buttons[i]]
  /\ UNCHANGED <<loop, stick, buttons, cursor, guest_stick>>

\* Mutant: the range of D-pad buttons starts one too high.
CursorTakesOffByOne(i) == cursor_visible /\ (i = A \/ i > Up)

\* In cursor mode A and the D-pad drive the cursor.
CursorTakes(i) == cursor_visible /\ (i = A \/ i >= Up)

SendKey(i) == guest_keys' = [guest_keys EXCEPT ![i] = buttons[i]]

SuppressKey == UNCHANGED guest_keys

Touch(down) == guest_touch' = down /\ touch_down' = down

NoTouch == UNCHANGED <<guest_touch, touch_down>>

LiftTouch == IF touch_down THEN Touch(FALSE) ELSE NoTouch

\* Mutant: hiding the cursor leaves the touch down.
SelectPressedKeepsTouch ==
  /\ Edge(Back)
  /\ buttons[Back] /\ ~buttons[Start]
  /\ cursor_visible' = ~cursor_visible
  /\ NoTouch
  /\ SuppressKey

SelectPressed ==
  /\ Edge(Back)
  /\ buttons[Back] /\ ~buttons[Start]
  /\ cursor_visible' = ~cursor_visible
  /\ (IF cursor_visible THEN LiftTouch ELSE NoTouch)
  /\ SuppressKey

\* Back released, or pressed as part of the exit chord.
SelectIgnored ==
  /\ Edge(Back)
  /\ ~(buttons[Back] /\ ~buttons[Start])
  /\ SuppressKey /\ NoTouch
  /\ UNCHANGED cursor_visible

GuideChanged ==
  /\ Edge(Guide)
  /\ SuppressKey /\ NoTouch
  /\ UNCHANGED cursor_visible

APressed ==
  /\ Edge(A)
  /\ buttons[A]
  /\ (IF CursorTakes(A) THEN SuppressKey ELSE SendKey(A))
  /\ (IF cursor_visible /\ ~touch_down THEN Touch(TRUE) ELSE NoTouch)
  /\ UNCHANGED cursor_visible

AReleased ==
  /\ Edge(A)
  /\ ~buttons[A]
  /\ (IF CursorTakes(A) THEN SuppressKey ELSE SendKey(A))
  /\ LiftTouch
  /\ UNCHANGED cursor_visible

DpadChanged(i) ==
  /\ i \in Dpad
  /\ Edge(i)
  /\ (IF CursorTakes(i) THEN SuppressKey ELSE SendKey(i))
  /\ NoTouch
  /\ UNCHANGED cursor_visible

\* A shoulder button always reaches the guest, and its press leaves cursor mode.
ShoulderChanged(i) ==
  /\ i \in Shoulders
  /\ Edge(i)
  /\ SendKey(i)
  /\ IF buttons[i] /\ cursor_visible
     THEN LiftTouch /\ cursor_visible' = FALSE
     ELSE NoTouch /\ UNCHANGED cursor_visible

\* Mutant: in cursor mode every key is withheld, its release too.
KeyChangedWithheld(i) ==
  /\ i \in Button \ (Dpad \cup Shoulders \cup {A, Back, Guide})
  /\ Edge(i)
  /\ (IF cursor_visible THEN SuppressKey ELSE SendKey(i))
  /\ NoTouch
  /\ UNCHANGED cursor_visible

KeyChanged(i) ==
  /\ i \in Button \ (Dpad \cup Shoulders \cup {A, Back, Guide})
  /\ Edge(i)
  /\ SendKey(i)
  /\ NoTouch
  /\ UNCHANGED cursor_visible

-----------------------------------------------------------------------------
\* Mutant: the exit chord is not looked at.
FrameEndsNoQuit ==
  /\ phase = "edges"
  /\ buttons = previous
  /\ frame' = IF frame_limit = 0 THEN frame ELSE frame + 1
  /\ phase' = "read"
  /\ quit' = FALSE
  /\ UNCHANGED <<frame_limit, stick, buttons, previous, cursor, cursor_visible, touch_down, guest>>

(***************************************************************************)
(* The rest of the frame: the guest's tick, the audio pulls, the present,  *)
(* and the exit chord, which is looked at last.                            *)
(***************************************************************************)
FrameEnds ==
  /\ phase = "edges"
  /\ buttons = previous
  /\ frame' = IF frame_limit = 0 THEN frame ELSE frame + 1
  /\ phase' = IF quit THEN "done" ELSE "read"
  /\ quit' = FALSE
  /\ UNCHANGED <<frame_limit, stick, buttons, previous, cursor, cursor_visible, touch_down, guest>>

LimitReached ==
  /\ phase = "read"
  /\ ~InLoop
  /\ phase' = "done"
  /\ UNCHANGED <<frame, frame_limit, quit, stick, buttons, previous, cursor, cursor_visible,
                 touch_down, guest>>

Released == [i \in Button |-> FALSE]

Init ==
  /\ phase = "read"
  /\ frame = 0
  /\ frame_limit \in Limits
  /\ stick = <<0, 0>>
  /\ buttons = Released
  /\ previous = Released
  /\ quit = FALSE
  /\ cursor_x = StartX /\ cursor_y = StartY
  /\ cursor_visible = FALSE
  /\ touch_down = FALSE
  /\ guest_keys = Released
  /\ guest_touch = FALSE
  /\ guest_stick = <<0, 0>>

ButtonEdge ==
  \/ SelectPressed \/ SelectIgnored \/ GuideChanged \/ APressed \/ AReleased
  \/ \E i \in Button : DpadChanged(i) \/ ShoulderChanged(i) \/ KeyChanged(i)

Next ==
  \/ \E pressed \in SUBSET Wired, reading \in Sticks : ReadInput(pressed, reading)
  \/ ButtonEdge
  \/ FrameEnds
  \/ LimitReached

Spec == Init /\ [][Next]_vars

(***************************************************************************)
(* The loop runs on the main thread and none of its calls waits for a      *)
(* player: it always takes its next step.                                  *)
(***************************************************************************)
FairSpec == Spec /\ WF_vars(Next)

-----------------------------------------------------------------------------
\* Every variable keeps its type, and the cursor stays inside its limits.
TypeOK ==
  /\ phase \in {"read", "edges", "done"}
  /\ frame \in Nat /\ frame_limit \in Limits
  /\ stick \in Axis \X Axis
  /\ buttons \in [Button -> BOOLEAN] /\ previous \in [Button -> BOOLEAN]
  /\ quit \in BOOLEAN
  /\ cursor_x \in MinX .. MaxX /\ cursor_y \in MinY .. MaxY
  /\ cursor_visible \in BOOLEAN /\ touch_down \in BOOLEAN
  /\ guest_keys \in [Button -> BOOLEAN]
  /\ guest_touch \in BOOLEAN
  /\ guest_stick \in Int \X Int

(***************************************************************************)
(* The guest never holds a touch the player has ended: whenever it was     *)
(* told of a touch down, the cursor shows and A is held, whichever of      *)
(* A's release, Select or a shoulder button ends it, several in one frame  *)
(* included.  The touch it holds is on the screen: the cursor it follows   *)
(* never passes a limit, whatever the stick and the D-pad add to it.       *)
(***************************************************************************)
TouchHeld ==
  /\ guest_touch = touch_down
  /\ guest_touch => cursor_visible /\ previous[A]
  /\ guest_touch => cursor_x \in MinX .. MaxX /\ cursor_y \in MinY .. MaxY

(***************************************************************************)
(* Keys cursor mode never takes stay in step with the player: at the end   *)
(* of a frame the guest holds exactly the ones that are pressed, and it    *)
(* never sees Back.                                                        *)
(***************************************************************************)
KeysFollow ==
  /\ \A i \in Button \ (Dpad \cup {A, Back, Guide}) : guest_keys[i] = previous[i]
  /\ ~guest_keys[Back]

(***************************************************************************)
(* Cursor mode tells the guest nothing new: a step in which the cursor     *)
(* shows before and after changes neither the guest's view of A and the    *)
(* D-pad, releases of keys it holds included, nor gives its stick a new    *)
(* deflection.                                                             *)
(***************************************************************************)
CursorModeQuiet ==
  [][cursor_visible /\ cursor_visible' =>
       /\ \A i \in Dpad \cup {A} : guest_keys'[i] = guest_keys[i]
       /\ guest_stick' \in {guest_stick, <<0, 0>>}]_vars

(***************************************************************************)
(* The cursor goes where the player pushes: it moves left or up only for   *)
(* the D-pad or for a stick pushed that way at least as far as the guest's *)
(* own dead zone reaches, and so for right and down.  A stick that rests a *)
(* little off its centre, on either side, never makes the cursor drift.    *)
(***************************************************************************)
Pushed(raw, negative, positive, to, from) ==
  /\ to < from => buttons'[negative] \/ (raw <= -DeadZone /\ ~buttons'[positive])
  /\ to > from => ~buttons'[negative] /\ (buttons'[positive] \/ raw >= DeadZone)

CursorFollows ==
  [][/\ Pushed(stick'[1], Left, Right, cursor_x', cursor_x)
     /\ Pushed(stick'[2], Up, Down, cursor_y', cursor_y)]_vars

(***************************************************************************)
(* The loop ends: after the exit chord was read, and, when a frame limit   *)
(* is set, whatever the player does.                                       *)
(***************************************************************************)
LoopEnds == (quit \/ frame_limit # 0) ~> phase = "done"
=============================================================================
