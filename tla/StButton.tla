------------------------------- MODULE StButton -----------------------------
(***************************************************************************)
(* A button of the toolkit (st-button.c): what a mouse, touches and the    *)
(* keyboard, used in any order and at the same time, make of its state.    *)
(* The pointer delivers crossings while it is held, and whoever uses the   *)
(* button may change its buttons and its toggling or break a press off.    *)
(***************************************************************************)
EXTENDS Integers, FiniteSets

CONSTANTS
  MouseButtons,   \* the numbers of the mouse buttons; 1 is the one keys and touches stand for
  Touches,        \* touch sequences
  MaxClicks       \* bound on the clicks of a behaviour

None == "none"    \* no device, no sequence
ASSUME ButtonAssumption == 1 \in MouseButtons /\ None \notin Touches
Mouse == "mouse"
Touchscreen == "touchscreen"

VARIABLES
  button,      \* the button's fields, its "active" and "checked" classes and its clicks
  holding      \* the mouse buttons whose press the button was given
buttonVars == <<button, holding>>

---------------------------------------------------------------------------
Pressed(b) == b.pressed # {} \/ b.sequence # None        \* st_button_get_pressed()

Press(b, device, mask, sequence) ==
  [b EXCEPT !.active = @ \/ b.pressed = {} \/ sequence # None,
            !.pressed = @ \cup mask, !.sequence = sequence, !.device = device]

SetChecked(b, checked) == [b EXCEPT !.checked = checked]
Clicked(b) ==
  [SetChecked(b, IF b.toggle THEN ~b.checked ELSE b.checked) EXCEPT !.clicks = @ + 1]

\* Mutant: the end of a touch leaves the class.
LetGoKeepsActive(b) == [b EXCEPT !.sequence = None, !.device = None, !.active = @ /\ b.sequence # None]
LetGo(b) == [b EXCEPT !.sequence = None, !.device = None, !.active = FALSE]

Release(b, device, mask, click, sequence) ==
  LET rest == IF sequence = None THEN [b EXCEPT !.pressed = @ \ mask] ELSE b
  IN CASE (device # None /\ b.device # device) \/ (sequence # None /\ b.sequence # sequence) -> b
       [] sequence = None /\ rest.pressed # {} -> rest
       [] OTHER -> IF click \/ sequence # None THEN Clicked(LetGo(rest)) ELSE LetGo(rest)

FakeReleased(b) ==
  LET ungrabbed == [b EXCEPT !.grabbed = {}]
  IN IF Pressed(b) THEN Release(ungrabbed, b.device, b.pressed, FALSE, None) ELSE ungrabbed

---------------------------------------------------------------------------
More == button.clicks < MaxClicks

ButtonPress(n) ==
  /\ n \notin holding /\ holding' = holding \cup {n}
  /\ button' = IF button.sequence # None \/ n \notin button.mask THEN button
               ELSE Press([button EXCEPT !.grabbed = @ \cup {n}], Mouse, {n}, None)
\* the pointer may be over the button or not
ButtonRelease(n, inside) ==
  /\ More /\ n \in holding /\ holding' = holding \ {n}
  /\ button' =
       IF n \notin button.mask THEN button
       ELSE [Release(button, Mouse, {n}, button.grabbed # {} /\ inside, None) EXCEPT !.grabbed = @ \ {n}]

\* an event of a touch: begin, end or cancel
TouchEvent(kind, t) ==
  /\ More /\ UNCHANGED holding
  /\ button' =
       CASE button.pressed # {} \/ 1 \notin button.mask -> button
         [] OTHER ->
            CASE kind = "begin" /\ button.grabbed = {} /\ button.sequence = None ->
                   Press(button, Touchscreen, {}, t)
              [] kind = "end" /\ button.device = Touchscreen /\ button.sequence = t ->
                   Release(button, Touchscreen, {1}, FALSE, t)
              [] kind = "cancel" -> FakeReleased(button)
              [] OTHER -> button

KeyPress ==
  /\ 1 \in button.mask /\ UNCHANGED holding
  /\ button' = Press(button, None, {1}, None)
KeyRelease ==
  /\ More /\ 1 \in button.mask /\ UNCHANGED holding
  /\ button' = Release(button, None, {1}, 1 \in button.pressed, None)
KeyFocusOut ==
  /\ 1 \in button.pressed /\ 1 \notin button.grabbed /\ UNCHANGED holding
  /\ button' = Release(button, None, {1}, FALSE, None)

\* st_button_enter() and st_button_leave(), after StWidget set the hover
PointerCrosses(hover) ==
  /\ button.grabbed # {} /\ UNCHANGED holding
  /\ button' = IF hover THEN Press(button, button.device, button.grabbed, None)
               ELSE Release(button, button.device, button.grabbed, FALSE, None)

FakeRelease == UNCHANGED holding /\ button' = FakeReleased(button)
SetButtonMask(mask) == UNCHANGED holding /\ button' = [button EXCEPT !.mask = mask]
SetToggleMode(toggle) == UNCHANGED holding /\ button' = [button EXCEPT !.toggle = toggle]
CheckedSet(checked) == UNCHANGED holding /\ button' = SetChecked(button, checked)

---------------------------------------------------------------------------
ButtonInit ==
  /\ button = [mask |-> {1}, toggle |-> FALSE, pressed |-> {}, grabbed |-> {}, checked |-> FALSE,
               device |-> None, sequence |-> None, active |-> FALSE, clicks |-> 0]
  /\ holding = {}
ButtonNext ==
  \/ \E n \in MouseButtons : ButtonPress(n)
  \/ \E n \in MouseButtons, inside \in BOOLEAN : ButtonRelease(n, inside)
  \/ \E kind \in {"begin", "end", "cancel"}, t \in Touches : TouchEvent(kind, t)
  \/ KeyPress
  \/ KeyRelease
  \/ KeyFocusOut
  \/ \E hover \in BOOLEAN : PointerCrosses(hover)
  \/ FakeRelease
  \/ \E mask \in SUBSET MouseButtons : SetButtonMask(mask)
  \/ \E toggle \in BOOLEAN : SetToggleMode(toggle)
  \/ \E checked \in BOOLEAN : CheckedSet(checked)
ButtonSpec == ButtonInit /\ [][ButtonNext]_buttonVars

---------------------------------------------------------------------------
(* Whatever inputs overlap, the button looks pressed ("active") exactly    *)
(* while it is pressed, and it knows a device only then (st_button_press() *)
(* and st_button_release() and the early returns of the latter).           *)
ActiveIsPressed ==
  /\ button.active <=> Pressed(button)
  /\ button.device # None => Pressed(button)
=============================================================================
