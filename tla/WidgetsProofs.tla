--------------------------- MODULE WidgetsProofs ---------------------------
(***************************************************************************)
(* Proofs about parts of a widget: a button looks pressed exactly while it *)
(* is, a widget paints what a widget that never painted before would, and  *)
(* a scroll view shows its content.                                        *)
(***************************************************************************)
EXTENDS StButton, StPaint, Scrolling, WellFoundedInduction, TLAPS

---------------------------------------------------------------------------
(* Buttons.                                                                *)

Devices == {None, Mouse, Touchscreen}
Buttons ==
  [mask : SUBSET MouseButtons, toggle : BOOLEAN, pressed : SUBSET MouseButtons,
   grabbed : SUBSET MouseButtons, checked : BOOLEAN, device : Devices,
   sequence : Touches \cup {None}, active : BOOLEAN, clicks : Nat]

\* What ActiveIsPressed says of the button, of any state of one.
Sound(b) ==
  /\ b \in Buttons
  /\ b.active <=> Pressed(b)
  /\ b.device # None => Pressed(b)

\* A press with a button or a touch leaves the button pressed and active, also
\* one of the keyboard that forgets a touch.
LEMMA PressIsSound ==
  ASSUME NEW b, Sound(b), NEW device \in Devices, NEW mask \in SUBSET MouseButtons,
         NEW sequence \in Touches \cup {None}, mask # {} \/ sequence # None
  PROVE  Sound(Press(b, device, mask, sequence))
<1> DEFINE c == Press(b, device, mask, sequence)
<1>1. b \in Buttons /\ (b.active <=> Pressed(b))
  BY DEF Sound
<1>2. c.active = (b.active \/ b.pressed = {} \/ sequence # None)
  BY <1>1 DEF Press, Buttons
<1>3. /\ c.pressed = b.pressed \cup mask /\ c.sequence = sequence /\ c.device = device
      /\ c \in Buttons
  BY <1>1 DEF Press, Buttons
<1> HIDE DEF c
<1>4. Pressed(c)
  BY <1>3 DEF Pressed
<1>5. b.active \/ b.pressed = {}
  BY <1>1 DEF Pressed
<1>6. c.active
  BY Zenon, <1>2, <1>5
<1>7. Sound(c)
  BY Zenon, <1>3, <1>4, <1>6 DEF Sound
<1> QED BY <1>7 DEF c

\* Letting go of a button of which nothing is pressed leaves it inactive.
LEMMA LetGoIsSound ==
  ASSUME NEW b \in Buttons, b.pressed = {}
  PROVE  Sound(LetGo(b)) /\ Sound(Clicked(LetGo(b)))
<1> DEFINE c == LetGo(b)
           d == Clicked(c)
<1>1. /\ c \in Buttons /\ c.active = FALSE /\ c.pressed = {}
      /\ c.sequence = None /\ c.device = None
  BY DEF LetGo, Buttons, Devices
<1> HIDE DEF c
<1>2. /\ d \in Buttons /\ d.active = c.active /\ d.pressed = c.pressed
      /\ d.sequence = c.sequence /\ d.device = c.device
  <2> DEFINE v == IF c.toggle THEN ~c.checked ELSE c.checked
  <2>1. v \in BOOLEAN
    BY <1>1 DEF Buttons
  <2> DEFINE e == [c EXCEPT !.checked = v]
  <2>2. d = [e EXCEPT !.clicks = @ + 1]
    BY DEF Clicked, SetChecked
  <2> HIDE DEF v, d
  <2>3. /\ e \in Buttons /\ e.active = c.active /\ e.pressed = c.pressed
        /\ e.sequence = c.sequence /\ e.device = c.device
    BY <1>1, <2>1 DEF Buttons
  <2> HIDE DEF e
  <2> QED BY <2>2, <2>3 DEF Buttons
<1> HIDE DEF d
<1>3. Sound(c) /\ Sound(d)
  BY <1>1, <1>2 DEF Sound, Pressed
<1> QED BY <1>3 DEF c, d

\* A release, of the device that pressed or of another, leaves the button
\* active exactly if something is still pressed.
LEMMA ReleaseIsSound ==
  ASSUME NEW b, Sound(b), NEW device, NEW mask, NEW click, NEW sequence,
         sequence # None => b.pressed = {}
  PROVE  Sound(Release(b, device, mask, click, sequence))
<1> DEFINE rest == IF sequence = None THEN [b EXCEPT !.pressed = @ \ mask] ELSE b
<1>0. b \in Buttons
  BY DEF Sound
<1>1. /\ rest \in Buttons /\ rest.active = b.active /\ rest.device = b.device
      /\ rest.sequence = b.sequence /\ rest.pressed \subseteq b.pressed
  BY <1>0 DEF Buttons
<1> DEFINE r == Release(b, device, mask, click, sequence)
<1>2. \/ r = b
      \/ r = rest /\ rest.pressed # {}
      \/ r \in {LetGo(rest), Clicked(LetGo(rest))} /\ rest.pressed = {}
  <2>1. CASE (device # None /\ b.device # device) \/ (sequence # None /\ b.sequence # sequence)
    BY <2>1 DEF Release
  <2>2. CASE ~((device # None /\ b.device # device) \/ (sequence # None /\ b.sequence # sequence))
    <3>1. CASE sequence = None /\ rest.pressed # {}
      BY <2>2, <3>1 DEF Release
    <3>2. CASE ~(sequence = None /\ rest.pressed # {})
      <4>1. r = IF click \/ sequence # None THEN Clicked(LetGo(rest)) ELSE LetGo(rest)
        BY <2>2, <3>2 DEF Release
      <4>2. rest.pressed = {}
        BY <3>2
      <4> QED BY <4>1, <4>2
    <3> QED BY <3>1, <3>2
  <2> QED BY <2>1, <2>2
<1> HIDE DEF rest, r
<1>4. rest.pressed = {} => Sound(LetGo(rest)) /\ Sound(Clicked(LetGo(rest)))
  BY <1>1, LetGoIsSound
<1>5. rest.pressed # {} => Sound(rest)
  BY <1>1 DEF Sound, Pressed
<1> QED BY <1>2, <1>4, <1>5 DEF r

\* Breaking a press off leaves nothing of it.
LEMMA FakeReleasedIsSound ==
  ASSUME NEW b, Sound(b)
  PROVE  Sound(FakeReleased(b))
<1> DEFINE u == [b EXCEPT !.grabbed = {}]
<1>1. b \in Buttons
  BY DEF Sound
<1>2. /\ u \in Buttons /\ u.active = b.active /\ u.pressed = b.pressed
      /\ u.sequence = b.sequence /\ u.device = b.device
  BY <1>1 DEF Buttons
<1>3. FakeReleased(b) = IF Pressed(b) THEN Release(u, b.device, b.pressed, FALSE, None) ELSE u
  BY DEF FakeReleased
<1> HIDE DEF u
<1>4. Sound(u)
  BY <1>2 DEF Sound, Pressed
<1>5. Sound(Release(u, b.device, b.pressed, FALSE, None))
  BY <1>4, ReleaseIsSound
<1> QED BY <1>3, <1>4, <1>5

\* Fields that say nothing of a press may change.
LEMMA OtherFieldsAreFree ==
  ASSUME NEW b, Sound(b), NEW m \in SUBSET MouseButtons, NEW v \in BOOLEAN
  PROVE  /\ Sound([b EXCEPT !.grabbed = m]) /\ Sound([b EXCEPT !.mask = m])
         /\ Sound([b EXCEPT !.toggle = v]) /\ Sound([b EXCEPT !.checked = v])
<1>1. b \in Buttons
  BY DEF Sound
<1>2. ASSUME NEW c \in {[b EXCEPT !.grabbed = m], [b EXCEPT !.mask = m],
                       [b EXCEPT !.toggle = v], [b EXCEPT !.checked = v]}
      PROVE  Sound(c)
  <2>1. /\ c \in Buttons /\ c.active = b.active /\ c.pressed = b.pressed
        /\ c.sequence = b.sequence /\ c.device = b.device
    BY <1>1 DEF Buttons
  <2> QED BY <2>1 DEF Sound, Pressed
<1> QED BY <1>2

\* Every handler keeps the button sound.
LEMMA StepIsSound ==
  ASSUME Sound(button), [ButtonNext]_buttonVars
  PROVE  Sound(button')
<1>0. button \in Buttons
  BY DEF Sound
<1>1. /\ button.grabbed \in SUBSET MouseButtons /\ button.pressed \in SUBSET MouseButtons
      /\ button.device \in Devices
  BY <1>0 DEF Buttons
<1>2. ASSUME NEW n \in MouseButtons, ButtonPress(n)
      PROVE  Sound(button')
  <2> DEFINE b == [button EXCEPT !.grabbed = @ \cup {n}]
  <2>1. Sound(b)
    BY <1>1, OtherFieldsAreFree
  <2> HIDE DEF b
  <2>2. Sound(Press(b, Mouse, {n}, None))
    BY <2>1, PressIsSound DEF Devices
  <2> QED BY <1>2, <2>2 DEF ButtonPress, b
<1>3. ASSUME NEW n \in MouseButtons, NEW inside \in BOOLEAN, ButtonRelease(n, inside)
      PROVE  Sound(button')
  <2> DEFINE b == Release(button, Mouse, {n}, button.grabbed # {} /\ inside, None)
  <2>1. Sound(b)
    BY ReleaseIsSound
  <2>2. button' = button \/ button' = [b EXCEPT !.grabbed = @ \ {n}]
    BY <1>3 DEF ButtonRelease
  <2> HIDE DEF b
  <2>3. b.grabbed \in SUBSET MouseButtons
    BY <2>1 DEF Sound, Buttons
  <2>4. Sound([b EXCEPT !.grabbed = @ \ {n}])
    BY <2>1, <2>3, OtherFieldsAreFree
  <2> QED BY <2>2, <2>4
<1>4. ASSUME NEW kind, NEW t \in Touches, TouchEvent(kind, t)
      PROVE  Sound(button')
  <2>1. CASE button.pressed # {} \/ 1 \notin button.mask
    BY <1>4, <2>1 DEF TouchEvent
  <2>2. CASE button.pressed = {} /\ 1 \in button.mask
    <3>1. button' \in {Press(button, Touchscreen, {}, t), Release(button, Touchscreen, {1}, FALSE, t),
                       FakeReleased(button), button}
      BY <1>4, <2>2 DEF TouchEvent
    <3>2. Sound(Press(button, Touchscreen, {}, t))
      BY PressIsSound, ButtonAssumption DEF Devices
    <3>3. Sound(Release(button, Touchscreen, {1}, FALSE, t))
      BY <2>2, ReleaseIsSound
    <3>4. Sound(FakeReleased(button))
      BY FakeReleasedIsSound
    <3> QED BY <3>1, <3>2, <3>3, <3>4
  <2> QED BY <2>1, <2>2
<1>5. ASSUME KeyPress
      PROVE  Sound(button')
  <2>1. Sound(Press(button, None, {1}, None))
    BY PressIsSound, ButtonAssumption DEF Devices
  <2> QED BY <1>5, <2>1 DEF KeyPress
<1>6. ASSUME KeyRelease \/ KeyFocusOut
      PROVE  Sound(button')
  <2>1. \A click : Sound(Release(button, None, {1}, click, None))
    BY ReleaseIsSound
  <2> QED BY <1>6, <2>1 DEF KeyRelease, KeyFocusOut
<1>7. ASSUME NEW hover \in BOOLEAN, PointerCrosses(hover)
      PROVE  Sound(button')
  <2>1. button.grabbed # {}
    BY <1>7 DEF PointerCrosses
  <2>2. Sound(Press(button, button.device, button.grabbed, None))
    BY <1>1, <2>1, PressIsSound
  <2>3. Sound(Release(button, button.device, button.grabbed, FALSE, None))
    BY ReleaseIsSound
  <2> QED BY <1>7, <2>2, <2>3 DEF PointerCrosses
<1>8. ASSUME FakeRelease
      PROVE  Sound(button')
  BY <1>8, FakeReleasedIsSound DEF FakeRelease
<1>9. ASSUME NEW mask \in SUBSET MouseButtons, SetButtonMask(mask)
      PROVE  Sound(button')
  BY <1>9, OtherFieldsAreFree DEF SetButtonMask
<1>10. ASSUME NEW v \in BOOLEAN, SetToggleMode(v) \/ CheckedSet(v)
       PROVE  Sound(button')
  <2>1. button' \in {[button EXCEPT !.toggle = v], [button EXCEPT !.checked = v]}
    BY <1>10 DEF SetToggleMode, CheckedSet, SetChecked
  <2>2. Sound([button EXCEPT !.toggle = v]) /\ Sound([button EXCEPT !.checked = v])
    BY OtherFieldsAreFree
  <2> QED BY <2>1, <2>2
<1>11. CASE UNCHANGED buttonVars
  BY <1>11 DEF buttonVars
<1> QED BY <1>2, <1>3, <1>4, <1>5, <1>6, <1>7, <1>8, <1>9, <1>10, <1>11 DEF ButtonNext

\* For any mouse buttons, touches and number of clicks, a button looks pressed
\* exactly while it is (st_button_press(), st_button_release()).
THEOREM ButtonLooksPressed == ButtonSpec => []ActiveIsPressed
<1>1. ButtonInit => Sound(button)
  <2> SUFFICES ASSUME ButtonInit PROVE Sound(button)
    OBVIOUS
  <2>1. /\ button \in Buttons /\ button.active = FALSE /\ button.pressed = {}
        /\ button.sequence = None /\ button.device = None
    BY ButtonAssumption DEF ButtonInit, Buttons, Devices
  <2> QED BY <2>1 DEF Sound, Pressed
<1>2. Sound(button) /\ [ButtonNext]_buttonVars => Sound(button)'
  <2> SUFFICES ASSUME Sound(button), [ButtonNext]_buttonVars PROVE Sound(button')
    BY DEF Sound, Pressed, Buttons, Devices
  <2> QED BY StepIsSound
<1>3. Sound(button) => ActiveIsPressed
  BY DEF Sound, ActiveIsPressed
<1> QED BY <1>1, <1>2, <1>3, PTL DEF ButtonSpec

---------------------------------------------------------------------------
(* Painting.  A paint state is valid while it has a scale; the textures of *)
(* an invalid one are never used.                                          *)

Textures == [of : {"none", "border", "background", "outline", "corners"}, size : Nat, scale : Nat]
PaintStates ==
  [node : PaintNodes \cup {NoNodeYet}, size : Nat, scale : Nat \cup {-1},
   shadow : Textures, pre : Textures, corners : Textures]
NodeStates == [once : BOOLEAN, min : Nat, cached : PaintStates, border : Nat, background : Nat]

PaintTyped ==
  /\ theme \in [Painters -> PaintNodes]
  /\ ring \in [Painters -> [0 .. 1 -> PaintStates]]
  /\ current \in [Painters -> 0 .. 1]
  /\ scale \in [Painters -> Scales]
  /\ node \in [PaintNodes -> NodeStates]
  /\ version \in [PaintFiles -> Nat \ {0}]

\* The state s holds what n would be drawn with at the size and scale of s.
Fresh(n, s) ==
  /\ s.node = n /\ s.size \in Sizes /\ s.scale \in Scales
  /\ Steady(n) => s = Rendered(n, s.size, s.scale)

\* While a valid state has a shadow made of the border image, the image is there.
ShadowOfBorder(n) == Style[n].shadow /\ Style[n].border # NoPicture
StateGood(s, of) ==
  s.scale # -1 => /\ s.node \in PaintNodes /\ Fresh(s.node, s)
                  /\ ShadowOfBorder(s.node) => of[s.node].border # 0
StatesGood == \A p \in Painters, i \in 0 .. 1 : StateGood(ring[p][i], node)

\* What a node knows of its shadow and keeps for the widgets that share it.
NodeGood(n, k) ==
  /\ k.once /\ Style[n].shadow => k.min = Style[n].min
  /\ Style[n].border = NoPicture => k.border = 0
  /\ k.cached # NoState => k.once /\ Fresh(n, k.cached) /\ k.cached.pre = NoTexture /\ k.cached.size >= k.min
NodesGood == \A n \in PaintNodes : NodeGood(n, node[n])

PaintInv == PaintTyped /\ StatesGood /\ NodesGood

\* The style of a node.
LEMMA StyleFacts ==
  ASSUME NEW n \in PaintNodes
  PROVE  /\ Style[n].min \in Nat /\ Style[n].shadow \in BOOLEAN /\ Style[n].gradient \in BOOLEAN
         /\ Style[n].border \in PaintFiles \cup {NoPicture}
         /\ Style[n].background \in PaintFiles \cup {NoPicture}
  BY StyleIsTyped

\* The state nobody has rendered is typed, and not taken for valid.
LEMMA NoStateIsInvalid == NoState \in PaintStates /\ NoState.scale = -1 /\ NoTexture \in Textures
  BY DEF NoState, PaintStates, Textures, NoTexture

\* What is rendered anew.
LEMMA RenderedFacts ==
  ASSUME NEW n \in PaintNodes, NEW size \in Sizes, NEW sc \in Scales
  PROVE  LET s == Rendered(n, size, sc)
         IN  /\ s \in PaintStates /\ s.node = n /\ s.size = size /\ s.scale = sc
             /\ s.shadow = Shadow(n, size, sc) /\ s.pre = Prerender(n, size, sc)
             /\ s.corners = CornerTextures(n, size, sc)
             /\ Fresh(n, s) /\ s.scale # -1
<1> DEFINE sh == Shadow(n, size, sc)
           pr == Prerender(n, size, sc)
           co == CornerTextures(n, size, sc)
           s == [node |-> n, size |-> size, scale |-> sc, shadow |-> sh, pre |-> pr, corners |-> co]
<1>1. size \in Nat /\ sc \in Nat /\ Style[n].min \in Nat
  BY PaintAssumption, StyleFacts
<1>2. sh \in Textures
  <2>1. OwnShadow(n, size, sc) \in Textures
    BY <1>1 DEF OwnShadow, Textures
  <2>2. /\ [of |-> "border", size |-> 0, scale |-> sc] \in Textures
        /\ [of |-> "background", size |-> size, scale |-> sc] \in Textures
    BY <1>1 DEF Textures
  <2> QED BY <2>1, <2>2, NoStateIsInvalid DEF Shadow
<1>3. pr \in Textures /\ co \in Textures
  BY <1>1, NoStateIsInvalid DEF Prerender, CornerTextures, Textures
<1>4. s = Rendered(n, size, sc)
  BY DEF Rendered
<1> HIDE DEF sh, pr, co
<1>5. /\ s \in PaintStates /\ s.node = n /\ s.size = size /\ s.scale = sc
      /\ s.shadow = sh /\ s.pre = pr /\ s.corners = co /\ s.scale # -1
  BY <1>1, <1>2, <1>3 DEF PaintStates
<1> HIDE DEF s
<1>6. Fresh(n, s)
  BY <1>4, <1>5 DEF Fresh
<1> QED BY <1>4, <1>5, <1>6 DEF sh, pr, co

\* Two paint states with the same fields are the same.
LEMMA SameState ==
  ASSUME NEW a \in PaintStates, NEW b \in PaintStates,
         a.node = b.node, a.size = b.size, a.scale = b.scale,
         a.shadow = b.shadow, a.pre = b.pre, a.corners = b.corners
  PROVE  a = b
  BY DEF PaintStates

\* What is updated for another size is what would be rendered anew.
LEMMA UpdatedIsFresh ==
  ASSUME PaintInv, NEW n \in PaintNodes, NEW state \in PaintStates, StateGood(state, node),
         NEW size \in Sizes, NEW sc \in Scales,
         state.node = n, ~NeedsNewBoxShadow(n, state, size, sc), state.size # size
  PROVE  LET s == Updated(n, state, size, sc)
         IN  /\ s \in PaintStates /\ Fresh(n, s) /\ s.scale = sc
             /\ ShadowOfBorder(n) => node[n].border # 0
<1> DEFINE drop == state.pre # NoTexture /\ node[n].border = 0 /\ state.shadow # NoTexture
           pr == Prerender(n, size, sc)
           co == CornerTextures(n, size, sc)
           bg == [of |-> "background", size |-> size, scale |-> sc]
           sh == IF ~drop THEN state.shadow ELSE IF pr = NoTexture THEN NoTexture ELSE bg
           s == [node |-> n, size |-> size, scale |-> sc, pre |-> pr, corners |-> co, shadow |-> sh]
           r == Rendered(n, size, sc)
           old == state.size
<1>0. s = Updated(n, state, size, sc)
  BY DEF Updated
<1>1. size \in Nat /\ sc \in Nat /\ Style[n].min \in Nat
  BY PaintAssumption, StyleFacts
<1>2. /\ node[n].once /\ state.scale = sc
      /\ node[n].min = 0 \/ ~(size < node[n].min \/ old < node[n].min)
  BY DEF NeedsNewBoxShadow
<1>3. state.scale # -1
  BY <1>1, <1>2
<1>4. Fresh(n, state) /\ (ShadowOfBorder(n) => node[n].border # 0)
  BY <1>3 DEF StateGood
<1>5. /\ r \in PaintStates /\ r.node = n /\ r.size = size /\ r.scale = sc
      /\ r.shadow = Shadow(n, size, sc) /\ r.pre = pr /\ r.corners = co
  BY RenderedFacts
<1>6. bg \in Textures /\ NoTexture \in Textures /\ state.shadow \in Textures
  BY <1>1, NoStateIsInvalid DEF Textures, PaintStates
<1>7. sh \in Textures /\ pr \in Textures /\ co \in Textures
  <2> HIDE DEF r, bg
  <2>1. pr \in Textures /\ co \in Textures
    BY <1>5 DEF PaintStates
  <2> QED BY <1>6, <2>1
<1>8. /\ s \in PaintStates /\ s.node = n /\ s.size = size /\ s.scale = sc
      /\ s.shadow = sh /\ s.pre = pr /\ s.corners = co
  <2> HIDE DEF sh, pr, co
  <2> QED BY <1>1, <1>7 DEF PaintStates
<1>9. ASSUME Steady(n)
      PROVE  sh = Shadow(n, size, sc)
  <2>1. old \in Sizes /\ old \in Nat /\ state = Rendered(n, old, sc)
    BY <1>2, <1>4, <1>9, PaintAssumption DEF Fresh
  <2>2. state.shadow = Shadow(n, old, sc) /\ state.pre = Prerender(n, old, sc)
    BY <2>1, RenderedFacts
  <2>3. Prerenders(n, old) = Prerenders(n, size)
    BY <1>9, <2>1 DEF Steady
  <2>4. CASE ~Style[n].shadow
    <3>1. state.shadow = NoTexture /\ Shadow(n, size, sc) = NoTexture
      BY <2>2, <2>4 DEF Shadow
    <3> QED BY <3>1
  <2>5. CASE ShadowOfBorder(n)
    <3>1. state.shadow = Shadow(n, size, sc)
      BY <2>2, <2>5 DEF Shadow, ShadowOfBorder
    <3>2. ~drop
      BY <1>4, <2>5
    <3> QED BY <3>1, <3>2
  <2>6. CASE Style[n].shadow /\ Style[n].border = NoPicture /\ Prerenders(n, size)
    <3>1. Shadow(n, size, sc) = bg /\ pr = bg
      BY <2>6 DEF Shadow, Prerender
    <3>2. /\ state.shadow = [of |-> "background", size |-> old, scale |-> sc]
          /\ state.pre = [of |-> "background", size |-> old, scale |-> sc]
      BY <2>2, <2>3, <2>6 DEF Shadow, Prerender
    <3>3. state.shadow # NoTexture /\ state.pre # NoTexture /\ bg # NoTexture
      BY <3>2 DEF NoTexture
    <3>4. node[n].border = 0
      BY <2>6 DEF PaintInv, NodesGood, NodeGood
    <3> QED BY <3>1, <3>3, <3>4
  <2>7. CASE Style[n].shadow /\ Style[n].border = NoPicture /\ ~Prerenders(n, size)
    <3>1. Shadow(n, size, sc) = OwnShadow(n, size, sc) /\ state.shadow = OwnShadow(n, old, sc)
      BY <2>2, <2>3, <2>7 DEF Shadow
    <3>2. state.pre = NoTexture
      BY <2>2, <2>3, <2>7 DEF Prerender
    <3>3. node[n].min = Style[n].min
      BY <1>2, <2>7 DEF PaintInv, NodesGood, NodeGood
    <3>4. (IF size < Style[n].min THEN size ELSE Style[n].min) = (IF old < Style[n].min THEN old ELSE Style[n].min)
      BY <1>1, <1>2, <2>1, <3>3
    <3>5. OwnShadow(n, size, sc) = OwnShadow(n, old, sc)
      BY <3>4 DEF OwnShadow
    <3> QED BY <3>1, <3>2, <3>5
  <2> QED BY <2>4, <2>5, <2>6, <2>7, StyleFacts DEF ShadowOfBorder
<1>10. Fresh(n, s)
  <2> HIDE DEF s, r, sh, pr, co
  <2>1. ASSUME Steady(n) PROVE s = r
    BY <1>5, <1>8, <1>9, <2>1, SameState
  <2> QED BY <1>8, <2>1 DEF Fresh, r
<1> HIDE DEF s
<1> QED BY <1>0, <1>4, <1>8, <1>10

\* The images a node loads.
LEMMA LoadedFacts ==
  ASSUME PaintInv, NEW n \in PaintNodes
  PROVE  /\ LoadedBorder(n) \in Nat /\ LoadedBackground(n) \in Nat
         /\ LoadedBorder(n) = 0 <=> Style[n].border = NoPicture
<1>1. node[n].border \in Nat /\ node[n].background \in Nat
  BY DEF PaintInv, PaintTyped, NodeStates
<1>2. \A f \in PaintFiles : version[f] \in Nat /\ version[f] # 0
  BY DEF PaintInv, PaintTyped
<1> QED BY <1>1, <1>2, StyleFacts DEF LoadedBorder, LoadedBackground

\* What a node keeps of a state rendered for it.
LEMMA RenderKeepsNode ==
  ASSUME PaintInv, NEW n \in PaintNodes, NEW size \in Sizes, NEW sc \in Scales
  PROVE  LET k == NodeAfterRender(n, Rendered(n, size, sc))
         IN  k \in NodeStates /\ NodeGood(n, k) /\ (ShadowOfBorder(n) => k.border # 0)
<1> DEFINE made == Rendered(n, size, sc)
           o == node[n]
           m == MinSize(n)
           b == IF Style[n].shadow THEN LoadedBorder(n) ELSE o.border
           c == IF o.cached = NoState /\ made.pre = NoTexture /\ made.size >= m THEN made ELSE o.cached
           k == [o EXCEPT !.once = TRUE, !.min = m, !.border = b, !.cached = c]
<1>1. /\ o \in NodeStates /\ o.min \in Nat /\ o.border \in Nat /\ o.background \in Nat
      /\ o.cached \in PaintStates
  BY DEF PaintInv, PaintTyped, NodeStates
<1>2. NodeGood(n, o)
  BY DEF PaintInv, NodesGood
<1>3. m \in Nat /\ b \in Nat
  BY <1>1, StyleFacts, LoadedFacts DEF MinSize
<1>4. made \in PaintStates /\ Fresh(n, made)
  BY RenderedFacts
<1> HIDE DEF made
<1>5. c \in PaintStates
  BY <1>1, <1>4
<1>6. NodeAfterRender(n, made) = k
  BY DEF NodeAfterRender
<1> HIDE DEF m, b, c, o
<1>7. /\ k \in NodeStates /\ k.once = TRUE /\ k.min = m /\ k.cached = c /\ k.border = b
  BY <1>1, <1>3, <1>5 DEF NodeStates
<1> HIDE DEF k
<1>8. Style[n].shadow => m = Style[n].min
  BY DEF m, MinSize
<1>9. Style[n].border = NoPicture => b = 0
  BY <1>2, LoadedFacts DEF b, o, NodeGood
<1>10. ShadowOfBorder(n) => b # 0
  BY LoadedFacts DEF b, ShadowOfBorder
<1>11. ASSUME c # NoState
       PROVE  Fresh(n, c) /\ c.pre = NoTexture /\ c.size >= m
  <2>1. CASE o.cached = NoState /\ made.pre = NoTexture /\ made.size >= m
    BY <1>4, <2>1 DEF c
  <2>2. CASE ~(o.cached = NoState /\ made.pre = NoTexture /\ made.size >= m)
    <3>1. c = o.cached /\ c # NoState
      BY <1>11, <2>2 DEF c
    <3>2. o.once /\ Fresh(n, c) /\ c.pre = NoTexture /\ c.size >= o.min
      BY <1>2, <3>1 DEF NodeGood
    <3>3. m = o.min
      BY <1>2, <3>2 DEF NodeGood, m, MinSize, o
    <3> QED BY <3>2, <3>3
  <2> QED BY <2>1, <2>2
<1>12. k.once
  BY <1>7
<1>13. NodeGood(n, k)
  BY <1>7, <1>8, <1>9, <1>11, <1>12 DEF NodeGood
<1> QED BY <1>6, <1>7, <1>10, <1>13 DEF made

\* Painting loads the images.
LEMMA PaintLoadsImages ==
  ASSUME PaintInv, NEW n \in PaintNodes, NEW kept \in NodeStates, NodeGood(n, kept), NEW prepared,
         ShadowOfBorder(n) /\ prepared.pre # NoTexture => kept.border # 0
  PROVE  LET k == NodeAfterPaint(n, kept, prepared)
         IN  k \in NodeStates /\ NodeGood(n, k) /\ (ShadowOfBorder(n) => k.border # 0)
<1>1. CASE prepared.pre # NoTexture
  BY <1>1 DEF NodeAfterPaint
<1>2. CASE prepared.pre = NoTexture
  <2> DEFINE b == LoadedBorder(n)
             g == LoadedBackground(n)
             k == [kept EXCEPT !.border = b, !.background = g]
  <2>1. b \in Nat /\ g \in Nat /\ (b = 0 <=> Style[n].border = NoPicture)
    BY LoadedFacts
  <2>2. NodeAfterPaint(n, kept, prepared) = k
    BY <1>2 DEF NodeAfterPaint
  <2> HIDE DEF b, g
  <2>3. /\ k \in NodeStates /\ k.once = kept.once /\ k.min = kept.min /\ k.cached = kept.cached
        /\ k.border = b
    BY <2>1 DEF NodeStates
  <2> HIDE DEF k
  <2>4. NodeGood(n, k)
    BY <2>1, <2>3 DEF NodeGood
  <2> QED BY <2>1, <2>2, <2>3, <2>4 DEF ShadowOfBorder
<1> QED BY <1>1, <1>2

\* What st_theme_node_paint() prepares, by copying, rendering, updating or
\* taking it as it is, is fresh, and so is what the node keeps.
LEMMA PreparedIsFresh ==
  ASSUME PaintInv, NEW n \in PaintNodes, NEW state \in PaintStates, StateGood(state, node),
         NEW size \in Sizes, NEW sc \in Scales
  PROVE  LET prepared == Prepared(n, state, size, sc)
             kept == IF Renders(n, state, size, sc) THEN NodeAfterRender(n, prepared) ELSE node[n]
             k == NodeAfterPaint(n, kept, prepared)
         IN  /\ prepared \in PaintStates /\ Fresh(n, prepared)
             /\ k \in NodeStates /\ NodeGood(n, k) /\ (ShadowOfBorder(n) => k.border # 0)
<1> DEFINE prepared == Prepared(n, state, size, sc)
           renew == state.node # n \/ NeedsNewBoxShadow(n, state, size, sc)
           kept == IF Renders(n, state, size, sc) THEN NodeAfterRender(n, prepared) ELSE node[n]
<1>1. node[n] \in NodeStates /\ NodeGood(n, node[n]) /\ node[n].cached \in PaintStates
  BY DEF PaintInv, PaintTyped, NodesGood, NodeStates
<1>2. /\ prepared \in PaintStates /\ Fresh(n, prepared)
      /\ kept \in NodeStates /\ NodeGood(n, kept)
      /\ ShadowOfBorder(n) /\ prepared.pre # NoTexture => kept.border # 0
  <2>1. CASE renew /\ CanCopy(n, state, size, sc)
    <3>1. prepared = node[n].cached /\ kept = node[n]
      BY <2>1 DEF Prepared, Renders
    <3>2. Fresh(n, node[n].cached) /\ node[n].cached.pre = NoTexture
      BY <1>1, <2>1 DEF CanCopy, NodeGood
    <3> QED BY <1>1, <3>1, <3>2
  <2>2. CASE renew /\ ~CanCopy(n, state, size, sc)
    <3>1. prepared = Rendered(n, size, sc) /\ kept = NodeAfterRender(n, Rendered(n, size, sc))
      BY <2>2 DEF Prepared, Renders
    <3> QED BY <3>1, RenderedFacts, RenderKeepsNode
  <2>3. CASE ~renew /\ state.size # size
    <3>1. prepared = Updated(n, state, size, sc) /\ kept = node[n]
      BY <2>3 DEF Prepared, Renders
    <3>2. /\ prepared \in PaintStates /\ Fresh(n, prepared)
          /\ ShadowOfBorder(n) => node[n].border # 0
      BY <2>3, <3>1, UpdatedIsFresh
    <3> QED BY <1>1, <3>1, <3>2
  <2>4. CASE ~renew /\ state.size = size
    <3>1. prepared = state /\ kept = node[n]
      BY <2>4 DEF Prepared, Renders
    <3>2. state.scale # -1 /\ state.node = n
      BY <2>4, PaintAssumption DEF NeedsNewBoxShadow
    <3>3. Fresh(n, state) /\ (ShadowOfBorder(n) => node[n].border # 0)
      BY <3>2 DEF StateGood
    <3> QED BY <1>1, <3>1, <3>3
  <2> QED BY <2>1, <2>2, <2>3, <2>4
<1> HIDE DEF prepared, kept
<1>3. LET k == NodeAfterPaint(n, kept, prepared)
      IN  k \in NodeStates /\ NodeGood(n, k) /\ (ShadowOfBorder(n) => k.border # 0)
  BY <1>2, PaintLoadsImages
<1> QED BY <1>2, <1>3 DEF prepared, kept

---------------------------------------------------------------------------
(* The steps.                                                              *)

LEMMA InvalidatedFacts ==
  ASSUME NEW s \in PaintStates
  PROVE  Invalidated(s) \in PaintStates /\ Invalidated(s).scale = -1
  BY DEF Invalidated, PaintStates

\* The states in the rings are typed.
LEMMA RingFacts ==
  ASSUME PaintTyped, NEW p \in Painters, NEW i \in 0 .. 1
  PROVE  ring[p][i] \in PaintStates /\ ring[p] \in [0 .. 1 -> PaintStates]
  BY DEF PaintTyped

\* Painting leaves in ring and node what was rendered, or what was found valid there.
LEMMA PaintStep ==
  ASSUME PaintInv, NEW p \in Painters, NEW size \in Sizes, Paint(p, size)
  PROVE  PaintInv'
<1> DEFINE n == theme[p]
           i == current[p]
           state == ring[p][i]
           prepared == Prepared(n, state, size, scale[p])
           kept == IF Renders(n, state, size, scale[p]) THEN NodeAfterRender(n, prepared) ELSE node[n]
           k == NodeAfterPaint(n, kept, prepared)
<1>0. PaintTyped /\ StatesGood /\ NodesGood
  BY DEF PaintInv
<1>1. n \in PaintNodes /\ i \in 0 .. 1 /\ scale[p] \in Scales /\ state \in PaintStates
  BY <1>0 DEF PaintTyped
<1>2. StateGood(state, node)
  BY <1>0, <1>1 DEF StatesGood
<1>3. /\ prepared \in PaintStates /\ Fresh(n, prepared)
      /\ k \in NodeStates /\ NodeGood(n, k) /\ (ShadowOfBorder(n) => k.border # 0)
  <2> HIDE DEF state, n, i
  <2> QED BY <1>1, <1>2, PreparedIsFresh
<1>4. /\ ring' = [ring EXCEPT ![p][i] = prepared]
      /\ node' = [node EXCEPT ![n] = k]
      /\ UNCHANGED <<theme, current, scale, version>>
  BY DEF Paint
<1> HIDE DEF n, i, state, prepared, kept, k
<1>5. /\ ring' \in [Painters -> [0 .. 1 -> PaintStates]]
      /\ \A q \in Painters, j \in 0 .. 1 :
           ring'[q][j] = IF q = p /\ j = i THEN prepared ELSE ring[q][j]
  BY <1>0, <1>1, <1>3, <1>4 DEF PaintTyped
<1>6. /\ node' \in [PaintNodes -> NodeStates]
      /\ \A m \in PaintNodes : node'[m] = IF m = n THEN k ELSE node[m]
  BY <1>0, <1>1, <1>3, <1>4 DEF PaintTyped
<1>7. PaintTyped'
  BY <1>0, <1>4, <1>5, <1>6 DEF PaintTyped
<1>8. NodesGood'
  <2>1. \A m \in PaintNodes : NodeGood(m, node'[m])
    BY <1>0, <1>3, <1>6 DEF NodesGood
  <2> QED BY <2>1 DEF NodesGood
<1>9. \A q \in Painters, j \in 0 .. 1 : StateGood(ring'[q][j], node')
  <2> SUFFICES ASSUME NEW q \in Painters, NEW j \in 0 .. 1 PROVE StateGood(ring'[q][j], node')
    OBVIOUS
  <2>1. CASE q = p /\ j = i
    <3>1. ring'[q][j] = prepared /\ node'[n] = k /\ prepared.node = n
      BY <1>1, <1>3, <1>5, <1>6, <2>1 DEF Fresh
    <3> QED BY <1>1, <1>3, <3>1 DEF StateGood
  <2>2. CASE ~(q = p /\ j = i)
    <3>1. ring'[q][j] = ring[q][j]
      BY <1>5, <2>2
    <3>2. StateGood(ring[q][j], node)
      BY <1>0 DEF StatesGood
    <3>3. CASE ring[q][j].node = n
      BY <1>1, <1>3, <1>6, <3>1, <3>2, <3>3 DEF StateGood
    <3>4. CASE ring[q][j].node # n
      BY <1>6, <3>1, <3>2, <3>4 DEF StateGood
    <3> QED BY <3>3, <3>4
  <2> QED BY <2>1, <2>2
<1> QED
  BY <1>7, <1>8, <1>9 DEF PaintInv, StatesGood

\* A step that keeps the nodes, and keeps or invalidates paint states.
LEMMA InvalidatingStep ==
  ASSUME PaintInv, PaintTyped', UNCHANGED node,
         \A p \in Painters, i \in 0 .. 1 : ring'[p][i] = ring[p][i] \/ ring'[p][i].scale = -1
  PROVE  PaintInv'
<1>1. \A p \in Painters, i \in 0 .. 1 : StateGood(ring'[p][i], node')
  BY DEF PaintInv, StatesGood, StateGood
<1>2. NodesGood'
  BY DEF PaintInv, NodesGood
<1> QED
  BY <1>1, <1>2 DEF PaintInv, StatesGood

\* A new style comes with a new node, and the states of the old one are invalidated.
LEMMA ChangeStyleStep ==
  ASSUME PaintInv, NEW p \in Painters, NEW n \in PaintNodes, ChangeStyle(p, n)
  PROVE  PaintInv'
<1> DEFINE next == (current[p] + 1) % 2
<1>0. PaintTyped
  BY DEF PaintInv
<1>1. next \in 0 .. 1
  BY <1>0 DEF PaintTyped
<1>2. /\ theme' = [theme EXCEPT ![p] = n] /\ UNCHANGED <<scale, node, version>>
      /\ UNCHANGED current \/ current' = [current EXCEPT ![p] = next]
      /\ UNCHANGED ring \/ ring' = [ring EXCEPT ![p][next] = Invalidated(ring[p][next])]
  BY DEF ChangeStyle
<1> HIDE DEF next
<1>3. Invalidated(ring[p][next]) \in PaintStates /\ Invalidated(ring[p][next]).scale = -1
  BY <1>0, <1>1, RingFacts, InvalidatedFacts
<1> DEFINE z == Invalidated(ring[p][next])
<1>4. UNCHANGED ring \/ ring' = [ring EXCEPT ![p][next] = z]
  BY <1>2
<1> HIDE DEF z
<1>5. /\ ring' \in [Painters -> [0 .. 1 -> PaintStates]]
      /\ \A q \in Painters, j \in 0 .. 1 : ring'[q][j] = ring[q][j] \/ ring'[q][j] = z
  <2>1. z \in PaintStates
    BY <1>3 DEF z
  <2>2. CASE UNCHANGED ring
    BY <1>0, <2>2 DEF PaintTyped
  <2>3. CASE ring' = [ring EXCEPT ![p][next] = z]
    <3>1. /\ ring' \in [Painters -> [0 .. 1 -> PaintStates]]
          /\ \A q \in Painters, j \in 0 .. 1 :
               ring'[q][j] = IF q = p /\ j = next THEN z ELSE ring[q][j]
      BY <1>0, <1>1, <2>1, <2>3 DEF PaintTyped
    <3> QED BY <3>1
  <2> QED BY <1>4, <2>2, <2>3
<1>6. theme' \in [Painters -> PaintNodes] /\ current' \in [Painters -> 0 .. 1]
  BY <1>0, <1>1, <1>2 DEF PaintTyped
<1>7. PaintTyped'
  BY <1>0, <1>2, <1>5, <1>6 DEF PaintTyped
<1>8. \A q \in Painters, j \in 0 .. 1 : ring'[q][j] = ring[q][j] \/ ring'[q][j].scale = -1
  BY <1>3, <1>5 DEF z
<1> QED
  BY <1>2, <1>7, <1>8, InvalidatingStep

\* States rendered at another scale are of another scale.
LEMMA ChangeScaleStep ==
  ASSUME PaintInv, NEW p \in Painters, NEW sc \in Scales, ChangeScale(p, sc)
  PROVE  PaintInv'
<1> DEFINE z == [i \in 0 .. 1 |-> Invalidated(ring[p][i])]
<1>0. PaintTyped
  BY DEF PaintInv
<1>1. /\ scale' = [scale EXCEPT ![p] = sc] /\ UNCHANGED <<theme, current, node, version>>
      /\ ring' = [ring EXCEPT ![p] = z]
  BY DEF ChangeScale
<1>2. z \in [0 .. 1 -> PaintStates] /\ \A i \in 0 .. 1 : z[i].scale = -1
  BY <1>0, RingFacts, InvalidatedFacts
<1> HIDE DEF z
<1>3. /\ ring' \in [Painters -> [0 .. 1 -> PaintStates]]
      /\ \A q \in Painters : ring'[q] = IF q = p THEN z ELSE ring[q]
  BY <1>0, <1>1, <1>2 DEF PaintTyped
<1>4. PaintTyped'
  BY <1>0, <1>1, <1>3 DEF PaintTyped
<1>5. \A q \in Painters, j \in 0 .. 1 : ring'[q][j] = ring[q][j] \/ ring'[q][j].scale = -1
  BY <1>2, <1>3
<1> QED
  BY <1>1, <1>4, <1>5, InvalidatingStep

\* A node that loses an image.
LEMMA DroppedFacts ==
  ASSUME PaintInv, NEW n \in PaintNodes, NEW f
  PROVE  /\ Dropped(n, f) \in NodeStates /\ NodeGood(n, Dropped(n, f))
         /\ Style[n].border # f => Dropped(n, f).border = node[n].border
<1> DEFINE o == node[n]
           b == IF Style[n].border = f THEN 0 ELSE o.border
           g == IF Style[n].background = f THEN 0 ELSE o.background
           k == [o EXCEPT !.border = b, !.background = g]
<1>1. o \in NodeStates /\ NodeGood(n, o) /\ o.border \in Nat /\ o.background \in Nat
  BY DEF PaintInv, PaintTyped, NodesGood, NodeStates
<1>2. Dropped(n, f) = k
  BY DEF Dropped
<1> HIDE DEF o
<1>3. /\ b \in Nat /\ g \in Nat /\ (Style[n].border # f => b = o.border)
      /\ b = 0 \/ b = o.border
  BY <1>1
<1> HIDE DEF b, g
<1>4. /\ k \in NodeStates /\ k.once = o.once /\ k.min = o.min /\ k.cached = o.cached
      /\ k.border = b
  BY <1>1, <1>3 DEF NodeStates
<1> HIDE DEF k
<1>5. NodeGood(n, k)
  BY <1>1, <1>3, <1>4 DEF NodeGood
<1> QED
  BY <1>2, <1>3, <1>4, <1>5 DEF o

\* A changed file makes stale only what the code is known to keep.
LEMMA FileChangedStep ==
  ASSUME PaintInv, NEW f \in PaintFiles, FileChanged(f)
  PROVE  PaintInv'
<1>0. PaintTyped /\ StatesGood /\ NodesGood
  BY DEF PaintInv
<1>1. /\ version' = [version EXCEPT ![f] = version[f] + 1]
      /\ UNCHANGED <<theme, current, scale>>
  BY DEF FileChanged
<1>2. /\ DOMAIN node' = PaintNodes /\ node' = [m \in PaintNodes |-> node'[m]]
      /\ \A m \in PaintNodes : node'[m] \in {Dropped(m, f), node[m]}
  BY DEF FileChanged
<1>3. node' \in [PaintNodes -> NodeStates] /\ \A m \in PaintNodes : NodeGood(m, node'[m])
  <2>1. \A m \in PaintNodes : node'[m] \in NodeStates /\ NodeGood(m, node'[m])
    BY <1>0, <1>2, DroppedFacts DEF PaintTyped, NodesGood
  <2> QED BY <1>2, <2>1
<1>4. \A p \in Painters, i \in 0 .. 1 :
        ring'[p][i] = IF ring[p][i].node # NoNodeYet /\ Uses(ring[p][i].node, f)
                      THEN Invalidated(ring[p][i]) ELSE ring[p][i]
  BY DEF FileChanged
<1>5. ring' \in [Painters -> [0 .. 1 -> PaintStates]]
  <2> DEFINE z(p, i) == IF ring[p][i].node # NoNodeYet /\ Uses(ring[p][i].node, f)
                        THEN Invalidated(ring[p][i]) ELSE ring[p][i]
  <2>1. \A p \in Painters, i \in 0 .. 1 : z(p, i) \in PaintStates
    BY <1>0, RingFacts, InvalidatedFacts
  <2>2. ring' = [p \in Painters |-> [i \in 0 .. 1 |-> z(p, i)]]
    BY DEF FileChanged
  <2> HIDE DEF z
  <2> QED BY <2>1, <2>2
<1>6. version' \in [PaintFiles -> Nat \ {0}]
  BY <1>0, <1>1 DEF PaintTyped
<1>7. PaintTyped'
  BY <1>0, <1>1, <1>3, <1>5, <1>6 DEF PaintTyped
<1>8. \A p \in Painters, i \in 0 .. 1 : StateGood(ring'[p][i], node')
  <2> SUFFICES ASSUME NEW p \in Painters, NEW i \in 0 .. 1, ring'[p][i].scale # -1
               PROVE  StateGood(ring'[p][i], node')
    BY DEF StateGood
  <2> DEFINE s == ring[p][i]
  <2>1. s \in PaintStates /\ Invalidated(s).scale = -1
    BY <1>0, RingFacts, InvalidatedFacts
  <2>2. ring'[p][i] = s /\ ~(s.node # NoNodeYet /\ Uses(s.node, f))
    BY <1>4, <2>1
  <2>3. StateGood(s, node)
    BY <1>0 DEF StatesGood
  <2> HIDE DEF s
  <2>4. s.node \in PaintNodes
    BY <2>2, <2>3 DEF StateGood
  <2>5. Style[s.node].border # f
    BY <2>2, <2>4, PaintAssumption DEF Uses
  <2>6. node'[s.node].border = node[s.node].border
    BY <1>2, <2>4, <2>5, DroppedFacts
  <2> QED BY <2>2, <2>3, <2>6 DEF StateGood
<1> QED
  BY <1>3, <1>7, <1>8 DEF PaintInv, StatesGood, NodesGood

\* A node that goes takes its states out of the rings.
LEMMA NodeFreedStep ==
  ASSUME PaintInv, NEW n \in PaintNodes, NodeFreed(n)
  PROVE  PaintInv'
<1>0. PaintTyped /\ StatesGood /\ NodesGood
  BY DEF PaintInv
<1>1. UNCHANGED <<theme, current, scale, version>>
  BY DEF NodeFreed
<1>2. FreshNode \in NodeStates /\ NodeGood(n, FreshNode)
  <2>1. /\ FreshNode \in NodeStates /\ FreshNode.border = 0 /\ FreshNode.cached = NoState
        /\ FreshNode.once = FALSE
    BY NoStateIsInvalid DEF FreshNode, NodeStates
  <2> QED BY <2>1 DEF NodeGood
<1>3. /\ node' \in [PaintNodes -> NodeStates]
      /\ \A m \in PaintNodes : node'[m] = IF m = n THEN FreshNode ELSE node[m]
  BY <1>0, <1>2 DEF NodeFreed, PaintTyped
<1>4. \A m \in PaintNodes : NodeGood(m, node'[m])
  BY <1>0, <1>2, <1>3 DEF NodesGood
<1>5. /\ ring' \in [Painters -> [0 .. 1 -> PaintStates]]
      /\ \A p \in Painters, i \in 0 .. 1 :
           ring'[p][i] = IF ring[p][i].node = n THEN NoState ELSE ring[p][i]
  <2>1. \A p \in Painters, i \in 0 .. 1 : ring[p][i] \in PaintStates /\ NoState \in PaintStates
    BY <1>0, RingFacts, NoStateIsInvalid
  <2> QED BY <2>1 DEF NodeFreed
<1>6. PaintTyped'
  BY <1>0, <1>1, <1>3, <1>5 DEF PaintTyped
<1>7. \A p \in Painters, i \in 0 .. 1 : StateGood(ring'[p][i], node')
  <2> SUFFICES ASSUME NEW p \in Painters, NEW i \in 0 .. 1, ring'[p][i].scale # -1
               PROVE  StateGood(ring'[p][i], node')
    BY DEF StateGood
  <2> DEFINE s == ring[p][i]
  <2>1. s.node # n /\ ring'[p][i] = s
    BY <1>5, NoStateIsInvalid
  <2>2. StateGood(s, node)
    BY <1>0 DEF StatesGood
  <2> HIDE DEF s
  <2> QED BY <1>3, <2>1, <2>2 DEF StateGood
<1> QED
  BY <1>4, <1>6, <1>7 DEF PaintInv, StatesGood, NodesGood

---------------------------------------------------------------------------
\* A settled state is fresh.
LEMMA SettledIsFresh ==
  ASSUME PaintInv
  PROVE  SettledPaintIsFresh
<1> SUFFICES ASSUME NEW p \in Painters, NEW size \in Sizes, Settled(p, size), Steady(theme[p])
             PROVE  ring[p][current[p]] = Rendered(theme[p], size, scale[p])
  BY DEF SettledPaintIsFresh
<1> DEFINE n == theme[p]
           i == current[p]
           s == ring[p][i]
           sc == scale[p]
           renew == s.node # n \/ NeedsNewBoxShadow(n, s, size, sc)
<1>0. PaintTyped /\ StatesGood /\ NodesGood
  BY DEF PaintInv
<1>1. n \in PaintNodes /\ i \in 0 .. 1 /\ sc \in Scales /\ s \in PaintStates
  BY <1>0 DEF PaintTyped
<1>2. StateGood(s, node) /\ NodeGood(n, node[n])
  BY <1>0, <1>1 DEF StatesGood, NodesGood
<1>3. s.node = n /\ Prepared(n, s, size, sc) = s /\ Steady(n)
  BY DEF Settled
<1>4. node[n].min \in Nat /\ size \in Nat /\ sc \in Nat /\ s.size \in Nat
  BY <1>0, <1>1, PaintAssumption DEF PaintTyped, NodeStates, PaintStates
<1> HIDE DEF n, i, s, sc
<1>5. CASE renew /\ CanCopy(n, s, size, sc)
  <2>1. s = node[n].cached /\ s # NoState
    BY <1>3, <1>5 DEF Prepared, CanCopy
  <2>2. s.size >= node[n].min
    BY <1>2, <2>1 DEF NodeGood
  <2> QED BY <1>3, <1>4, <1>5, <2>2 DEF NeedsNewBoxShadow, CanCopy
<1>6. CASE renew /\ ~CanCopy(n, s, size, sc)
  <2>1. s = Rendered(n, size, sc)
    BY <1>3, <1>6 DEF Prepared
  <2> QED BY <2>1 DEF n, i, s, sc
<1>7. CASE ~renew /\ s.size # size
  <2>1. s = Updated(n, s, size, sc)
    BY <1>3, <1>7 DEF Prepared
  <2>2. Updated(n, s, size, sc).size = size
    BY DEF Updated
  <2> QED BY <1>7, <2>1, <2>2
<1>8. CASE ~renew /\ s.size = size
  <2>1. s.scale = sc /\ s.scale # -1
    BY <1>4, <1>8 DEF NeedsNewBoxShadow
  <2>2. s = Rendered(n, size, sc)
    BY <1>2, <1>3, <1>8, <2>1 DEF StateGood, Fresh
  <2> QED BY <2>2 DEF n, i, s, sc
<1> QED
  BY <1>5, <1>6, <1>7, <1>8

\* However widgets share theme nodes and whatever changes in between, the
\* textures st_theme_node_paint() takes as they are, are the ones it would make
\* anew: for any styles, sizes, scales, files and number of steps.
THEOREM PaintsAreFresh == PaintSpec => []SettledPaintIsFresh
<1>1. PaintInit => PaintInv
  <2> SUFFICES ASSUME PaintInit PROVE PaintInv
    OBVIOUS
  <2>1. /\ FreshNode \in NodeStates /\ FreshNode.border = 0 /\ FreshNode.cached = NoState
        /\ FreshNode.once = FALSE
    BY NoStateIsInvalid DEF FreshNode, NodeStates
  <2>2. PaintTyped
    BY <2>1, NoStateIsInvalid DEF PaintInit, PaintTyped
  <2>3. \A p \in Painters, i \in 0 .. 1 : ring[p][i] = NoState
    BY DEF PaintInit
  <2>4. StatesGood
    BY <2>3, NoStateIsInvalid DEF StatesGood, StateGood
  <2>5. \A n \in PaintNodes : node[n] = FreshNode
    BY DEF PaintInit
  <2>6. NodesGood
    BY <2>1, <2>5 DEF NodesGood, NodeGood
  <2> QED BY <2>2, <2>4, <2>6 DEF PaintInv
<1>2. PaintInv /\ [PaintNext]_paintVars => PaintInv'
  <2> SUFFICES ASSUME PaintInv, [PaintNext]_paintVars PROVE PaintInv'
    OBVIOUS
  <2>1. CASE PaintNext
    BY <2>1, PaintStep, ChangeStyleStep, ChangeScaleStep, FileChangedStep, NodeFreedStep DEF PaintNext
  <2>2. CASE UNCHANGED paintVars
    <3>1. UNCHANGED <<theme, ring, current, scale, node, version>>
      BY <2>2 DEF paintVars
    <3>2. PaintTyped'
      BY <3>1 DEF PaintInv, PaintTyped
    <3> QED BY <3>1, <3>2, InvalidatingStep
  <2> QED BY <2>1, <2>2
<1> QED
  BY <1>1, <1>2, SettledIsFresh, PTL DEF PaintSpec

-----------------------------------------------------------------------------
(* Scrolling: the invariant.                                               *)

\* An adjustment between any two changes of it.
Adjustments == [value : Int, lower : {0}, upper : Nat, page : Nat, step : Int, jump : Int]

\* An adjustment whose page is within its bounds.
InBounds(a) == a \in Adjustments /\ 0 <= a.value /\ a.value + a.page <= a.upper

Bars == [valid : BOOLEAN, length : Int, start : Int, size : Int]
Child == [wide : Int, flat : Int, tall : Int]
Shown == [h : BOOLEAN, v : BOOLEAN]

\* The bar of axis x shows the adjustment a.
Shows(x, bar, a) == bar.valid => bar = AllocateChildren(x, a, bar.length)

ScrollTypes ==
  /\ view \in [size : ViewSizes, policy : PolicyPairs \cup {<<"never", "automatic">>},
               overlay : BOOLEAN, content : Contents \cup {EmptyChild},
               shown : Shown, queued : BOOLEAN]
  /\ moving \in [Axes -> [on : BOOLEAN, from : Int, to : Int]]
  /\ drag \in [axis : Axes \cup {"none"}, origin : Int]
  /\ drag.axis = "none" => drag = NotDragged
  /\ paging \in [axis : Axes \cup {"none"}, at : Int, no : Int,
                 dir : {"none", "up", "down"}, timer : BOOLEAN]
  /\ paging.timer => paging.axis \in Axes

BarsInv ==
  /\ DOMAIN adjust = Axes /\ \A x \in Axes : InBounds(adjust[x])
  /\ DOMAIN bars = Axes /\ \A x \in Axes : bars[x] \in Bars /\ Shows(x, bars[x], adjust[x])

ScrollInv == ScrollTypes /\ BarsInv /\ HiddenBarsAreNotNeeded

-----------------------------------------------------------------------------
(* Scrolling: the arithmetic of adjustments and bars.                      *)

\* A quotient of integers is one.
LEMMA QuotientInt ==
  ASSUME NEW a \in Int, NEW b \in Int, b > 0
  PROVE  a \div b \in Int
  OBVIOUS

\* A product of integers is one.
LEMMA ProductInt ==
  ASSUME NEW a \in Int, NEW b \in Int
  PROVE  a * b \in Int
  OBVIOUS

\* st_adjustment_set_value() keeps the page in bounds and the bounds as they are.
LEMMA SetValueInBounds ==
  ASSUME NEW a \in Adjustments, a.page <= a.upper, NEW v \in Int
  PROVE  LET r == SetValue(a, v)
         IN  InBounds(r) /\ r.upper = a.upper /\ r.page = a.page
<1> DEFINE c == Clamped(v, a.lower, Topmost(a))
<1>1. a.lower = 0 /\ a.upper \in Nat /\ a.page \in Nat
  BY DEF Adjustments
<1>2. c \in Int /\ 0 <= c /\ c + a.page <= a.upper
  BY <1>1 DEF Clamped, Topmost, Greater
<1>3. SetValue(a, v) = [a EXCEPT !.value = c]
  BY DEF SetValue
<1> HIDE DEF c
<1> QED BY <1>1, <1>2, <1>3 DEF InBounds, Adjustments

\* The unit of a scroll step exists.
LEMMA ScrollUnitInt ==
  ASSUME NEW a \in Adjustments
  PROVE  ScrollUnit(a) \in Int
<1> DEFINE p == a.page
           S == {m \in Nat : p * p < m * m * m}
           P(n) == n * n * n <= p * p /\ p * p < (n + 1) * (n + 1) * (n + 1)
<1>1. p \in Nat
  BY DEF Adjustments
<1> HIDE DEF p
<1>2. p + 1 \in S
  <2> DEFINE s == p * p
             c == s * p
             m == p + 1
  <2>1. s \in Nat /\ m \in Nat
    BY <1>1
  <2>2. c \in Nat
    <3> HIDE DEF s
    <3> QED BY <1>1, <2>1
  <2>3. m * m * m = c + 3 * s + 3 * p + 1
    BY <1>1
  <2> HIDE DEF s, c, m
  <2>4. s < c + 3 * s + 3 * p + 1
    BY <1>1, <2>1, <2>2
  <2>5. p * p < m * m * m
    BY <2>3, <2>4 DEF s
  <2> QED BY <2>1, <2>5 DEF m
<1>3. \E m \in S : \A k \in S : m <= k
  <2>1. IsWellFoundedOn(OpToRel(<, Nat), Nat)
    BY NatLessThanWellFounded
  <2>2. PICK m \in S : \A k \in S : ~(<<k, m>> \in OpToRel(<, Nat))
    <3>1. S \subseteq Nat /\ S # {}
      BY <1>2
    <3> QED BY <2>1, <3>1, WFMin, Zenon
  <2>s. S \subseteq Nat
    OBVIOUS
  <2>3. \A k \in S : m <= k
    <3> SUFFICES ASSUME NEW k \in S, ~(m <= k) PROVE FALSE
      OBVIOUS
    <3>1. m \in Nat /\ k \in Nat
      BY <2>s, <2>2
    <3>2. <<k, m>> \in OpToRel(<, Nat)
      BY <3>1 DEF OpToRel
    <3> QED BY <2>2, <3>2
  <2> QED BY <2>3
<1>4. PICK m \in S : \A k \in S : m <= k
  BY <1>3
<1>5. m \in Nat /\ m # 0 /\ m <= p + 1
  BY <1>1, <1>2, <1>4
<1>6. m - 1 \in 0 .. p /\ m - 1 \notin S
  BY <1>1, <1>4, <1>5
<1>7. P(m - 1)
  <2> DEFINE n == m - 1
  <2>1. n \in Nat /\ n + 1 = m
    BY <1>5
  <2>2. ~(p * p < n * n * n)
    BY <1>6, <2>1
  <2>3. p * p < m * m * m
    BY <1>4
  <2> HIDE DEF n
  <2>4. p * p \in Int /\ n * n * n \in Int
    BY <1>1, <2>1
  <2>5. n * n * n <= p * p
    BY <2>2, <2>4
  <2>6. p * p < (n + 1) * (n + 1) * (n + 1)
    BY <2>1, <2>3
  <2> QED BY <2>5, <2>6 DEF n
<1>8. \E n \in 0 .. p : P(n)
  BY <1>6, <1>7
<1>9. ScrollUnit(a) \in 0 .. p
  BY <1>8 DEF ScrollUnit, p
<1> QED BY <1>1, <1>9

\* st_adjustment_clamp_page() changes the value only.
LEMMA ClampPageTyped ==
  ASSUME NEW a \in Adjustments
  PROVE  LET r == ClampPage(a)
         IN  r \in Adjustments /\ r.upper = a.upper /\ r.page = a.page
<1> DEFINE top == Clamped(a.upper, a.lower + a.page, a.upper)
           bottom == Clamped(a.lower, a.lower, a.upper - a.page)
           q == Pulled(a, top)
<1>1. top \in Int /\ bottom \in Int
  BY DEF Adjustments, Clamped
<1>2. ClampPage(a) = Raised(q, bottom)
  BY DEF ClampPage
<1> HIDE DEF top, bottom
<1>3. q \in Adjustments /\ q.upper = a.upper /\ q.page = a.page
  BY <1>1 DEF Pulled, Adjustments
<1> HIDE DEF q
<1>4. LET r == Raised(q, bottom)
      IN  r \in Adjustments /\ r.upper = q.upper /\ r.page = q.page
  BY <1>1, <1>3 DEF Raised, Adjustments
<1> QED BY <1>2, <1>3, <1>4

\* What st_viewport_allocate() makes of an adjustment.
LEMMA ViewportInBounds ==
  ASSUME NEW a, InBounds(a), NEW need \in Nat, NEW avail \in Nat
  PROVE  LET r == ViewportValues(a, need, avail)
         IN  InBounds(r) /\ r.upper = Greater(need, avail) /\ r.page = avail
<1> DEFINE U == Greater(need, avail)
           b == SetUpper(SetLower(a, 0), U)
           sixth == avail \div 6
           c == [b EXCEPT !.step = sixth, !.jump = avail - sixth]
           d == SetPageSize(c, avail)
<1>1. U \in Nat /\ avail <= U
  BY DEF Greater
<1>2. ViewportValues(a, need, avail) = SetValue(d, a.value)
  BY DEF ViewportValues, SetValues
<1> HIDE DEF U
<1>3. SetLower(a, 0) = a /\ a \in Adjustments /\ a.value \in Int
  BY DEF SetLower, InBounds, Adjustments
<1>4. b \in Adjustments /\ b.upper = U
  <2>1. [a EXCEPT !.upper = U] \in Adjustments /\ [a EXCEPT !.upper = U].upper = U
    BY <1>1, <1>3 DEF Adjustments
  <2> QED BY <1>3, <2>1, ClampPageTyped DEF SetUpper
<1> HIDE DEF b
<1>5. sixth \in Int
  BY QuotientInt
<1> HIDE DEF sixth
<1>6. c \in Adjustments /\ c.upper = U
  <2> DEFINE b1 == [b EXCEPT !.step = sixth]
             jump == avail - sixth
  <2>1. b1 \in Adjustments /\ b1.upper = U
    BY <1>4, <1>5 DEF Adjustments
  <2>2. jump \in Int /\ c = [b1 EXCEPT !.jump = jump]
    BY <1>5
  <2> HIDE DEF b1, c, jump
  <2> QED BY <2>1, <2>2 DEF Adjustments
<1> HIDE DEF c
<1>7. d \in Adjustments /\ d.upper = U /\ d.page = avail
  <2>1. /\ [c EXCEPT !.page = avail] \in Adjustments
        /\ [c EXCEPT !.page = avail].upper = U /\ [c EXCEPT !.page = avail].page = avail
    BY <1>6 DEF Adjustments
  <2> QED BY <1>6, <2>1, ClampPageTyped DEF SetPageSize
<1> HIDE DEF d
<1> QED BY <1>1, <1>2, <1>3, <1>7, SetValueInBounds DEF U

\* A bar that is laid out has whole positions and shows its adjustment.
LEMMA LaidOutShows ==
  ASSUME NEW x \in Axes, NEW a, InBounds(a), NEW length \in Int
  PROVE  LET bar == AllocateChildren(x, a, length)
         IN  bar \in Bars /\ bar.length = length /\ Shows(x, bar, a)
<1> DEFINE size == HandleSize(a, length)
           room == length - size
<1>1. /\ a.lower = 0 /\ a.upper \in Nat /\ a.page \in Nat /\ a.value \in Int
  BY DEF InBounds, Adjustments
<1>2. size \in Int
  <2> DEFINE q == IF a.upper = a.lower \/ a.page >= a.upper - a.lower THEN length
                  ELSE (a.page * length) \div (a.upper - a.lower)
  <2>1. a.page * length \in Int
    BY <1>1, ProductInt
  <2>2. q \in Int
    BY <1>1, <2>1, QuotientInt
  <2> HIDE DEF q
  <2>3. size = Clamped(q, MinHandle, MaxHandle)
    BY DEF HandleSize, q
  <2> QED BY <2>2, <2>3, ScrollAssumption DEF Clamped, MaxHandle
<1> HIDE DEF size
<1>3. Lead(a, room) \in Int
  <2>1. (a.value - a.lower) * room \in Int
    BY <1>1, <1>2, ProductInt
  <2> QED BY <1>1, <2>1, QuotientInt DEF Lead
<1>4. HandleStart(x, a, length, size) \in Int
  BY <1>2, <1>3 DEF HandleStart
<1> QED BY <1>2, <1>4 DEF AllocateChildren, Bars, Shows, size

\* The bars follow a change of their adjustments.
LEMMA NotifiedShows ==
  ASSUME DOMAIN adjust = Axes,
         NEW laid, \A x \in Axes : laid[x] \in Bars /\ Shows(x, laid[x], adjust[x]),
         NEW new, \A x \in Axes : InBounds(new[x])
  PROVE  LET r == Notified(laid, new)
         IN  DOMAIN r = Axes /\ \A x \in Axes : r[x] \in Bars /\ Shows(x, r[x], new[x])
<1> SUFFICES ASSUME NEW x \in Axes
             PROVE  LET b == UpdatePositions(x, laid[x], adjust[x], new[x])
                    IN  b \in Bars /\ Shows(x, b, new[x])
  BY DEF Notified
<1>1. laid[x].length \in Int
  BY DEF Bars
<1>2. LET b == AllocateChildren(x, new[x], laid[x].length)
      IN  b \in Bars /\ Shows(x, b, new[x])
  BY <1>1, LaidOutShows
<1>3. CASE laid[x].valid /\ new[x] # adjust[x]
  BY <1>2, <1>3 DEF UpdatePositions
<1>4. CASE ~laid[x].valid \/ new[x] = adjust[x]
  BY <1>4 DEF UpdatePositions, Shows
<1> QED BY <1>3, <1>4

-----------------------------------------------------------------------------
(* Scrolling: what the layout decides.                                     *)

\* The sizes of the view, of its bars and of its content.
LEMMA LayoutNumbers ==
  ASSUME ScrollTypes
  PROVE  /\ view.size[1] \in Nat /\ view.size[2] \in Nat /\ BarSize \in Nat
         /\ view.size[1] >= BarSize /\ view.size[2] >= BarSize
         /\ HasContent => /\ view.content.wide \in Nat /\ view.content.flat \in Nat
                          /\ view.content.tall \in Nat
<1>1. view.size \in ViewSizes /\ view.content \in Contents \cup {EmptyChild}
  BY DEF ScrollTypes
<1>2. view.size \in {n \in Nat : n >= BarSize} \X {n \in Nat : n >= BarSize}
  BY <1>1, ScrollAssumption
<1>3. HasContent => view.content \in [wide : Nat, flat : Nat, tall : Nat]
  BY <1>1, ScrollAssumption DEF HasContent
<1> QED BY <1>2, <1>3, ScrollAssumption

\* A bar is decided to be visible or not, and only if its policy allows it.
LEMMA VisibleTyped ==
  ASSUME ScrollTypes
  PROVE  /\ BarsVisible \in Shown
         /\ BarsVisible.h => IsShown(view.policy[1])
         /\ BarsVisible.v => IsShown(view.policy[2])
<1>0. /\ \A n, o : NeedsTall(n, o) \in BOOLEAN /\ NeedsWide(n, o) \in BOOLEAN
      /\ \A o : AutomaticAcross(o) \in BOOLEAN
  BY DEF NeedsTall, NeedsWide, AutomaticAcross
<1>a. IsShown("automatic") /\ IsShown("always")
  BY DEF IsShown
<1>1. CASE ~HasContent
  BY <1>1 DEF BarsVisible, IsShown, Shown
<1>2. CASE HasContent /\ view.policy[2] = "automatic" /\ view.policy[1] = "automatic"
  <2>1. BarsVisible = BothAutomatic(view.size[1], view.size[2])
    BY <1>2 DEF BarsVisible
  <2> QED BY <1>0, <1>a, <1>2, <2>1 DEF BothAutomatic, Shown
<1>3. CASE HasContent /\ view.policy[2] = "automatic" /\ view.policy[1] # "automatic"
  <2>1. BarsVisible = [h |-> view.policy[1] = "always",
                       v |-> NeedsTall(view.size[2], view.policy[1] = "always")]
    BY <1>3 DEF BarsVisible
  <2> QED BY <1>0, <1>a, <1>3, <2>1 DEF Shown
<1>4. CASE HasContent /\ view.policy[2] # "automatic"
  <2>1. BarsVisible = [h |-> IF view.policy[1] = "automatic" THEN AutomaticAcross(view.policy[2] = "always")
                             ELSE view.policy[1] = "always",
                       v |-> view.policy[2] = "always"]
    BY <1>4 DEF BarsVisible
  <2> QED BY <1>0, <1>a, <1>4, <2>1 DEF Shown
<1> QED BY <1>1, <1>2, <1>3, <1>4

\* The height the content needs is the same at the width of the view and at the
\* width it is given, which is no less than it needs.
LEMMA SameHeight ==
  ASSUME ScrollTypes, HasContent
  PROVE  /\ MinHeight(Greater(view.size[1], MinWidth)) = MinHeight(view.size[1])
         /\ \A w \in Int : MinHeight(w) \in Nat
  BY LayoutNumbers DEF MinHeight, MinWidth, Greater

\* Where a bar is hidden the content fits, if the bar is automatic or if there is
\* never one and the view got the size it asked for.
LEMMA HiddenFits ==
  ASSUME ScrollTypes, HasContent
  PROVE  LET shown == BarsVisible
         IN  /\ /\ ~shown.h
                /\ \/ view.policy[1] = "automatic" /\ view.policy[2] = "automatic"
                   \/ view.policy[1] = "never" /\ view.size[1] >= PreferredWidth
                => MinWidth <= ChildWidth(shown)
             /\ /\ ~shown.v
                /\ \/ view.policy[2] = "automatic"
                   \/ view.policy[2] = "never" /\ view.size[2] >= PreferredHeight(view.size[1])
                => MinHeight(Greater(ChildWidth(shown), MinWidth)) <= ChildHeight(shown)
<1> DEFINE shown == BarsVisible
           wide == MinWidth
           high == MinHeight(view.size[1])
<1>1. /\ view.size[1] \in Nat /\ view.size[2] \in Nat /\ BarSize \in Nat
      /\ wide \in Nat /\ high \in Nat
  BY LayoutNumbers, SameHeight DEF MinWidth
<1>2. /\ shown.h \in BOOLEAN /\ shown.v \in BOOLEAN
      /\ shown.h => IsShown(view.policy[1])
      /\ shown.v => IsShown(view.policy[2])
  BY VisibleTyped DEF Shown
<1>3. ASSUME ~shown.v
      PROVE  /\ ChildWidth(shown) = view.size[1]
             /\ MinHeight(Greater(ChildWidth(shown), MinWidth)) = high
  <2>1. ChildWidth(shown) = view.size[1]
    BY <1>1, <1>3 DEF ChildWidth, Thick
  <2> QED BY <2>1, SameHeight
<1>4. ChildHeight(shown) = view.size[2] - Thick(shown.h /\ ~view.overlay)
  BY DEF ChildHeight
<1>5. ChildWidth(shown) = view.size[1] - Thick(shown.v /\ ~view.overlay)
  BY DEF ChildWidth
<1>6. CASE view.policy[1] = "automatic" /\ view.policy[2] = "automatic"
  <2> DEFINE one == NeedsTall(view.size[2], FALSE)
             two == NeedsWide(view.size[1], one)
             tall == NeedsTall(view.size[2], two)
             both == tall \/ one
             last == NeedsWide(view.size[1], both)
  <2>1. shown.v = tall /\ shown.h = last
    BY <1>6 DEF BarsVisible, BothAutomatic
  <2>2. last <=> wide > view.size[1] - Thick(both)
    BY DEF NeedsWide
  <2>3. tall <=> high > view.size[2] - Thick(two)
    BY DEF NeedsTall
  <2>t. ~tall => (two <=> last)
    BY DEF NeedsWide, Thick
  <2> HIDE DEF last, tall, two, one
  <2>4. ~shown.h => wide <= ChildWidth(shown)
    BY <1>1, <1>5, <2>1, <2>2 DEF Thick
  <2>5. ~shown.v => high <= ChildHeight(shown)
    BY <1>1, <1>4, <2>1, <2>3, <2>t DEF Thick
  <2> QED BY <1>3, <1>6, <2>4, <2>5
<1>7. CASE view.policy[2] = "automatic" /\ view.policy[1] # "automatic"
  <2>1. shown = [h |-> view.policy[1] = "always", v |-> NeedsTall(view.size[2], view.policy[1] = "always")]
    BY <1>7 DEF BarsVisible
  <2>2. shown.v <=> high > view.size[2] - Thick(shown.h)
    BY <2>1 DEF NeedsTall
  <2>3. ~shown.v => high <= ChildHeight(shown)
    BY <1>1, <1>4, <2>2 DEF Thick
  <2>4. view.policy[1] = "never" /\ view.size[1] >= PreferredWidth => wide <= ChildWidth(shown)
    BY <1>1, <1>2, <1>5 DEF PreferredWidth, RoomForBar, Thick
  <2> QED BY <1>3, <1>7, <2>3, <2>4
<1>8. CASE view.policy[2] # "automatic"
  <2>1. view.policy[1] = "never" /\ view.size[1] >= PreferredWidth => wide <= ChildWidth(shown)
    BY <1>1, <1>2, <1>5 DEF PreferredWidth, RoomForBar, Thick
  <2>2. view.policy[2] = "never" /\ view.size[2] >= PreferredHeight(view.size[1])
          => high <= ChildHeight(shown)
    <3> SUFFICES ASSUME view.policy[2] = "never", view.size[2] >= PreferredHeight(view.size[1])
                 PROVE  high <= ChildHeight(shown)
      OBVIOUS
    <3>1. PreferredHeight(view.size[1]) = high + Thick(IsShown(view.policy[1]) /\ ~view.overlay)
      BY <1>1 DEF PreferredHeight, RoomForBar, IsShown, Thick
    <3> QED BY <1>1, <1>2, <1>4, <3>1 DEF Thick
  <2> QED BY <1>3, <1>8, <2>1, <2>2
<1> QED BY <1>6, <1>7, <1>8

-----------------------------------------------------------------------------
(* Scrolling: the steps.                                                   *)

\* The invariant holds in a view that was not laid out yet.
LEMMA ScrollInitInv == ScrollInit => ScrollInv
<1> SUFFICES ASSUME ScrollInit PROVE ScrollInv
  OBVIOUS
<1>1. PICK size \in ViewSizes :
        view = [size |-> size, policy |-> <<"never", "automatic">>, overlay |-> FALSE,
                content |-> EmptyChild, shown |-> [h |-> FALSE, v |-> FALSE], queued |-> TRUE]
  BY DEF ScrollInit
<1>2. ScrollTypes
  <2>1. view \in [size : ViewSizes, policy : PolicyPairs \cup {<<"never", "automatic">>},
                  overlay : BOOLEAN, content : Contents \cup {EmptyChild},
                  shown : Shown, queued : BOOLEAN]
    BY <1>1 DEF Shown
  <2>2. moving \in [Axes -> [on : BOOLEAN, from : Int, to : Int]]
    BY DEF ScrollInit
  <2>3. drag = NotDragged /\ paging = NotPaging
    BY DEF ScrollInit
  <2> QED BY <2>1, <2>2, <2>3 DEF ScrollTypes, NotDragged, NotPaging
<1>3. BarsInv
  BY DEF ScrollInit, BarsInv, InBounds, Adjustments, FreshAdjustment, Bars, Shows
<1>4. HiddenBarsAreNotNeeded
  BY <1>1 DEF HiddenBarsAreNotNeeded
<1> QED BY <1>2, <1>3, <1>4 DEF ScrollInv

\* Steps that leave the adjustments and bars alone.
LEMMA BarsKept ==
  ASSUME BarsInv, UNCHANGED <<adjust, bars>>
  PROVE  BarsInv'
  BY DEF BarsInv

\* Steps that keep the layout: new values between the same bounds.
LEMMA ValuesKeepInv ==
  ASSUME ScrollInv, NEW new, DOMAIN new = Axes,
         \A x \in Axes : InBounds(new[x]) /\ new[x].upper = adjust[x].upper /\ new[x].page = adjust[x].page,
         Changes(new), UNCHANGED view
  PROVE  BarsInv' /\ HiddenBarsAreNotNeeded'
<1>1. adjust' = new /\ bars' = Notified(bars, new)
  BY DEF Changes
<1>2. BarsInv'
  <2>1. DOMAIN adjust = Axes /\ \A x \in Axes : bars[x] \in Bars /\ Shows(x, bars[x], adjust[x])
    BY DEF ScrollInv, BarsInv
  <2>2. DOMAIN bars' = Axes /\ \A x \in Axes : bars'[x] \in Bars /\ Shows(x, bars'[x], new[x])
    BY <1>1, <2>1, NotifiedShows
  <2> QED BY <1>1, <2>2 DEF BarsInv
<1>3. HiddenBarsAreNotNeeded'
  <2>1. \A x \in Axes : adjust'[x].upper = adjust[x].upper /\ adjust'[x].page = adjust[x].page
    BY <1>1
  <2>2. /\ HasContent' = HasContent
        /\ \A x \in Axes : GotItsSize(x)' = GotItsSize(x)
    BY DEF HasContent, GotItsSize, PreferredWidth, PreferredHeight, MinWidth, MinHeight, RoomForBar
  <2> QED BY <2>1, <2>2 DEF ScrollInv, HiddenBarsAreNotNeeded
<1> QED BY <1>2, <1>3

\* One adjustment gets a new value.
LEMMA SetsKeepsInv ==
  ASSUME ScrollInv, NEW x \in Axes, NEW v \in Int, Sets(x, v), UNCHANGED view
  PROVE  BarsInv' /\ HiddenBarsAreNotNeeded'
<1> DEFINE new == [adjust EXCEPT ![x] = SetValue(@, v)]
<1>1. DOMAIN adjust = Axes /\ \A y \in Axes : InBounds(adjust[y])
  BY DEF ScrollInv, BarsInv
<1>2. adjust[x] \in Adjustments /\ adjust[x].page <= adjust[x].upper
  BY <1>1 DEF InBounds, Adjustments
<1>3. LET r == SetValue(adjust[x], v)
      IN  InBounds(r) /\ r.upper = adjust[x].upper /\ r.page = adjust[x].page
  BY <1>2, SetValueInBounds
<1>4. /\ DOMAIN new = Axes /\ new[x] = SetValue(adjust[x], v)
      /\ \A y \in Axes : y # x => new[y] = adjust[y]
  BY <1>1
<1>5. Changes(new)
  BY DEF Sets
<1> HIDE DEF new
<1>6. \A y \in Axes : InBounds(new[y]) /\ new[y].upper = adjust[y].upper /\ new[y].page = adjust[y].page
  BY <1>1, <1>3, <1>4
<1> QED BY <1>4, <1>5, <1>6, ValuesKeepInv

\* The layout of the view, of its bars and of its content.
LEMMA AllocateViewKeepsInv ==
  ASSUME ScrollInv, AllocateView
  PROVE  ScrollInv'
<1> DEFINE shown == BarsVisible
           laid == AllocatedBars(shown)
           w == ChildWidth(shown)
           h == ChildHeight(shown)
           new == IF HasContent THEN AllocatedValues(w, h) ELSE adjust
<1>1. AllocateWith(shown, new) /\ UNCHANGED <<moving, drag, paging>>
  BY DEF AllocateView
<1>2. ScrollTypes /\ DOMAIN adjust = Axes /\ \A x \in Axes : InBounds(adjust[x])
  BY DEF ScrollInv, BarsInv
<1>3. shown \in Shown
  BY <1>2, VisibleTyped
<1>4. /\ view.size[1] \in Nat /\ view.size[2] \in Nat /\ BarSize \in Nat
      /\ view.size[1] >= BarSize /\ view.size[2] >= BarSize
      /\ HasContent => view.content.wide \in Nat
  BY <1>2, LayoutNumbers
<1>5. w \in Nat /\ h \in Nat
  BY <1>4 DEF ChildWidth, ChildHeight, Thick
<1>6. /\ view' = [view EXCEPT !.shown = shown, !.queued = FALSE]
      /\ adjust' = new /\ bars' = Notified(laid, new)
  BY <1>1 DEF AllocateWith
<1>7. /\ view'.size = view.size /\ view'.policy = view.policy /\ view'.overlay = view.overlay
      /\ view'.content = view.content /\ view'.shown = shown /\ view'.queued = FALSE
      /\ view' \in [size : ViewSizes, policy : PolicyPairs \cup {<<"never", "automatic">>},
                     overlay : BOOLEAN, content : Contents \cup {EmptyChild},
                     shown : Shown, queued : BOOLEAN]
  <2> HIDE DEF shown
  <2>1. view \in [size : ViewSizes, policy : PolicyPairs \cup {<<"never", "automatic">>},
                  overlay : BOOLEAN, content : Contents \cup {EmptyChild},
                  shown : Shown, queued : BOOLEAN]
    BY <1>2 DEF ScrollTypes
  <2> QED BY <1>3, <1>6, <2>1
<1>8. ScrollTypes'
  BY <1>1, <1>2, <1>7 DEF ScrollTypes
<1>9. \A x \in Axes : Trough(shown, x) \in Int
  BY <1>4, ScrollAssumption DEF Trough, Thick
<1>10. \A x \in Axes : laid[x] \in Bars /\ Shows(x, laid[x], adjust[x])
  <2>1. \A x \in Axes : laid[x] = AllocateChildren(x, adjust[x], Trough(shown, x))
    BY DEF AllocatedBars
  <2> HIDE DEF laid, shown
  <2> QED BY <1>2, <1>9, <2>1, LaidOutShows
<1> HIDE DEF shown, laid, w, h
<1>11. HasContent =>
        /\ \A x \in Axes : InBounds(new[x])
        /\ new.h.upper = Greater(MinWidth, w) /\ new.h.page = w
        /\ new.v.upper = Greater(MinHeight(Greater(w, MinWidth)), h) /\ new.v.page = h
        /\ new["h"] = new.h /\ new["v"] = new.v /\ DOMAIN new = Axes
  <2> SUFFICES ASSUME HasContent
               PROVE  /\ \A x \in Axes : InBounds(new[x])
                      /\ new.h.upper = Greater(MinWidth, w) /\ new.h.page = w
                      /\ new.v.upper = Greater(MinHeight(Greater(w, MinWidth)), h) /\ new.v.page = h
                      /\ new["h"] = new.h /\ new["v"] = new.v /\ DOMAIN new = Axes
    OBVIOUS
  <2> DEFINE needH == MinWidth
             needV == MinHeight(Greater(w, MinWidth))
             nh == ViewportValues(adjust.h, needH, w)
             nv == ViewportValues(adjust.v, needV, h)
  <2>1. needH \in Nat /\ needV \in Nat
    <3>1. MinWidth \in Nat /\ Greater(w, MinWidth) \in Int
      BY <1>4, <1>5 DEF MinWidth, Greater
    <3> QED BY <1>2, <3>1, SameHeight
  <2>2. InBounds(adjust.h) /\ InBounds(adjust.v)
    BY <1>2 DEF Axes
  <2>3. new = [h |-> nh, v |-> nv]
    BY DEF AllocatedValues
  <2> HIDE DEF needH, needV, new
  <2>4. InBounds(nh) /\ nh.upper = Greater(needH, w) /\ nh.page = w
    BY <1>5, <2>1, <2>2, ViewportInBounds
  <2>5. InBounds(nv) /\ nv.upper = Greater(needV, h) /\ nv.page = h
    BY <1>5, <2>1, <2>2, ViewportInBounds
  <2> HIDE DEF nh, nv
  <2>6. new.h = nh /\ new.v = nv /\ new["h"] = nh /\ new["v"] = nv /\ DOMAIN new = Axes
    BY <2>3 DEF Axes
  <2>7. \A x \in Axes : InBounds(new[x])
    BY <2>4, <2>5, <2>6 DEF Axes
  <2> QED BY <2>4, <2>5, <2>6, <2>7 DEF needH, needV
<1>12. DOMAIN new = Axes /\ \A x \in Axes : InBounds(new[x])
  BY <1>2, <1>11
<1>13. BarsInv'
  <2> HIDE DEF new
  <2>1. DOMAIN bars' = Axes /\ \A x \in Axes : bars'[x] \in Bars /\ Shows(x, bars'[x], new[x])
    BY <1>2, <1>6, <1>10, <1>12, NotifiedShows
  <2> QED BY <1>6, <1>12, <2>1 DEF BarsInv
<1>14. HiddenBarsAreNotNeeded'
  <2>1. HasContent' = HasContent /\ \A x \in Axes : GotItsSize(x)' = GotItsSize(x)
    BY <1>7 DEF HasContent, GotItsSize, PreferredWidth, PreferredHeight, MinWidth, MinHeight, RoomForBar
  <2> SUFFICES ASSUME HasContent, NEW x \in Axes, ~shown[x],
                      LET policy == IF x = "h" THEN view.policy[1] ELSE view.policy[2]
                      IN  \/ policy = "automatic" /\ view.policy[2] = "automatic"
                          \/ policy = "never" /\ GotItsSize(x)
               PROVE  new[x].upper <= new[x].page
    BY <1>6, <1>7, <2>1 DEF HiddenBarsAreNotNeeded
  <2>2. /\ /\ ~shown.h
           /\ \/ view.policy[1] = "automatic" /\ view.policy[2] = "automatic"
              \/ view.policy[1] = "never" /\ view.size[1] >= PreferredWidth
           => MinWidth <= w
        /\ /\ ~shown.v
           /\ \/ view.policy[2] = "automatic"
              \/ view.policy[2] = "never" /\ view.size[2] >= PreferredHeight(view.size[1])
           => MinHeight(Greater(w, MinWidth)) <= h
    BY <1>2, HiddenFits DEF shown, w, h
  <2> HIDE DEF new
  <2>3. CASE x = "h"
    <3>1. MinWidth <= w
      BY <2>2, <2>3 DEF GotItsSize
    <3>2. new[x].upper = Greater(MinWidth, w) /\ new[x].page = w
      BY <1>11, <2>3
    <3>3. Greater(MinWidth, w) <= w
      BY <1>4, <1>5, <3>1 DEF Greater, MinWidth
    <3> QED BY <3>2, <3>3
  <2>4. CASE x = "v"
    <3> DEFINE need == MinHeight(Greater(w, MinWidth))
    <3>1. need <= h
      BY <2>2, <2>4 DEF GotItsSize
    <3>2. new[x].upper = Greater(need, h) /\ new[x].page = h
      BY <1>11, <2>4
    <3>3. need \in Nat
      <4>1. Greater(w, MinWidth) \in Int
        BY <1>4, <1>5 DEF MinWidth, Greater
      <4> QED BY <1>2, <4>1, SameHeight
    <3> HIDE DEF need
    <3>4. Greater(need, h) <= h
      BY <1>5, <3>1, <3>3 DEF Greater
    <3> QED BY <3>2, <3>4
  <2> QED BY <2>3, <2>4 DEF Axes
<1> QED BY <1>8, <1>13, <1>14 DEF ScrollInv

\* What makes the view lay itself out again.
LEMMA QueueKeepsInv ==
  ASSUME ScrollInv,
         \/ \E size \in ViewSizes : Resize(size)
         \/ \E pair \in PolicyPairs : SetPolicy(pair)
         \/ SetOverlay
         \/ \E c \in Contents \cup {EmptyChild} : SetContent(c)
  PROVE  ScrollInv'
<1> DEFINE V == [size : ViewSizes, policy : PolicyPairs \cup {<<"never", "automatic">>},
                 overlay : BOOLEAN, content : Contents \cup {EmptyChild},
                 shown : Shown, queued : BOOLEAN]
<1>1. ScrollTypes /\ view \in V
  BY DEF ScrollInv, ScrollTypes
<1>2. PICK new \in V : Queue(new)
  <2>1. CASE \E size \in ViewSizes : Resize(size)
    BY <1>1, <2>1 DEF Resize
  <2>2. CASE \E pair \in PolicyPairs : SetPolicy(pair)
    BY <1>1, <2>2 DEF SetPolicy
  <2>3. CASE SetOverlay
    BY <1>1, <2>3 DEF SetOverlay
  <2>4. CASE \E c \in Contents \cup {EmptyChild} : SetContent(c)
    BY <1>1, <2>4 DEF SetContent
  <2> QED BY <2>1, <2>2, <2>3, <2>4
<1>3. UNCHANGED <<adjust, moving, bars, drag, paging>> /\ view' \in V /\ view'.queued
  BY <1>2 DEF Queue
<1> QED BY <1>1, <1>3, BarsKept DEF ScrollInv, ScrollTypes, HiddenBarsAreNotNeeded

\* Wheel and animations.
LEMMA ValueStepsKeepInv ==
  ASSUME ScrollInv, NEW x \in Axes,
         \/ \E delta \in {-1, 1} : ScrollEvent(x, delta)
         \/ EaseToEnd(x) \/ TransitionFrame(x) \/ TransitionStopped(x)
  PROVE  ScrollInv'
<1>1. UNCHANGED <<view, drag, paging>> /\ ScrollTypes
  BY DEF ScrollEvent, EaseToEnd, TransitionFrame, TransitionStopped, ScrollInv
<1>2. /\ InBounds(adjust[x]) /\ adjust[x] \in Adjustments /\ adjust[x].value \in Int /\ adjust[x].upper \in Int
      /\ moving[x].from \in Int /\ moving[x].to \in Int
      /\ moving \in [Axes -> [on : BOOLEAN, from : Int, to : Int]]
  BY DEF ScrollInv, BarsInv, InBounds, Adjustments, ScrollTypes
<1>3. CASE \E delta \in {-1, 1} : ScrollEvent(x, delta)
  <2>1. PICK delta \in {-1, 1} : ScrollEvent(x, delta)
    BY <1>3
  <2> DEFINE d == IF Mirrored(x) THEN -delta ELSE delta
             v == adjust[x].value + d * ScrollUnit(adjust[x])
  <2>2. d \in Int /\ ScrollUnit(adjust[x]) \in Int
    BY <1>2, ScrollUnitInt
  <2>3. v \in Int
    BY <1>2, <2>2, ProductInt
  <2>4. Sets(x, v) /\ UNCHANGED moving
    BY <2>1 DEF ScrollEvent, Sets, AdjustForScroll
  <2> HIDE DEF v
  <2>5. BarsInv' /\ HiddenBarsAreNotNeeded'
    BY <1>1, <2>3, <2>4, SetsKeepsInv
  <2> QED BY <1>1, <2>4, <2>5 DEF ScrollInv, ScrollTypes
<1>4. CASE EaseToEnd(x)
  <2>1. UNCHANGED <<adjust, bars>> /\ moving' = [moving EXCEPT ![x] = [on |-> TRUE, from |-> adjust[x].value, to |-> adjust[x].upper]]
    BY <1>4 DEF EaseToEnd, Ease
  <2>2. moving' \in [Axes -> [on : BOOLEAN, from : Int, to : Int]]
    BY <1>2, <2>1
  <2>3. HiddenBarsAreNotNeeded'
    BY <1>1, <2>1 DEF ScrollInv, HiddenBarsAreNotNeeded, HasContent, GotItsSize, PreferredWidth,
                      PreferredHeight, MinWidth, MinHeight, RoomForBar
  <2> QED BY <1>1, <2>1, <2>2, <2>3, BarsKept DEF ScrollInv, ScrollTypes
<1>5. CASE TransitionFrame(x) \/ TransitionStopped(x)
  <2> DEFINE mid == (moving[x].from + moving[x].to) \div 2
  <2>1. mid \in Int
    BY <1>2, QuotientInt
  <2>2. \E v \in Int : Sets(x, v)
    BY <1>2, <1>5, <2>1 DEF TransitionFrame, TransitionStopped
  <2>3. moving' \in [Axes -> [on : BOOLEAN, from : Int, to : Int]]
    BY <1>2, <1>5 DEF TransitionFrame, TransitionStopped
  <2>4. BarsInv' /\ HiddenBarsAreNotNeeded'
    BY <1>1, <2>2, SetsKeepsInv
  <2> QED BY <1>1, <2>3, <2>4 DEF ScrollInv, ScrollTypes
<1> QED BY <1>3, <1>4, <1>5

\* The quotient the handle's position is turned into a value with.
LEMMA ShareInt ==
  ASSUME NEW part \in Int, NEW whole \in Int, whole # 0, NEW all \in Int
  PROVE  Share(part, whole, all) \in Int
<1>1. part * all \in Int /\ (-part) * all \in Int
  BY ProductInt
<1>2. CASE whole > 0
  BY <1>1, <1>2, QuotientInt DEF Share
<1>3. CASE ~(whole > 0)
  <2>1. -whole \in Int /\ -whole > 0
    BY <1>3
  <2> QED BY <1>1, <1>3, <2>1, QuotientInt DEF Share
<1> QED BY <1>2, <1>3

\* Dragging the handle.
LEMMA DragKeepsInv ==
  ASSUME ScrollInv,
         \/ \E x \in Axes, p \in Points : HandlePress(x, p)
         \/ \E p \in Points : HandleMotion(p)
         \/ StopScrolling
  PROVE  ScrollInv'
<1>1. UNCHANGED <<view, moving, paging>> /\ ScrollTypes
  BY DEF HandlePress, HandleMotion, StopScrolling, ScrollInv
<1>2. ASSUME UNCHANGED <<adjust, bars>> PROVE BarsInv' /\ HiddenBarsAreNotNeeded'
  BY <1>1, <1>2, BarsKept DEF ScrollInv, HiddenBarsAreNotNeeded, HasContent, GotItsSize,
       PreferredWidth, PreferredHeight, MinWidth, MinHeight, RoomForBar
<1>3. CASE \E x \in Axes, p \in Points : HandlePress(x, p)
  <2>1. PICK x \in Axes, p \in Points : HandlePress(x, p)
    BY <1>3
  <2>2. bars[x].start \in Int /\ p \in Int /\ TroughInset \in Int
    BY ScrollAssumption DEF ScrollInv, BarsInv, Bars
  <2>3. /\ drag' = [axis |-> x, origin |-> p - bars[x].start + TroughInset]
        /\ UNCHANGED <<adjust, bars>>
    BY <2>1 DEF HandlePress
  <2>4. drag' \in [axis : Axes \cup {"none"}, origin : Int] /\ drag'.axis # "none"
    BY <2>2, <2>3 DEF Axes
  <2> QED BY <1>1, <1>2, <2>3, <2>4 DEF ScrollInv, ScrollTypes
<1>4. CASE \E p \in Points : HandleMotion(p)
  <2>1. PICK p \in Points : HandleMotion(p)
    BY <1>4
  <2> DEFINE x == drag.axis
             room == bars[x].length - bars[x].size
             pos == Clamped(p - drag.origin, 0, room)
             a == adjust[x]
             v == SlidTo(x, pos, room, a)
  <2>2. x \in Axes /\ drag.origin \in Int /\ p \in Int
    BY <1>1, <2>1, ScrollAssumption DEF HandleMotion, ScrollTypes
  <2>3. room \in Int /\ a.upper \in Int /\ a.lower \in Int /\ a.page \in Int
    BY <2>2 DEF ScrollInv, BarsInv, Bars, InBounds, Adjustments
  <2>4. UNCHANGED drag /\ IF room = 0 THEN UNCHANGED <<adjust, bars>> ELSE Sets(x, v)
    BY <2>1 DEF HandleMotion, MoveSlider
  <2>5. CASE room = 0
    BY <1>1, <1>2, <2>4, <2>5 DEF ScrollInv, ScrollTypes
  <2>6. CASE room # 0
    <3>1. pos \in Int
      BY <2>2, <2>3 DEF Clamped
    <3> HIDE DEF x, room, pos, a
    <3>2. v \in Int
      <4>1. /\ (IF Mirrored(x) THEN room - pos ELSE pos) \in Int
            /\ a.upper - a.lower - a.page \in Int
        BY <2>3, <3>1
      <4>2. Share(IF Mirrored(x) THEN room - pos ELSE pos, room, a.upper - a.lower - a.page) \in Int
        BY <2>3, <2>6, <4>1, ShareInt
      <4> QED BY <2>3, <4>2 DEF SlidTo
    <3>3. BarsInv' /\ HiddenBarsAreNotNeeded'
      BY <1>1, <2>2, <2>4, <2>6, <3>2, SetsKeepsInv
    <3> QED BY <1>1, <2>4, <3>3 DEF ScrollInv, ScrollTypes
  <2> QED BY <2>5, <2>6
<1>5. CASE StopScrolling
  <2>1. drag' = NotDragged /\ UNCHANGED <<adjust, bars>>
    BY <1>5 DEF StopScrolling
  <2>2. drag' \in [axis : Axes \cup {"none"}, origin : Int]
    BY <2>1 DEF NotDragged
  <2> QED BY <1>1, <1>2, <2>1, <2>2 DEF ScrollInv, ScrollTypes
<1> QED BY <1>3, <1>4, <1>5

\* Holding the button on the trough.
LEMMA TroughPagingTyped ==
  ASSUME ScrollInv, NEW side \in {"up", "down"},
         NEW p \in [axis : Axes, at : Int, no : Int, dir : {"none", "up", "down"}, timer : BOOLEAN],
         TroughPaging(p, side)
  PROVE  /\ moving' \in [Axes -> [on : BOOLEAN, from : Int, to : Int]]
         /\ paging' \in [axis : Axes, at : Int, no : Int, dir : {"none", "up", "down"}, timer : BOOLEAN]
<1> DEFINE P == [axis : Axes, at : Int, no : Int, dir : {"none", "up", "down"}, timer : BOOLEAN]
           M == [on : BOOLEAN, from : Int, to : Int]
<1>1. Rearmed(p) \in P /\ [p EXCEPT !.timer = FALSE] \in P
  <2> DEFINE n == IF p.no < 2 THEN p.no + 1 ELSE 2
             q == [p EXCEPT !.no = n]
  <2>1. n \in Int
    OBVIOUS
  <2>2. Rearmed(p) = [q EXCEPT !.timer = TRUE]
    BY DEF Rearmed
  <2> HIDE DEF n
  <2>3. q \in P
    BY <2>1
  <2> HIDE DEF q
  <2> QED BY <2>2, <2>3
<1>2. [Rearmed(p) EXCEPT !.dir = side] \in P
  BY <1>1
<1>3. moving \in [Axes -> M] /\ p.axis \in Axes
  BY DEF ScrollInv, ScrollTypes
<1>4. adjust[p.axis].value \in Int /\ adjust[p.axis].jump \in Int
  BY <1>3 DEF ScrollInv, BarsInv, InBounds, Adjustments
<1>5. PageBy(p.axis, side) \in Int
  <2> DEFINE j == IF side = "down" THEN adjust[p.axis].jump ELSE -adjust[p.axis].jump
             d == IF Mirrored(p.axis) THEN -1 ELSE 1
  <2>1. j \in Int /\ d \in Int
    BY <1>4
  <2>2. PageBy(p.axis, side) = d * j
    BY DEF PageBy
  <2> HIDE DEF j, d
  <2> QED BY <2>1, <2>2, ProductInt
<1>6. CASE FarEnough(p, side)
  BY <1>1, <1>3, <1>6 DEF TroughPaging
<1>7. CASE ~FarEnough(p, side)
  <2> DEFINE m == [on |-> TRUE, from |-> adjust[p.axis].value,
                   to |-> adjust[p.axis].value + PageBy(p.axis, side)]
  <2>1. paging' = [Rearmed(p) EXCEPT !.dir = side] /\ moving' = [moving EXCEPT ![p.axis] = m]
    BY <1>7 DEF TroughPaging, Ease
  <2>2. m \in M
    BY <1>4, <1>5
  <2> HIDE DEF m
  <2> QED BY <1>2, <1>3, <2>1, <2>2
<1> QED BY <1>6, <1>7

\* Pressing, holding and releasing the trough start animations and move nothing yet.
LEMMA TroughKeepsInv ==
  ASSUME ScrollInv,
         \/ \E x \in Axes, p \in Points : TroughPress(x, p)
         \/ TroughTimeout
         \/ TroughRelease
  PROVE  ScrollInv'
<1> DEFINE P == [axis : Axes, at : Int, no : Int, dir : {"none", "up", "down"}, timer : BOOLEAN]
<1>1. UNCHANGED <<view, adjust, bars, drag>> /\ ScrollTypes
  BY DEF TroughPress, TroughTimeout, TroughRelease, ScrollInv
<1>2. BarsInv' /\ HiddenBarsAreNotNeeded'
  BY <1>1, BarsKept DEF ScrollInv, HiddenBarsAreNotNeeded, HasContent, GotItsSize,
       PreferredWidth, PreferredHeight, MinWidth, MinHeight, RoomForBar
<1>3. ASSUME NEW x \in Axes, NEW p \in Int PROVE Side(x, p) \in {"up", "down"}
  BY DEF Side
<1>4. CASE \E x \in Axes, p \in Points : TroughPress(x, p)
  <2>1. PICK x \in Axes, p \in Points : TroughPress(x, p)
    BY <1>4
  <2>2. p \in Int
    BY ScrollAssumption
  <2>3. [NotPaging EXCEPT !.axis = x, !.at = p] \in P
    <3> DEFINE q == [NotPaging EXCEPT !.axis = x]
    <3>0. NotPaging \in [axis : {"none"}, at : Int, no : Int, dir : {"none", "up", "down"}, timer : BOOLEAN]
      BY DEF NotPaging
    <3>1. q \in P
      BY <3>0
    <3>2. [NotPaging EXCEPT !.axis = x, !.at = p] = [q EXCEPT !.at = p]
      BY <3>0
    <3> HIDE DEF q
    <3> QED BY <2>2, <3>1, <3>2
  <2>4. TroughPaging([NotPaging EXCEPT !.axis = x, !.at = p], Side(x, p))
    BY <2>1 DEF TroughPress
  <2>5. moving' \in [Axes -> [on : BOOLEAN, from : Int, to : Int]] /\ paging' \in P
    BY <1>3, <2>2, <2>3, <2>4, TroughPagingTyped
  <2> QED BY <1>1, <1>2, <2>5 DEF ScrollInv, ScrollTypes
<1>5. CASE TroughTimeout
  <2>1. paging.timer /\ TroughPaging(paging, Side(paging.axis, paging.at))
    BY <1>5 DEF TroughTimeout
  <2>2. paging \in P
    BY <1>1, <2>1 DEF ScrollTypes
  <2>3. paging.axis \in Axes /\ paging.at \in Int
    BY <2>2
  <2>4. moving' \in [Axes -> [on : BOOLEAN, from : Int, to : Int]] /\ paging' \in P
    BY <1>3, <2>1, <2>2, <2>3, TroughPagingTyped
  <2> QED BY <1>1, <1>2, <2>4 DEF ScrollInv, ScrollTypes
<1>6. CASE TroughRelease
  <2>1. paging' = NotPaging /\ UNCHANGED moving
    BY <1>6 DEF TroughRelease
  <2>2. /\ paging' \in [axis : Axes \cup {"none"}, at : Int, no : Int,
                        dir : {"none", "up", "down"}, timer : BOOLEAN]
        /\ ~paging'.timer
    BY <2>1 DEF NotPaging
  <2> QED BY <1>1, <1>2, <2>1, <2>2 DEF ScrollInv, ScrollTypes
<1> QED BY <1>4, <1>5, <1>6

\* Every step of the scrolled views keeps the invariant.
LEMMA ScrollStepKeepsInv == ScrollInv /\ [ScrollNext]_scrollVars => ScrollInv'
<1> SUFFICES ASSUME ScrollInv, [ScrollNext]_scrollVars PROVE ScrollInv'
  OBVIOUS
<1>1. CASE UNCHANGED scrollVars
  BY <1>1, BarsKept DEF scrollVars, ScrollInv, ScrollTypes, HiddenBarsAreNotNeeded, HasContent,
       GotItsSize, PreferredWidth, PreferredHeight, MinWidth, MinHeight, RoomForBar
<1>2. CASE ScrollNext
  <2>1. CASE AllocateView
    BY <2>1, AllocateViewKeepsInv
  <2>2. CASE \/ \E size \in ViewSizes : Resize(size)
             \/ \E pair \in PolicyPairs : SetPolicy(pair)
             \/ SetOverlay
             \/ \E c \in Contents \cup {EmptyChild} : SetContent(c)
    BY <2>2, QueueKeepsInv
  <2>3. CASE \E x \in Axes : \/ \E delta \in {-1, 1} : ScrollEvent(x, delta)
                             \/ EaseToEnd(x) \/ TransitionFrame(x) \/ TransitionStopped(x)
    BY <2>3, ValueStepsKeepInv
  <2>4. CASE \/ \E x \in Axes, p \in Points : HandlePress(x, p)
             \/ \E p \in Points : HandleMotion(p)
             \/ StopScrolling
    BY <2>4, DragKeepsInv
  <2>5. CASE \/ \E x \in Axes, p \in Points : TroughPress(x, p)
             \/ TroughTimeout
             \/ TroughRelease
    BY <2>5, TroughKeepsInv
  <2> QED BY <1>2, <2>1, <2>2, <2>3, <2>4, <2>5 DEF ScrollNext
<1> QED BY <1>1, <1>2

\* What the invariant says of adjustments and bars is what the property asks.
LEMMA ScrollInvShows == ScrollInv => ViewShowsContent
<1> SUFFICES ASSUME ScrollInv PROVE ViewShowsContent
  OBVIOUS
<1>1. ContentCoversView
  <2> SUFFICES ASSUME NEW x \in Axes
               PROVE  /\ Offset(x, adjust[x]) >= 0
                      /\ Offset(x, adjust[x]) + adjust[x].page <= adjust[x].upper
    BY DEF ContentCoversView
  <2>1. InBounds(adjust[x])
    BY DEF ScrollInv, BarsInv
  <2> QED BY <2>1 DEF InBounds, Adjustments, Offset
<1>2. HandleShowsValue
  BY DEF ScrollInv, BarsInv, Shows, HandleShowsValue
<1> QED BY <1>1, <1>2 DEF ScrollInv, ViewShowsContent

\* In either text direction, for any sizes, contents and policies and after any
\* resizes, scrolling, dragging, paging and animations, the content covers the
\* view, the handles are where a fresh layout would put them and a bar that is
\* hidden is not needed.
THEOREM ViewsAlwaysShowContent == ScrollSpec => []ViewShowsContent
<1> QED BY ScrollInitInv, ScrollStepKeepsInv, ScrollInvShows, PTL DEF ScrollSpec
=============================================================================
