------------------------------ MODULE Scrolling -----------------------------
(***************************************************************************)
(* A scroll view (st-scroll-view.c) with its two adjustments               *)
(* (st-adjustment.c), its two scroll bars (st-scroll-bar.c) and the        *)
(* viewport it scrolls (st-viewport.c).  Lengths are whole pixels; a       *)
(* position along a bar or a view is counted from its left or top edge.    *)
(***************************************************************************)
EXTENDS Integers

CONSTANTS
  ViewSizes,    \* sizes <<width, height>> the view is given
  Contents,     \* what the viewport may hold: [wide, flat, tall], a minimum
                \* width and the height needed with at least and without
                \* twice that width
  PolicyPairs,  \* the policies <<horizontal, vertical>> the view may get
  BarSize,      \* how thick a bar is
  MinHandle,    \* the theme's min-size of a handle
  TroughInset,  \* padding of a bar along its axis
  RightToLeft,  \* the text direction
  Points,       \* where along a bar the pointer may be
  MaxScrollOps  \* bound on the operations of a behaviour

\* A view is large enough for its bars, which is the least it asks its parent for.
ASSUME ScrollAssumption ==
  /\ BarSize \in Nat /\ MinHandle \in Nat /\ TroughInset \in Nat
  /\ ViewSizes \subseteq {n \in Nat : n >= BarSize} \X {n \in Nat : n >= BarSize}
  /\ Contents \subseteq [wide : Nat, flat : Nat, tall : Nat]
  /\ Points \subseteq Int

Axes == {"h", "v"}
EmptyChild == [wide |-> -1, flat |-> -1, tall |-> -1]
MaxHandle == 32767

VARIABLES
  view,    \* [size, policy, overlay, content, shown, queued]
  adjust,  \* each axis's adjustment: [value, lower, upper, page, step, jump]
  moving,  \* each axis's "value" transition: [on, from, to]
  bars,    \* each axis's bar: [valid, length, start, size] of its trough and handle
  drag,    \* [axis, origin], the handle that is dragged
  paging,  \* [axis, at, no, dir, timer], the trough button that is held
  scrollOps
scrollVars == <<view, adjust, moving, bars, drag, paging, scrollOps>>

NotDragged == [axis |-> "none", origin |-> 0]
NotPaging == [axis |-> "none", at |-> 0, no |-> 0, dir |-> "none", timer |-> FALSE]

---------------------------------------------------------------------------
(* The adjustment. *)

\* GLib's CLAMP (x, low, high), also where low > high
Clamped(x, low, high) == IF x > high THEN high ELSE IF x < low THEN low ELSE x
Greater(a, b) == IF a >= b THEN a ELSE b
Topmost(a) == Greater(a.lower, a.upper - a.page)

SetValue(a, v) == [a EXCEPT !.value = Clamped(v, a.lower, Topmost(a))]

\* st_adjustment_clamp_page() over the adjustment's own bounds
Pulled(a, top) == IF a.value + a.page > top THEN [a EXCEPT !.value = top - a.page] ELSE a
Raised(a, bottom) == IF a.value < bottom THEN [a EXCEPT !.value = bottom] ELSE a
ClampPage(a) ==
  Raised(Pulled(a, Clamped(a.upper, a.lower + a.page, a.upper)),
         Clamped(a.lower, a.lower, a.upper - a.page))
SetLower(a, x) == IF a.lower = x THEN a ELSE ClampPage([a EXCEPT !.lower = x])
SetUpper(a, x) == IF a.upper = x THEN a ELSE ClampPage([a EXCEPT !.upper = x])
SetPageSize(a, x) == IF a.page = x THEN a ELSE ClampPage([a EXCEPT !.page = x])
SetValues(a, value, lower, upper, step, jump, page) ==
  SetValue(SetPageSize([SetUpper(SetLower(a, lower), upper)
                          EXCEPT !.step = step, !.jump = jump], page), value)

\* pow (page_size, 2/3)
ScrollUnit(a) ==
  CHOOSE n \in 0 .. a.page : n * n * n <= a.page * a.page /\ a.page * a.page < (n + 1) * (n + 1) * (n + 1)
AdjustForScroll(a, delta) == SetValue(a, a.value + delta * ScrollUnit(a))

---------------------------------------------------------------------------
(* A scroll bar lays its handle out from the values of its adjustment. *)

HandleSize(a, length) ==
  Clamped(IF a.upper = a.lower \/ a.page >= a.upper - a.lower THEN length
          ELSE (a.page * length) \div (a.upper - a.lower), MinHandle, MaxHandle)
Lead(a, room) == IF a.upper - a.lower - a.page <= 0 THEN 0
                 ELSE ((a.value - a.lower) * room) \div (a.upper - a.lower - a.page)
Mirrored(x) == RightToLeft /\ x = "h"
HandleStart(x, a, length, size) ==
  IF Mirrored(x) THEN length - size - Lead(a, length - size) ELSE Lead(a, length - size)
AllocateChildren(x, a, length) ==
  [valid |-> TRUE, length |-> length, size |-> HandleSize(a, length),
   start |-> HandleStart(x, a, length, HandleSize(a, length))]

\* Mutant: only a new value moves the handle, not a new range.
UpdateOnValueAlone(x, bar, old, a) ==
  IF bar.valid /\ a.value # old.value THEN AllocateChildren(x, a, bar.length) ELSE bar
\* on "changed" and on notify::value, for the bars with a valid allocation
UpdatePositions(x, bar, old, a) ==
  IF bar.valid /\ a # old THEN AllocateChildren(x, a, bar.length) ELSE bar

Notified(laid, new) == [x \in Axes |-> UpdatePositions(x, laid[x], adjust[x], new[x])]
Changes(new) == /\ adjust' = new
                /\ bars' = Notified(bars, new)
Sets(x, v) == Changes([adjust EXCEPT ![x] = SetValue(@, v)])

---------------------------------------------------------------------------
(* Layout of the view. *)

MinWidth == view.content.wide
MinHeight(width) == IF width >= 2 * view.content.wide THEN view.content.flat ELSE view.content.tall
HasContent == view.content # EmptyChild
IsShown(policy) == policy \notin {"never", "external"}
Thick(on) == IF on THEN BarSize ELSE 0

\* both automatic: a bar takes room that may make the other one necessary
NeedsTall(height, otherwise) == MinHeight(view.size[1]) > height - Thick(otherwise)
NeedsWide(width, otherwise) == MinWidth > width - Thick(otherwise)
BothAutomatic(width, height) ==
  LET tall == NeedsTall(height, NeedsWide(width, NeedsTall(height, FALSE)))
  IN  [v |-> tall, h |-> NeedsWide(width, tall \/ NeedsTall(height, FALSE))]
\* the horizontal bar is only measured against what is left of the height
AutomaticAcross(vertical) == MinWidth > view.size[2] - (IF vertical THEN 0 ELSE BarSize)

BarsVisible ==
  LET h == view.policy[1] v == view.policy[2] IN
  CASE ~HasContent -> [h |-> IsShown(h), v |-> IsShown(v)]
    [] HasContent /\ v = "automatic" /\ h = "automatic" -> BothAutomatic(view.size[1], view.size[2])
    [] HasContent /\ v = "automatic" /\ h # "automatic" ->
         [h |-> h = "always", v |-> NeedsTall(view.size[2], h = "always")]
    [] OTHER ->
         [h |-> IF h = "automatic" THEN AutomaticAcross(v = "always") ELSE h = "always",
          v |-> v = "always"]

\* the least size the view asks its parent for, in each direction
RoomForBar(policy) == Thick(IsShown(policy) /\ ~view.overlay)
PreferredWidth == (IF view.policy[1] = "never" THEN MinWidth ELSE 0) + RoomForBar(view.policy[2])
PreferredHeight(width) ==
  (IF view.policy[2] = "never" THEN MinHeight(width - Thick(IsShown(view.policy[2]))) ELSE 0)
  + RoomForBar(view.policy[1])

\* a bar that is not visible gets an empty box, the visible ones share the corner
Trough(shown, x) ==
  (IF ~shown[x] THEN 0
   ELSE IF x = "h" THEN view.size[1] - Thick(shown.v) ELSE view.size[2] - Thick(shown.h))
  - 2 * TroughInset
AllocatedBars(shown) == [x \in Axes |-> AllocateChildren(x, adjust[x], Trough(shown, x))]
ChildWidth(shown) == view.size[1] - Thick(shown.v /\ ~view.overlay)
ChildHeight(shown) == view.size[2] - Thick(shown.h /\ ~view.overlay)

\* st_viewport_allocate(): the adjustments get the new sizes, the value is kept
ViewportValues(a, need, avail) ==
  SetValues(a, a.value, 0, Greater(need, avail), avail \div 6, avail - avail \div 6, avail)
AllocatedValues(width, height) ==
  [h |-> ViewportValues(adjust.h, MinWidth, width),
   v |-> ViewportValues(adjust.v, MinHeight(Greater(width, MinWidth)), height)]

AllocateWith(shown, new) ==
  /\ view' = [view EXCEPT !.shown = shown, !.queued = FALSE]
  /\ adjust' = new
  /\ bars' = Notified(AllocatedBars(shown), new)
AllocateView ==
  /\ view.queued
  /\ IF HasContent
     THEN AllocateWith(BarsVisible, AllocatedValues(ChildWidth(BarsVisible), ChildHeight(BarsVisible)))
     ELSE AllocateWith(BarsVisible, adjust)
  /\ UNCHANGED <<moving, drag, paging, scrollOps>>

---------------------------------------------------------------------------
(* What makes the view lay itself out again. *)

Operate == scrollOps < MaxScrollOps /\ scrollOps' = scrollOps + 1
Queue(new) == /\ view' = [new EXCEPT !.queued = TRUE]
              /\ UNCHANGED <<adjust, moving, bars, drag, paging>>
Resize(size) == Operate /\ size # view.size /\ Queue([view EXCEPT !.size = size])
SetPolicy(pair) == Operate /\ pair # view.policy /\ Queue([view EXCEPT !.policy = pair])
SetOverlay == Operate /\ Queue([view EXCEPT !.overlay = ~@])
\* the content asks for another size, is set or is removed
SetContent(c) == Operate /\ c # view.content /\ Queue([view EXCEPT !.content = c])

---------------------------------------------------------------------------
(* The wheel and the animations of the value. *)

ScrollEvent(x, delta) ==
  /\ Operate
  /\ Changes([adjust EXCEPT ![x] = AdjustForScroll(@, IF Mirrored(x) THEN -delta ELSE delta)])
  /\ UNCHANGED <<view, moving, drag, paging>>

\* remove_transition() and add_transition()
Ease(x, to) == moving' = [moving EXCEPT ![x] = [on |-> TRUE, from |-> adjust[x].value, to |-> to]]
EaseToEnd(x) == /\ Operate
                /\ Ease(x, adjust[x].upper)
                /\ UNCHANGED <<view, adjust, bars, drag, paging>>
TransitionFrame(x) ==
  /\ moving[x].on
  /\ adjust[x].value # (moving[x].from + moving[x].to) \div 2
  /\ Operate
  /\ Sets(x, (moving[x].from + moving[x].to) \div 2)
  /\ UNCHANGED <<view, moving, drag, paging>>
TransitionStopped(x) ==
  /\ moving[x].on
  /\ Sets(x, moving[x].to)
  /\ moving' = [moving EXCEPT ![x].on = FALSE]
  /\ UNCHANGED <<view, drag, paging, scrollOps>>

---------------------------------------------------------------------------
(* Dragging the handle. *)

HandlePress(x, p) ==
  /\ drag = NotDragged /\ view.shown[x]
  /\ p >= bars[x].start /\ p < bars[x].start + bars[x].size
  /\ Operate
  /\ drag' = [axis |-> x, origin |-> p - bars[x].start + TroughInset]
  /\ UNCHANGED <<view, adjust, moving, bars, paging>>

\* a handle may be longer than its trough
Share(part, whole, all) ==
  IF whole > 0 THEN (part * all) \div whole ELSE ((-part) * all) \div (-whole)
SlidTo(x, pos, room, a) ==
  Share(IF Mirrored(x) THEN room - pos ELSE pos, room, a.upper - a.lower - a.page) + a.lower
MoveSlider(x, p, room) ==
  IF room = 0 THEN UNCHANGED <<adjust, bars>>
  ELSE Sets(x, SlidTo(x, Clamped(p - drag.origin, 0, room), room, adjust[x]))
HandleMotion(p) ==
  /\ drag # NotDragged
  /\ Operate
  /\ MoveSlider(drag.axis, p, bars[drag.axis].length - bars[drag.axis].size)
  /\ UNCHANGED <<view, moving, drag, paging>>
\* the button is released, or the bar is unmapped
StopScrolling == /\ drag # NotDragged
                 /\ drag' = NotDragged
                 /\ UNCHANGED <<view, adjust, moving, bars, paging, scrollOps>>

---------------------------------------------------------------------------
(* Holding the button on the trough: a page at a time towards the pointer. *)

Side(x, p) == IF p > bars[x].start THEN "down" ELSE "up"
PageBy(x, side) == (IF Mirrored(x) THEN -1 ELSE 1)
                   * (IF side = "down" THEN adjust[x].jump ELSE -adjust[x].jump)
\* trough_paging_cb(): the first two calls start another timer, the later ones go on
Rearmed(p) == [p EXCEPT !.no = IF p.no < 2 THEN p.no + 1 ELSE 2, !.timer = TRUE]
FarEnough(p, side) == p.dir # "none" /\ p.dir # side
TroughPaging(p, side) ==
  IF FarEnough(p, side)
  THEN /\ paging' = IF p.no < 2 THEN Rearmed(p) ELSE [p EXCEPT !.timer = FALSE]
       /\ UNCHANGED moving
  ELSE /\ paging' = [Rearmed(p) EXCEPT !.dir = side]
       /\ Ease(p.axis, adjust[p.axis].value + PageBy(p.axis, side))
TroughPress(x, p) ==
  /\ paging.axis = "none" /\ view.shown[x]
  /\ p >= 0 /\ p < bars[x].length
  /\ p < bars[x].start \/ p >= bars[x].start + bars[x].size
  /\ Operate
  /\ TroughPaging([NotPaging EXCEPT !.axis = x, !.at = p], Side(x, p))
  /\ UNCHANGED <<view, adjust, bars, drag>>
TroughTimeout ==
  /\ paging.timer
  /\ Operate
  /\ TroughPaging(paging, Side(paging.axis, paging.at))
  /\ UNCHANGED <<view, adjust, bars, drag>>
\* the button is released, or the pointer leaves the trough
TroughRelease == /\ paging # NotPaging
                 /\ paging' = NotPaging
                 /\ UNCHANGED <<view, adjust, moving, bars, drag, scrollOps>>

---------------------------------------------------------------------------
FreshAdjustment == [value |-> 0, lower |-> 0, upper |-> 0, page |-> 0, step |-> 0, jump |-> 0]
ScrollInit ==
  /\ \E size \in ViewSizes :
       view = [size |-> size, policy |-> <<"never", "automatic">>, overlay |-> FALSE,
               content |-> EmptyChild, shown |-> [h |-> FALSE, v |-> FALSE], queued |-> TRUE]
  /\ adjust = [x \in Axes |-> FreshAdjustment]
  /\ moving = [x \in Axes |-> [on |-> FALSE, from |-> 0, to |-> 0]]
  /\ bars = [x \in Axes |-> [valid |-> FALSE, length |-> 0, start |-> 0, size |-> 0]]
  /\ drag = NotDragged
  /\ paging = NotPaging
  /\ scrollOps = 0

ScrollNext ==
  \/ AllocateView
  \/ \E size \in ViewSizes : Resize(size)
  \/ \E pair \in PolicyPairs : SetPolicy(pair)
  \/ SetOverlay
  \/ \E c \in Contents \cup {EmptyChild} : SetContent(c)
  \/ \E x \in Axes, delta \in {-1, 1} : ScrollEvent(x, delta)
  \/ \E x \in Axes : EaseToEnd(x)
  \/ \E x \in Axes : TransitionFrame(x)
  \/ \E x \in Axes : TransitionStopped(x)
  \/ \E x \in Axes, p \in Points : HandlePress(x, p)
  \/ \E p \in Points : HandleMotion(p)
  \/ StopScrolling
  \/ \E x \in Axes, p \in Points : TroughPress(x, p)
  \/ TroughTimeout
  \/ TroughRelease
ScrollSpec == ScrollInit /\ [][ScrollNext]_scrollVars

---------------------------------------------------------------------------
(* The part of the content in the view never runs over its ends, in either *)
(* text direction, whatever sequence of resizes, scrolls, drags and        *)
(* animations came before: st_viewport_apply_transform() moves the content *)
(* by an offset that leaves no blank space (st-viewport.c).                *)
Offset(x, a) == IF Mirrored(x) THEN a.upper - a.page - a.value ELSE a.value
ContentCoversView ==
  \A x \in Axes : /\ Offset(x, adjust[x]) >= 0
                  /\ Offset(x, adjust[x]) + adjust[x].page <= adjust[x].upper

(* A bar shows where the content is: the handle is where a fresh layout of *)
(* the bar would put it, though the adjustment changes from inside the     *)
(* allocation of the content, after the bars were laid out                 *)
(* (scroll_bar_update_positions() in st-scroll-bar.c).                     *)
HandleShowsValue ==
  \A x \in Axes : bars[x].valid => bars[x] = AllocateChildren(x, adjust[x], bars[x].length)

(* A bar that is not shown is not needed: after a layout the content fits *)
(* in that direction if its bar is automatic, or if there is never one and *)
(* the view got the size it asked for (st_scroll_view_allocate() and the   *)
(* preferred sizes of the view).  An automatic horizontal bar beside a     *)
(* vertical one that is not automatic is left out: AutomaticAcross         *)
(* compares a width with a height.                                         *)
GotItsSize(x) == IF x = "h" THEN view.size[1] >= PreferredWidth
                 ELSE view.size[2] >= PreferredHeight(view.size[1])
HiddenBarsAreNotNeeded ==
  ~view.queued /\ HasContent =>
    \A x \in Axes :
      LET policy == IF x = "h" THEN view.policy[1] ELSE view.policy[2] IN
      /\ ~view.shown[x]
      /\ \/ policy = "automatic" /\ view.policy[2] = "automatic"
         \/ policy = "never" /\ GotItsSize(x)
      => adjust[x].upper <= adjust[x].page

(* After any resizes, changes of content and policy, scrolling, dragging   *)
(* and paging a view shows its content and its bars show where.            *)
ViewShowsContent == ContentCoversView /\ HandleShowsValue /\ HiddenBarsAreNotNeeded
=============================================================================
