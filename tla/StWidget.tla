------------------------------ MODULE StWidget ------------------------------
(***************************************************************************)
(* Styling of a tree of widgets: st-widget.c with st-theme-context.c and   *)
(* st-theme-node-transition.c.                                             *)
(*                                                                         *)
(* A theme node is the path of attributes from the stage to the widget,    *)
(* headed by the generation of the theme context it was made in (interned  *)
(* nodes are equal exactly when they are the same object).  A widget keeps *)
(* its node until st_widget_style_changed() drops it; only mapped widgets  *)
(* compute it again, the others when they are mapped or asked.             *)
(*                                                                         *)
(* The helpers take a whole state s and return the state after the call:   *)
(* one C call changes many widgets before it returns.                      *)
(***************************************************************************)
EXTENDS Naturals, Sequences
LOCAL INSTANCE SequencesExt

CONSTANTS
  Widgets,       \* the widgets of the stage
  Stage,         \* the root of the tree, not a widget
  Nobody,        \* no actor
  Classes,       \* style classes a widget may be given
  Inlines,       \* inline styles
  Pseudos,       \* pseudo classes set by the application
  Duration(_),   \* the transition-duration of a theme node
  Looks(_),      \* what a theme node paints
  Starts,        \* the trees to start from, results of the operations below
  MaxGeneration, \* bound on changes of the theme context
  MaxOps         \* bound on the steps of a behaviour

ASSUME StageIsNoWidget == Stage \notin Widgets /\ Nobody \notin Widgets \cup {Stage}

VARIABLES
  st,       \* the widgets and their theme context
  ops       \* steps so far
widgetVars == <<st, ops>>

NoNode == <<>>
NoTransition == [old |-> NoNode, new |-> NoNode, forward |-> TRUE, elapsed |-> FALSE]

\* st_widget_constructed(): not reactive, and so "insensitive" already.
FreshWidget ==
  [visible |-> FALSE, reactive |-> FALSE, track |-> FALSE, hover |-> FALSE,
   class |-> "", pseudo |-> <<"insensitive">>, inline |-> "", node |-> NoNode, dirty |-> TRUE,
   transition |-> NoTransition, first |-> Nobody, last |-> Nobody,
   firstDirty |-> FALSE, lastDirty |-> FALSE, idle |-> FALSE]

---------------------------------------------------------------------------
(* The actor tree, Clutter's part. *)
Elements(seq) == {seq[i] : i \in DOMAIN seq}
Parent(s, x) ==
  IF \E p \in Widgets \cup {Stage} : x \in Elements(s.children[p])
  THEN CHOOSE p \in Widgets \cup {Stage} : x \in Elements(s.children[p]) ELSE Nobody
\* x and the actors above it, nearest first.
RECURSIVE Upwards(_, _)
Upwards(s, x) == IF x = Nobody THEN <<>> ELSE <<x>> \o Upwards(s, Parent(s, x))
Holds(s, x, y) == x \in Elements(Upwards(s, y))
OnStage(s, x) == Holds(s, Stage, x)
Mapped(s, x) == OnStage(s, x) /\ \A y \in Elements(Upwards(s, x)) \ {Stage} : s.w[y].visible
Subtree(s, x) == {y \in Widgets : Holds(s, x, y)}
\* The subtree of x, parents before their children.
RECURSIVE Downwards(_, _)
Downwards(s, x) == <<x>> \o FlattenSeq([i \in DOMAIN s.children[x] |-> Downwards(s, s.children[x][i])])
PreviousSiblings(s, x) ==
  LET c == s.children[Parent(s, x)] IN SubSeq(c, 1, (CHOOSE i \in DOMAIN c : c[i] = x) - 1)
NextSiblings(s, x) ==
  LET c == s.children[Parent(s, x)] IN SubSeq(c, (CHOOSE i \in DOMAIN c : c[i] = x) + 1, Len(c))

---------------------------------------------------------------------------
(* Theme nodes. *)
Attributes(s, x) == [class |-> s.w[x].class, pseudo |-> s.w[x].pseudo, inline |-> s.w[x].inline]
\* The node the widget should have, whatever is stored.
RECURSIVE IdealNode(_, _)
IdealNode(s, x) == IF x = Stage THEN <<s.generation>> ELSE Append(IdealNode(s, Parent(s, x)), Attributes(s, x))
\* get_root_theme_node(): the context's root node, made once per generation.
RootNode(s) == IF s.root = NoNode THEN <<s.generation>> ELSE s.root
\* A node hangs below the node its parent has stored.
RECURSIVE NodeBelow(_, _)
NodeBelow(s, x) ==
  IF x = Stage THEN RootNode(s)
  ELSE IF s.w[x].node # NoNode THEN s.w[x].node
  ELSE Append(NodeBelow(s, Parent(s, x)), Attributes(s, x))
\* Off stage the call complains and stores nothing; else the nodes of x and
\* of the actors above it are there afterwards.
GetThemeNode(s, x) ==
  IF ~OnStage(s, x) \/ s.w[x].node # NoNode THEN s
  ELSE [s EXCEPT !.root = RootNode(s), !.connected = TRUE,
                 !.w = [y \in Widgets |-> IF Holds(s, y, x) THEN [s.w[y] EXCEPT !.node = NodeBelow(s, y)] ELSE s.w[y]]]
LooksSame(a, b) == a # NoNode /\ b # NoNode /\ Looks(a) = Looks(b)

---------------------------------------------------------------------------
(* st-theme-node-transition.c *)
TransitionNew(from, to) == [NoTransition EXCEPT !.old = from, !.new = to]
TransitionTarget(t) == IF t.forward THEN t.new ELSE t.old
\* Going back to where the transition came from reverses it; any other change
\* ends it, unless no time has passed yet.
TransitionUpdate(t, node) ==
  LET source == IF t.forward THEN t.old ELSE t.new IN
  IF node = source
  THEN IF t.elapsed THEN [t EXCEPT !.forward = ~@] ELSE NoTransition
  ELSE IF t.elapsed THEN NoTransition ELSE [t EXCEPT !.new = node]

---------------------------------------------------------------------------
(* st_widget_recompute_style() *)
TransitionAfter(s, x, old, new) ==
  IF ~s.animations \/ Duration(new) = 0 THEN NoTransition
  ELSE IF s.w[x].transition # NoTransition THEN TransitionUpdate(s.w[x].transition, new)
  ELSE IF old # NoNode /\ ~LooksSame(old, new) THEN TransitionNew(old, new) ELSE NoTransition
WithNode(s, x, old, new) ==
  IF new = old THEN [s EXCEPT !.w[x].dirty = FALSE]
  ELSE [s EXCEPT !.w[x].dirty = FALSE, !.w[x].transition = TransitionAfter(s, x, old, new)]
WithNodeStored(s, x, old) == WithNode(s, x, old, s.w[x].node)
RecomputeStyle(s, x, old) == WithNodeStored(GetThemeNode(s, x), x, old)

\* st_widget_style_changed() for one widget: drop the node, compute it again
\* only when mapped.
RestyleOne(s, x) ==
  LET dropped == [s EXCEPT !.w[x].dirty = TRUE, !.w[x].node = NoNode]
  IN IF Mapped(s, x) THEN RecomputeStyle(dropped, x, s.w[x].node) ELSE dropped
StyleChangedIn(s, seq) == FoldLeft(RestyleOne, s, seq)
\* Mutant: the change does not reach widgets that are not mapped.
StyleChangedMapped(s, x) == StyleChangedIn(s, SelectSeq(Downwards(s, x), LAMBDA y : y = x \/ Mapped(s, y)))
\* ... and for everything below it, parents first.
StyleChanged(s, x) == StyleChangedIn(s, Downwards(s, x))
NotifyChildren(s, x) == StyleChangedIn(s, Tail(Downwards(s, x)))
EnsureStyle(s, x) == IF s.w[x].dirty THEN NotifyChildren(RecomputeStyle(s, x, NoNode), x) ELSE s

\* Class lists: adding keeps the order, a name occurs once.
AddPseudo(s, x, name) ==
  IF name \in Elements(s.w[x].pseudo) THEN s ELSE StyleChanged([s EXCEPT !.w[x].pseudo = Append(@, name)], x)
RemovePseudo(s, x, name) ==
  IF name \notin Elements(s.w[x].pseudo) THEN s
  ELSE StyleChanged([s EXCEPT !.w[x].pseudo = SelectSeq(@, LAMBDA n : n # name)], x)
SetHover(s, x, hover) ==
  IF s.w[x].hover = hover THEN s
  ELSE IF hover THEN AddPseudo([s EXCEPT !.w[x].hover = TRUE], x, "hover")
  ELSE RemovePseudo([s EXCEPT !.w[x].hover = FALSE], x, "hover")
SyncHover(s, x) ==
  IF ~OnStage(s, x) THEN s ELSE SetHover(s, x, s.w[x].reactive /\ Holds(s, x, s.pointer))

---------------------------------------------------------------------------
(* Mapping and unmapping, bottom up as Clutter does it. *)
UpdateInsensitive(s, x) ==
  IF s.w[x].reactive THEN RemovePseudo(s, x, "insensitive") ELSE AddPseudo(s, x, "insensitive")
Map(s, x) == FoldLeft(LAMBDA r, y : IF Mapped(r, y) THEN EnsureStyle(r, y) ELSE r, s, Reverse(Downwards(s, x)))
UnmapOne(s, x) ==
  LET still == [s EXCEPT !.w[x].transition = NoTransition]
  IN IF s.w[x].track /\ s.w[x].hover THEN SetHover(still, x, FALSE) ELSE still
\* Enter and leave events: leave for what the pointer left, innermost first,
\* then enter.
Leave(s, x) == IF s.w[x].track THEN SetHover(s, x, FALSE) ELSE s
Enter(s, x) == IF s.w[x].track THEN SetHover(s, x, Holds(s, x, s.pointer)) ELSE s
Crossing(s, to) ==
  LET left == SelectSeq(Upwards(s, s.pointer), LAMBDA x : x # Stage /\ ~Holds(s, x, to))
      entered == SelectSeq(Upwards(s, to), LAMBDA x : x # Stage /\ ~Holds(s, x, s.pointer))
  IN FoldLeft(Enter, FoldLeft(Leave, [s EXCEPT !.pointer = to], left), entered)
\* x leaves the screen, s is after and before is before: the stage moves its
\* pointer, with leave events, and its key focus off it.
Unmap(s, x, before) ==
  LET t == FoldLeft(UnmapOne, s, Reverse(Downwards(s, x)))
      left == SelectSeq(Upwards(before, before.pointer), LAMBDA y : y # Stage)
      u == IF Holds(before, x, before.pointer) THEN FoldLeft(Leave, [t EXCEPT !.pointer = Stage], left) ELSE t
  IN IF Holds(before, x, before.focus) THEN RemovePseudo([u EXCEPT !.focus = Stage], before.focus, "focus") ELSE u

---------------------------------------------------------------------------
(* The first and the last visible child carry a pseudo class. *)
FirstVisible(s, seq) ==
  IF \E i \in DOMAIN seq : s.w[seq[i]].visible
  THEN seq[CHOOSE i \in DOMAIN seq : s.w[seq[i]].visible /\ \A j \in 1..(i - 1) : ~s.w[seq[j]].visible] ELSE Nobody
SetFirstVisibleChild(s, p, x) ==
  IF s.w[p].first = x THEN s
  ELSE LET t == IF s.w[p].first = Nobody THEN s ELSE RemovePseudo(s, s.w[p].first, "first-child")
           u == IF x = Nobody THEN t ELSE AddPseudo(t, x, "first-child")
       IN [u EXCEPT !.w[p].first = x]
SetLastVisibleChild(s, p, x) ==
  IF s.w[p].last = x THEN s
  ELSE LET t == IF s.w[p].last = Nobody THEN s ELSE RemovePseudo(s, s.w[p].last, "last-child")
           u == IF x = Nobody THEN t ELSE AddPseudo(t, x, "last-child")
       IN [u EXCEPT !.w[p].last = x]
UpdateChildStyles(s, p) ==
  LET t == IF s.w[p].firstDirty
           THEN SetFirstVisibleChild([s EXCEPT !.w[p].firstDirty = FALSE], p, FirstVisible(s, s.children[p])) ELSE s
      u == IF t.w[p].lastDirty
           THEN SetLastVisibleChild([t EXCEPT !.w[p].lastDirty = FALSE], p, FirstVisible(t, Reverse(t.children[p]))) ELSE t
  IN [u EXCEPT !.w[p].idle = FALSE]
ChildrenDirty(s, p, first, last) ==
  [s EXCEPT !.w[p].firstDirty = @ \/ first, !.w[p].lastDirty = @ \/ last,
            !.w[p].idle = @ \/ first \/ last \/ s.w[p].firstDirty \/ s.w[p].lastDirty]
VisibleNotify(s, x) ==
  IF Parent(s, x) \in {Stage, Nobody} THEN s
  ELSE IF s.w[x].visible
  THEN ChildrenDirty(s, Parent(s, x), FirstVisible(s, Reverse(PreviousSiblings(s, x))) = Nobody,
                                      FirstVisible(s, NextSiblings(s, x)) = Nobody)
  ELSE ChildrenDirty(s, Parent(s, x), "first-child" \in Elements(s.w[x].pseudo), "last-child" \in Elements(s.w[x].pseudo))
\* notify::first-child and notify::last-child of a parent.
ChildrenNotify(s, p, before) ==
  LET now == s.children[p]
      End(seq, i) == IF seq = <<>> THEN Nobody ELSE seq[i]
  IN IF p = Stage THEN s
     ELSE ChildrenDirty(s, p, End(before, 1) # End(now, 1), End(before, Len(before)) # End(now, Len(now)))

DoShow(s, x) == IF s.w[x].visible THEN s ELSE VisibleNotify(Map([s EXCEPT !.w[x].visible = TRUE], x), x)
DoHide(s, x) ==
  LET hidden == [s EXCEPT !.w[x].visible = FALSE]
  IN VisibleNotify(IF Mapped(s, x) THEN Unmap(hidden, x, s) ELSE hidden, x)
\* A child is told of its parent, then mapped and shown; the parent is told last.
DoAddChild(s, p, x, atStart) ==
  LET put == [s EXCEPT !.children[p] = IF atStart THEN <<x>> \o @ ELSE Append(@, x)]
  IN ChildrenNotify(DoShow(Map(StyleChanged(put, x), x), x), p, s.children[p])
DoRemoveChild(s, x) ==
  LET p == Parent(s, x)
      out == [s EXCEPT !.children[p] = SelectSeq(@, LAMBDA y : y # x)]
      un == IF Mapped(s, x) THEN Unmap(out, x, s) ELSE out
  IN ChildrenNotify(StyleChanged(un, x), p, s.children[p])

---------------------------------------------------------------------------
(* The operations of the application, the events and the callbacks. *)
Do(new) == /\ ops < MaxOps
           /\ new # st
           /\ st' = new
           /\ ops' = ops + 1
AddChild(p, x, atStart) ==
  /\ Parent(st, x) = Nobody
  /\ p # Stage => ~Holds(st, x, p)
  /\ Do(DoAddChild(st, p, x, atStart))
RemoveChild(x) == /\ Parent(st, x) # Nobody
                  /\ Do(DoRemoveChild(st, x))
\* Destroying a widget destroys what is below it; its references to the first
\* and last visible child go without touching their pseudo classes.
Destroy(x) ==
  LET gone == Subtree(st, x)
      s == IF Parent(st, x) = Nobody THEN st ELSE DoRemoveChild(st, x)
  IN Do([s EXCEPT !.w = [y \in Widgets |-> IF y \in gone THEN FreshWidget ELSE s.w[y]],
                  !.children = [y \in Widgets \cup {Stage} |-> IF y \in gone THEN <<>> ELSE s.children[y]]])
Show(x) == /\ Parent(st, x) # Nobody
           /\ Do(DoShow(st, x))
Hide(x) == /\ st.w[x].visible
           /\ Parent(st, x) # Nobody
           /\ Do(DoHide(st, x))
SetStyleClassName(x, c) == /\ st.w[x].class # c
                           /\ Do(StyleChanged([st EXCEPT !.w[x].class = c], x))
SetStylePseudoClass(x, c) == /\ st.w[x].pseudo # <<c>>
                             /\ Do(StyleChanged([st EXCEPT !.w[x].pseudo = <<c>>], x))
AddStylePseudoClass(x, c) == Do(AddPseudo(st, x, c))
RemoveStylePseudoClass(x, c) == Do(RemovePseudo(st, x, c))
SetStyle(x, i) == /\ st.w[x].inline # i
                  /\ Do(StyleChanged([st EXCEPT !.w[x].inline = i], x))
SetReactive(x) ==
  LET s == UpdateInsensitive([st EXCEPT !.w[x].reactive = ~@], x)
  IN Do(IF s.w[x].track THEN SyncHover(s, x) ELSE s)
SetTrackHover(x) ==
  LET s == [st EXCEPT !.w[x].track = ~@]
  IN Do(IF s.w[x].track THEN SyncHover(s, x) ELSE SetHover(s, x, FALSE))
PointerMoves(to) == /\ to # Stage => Mapped(st, to) /\ st.w[to].reactive
                    /\ Do(Crossing(st, to))
\* Key focus moves between mapped widgets: focus out, then focus in.
KeyFocus(to) ==
  /\ to # Stage => Mapped(st, to)
  /\ st.focus # to
  /\ LET out == IF st.focus = Stage THEN st ELSE RemovePseudo(st, st.focus, "focus")
         moved == [out EXCEPT !.focus = to]
     IN Do(IF to = Stage THEN moved ELSE AddPseudo(moved, to, "focus"))
\* st_widget_get_theme_node() and st_widget_ensure_style() on any widget.
AskThemeNode(x) == Do(GetThemeNode(st, x))
AskEnsureStyle(x) == /\ OnStage(st, x)
                     /\ Do(EnsureStyle(st, x))
IdleUpdateChildStyles(x) == /\ st.w[x].idle
                            /\ Do(UpdateChildStyles(st, x))
\* st_theme_context_changed(): a theme, a font, a scale factor, an accent
\* colour or the resolution changed.
ContextChanged ==
  LET s == [st EXCEPT !.generation = @ + 1, !.root = NoNode]
  IN /\ st.generation < MaxGeneration
     /\ Do(IF s.connected THEN FoldLeft(StyleChanged, s, s.children[Stage]) ELSE s)
SetAnimations == Do([st EXCEPT !.animations = ~@])
\* The timeline of a transition: time passes, then it ends.
TransitionTick(x) == /\ st.w[x].transition # NoTransition
                     /\ ~st.w[x].transition.elapsed
                     /\ Do([st EXCEPT !.w[x].transition.elapsed = TRUE])
TransitionCompleted(x) == /\ st.w[x].transition # NoTransition
                          /\ st.w[x].transition.elapsed
                          /\ Do([st EXCEPT !.w[x].transition = NoTransition])

Bare == [w |-> [x \in Widgets |-> FreshWidget], children |-> [x \in Widgets \cup {Stage} |-> <<>>],
         generation |-> 0, root |-> NoNode, connected |-> FALSE,
         pointer |-> Stage, focus |-> Stage, animations |-> TRUE]
WidgetInit == /\ st \in Starts
              /\ ops = 0
WidgetNext ==
  \/ \E x \in Widgets :
       \/ \E p \in Widgets \cup {Stage}, atStart \in BOOLEAN : AddChild(p, x, atStart)
       \/ RemoveChild(x) \/ Destroy(x) \/ Show(x) \/ Hide(x)
       \/ \E c \in Classes : SetStyleClassName(x, c)
       \/ \E c \in Pseudos : SetStylePseudoClass(x, c) \/ AddStylePseudoClass(x, c) \/ RemoveStylePseudoClass(x, c)
       \/ \E i \in Inlines : SetStyle(x, i)
       \/ SetReactive(x) \/ SetTrackHover(x) \/ PointerMoves(x) \/ KeyFocus(x)
       \/ AskThemeNode(x) \/ AskEnsureStyle(x) \/ IdleUpdateChildStyles(x)
       \/ TransitionTick(x) \/ TransitionCompleted(x)
  \/ PointerMoves(Stage) \/ KeyFocus(Stage) \/ ContextChanged \/ SetAnimations
WidgetSpec == WidgetInit /\ [][WidgetNext]_widgetVars

---------------------------------------------------------------------------
\* A widget never keeps a theme node that another place in the tree, other
\* attributes above it or another theme made: dropping nodes in
\* st_widget_style_changed() reaches everything that depends on the change,
\* mapped or not; and what is mapped has its node and is not dirty.
StylesAreCurrent ==
  \A x \in Widgets :
    /\ st.w[x].node # NoNode => OnStage(st, x) /\ st.w[x].node = IdealNode(st, x)
    /\ Mapped(st, x) => st.w[x].node # NoNode /\ ~st.w[x].dirty
\* A running transition, reversed or not, ends where the widget's style is;
\* only mapped widgets have one.
TransitionsEndAtStyle ==
  \A x \in Widgets : st.w[x].transition # NoTransition =>
    Mapped(st, x) /\ TransitionTarget(st.w[x].transition) = st.w[x].node
\* A widget that tracks the pointer is hovered only while the pointer is in it.
HoverIsReal == \A x \in Widgets : st.w[x].hover => st.w[x].track /\ Mapped(st, x) /\ Holds(st, x, st.pointer)

\* A widget shows the style its place, its attributes, the pointer and the
\* theme give it, however they changed.
WidgetsAreStyled == StylesAreCurrent /\ TransitionsEndAtStyle /\ HoverIsReal
=============================================================================
