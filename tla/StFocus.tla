------------------------------- MODULE StFocus ------------------------------
(***************************************************************************)
(* Keyboard navigation: st_widget_navigate_focus() in st-widget.c and the  *)
(* focus groups of st-focus-manager.c.                                     *)
(***************************************************************************)
EXTENDS Integers, Sequences, FiniteSets
LOCAL INSTANCE SequencesExt

CONSTANTS
  Actors,       \* the widgets, all below the stage
  Kids,         \* children of each widget, in order
  ActorBox,     \* where each widget is: [x1, y1, x2, y2]
  Unfocused,    \* no actor
  Roots,        \* the widgets that become focus groups
  Hideable,     \* the widgets that may be hidden
  MaxGroupCount \* bound on repeated st_focus_manager_add_group()

VARIABLES
  canFocus,   \* widgets with the can-focus property
  hidden,     \* widgets that are not visible
  groups,     \* how often each widget was added as a focus group
  focused     \* the stage's key focus
focusVars == <<canFocus, hidden, groups, focused>>

TabForward == "tab-forward"
TabBackward == "tab-backward"
Directions == {TabForward, TabBackward, "up", "down", "left", "right"}

ParentOf(x) == IF \E p \in Actors : x \in {Kids[p][i] : i \in DOMAIN Kids[p]}
               THEN CHOOSE p \in Actors : x \in {Kids[p][i] : i \in DOMAIN Kids[p]} ELSE Unfocused
RECURSIVE Upward(_)
Upward(x) == IF x = Unfocused THEN <<>> ELSE <<x>> \o Upward(ParentOf(x))
Lineage == [x \in Actors |-> Upward(x)]
Parents == [x \in Actors |-> ParentOf(x)]
Holders == [x \in Actors |-> {Lineage[x][i] : i \in DOMAIN Lineage[x]}]
WithinGroup(x, y) == x \in Holders[y]
IsMapped(x) == Holders[x] \cap hidden = {}

---------------------------------------------------------------------------
(* Arrow keys: children in that direction, the nearest first. *)
FilterByPosition(children, box, direction) ==
  Reverse(SelectSeq(children, LAMBDA c :
    CASE direction = "up" -> ActorBox[c].y2 <= box.y1
      [] direction = "down" -> ActorBox[c].y1 >= box.y2
      [] direction = "left" -> ActorBox[c].x2 <= box.x1
      [] OTHER -> ActorBox[c].x1 >= box.x2))
Midpoint(a, b) == (a + b) \div 2
Distance(x, box) ==
  LET dx == Midpoint(ActorBox[x].x1, ActorBox[x].x2) - Midpoint(box.x1, box.x2)
      dy == Midpoint(ActorBox[x].y1, ActorBox[x].y2) - Midpoint(box.y1, box.y2)
  IN dx * dx + dy * dy
\* g_list_sort_with_data() is stable: x goes behind everything not farther.
ByDistance(children, box) ==
  FoldLeft(LAMBDA sorted, x :
             SelectSeq(sorted, LAMBDA y : Distance(y, box) <= Distance(x, box)) \o <<x>>
             \o SelectSeq(sorted, LAMBDA y : Distance(y, box) > Distance(x, box)), <<>>, children)
\* Coming from nowhere, the search starts at the edge that is entered.
EntryEdge(box, direction) ==
  CASE direction = "up" -> [box EXCEPT !.y1 = box.y2]
    [] direction = "down" -> [box EXCEPT !.y2 = box.y1]
    [] direction = "left" -> [box EXCEPT !.x1 = box.x2]
    [] OTHER -> [box EXCEPT !.x2 = box.x1]

\* st_widget_get_focus_chain(): the visible children.
FocusChain(x) == SelectSeq(Kids[x], LAMBDA y : y \notin hidden)
After(seq, x) == IF \E i \in DOMAIN seq : seq[i] = x
                 THEN SubSeq(seq, (CHOOSE i \in DOMAIN seq : seq[i] = x) + 1, Len(seq)) ELSE <<>>
\* Mutant: Shift+Tab cuts the chain before it turns it round.
CandidatesCut(x, child, from, direction) ==
  IF direction \in {TabForward, TabBackward}
  THEN LET rest == IF child = Unfocused THEN FocusChain(x) ELSE After(FocusChain(x), child)
       IN IF direction = TabBackward THEN Reverse(rest) ELSE rest
  ELSE ByDistance(FocusChain(x), EntryEdge(ActorBox[x], direction))
\* The children to try, in order; child is the one the focus comes from.
Candidates(x, child, from, direction) ==
  LET chain == IF direction = TabBackward THEN Reverse(FocusChain(x)) ELSE FocusChain(x)
  IN IF direction \in {TabForward, TabBackward}
     THEN IF child = Unfocused THEN chain ELSE After(chain, child)
     ELSE IF from = Unfocused THEN ByDistance(chain, EntryEdge(ActorBox[x], direction))
     ELSE ByDistance(FilterByPosition(chain, ActorBox[from], direction), ActorBox[from])

\* The child of x that holds from.
FocusChild(x, from) ==
  IF from # Unfocused /\ from # x /\ WithinGroup(x, from)
  THEN CHOOSE c \in Actors : Parents[c] = x /\ WithinGroup(c, from) ELSE Unfocused
\* st_widget_real_navigate_focus(): the widget that gets the focus, or none.
\* The first of the candidates that has something to focus gets it.
RECURSIVE Navigate(_, _, _), FirstFocusable(_, _, _)
FirstFocusable(children, from, direction) ==
  IF children = <<>> THEN Unfocused
  ELSE LET r == Navigate(Head(children), from, direction)
       IN IF r # Unfocused THEN r ELSE FirstFocusable(Tail(children), from, direction)
Navigate(x, from, direction) ==
  LET child == FocusChild(x, from) IN
  IF from = x THEN Unfocused
  ELSE IF x \in canFocus THEN IF child = Unfocused /\ IsMapped(x) THEN x ELSE Unfocused
  ELSE LET deeper == IF child = Unfocused THEN Unfocused ELSE Navigate(child, from, direction)
       IN IF deeper # Unfocused THEN deeper ELSE FirstFocusable(Candidates(x, child, from, direction), from, direction)
NavigateFocus(x, from, direction, wrapAround) ==
  LET r == Navigate(x, from, direction)
  IN IF r = Unfocused /\ wrapAround /\ from # Unfocused /\ WithinGroup(x, from) THEN Navigate(x, Unfocused, direction) ELSE r

---------------------------------------------------------------------------
(* st-focus-manager.c *)
FocusGroup(x) == IF \E i \in DOMAIN Lineage[x] : groups[Lineage[x][i]] > 0
                 THEN Lineage[x][CHOOSE i \in DOMAIN Lineage[x] : groups[Lineage[x][i]] > 0
                                    /\ \A j \in 1..(i - 1) : groups[Lineage[x][j]] = 0] ELSE Unfocused
StageEvent(direction) ==
  /\ focused # Unfocused
  /\ FocusGroup(focused) # Unfocused
  /\ LET r == NavigateFocus(FocusGroup(focused), focused, direction, direction \in {TabForward, TabBackward})
     IN focused' = IF r = Unfocused THEN focused ELSE r
  /\ UNCHANGED <<canFocus, hidden, groups>>
AddGroup(x) == /\ groups[x] < MaxGroupCount
               /\ groups' = [groups EXCEPT ![x] = @ + 1]
               /\ UNCHANGED <<canFocus, hidden, focused>>
RemoveGroup(x) == /\ groups[x] > 0
                  /\ groups' = [groups EXCEPT ![x] = @ - 1]
                  /\ UNCHANGED <<canFocus, hidden, focused>>
\* The application focuses something, in a group or not.
GrabFocus(x) == /\ IsMapped(x)
                /\ focused' = x
                /\ UNCHANGED <<canFocus, hidden, groups>>

FocusInit == /\ canFocus \in SUBSET Actors
             /\ hidden \in SUBSET Hideable
             /\ groups = [x \in Actors |-> 0]
             /\ focused = Unfocused
FocusNext == \/ \E d \in Directions : StageEvent(d)
             \/ \E x \in Roots : AddGroup(x) \/ RemoveGroup(x)
             \/ \E x \in Actors : GrabFocus(x)
FocusSpec == FocusInit /\ [][FocusNext]_focusVars

---------------------------------------------------------------------------
\* What can be reached in a group: mapped, focusable, and not inside a
\* focusable widget, which takes a single slot of the focus chain.
Focusables(g) == {x \in Actors : WithinGroup(g, x) /\ x # g /\ x \in canFocus /\ IsMapped(x)
                     /\ \A y \in canFocus : WithinGroup(g, y) /\ WithinGroup(y, x) => y = x}
\* What n steps of Tab visit, next being where a key moves the focus.
RECURSIVE Visited(_, _, _, _)
Visited(next, g, x, n) ==
  IF n = 0 THEN {} ELSE UNION {{r} \cup Visited(next, g, r, n - 1) : r \in {next[g, x, TabForward]}}
\* Tab goes round a group: from any widget of it every other one is reached,
\* each once per round, and Shift+Tab takes every step back.
GoesRound(next, g, xs) ==
  \A x \in xs : /\ Visited(next, g, x, Cardinality(xs)) = xs
               /\ next[g, next[g, x, TabForward], TabBackward] = x
TabGoesRound(next) ==
  \A g \in Roots : groups[g] > 0 /\ g \notin canFocus => GoesRound(next, g, Focusables(g))
\* An arrow key only moves the focus to something that lies that way.
ArrowsGoTheirWay(next) ==
  \A g \in Roots, x \in Actors, d \in Directions \ {TabForward, TabBackward} :
    groups[g] > 0 /\ WithinGroup(g, x) => \A r \in {next[g, x, d]} \ {Unfocused} :
      CASE d = "up" -> ActorBox[r].y2 <= ActorBox[x].y1 [] d = "down" -> ActorBox[r].y1 >= ActorBox[x].y2
        [] d = "left" -> ActorBox[r].x2 <= ActorBox[x].x1 [] OTHER -> ActorBox[r].x1 >= ActorBox[x].x2

\* Keys move the focus where they say, whatever is hidden or not focusable.
Moves(next) == TabGoesRound(next) /\ ArrowsGoTheirWay(next)
FocusMovesAsAsked ==
  Moves([g \in Roots, x \in Actors, d \in Directions |-> NavigateFocus(g, x, d, d \in {TabForward, TabBackward})])
=============================================================================
