----------------------------- MODULE ModalStack -----------------------------
(***************************************************************************)
(* The stack of modal actors of js/ui/main.js: pushModal, popModal and the *)
(* `destroy' handlers they connect.  A grab stands for its index in        *)
(* modalActorFocusStack, which is what _findModal looks up.                *)
(*                                                                         *)
(* Two fields of a record are history, which the code does not keep: own,  *)
(* the action mode the modal asked for, and cover, the key focus at the    *)
(* time the next modal was pushed on top of it.                            *)
(*                                                                         *)
(* An actor may be modal several times.  When it is destroyed, the handler *)
(* of each of its grabs pops its own record, in the order they were pushed *)
(* in; each handler is a step here, and nothing comes between them.        *)
(***************************************************************************)
EXTENDS Integers, Sequences, FiniteSets, TLC

CONSTANTS
  Actors,     \* actors other than the stage
  Stage,      \* global.stage
  Null,       \* no actor
  ModalModes, \* action modes modals ask for
  MaxDepth    \* bound on the depth of the stack

ASSUME ActorsAssumption == Stage \notin Actors /\ Null \notin Actors \cup {Stage}
ASSUME DepthAssumption == MaxDepth \in Nat

VARIABLES
  modals,      \* modalActorFocusStack
  modalCount,
  actionMode,
  unredirect,  \* the compositor may unredirect windows
  focus,       \* key focus of the stage
  handlers,    \* handlers connected to `destroy' of an actor for its prevFocus
  destroyed,   \* actors that were destroyed
  dying,       \* the actor whose `destroy' is being emitted, or Null
  baseCover,   \* history: the key focus when the first modal was pushed
  shallow,     \* history: no record was popped from far below the top yet
  mistaken     \* history: a grab that is not on the stack was popped

historyVars == <<baseCover, shallow, mistaken>>
modalVars == <<modals, modalCount, actionMode, unredirect, focus, handlers, destroyed,
               dying, historyVars>>

Modes == ModalModes \cup {"NORMAL"}

Record == [actor : Actors \cup {Stage}, prevFocus : Actors \cup {Null}, mode : Modes,
           own : ModalModes, cover : Actors \cup {Null}]

ModalInit ==
  /\ modals = <<>> /\ modalCount = 0
  /\ actionMode = "NORMAL" /\ unredirect = TRUE
  /\ focus = Null /\ handlers = [a \in Actors |-> 0] /\ destroyed = {} /\ dying = Null
  /\ baseCover = Null /\ shallow = TRUE /\ mistaken = FALSE

\* Some actor takes the key focus (keyboard navigation, a click, grab_key_focus).
MoveFocus(a) ==
  /\ dying = Null
  /\ a \notin destroyed /\ focus # a
  /\ focus' = a
  /\ UNCHANGED <<modals, modalCount, actionMode, unredirect, handlers, destroyed,
                 dying, historyVars>>

\* The stack with the cover of its topmost record noted.
Covered == [k \in 1 .. Len(modals) |->
              IF k = Len(modals) THEN [modals[k] EXCEPT !.cover = focus] ELSE modals[k]]

\* Mutant: the stage itself gets the key focus.
FocusOfAny(a) == a

\* What gets the key focus when a becomes modal.
FocusOfModal(a) == IF a = Stage THEN Null ELSE a

PushModal(a, m) ==
  /\ dying = Null
  /\ Len(modals) < MaxDepth
  /\ a \notin destroyed
  /\ unredirect' = (unredirect /\ modalCount # 0)
  /\ modalCount' = modalCount + 1
  /\ handlers' = IF focus = Null THEN handlers ELSE [handlers EXCEPT ![focus] = @ + 1]
  /\ modals' = Append(Covered, [actor |-> a, prevFocus |-> focus, mode |-> actionMode,
                                own |-> m, cover |-> Null])
  /\ baseCover' = IF modals = <<>> THEN focus ELSE baseCover
  /\ actionMode' = m
  /\ focus' = FocusOfModal(a)
  /\ UNCHANGED <<destroyed, dying, shallow, mistaken>>

\* Mutant: a record removed from the middle takes its saved values along.
RemoveNoShift(s, i) ==
  [k \in 1 .. (Len(s) - 1) |-> IF k < i THEN s[k] ELSE s[k + 1]]

\* Removes record i: every record above it inherits the saved focus and mode of
\* the one below.  For the topmost record that is plain removal.
RemoveModal(s, i) ==
  [k \in 1 .. (Len(s) - 1) |->
     IF k < i THEN s[k]
     ELSE [s[k + 1] EXCEPT !.prevFocus = s[k].prevFocus, !.mode = s[k].mode]]

\* Mutant: the handler of the topmost record is forgotten about.
KeepTopmost(h) == h

\* Either way the handler of the topmost record is the one to be disconnected.
DisconnectTopmost(h) ==
  LET prev == modals[Len(modals)].prevFocus
  IN  IF prev = Null THEN h ELSE [h EXCEPT ![prev] = @ - 1]

\* clutter_stage_set_key_focus gives no focus to an actor in destruction.
FocusOn(a, gone) == IF a \in gone THEN Null ELSE a

\* Mutant: the end of the last modal leaves the compositor alone.
ModalEndedSilently(mode) == /\ actionMode' = mode /\ UNCHANGED unredirect

\* Mutant: the saved mode is not restored.
ModalEndedNormal(mode) ==
  \/ modalCount > 1 /\ actionMode' = "NORMAL" /\ UNCHANGED unredirect
  \/ modalCount <= 1 /\ actionMode' = "NORMAL" /\ unredirect' = TRUE

\* The tail of popModal, mode being the action mode so far.
ModalEnded(mode) ==
  \/ modalCount > 1 /\ actionMode' = mode /\ UNCHANGED unredirect
  \/ modalCount <= 1 /\ actionMode' = "NORMAL" /\ unredirect' = TRUE

\* popModal for record i, where the actors in gone can get no key focus.
PopRecord(i, gone) ==
  /\ modalCount' = modalCount - 1
  /\ ModalEnded(IF i = Len(modals) THEN modals[i].mode ELSE actionMode)
  /\ modals' = RemoveModal(modals, i)
  /\ handlers' = DisconnectTopmost(handlers)
  /\ focus' = IF i = Len(modals) THEN FocusOn(modals[i].prevFocus, gone) ELSE focus
  /\ shallow' = (shallow /\ i >= Len(modals) - 1)
  /\ UNCHANGED <<destroyed, dying, baseCover, mistaken>>

PopModal(i) == dying = Null /\ PopRecord(i, destroyed)

\* popModal with a grab that is not on the stack, for instance one that was
\* popped when its actor was destroyed.
IncorrectPop ==
  /\ dying = Null
  /\ focus' = Null /\ actionMode' = "NORMAL"
  /\ mistaken' = TRUE
  /\ UNCHANGED <<modals, modalCount, unredirect, handlers, destroyed, dying,
                 baseCover, shallow>>

\* Each of n handlers clears the first record it finds with prevFocus a; the
\* history forgets the actor too.
ClearFocus(s, a, n) ==
  [k \in 1 .. Len(s) |->
     [s[k] EXCEPT
        !.prevFocus = IF /\ @ = a
                         /\ Cardinality({j \in 1 .. k : s[j].prevFocus = a}) <= n
                      THEN Null ELSE @,
        !.cover = IF @ = a THEN Null ELSE @]]

\* An actor is destroyed: its `destroy' handlers run.
Destroy(a) ==
  /\ dying = Null /\ a \notin destroyed
  /\ dying' = a
  /\ UNCHANGED <<modals, modalCount, actionMode, unredirect, focus, handlers, destroyed,
                 historyVars>>

\* The first grab of the actor that is left is popped by its handler.
DestroyPops(i) ==
  /\ dying # Null /\ modals[i].actor = dying
  /\ \A k \in 1 .. (i - 1) : modals[k].actor # dying
  /\ PopRecord(i, destroyed \cup {dying})

\* The handlers for the saved focus clear their records, and the actor is gone.
DestroyEnds ==
  /\ dying # Null /\ \A k \in 1 .. Len(modals) : modals[k].actor # dying
  /\ destroyed' = destroyed \cup {dying}
  /\ modals' = ClearFocus(modals, dying, handlers[dying])
  /\ handlers' = [handlers EXCEPT ![dying] = 0]
  /\ focus' = FocusOn(focus, destroyed')
  /\ baseCover' = FocusOn(baseCover, destroyed')
  /\ dying' = Null
  /\ UNCHANGED <<modalCount, actionMode, unredirect, shallow, mistaken>>

ModalNext ==
  \/ \E a \in Actors : MoveFocus(a)
  \/ \E a \in Actors \cup {Stage}, m \in ModalModes : PushModal(a, m)
  \/ \E i \in 1 .. Len(modals) : PopModal(i)
  \/ IncorrectPop
  \/ \E a \in Actors : Destroy(a)
  \/ \E i \in 1 .. Len(modals) : DestroyPops(i)
  \/ DestroyEnds

ModalSpec == ModalInit /\ [][ModalNext]_modalVars

-----------------------------------------------------------------------------
(* Properties.                                                             *)

\* Every variable stays in its type.
ModalTypeOK ==
  /\ modals \in Seq(Record) /\ modalCount \in Nat
  /\ actionMode \in Modes /\ unredirect \in BOOLEAN
  /\ focus \in Actors \cup {Null}
  /\ handlers \in [Actors -> Int] /\ destroyed \in SUBSET Actors
  /\ dying \in Actors \cup {Null}
  /\ baseCover \in Actors \cup {Null} /\ shallow \in BOOLEAN /\ mistaken \in BOOLEAN

\* modalCount, kept apart from the stack, agrees with it, and the compositor
\* must not unredirect windows exactly while some modal is shown.
CountsAgree ==
  /\ modalCount = Len(modals)
  /\ unredirect <=> modals = <<>>

\* The modes that may be in force above the mode m: popping what is not on the
\* stack resets the mode, and what is pushed then saves that.
Above(m) == IF mistaken THEN {m, "NORMAL"} ELSE {m}

\* As long as grabs are popped from the top or from right below it, a record
\* saves the mode of the modal below it and the current mode is the top's, so
\* popping gives each modal its key bindings back.  An incorrect pop may cost
\* a modal its bindings but never gives it those of another one.
ModesNest ==
  shallow =>
    /\ \A k \in 1 .. Len(modals) :
         modals[k].mode \in Above(IF k = 1 THEN "NORMAL" ELSE modals[k - 1].own)
    /\ actionMode \in Above(IF modals = <<>> THEN "NORMAL" ELSE modals[Len(modals)].own)

\* The focus saved by a record is the focus its predecessor had when covered.
FocusChain ==
  \A k \in 1 .. Len(modals) :
    modals[k].prevFocus = IF k = 1 THEN baseCover ELSE modals[k - 1].cover

\* Under the same condition focus returns to where it was, an incorrect pop or
\* not: what is pushed after one saves the focus that one left.
FocusNests == shallow => FocusChain

\* No record refers to a destroyed actor: every one of them has a `destroy'
\* handler connected that will clear it, however records were removed.
NoDestroyedFocus ==
  /\ \A k \in 1 .. Len(modals) : modals[k].prevFocus \notin destroyed
  /\ \A a \in Actors :
       handlers[a] = Cardinality({k \in 1 .. Len(modals) : modals[k].prevFocus = a})

\* For TLC: actors are told apart by nothing.
ActorSymmetry == Permutations(Actors)

=============================================================================
