-------------------------- MODULE ModalStackProofs --------------------------
(* Invariants of the modal stack, for any actors, modes and depth.         *)
EXTENDS ModalStack, FiniteSetTheorems, TLAPS

-----------------------------------------------------------------------------
(* What the operations do to the stack.                                    *)

\* A function on 1 .. n into Record is a sequence of records of length n.
LEMMA RecordSeq ==
  ASSUME NEW n \in Nat, NEW f, f \in [1 .. n -> Record]
  PROVE  f \in Seq(Record) /\ Len(f) = n
  OBVIOUS

\* Removing a record leaves the saved modes where they were and takes out the
\* mode the removed modal asked for.
LEMMA RemoveFacts ==
  ASSUME NEW s \in Seq(Record), NEW i \in 1 .. Len(s)
  PROVE  /\ RemoveModal(s, i) \in Seq(Record)
         /\ Len(RemoveModal(s, i)) = Len(s) - 1
         /\ \A k \in 1 .. (Len(s) - 1) :
              /\ RemoveModal(s, i)[k].mode = s[k].mode
              /\ RemoveModal(s, i)[k].own = IF k < i THEN s[k].own ELSE s[k + 1].own
<1> DEFINE r == RemoveModal(s, i)
<1>1. \A k \in 1 .. Len(s) : s[k] \in Record
  OBVIOUS
<1>2. \A k \in 1 .. (Len(s) - 1) :
        /\ k \in 1 .. Len(s) /\ k + 1 \in 1 .. Len(s)
        /\ r[k] = IF k < i THEN s[k]
                  ELSE [s[k + 1] EXCEPT !.prevFocus = s[k].prevFocus, !.mode = s[k].mode]
  BY DEF RemoveModal
<1>3. ASSUME NEW k \in 1 .. (Len(s) - 1)
      PROVE  /\ r[k] \in Record
             /\ r[k].mode = s[k].mode
             /\ r[k].own = IF k < i THEN s[k].own ELSE s[k + 1].own
  <2>1. s[k] \in Record /\ s[k + 1] \in Record
    BY <1>1, <1>2
  <2>2. CASE k < i
    BY <2>1, <2>2, <1>2
  <2>3. CASE ~(k < i)
    <3>1. r[k] = [s[k + 1] EXCEPT !.prevFocus = s[k].prevFocus, !.mode = s[k].mode]
      BY <2>3, <1>2
    <3> HIDE DEF r
    <3> QED BY <2>1, <2>3, <3>1 DEF Record
  <2> QED BY <2>2, <2>3
<1>4. Len(s) - 1 \in Nat /\ r \in [1 .. (Len(s) - 1) -> Record]
  <2>1. r = [k \in 1 .. (Len(s) - 1) |-> r[k]]
    BY DEF RemoveModal
  <2> HIDE DEF r
  <2> QED BY <1>3, <2>1
<1>5. r \in Seq(Record) /\ Len(r) = Len(s) - 1
  BY <1>4, RecordSeq
<1> QED BY <1>3, <1>5

\* Clearing an actor from the records leaves modes alone.
LEMMA ClearFacts ==
  ASSUME NEW s \in Seq(Record), NEW a \in Actors, NEW n \in Int
  PROVE  /\ ClearFocus(s, a, n) \in Seq(Record)
         /\ Len(ClearFocus(s, a, n)) = Len(s)
         /\ \A k \in 1 .. Len(s) : /\ ClearFocus(s, a, n)[k].mode = s[k].mode
                                   /\ ClearFocus(s, a, n)[k].own = s[k].own
<1> DEFINE r == ClearFocus(s, a, n)
<1>1. ASSUME NEW k \in 1 .. Len(s)
      PROVE  r[k] \in Record /\ r[k].mode = s[k].mode /\ r[k].own = s[k].own
  <2> DEFINE p == IF /\ s[k].prevFocus = a
                     /\ Cardinality({j \in 1 .. k : s[j].prevFocus = a}) <= n
                  THEN Null ELSE s[k].prevFocus
             c == IF s[k].cover = a THEN Null ELSE s[k].cover
  <2>1. s[k] \in Record
    OBVIOUS
  <2>2. r[k] = [s[k] EXCEPT !.prevFocus = p, !.cover = c]
    BY DEF ClearFocus
  <2>3. p \in Actors \cup {Null} /\ c \in Actors \cup {Null}
    BY <2>1 DEF Record
  <2> HIDE DEF p, c, r
  <2> QED BY <2>1, <2>2, <2>3 DEF Record
<1>2. Len(s) \in Nat /\ r \in [1 .. Len(s) -> Record]
  <2>1. r = [k \in 1 .. Len(s) |-> r[k]]
    BY DEF ClearFocus
  <2> HIDE DEF r
  <2> QED BY <1>1, <2>1
<1> QED BY <1>1, <1>2, RecordSeq

-----------------------------------------------------------------------------
(* The inductive invariant.                                                *)

IInv == ModalTypeOK /\ CountsAgree /\ ModesNest

\* popModal, called by its owner or by a destroy handler, keeps the counts and
\* the nesting of the modes.
LEMMA PopKeepsIInv ==
  ASSUME IInv, NEW i \in 1 .. Len(modals), NEW gone \in SUBSET Actors, PopRecord(i, gone)
  PROVE  IInv'
<1> DEFINE n == Len(modals)
           r == RemoveModal(modals, i)
<1>1. /\ modals \in Seq(Record) /\ n \in Nat /\ modalCount = n
      /\ unredirect \in BOOLEAN /\ actionMode \in Modes /\ shallow \in BOOLEAN
      /\ handlers \in [Actors -> Int] /\ focus \in Actors \cup {Null} /\ n \in 1 .. n
      /\ \A k \in 1 .. n : modals[k] \in Record
  BY DEF IInv, ModalTypeOK, CountsAgree
<1>2. /\ Len(r) = n - 1
      /\ \A k \in 1 .. (n - 1) :
           /\ r[k].mode = modals[k].mode
           /\ r[k].own = IF k < i THEN modals[k].own ELSE modals[k + 1].own
  BY <1>1, RemoveFacts
<1>3. /\ modals' \in Seq(Record) /\ Len(modals') = n - 1
      /\ \A k \in 1 .. (n - 1) :
           /\ modals'[k].mode = modals[k].mode
           /\ modals'[k].own = IF k < i THEN modals[k].own ELSE modals[k + 1].own
  BY <1>1, RemoveFacts DEF PopRecord
<1>4. /\ modalCount' = n - 1 /\ shallow' = (shallow /\ i >= n - 1)
      /\ UNCHANGED <<destroyed, dying, baseCover, mistaken>>
      /\ ModalEnded(IF i = n THEN modals[i].mode ELSE actionMode)
  BY <1>1 DEF PopRecord
<1>5. (modals' = <<>>) <=> (n = 1)
  BY <1>1, <1>3
<1>6. /\ n > 1 => actionMode' = (IF i = n THEN modals[i].mode ELSE actionMode)
                  /\ unredirect' = unredirect
      /\ n = 1 => actionMode' = "NORMAL" /\ unredirect' = TRUE
  BY <1>1, <1>4 DEF ModalEnded
<1>7. CountsAgree'
  <2>1. modalCount' = Len(modals')
    BY <1>3, <1>4
  <2>2. n > 1 => ~unredirect /\ ~unredirect'
    BY <1>1, <1>6 DEF IInv, CountsAgree
  <2>3. unredirect' <=> modals' = <<>>
    BY <1>1, <1>5, <1>6, <2>2
  <2> QED BY <2>1, <2>3 DEF CountsAgree
<1>8. ModesNest'
  <2> SUFFICES ASSUME shallow'
               PROVE  /\ \A k \in 1 .. Len(modals') :
                           modals'[k].mode \in
                             Above(IF k = 1 THEN "NORMAL" ELSE modals'[k - 1].own)
                      /\ actionMode' \in Above(IF modals' = <<>> THEN "NORMAL"
                                               ELSE modals'[Len(modals')].own)
    BY <1>4 DEF ModesNest, Above
  <2>1. shallow /\ i >= n - 1
    BY <1>4
  <2>2. /\ \A k \in 1 .. n :
             modals[k].mode \in Above(IF k = 1 THEN "NORMAL" ELSE modals[k - 1].own)
        /\ actionMode \in Above(modals[n].own)
    BY <2>1, <1>1 DEF IInv, ModesNest
  <2>3. ASSUME NEW k \in 1 .. (n - 1)
        PROVE  modals'[k].mode \in Above(IF k = 1 THEN "NORMAL" ELSE modals'[k - 1].own)
    <3>1. modals'[k].mode = modals[k].mode /\ k \in 1 .. n
      BY <1>1, <1>3
    <3>2. k # 1 => k - 1 \in 1 .. (n - 1) /\ k - 1 < i
      BY <1>1, <2>1
    <3> QED BY <1>3, <2>2, <3>1, <3>2
  <2>4. actionMode' \in Above(IF modals' = <<>> THEN "NORMAL" ELSE modals'[n - 1].own)
    <3>1. CASE n = 1
      BY <3>1, <1>5, <1>6 DEF Above
    <3>2. CASE n # 1 /\ i = n
      <4>1. n > 1 /\ n - 1 \in 1 .. (n - 1) /\ n - 1 < i /\ n \in 1 .. n
        BY <3>2, <1>1
      <4> QED BY <3>2, <4>1, <1>3, <1>5, <1>6, <2>2
    <3>3. CASE n # 1 /\ i # n
      <4>1. n > 1 /\ n - 1 \in 1 .. (n - 1) /\ ~(n - 1 < i) /\ (n - 1) + 1 = n
        BY <3>3, <1>1, <2>1
      <4> QED BY <3>3, <4>1, <1>3, <1>5, <1>6, <2>2
    <3> QED BY <3>1, <3>2, <3>3
  <2> QED BY <1>3, <2>3, <2>4
<1>9. actionMode' \in Modes
  <2>1. modals[i].mode \in Modes /\ "NORMAL" \in Modes
    BY <1>1 DEF Record, Modes
  <2>2. n = 1 \/ n > 1
    BY <1>1
  <2> QED BY <1>1, <1>6, <2>1, <2>2
<1>10. unredirect' \in BOOLEAN /\ shallow' \in BOOLEAN
  <2>1. n = 1 \/ n > 1
    BY <1>1
  <2>2. unredirect' = unredirect \/ unredirect' = TRUE
    BY <1>6, <2>1
  <2> QED BY Zenon, <2>2, <1>1, <1>4
<1>11. focus' \in Actors \cup {Null}
  BY <1>1 DEF PopRecord, FocusOn, Record
<1>12. handlers' \in [Actors -> Int]
  <2>1. modals[n].prevFocus \in Actors \cup {Null}
    BY <1>1 DEF Record
  <2> QED BY <1>1, <2>1 DEF PopRecord, DisconnectTopmost
<1>13. ModalTypeOK'
  BY <1>1, <1>3, <1>4, <1>9, <1>10, <1>11, <1>12 DEF IInv, ModalTypeOK
<1> QED BY <1>7, <1>8, <1>13 DEF IInv

\* pushModal saves the mode in force, which is that of the modal below.
LEMMA PushKeepsIInv ==
  ASSUME IInv, NEW a \in Actors \cup {Stage}, NEW m \in ModalModes, PushModal(a, m)
  PROVE  IInv'
<1> DEFINE n == Len(modals)
           e == [actor |-> a, prevFocus |-> focus, mode |-> actionMode,
                 own |-> m, cover |-> Null]
<1>1. /\ modals \in Seq(Record) /\ n \in Nat /\ modalCount = n
      /\ \A k \in 1 .. n : modals[k] \in Record
      /\ focus \in Actors \cup {Null} /\ actionMode \in Modes
      /\ (modals = <<>>) <=> (n = 0)
  BY DEF IInv, ModalTypeOK, CountsAgree
<1>2. ASSUME NEW k \in 1 .. n
      PROVE  /\ Covered[k] \in Record
             /\ Covered[k].mode = modals[k].mode /\ Covered[k].own = modals[k].own
  <2>1. modals[k] \in Record
    BY <1>1
  <2>2. Covered[k] = IF k = n THEN [modals[k] EXCEPT !.cover = focus] ELSE modals[k]
    BY DEF Covered
  <2> QED BY <2>1, <2>2, <1>1 DEF Record
<1>3. Covered \in Seq(Record) /\ Len(Covered) = n
  <2>1. Covered = [k \in 1 .. n |-> Covered[k]]
    BY DEF Covered
  <2>2. Covered \in [1 .. n -> Record]
    BY <1>2, <2>1
  <2> QED BY <1>1, <2>2, RecordSeq
<1>4. e \in Record /\ e.own = m /\ e.mode = actionMode
  BY <1>1 DEF Record
<1>5. /\ modals' = Append(Covered, e) /\ modalCount' = n + 1 /\ actionMode' = m
      /\ unredirect' = (unredirect /\ modalCount # 0)
      /\ handlers' = (IF focus = Null THEN handlers ELSE [handlers EXCEPT ![focus] = @ + 1])
      /\ baseCover' = (IF modals = <<>> THEN focus ELSE baseCover)
      /\ focus' = (IF a = Stage THEN Null ELSE a)
      /\ UNCHANGED <<destroyed, dying, shallow, mistaken>>
  BY <1>1 DEF PushModal, FocusOfModal
<1> HIDE DEF e
<1>6. /\ modals' \in Seq(Record) /\ Len(modals') = n + 1 /\ modals' # <<>>
      /\ modals'[n + 1] = e
      /\ \A k \in 1 .. n : modals'[k] = Covered[k]
  BY <1>1, <1>3, <1>4, <1>5
<1>7. ModalTypeOK'
  <2>1. unredirect' \in BOOLEAN
    BY Zenon, <1>5 DEF IInv, ModalTypeOK
  <2>2. handlers' \in [Actors -> Int]
    BY <1>1, <1>5 DEF IInv, ModalTypeOK
  <2> QED BY <1>1, <1>5, <1>6, <2>1, <2>2 DEF IInv, ModalTypeOK, Modes
<1>8. CountsAgree'
  BY <1>1, <1>5, <1>6 DEF IInv, CountsAgree
<1>9. ModesNest'
  <2> SUFFICES ASSUME shallow'
               PROVE  /\ \A k \in 1 .. Len(modals') :
                           modals'[k].mode \in
                             Above(IF k = 1 THEN "NORMAL" ELSE modals'[k - 1].own)
                      /\ actionMode' \in Above(IF modals' = <<>> THEN "NORMAL"
                                               ELSE modals'[Len(modals')].own)
    BY <1>5 DEF ModesNest, Above
  <2>1. /\ \A k \in 1 .. n :
             modals[k].mode \in Above(IF k = 1 THEN "NORMAL" ELSE modals[k - 1].own)
        /\ actionMode \in Above(IF n = 0 THEN "NORMAL" ELSE modals[n].own)
    BY <1>1, <1>5 DEF IInv, ModesNest
  <2>2. ASSUME NEW k \in 1 .. (n + 1)
        PROVE  modals'[k].mode \in Above(IF k = 1 THEN "NORMAL" ELSE modals'[k - 1].own)
    <3>1. CASE k = n + 1
      <4>1. modals'[k].mode = actionMode
        BY <3>1, <1>4, <1>6
      <4>2. n # 0 => k - 1 = n /\ n \in 1 .. n /\ k # 1
        BY <1>1, <3>1
      <4>3. n # 0 => modals'[n].own = modals[n].own
        BY <4>2, <1>2, <1>6
      <4> QED BY <3>1, <4>1, <4>2, <4>3, <2>1, <1>1
    <3>2. CASE k # n + 1
      <4>1. k \in 1 .. n /\ (k # 1 => k - 1 \in 1 .. n)
        BY <3>2, <1>1
      <4> QED BY <4>1, <1>2, <1>6, <2>1
    <3> QED BY <3>1, <3>2
  <2> QED BY <1>4, <1>5, <1>6, <2>2 DEF Above
<1> QED BY <1>7, <1>8, <1>9 DEF IInv

\* The end of a destruction: clearing saved focuses leaves the modes alone.
LEMMA DestroyEndsKeepsIInv ==
  ASSUME IInv, DestroyEnds
  PROVE  IInv'
<1>1. /\ handlers \in [Actors -> Int] /\ destroyed \in SUBSET Actors /\ dying \in Actors
      /\ focus \in Actors \cup {Null} /\ baseCover \in Actors \cup {Null}
      /\ modals \in Seq(Record)
  BY DEF IInv, ModalTypeOK, DestroyEnds
<1>2. /\ modals' = ClearFocus(modals, dying, handlers[dying])
      /\ destroyed' = destroyed \cup {dying} /\ dying' = Null
      /\ handlers' = [handlers EXCEPT ![dying] = 0]
      /\ focus' = FocusOn(focus, destroyed') /\ baseCover' = FocusOn(baseCover, destroyed')
      /\ UNCHANGED <<modalCount, actionMode, unredirect, shallow, mistaken>>
  BY DEF DestroyEnds
<1>3. /\ modals' \in Seq(Record) /\ Len(modals') = Len(modals)
      /\ \A k \in 1 .. Len(modals) : /\ modals'[k].mode = modals[k].mode
                                     /\ modals'[k].own = modals[k].own
  BY <1>1, <1>2, ClearFacts
<1>4. /\ focus' \in Actors \cup {Null} /\ baseCover' \in Actors \cup {Null}
      /\ handlers' \in [Actors -> Int] /\ destroyed' \in SUBSET Actors
  BY <1>1, <1>2 DEF FocusOn
<1>5. ModalTypeOK'
  BY <1>2, <1>3, <1>4 DEF IInv, ModalTypeOK
<1>6. (modals' = <<>>) <=> (modals = <<>>)
  BY <1>1, <1>3
<1>7. CountsAgree'
  BY <1>2, <1>3, <1>6 DEF IInv, CountsAgree
<1>8. ModesNest'
  <2> SUFFICES ASSUME shallow'
               PROVE  /\ \A k \in 1 .. Len(modals') :
                           modals'[k].mode \in
                             Above(IF k = 1 THEN "NORMAL" ELSE modals'[k - 1].own)
                      /\ actionMode' \in Above(IF modals' = <<>> THEN "NORMAL"
                                               ELSE modals'[Len(modals')].own)
    BY <1>2 DEF ModesNest, Above
  <2>1. /\ \A k \in 1 .. Len(modals) :
             modals[k].mode \in Above(IF k = 1 THEN "NORMAL" ELSE modals[k - 1].own)
        /\ actionMode \in Above(IF modals = <<>> THEN "NORMAL" ELSE modals[Len(modals)].own)
    BY <1>2 DEF IInv, ModesNest
  <2>2. \A k \in 1 .. Len(modals) : k # 1 => k - 1 \in 1 .. Len(modals)
    BY <1>1
  <2>3. modals # <<>> => Len(modals) \in 1 .. Len(modals)
    BY <1>1
  <2> QED BY <1>2, <1>3, <1>6, <2>1, <2>2, <2>3
<1> QED BY <1>5, <1>7, <1>8 DEF IInv

\* Every step keeps the inductive invariant.
LEMMA StepKeepsIInv ==
  ASSUME IInv, [ModalNext]_modalVars
  PROVE  IInv'
<1>0. dying \in Actors \cup {Null} /\ destroyed \in SUBSET Actors
  BY DEF IInv, ModalTypeOK
<1>1. ASSUME NEW a \in Actors, MoveFocus(a) PROVE IInv'
  BY <1>1 DEF MoveFocus, historyVars, IInv, ModalTypeOK, CountsAgree, ModesNest, Above
<1>2. ASSUME NEW a \in Actors \cup {Stage}, NEW m \in ModalModes, PushModal(a, m)
      PROVE IInv'
  BY <1>2, PushKeepsIInv
<1>3. ASSUME NEW i \in 1 .. Len(modals), PopModal(i) PROVE IInv'
  BY <1>0, <1>3, PopKeepsIInv DEF PopModal
<1>4. ASSUME IncorrectPop PROVE IInv'
  <2>1. /\ focus' = Null /\ actionMode' = "NORMAL" /\ mistaken'
        /\ UNCHANGED <<modals, modalCount, unredirect, handlers, destroyed, dying,
                       baseCover, shallow>>
    BY <1>4 DEF IncorrectPop
  <2>2. mistaken' \in BOOLEAN
    BY Zenon, <1>4 DEF IncorrectPop
  <2>3. CountsAgree'
    BY <2>1 DEF IInv, CountsAgree
  <2>4. ModesNest'
    BY <2>1 DEF IInv, ModesNest, Above
  <2> QED BY <2>1, <2>2, <2>3, <2>4 DEF IInv, ModalTypeOK, Modes
<1>5. ASSUME NEW a \in Actors, Destroy(a) PROVE IInv'
  BY <1>5 DEF Destroy, historyVars, IInv, ModalTypeOK, CountsAgree, ModesNest, Above
<1>6. ASSUME NEW i \in 1 .. Len(modals), DestroyPops(i) PROVE IInv'
  <2>1. destroyed \cup {dying} \in SUBSET Actors /\ PopRecord(i, destroyed \cup {dying})
    BY <1>0, <1>6 DEF DestroyPops
  <2> QED BY <2>1, PopKeepsIInv
<1>7. ASSUME DestroyEnds PROVE IInv'
  BY <1>7, DestroyEndsKeepsIInv
<1>8. CASE UNCHANGED modalVars
  BY <1>8 DEF modalVars, historyVars, IInv, ModalTypeOK, CountsAgree, ModesNest, Above
<1> QED BY <1>1, <1>2, <1>3, <1>4, <1>5, <1>6, <1>7, <1>8 DEF ModalNext

\* The stack starts empty.
LEMMA InitIInv == ModalInit => IInv
<1> SUFFICES ASSUME ModalInit PROVE IInv
  OBVIOUS
<1>1. unredirect \in BOOLEAN /\ shallow \in BOOLEAN /\ mistaken \in BOOLEAN
  BY Zenon DEF ModalInit
<1>2. modals \in Seq(Record) /\ Len(modals) = 0
  BY DEF ModalInit
<1>3. ModalTypeOK
  BY <1>1, <1>2 DEF ModalInit, ModalTypeOK, Modes
<1>4. CountsAgree /\ ModesNest
  BY <1>2 DEF ModalInit, CountsAgree, ModesNest, Above
<1> QED BY <1>3, <1>4 DEF IInv

\* The inductive invariant holds in every reachable state of the modal stack.
THEOREM ModalStackInvariant == ModalSpec => []IInv
<1>1. IInv /\ [ModalNext]_modalVars => IInv'
  BY StepKeepsIInv
<1> QED BY InitIInv, <1>1, PTL DEF ModalSpec

\* modalCount agrees with modalActorFocusStack and with the compositor's
\* unredirection, whatever is pushed, popped or destroyed and in which order.
THEOREM CountsAlwaysAgree == ModalSpec => []CountsAgree
<1>1. IInv => CountsAgree
  BY DEF IInv
<1> QED BY ModalStackInvariant, <1>1, PTL

\* At any depth, pops of the topmost grab or of the one right below it give each
\* modal its action mode back.
THEOREM ModesAlwaysNest == ModalSpec => []ModesNest
<1>1. IInv => ModesNest
  BY DEF IInv
<1> QED BY ModalStackInvariant, <1>1, PTL

\* Every variable of the modal stack stays in its type; in particular the stack
\* holds proper records however grabs are popped from the middle.
THEOREM ModalStackTypeOK == ModalSpec => []ModalTypeOK
<1>1. IInv => ModalTypeOK
  BY DEF IInv
<1> QED BY ModalStackInvariant, <1>1, PTL

-----------------------------------------------------------------------------
(* The saved focus.  The invariant that is inductive beside IInv: the key  *)
(* focus is never on a destroyed actor, for that is what the next pushModal *)
(* saves.                                                                  *)

FInv == focus \notin destroyed /\ NoDestroyedFocus /\ FocusNests

\* The records of s that saved the focus a.
Saving(s, a) == {k \in 1 .. Len(s) : s[k].prevFocus = a}

\* Every record of s has its handler in h.
Handled(s, h) == \A a \in Actors : h[a] = Cardinality(Saving(s, a))

\* The records that saved an actor can be counted.
LEMMA SavingFinite ==
  ASSUME NEW s \in Seq(Record), NEW a
  PROVE  IsFiniteSet(Saving(s, a)) /\ Cardinality(Saving(s, a)) \in Nat
<1>1. IsFiniteSet(1 .. Len(s)) /\ Saving(s, a) \in SUBSET (1 .. Len(s))
  BY FS_Interval DEF Saving
<1> QED BY <1>1, FS_Subset, FS_CardinalityType

\* Removing a record leaves every saved focus but the topmost where it was,
\* and takes out the cover of the removed record.
LEMMA RemoveFocus ==
  ASSUME NEW s \in Seq(Record), NEW i \in 1 .. Len(s)
  PROVE  /\ RemoveModal(s, i) \in Seq(Record)
         /\ Len(RemoveModal(s, i)) = Len(s) - 1
         /\ \A k \in 1 .. (Len(s) - 1) :
              /\ RemoveModal(s, i)[k].prevFocus = s[k].prevFocus
              /\ RemoveModal(s, i)[k].cover = IF k < i THEN s[k].cover ELSE s[k + 1].cover
<1> DEFINE r == RemoveModal(s, i)
<1>1. \A k \in 1 .. Len(s) : s[k] \in Record
  OBVIOUS
<1>2. ASSUME NEW k \in 1 .. (Len(s) - 1)
      PROVE  /\ r[k].prevFocus = s[k].prevFocus
             /\ r[k].cover = IF k < i THEN s[k].cover ELSE s[k + 1].cover
  <2>1. s[k] \in Record /\ s[k + 1] \in Record
    BY <1>1
  <2>2. r[k] = IF k < i THEN s[k]
               ELSE [s[k + 1] EXCEPT !.prevFocus = s[k].prevFocus, !.mode = s[k].mode]
    BY DEF RemoveModal
  <2> HIDE DEF r
  <2> QED BY <2>1, <2>2 DEF Record
<1> QED BY <1>2, RemoveFacts

\* Taking out a record and disconnecting the topmost record's handler leaves
\* every record handled.
LEMMA RemoveHandled ==
  ASSUME NEW i \in 1 .. Len(modals), modals \in Seq(Record), handlers \in [Actors -> Int],
         Handled(modals, handlers)
  PROVE  Handled(RemoveModal(modals, i), DisconnectTopmost(handlers))
<1> DEFINE n == Len(modals)
           r == RemoveModal(modals, i)
           prev == modals[n].prevFocus
<1>1. n \in Nat /\ n \in 1 .. n /\ modals[n] \in Record /\ prev \in Actors \cup {Null}
  <2>1. n \in Nat /\ n \in 1 .. n /\ modals[n] \in Record
    OBVIOUS
  <2> QED BY <2>1 DEF Record
<1>2. Len(r) = n - 1 /\ \A k \in 1 .. (n - 1) : r[k].prevFocus = modals[k].prevFocus
  BY RemoveFocus
<1> SUFFICES ASSUME NEW b \in Actors
             PROVE  DisconnectTopmost(handlers)[b] = Cardinality(Saving(r, b))
  BY DEF Handled
<1>3. Saving(r, b) = Saving(modals, b) \ {n}
  <2> HIDE DEF r
  <2> QED BY <1>1, <1>2 DEF Saving
<1>4. n \in Saving(modals, b) <=> prev = b
  BY <1>1 DEF Saving
<1>5. Cardinality(Saving(r, b)) = IF prev = b THEN Cardinality(Saving(modals, b)) - 1
                                  ELSE Cardinality(Saving(modals, b))
  BY <1>3, <1>4, SavingFinite, FS_RemoveElement
<1>6. handlers[b] = Cardinality(Saving(modals, b)) /\ b # Null
  BY ActorsAssumption DEF Handled
<1>7. DisconnectTopmost(handlers)[b] = IF prev = b THEN handlers[b] - 1 ELSE handlers[b]
  BY <1>1, <1>6 DEF DisconnectTopmost
<1> QED BY <1>5, <1>6, <1>7

\* When every record is handled the handlers of an actor clear all its records,
\* not only some, and the history forgets it as well.
LEMMA ClearHandled ==
  ASSUME NEW s \in Seq(Record), NEW a \in Actors, NEW h \in [Actors -> Int], Handled(s, h)
  PROVE  /\ \A k \in 1 .. Len(s) :
              /\ ClearFocus(s, a, h[a])[k].prevFocus =
                   IF s[k].prevFocus = a THEN Null ELSE s[k].prevFocus
              /\ ClearFocus(s, a, h[a])[k].cover = IF s[k].cover = a THEN Null ELSE s[k].cover
         /\ Handled(ClearFocus(s, a, h[a]), [h EXCEPT ![a] = 0])
<1> DEFINE r == ClearFocus(s, a, h[a])
<1>1. ASSUME NEW k \in 1 .. Len(s)
      PROVE  /\ r[k].prevFocus = IF s[k].prevFocus = a THEN Null ELSE s[k].prevFocus
             /\ r[k].cover = IF s[k].cover = a THEN Null ELSE s[k].cover
  <2> DEFINE seen == {j \in 1 .. k : s[j].prevFocus = a}
             p == IF s[k].prevFocus = a /\ Cardinality(seen) <= h[a] THEN Null
                  ELSE s[k].prevFocus
             c == IF s[k].cover = a THEN Null ELSE s[k].cover
  <2>1. seen \in SUBSET Saving(s, a)
    BY DEF Saving
  <2>2. Cardinality(seen) <= h[a]
    BY <2>1, SavingFinite, FS_Subset DEF Handled
  <2>3. s[k] \in Record
    OBVIOUS
  <2>4. r[k] = [s[k] EXCEPT !.prevFocus = p, !.cover = c]
    BY DEF ClearFocus
  <2> HIDE DEF r, p, c, seen
  <2>5. r[k].prevFocus = p /\ r[k].cover = c
    BY <2>3, <2>4 DEF Record
  <2> QED BY <2>2, <2>5 DEF p, c
<1>2. Len(r) = Len(s)
  BY ClearFacts
<1>3. ASSUME NEW b \in Actors
      PROVE  [h EXCEPT ![a] = 0][b] = Cardinality(Saving(r, b))
  <2>0. b # Null
    BY ActorsAssumption
  <2>1. CASE b = a
    <3>1. Saving(r, b) = {}
      <4> HIDE DEF r
      <4> QED BY <1>1, <1>2, <2>0, <2>1 DEF Saving
    <3> QED BY <2>1, <3>1, FS_EmptySet
  <2>2. CASE b # a
    <3>1. Saving(r, b) = Saving(s, b)
      <4> HIDE DEF r
      <4> QED BY <1>1, <1>2, <2>0, <2>2 DEF Saving
    <3> QED BY <2>2, <3>1 DEF Handled
  <2> QED BY <2>1, <2>2
<1> QED BY <1>1, <1>3 DEF Handled

\* A record that lost its cover or saved focus to a destroyed actor lost both:
\* the chain of saved focuses survives.
LEMMA ClearKeepsFocus ==
  ASSUME NEW s \in Seq(Record), NEW a \in Actors, NEW h \in [Actors -> Int], Handled(s, h),
         \A k \in 1 .. Len(s) : s[k].prevFocus \notin destroyed,
         modals' = ClearFocus(s, a, h[a]), handlers' = [h EXCEPT ![a] = 0],
         destroyed' = destroyed \cup {a}, baseCover' = FocusOn(baseCover, destroyed'),
         destroyed \in SUBSET Actors,
         shallow' => \A k \in 1 .. Len(s) :
                     s[k].prevFocus = IF k = 1 THEN baseCover ELSE s[k - 1].cover
  PROVE  NoDestroyedFocus' /\ FocusNests'
<1>0. /\ Len(s) \in Nat /\ modals' \in Seq(Record) /\ Len(modals') = Len(s)
      /\ \A k \in 1 .. Len(s) : s[k] \in Record
      /\ Null \notin destroyed'
  BY ClearFacts, ActorsAssumption
<1>1. /\ \A k \in 1 .. Len(s) :
           /\ modals'[k].prevFocus = IF s[k].prevFocus = a THEN Null ELSE s[k].prevFocus
           /\ modals'[k].cover = IF s[k].cover = a THEN Null ELSE s[k].cover
      /\ Handled(modals', handlers')
  <2>1. /\ \A k \in 1 .. Len(s) :
             /\ ClearFocus(s, a, h[a])[k].prevFocus =
                  IF s[k].prevFocus = a THEN Null ELSE s[k].prevFocus
             /\ ClearFocus(s, a, h[a])[k].cover = IF s[k].cover = a THEN Null ELSE s[k].cover
        /\ Handled(ClearFocus(s, a, h[a]), [h EXCEPT ![a] = 0])
    BY ClearHandled
  <2> QED BY Zenon, <2>1
<1>2. NoDestroyedFocus'
  <2>1. \A k \in 1 .. Len(modals') : modals'[k].prevFocus \notin destroyed'
    BY <1>0, <1>1
  <2> QED BY <1>1, <2>1 DEF NoDestroyedFocus, Handled, Saving
<1>3. ASSUME shallow', NEW k \in 1 .. Len(s)
      PROVE  modals'[k].prevFocus = IF k = 1 THEN baseCover' ELSE modals'[k - 1].cover
  <2>1. s[k].prevFocus = IF k = 1 THEN baseCover ELSE s[k - 1].cover
    BY <1>3
  <2>2. CASE k = 1
    <3>1. baseCover \notin destroyed
      BY <2>1, <2>2
    <3> QED BY <1>1, <2>1, <2>2, <3>1 DEF FocusOn
  <2>3. CASE k # 1
    <3>1. k - 1 \in 1 .. Len(s)
      BY <1>0, <2>3
    <3> QED BY <1>1, <2>1, <2>3, <3>1
  <2> QED BY <2>2, <2>3
<1> QED BY <1>0, <1>2, <1>3 DEF FocusNests, FocusChain

\* What removing record i does to the saved focuses, whoever removes it.
LEMMA RemoveKeepsFocus ==
  ASSUME IInv, FInv, NEW i \in 1 .. Len(modals)
  PROVE  LET r == RemoveModal(modals, i)
         IN  /\ Handled(r, DisconnectTopmost(handlers))
             /\ DisconnectTopmost(handlers) \in [Actors -> Int]
             /\ \A k \in 1 .. Len(r) : r[k].prevFocus \notin destroyed
             /\ shallow /\ i >= Len(modals) - 1 =>
                  \A k \in 1 .. Len(r) : r[k].prevFocus = IF k = 1 THEN baseCover ELSE r[k - 1].cover
<1> DEFINE n == Len(modals)
           r == RemoveModal(modals, i)
<1>1. /\ modals \in Seq(Record) /\ n \in Nat /\ handlers \in [Actors -> Int]
      /\ n \in 1 .. n /\ modals[n] \in Record
  <2>1. modals \in Seq(Record) /\ handlers \in [Actors -> Int]
    BY DEF IInv, ModalTypeOK
  <2> QED BY <2>1
<1>2. /\ Len(r) = n - 1
      /\ \A k \in 1 .. (n - 1) :
           /\ r[k].prevFocus = modals[k].prevFocus
           /\ r[k].cover = IF k < i THEN modals[k].cover ELSE modals[k + 1].cover
  BY <1>1, RemoveFocus
<1>3. Handled(r, DisconnectTopmost(handlers))
  BY <1>1, RemoveHandled DEF FInv, NoDestroyedFocus, Handled, Saving
<1>4. DisconnectTopmost(handlers) \in [Actors -> Int]
  <2>1. modals[n].prevFocus \in Actors \cup {Null}
    BY <1>1 DEF Record
  <2> QED BY <1>1, <2>1 DEF DisconnectTopmost
<1> HIDE DEF r
<1>5. \A k \in 1 .. Len(r) : r[k].prevFocus \notin destroyed
  BY <1>1, <1>2 DEF FInv, NoDestroyedFocus
<1>6. ASSUME shallow, i >= n - 1, NEW k \in 1 .. Len(r)
      PROVE  r[k].prevFocus = IF k = 1 THEN baseCover ELSE r[k - 1].cover
  <2>1. k \in 1 .. n /\ k \in 1 .. (n - 1)
    BY <1>1, <1>2
  <2>2. modals[k].prevFocus = IF k = 1 THEN baseCover ELSE modals[k - 1].cover
    BY <1>6, <2>1 DEF FInv, FocusNests, FocusChain
  <2>3. k # 1 => k - 1 \in 1 .. (n - 1) /\ k - 1 < i
    BY <1>1, <1>6, <2>1
  <2> QED BY <1>2, <2>1, <2>2, <2>3
<1> QED BY <1>3, <1>4, <1>5, <1>6 DEF r

\* pushModal saves the key focus and connects a handler to it.
LEMMA PushKeepsFInv ==
  ASSUME IInv, FInv, NEW a \in Actors \cup {Stage}, NEW m \in ModalModes, PushModal(a, m)
  PROVE  FInv'
<1> DEFINE n == Len(modals)
           e == [actor |-> a, prevFocus |-> focus, mode |-> actionMode,
                 own |-> m, cover |-> Null]
<1>1. /\ modals \in Seq(Record) /\ n \in Nat
      /\ \A k \in 1 .. n : modals[k] \in Record
      /\ focus \in Actors \cup {Null} /\ handlers \in [Actors -> Int]
      /\ (modals = <<>>) <=> (n = 0)
      /\ actionMode \in Modes /\ destroyed \in SUBSET Actors
  BY DEF IInv, ModalTypeOK
<1>2. ASSUME NEW k \in 1 .. n
      PROVE  /\ Covered[k] \in Record
             /\ Covered[k].prevFocus = modals[k].prevFocus
             /\ Covered[k].cover = IF k = n THEN focus ELSE modals[k].cover
  <2>1. modals[k] \in Record
    BY <1>1
  <2>2. Covered[k] = IF k = n THEN [modals[k] EXCEPT !.cover = focus] ELSE modals[k]
    BY DEF Covered
  <2> QED BY <2>1, <2>2, <1>1 DEF Record
<1>3. Covered \in Seq(Record) /\ Len(Covered) = n
  <2>1. Covered = [k \in 1 .. n |-> Covered[k]]
    BY DEF Covered
  <2>2. Covered \in [1 .. n -> Record]
    BY <1>2, <2>1
  <2> QED BY <1>1, <2>2, RecordSeq
<1>4. e \in Record /\ e.prevFocus = focus
  BY <1>1 DEF Record
<1>5. /\ modals' = Append(Covered, e)
      /\ handlers' = (IF focus = Null THEN handlers ELSE [handlers EXCEPT ![focus] = @ + 1])
      /\ baseCover' = (IF modals = <<>> THEN focus ELSE baseCover)
      /\ focus' = (IF a = Stage THEN Null ELSE a)
      /\ a \notin destroyed /\ UNCHANGED <<destroyed, shallow>>
  BY DEF PushModal, FocusOfModal
<1> HIDE DEF e
<1>6. /\ Len(modals') = n + 1 /\ modals'[n + 1] = e /\ n + 1 \in 1 .. (n + 1)
      /\ \A k \in 1 .. n : modals'[k] = Covered[k]
  BY <1>1, <1>3, <1>4, <1>5
<1>7. /\ modals'[n + 1].prevFocus = focus
      /\ \A k \in 1 .. n : modals'[k].prevFocus = modals[k].prevFocus
  BY <1>2, <1>4, <1>6
<1>8. focus' \notin destroyed'
  BY <1>1, <1>5, ActorsAssumption
<1>9. NoDestroyedFocus'
  <2>1. \A k \in 1 .. Len(modals') : modals'[k].prevFocus \notin destroyed'
    BY <1>1, <1>5, <1>6, <1>7 DEF FInv, NoDestroyedFocus
  <2>2. ASSUME NEW b \in Actors
        PROVE  handlers'[b] = Cardinality(Saving(modals', b))
    <3>1. handlers[b] = Cardinality(Saving(modals, b)) /\ b # Null
      BY ActorsAssumption DEF FInv, NoDestroyedFocus, Saving
    <3>2. CASE focus = b
      <4>1. Saving(modals', b) = Saving(modals, b) \cup {n + 1} /\ n + 1 \notin Saving(modals, b)
        BY <1>1, <1>6, <1>7, <3>2 DEF Saving
      <4>2. IsFiniteSet(Saving(modals, b))
        BY <1>1, SavingFinite
      <4>3. Cardinality(Saving(modals, b) \cup {n + 1}) = Cardinality(Saving(modals, b)) + 1
        BY <4>1, <4>2, FS_AddElement
      <4> QED BY <1>1, <1>5, <3>1, <3>2, <4>1, <4>3
    <3>3. CASE focus # b
      <4>1. Saving(modals', b) = Saving(modals, b)
        BY <1>1, <1>6, <1>7, <3>3 DEF Saving
      <4> QED BY <1>1, <1>5, <3>1, <3>3, <4>1
    <3> QED BY <3>2, <3>3
  <2> QED BY <2>1, <2>2 DEF NoDestroyedFocus, Saving
<1>10. FocusNests'
  <2> SUFFICES ASSUME shallow', NEW k \in 1 .. (n + 1)
               PROVE  modals'[k].prevFocus = IF k = 1 THEN baseCover' ELSE modals'[k - 1].cover
    BY <1>6 DEF FocusNests, FocusChain
  <2>1. CASE k = n + 1
    <3>1. modals'[k].prevFocus = focus
      BY <1>7, <2>1
    <3>2. CASE n = 0
      BY <1>1, <1>5, <2>1, <3>1, <3>2
    <3>3. CASE n # 0
      <4>1. k - 1 = n /\ n \in 1 .. n /\ k # 1
        BY <1>1, <2>1, <3>3
      <4> QED BY <1>2, <1>6, <3>1, <4>1
    <3> QED BY <3>2, <3>3
  <2>2. CASE k # n + 1
    <3>1. k \in 1 .. n /\ n # 0 /\ (k # 1 => k - 1 \in 1 .. n /\ k - 1 # n)
      BY <1>1, <2>2
    <3>2. modals[k].prevFocus = IF k = 1 THEN baseCover ELSE modals[k - 1].cover
      BY <1>5, <3>1 DEF FInv, FocusNests, FocusChain
    <3>3. modals'[k].prevFocus = modals[k].prevFocus /\ baseCover' = baseCover
      BY <1>1, <1>5, <1>7, <3>1
    <3>4. k # 1 => modals'[k - 1].cover = modals[k - 1].cover
      BY <1>2, <1>6, <3>1
    <3> QED BY <3>1, <3>2, <3>3, <3>4
  <2> QED BY <2>1, <2>2
<1> QED BY <1>8, <1>9, <1>10 DEF FInv

\* popModal gives the key focus to no destroyed actor and keeps the rest.
LEMMA PopKeepsFInv ==
  ASSUME IInv, FInv, NEW i \in 1 .. Len(modals), NEW gone, destroyed \subseteq gone,
         PopRecord(i, gone)
  PROVE  FInv'
<1> DEFINE r == RemoveModal(modals, i)
<1>1. /\ modals' = r /\ handlers' = DisconnectTopmost(handlers)
      /\ focus' = (IF i = Len(modals) THEN FocusOn(modals[i].prevFocus, gone) ELSE focus)
      /\ UNCHANGED <<destroyed, baseCover>> /\ shallow' = (shallow /\ i >= Len(modals) - 1)
  BY DEF PopRecord
<1>2. focus' \notin destroyed'
  <2>1. Null \notin destroyed
    BY ActorsAssumption DEF IInv, ModalTypeOK
  <2> QED BY <1>1, <2>1 DEF FocusOn, FInv
<1>3. /\ Handled(r, DisconnectTopmost(handlers))
      /\ \A k \in 1 .. Len(r) : r[k].prevFocus \notin destroyed
      /\ shallow /\ i >= Len(modals) - 1 =>
           \A k \in 1 .. Len(r) : r[k].prevFocus = IF k = 1 THEN baseCover ELSE r[k - 1].cover
  BY RemoveKeepsFocus
<1> HIDE DEF r
<1>4. NoDestroyedFocus'
  BY <1>1, <1>3 DEF NoDestroyedFocus, Handled, Saving
<1>5. FocusNests'
  BY <1>1, <1>3 DEF FocusNests, FocusChain
<1> QED BY <1>2, <1>4, <1>5 DEF FInv

\* Every step keeps the invariant of the saved focus.
LEMMA StepKeepsFInv ==
  ASSUME IInv, FInv, [ModalNext]_modalVars
  PROVE  FInv'
<1>0. /\ modals \in Seq(Record) /\ handlers \in [Actors -> Int]
      /\ destroyed \in SUBSET Actors /\ focus \in Actors \cup {Null}
      /\ dying \in Actors \cup {Null} /\ Null \notin Actors
  BY ActorsAssumption DEF IInv, ModalTypeOK
<1>1. ASSUME NEW a \in Actors, MoveFocus(a) PROVE FInv'
  BY <1>1 DEF MoveFocus, historyVars, FInv, NoDestroyedFocus, FocusNests, FocusChain
<1>2. ASSUME NEW a \in Actors \cup {Stage}, NEW m \in ModalModes, PushModal(a, m)
      PROVE FInv'
  BY <1>2, PushKeepsFInv
<1>3. ASSUME NEW i \in 1 .. Len(modals), PopModal(i) PROVE FInv'
  BY <1>3, PopKeepsFInv DEF PopModal
<1>4. ASSUME IncorrectPop PROVE FInv'
  <2>1. /\ focus' = Null
        /\ UNCHANGED <<modals, handlers, destroyed, baseCover, shallow>>
    BY <1>4 DEF IncorrectPop
  <2>2. NoDestroyedFocus' /\ FocusNests'
    BY <2>1 DEF FInv, NoDestroyedFocus, FocusNests, FocusChain
  <2>3. focus' \notin destroyed'
    BY <1>0, <2>1
  <2> QED BY <2>2, <2>3 DEF FInv
<1>5. ASSUME NEW a \in Actors, Destroy(a) PROVE FInv'
  BY <1>5 DEF Destroy, historyVars, FInv, NoDestroyedFocus, FocusNests, FocusChain
<1>6. ASSUME NEW i \in 1 .. Len(modals), DestroyPops(i) PROVE FInv'
  BY <1>6, PopKeepsFInv DEF DestroyPops
<1>7. ASSUME DestroyEnds PROVE FInv'
  <2>1. /\ dying \in Actors
        /\ modals' = ClearFocus(modals, dying, handlers[dying])
        /\ destroyed' = destroyed \cup {dying}
        /\ handlers' = [handlers EXCEPT ![dying] = 0]
        /\ focus' = FocusOn(focus, destroyed') /\ baseCover' = FocusOn(baseCover, destroyed')
        /\ shallow' = shallow
    BY <1>0, <1>7 DEF DestroyEnds
  <2>2. /\ Handled(modals, handlers)
        /\ \A k \in 1 .. Len(modals) : modals[k].prevFocus \notin destroyed
    BY DEF FInv, NoDestroyedFocus, Handled, Saving
  <2>3. shallow' => \A k \in 1 .. Len(modals) :
                      modals[k].prevFocus = IF k = 1 THEN baseCover ELSE modals[k - 1].cover
    BY <2>1 DEF FInv, FocusNests, FocusChain
  <2>4. NoDestroyedFocus' /\ FocusNests'
    BY <1>0, <2>1, <2>2, <2>3, ClearKeepsFocus
  <2>5. focus' \notin destroyed'
    BY <1>0, <2>1 DEF FocusOn
  <2> QED BY <2>4, <2>5 DEF FInv
<1>8. CASE UNCHANGED modalVars
  BY <1>8 DEF modalVars, historyVars, FInv, NoDestroyedFocus, FocusNests, FocusChain
<1> QED BY <1>1, <1>2, <1>3, <1>4, <1>5, <1>6, <1>7, <1>8 DEF ModalNext

\* The invariant of the saved focus holds in every reachable state.
THEOREM FocusInvariant == ModalSpec => []FInv
<1>1. ModalInit => FInv
  <2> SUFFICES ASSUME ModalInit PROVE FInv
    OBVIOUS
  <2>1. \A a \in Actors : {k \in 1 .. Len(modals) : modals[k].prevFocus = a} = {}
    BY DEF ModalInit
  <2>2. NoDestroyedFocus /\ FocusNests
    BY <2>1, FS_EmptySet DEF ModalInit, NoDestroyedFocus, FocusNests, FocusChain
  <2> QED BY <2>2 DEF ModalInit, FInv
<1>2. IInv /\ FInv /\ [ModalNext]_modalVars => FInv'
  BY StepKeepsFInv
<1> QED BY ModalStackInvariant, <1>1, <1>2, PTL DEF ModalSpec

\* No record of the stack refers to a destroyed actor, and each has its destroy
\* handler connected, however many modals saved the same actor and in whatever
\* order they are popped and destroyed: popModal disconnects the right one.
THEOREM NoDestroyedFocusEver == ModalSpec => []NoDestroyedFocus
<1>1. FInv => NoDestroyedFocus
  BY DEF FInv
<1> QED BY FocusInvariant, <1>1, PTL

\* At any depth, as long as pops are from the top or right below it, every modal
\* saved the focus the one below it had when it was covered, so focus returns
\* to where it was.
THEOREM FocusAlwaysNests == ModalSpec => []FocusNests
<1>1. FInv => FocusNests
  BY DEF FInv
<1> QED BY FocusInvariant, <1>1, PTL

=============================================================================
