----------------------- MODULE ExtensionManagerProofs -----------------------
(***************************************************************************)
(* Proof that the state of an extension is the lock of its transitions:    *)
(* however many handlers overlap and whatever fails, one at most is        *)
(* enabling or disabling an extension and the state says so, until an      *)
(* import of the extension ends that another handler's has overtaken.      *)
(*                                                                         *)
(* The second half is about a handler that runs alone, from the import to  *)
(* the last rebase: the extensions stay stacked in the order they were     *)
(* enabled in, and when it is done they are as settings and mode say.      *)
(***************************************************************************)
EXTENDS ExtensionManager, FiniteSetTheorems, SequenceTheorems, TLAPS

---------------------------------------------------------------------------
(* The shape of the stacks.  Nothing is said of the extensions in them.    *)

\* s is a sequence, of whatever it holds.
IsSeq(s) == s \in Seq({s[i] : i \in DOMAIN s})
Transits(f) == f.fn \in {"enable", "disable"} /\ f.pc \in {"enabling", "rebase", "rebased"}

\* What the steps of a frame rely on.
FrameOK(f) ==
  /\ {"fn", "pc"} \subseteq DOMAIN f
  /\ f.fn \in {"changed", "enableAll"} => "todo" \in DOMAIN f
  /\ f.fn = "disable" /\ f.pc \in {"rebase", "rebased"} => {"uuid", "todo"} \subseteq DOMAIN f

\* A task in the middle of a transition is there with its innermost frame.
StackOK(s) ==
  /\ IsSeq(s)
  /\ \A i \in DOMAIN s : FrameOK(s[i]) /\ (i # 1 => ~Transits(s[i]))

\* The task whose stack is s is enabling or disabling u.
Busy(s, u) == s # <<>> /\ Transits(s[1]) /\ s[1].uuid = u

Shape ==
  /\ DOMAIN stack = Tasks
  /\ \A t \in Tasks : StackOK(stack[t])
  /\ DOMAIN extState = Uuids

\* The state of u is the lock of its transitions.
LockOf(u) ==
  /\ \A s, t \in Tasks : Busy(stack[s], u) /\ Busy(stack[t], u) => s = t
  /\ extState[u] \in {"ACTIVATING", "DEACTIVATING"} => \E t \in Tasks : Busy(stack[t], u)
  /\ \A t \in Tasks : Busy(stack[t], u) => extState[u] \in {"ACTIVATING", "DEACTIVATING", "ERROR"}

\* What a step does to the locks.
Keeps == \A u \in Uuids : LockOf(u) => LockOf(u)' \/ Overtaken(u)

---------------------------------------------------------------------------
(* Stacks.                                                                 *)

\* A sequence of anything is a sequence of what it holds.
LEMMA SeqOfItsElements ==
  ASSUME NEW Y, NEW s \in Seq(Y)
  PROVE  IsSeq(s)
<1> DEFINE R == {s[i] : i \in DOMAIN s}
<1>1. s \in [1 .. Len(s) -> Y] /\ Len(s) \in Nat /\ DOMAIN s = 1 .. Len(s)
  OBVIOUS
<1>2. s \in [1 .. Len(s) -> R]
  BY <1>1
<1>3. s \in Seq(R)
  <2> HIDE DEF R
  <2> QED BY <1>1, <1>2
<1> QED
  BY <1>3 DEF IsSeq

\* A function that ends leaves a good stack, and is in no transition.
LEMMA Returned ==
  ASSUME NEW s, StackOK(s), s # <<>>
  PROVE  /\ StackOK(Tail(s))
         /\ \A u : ~Busy(Tail(s), u)
<1> DEFINE R == {s[i] : i \in DOMAIN s}
<1>1. s \in Seq(R)
  BY DEF StackOK, IsSeq
<1> HIDE DEF R
<1>2. /\ Tail(s) \in Seq(R) /\ DOMAIN s = 1 .. Len(s) /\ Len(s) \in Nat \ {0}
      /\ DOMAIN Tail(s) = 1 .. (Len(s) - 1)
      /\ \A i \in DOMAIN Tail(s) : i + 1 \in DOMAIN s /\ i + 1 # 1 /\ Tail(s)[i] = s[i + 1]
  BY <1>1
<1>3. IsSeq(Tail(s))
  BY <1>2, SeqOfItsElements
<1>4. \A i \in DOMAIN Tail(s) : FrameOK(Tail(s)[i]) /\ ~Transits(Tail(s)[i])
  BY <1>2 DEF StackOK
<1>5. Tail(s) # <<>> => 1 \in DOMAIN Tail(s)
  BY <1>2
<1> QED
  BY <1>2, <1>3, <1>4, <1>5 DEF StackOK, Busy

\* So does a function that goes on.
LEMMA Replaced ==
  ASSUME NEW s, StackOK(s), s # <<>>, NEW f, FrameOK(f)
  PROVE  LET n == <<f>> \o Tail(s)
         IN  StackOK(n) /\ n # <<>> /\ n[1] = f
<1> DEFINE R == {s[i] : i \in DOMAIN s}
           Y == R \cup {f}
           n == <<f>> \o Tail(s)
<1>1. s \in Seq(R)
  BY DEF StackOK, IsSeq
<1>a. \A x \in R : x \in Y
  OBVIOUS
<1>b. f \in Y
  OBVIOUS
<1>2. s \in Seq(Y)
  <2> HIDE DEF R, Y
  <2> QED BY <1>1, <1>a
<1> HIDE DEF R, Y
<1>3. /\ n \in Seq(Y) /\ DOMAIN s = 1 .. Len(s) /\ Len(s) \in Nat \ {0}
      /\ Len(n) = Len(s) /\ n[1] = f
      /\ \A i \in 2 .. Len(n) : n[i] = s[i]
  BY <1>2, <1>b
<1>4. DOMAIN n = DOMAIN s /\ n # <<>> /\ \A i \in DOMAIN s : i = 1 \/ n[i] = s[i]
  BY <1>3
<1>5. IsSeq(n)
  <2> HIDE DEF n
  <2> QED BY <1>3, SeqOfItsElements
<1> HIDE DEF n
<1>6. \A i \in DOMAIN n : FrameOK(n[i]) /\ (i # 1 => ~Transits(n[i]))
  BY <1>3, <1>4 DEF StackOK
<1> QED
  BY <1>3, <1>4, <1>5, <1>6 DEF StackOK, n

\* So does a function that calls another one, outside of a transition.
LEMMA Called ==
  ASSUME NEW s, StackOK(s), s # <<>>, NEW f, NEW g, FrameOK(f), FrameOK(g), ~Transits(f)
  PROVE  LET n == <<g, f>> \o Tail(s)
         IN  StackOK(n) /\ n # <<>> /\ n[1] = g
<1> DEFINE R == {s[i] : i \in DOMAIN s}
           Y == R \cup {f, g}
           n == <<g, f>> \o Tail(s)
<1>1. s \in Seq(R)
  BY DEF StackOK, IsSeq
<1>a. \A x \in R : x \in Y
  OBVIOUS
<1>b. f \in Y /\ g \in Y
  OBVIOUS
<1>2. s \in Seq(Y)
  <2> HIDE DEF R, Y
  <2> QED BY <1>1, <1>a
<1> HIDE DEF R, Y
<1>3. /\ n \in Seq(Y) /\ DOMAIN s = 1 .. Len(s) /\ Len(s) \in Nat \ {0}
      /\ Len(n) = Len(s) + 1 /\ n[1] = g /\ n[2] = f
      /\ \A i \in 3 .. Len(n) : n[i] = s[i - 1]
  BY <1>2, <1>b
<1>4. /\ DOMAIN n = 1 .. (Len(s) + 1) /\ n # <<>>
      /\ \A i \in DOMAIN n : i = 1 \/ i = 2 \/ (i - 1 \in DOMAIN s /\ i - 1 # 1 /\ n[i] = s[i - 1])
  BY <1>3
<1>5. IsSeq(n)
  <2> HIDE DEF n
  <2> QED BY <1>3, SeqOfItsElements
<1> HIDE DEF n
<1>6. \A i \in DOMAIN n : FrameOK(n[i]) /\ (i # 1 => ~Transits(n[i]))
  BY <1>3, <1>4 DEF StackOK
<1> QED
  BY <1>3, <1>4, <1>5, <1>6 DEF StackOK, n

---------------------------------------------------------------------------
(* Steps.                                                                  *)

\* The innermost frame of a task.
LEMMA TopIsFirst ==
  ASSUME Shape, NEW t \in Tasks, stack[t] # <<>>
  PROVE  StackOK(stack[t]) /\ Top(t) = stack[t][1] /\ FrameOK(Top(t))
<1> DEFINE s == stack[t]
           R == {s[i] : i \in DOMAIN s}
<1>1. StackOK(s)
  BY DEF Shape
<1>2. s \in Seq(R)
  BY <1>1 DEF StackOK, IsSeq
<1>3. Head(s) = s[1] /\ 1 \in DOMAIN s
  <2> HIDE DEF R, s
  <2>1. s # <<>>
    BY DEF s
  <2> QED BY <1>2, <2>1
<1> QED
  BY <1>1, <1>3 DEF StackOK, Top

\* What a step that gives task t the stack n may do to the lock of u: it leaves
\* t where it was with u; or t enters a transition, which the state allowed; or
\* t leaves one, and the state says so; or u is imported for the first time.
Moves(t, n, u) ==
  \/ (Busy(n, u) <=> Busy(stack[t], u)) /\ extState'[u] \in {extState[u], "ERROR"}
  \/ /\ Busy(n, u) /\ extState[u] \in {"INACTIVE", "ACTIVE"}
     /\ extState'[u] \in {"ACTIVATING", "DEACTIVATING", "ERROR"}
  \/ /\ Busy(stack[t], u) /\ ~Busy(n, u)
     /\ extState'[u] \in {"INACTIVE", "ACTIVE", "ERROR"}
  \/ /\ extState[u] = "INITIALIZED" /\ ~Busy(n, u)
     /\ extState'[u] \in {"INACTIVE", "ERROR"}

\* A step that takes and releases the lock of an extension as it moves keeps it.
LEMMA LockStep ==
  ASSUME Shape, NEW t \in Tasks, NEW n, stack' = [stack EXCEPT ![t] = n],
         NEW u \in Uuids, LockOf(u), Moves(t, n, u)
  PROVE  LockOf(u)'
<1>1. /\ \A r \in Tasks : r # t => stack'[r] = stack[r]
      /\ stack'[t] = n
  BY DEF Shape
<1>2. /\ \A r \in Tasks : r # t => (Busy(stack'[r], u) <=> Busy(stack[r], u))
      /\ Busy(stack'[t], u) <=> Busy(n, u)
  BY <1>1, Zenon
<1>3. /\ \A r, q \in Tasks : Busy(stack[r], u) /\ Busy(stack[q], u) => r = q
      /\ extState[u] \in {"ACTIVATING", "DEACTIVATING"} => \E r \in Tasks : Busy(stack[r], u)
      /\ \A r \in Tasks : Busy(stack[r], u) => extState[u] \in {"ACTIVATING", "DEACTIVATING", "ERROR"}
  BY Zenon DEF LockOf
<1> SUFFICES /\ \A r, q \in Tasks : Busy(stack'[r], u) /\ Busy(stack'[q], u) => r = q
             /\ extState'[u] \in {"ACTIVATING", "DEACTIVATING"} => \E r \in Tasks : Busy(stack'[r], u)
             /\ \A r \in Tasks : Busy(stack'[r], u) => extState'[u] \in {"ACTIVATING", "DEACTIVATING", "ERROR"}
  BY Zenon DEF LockOf
<1>4. CASE (Busy(n, u) <=> Busy(stack[t], u)) /\ extState'[u] \in {extState[u], "ERROR"}
  <2>1. \A r \in Tasks : Busy(stack'[r], u) <=> Busy(stack[r], u)
    BY <1>2, <1>4, Zenon
  <2> QED BY ONLY <1>3, <1>4, <2>1
<1>5. CASE /\ Busy(n, u) /\ extState[u] \in {"INACTIVE", "ACTIVE"}
           /\ extState'[u] \in {"ACTIVATING", "DEACTIVATING", "ERROR"}
  <2>1. \A r \in Tasks : ~Busy(stack[r], u)
    BY ONLY <1>3, <1>5
  <2>2. \A r \in Tasks : Busy(stack'[r], u) => r = t
    BY ONLY <1>2, <2>1
  <2>3. Busy(stack'[t], u)
    BY ONLY <1>2, <1>5
  <2> QED BY ONLY <1>5, <2>2, <2>3, t \in Tasks
<1>6. CASE /\ Busy(stack[t], u) /\ ~Busy(n, u)
           /\ extState'[u] \in {"INACTIVE", "ACTIVE", "ERROR"}
  <2>1. \A r \in Tasks : Busy(stack[r], u) => r = t
    BY ONLY <1>3, <1>6, t \in Tasks
  <2>2. \A r \in Tasks : ~Busy(stack'[r], u)
    BY ONLY <1>2, <1>6, <2>1
  <2> QED BY ONLY <1>6, <2>2
<1>7. CASE /\ extState[u] = "INITIALIZED" /\ ~Busy(n, u)
           /\ extState'[u] \in {"INACTIVE", "ERROR"}
  <2>1. \A r \in Tasks : ~Busy(stack[r], u)
    BY ONLY <1>3, <1>7
  <2>2. \A r \in Tasks : ~Busy(stack'[r], u)
    BY ONLY <1>2, <1>7, <2>1, t \in Tasks
  <2> QED BY ONLY <1>7, <2>2
<1> QED
  BY <1>4, <1>5, <1>6, <1>7, Zenon DEF Moves

\* What every step has to be shown to do.
LEMMA StepKeeps ==
  ASSUME Shape, NEW t \in Tasks, NEW n, StackOK(n),
         stack' = [stack EXCEPT ![t] = n], DOMAIN extState' = Uuids,
         \A u \in Uuids : Moves(t, n, u) \/ Overtaken(u)
  PROVE  Shape' /\ Keeps
<1>1. /\ \A r \in Tasks : r # t => stack'[r] = stack[r]
      /\ stack'[t] = n /\ DOMAIN stack' = Tasks
  BY DEF Shape
<1>2. Shape'
  <2>1. \A r \in Tasks : StackOK(stack'[r])
    BY <1>1, Zenon DEF Shape
  <2> QED BY <1>1, <2>1, Zenon DEF Shape
<1>3. Keeps
  <2> SUFFICES ASSUME NEW u \in Uuids, LockOf(u), Moves(t, n, u)
               PROVE  LockOf(u)'
    BY Zenon DEF Keeps
  <2> QED BY LockStep, Zenon
<1> QED
  BY <1>2, <1>3

\* A step that changes no state and takes no part in a transition.
LEMMA QuietStep ==
  ASSUME Shape, NEW t \in Tasks, NEW n, StackOK(n),
         stack' = [stack EXCEPT ![t] = n], UNCHANGED extState,
         \A u : ~Busy(n, u) /\ ~Busy(stack[t], u)
  PROVE  Shape' /\ Keeps
<1>1. DOMAIN extState' = Uuids
  BY DEF Shape
<1>2. \A u \in Uuids : Moves(t, n, u) \/ Overtaken(u)
  BY DEF Moves
<1> QED
  BY <1>1, <1>2, StepKeeps

\* The frames the code makes.
LEMMA FramesAreOK ==
  /\ \A pc, u : FrameOK(Frame("enable", pc, u)) /\ FrameOK(Frame("init", pc, u))
  /\ \A u : FrameOK(Frame("disable", "start", u))
  /\ \A fn, pc, x, y : FrameOK(ListFrame(fn, pc, x, y)) \/ fn = "disable"
  BY DEF FrameOK, Frame, ListFrame

\* A function that is in no transition ends.
LEMMA QuietReturn ==
  ASSUME Shape, NEW t \in Tasks, stack[t] # <<>>, ~Transits(Top(t)),
         Return(t), UNCHANGED extState
  PROVE  Shape' /\ Keeps
<1>1. StackOK(stack[t]) /\ Top(t) = stack[t][1]
  BY TopIsFirst, Zenon
<1>2. stack' = [stack EXCEPT ![t] = Tail(stack[t])]
  BY DEF Return
<1>3. \A u : ~Busy(stack[t], u)
  BY <1>1 DEF Busy
<1>4. /\ StackOK(Tail(stack[t]))
      /\ \A u : ~Busy(Tail(stack[t]), u)
  BY <1>1, Returned, Zenon
<1> QED
  BY ONLY <1>2, <1>3, <1>4, QuietStep, Shape, t \in Tasks, UNCHANGED extState

\* A function that is in no transition goes on.
LEMMA QuietBecome ==
  ASSUME Shape, NEW t \in Tasks, stack[t] # <<>>, ~Transits(Top(t)),
         NEW f, FrameOK(f), ~Transits(f),
         Become(t, f), UNCHANGED extState
  PROVE  Shape' /\ Keeps
<1> DEFINE n == <<f>> \o Tail(stack[t])
<1>1. StackOK(stack[t]) /\ Top(t) = stack[t][1]
  BY TopIsFirst, Zenon
<1>2. stack' = [stack EXCEPT ![t] = n]
  BY DEF Become
<1>3. \A u : ~Busy(stack[t], u)
  BY <1>1 DEF Busy
<1>4. StackOK(n) /\ n[1] = f
  BY <1>1, Replaced, Zenon
<1>5. \A u : ~Busy(n, u)
  <2> HIDE DEF n
  <2> QED BY <1>4 DEF Busy
<1> HIDE DEF n
<1> QED
  BY ONLY <1>2, <1>3, <1>4, <1>5, QuietStep, Shape, t \in Tasks, UNCHANGED extState

\* A function that is in no transition calls another.
LEMMA QuietCall ==
  ASSUME Shape, NEW t \in Tasks, stack[t] # <<>>, ~Transits(Top(t)),
         NEW f, FrameOK(f), ~Transits(f),
         NEW g, FrameOK(g), ~Transits(g),
         stack' = [stack EXCEPT ![t] = <<g, f>> \o Tail(@)], UNCHANGED extState
  PROVE  Shape' /\ Keeps
<1> DEFINE n == <<g, f>> \o Tail(stack[t])
<1>1. StackOK(stack[t]) /\ Top(t) = stack[t][1]
  BY TopIsFirst, Zenon
<1>2. stack' = [stack EXCEPT ![t] = n]
  OBVIOUS
<1>3. \A u : ~Busy(stack[t], u)
  BY <1>1 DEF Busy
<1>4. StackOK(n) /\ n[1] = g
  BY ONLY <1>1, stack[t] # <<>>, FrameOK(f), FrameOK(g), ~Transits(f), Called
<1>5. \A u : ~Busy(n, u)
  <2> HIDE DEF n
  <2> QED BY <1>4 DEF Busy
<1> HIDE DEF n
<1> QED
  BY ONLY <1>2, <1>3, <1>4, <1>5, QuietStep, Shape, t \in Tasks, UNCHANGED extState

---------------------------------------------------------------------------
(* Enabling.                                                               *)

LEMMA AtCheckFacts ==
  ASSUME NEW t, AtCheck(t)
  PROVE  stack[t] # <<>> /\ Top(t).fn = "enable" /\ Top(t).pc \in {"start", "check"}
  BY DEF AtCheck, At, CanRun, Top

\* A call that finds nothing to enable returns.
LEMMA EnableReturns ==
  ASSUME Shape, NEW t \in Tasks,
         EnableUnsupported(t) \/ EnableNotInactive(t)
  PROVE  Shape' /\ Keeps
<1>1. /\ stack[t] # <<>> /\ Top(t).fn = "enable" /\ Top(t).pc \in {"start", "check"}
      /\ Return(t) /\ UNCHANGED extState
  BY AtCheckFacts DEF EnableUnsupported, EnableNotInactive, At, CanRun, Top, managerVars
<1>2. ~Transits(Top(t))
  BY <1>1 DEF Transits
<1> QED BY <1>1, <1>2, QuietReturn

\* The import begins only for an extension that is INITIALIZED.
LEMMA EnableInitKeeps ==
  ASSUME Shape, NEW t \in Tasks, EnableInit(t)
  PROVE  Shape' /\ Keeps
<1> DEFINE v == Top(t).uuid
           f == Frame("enable", "check", v)
           g == Frame("init", "import", v)
           n1 == <<g, f>> \o Tail(stack[t])
           n2 == <<f>> \o Tail(stack[t])
<1>1. /\ stack[t] # <<>> /\ Top(t).fn = "enable" /\ Top(t).pc = "start"
      /\ extState[v] = "INITIALIZED"
      /\ \/ stack' = [stack EXCEPT ![t] = n1] /\ UNCHANGED extState
         \/ v \in Faulty /\ extState' = [extState EXCEPT ![v] = "ERROR"]
            /\ stack' = [stack EXCEPT ![t] = n2]
  BY DEF EnableInit, At, CanRun, Top, Become, SetState
<1>2. StackOK(stack[t]) /\ Top(t) = stack[t][1]
  BY <1>1, TopIsFirst, Zenon
<1>3. \A u : ~Busy(stack[t], u)
  BY <1>1, <1>2 DEF Busy, Transits
<1>4. FrameOK(f) /\ FrameOK(g)
  BY FramesAreOK, Zenon
<1>5. /\ f.fn = "enable" /\ f.pc = "check" /\ g.fn = "init" /\ g.uuid = v
      /\ ~Transits(f) /\ ~Transits(g)
  BY DEF Frame, Transits
<1> HIDE DEF f, g
<1>7. StackOK(n1) /\ n1[1] = g
  BY ONLY <1>1, <1>2, <1>4, <1>5, Called
<1>8. StackOK(n2) /\ n2[1] = f
  BY ONLY <1>1, <1>2, <1>4, Replaced
<1> HIDE DEF v, n1, n2
<1>9. \A u : ~Busy(n1, u) /\ ~Busy(n2, u)
  BY <1>5, <1>7, <1>8 DEF Busy
<1>10. DOMAIN extState' = Uuids
  BY <1>1 DEF Shape
<1>11. \A u \in Uuids : extState'[u] \in {extState[u], "ERROR"}
  BY <1>1 DEF Shape
<1>12. \A u \in Uuids : Moves(t, n1, u) /\ Moves(t, n2, u)
  BY <1>3, <1>9, <1>11 DEF Moves
<1> QED
  BY <1>1, <1>7, <1>8, <1>10, <1>12, StepKeeps

\* An import that ends sets the state of an extension nobody has in a transition,
\* unless another handler's ended before.
LEMMA InitDoneKeeps ==
  ASSUME Shape, NEW t \in Tasks, InitDone(t)
  PROVE  Shape' /\ Keeps
<1> DEFINE v == Top(t).uuid
           n == Tail(stack[t])
<1>1. /\ stack[t] # <<>> /\ Top(t).fn = "init"
      /\ \/ extState' = [extState EXCEPT ![v] = "INACTIVE"]
         \/ extState' = [extState EXCEPT ![v] = "ERROR"]
      /\ stack' = [stack EXCEPT ![t] = n]
  BY DEF InitDone, At, CanRun, Top, Return, SetState
<1>2. StackOK(stack[t]) /\ Top(t) = stack[t][1]
  BY <1>1, TopIsFirst, Zenon
<1>3. \A u : ~Busy(stack[t], u)
  BY <1>1, <1>2 DEF Busy, Transits
<1>4. StackOK(n) /\ \A u : ~Busy(n, u)
  BY <1>1, <1>2, Returned, Zenon
<1>5. \A u \in Uuids : u = v /\ extState[u] # "INITIALIZED" => Overtaken(u)
  BY Zenon DEF Overtaken
<1> HIDE DEF v, n
<1>6. DOMAIN extState' = Uuids
  BY <1>1 DEF Shape
<1>7. \A u \in Uuids : Moves(t, n, u) \/ Overtaken(u)
  <2> SUFFICES ASSUME NEW u \in Uuids, ~Overtaken(u) PROVE Moves(t, n, u)
    OBVIOUS
  <2>1. CASE u = v
    <3>1. extState[u] = "INITIALIZED" /\ extState'[u] \in {"INACTIVE", "ERROR"}
      BY <1>1, <1>5, <2>1 DEF Shape
    <3> QED BY <1>4, <3>1 DEF Moves
  <2>2. CASE u # v
    <3>1. extState'[u] = extState[u]
      BY <1>1, <2>2 DEF Shape
    <3> QED BY <1>3, <1>4, <3>1 DEF Moves
  <2> QED BY <2>1, <2>2
<1> QED
  BY <1>1, <1>4, <1>6, <1>7, StepKeeps

\* Whoever sets ACTIVATING was alone to find the state INACTIVE.
LEMMA EnableCallKeeps ==
  ASSUME Shape, NEW t \in Tasks, EnableCall(t)
  PROVE  Shape' /\ Keeps
<1> DEFINE v == Top(t).uuid
           f == Frame("enable", "enabling", v)
           n1 == <<f>> \o Tail(stack[t])
           n2 == Tail(stack[t])
<1>1. /\ stack[t] # <<>> /\ Top(t).fn = "enable" /\ Top(t).pc \in {"start", "check"}
      /\ extState[v] = "INACTIVE"
      /\ \/ extState' = [extState EXCEPT ![v] = "ACTIVATING"] /\ stack' = [stack EXCEPT ![t] = n1]
         \/ extState' = [extState EXCEPT ![v] = "ERROR"] /\ stack' = [stack EXCEPT ![t] = n2]
  BY AtCheckFacts DEF EnableCall, Await, Become, Return, SetState
<1>2. StackOK(stack[t]) /\ Top(t) = stack[t][1]
  BY <1>1, TopIsFirst, Zenon
<1>3. \A u : ~Busy(stack[t], u)
  BY <1>1, <1>2 DEF Busy, Transits
<1>4. FrameOK(f)
  BY FramesAreOK, Zenon
<1>5. f.fn = "enable" /\ f.uuid = v /\ Transits(f)
  BY DEF Frame, Transits
<1> HIDE DEF f
<1>6. StackOK(n1) /\ n1 # <<>> /\ n1[1] = f
  BY ONLY <1>1, <1>2, <1>4, Replaced
<1>7. StackOK(n2) /\ \A u : ~Busy(n2, u)
  BY <1>1, <1>2, Returned, Zenon
<1> HIDE DEF v, n1, n2
<1>8. \A u : Busy(n1, u) <=> u = v
  BY <1>5, <1>6 DEF Busy
<1>9. DOMAIN extState' = Uuids /\ DOMAIN extState = Uuids
  BY <1>1 DEF Shape
<1>11. CASE extState' = [extState EXCEPT ![v] = "ACTIVATING"] /\ stack' = [stack EXCEPT ![t] = n1]
  <2>1. \A u \in Uuids : Moves(t, n1, u)
    <3> SUFFICES ASSUME NEW u \in Uuids PROVE Moves(t, n1, u)
      OBVIOUS
    <3>1. CASE u = v
      <4>1. extState'[u] = "ACTIVATING"
        BY <1>9, <1>11, <3>1
      <4> QED BY <1>1, <1>8, <3>1, <4>1 DEF Moves
    <3>2. CASE u # v
      <4>1. extState'[u] = extState[u]
        BY <1>9, <1>11, <3>2
      <4> QED BY <1>3, <1>8, <3>2, <4>1 DEF Moves
    <3> QED BY <3>1, <3>2
  <2> QED BY <1>6, <1>9, <1>11, <2>1, StepKeeps
<1>12. CASE extState' = [extState EXCEPT ![v] = "ERROR"] /\ stack' = [stack EXCEPT ![t] = n2]
  <2>1. \A u \in Uuids : extState'[u] \in {extState[u], "ERROR"}
    BY <1>9, <1>12
  <2>2. \A u \in Uuids : Moves(t, n2, u)
    BY <1>3, <1>7, <2>1 DEF Moves
  <2> QED BY <1>7, <1>9, <1>12, <2>2, StepKeeps
<1> QED
  BY <1>1, <1>11, <1>12

\* A transition that ends: enabling and disabling alike.
LEMMA TransitionEnds ==
  ASSUME Shape, NEW t \in Tasks, stack[t] # <<>>, Transits(Top(t)), Return(t),
         DOMAIN extState' = Uuids,
         \A u \in Uuids :
           \/ u # Top(t).uuid /\ extState'[u] = extState[u]
           \/ u = Top(t).uuid /\ extState'[u] \in {"INACTIVE", "ACTIVE", "ERROR"}
  PROVE  Shape' /\ Keeps
<1> DEFINE v == Top(t).uuid
           n == Tail(stack[t])
<1>1. stack' = [stack EXCEPT ![t] = n]
  BY DEF Return
<1>2. StackOK(stack[t]) /\ Top(t) = stack[t][1]
  BY TopIsFirst, Zenon
<1>3. \A u : Busy(stack[t], u) <=> u = v
  BY <1>2 DEF Busy
<1>4. StackOK(n) /\ \A u : ~Busy(n, u)
  BY <1>2, Returned, Zenon
<1> HIDE DEF n
<1>5. \A u \in Uuids : Moves(t, n, u)
  BY <1>3, <1>4 DEF Moves
<1> QED
  BY <1>1, <1>4, <1>5, StepKeeps

\* enable() has returned or thrown, and ACTIVATING ends.
LEMMA EnableDoneKeeps ==
  ASSUME Shape, NEW t \in Tasks, EnableDone(t)
  PROVE  Shape' /\ Keeps
<1> DEFINE v == Top(t).uuid
<1>1. /\ stack[t] # <<>> /\ Top(t).fn = "enable" /\ Top(t).pc = "enabling"
      /\ \/ extState' = [extState EXCEPT ![v] = "ACTIVE"]
         \/ extState' = [extState EXCEPT ![v] = "ERROR"]
      /\ Return(t)
  BY DEF EnableDone, At, CanRun, Top, SetState
<1>2. Transits(Top(t))
  BY <1>1 DEF Transits
<1>3. DOMAIN extState' = Uuids /\ DOMAIN extState = Uuids
  BY <1>1 DEF Shape
<1>4. \A u \in Uuids :
        \/ u # v /\ extState'[u] = extState[u]
        \/ u = v /\ extState'[u] \in {"INACTIVE", "ACTIVE", "ERROR"}
  BY <1>1, <1>3
<1> QED
  BY <1>1, <1>2, <1>3, <1>4, TransitionEnds

---------------------------------------------------------------------------
(* Disabling.                                                              *)

LEMMA DisableNotActiveKeeps ==
  ASSUME Shape, NEW t \in Tasks, DisableNotActive(t)
  PROVE  Shape' /\ Keeps
<1>1. /\ stack[t] # <<>> /\ Top(t).fn = "disable" /\ Top(t).pc = "start"
      /\ Return(t) /\ UNCHANGED extState
  BY DEF DisableNotActive, At, CanRun, Top, managerVars
<1>2. ~Transits(Top(t))
  BY <1>1 DEF Transits
<1> QED BY <1>1, <1>2, QuietReturn

\* Whoever sets DEACTIVATING was alone to find the state ACTIVE.
LEMMA DisableCallKeeps ==
  ASSUME Shape, NEW t \in Tasks, DisableCall(t)
  PROVE  Shape' /\ Keeps
<1> DEFINE v == Top(t).uuid
           i == IndexOf(extensionOrder, v)
           order == SubSeq(extensionOrder, i + 1, Len(extensionOrder))
           f == [fn |-> "disable", pc |-> "rebase", uuid |-> v, idx |-> i, todo |-> order]
           n == <<f>> \o Tail(stack[t])
<1>1. /\ stack[t] # <<>> /\ Top(t).fn = "disable" /\ Top(t).pc = "start"
      /\ extState[v] = "ACTIVE"
      /\ \E F : extState' = [u \in Uuids |-> IF u \in F THEN "ERROR"
                                              ELSE IF u = v THEN "DEACTIVATING"
                                              ELSE extState[u]]
      /\ stack' = [stack EXCEPT ![t] = n]
  BY DEF DisableCall, At, CanRun, Top, Continue, Become
<1>2. StackOK(stack[t]) /\ Top(t) = stack[t][1]
  BY <1>1, TopIsFirst, Zenon
<1>3. \A u : ~Busy(stack[t], u)
  BY <1>1, <1>2 DEF Busy, Transits
<1> HIDE DEF i, order
<1>4. FrameOK(f) /\ f.fn = "disable" /\ f.uuid = v /\ Transits(f)
  BY DEF FrameOK, Transits
<1> HIDE DEF f
<1>5. StackOK(n) /\ n # <<>> /\ n[1] = f
  BY ONLY <1>1, <1>2, <1>4, Replaced
<1> HIDE DEF v, n
<1>6. \A u : Busy(n, u) <=> u = v
  BY <1>4, <1>5 DEF Busy
<1>7. /\ DOMAIN extState' = Uuids
      /\ \A u \in Uuids : IF u = v THEN extState'[u] \in {"DEACTIVATING", "ERROR"}
                                    ELSE extState'[u] \in {extState[u], "ERROR"}
  BY <1>1
<1>8. \A u \in Uuids : Moves(t, n, u)
  <2> SUFFICES ASSUME NEW u \in Uuids PROVE Moves(t, n, u)
    OBVIOUS
  <2>1. CASE u = v
    BY <1>1, <1>6, <1>7, <2>1 DEF Moves
  <2>2. CASE u # v
    BY <1>3, <1>6, <1>7, <2>2 DEF Moves
  <2> QED BY <2>1, <2>2
<1> QED
  BY <1>1, <1>5, <1>7, <1>8, StepKeeps

\* The rebasing goes on: u stays in transition, whatever fails.
LEMMA RebaseGoesOn ==
  ASSUME Shape, NEW t \in Tasks, stack[t] # <<>>, Transits(Top(t)),
         NEW f, FrameOK(f), Transits(f), f.uuid = Top(t).uuid, Become(t, f),
         DOMAIN extState' = Uuids,
         \A u \in Uuids : extState'[u] \in {extState[u], "ERROR"}
  PROVE  Shape' /\ Keeps
<1> DEFINE n == <<f>> \o Tail(stack[t])
<1>1. stack' = [stack EXCEPT ![t] = n]
  BY DEF Become
<1>2. StackOK(stack[t]) /\ Top(t) = stack[t][1]
  BY TopIsFirst, Zenon
<1>3. StackOK(n) /\ n # <<>> /\ n[1] = f
  BY ONLY <1>2, FrameOK(f), stack[t] # <<>>, Replaced
<1> HIDE DEF n
<1>4. \A u : Busy(n, u) <=> Busy(stack[t], u)
  BY <1>2, <1>3 DEF Busy
<1>5. \A u \in Uuids : Moves(t, n, u)
  BY <1>4 DEF Moves
<1> QED
  BY <1>1, <1>3, <1>5, StepKeeps

\* Rebasing other extensions does not move their states.
LEMMA RebaseKeeps ==
  ASSUME Shape, NEW t \in Tasks, RebaseCall(t) \/ RebaseDone(t)
  PROVE  Shape' /\ Keeps
<1>1. /\ stack[t] # <<>> /\ Top(t).fn = "disable" /\ Top(t).pc \in {"rebase", "rebased"}
  BY DEF RebaseCall, RebaseDone, At, CanRun, Top
<1>2. FrameOK(Top(t)) /\ Transits(Top(t))
  BY <1>1, TopIsFirst DEF Transits
<1>3. {"fn", "pc", "uuid", "todo"} \subseteq DOMAIN Top(t)
  BY <1>1, <1>2 DEF FrameOK
<1>4. DOMAIN extState = Uuids
  BY DEF Shape
<1>5. CASE RebaseCall(t)
  <2> DEFINE f == [Top(t) EXCEPT !.pc = "rebased"]
  <2>1. f.fn = "disable" /\ f.pc = "rebased" /\ f.uuid = Top(t).uuid /\ DOMAIN f = DOMAIN Top(t)
    BY <1>1, <1>3
  <2>2. Become(t, f) /\ UNCHANGED extState
    BY <1>5 DEF RebaseCall, Await
  <2> HIDE DEF f
  <2>3. FrameOK(f) /\ Transits(f)
    BY <1>3, <2>1 DEF FrameOK, Transits
  <2> QED
    BY <1>1, <1>2, <1>4, <2>1, <2>2, <2>3, RebaseGoesOn
<1>6. CASE RebaseDone(t)
  <2> DEFINE v == Head(Top(t).todo)
             e == [Top(t) EXCEPT !.pc = "rebase"]
             f == [e EXCEPT !.todo = Tail(@)]
  <2>1. f.fn = "disable" /\ f.pc = "rebase" /\ f.uuid = Top(t).uuid /\ DOMAIN f = DOMAIN Top(t)
    BY <1>1, <1>3
  <2>2. /\ Become(t, f)
        /\ UNCHANGED extState \/ extState' = [extState EXCEPT ![v] = "ERROR"]
    BY <1>6 DEF RebaseDone, Continue, SetState
  <2> HIDE DEF v, f
  <2>3. FrameOK(f) /\ Transits(f)
    BY <1>3, <2>1 DEF FrameOK, Transits
  <2>4. DOMAIN extState' = Uuids /\ \A u \in Uuids : extState'[u] \in {extState[u], "ERROR"}
    BY <1>4, <2>2
  <2> QED
    BY <1>1, <1>2, <2>1, <2>2, <2>3, <2>4, RebaseGoesOn
<1> QED
  BY <1>5, <1>6

\* disable() has returned or thrown, and DEACTIVATING ends.
LEMMA DisableDoneKeeps ==
  ASSUME Shape, NEW t \in Tasks, DisableDone(t)
  PROVE  Shape' /\ Keeps
<1> DEFINE v == Top(t).uuid
<1>1. /\ stack[t] # <<>> /\ Top(t).fn = "disable" /\ Top(t).pc = "rebase"
      /\ IF extState[v] = "ERROR" THEN UNCHANGED extState
                                  ELSE extState' = [extState EXCEPT ![v] = "INACTIVE"]
      /\ Return(t)
  BY DEF DisableDone, At, CanRun, Top, SetState
<1>2. Transits(Top(t))
  BY <1>1 DEF Transits
<1>3. DOMAIN extState' = Uuids /\ DOMAIN extState = Uuids
  BY <1>1 DEF Shape
<1>4. \A u \in Uuids :
        \/ u # v /\ extState'[u] = extState[u]
        \/ u = v /\ extState'[u] \in {"INACTIVE", "ACTIVE", "ERROR"}
  BY <1>1, <1>3
<1> QED
  BY <1>1, <1>2, <1>3, <1>4, TransitionEnds

---------------------------------------------------------------------------
(* The handlers.                                                           *)

LEMMA CallNextKeeps ==
  ASSUME Shape, NEW t \in Tasks,
         ChangedEnableNext(t) \/ ChangedDisableNext(t) \/ EnableAllNext(t)
  PROVE  Shape' /\ Keeps
<1> DEFINE f == [Top(t) EXCEPT !.todo = Tail(@)]
           x == Head(Top(t).todo)
<1>1. PICK fn \in {"enable", "disable"} :
        /\ stack[t] # <<>> /\ Top(t).fn \in {"changed", "enableAll"}
        /\ CallNext(t, fn)
  BY DEF ChangedEnableNext, ChangedDisableNext, EnableAllNext, At, CanRun, Top
<1> DEFINE g == Frame(fn, "start", x)
<1>2. FrameOK(Top(t)) /\ ~Transits(Top(t))
  BY <1>1, TopIsFirst DEF Transits
<1>3. {"fn", "pc", "todo"} \subseteq DOMAIN Top(t)
  BY <1>1, <1>2 DEF FrameOK
<1>4. f.fn = Top(t).fn /\ DOMAIN f = DOMAIN Top(t)
  BY <1>3
<1>5. /\ stack' = [stack EXCEPT ![t] = <<g, f>> \o Tail(@)]
      /\ UNCHANGED extState
  BY <1>1 DEF CallNext, Call, managerVars
<1> HIDE DEF f, x
<1>6. FrameOK(f) /\ ~Transits(f)
  BY <1>1, <1>3, <1>4 DEF FrameOK, Transits
<1>7. FrameOK(g) /\ ~Transits(g)
  BY <1>1 DEF FrameOK, Frame, Transits
<1> HIDE DEF g
<1> QED
  BY ONLY <1>1, <1>2, <1>5, <1>6, <1>7, Shape, t \in Tasks, QuietCall

\* A handler calls for the next extension of its list.
LEMMA ListGoesOn ==
  ASSUME Shape, NEW t \in Tasks, ChangedEnabled(t) \/ EnableAllStart(t)
  PROVE  Shape' /\ Keeps
<1>1. stack[t] # <<>> /\ Top(t).fn \in {"changed", "enableAll"}
  BY DEF ChangedEnabled, EnableAllStart, At, CanRun, Top
<1>2. FrameOK(Top(t)) /\ ~Transits(Top(t))
  BY <1>1, TopIsFirst DEF Transits
<1>3. {"fn", "pc", "todo"} \subseteq DOMAIN Top(t)
  BY <1>1, <1>2 DEF FrameOK
<1>4. CASE ChangedEnabled(t)
  <2> DEFINE todo == Reverse(ToDisable(Top(t).new))
             e == [Top(t) EXCEPT !.pc = "disable"]
             f == [e EXCEPT !.todo = todo]
  <2>1. Become(t, f) /\ UNCHANGED extState
    BY <1>4 DEF ChangedEnabled, Continue, managerVars
  <2> HIDE DEF todo
  <2>2. f.fn = Top(t).fn /\ DOMAIN f = DOMAIN Top(t)
    BY <1>3
  <2> HIDE DEF f
  <2>3. FrameOK(f) /\ ~Transits(f)
    BY <1>1, <1>3, <2>2 DEF FrameOK, Transits
  <2> QED
    BY ONLY <1>1, <1>2, <2>1, <2>3, Shape, t \in Tasks, QuietBecome
<1>5. CASE EnableAllStart(t)
  <2> DEFINE f == ListFrame("enableAll", "enable", enabledExtensions, <<>>)
  <2>1. Become(t, f) /\ UNCHANGED extState
    BY <1>5 DEF EnableAllStart, Continue, managerVars
  <2>2. FrameOK(f) /\ ~Transits(f)
    BY DEF FrameOK, Transits, ListFrame
  <2> HIDE DEF f
  <2> QED
    BY ONLY <1>1, <1>2, <2>1, <2>2, Shape, t \in Tasks, QuietBecome
<1> QED
  BY <1>4, <1>5

\* A handler that has come to the end of its list returns.
LEMMA HandlerEnds ==
  ASSUME Shape, NEW t \in Tasks, ChangedDone(t) \/ EnableAllDone(t)
  PROVE  Shape' /\ Keeps
<1>1. /\ stack[t] # <<>> /\ Top(t).fn \in {"changed", "enableAll"}
      /\ Return(t) /\ UNCHANGED extState
  BY DEF ChangedDone, EnableAllDone, At, CanRun, Top, managerVars
<1>2. ~Transits(Top(t))
  BY <1>1 DEF Transits
<1> QED BY <1>1, <1>2, QuietReturn

\* A handler starts, with one frame or two.
LEMMA HandlerStarts ==
  ASSUME Shape, NEW t \in Tasks,
         (\E sets \in [Uuids -> Settings] : SettingsChange(t, sets)) \/ (\E m \in Modes : SessionChange(t, m))
  PROVE  Shape' /\ Keeps
<1>1. \A w, m : /\ FrameOK(ChangedFrame(w, m)) /\ ~Transits(ChangedFrame(w, m))
                /\ ChangedFrame(w, m).fn = "changed"
  BY DEF ChangedFrame, ListFrame, FrameOK, Transits
<1> DEFINE g == ListFrame("enableAll", "start", <<>>, <<>>)
<1>2. FrameOK(g) /\ ~Transits(g) /\ g.fn = "enableAll"
  BY DEF ListFrame, FrameOK, Transits
<1> HIDE DEF g
<1>3. /\ UNCHANGED extState /\ stack[t] = <<>>
      /\ \E w, m : \/ stack' = [stack EXCEPT ![t] = <<ChangedFrame(w, m)>>]
                   \/ stack' = [stack EXCEPT ![t] = <<ChangedFrame(w, m), g>>]
  BY DEF SettingsChange, SessionChange, managerVars, g
<1>4. PICK w, m : \/ stack' = [stack EXCEPT ![t] = <<ChangedFrame(w, m)>>]
                  \/ stack' = [stack EXCEPT ![t] = <<ChangedFrame(w, m), g>>]
  BY <1>3
<1> DEFINE f == ChangedFrame(w, m)
<1>5. FrameOK(f) /\ ~Transits(f) /\ f.fn = "changed"
  BY <1>1
<1>6. stack' = [stack EXCEPT ![t] = <<f>>] \/ stack' = [stack EXCEPT ![t] = <<f, g>>]
  BY <1>4
<1> HIDE DEF f
<1>7. /\ StackOK(<<f>>) /\ \A u : ~Busy(<<f>>, u)
  <2>1. <<f>> \in Seq({f})
    OBVIOUS
  <2>2. IsSeq(<<f>>)
    BY ONLY <2>1, SeqOfItsElements
  <2>3. \A i \in DOMAIN <<f>> : <<f>>[i] = f
    OBVIOUS
  <2> QED BY <1>5, <2>2, <2>3 DEF StackOK, Busy
<1>8. /\ StackOK(<<f, g>>) /\ \A u : ~Busy(<<f, g>>, u)
  <2>1. <<f, g>> \in Seq({f, g})
    OBVIOUS
  <2>2. IsSeq(<<f, g>>)
    BY ONLY <2>1, SeqOfItsElements
  <2>3. (\A i \in DOMAIN <<f, g>> : <<f, g>>[i] \in {f, g}) /\ <<f, g>>[1] = f
    OBVIOUS
  <2> QED BY <1>2, <1>5, <2>2, <2>3 DEF StackOK, Busy
<1>9. \A u : ~Busy(stack[t], u)
  BY <1>3 DEF Busy
<1> QED
  BY <1>3, <1>6, <1>7, <1>8, <1>9, QuietStep

---------------------------------------------------------------------------
(* The theorem.                                                            *)

LEMMA StepOfTask ==
  ASSUME Shape, NEW t \in Tasks, Step(t)
  PROVE  Shape' /\ Keeps
<1>1. CASE EnableUnsupported(t) \/ EnableNotInactive(t)
  BY <1>1, EnableReturns
<1>2. CASE EnableInit(t)
  BY <1>2, EnableInitKeeps
<1>3. CASE InitDone(t)
  BY <1>3, InitDoneKeeps
<1>4. CASE EnableCall(t)
  BY <1>4, EnableCallKeeps
<1>5. CASE EnableDone(t)
  BY <1>5, EnableDoneKeeps
<1>6. CASE DisableNotActive(t)
  BY <1>6, DisableNotActiveKeeps
<1>7. CASE DisableCall(t)
  BY <1>7, DisableCallKeeps
<1>8. CASE RebaseCall(t) \/ RebaseDone(t)
  BY <1>8, RebaseKeeps
<1>9. CASE DisableDone(t)
  BY <1>9, DisableDoneKeeps
<1>10. CASE ChangedEnableNext(t) \/ ChangedDisableNext(t) \/ EnableAllNext(t)
  BY <1>10, CallNextKeeps
<1>11. CASE ChangedEnabled(t) \/ EnableAllStart(t)
  BY <1>11, ListGoesOn
<1>12. CASE ChangedDone(t) \/ EnableAllDone(t)
  BY <1>12, HandlerEnds
<1> QED
  BY <1>1, <1>2, <1>3, <1>4, <1>5, <1>6, <1>7, <1>8, <1>9, <1>10, <1>11, <1>12, Zenon DEF Step

\* Shape holds in every reachable state, and every step keeps the locks.
LEMMA NextKeeps ==
  ASSUME Shape, [Next]_vars
  PROVE  Shape' /\ Keeps
<1>1. CASE \E t \in Tasks : Step(t)
  BY <1>1, StepOfTask
<1>2. CASE \/ \E t \in Tasks, sets \in [Uuids -> Settings] : SettingsChange(t, sets)
           \/ \E t \in Tasks, m \in Modes : SessionChange(t, m)
  BY <1>2, HandlerStarts
<1>3. CASE UNCHANGED vars
  <2>1. UNCHANGED <<stack, extState>>
    BY <1>3 DEF vars, managerVars
  <2> QED BY <2>1 DEF Shape, Keeps, LockOf
<1> QED BY <1>1, <1>2, <1>3, Zenon DEF Next

LEMMA ShapeHolds == Spec => []Shape
<1>1. Init => Shape
  <2> SUFFICES ASSUME Init PROVE Shape
    OBVIOUS
  <2>1. /\ DOMAIN stack = Tasks /\ \A t \in Tasks : stack[t] = <<>>
        /\ DOMAIN extState = Uuids
    BY DEF Init
  <2>2. StackOK(<<>>)
    <3>1. <<>> \in Seq({}) /\ DOMAIN <<>> = {}
      OBVIOUS
    <3>2. IsSeq(<<>>)
      BY ONLY <3>1, SeqOfItsElements
    <3> QED BY <3>1, <3>2 DEF StackOK
  <2> QED BY <2>1, <2>2 DEF Shape
<1>2. Shape /\ [Next]_vars => Shape'
  BY NextKeeps
<1> QED
  BY <1>1, <1>2, PTL DEF Spec

\* LockOf says what the property says.
LEMMA LockIsLockOf == Shape => \A v \in Uuids : Lock(v) <=> LockOf(v)
<1> SUFFICES ASSUME Shape, NEW v \in Uuids PROVE Lock(v) <=> LockOf(v)
  OBVIOUS
<1>1. \A u, t : t \in InTransition(u) => t \in Tasks /\ Busy(stack[t], u)
  <2> SUFFICES ASSUME NEW u, NEW t \in InTransition(u)
               PROVE  t \in Tasks /\ Busy(stack[t], u)
    OBVIOUS
  <2>1. t \in Tasks
    BY DEF InTransition
  <2>2. StackOK(stack[t])
    BY <2>1 DEF Shape
  <2> DEFINE s == stack[t]
             R == {s[i] : i \in DOMAIN s}
  <2>3. PICK i \in 1 .. Len(s) : Transits(s[i]) /\ s[i].uuid = u
    BY DEF InTransition, Transits
  <2>4. s \in Seq(R)
    BY <2>2 DEF StackOK, IsSeq
  <2> HIDE DEF R
  <2>5. DOMAIN s = 1 .. Len(s) /\ s # <<>>
    BY <2>3, <2>4
  <2>6. i = 1
    BY <2>2, <2>3, <2>5 DEF StackOK
  <2> QED BY <2>1, <2>3, <2>5, <2>6 DEF Busy
<1>2. \A u, t : t \in Tasks /\ Busy(stack[t], u) => t \in InTransition(u)
  <2> SUFFICES ASSUME NEW u, NEW t \in Tasks, Busy(stack[t], u)
               PROVE  t \in InTransition(u)
    OBVIOUS
  <2>2. StackOK(stack[t])
    BY DEF Shape
  <2> DEFINE s == stack[t]
             R == {s[i] : i \in DOMAIN s}
  <2>4. s \in Seq(R)
    BY <2>2 DEF StackOK, IsSeq
  <2> HIDE DEF R
  <2>5. 1 \in 1 .. Len(s)
    BY <2>4 DEF Busy
  <2> QED BY <2>5 DEF InTransition, Busy, Transits
<1> QED
  BY ONLY <1>1, <1>2 DEF Lock, LockOf

\* Extensions are enabled and disabled by one handler at a time, however the
\* handlers overlap and whatever fails: the state _callExtensionEnable and
\* _callExtensionDisable check and set before they await is the lock.  No step
\* loses it but the end of an import that another handler has overtaken.
THEOREM TransitionsAreExclusive == Spec => LockIsKept
<1> DEFINE A == \A u \in Uuids : Lock(u) /\ ~Lock(u)' => Overtaken(u)
<1>1. (Shape => \A v \in Uuids : Lock(v) <=> LockOf(v))'
  BY LockIsLockOf, PTL
<1>2. Shape /\ [Next]_vars => [A]_vars
  <2> SUFFICES ASSUME Shape, [Next]_vars, NEW u \in Uuids, Lock(u), ~Overtaken(u)
               PROVE  Lock(u)'
    BY Zenon
  <2>1. Shape' /\ Keeps
    BY NextKeeps
  <2>2. LockOf(u)
    BY LockIsLockOf
  <2>3. LockOf(u)'
    BY <2>1, <2>2, Zenon DEF Keeps
  <2> QED BY <1>1, <2>1, <2>3, Zenon
<1> QED
  BY ShapeHolds, <1>2, PTL DEF Spec, LockIsKept

---------------------------------------------------------------------------
(* One handler at a time.  What it does is told by its frames s.           *)

\* A handler that runs alone.
Alone == \A s, t \in Tasks : s = t

Frames ==
  [fn : {"init"}, pc : {"import"}, uuid : Uuids]
    \cup [fn : {"enable"}, pc : {"start", "check", "enabling"}, uuid : Uuids]
    \cup [fn : {"disable"}, pc : {"start"}, uuid : Uuids]
    \cup [fn : {"disable"}, pc : {"rebase", "rebased"}, uuid : Uuids, idx : Int, todo : Seq(Uuids)]
    \cup [fn : {"changed"}, pc : {"enable", "disable"}, todo : Seq(Uuids), new : Seq(Uuids)]
    \cup [fn : {"enableAll"}, pc : {"start", "enable"}, todo : Seq(Uuids), new : Seq(Uuids)]

\* A frame calls those of a lower rank only.
Rank(f) ==
  CASE f.fn = "init" -> 1
    [] f.fn \in {"enable", "disable"} -> 2
    [] f.fn = "changed" -> 3
    [] f.fn = "enableAll" -> 4

\* A frame that waits for a call is in no transition.
Waits(f) == f.fn \in {"changed", "enableAll"} \/ (f.fn = "enable" /\ f.pc = "check")

Nested(s) ==
  /\ s \in Seq(Frames)
  /\ \A i, j \in DOMAIN s : i < j => Rank(s[i]) < Rank(s[j]) /\ Waits(s[j])

\* The extension is to run.
Due(u) == u \in wanted /\ Supports(u, mode)

\* The frame is about to enable u, if u is due; to disable it, if not.
WillEnable(f, u) ==
  \/ f.fn = "enable" /\ f.uuid = u
  \/ f.fn = "changed" /\ f.pc = "enable" /\ u \in ToSet(f.todo)
  \/ f.fn = "enableAll" /\ (f.pc = "start" \/ u \in ToSet(f.todo))
WillDisable(f, u) ==
  \/ f.fn = "disable" /\ f.uuid = u
  \/ f.fn = "changed" /\ (f.pc = "enable" \/ u \in ToSet(f.todo))

\* What the lists of a frame hold.
ListsAreRight(f) ==
  /\ f.fn = "enable" => f.uuid \in wanted /\ (f.pc # "start" => Supports(f.uuid, mode))
  /\ f.fn = "disable" => ~Due(f.uuid)
  /\ f.fn = "changed" /\ f.pc = "enable" => ToSet(f.todo) \subseteq wanted
  /\ f.fn = "changed" /\ f.pc = "disable" => \A u \in ToSet(f.todo) : ~Due(u)
  /\ f.fn = "changed" => ToSet(f.new) = wanted
  /\ f.fn = "enableAll" => ToSet(f.todo) \subseteq wanted

\* What is left to be rebased is the end of the order.
IsEndOf(todo, order, idx) ==
  \E m \in (idx + 1) .. (Len(order) + 1) : todo = SubSeq(order, m, Len(order))
Rebases(f) == f.fn = "disable" /\ f.pc \in {"rebase", "rebased"}

\* What the innermost frame relies on.
TopIsRight(s) ==
  LET f == s[1]
  IN  /\ f.fn = "init" => /\ extState[f.uuid] = "INITIALIZED"
                          /\ \A g \in ToSet(s) : g.fn = "enable" => g.uuid = f.uuid
      /\ f.fn = "enable" /\ f.pc = "check" => extState[f.uuid] # "INITIALIZED"
      /\ f.fn = "enable" /\ f.pc = "enabling" => extState[f.uuid] = "ACTIVATING"
      /\ Rebases(f) => /\ extState[f.uuid] \in {"DEACTIVATING", "ERROR"}
                       /\ f.idx \in DOMAIN extensionOrder /\ extensionOrder[f.idx] = f.uuid
                       /\ IsEndOf(f.todo, extensionOrder, f.idx)
      /\ f.fn = "disable" /\ f.pc = "rebased" => f.todo # <<>>

\* u is not running, although it is in the order: it is being disabled, or has yet
\* to be enabled again.
Down(f, u) ==
  Rebases(f) /\ (u = f.uuid \/ u \in ToSet(IF f.pc = "rebased" THEN Tail(f.todo) ELSE f.todo))

StateIsRight(s, u) ==
  /\ extState[u] = "ACTIVATING" => s # <<>> /\ s[1].fn = "enable" /\ s[1].pc = "enabling" /\ s[1].uuid = u
  /\ extState[u] = "DEACTIVATING" => s # <<>> /\ Rebases(s[1]) /\ s[1].uuid = u
  /\ extState[u] \in {"ACTIVE", "DEACTIVATING"} => u \in ToSet(extensionOrder)
  /\ u \in ToSet(extensionOrder) =>
       /\ extState[u] \in {"ACTIVE", "DEACTIVATING", "ERROR"}
       /\ on[u] = IF s # <<>> /\ Down(s[1], u) THEN 0 ELSE 1
  /\ extState[u] \in {"INITIALIZED", "INACTIVE"} => on[u] = 0
  /\ extState[u] = "ACTIVATING" => on[u] = 1
  /\ Due(u) => extState[u] \in {"ACTIVE", "ERROR"} \/ \E f \in ToSet(s) : WillEnable(f, u)
  /\ ~Due(u) /\ extState[u] = "ACTIVE" => \E f \in ToSet(s) : WillDisable(f, u)

Solo(s) ==
  /\ wanted \subseteq Uuids /\ enabledExtensions \in Seq(Uuids)
  /\ extState \in [Uuids -> States] /\ on \in [Uuids -> Int]
  /\ extensionOrder \in Seq(Uuids) /\ IsInjective(extensionOrder)
  /\ Nested(s)
  /\ \A f \in ToSet(s) : ListsAreRight(f)
  /\ s # <<>> => TopIsRight(s)
  /\ \A u \in Uuids : StateIsRight(s, u)
  /\ ToSet(enabledExtensions) = wanted \/ \E f \in ToSet(s) : f.fn = "changed"

\* The frames of the only handler.
Handler == IF Tasks = {} THEN <<>> ELSE stack[CHOOSE t \in Tasks : TRUE]

SoloInv == DOMAIN stack = Tasks /\ Solo(Handler)

---------------------------------------------------------------------------
(* Sequences.                                                              *)

\* The places of a filter are counted from 1.
LEMMA PlacesAreCounted ==
  ASSUME NEW n \in Nat, NEW P \in SUBSET (1 .. n)
  PROVE  /\ Cardinality(P) \in Nat
         /\ \A i \in P : PlacesUpTo(P, i) \in 1 .. Cardinality(P)
         /\ \A k \in 1 .. Cardinality(P) : \E i \in P : PlacesUpTo(P, i) = k
         /\ \A i, j \in P : PlacesUpTo(P, i) = PlacesUpTo(P, j) => i = j
<1> DEFINE U(i) == {j \in P : j <= i}
           c == Cardinality(P)
<1>1. \A i \in P : i \in Nat
  OBVIOUS
<1>2. IsFiniteSet(P)
  <2>1. IsFiniteSet(1 .. n)
    BY FS_Interval
  <2> QED BY <2>1, FS_Subset
<1>3. c \in Nat
  BY <1>2, FS_CardinalityType
<1>4. \A i \in P : IsFiniteSet(U(i)) /\ Cardinality(U(i)) \in 1 .. c
  <2> SUFFICES ASSUME NEW i \in P
               PROVE  IsFiniteSet(U(i)) /\ Cardinality(U(i)) \in 1 .. c
    OBVIOUS
  <2>1. U(i) \in SUBSET P /\ i \in U(i)
    BY <1>1
  <2>2. IsFiniteSet(U(i)) /\ Cardinality(U(i)) <= c
    BY ONLY <1>2, <2>1, FS_Subset
  <2>3. Cardinality(U(i)) \in Nat /\ Cardinality(U(i)) # 0
    BY <2>1, <2>2, FS_CardinalityType, FS_EmptySet
  <2> QED BY <1>3, <2>2, <2>3
<1>5. ASSUME NEW i \in P, NEW j \in P, i < j
      PROVE  Cardinality(U(i)) # Cardinality(U(j))
  <2>1. U(i) \in SUBSET U(j) /\ U(i) # U(j)
    <3>1. j \in U(j) /\ j \notin U(i)
      BY <1>1, <1>5
    <3>2. \A x \in U(i) : x \in U(j)
      BY <1>1, <1>5
    <3> QED BY <3>1, <3>2
  <2>2. IsFiniteSet(U(j))
    BY <1>4
  <2> HIDE DEF U
  <2> QED BY ONLY <2>1, <2>2, FS_Subset
<1> DEFINE f == [i \in P |-> Cardinality(U(i))]
<1>6. f \in [P -> 1 .. c] /\ \A i \in P : f[i] = Cardinality(U(i))
  <2> HIDE DEF U, c
  <2> QED BY <1>4
<1>7. \A i, j \in P : f[i] = f[j] => i = j
  <2> HIDE DEF U, c, f
  <2> QED BY <1>1, <1>5, <1>6
<1>8. IsFiniteSet(1 .. c) /\ Cardinality(1 .. c) = c
  BY <1>3, FS_Interval
<1> HIDE DEF f
<1>9. f \in Surjection(P, 1 .. c)
  <2>1. f \in Injection(P, 1 .. c)
    BY <1>6, <1>7 DEF Injection, IsInjective
  <2> QED BY <1>8, <2>1, FS_Injection
<1>10. \A k \in 1 .. c : \E i \in P : Cardinality(U(i)) = k
  BY <1>6, <1>9 DEF Surjection
<1>11. \A i, j \in P : Cardinality(U(i)) = Cardinality(U(j)) => i = j
  BY <1>6, <1>7
<1> QED BY <1>3, <1>4, <1>10, <1>11 DEF PlacesUpTo

\* What is picked from a sequence.
LEMMA PickFacts ==
  ASSUME NEW E, NEW s \in Seq(E), NEW P \in SUBSET DOMAIN s
  PROVE  Pick(s, P) \in Seq(E) /\ ToSet(Pick(s, P)) = {s[i] : i \in P}
<1> DEFINE c == Cardinality(P)
           at(k) == CHOOSE i \in P : PlacesUpTo(P, i) = k
           r == [k \in 1 .. c |-> s[at(k)]]
<1>1. Len(s) \in Nat /\ DOMAIN s = 1 .. Len(s) /\ \A i \in DOMAIN s : s[i] \in E
  OBVIOUS
<1>2. P \in SUBSET (1 .. Len(s))
  BY <1>1
<1>3. \A i \in P : s[i] \in E
  BY <1>1
<1>5. Pick(s, P) = r
  BY DEF Pick
<1>6. /\ c \in Nat
      /\ \A i \in P : PlacesUpTo(P, i) \in 1 .. c
      /\ \A k \in 1 .. c : \E i \in P : PlacesUpTo(P, i) = k
      /\ \A i, j \in P : PlacesUpTo(P, i) = PlacesUpTo(P, j) => i = j
  BY <1>1, <1>2, PlacesAreCounted
<1> HIDE DEF c
<1>7. \A k \in 1 .. c : at(k) \in P /\ PlacesUpTo(P, at(k)) = k
  BY <1>6
<1>8. ASSUME NEW i \in P
      PROVE  \E k \in 1 .. c : s[at(k)] = s[i]
  <2>1. PICK k \in 1 .. c : PlacesUpTo(P, i) = k
    BY <1>6
  <2>2. at(k) \in P /\ PlacesUpTo(P, at(k)) = k
    BY <1>7
  <2> HIDE DEF at
  <2> QED BY <1>6, <2>1, <2>2
<1> HIDE DEF at
<1>9. r \in Seq(E)
  <2>1. r \in [1 .. c -> E]
    BY <1>3, <1>7
  <2> HIDE DEF r
  <2> QED BY <1>6, <2>1
<1>10. ToSet(r) = {s[at(k)] : k \in 1 .. c}
  BY DEF ToSet
<1>11. \A x : x \in ToSet(r) <=> \E i \in P : x = s[i]
  BY <1>7, <1>8, <1>10
<1> HIDE DEF r
<1> QED BY <1>5, <1>9, <1>11

\* What a filter keeps.
LEMMA FilterFacts ==
  ASSUME NEW E, NEW s \in Seq(E), NEW S
  PROVE  Filter(s, S) \in Seq(E) /\ ToSet(Filter(s, S)) = ToSet(s) \cap S
<1> DEFINE P == {i \in DOMAIN s : s[i] \in S}
<1>1. P \in SUBSET DOMAIN s
  OBVIOUS
<1>2. \A x : (\E i \in P : x = s[i]) <=> x \in ToSet(s) /\ x \in S
  BY DEF ToSet
<1>3. Filter(s, S) = Pick(s, P)
  BY DEF Filter
<1> HIDE DEF P
<1>4. Pick(s, P) \in Seq(E) /\ ToSet(Pick(s, P)) = {s[i] : i \in P}
  BY <1>1, PickFacts
<1>5. \A x : x \in ToSet(Filter(s, S)) <=> x \in ToSet(s) /\ x \in S
  BY <1>2, <1>3, <1>4
<1> QED BY <1>3, <1>4, <1>5

\* What a sequence holds.
LEMMA Contents ==
  ASSUME NEW E, NEW s \in Seq(E)
  PROVE  /\ Len(s) \in Nat /\ DOMAIN s = 1 .. Len(s) /\ ToSet(s) \subseteq E
         /\ Reverse(s) \in Seq(E) /\ ToSet(Reverse(s)) = ToSet(s)
         /\ s # <<>> => /\ Head(s) = s[1] /\ s[1] \in E /\ s[1] \in ToSet(s) /\ Tail(s) \in Seq(E)
                        /\ ToSet(s) = {s[1]} \cup ToSet(Tail(s))
         /\ s = <<>> => ToSet(s) = {}
<1>1. Len(s) \in Nat /\ DOMAIN s = 1 .. Len(s) /\ \A i \in DOMAIN s : s[i] \in E
  OBVIOUS
<1>2. \A x : x \in ToSet(s) <=> \E i \in 1 .. Len(s) : x = s[i]
  BY <1>1 DEF ToSet
<1>3. Reverse(s) \in Seq(E) /\ ToSet(Reverse(s)) = ToSet(s)
  <2> DEFINE r == [i \in 1 .. Len(s) |-> s[(Len(s) - i) + 1]]
  <2>1. \A i \in 1 .. Len(s) : (Len(s) - i) + 1 \in 1 .. Len(s)
    BY <1>1
  <2>2. r \in [1 .. Len(s) -> E]
    BY <1>1, <2>1
  <2>3. DOMAIN r = 1 .. Len(s) /\ \A i \in 1 .. Len(s) : r[i] = s[(Len(s) - i) + 1]
    OBVIOUS
  <2>4. Reverse(s) = r
    BY DEF Reverse
  <2> HIDE DEF r
  <2>5. r \in Seq(E)
    BY <1>1, <2>2
  <2>6. \A i \in 1 .. Len(s) : \E j \in 1 .. Len(s) : s[i] = r[j]
    <3> SUFFICES ASSUME NEW i \in 1 .. Len(s) PROVE \E j \in 1 .. Len(s) : s[i] = r[j]
      OBVIOUS
    <3>1. (Len(s) - i) + 1 \in 1 .. Len(s) /\ (Len(s) - ((Len(s) - i) + 1)) + 1 = i
      BY <1>1
    <3> QED BY <2>3, <3>1
  <2>7. \A x : x \in ToSet(r) <=> \E i \in 1 .. Len(s) : x = r[i]
    BY <2>3 DEF ToSet
  <2>8. \A x : x \in ToSet(r) <=> x \in ToSet(s)
    BY <1>2, <2>1, <2>3, <2>6, <2>7
  <2> QED BY <2>4, <2>5, <2>8
<1>4. ASSUME s # <<>>
      PROVE  /\ Head(s) = s[1] /\ s[1] \in E /\ s[1] \in ToSet(s) /\ Tail(s) \in Seq(E)
             /\ ToSet(s) = {s[1]} \cup ToSet(Tail(s))
  <2>1. /\ Head(s) = s[1] /\ Tail(s) \in Seq(E) /\ 1 \in DOMAIN s
        /\ DOMAIN Tail(s) = 1 .. (Len(s) - 1)
        /\ \A i \in 1 .. (Len(s) - 1) : Tail(s)[i] = s[i + 1]
    BY <1>4
  <2>2. \A x : x \in ToSet(Tail(s)) <=> \E i \in 1 .. (Len(s) - 1) : x = s[i + 1]
    BY <2>1 DEF ToSet
  <2>3. \A i \in 1 .. Len(s) : i = 1 \/ (i - 1 \in 1 .. (Len(s) - 1) /\ (i - 1) + 1 = i)
    BY <1>1
  <2>4. \A i \in 1 .. (Len(s) - 1) : i + 1 \in 1 .. Len(s)
    BY <1>1
  <2>5. ASSUME NEW x PROVE x \in ToSet(s) <=> x = s[1] \/ x \in ToSet(Tail(s))
    <3> DEFINE r == Tail(s)
    <3>1. \A i \in 1 .. Len(s) : s[i] = s[1] \/ \E j \in 1 .. (Len(s) - 1) : s[i] = s[j + 1]
      BY <2>3
    <3>2. x \in ToSet(r) <=> \E i \in 1 .. (Len(s) - 1) : x = s[i + 1]
      BY <2>2
    <3>3. 1 \in 1 .. Len(s)
      BY <1>1, <2>1
    <3> HIDE DEF r
    <3>4. x \in ToSet(s) <=> x = s[1] \/ x \in ToSet(r)
      BY <1>2, <2>4, <3>1, <3>2, <3>3
    <3> QED BY <3>4 DEF r
  <2> QED BY <1>1, <2>1, <2>5 DEF ToSet
<1>5. s = <<>> => ToSet(s) = {}
  BY DEF ToSet
<1>6. ToSet(s) \subseteq E
  BY <1>1 DEF ToSet
<1> QED BY <1>1, <1>3, <1>4, <1>5, <1>6

\* Two frames on a stack.
LEMMA Pushed ==
  ASSUME NEW E, NEW s \in Seq(E), NEW f \in E
  PROVE  LET n == <<f>> \o s
         IN  /\ n \in Seq(E) /\ n # <<>> /\ n[1] = f /\ ToSet(n) = {f} \cup ToSet(s)
             /\ DOMAIN n = 1 .. Len(s) + 1 /\ \A i \in 2 .. Len(s) + 1 : n[i] = s[i - 1]
<1> DEFINE n == <<f>> \o s
<1>1. /\ n \in Seq(E) /\ n # <<>> /\ n[1] = f /\ Len(n) = Len(s) + 1 /\ Len(s) \in Nat
      /\ DOMAIN n = 1 .. Len(s) + 1 /\ \A i \in 2 .. Len(s) + 1 : n[i] = s[i - 1]
  OBVIOUS
<1>2. Tail(n) = s
  OBVIOUS
<1> HIDE DEF n
<1>3. ToSet(n) = {f} \cup ToSet(s)
  BY <1>1, <1>2, Contents
<1> QED BY <1>1, <1>3 DEF n

---------------------------------------------------------------------------
(* The frames of a handler.                                                *)

\* The frames below the innermost.
Below(s) == ToSet(Tail(s))

\* What there is to know of a frame, and what it is made of.
LEMMA FrameFacts ==
  ASSUME NEW f \in Frames
  PROVE  /\ f.fn \in {"init", "enable", "disable", "changed", "enableAll"}
         /\ f.fn \in {"init", "enable", "disable"} => f.uuid \in Uuids
         /\ f.fn \in {"changed", "enableAll"} => f.todo \in Seq(Uuids) /\ f.new \in Seq(Uuids)
         /\ Rebases(f) => f.todo \in Seq(Uuids) /\ f.idx \in Int
         /\ f.fn = "init" => f.pc = "import" /\ Rank(f) = 1
         /\ f.fn = "enable" => f.pc \in {"start", "check", "enabling"} /\ Rank(f) = 2
         /\ f.fn = "disable" => (f.pc = "start" \/ Rebases(f)) /\ Rank(f) = 2
         /\ f.fn = "changed" => f.pc \in {"enable", "disable"} /\ Rank(f) = 3
         /\ f.fn = "enableAll" => f.pc \in {"start", "enable"} /\ Rank(f) = 4
         /\ Rank(f) \in 1 .. 4
  BY DEF Frames, Rank, Rebases

\* A handler that is not done has an innermost frame, and the others wait for it.
LEMMA NestedFacts ==
  ASSUME NEW s, Nested(s), s # <<>>
  PROVE  /\ Head(s) = s[1] /\ s[1] \in Frames /\ s[1] \in ToSet(s)
         /\ ToSet(s) = {s[1]} \cup Below(s)
         /\ \A f \in Below(s) : f \in Frames /\ Rank(s[1]) < Rank(f) /\ Waits(f)
<1>1. s \in Seq(Frames)
  BY DEF Nested
<1>2. /\ Head(s) = s[1] /\ s[1] \in Frames /\ s[1] \in ToSet(s) /\ Tail(s) \in Seq(Frames)
      /\ ToSet(s) = {s[1]} \cup Below(s)
  BY <1>1, Contents DEF Below
<1>3. /\ Len(s) \in Nat /\ 1 \in DOMAIN s /\ DOMAIN Tail(s) = 1 .. (Len(s) - 1)
      /\ \A i \in DOMAIN Tail(s) : i + 1 \in DOMAIN s /\ 1 < i + 1 /\ Tail(s)[i] = s[i + 1]
  BY <1>1
<1>4. \A i \in DOMAIN Tail(s) : Rank(s[1]) < Rank(Tail(s)[i]) /\ Waits(Tail(s)[i])
  BY <1>3 DEF Nested
<1>5. Below(s) \subseteq Frames
  BY <1>2, Contents DEF Below
<1>6. \A f \in Below(s) : \E i \in DOMAIN Tail(s) : f = Tail(s)[i]
  BY DEF Below, ToSet
<1> QED BY <1>2, <1>4, <1>5, <1>6

\* The innermost function ends, and its caller goes on.
LEMMA NestedReturn ==
  ASSUME NEW s, Nested(s), s # <<>>
  PROVE  /\ Nested(Tail(s)) /\ ToSet(Tail(s)) = Below(s)
         /\ Tail(s) # <<>> => Tail(s)[1] \in Below(s)
<1> DEFINE r == Tail(s)
<1>1. s \in Seq(Frames)
  BY DEF Nested
<1>2. /\ r \in Seq(Frames) /\ Len(s) \in Nat /\ DOMAIN r = 1 .. (Len(s) - 1)
      /\ \A i \in DOMAIN r : i + 1 \in DOMAIN s /\ r[i] = s[i + 1]
      /\ \A i, j \in DOMAIN r : i < j => i + 1 < j + 1
  BY <1>1
<1> HIDE DEF r
<1>3. Nested(r)
  BY <1>2 DEF Nested
<1>4. r # <<>> => r[1] \in ToSet(r)
  BY <1>2, Contents
<1> QED BY <1>3, <1>4 DEF r, Below

\* A frame comes on top of others that wait, with higher ranks.
LEMMA NestedPush ==
  ASSUME NEW s, Nested(s), NEW f \in Frames, \A g \in ToSet(s) : Rank(f) < Rank(g) /\ Waits(g)
  PROVE  LET n == <<f>> \o s
         IN  Nested(n) /\ n # <<>> /\ n[1] = f /\ ToSet(n) = {f} \cup ToSet(s)
<1> DEFINE n == <<f>> \o s
<1>1. s \in Seq(Frames)
  BY DEF Nested
<1>2. /\ n \in Seq(Frames) /\ n # <<>> /\ n[1] = f /\ ToSet(n) = {f} \cup ToSet(s)
      /\ DOMAIN n = 1 .. Len(s) + 1 /\ \A i \in 2 .. Len(s) + 1 : n[i] = s[i - 1]
  BY <1>1, Pushed
<1> HIDE DEF n
<1>3. Len(s) \in Nat /\ DOMAIN s = 1 .. Len(s) /\ \A i \in DOMAIN s : s[i] \in ToSet(s)
  BY <1>1 DEF ToSet
<1>4. ASSUME NEW i \in DOMAIN n, NEW j \in DOMAIN n, i < j
      PROVE  Rank(n[i]) < Rank(n[j]) /\ Waits(n[j])
  <2>1. j - 1 \in DOMAIN s /\ n[j] = s[j - 1]
    BY <1>2, <1>3, <1>4
  <2>2. CASE i = 1
    BY <1>2, <1>3, <2>1, <2>2
  <2>3. CASE i # 1
    <3>1. i - 1 \in DOMAIN s /\ n[i] = s[i - 1] /\ i - 1 < j - 1
      BY <1>2, <1>3, <1>4, <2>3
    <3> QED BY <2>1, <3>1 DEF Nested
  <2> QED BY <2>2, <2>3
<1>5. Nested(n)
  BY <1>2, <1>4 DEF Nested
<1> QED BY <1>2, <1>5 DEF n

\* The innermost function goes on.
LEMMA NestedBecome ==
  ASSUME NEW s, Nested(s), s # <<>>, NEW f \in Frames, Rank(f) = Rank(s[1])
  PROVE  LET n == <<f>> \o Tail(s)
         IN  Nested(n) /\ n # <<>> /\ n[1] = f /\ ToSet(n) = {f} \cup Below(s)
<1>1. Nested(Tail(s)) /\ ToSet(Tail(s)) = Below(s)
  BY NestedReturn
<1>2. \A g \in Below(s) : Rank(f) < Rank(g) /\ Waits(g)
  BY NestedFacts
<1> QED BY <1>1, <1>2, NestedPush

\* The innermost function calls another one.
LEMMA NestedCall ==
  ASSUME NEW s, Nested(s), s # <<>>, NEW f \in Frames, Rank(f) = Rank(s[1]), Waits(f),
         NEW g \in Frames, Rank(g) < Rank(f)
  PROVE  LET n == <<g, f>> \o Tail(s)
         IN  Nested(n) /\ n # <<>> /\ n[1] = g /\ ToSet(n) = {g, f} \cup Below(s)
<1> DEFINE m == <<f>> \o Tail(s)
           n == <<g, f>> \o Tail(s)
<1>1. Nested(m) /\ ToSet(m) = {f} \cup Below(s)
  BY NestedBecome
<1>2. \A h \in Below(s) : h \in Frames /\ Rank(f) < Rank(h) /\ Waits(h)
  BY NestedFacts
<1>3. \A h \in ToSet(m) : Rank(g) < Rank(h) /\ Waits(h)
  BY <1>1, <1>2, FrameFacts
<1>4. n = <<g>> \o m
  <2>1. Tail(s) \in Seq(Frames)
    BY Contents DEF Nested
  <2> QED BY <2>1
<1> HIDE DEF m, n
<1>5. /\ Nested(<<g>> \o m) /\ <<g>> \o m # <<>> /\ (<<g>> \o m)[1] = g
      /\ ToSet(<<g>> \o m) = {g} \cup ToSet(m)
  BY <1>1, <1>3, NestedPush
<1> QED BY <1>1, <1>4, <1>5 DEF n

---------------------------------------------------------------------------
(* Steps of the only handler.                                              *)

\* The only handler is that of any task there is.
LEMMA HandlerIs ==
  ASSUME Alone, DOMAIN stack = Tasks, NEW t \in Tasks
  PROVE  /\ Handler = stack[t]
         /\ \A n : stack' = [stack EXCEPT ![t] = n] => Handler' = n /\ DOMAIN stack' = Tasks
<1>1. (CHOOSE r \in Tasks : TRUE) = t /\ Tasks # {}
  BY DEF Alone
<1> QED BY <1>1 DEF Handler

\* A handler that goes on does so with its innermost frame.
LEMMA HandlerTop ==
  ASSUME SoloInv, Alone, NEW t \in Tasks, stack[t] # <<>>
  PROVE  /\ Solo(Handler) /\ Handler = stack[t] /\ Handler # <<>> /\ Nested(Handler)
         /\ Top(t) = Handler[1] /\ Top(t) \in Frames /\ TopIsRight(Handler)
         /\ ListsAreRight(Top(t))
         /\ ToSet(Handler) = {Handler[1]} \cup Below(Handler)
         /\ \A f \in Below(Handler) : f \in Frames /\ Rank(Top(t)) < Rank(f) /\ Waits(f) /\ ListsAreRight(f)
         /\ \A n : stack' = [stack EXCEPT ![t] = n] => Handler' = n /\ DOMAIN stack' = Tasks
<1> DEFINE s == Handler
<1>1. /\ s = stack[t]
      /\ \A n : stack' = [stack EXCEPT ![t] = n] => Handler' = n /\ DOMAIN stack' = Tasks
  BY HandlerIs DEF SoloInv
<1>2. Solo(s) /\ s # <<>> /\ Nested(s) /\ TopIsRight(s) /\ \A f \in ToSet(s) : ListsAreRight(f)
  BY <1>1 DEF SoloInv, Solo
<1> HIDE DEF s
<1>3. /\ Head(s) = s[1] /\ s[1] \in Frames /\ s[1] \in ToSet(s)
      /\ ToSet(s) = {s[1]} \cup Below(s)
      /\ \A f \in Below(s) : f \in Frames /\ Rank(s[1]) < Rank(f) /\ Waits(f)
  BY <1>2, NestedFacts
<1>4. Top(t) = s[1]
  BY <1>1, <1>3 DEF Top
<1>5. \A f \in Below(s) : f \in ToSet(s)
  BY <1>3
<1> QED BY <1>1, <1>2, <1>3, <1>4, <1>5 DEF s

\* A list frame relies on nothing.
LEMMA ListsRelyOnNothing ==
  ASSUME NEW s, s[1].fn \in {"changed", "enableAll"}
  PROVE  TopIsRight(s) /\ ~Transits(s[1])
  BY DEF TopIsRight, Rebases, Transits

Moving(s) == s # <<>> /\ Transits(s[1])

\* A step that neither is in a transition nor enters one, and moves no extension.
LEMMA SoloGoesOn ==
  ASSUME Solo(Handler), NEW n, Handler' = n, Nested(n), ~Moving(Handler), ~Moving(n),
         wanted' = wanted, mode' = mode, extState' = extState, on' = on,
         extensionOrder' = extensionOrder, enabledExtensions' = enabledExtensions,
         \A f \in ToSet(n) : ListsAreRight(f),
         n # <<>> => TopIsRight(n),
         \A u \in Uuids, f \in ToSet(Handler) : WillEnable(f, u) /\ Due(u) =>
           extState[u] \in {"ACTIVE", "ERROR"} \/ \E g \in ToSet(n) : WillEnable(g, u),
         \A u \in Uuids, f \in ToSet(Handler) : WillDisable(f, u) /\ ~Due(u) =>
           extState[u] # "ACTIVE" \/ \E g \in ToSet(n) : WillDisable(g, u),
         \A f \in ToSet(Handler) : f.fn = "changed" => \E g \in ToSet(n) : g.fn = "changed"
  PROVE  Solo(Handler)'
<1> DEFINE s == Handler
<1>1. \A f \in ToSet(n) : ListsAreRight(f)'
  BY DEF ListsAreRight, Due
<1>2. n # <<>> => (TopIsRight(Handler))'
  BY DEF TopIsRight
<1>3. ASSUME NEW u \in Uuids
      PROVE  StateIsRight(Handler, u)'
  <2>1. StateIsRight(s, u)
    BY DEF Solo
  <2>2. ~(s # <<>> /\ Down(s[1], u)) /\ ~(n # <<>> /\ Down(n[1], u))
    BY DEF Moving, Transits, Down, Rebases
  <2>3. extState[u] \notin {"ACTIVATING", "DEACTIVATING"}
    BY <2>1 DEF StateIsRight, Moving, Transits, Rebases
  <2>4. Due(u)' = Due(u)
    BY DEF Due
  <2>5. Due(u) => extState[u] \in {"ACTIVE", "ERROR"} \/ \E g \in ToSet(n) : WillEnable(g, u)
    BY <2>1 DEF StateIsRight
  <2>6. ~Due(u) /\ extState[u] = "ACTIVE" => \E g \in ToSet(n) : WillDisable(g, u)
    BY <2>1 DEF StateIsRight
  <2> HIDE DEF s
  <2>7. /\ extState[u] \in {"ACTIVE", "DEACTIVATING"} => u \in ToSet(extensionOrder)
        /\ u \in ToSet(extensionOrder) => extState[u] \in {"ACTIVE", "DEACTIVATING", "ERROR"} /\ on[u] = 1
        /\ extState[u] \in {"INITIALIZED", "INACTIVE"} => on[u] = 0
    BY <2>1, <2>2 DEF StateIsRight
  <2> QED BY ONLY <2>2, <2>3, <2>4, <2>5, <2>6, <2>7, Handler' = n, extState' = extState, on' = on,
                  extensionOrder' = extensionOrder DEF StateIsRight
<1>4. ToSet(enabledExtensions) = wanted \/ \E f \in ToSet(n) : f.fn = "changed"
  BY DEF Solo
<1> HIDE DEF s
<1>5. /\ wanted \subseteq Uuids /\ enabledExtensions \in Seq(Uuids)
      /\ extState \in [Uuids -> States] /\ on \in [Uuids -> Int]
      /\ extensionOrder \in Seq(Uuids) /\ IsInjective(extensionOrder)
  BY DEF Solo
<1> QED BY <1>1, <1>2, <1>3, <1>4, <1>5 DEF Solo

\* The frames of lists, and what becomes of them.
LEMMA ListFrames ==
  ASSUME NEW f \in Frames, f.fn \in {"changed", "enableAll"}, NEW todo \in Seq(Uuids)
  PROVE  LET g == [f EXCEPT !.todo = todo]
             h == [f EXCEPT !.pc = "disable", !.todo = todo]
         IN  /\ g \in Frames /\ g.fn = f.fn /\ g.pc = f.pc /\ g.todo = todo /\ g.new = f.new
             /\ Rank(g) = Rank(f)
             /\ f.fn = "changed" =>
                  /\ h \in Frames /\ h.fn = f.fn /\ h.pc = "disable" /\ h.todo = todo /\ h.new = f.new
                  /\ Rank(h) = Rank(f)
<1> DEFINE g == [f EXCEPT !.todo = todo]
           h == [f EXCEPT !.pc = "disable", !.todo = todo]
<1>1. CASE f.fn = "changed"
  <2>1. f \in [fn : {"changed"}, pc : {"enable", "disable"}, todo : Seq(Uuids), new : Seq(Uuids)]
    BY <1>1 DEF Frames
  <2>2. g \in [fn : {"changed"}, pc : {"enable", "disable"}, todo : Seq(Uuids), new : Seq(Uuids)]
        /\ g.fn = f.fn /\ g.pc = f.pc /\ g.todo = todo /\ g.new = f.new
    BY <2>1
  <2>3. h \in [fn : {"changed"}, pc : {"enable", "disable"}, todo : Seq(Uuids), new : Seq(Uuids)]
        /\ h.fn = f.fn /\ h.pc = "disable" /\ h.todo = todo /\ h.new = f.new
    BY <2>1
  <2> HIDE DEF g, h
  <2>4. g \in Frames /\ h \in Frames
    BY <2>2, <2>3 DEF Frames
  <2> QED BY <1>1, <2>2, <2>3, <2>4 DEF Rank, g, h
<1>2. CASE f.fn = "enableAll"
  <2>1. f \in [fn : {"enableAll"}, pc : {"start", "enable"}, todo : Seq(Uuids), new : Seq(Uuids)]
    BY <1>2 DEF Frames
  <2>2. g \in [fn : {"enableAll"}, pc : {"start", "enable"}, todo : Seq(Uuids), new : Seq(Uuids)]
        /\ g.fn = f.fn /\ g.pc = f.pc /\ g.todo = todo /\ g.new = f.new
    BY <2>1
  <2> HIDE DEF g
  <2>3. g \in Frames
    BY <2>2 DEF Frames
  <2> QED BY <1>2, <2>2, <2>3 DEF Rank, g
<1> QED BY <1>1, <1>2

\* The frames of the calls.
LEMMA CallFrames ==
  ASSUME NEW u \in Uuids
  PROVE  /\ \A pc \in {"start", "check", "enabling"} :
              LET f == Frame("enable", pc, u)
              IN  f \in Frames /\ f.fn = "enable" /\ f.pc = pc /\ f.uuid = u /\ Rank(f) = 2
         /\ LET f == Frame("disable", "start", u)
            IN  f \in Frames /\ f.fn = "disable" /\ f.pc = "start" /\ f.uuid = u /\ Rank(f) = 2
         /\ LET f == Frame("init", "import", u)
            IN  f \in Frames /\ f.fn = "init" /\ f.pc = "import" /\ f.uuid = u /\ Rank(f) = 1
  BY DEF Frame, Frames, Rank

\* A function returns that did nothing, because nothing was to be done.
LEMMA SoloReturns ==
  ASSUME SoloInv, Alone, NEW t \in Tasks, stack[t] # <<>>, Return(t),
         wanted' = wanted, mode' = mode, extState' = extState, on' = on,
         extensionOrder' = extensionOrder, enabledExtensions' = enabledExtensions,
         Top(t).fn \in {"enable", "disable", "enableAll"}, ~Transits(Top(t)),
         \A u \in Uuids : WillEnable(Top(t), u) /\ Due(u) => extState[u] \in {"ACTIVE", "ERROR"},
         \A u \in Uuids : WillDisable(Top(t), u) => extState[u] # "ACTIVE"
  PROVE  SoloInv'
<1> DEFINE s == Handler
           n == Tail(s)
<1>1. /\ Solo(s) /\ s = stack[t] /\ s # <<>> /\ Nested(s)
      /\ Top(t) = s[1] /\ Top(t) \in Frames
      /\ ToSet(s) = {s[1]} \cup Below(s)
      /\ \A f \in Below(s) : f \in Frames /\ Rank(Top(t)) < Rank(f) /\ Waits(f) /\ ListsAreRight(f)
      /\ \A m : stack' = [stack EXCEPT ![t] = m] => Handler' = m /\ DOMAIN stack' = Tasks
  BY HandlerTop
<1>2. Handler' = n /\ DOMAIN stack' = Tasks
  BY <1>1 DEF Return
<1> HIDE DEF s
<1>3. Nested(n) /\ ToSet(n) = Below(s) /\ (n # <<>> => n[1] \in Below(s))
  BY <1>1, NestedReturn
<1> HIDE DEF n
<1>4. \A f \in Below(s) : f.fn \in {"changed", "enableAll"}
  BY <1>1, FrameFacts
<1>5. n # <<>> => TopIsRight(n) /\ ~Transits(n[1])
  BY <1>3, <1>4, ListsRelyOnNothing
<1>6. ~Moving(s) /\ ~Moving(n)
  BY <1>1, <1>5 DEF Moving
<1>7. \A f \in ToSet(n) : ListsAreRight(f)
  BY <1>1, <1>3
<1>8. \A f \in ToSet(s) : f = Top(t) \/ f \in ToSet(n)
  BY <1>1, <1>3
<1> QED
  <2>1. Solo(Handler)'
    BY <1>1, <1>2, <1>3, <1>5, <1>6, <1>7, <1>8, SoloGoesOn DEF s
  <2> QED BY <1>2, <2>1 DEF SoloInv

\* The state of an extension, while nothing is in a transition.
LEMMA StateAtRest ==
  ASSUME NEW s, Solo(s), ~Moving(s), NEW u \in Uuids
  PROVE  /\ extState[u] \in {"INITIALIZED", "INACTIVE", "ACTIVE", "ERROR"}
         /\ extState[u] = "ACTIVE" => u \in ToSet(extensionOrder)
         /\ u \in ToSet(extensionOrder) => extState[u] \in {"ACTIVE", "ERROR"} /\ on[u] = 1
         /\ extState[u] \in {"INITIALIZED", "INACTIVE"} => on[u] = 0
<1>1. StateIsRight(s, u) /\ extState[u] \in States
  BY DEF Solo
<1>2. ~(s # <<>> /\ Down(s[1], u))
  BY DEF Moving, Transits, Down, Rebases
<1> QED BY <1>1, <1>2 DEF StateIsRight, Moving, Transits, Rebases, States

\* Nothing is to be enabled, or to be disabled, or nothing is left to be enabled.
LEMMA ReturnsKeepSolo ==
  ASSUME SoloInv, Alone, NEW t \in Tasks,
         \/ EnableUnsupported(t) \/ EnableNotInactive(t)
         \/ DisableNotActive(t) \/ EnableAllDone(t)
  PROVE  SoloInv'
<1> DEFINE f == Top(t)
           u == f.uuid
<1>1. /\ stack[t] # <<>> /\ Return(t)
      /\ wanted' = wanted /\ mode' = mode /\ extState' = extState /\ on' = on
      /\ extensionOrder' = extensionOrder /\ enabledExtensions' = enabledExtensions
  BY DEF EnableUnsupported, EnableNotInactive, DisableNotActive, EnableAllDone, AtCheck, At, CanRun,
         inputVars, managerVars
<1>2. Solo(Handler) /\ Handler # <<>> /\ f = Handler[1] /\ f \in Frames /\ TopIsRight(Handler)
  BY <1>1, HandlerTop
<1>3. CASE EnableUnsupported(t) \/ EnableNotInactive(t)
  <2>1. f.fn = "enable" /\ f.pc \in {"start", "check"}
    BY <1>3 DEF EnableUnsupported, EnableNotInactive, AtCheck, At, Top
  <2>2. u \in Uuids /\ ~Transits(f)
    BY <1>2, <2>1, FrameFacts DEF Transits
  <2>3. ~Due(u) \/ extState[u] \in {"ACTIVE", "ERROR"}
    <3>1. CASE EnableUnsupported(t)
      BY <3>1 DEF EnableUnsupported, Due
    <3>2. CASE EnableNotInactive(t)
      <4>1. extState[u] # "INACTIVE" /\ extState[u] # "INITIALIZED"
        BY <1>2, <3>2 DEF EnableNotInactive, AtCheck, At, Top, TopIsRight
      <4>2. extState[u] \in {"INITIALIZED", "INACTIVE", "ACTIVE", "ERROR"}
        BY <1>2, <2>2, StateAtRest DEF Moving
      <4> QED BY <4>1, <4>2
    <3> QED BY <1>3, <3>1, <3>2
  <2>4. \A v : (WillEnable(f, v) => v = u) /\ ~WillDisable(f, v)
    BY <2>1 DEF WillEnable, WillDisable
  <2> HIDE DEF f, u
  <2> QED BY <1>1, <2>1, <2>2, <2>3, <2>4, SoloReturns DEF f
<1>4. CASE DisableNotActive(t)
  <2>1. f.fn = "disable" /\ f.pc = "start" /\ extState[u] # "ACTIVE"
    BY <1>4 DEF DisableNotActive, At, Top
  <2>2. ~Transits(f)
    BY <2>1 DEF Transits
  <2>3. \A v : (WillDisable(f, v) => v = u) /\ ~WillEnable(f, v)
    BY <2>1 DEF WillEnable, WillDisable
  <2> HIDE DEF f, u
  <2> QED BY <1>1, <2>1, <2>2, <2>3, SoloReturns DEF f
<1>5. CASE EnableAllDone(t)
  <2>1. f.fn = "enableAll" /\ f.pc = "enable" /\ f.todo = <<>>
    BY <1>5 DEF EnableAllDone, At, Top
  <2>2. ~Transits(f)
    BY <2>1 DEF Transits
  <2>3. \A v : ~WillDisable(f, v) /\ ~WillEnable(f, v)
    BY <2>1 DEF WillEnable, WillDisable, ToSet
  <2> HIDE DEF f
  <2> QED BY <1>1, <2>1, <2>2, <2>3, SoloReturns DEF f
<1> QED BY <1>3, <1>4, <1>5

\* The next extension of a list is enabled or disabled.
LEMMA CallsKeepSolo ==
  ASSUME SoloInv, Alone, NEW t \in Tasks,
         ChangedEnableNext(t) \/ ChangedDisableNext(t) \/ EnableAllNext(t)
  PROVE  SoloInv'
<1> DEFINE s == Handler
           f == Top(t)
           v == Head(f.todo)
           left == Tail(f.todo)
           rest == [f EXCEPT !.todo = left]
           fn == IF ChangedDisableNext(t) THEN "disable" ELSE "enable"
           g == Frame(fn, "start", v)
           n == <<g, rest>> \o Tail(s)
<1>1. /\ stack[t] # <<>> /\ f.fn \in {"changed", "enableAll"} /\ f.todo # <<>>
      /\ stack' = [stack EXCEPT ![t] = <<g, rest>> \o Tail(stack[t])]
      /\ wanted' = wanted /\ mode' = mode /\ extState' = extState /\ on' = on
      /\ extensionOrder' = extensionOrder /\ enabledExtensions' = enabledExtensions
  BY DEF ChangedEnableNext, ChangedDisableNext, EnableAllNext, CallNext, Call, At, CanRun, Top,
         inputVars, managerVars
<1>2. /\ ChangedEnableNext(t) => f.fn = "changed" /\ f.pc = "enable"
      /\ ChangedDisableNext(t) => f.fn = "changed" /\ f.pc = "disable"
      /\ EnableAllNext(t) => f.fn = "enableAll" /\ f.pc = "enable"
  BY DEF ChangedEnableNext, ChangedDisableNext, EnableAllNext, At, Top
<1>3. /\ Solo(s) /\ s = stack[t] /\ s # <<>> /\ Nested(s)
      /\ f = s[1] /\ f \in Frames /\ ListsAreRight(f)
      /\ ToSet(s) = {s[1]} \cup Below(s)
      /\ \A h \in Below(s) : h \in Frames /\ ListsAreRight(h)
      /\ \A m : stack' = [stack EXCEPT ![t] = m] => Handler' = m /\ DOMAIN stack' = Tasks
  BY <1>1, HandlerTop
<1> HIDE DEF s, f, v, left, rest, g, fn
<1>4. Handler' = n /\ DOMAIN stack' = Tasks
  BY <1>1, <1>3
<1> HIDE DEF n
<1>5. f.todo \in Seq(Uuids)
  BY <1>1, <1>3, FrameFacts
<1>6. /\ v \in Uuids /\ left \in Seq(Uuids)
      /\ ToSet(f.todo) = {v} \cup ToSet(left)
  BY <1>1, <1>5, Contents DEF v, left
<1>7. /\ rest \in Frames /\ rest.fn = f.fn /\ rest.pc = f.pc /\ rest.todo = left
      /\ rest.new = f.new /\ Rank(rest) = Rank(f)
  <2>1. f \in Frames /\ f.fn \in {"changed", "enableAll"} /\ left \in Seq(Uuids)
    BY <1>1, <1>3, <1>6
  <2> QED BY <2>1, ListFrames, Zenon DEF rest
<1>8. g \in Frames /\ g.fn = fn /\ g.pc = "start" /\ g.uuid = v /\ Rank(g) = 2
  <2>1. fn \in {"enable", "disable"}
    BY DEF fn
  <2> QED BY <1>6, <2>1, CallFrames DEF g
<1>9. Rank(g) < Rank(rest) /\ Waits(rest)
  BY <1>1, <1>3, <1>7, <1>8, FrameFacts DEF Waits
<1>10. Nested(n) /\ n # <<>> /\ n[1] = g /\ ToSet(n) = {g, rest} \cup Below(s)
  BY <1>3, <1>7, <1>8, <1>9, NestedCall DEF n
<1>11. TopIsRight(n) /\ ~Moving(n) /\ ~Moving(s)
  <2>1. ~Transits(g) /\ ~Transits(f) /\ ~Rebases(g)
    BY <1>1, <1>8 DEF Transits, Rebases
  <2>2. g.fn # "init"
    BY <1>8 DEF fn
  <2> QED BY <1>3, <1>8, <1>10, <2>1, <2>2 DEF TopIsRight, Moving
<1>12. ListsAreRight(rest)
  BY <1>1, <1>3, <1>6, <1>7 DEF ListsAreRight
<1>13. ListsAreRight(g)
  <2>1. CASE ChangedDisableNext(t)
    <3>1. ~Due(v) /\ g.fn = "disable"
      BY <1>2, <1>3, <1>6, <1>8, <2>1 DEF ListsAreRight, fn
    <3> QED BY <1>8, <3>1 DEF ListsAreRight
  <2>2. CASE ~ChangedDisableNext(t)
    <3>1. v \in wanted /\ g.fn = "enable"
      BY <1>2, <1>3, <1>6, <1>8, <2>2 DEF ListsAreRight, fn
    <3> QED BY <1>8, <3>1 DEF ListsAreRight
  <2> QED BY <2>1, <2>2
<1>14. ASSUME NEW u \in Uuids, WillEnable(f, u)
       PROVE  WillEnable(g, u) \/ WillEnable(rest, u)
  <2>1. f.pc = "enable" /\ ~ChangedDisableNext(t) /\ u \in ToSet(f.todo)
    BY <1>1, <1>2, <1>14 DEF WillEnable
  <2>2. g.fn = "enable"
    BY <1>8, <2>1 DEF fn
  <2> QED BY <1>1, <1>6, <1>7, <1>8, <2>1, <2>2 DEF WillEnable
<1>15. ASSUME NEW u \in Uuids, WillDisable(f, u)
       PROVE  WillDisable(g, u) \/ WillDisable(rest, u)
  <2>1. f.fn = "changed" /\ (f.pc = "enable" \/ u \in ToSet(f.todo))
    BY <1>1, <1>15 DEF WillDisable
  <2>2. CASE f.pc = "enable"
    BY <1>7, <2>1, <2>2 DEF WillDisable
  <2>3. CASE f.pc # "enable"
    <3>1. g.fn = "disable"
      BY <1>2, <1>8, <2>3 DEF fn
    <3> QED BY <1>6, <1>7, <1>8, <2>1, <3>1 DEF WillDisable
  <2> QED BY <2>2, <2>3
<1>16. \A h \in ToSet(s) : h = f \/ h \in ToSet(n)
  BY <1>3, <1>10
<1>17. g \in ToSet(n) /\ rest \in ToSet(n)
  BY <1>10
<1>18. \A h \in ToSet(n) : ListsAreRight(h)
  BY <1>3, <1>10, <1>12, <1>13
<1>19. \A u \in Uuids, h \in ToSet(s) : WillEnable(h, u) => \E k \in ToSet(n) : WillEnable(k, u)
  BY <1>14, <1>16, <1>17
<1>20. \A u \in Uuids, h \in ToSet(s) : WillDisable(h, u) => \E k \in ToSet(n) : WillDisable(k, u)
  BY <1>15, <1>16, <1>17
<1>21. \A h \in ToSet(s) : h.fn = "changed" => \E k \in ToSet(n) : k.fn = "changed"
  BY <1>7, <1>16, <1>17
<1> QED
  <2>1. Solo(Handler)'
    BY <1>1, <1>3, <1>4, <1>10, <1>11, <1>18, <1>19, <1>20, <1>21, SoloGoesOn DEF s
  <2> QED BY <1>4, <2>1 DEF SoloInv

\* All of a list were enabled, and the others are about to be disabled; or the
\* session's list is read.
LEMMA NextListKeepsSolo ==
  ASSUME SoloInv, Alone, NEW t \in Tasks, ChangedEnabled(t) \/ EnableAllStart(t)
  PROVE  SoloInv'
<1> DEFINE s == Handler
           f == Top(t)
           todo == IF ChangedEnabled(t) THEN Reverse(ToDisable(f.new)) ELSE enabledExtensions
           h == IF ChangedEnabled(t) THEN [f EXCEPT !.pc = "disable", !.todo = todo]
                ELSE ListFrame("enableAll", "enable", todo, <<>>)
           n == <<h>> \o Tail(s)
<1>1. /\ stack[t] # <<>> /\ f.fn \in {"changed", "enableAll"}
      /\ stack' = [stack EXCEPT ![t] = <<h>> \o Tail(stack[t])]
      /\ wanted' = wanted /\ mode' = mode /\ extState' = extState /\ on' = on
      /\ extensionOrder' = extensionOrder /\ enabledExtensions' = enabledExtensions
  BY DEF ChangedEnabled, EnableAllStart, Continue, Become, At, CanRun, Top, inputVars, managerVars
<1>2. /\ ChangedEnabled(t) => f.fn = "changed" /\ f.pc = "enable" /\ f.todo = <<>>
      /\ EnableAllStart(t) => f.fn = "enableAll" /\ f.pc = "start"
  BY DEF ChangedEnabled, EnableAllStart, At, Top
<1>3. /\ Solo(s) /\ s = stack[t] /\ s # <<>> /\ Nested(s)
      /\ f = s[1] /\ f \in Frames /\ ListsAreRight(f)
      /\ ToSet(s) = {s[1]} \cup Below(s)
      /\ \A g \in Below(s) : g \in Frames /\ Rank(f) < Rank(g) /\ ListsAreRight(g)
      /\ \A m : stack' = [stack EXCEPT ![t] = m] => Handler' = m /\ DOMAIN stack' = Tasks
  BY <1>1, HandlerTop
<1> HIDE DEF s, f, todo, h
<1>4. Handler' = n /\ DOMAIN stack' = Tasks
  BY <1>1, <1>3
<1> HIDE DEF n
<1>5. ToDisable(f.new) \in Seq(Uuids)
      /\ ToSet(ToDisable(f.new)) =
           ToSet(extensionOrder) \cap {u \in Uuids : u \notin ToSet(f.new) \/ ~Supports(u, mode)}
  BY <1>3, FilterFacts DEF ToDisable, Solo
<1>6. /\ todo \in Seq(Uuids)
      /\ ChangedEnabled(t) => ToSet(todo) =
           ToSet(extensionOrder) \cap {u \in Uuids : u \notin ToSet(f.new) \/ ~Supports(u, mode)}
  <2>1. Reverse(ToDisable(f.new)) \in Seq(Uuids)
        /\ ToSet(Reverse(ToDisable(f.new))) = ToSet(ToDisable(f.new))
    BY <1>5, Contents
  <2>2. enabledExtensions \in Seq(Uuids)
    BY <1>3 DEF Solo
  <2> QED BY <1>5, <2>1, <2>2 DEF todo
<1>7. /\ h \in Frames /\ h.fn = f.fn /\ h.todo = todo /\ Rank(h) = Rank(f)
      /\ h.pc = IF ChangedEnabled(t) THEN "disable" ELSE "enable"
      /\ ChangedEnabled(t) => h.new = f.new
  <2>1. CASE ChangedEnabled(t)
    <3>1. h = [f EXCEPT !.pc = "disable", !.todo = todo] /\ f.fn = "changed"
      BY <1>2, <2>1 DEF h
    <3>2. /\ h \in Frames /\ h.fn = f.fn /\ h.pc = "disable" /\ h.todo = todo /\ h.new = f.new
          /\ Rank(h) = Rank(f)
      <4>1. f \in Frames /\ f.fn \in {"changed", "enableAll"} /\ todo \in Seq(Uuids)
        BY <1>1, <1>3, <1>6
      <4> QED BY <3>1, <4>1, ListFrames, Zenon
    <3> QED BY <2>1, <3>2
  <2>2. CASE ~ChangedEnabled(t)
    <3>1. f.fn = "enableAll" /\ h = ListFrame("enableAll", "enable", todo, <<>>)
      BY <1>1, <1>2, <2>2 DEF h
    <3>2. h \in [fn : {"enableAll"}, pc : {"start", "enable"}, todo : Seq(Uuids), new : Seq(Uuids)]
          /\ h.fn = "enableAll" /\ h.todo = todo /\ h.pc = "enable"
      <4>1. h = [fn |-> "enableAll", pc |-> "enable", todo |-> todo, new |-> <<>>]
        BY <3>1 DEF ListFrame
      <4>2. <<>> \in Seq(Uuids)
        OBVIOUS
      <4> QED BY <1>6, <4>1, <4>2
    <3>3. h \in Frames
      BY <3>2 DEF Frames
    <3> QED BY <1>3, <2>2, <3>1, <3>2, <3>3, FrameFacts
  <2> QED BY <2>1, <2>2
<1>8. Nested(n) /\ n # <<>> /\ n[1] = h /\ ToSet(n) = {h} \cup Below(s)
  BY <1>3, <1>7, NestedBecome DEF n
<1>9. TopIsRight(n) /\ ~Moving(n) /\ ~Moving(s)
  BY <1>1, <1>3, <1>7, <1>8, ListsRelyOnNothing DEF Moving, Transits
<1>10. CASE ChangedEnabled(t)
  <2>1. ToSet(f.new) = wanted
    BY <1>2, <1>3, <1>10 DEF ListsAreRight
  <2>2. \A u : u \in ToSet(todo) <=> u \in ToSet(extensionOrder) /\ u \in Uuids /\ ~Due(u)
    <3>1. \A u : u \in ToSet(todo) <=>
            u \in ToSet(extensionOrder) /\ u \in Uuids /\ (u \notin wanted \/ ~Supports(u, mode))
      BY <1>6, <1>10, <2>1
    <3> QED BY <3>1 DEF Due
  <2>3. ListsAreRight(h)
    BY <1>2, <1>7, <1>10, <2>1, <2>2 DEF ListsAreRight
  <2>4. \A u : ~WillEnable(f, u)
    BY <1>2, <1>10 DEF WillEnable, ToSet
  <2>5. ASSUME NEW u \in Uuids, ~Due(u), extState[u] = "ACTIVE"
        PROVE  WillDisable(h, u)
    <3>1. u \in ToSet(extensionOrder)
      BY <1>3, <1>9, <2>5, StateAtRest
    <3> QED BY <1>2, <1>7, <1>10, <2>2, <2>5, <3>1 DEF WillDisable
  <2>6. \A g \in ToSet(s) : g = f \/ g \in ToSet(n)
    BY <1>3, <1>8
  <2>7. \A g \in ToSet(n) : ListsAreRight(g)
    BY <1>3, <1>8, <2>3
  <2>8. h \in ToSet(n) /\ h.fn = "changed"
    BY <1>2, <1>7, <1>8, <1>10
  <2>9. Solo(Handler)'
    BY <1>1, <1>3, <1>4, <1>8, <1>9, <2>4, <2>5, <2>6, <2>7, <2>8, SoloGoesOn DEF s
  <2> QED BY <1>4, <2>9 DEF SoloInv
<1>11. CASE EnableAllStart(t) /\ ~ChangedEnabled(t)
  <2>1. Rank(f) = 4 /\ \A g \in Below(s) : FALSE
    BY <1>2, <1>3, <1>11, FrameFacts
  <2>2. ToSet(s) = {f} /\ ToSet(n) = {h} /\ f.fn # "changed"
    BY <1>2, <1>3, <1>8, <1>11, <2>1
  <2>3. ToSet(todo) = wanted
    <3>1. ToSet(enabledExtensions) = wanted
      BY <1>3, <2>2 DEF Solo
    <3> QED BY <1>11, <3>1 DEF todo
  <2>4. ListsAreRight(h)
    BY <1>2, <1>7, <1>11, <2>3 DEF ListsAreRight
  <2>5. \A u : ~WillDisable(f, u)
    BY <1>2, <1>11 DEF WillDisable
  <2>6. \A u \in Uuids : Due(u) => WillEnable(h, u)
    BY <1>2, <1>7, <1>11, <2>3 DEF WillEnable, Due
  <2>7. Solo(Handler)'
    BY <1>1, <1>3, <1>4, <1>8, <1>9, <2>2, <2>4, <2>5, <2>6, SoloGoesOn DEF s
  <2> QED BY <1>4, <2>7 DEF SoloInv
<1> QED BY <1>10, <1>11

\* The new list is remembered, and the handler is done with it.
LEMMA ChangedDoneKeepsSolo ==
  ASSUME SoloInv, Alone, NEW t \in Tasks, ChangedDone(t)
  PROVE  SoloInv'
<1> DEFINE s == Handler
           f == Top(t)
           n == Tail(s)
<1>1. /\ stack[t] # <<>> /\ f.fn = "changed" /\ f.pc = "disable" /\ f.todo = <<>>
      /\ stack' = [stack EXCEPT ![t] = Tail(stack[t])]
      /\ wanted' = wanted /\ mode' = mode /\ extState' = extState /\ on' = on
      /\ extensionOrder' = extensionOrder /\ enabledExtensions' = f.new
  BY DEF ChangedDone, Return, At, CanRun, Top, inputVars
<1>2. /\ Solo(s) /\ s = stack[t] /\ s # <<>> /\ Nested(s)
      /\ f = s[1] /\ f \in Frames /\ ListsAreRight(f)
      /\ ToSet(s) = {s[1]} \cup Below(s)
      /\ \A g \in Below(s) : g \in Frames /\ Rank(f) < Rank(g) /\ ListsAreRight(g)
      /\ \A m : stack' = [stack EXCEPT ![t] = m] => Handler' = m /\ DOMAIN stack' = Tasks
  BY <1>1, HandlerTop
<1> HIDE DEF s, f
<1>3. Handler' = n /\ DOMAIN stack' = Tasks
  BY <1>1, <1>2
<1>4. Nested(n) /\ ToSet(n) = Below(s) /\ (n # <<>> => n[1] \in Below(s))
  BY <1>2, NestedReturn
<1> HIDE DEF n
<1>5. \A g \in Below(s) : g.fn = "enableAll"
  BY <1>1, <1>2, FrameFacts
<1>6. /\ n # <<>> => TopIsRight(n)
      /\ ~Moving(s) /\ ~Moving(n)
  <2>1. ~Transits(f)
    BY <1>1 DEF Transits
  <2> QED BY <1>2, <1>4, <1>5, <2>1, ListsRelyOnNothing DEF Moving
<1>7. ToSet(f.new) = wanted /\ f.new \in Seq(Uuids)
  BY <1>1, <1>2, FrameFacts DEF ListsAreRight
<1>8. \A u : ~WillEnable(f, u) /\ ~WillDisable(f, u)
  BY <1>1 DEF WillEnable, WillDisable, ToSet
<1>9. ASSUME NEW u \in Uuids
      PROVE  StateIsRight(Handler, u)'
  <2>1. StateIsRight(s, u)
    BY <1>2 DEF Solo
  <2>2. /\ extState[u] \in {"INITIALIZED", "INACTIVE", "ACTIVE", "ERROR"}
        /\ extState[u] = "ACTIVE" => u \in ToSet(extensionOrder)
        /\ u \in ToSet(extensionOrder) => extState[u] \in {"ACTIVE", "ERROR"} /\ on[u] = 1
        /\ extState[u] \in {"INITIALIZED", "INACTIVE"} => on[u] = 0
    BY <1>2, <1>6, StateAtRest
  <2>3. ~(n # <<>> /\ Down(n[1], u))
    BY <1>6 DEF Moving, Transits, Down, Rebases
  <2>4. \A g \in ToSet(s) : WillEnable(g, u) \/ WillDisable(g, u) => g \in ToSet(n)
    BY <1>2, <1>4, <1>8
  <2>5. /\ Due(u) => extState[u] \in {"ACTIVE", "ERROR"} \/ \E g \in ToSet(n) : WillEnable(g, u)
        /\ ~Due(u) /\ extState[u] = "ACTIVE" => \E g \in ToSet(n) : WillDisable(g, u)
    BY <2>1, <2>4 DEF StateIsRight
  <2>6. Due(u)' = Due(u)
    BY <1>1 DEF Due
  <2> QED BY ONLY <1>1, <1>3, <2>2, <2>3, <2>5, <2>6 DEF StateIsRight
<1>10. \A g \in ToSet(n) : ListsAreRight(g)'
  BY <1>1, <1>2, <1>4 DEF ListsAreRight, Due
<1>11. (Handler # <<>> => TopIsRight(Handler))'
  BY <1>1, <1>3, <1>6 DEF TopIsRight
<1>12. /\ wanted \subseteq Uuids /\ extState \in [Uuids -> States] /\ on \in [Uuids -> Int]
       /\ extensionOrder \in Seq(Uuids) /\ IsInjective(extensionOrder)
  BY <1>2 DEF Solo
<1> QED
  <2>1. Solo(Handler)'
    BY ONLY <1>1, <1>3, <1>4, <1>7, <1>9, <1>10, <1>11, <1>12 DEF Solo
  <2> QED BY <1>3, <2>1 DEF SoloInv

\* A step that moves the extension w and no other.
LEMMA SoloMovesOne ==
  ASSUME Solo(Handler), NEW n, Handler' = n, Nested(n), NEW w \in Uuids,
         wanted' = wanted, mode' = mode, enabledExtensions' = enabledExtensions,
         NEW x \in States, extState' = [extState EXCEPT ![w] = x],
         on' \in [Uuids -> Int], \A u \in Uuids \ {w} : on'[u] = on[u],
         extensionOrder' \in Seq(Uuids), IsInjective(extensionOrder'),
         \A u \in Uuids \ {w} : u \in ToSet(extensionOrder') <=> u \in ToSet(extensionOrder),
         \A f \in ToSet(n) : ListsAreRight(f),
         (Handler # <<>> => TopIsRight(Handler))',
         StateIsRight(Handler, w)',
         \A u \in Uuids \ {w} :
           /\ extState[u] # "ACTIVATING"
           /\ extState[u] = "DEACTIVATING" => n # <<>> /\ Rebases(n[1]) /\ n[1].uuid = u
           /\ (n # <<>> /\ Down(n[1], u)) <=> (Handler # <<>> /\ Down(Handler[1], u))
           /\ \A f \in ToSet(Handler) : WillEnable(f, u) => \E g \in ToSet(n) : WillEnable(g, u)
           /\ \A f \in ToSet(Handler) : WillDisable(f, u) => \E g \in ToSet(n) : WillDisable(g, u),
         \A f \in ToSet(Handler) : f.fn = "changed" => \E g \in ToSet(n) : g.fn = "changed"
  PROVE  Solo(Handler)'
<1> DEFINE s == Handler
<1>1. \A f \in ToSet(n) : ListsAreRight(f)'
  BY DEF ListsAreRight, Due
<1>2. extState' \in [Uuids -> States] /\ \A u \in Uuids \ {w} : extState'[u] = extState[u]
  BY DEF Solo
<1>3. ASSUME NEW u \in Uuids \ {w}
      PROVE  StateIsRight(Handler, u)'
  <2>1. StateIsRight(s, u)
    BY DEF Solo
  <2>2. Due(u)' = Due(u) /\ extState'[u] = extState[u] /\ on'[u] = on[u]
        /\ (u \in ToSet(extensionOrder') <=> u \in ToSet(extensionOrder))
    BY <1>2 DEF Due
  <2>3. /\ Due(u) => extState[u] \in {"ACTIVE", "ERROR"} \/ \E g \in ToSet(n) : WillEnable(g, u)
        /\ ~Due(u) /\ extState[u] = "ACTIVE" => \E g \in ToSet(n) : WillDisable(g, u)
    BY <2>1 DEF StateIsRight
  <2>4. /\ extState[u] # "ACTIVATING"
        /\ extState[u] = "DEACTIVATING" => n # <<>> /\ Rebases(n[1]) /\ n[1].uuid = u
        /\ (n # <<>> /\ Down(n[1], u)) <=> (s # <<>> /\ Down(s[1], u))
    OBVIOUS
  <2> HIDE DEF s
  <2>5. /\ extState[u] \in {"ACTIVE", "DEACTIVATING"} => u \in ToSet(extensionOrder)
        /\ u \in ToSet(extensionOrder) =>
             /\ extState[u] \in {"ACTIVE", "DEACTIVATING", "ERROR"}
             /\ on[u] = IF n # <<>> /\ Down(n[1], u) THEN 0 ELSE 1
        /\ extState[u] \in {"INITIALIZED", "INACTIVE"} => on[u] = 0
    BY <2>1, <2>4 DEF StateIsRight
  <2> QED BY ONLY Handler' = n, <2>2, <2>3, <2>4, <2>5 DEF StateIsRight
<1>4. \A u \in Uuids : StateIsRight(Handler, u)'
  BY <1>3
<1>5. ToSet(enabledExtensions) = wanted \/ \E f \in ToSet(n) : f.fn = "changed"
  BY DEF Solo
<1> HIDE DEF s
<1>6. wanted \subseteq Uuids /\ enabledExtensions \in Seq(Uuids)
  BY DEF Solo
<1> QED BY <1>1, <1>2, <1>4, <1>5, <1>6 DEF Solo

\* A step of enabling or importing an extension moves no other.
LEMMA SoloEnables ==
  ASSUME SoloInv, Alone, NEW t \in Tasks, stack[t] # <<>>, Top(t).fn \in {"init", "enable"},
         NEW n, stack' = [stack EXCEPT ![t] = n], Nested(n), NEW w \in Uuids, w = Top(t).uuid,
         wanted' = wanted, mode' = mode, enabledExtensions' = enabledExtensions,
         NEW x \in States, extState' = [extState EXCEPT ![w] = x],
         on' \in [Uuids -> Int], \A u \in Uuids \ {w} : on'[u] = on[u],
         extensionOrder' \in Seq(Uuids), IsInjective(extensionOrder'),
         \A u \in Uuids \ {w} : u \in ToSet(extensionOrder') <=> u \in ToSet(extensionOrder),
         Below(Handler) \subseteq ToSet(n),
         \A f \in ToSet(n) :
           f \in Below(Handler) \/ (f.fn \in {"init", "enable"} /\ f.uuid = w /\ ListsAreRight(f)),
         (Handler # <<>> => TopIsRight(Handler))',
         StateIsRight(Handler, w)'
  PROVE  SoloInv'
<1> DEFINE s == Handler
<1>1. /\ Solo(s) /\ s # <<>> /\ Nested(s) /\ Top(t) = s[1]
      /\ ToSet(s) = {s[1]} \cup Below(s)
      /\ \A f \in Below(s) : f \in Frames /\ Waits(f) /\ ListsAreRight(f)
      /\ Handler' = n /\ DOMAIN stack' = Tasks
  BY HandlerTop
<1> HIDE DEF s
<1>2. n # <<>> => ~Rebases(n[1])
  <2> SUFFICES ASSUME n # <<>> PROVE ~Rebases(n[1])
    OBVIOUS
  <2>1. n[1] \in ToSet(n)
    BY NestedFacts
  <2>2. n[1].fn # "disable"
    BY <1>1, <2>1 DEF Waits, s
  <2> QED BY <2>2 DEF Rebases
<1>3. ~Rebases(s[1])
  BY <1>1 DEF Rebases
<1>4. ASSUME NEW u \in Uuids \ {w}
      PROVE  /\ extState[u] # "ACTIVATING"
             /\ extState[u] = "DEACTIVATING" => n # <<>> /\ Rebases(n[1]) /\ n[1].uuid = u
             /\ (n # <<>> /\ Down(n[1], u)) <=> (s # <<>> /\ Down(s[1], u))
             /\ \A f \in ToSet(s) : WillEnable(f, u) => \E g \in ToSet(n) : WillEnable(g, u)
             /\ \A f \in ToSet(s) : WillDisable(f, u) => \E g \in ToSet(n) : WillDisable(g, u)
  <2>1. StateIsRight(s, u)
    BY <1>1 DEF Solo
  <2>2. extState[u] # "ACTIVATING" /\ extState[u] # "DEACTIVATING"
    BY <1>1, <1>3, <2>1 DEF StateIsRight
  <2>3. ~(n # <<>> /\ Down(n[1], u)) /\ ~(s # <<>> /\ Down(s[1], u))
    BY <1>2, <1>3 DEF Down
  <2>4. ~WillEnable(s[1], u) /\ ~WillDisable(s[1], u)
    BY <1>1 DEF WillEnable, WillDisable
  <2>5. \A f \in ToSet(s) : f = s[1] \/ f \in ToSet(n)
    BY <1>1 DEF s
  <2> QED BY <2>2, <2>3, <2>4, <2>5
<1>5. \A f \in ToSet(s) : f.fn = "changed" => \E g \in ToSet(n) : g.fn = "changed"
  <2>1. \A f \in ToSet(s) : f.fn = "changed" => f \in ToSet(n)
    BY <1>1 DEF s
  <2> QED BY <2>1
<1>6. \A f \in ToSet(n) : ListsAreRight(f)
  BY <1>1 DEF s
<1>7. Solo(Handler)'
  BY <1>1, <1>4, <1>5, <1>6, SoloMovesOne, Zenon DEF s
<1> QED BY <1>1, <1>7 DEF SoloInv

\* The innermost frames of a handler that enables or imports w.
LEMMA SoloEnabling ==
  ASSUME SoloInv, Alone, NEW t \in Tasks, stack[t] # <<>>, Top(t).fn \in {"init", "enable"}
  PROVE  LET s == Handler
             w == Top(t).uuid
         IN  /\ Solo(s) /\ s = stack[t] /\ s # <<>> /\ Nested(s) /\ Top(t) = s[1] /\ TopIsRight(s)
             /\ Top(t) \in Frames /\ w \in Uuids /\ StateIsRight(s, w) /\ ListsAreRight(Top(t))
             /\ ToSet(s) = {s[1]} \cup Below(s)
             /\ \A f \in Below(s) : f \in Frames /\ Waits(f) /\ Rank(Top(t)) < Rank(f)
             /\ Nested(Tail(s)) /\ ToSet(Tail(s)) = Below(s)
             /\ Tail(s) # <<>> => Tail(s)[1] \in Below(s)
             /\ \A n : stack' = [stack EXCEPT ![t] = n] => Handler' = n
             /\ wanted \subseteq Uuids /\ extState \in [Uuids -> States] /\ on \in [Uuids -> Int]
             /\ extensionOrder \in Seq(Uuids) /\ IsInjective(extensionOrder)
<1> DEFINE s == Handler
<1>1. /\ Solo(s) /\ s = stack[t] /\ s # <<>> /\ Nested(s) /\ Top(t) = s[1] /\ TopIsRight(s)
      /\ Top(t) \in Frames /\ ListsAreRight(Top(t))
      /\ ToSet(s) = {s[1]} \cup Below(s)
      /\ \A f \in Below(s) : f \in Frames /\ Waits(f) /\ Rank(Top(t)) < Rank(f)
      /\ \A n : stack' = [stack EXCEPT ![t] = n] => Handler' = n
  BY HandlerTop
<1> HIDE DEF s
<1>2. Top(t).uuid \in Uuids
  BY <1>1, FrameFacts
<1>3. Nested(Tail(s)) /\ ToSet(Tail(s)) = Below(s) /\ (Tail(s) # <<>> => Tail(s)[1] \in Below(s))
  BY <1>1, NestedReturn
<1>4. /\ StateIsRight(s, Top(t).uuid)
      /\ wanted \subseteq Uuids /\ extState \in [Uuids -> States] /\ on \in [Uuids -> Int]
      /\ extensionOrder \in Seq(Uuids) /\ IsInjective(extensionOrder)
  BY <1>1, <1>2 DEF Solo
<1> QED BY <1>1, <1>2, <1>3, <1>4 DEF s

\* The import starts, or fails at once.
LEMMA EnableInitKeepsSolo ==
  ASSUME SoloInv, Alone, NEW t \in Tasks, EnableInit(t)
  PROVE  SoloInv'
<1>0. stack[t] # <<>> /\ Top(t).fn = "enable" /\ Top(t).pc = "start"
  BY DEF EnableInit, At, CanRun, Top
<1>1. Top(t).uuid \in Uuids
  BY <1>0, SoloEnabling
<1>2. PICK w \in Uuids : w = Top(t).uuid
  BY <1>1
<1> DEFINE s == Handler
           check == Frame("enable", "check", w)
           init == Frame("init", "import", w)
           n1 == <<init, check>> \o Tail(s)
           n2 == <<check>> \o Tail(s)
<1>3. /\ Supports(w, mode) /\ extState[w] = "INITIALIZED"
      /\ \/ stack' = [stack EXCEPT ![t] = <<init, check>> \o Tail(stack[t])] /\ extState' = extState
         \/ /\ stack' = [stack EXCEPT ![t] = <<check>> \o Tail(stack[t])]
            /\ extState' = [extState EXCEPT ![w] = "ERROR"]
      /\ wanted' = wanted /\ mode' = mode /\ on' = on
      /\ extensionOrder' = extensionOrder /\ enabledExtensions' = enabledExtensions
  BY <1>2 DEF EnableInit, SetState, Become, inputVars
<1>4. /\ s = stack[t] /\ s # <<>> /\ Nested(s) /\ Top(t) = s[1]
      /\ Top(t) \in Frames /\ StateIsRight(s, w) /\ ListsAreRight(Top(t))
      /\ \A f \in Below(s) : f \in Frames /\ Rank(Top(t)) < Rank(f)
      /\ \A n : stack' = [stack EXCEPT ![t] = n] => Handler' = n
      /\ extState \in [Uuids -> States] /\ on \in [Uuids -> Int]
      /\ extensionOrder \in Seq(Uuids) /\ IsInjective(extensionOrder)
  BY <1>0, <1>2, SoloEnabling
<1> HIDE DEF s, check, init
<1>5. /\ check \in Frames /\ check.fn = "enable" /\ check.pc = "check" /\ check.uuid = w /\ Rank(check) = 2
      /\ init \in Frames /\ init.fn = "init" /\ init.pc = "import" /\ init.uuid = w /\ Rank(init) = 1
  BY CallFrames DEF check, init
<1>6. Rank(check) = Rank(s[1]) /\ Rank(s[1]) = 2 /\ Waits(check) /\ Rank(init) < Rank(check)
  BY <1>0, <1>4, <1>5, FrameFacts DEF Waits
<1>7. /\ Nested(n1) /\ n1 # <<>> /\ n1[1] = init /\ ToSet(n1) = {init, check} \cup Below(s)
      /\ Nested(n2) /\ n2 # <<>> /\ n2[1] = check /\ ToSet(n2) = {check} \cup Below(s)
  BY <1>4, <1>5, <1>6, NestedCall, NestedBecome
<1>8. ListsAreRight(check) /\ ListsAreRight(init)
  <2>1. w \in wanted
    BY <1>0, <1>2, <1>4 DEF ListsAreRight
  <2> QED BY <1>3, <1>5, <2>1 DEF ListsAreRight
<1>9. \A g \in Below(s) : g.fn # "enable"
  BY <1>4, <1>6, FrameFacts
<1>10. WillEnable(check, w)
  BY <1>5 DEF WillEnable
<1>11. w \notin ToSet(extensionOrder) /\ on[w] = 0
  BY <1>3, <1>4 DEF StateIsRight
<1>12. "INITIALIZED" \in States /\ "ERROR" \in States
  BY DEF States
<1> HIDE DEF n1, n2
<1>13. CASE stack' = [stack EXCEPT ![t] = <<init, check>> \o Tail(stack[t])] /\ extState' = extState
  <2>1. stack' = [stack EXCEPT ![t] = n1] /\ Handler' = n1
    BY <1>4, <1>13 DEF n1
  <2>2. (Handler # <<>> => TopIsRight(Handler))'
    BY <1>3, <1>5, <1>7, <1>9, <1>13, <2>1 DEF TopIsRight, Rebases
  <2>3. extState' = [extState EXCEPT ![w] = "INITIALIZED"]
    BY <1>3, <1>4, <1>13
  <2>4. StateIsRight(Handler, w)'
    <3>1. check \in ToSet(n1)
      BY <1>7
    <3> QED BY ONLY <1>3, <1>10, <1>11, <1>13, <2>1, <3>1 DEF StateIsRight, WillEnable
  <2>5. /\ Below(s) \subseteq ToSet(n1)
        /\ \A f \in ToSet(n1) : f \in Below(s) \/ (f.fn \in {"init", "enable"} /\ f.uuid = w /\ ListsAreRight(f))
    BY <1>5, <1>7, <1>8
  <2> QED BY <1>0, <1>2, <1>3, <1>4, <1>7, <1>12, <2>1, <2>2, <2>3, <2>4, <2>5, SoloEnables DEF s
<1>14. CASE /\ stack' = [stack EXCEPT ![t] = <<check>> \o Tail(stack[t])]
            /\ extState' = [extState EXCEPT ![w] = "ERROR"]
  <2>1. stack' = [stack EXCEPT ![t] = n2] /\ Handler' = n2
    BY <1>4, <1>14 DEF n2
  <2>2. extState'[w] = "ERROR"
    BY <1>4, <1>14
  <2>3. (Handler # <<>> => TopIsRight(Handler))'
    BY <1>5, <1>7, <2>1, <2>2 DEF TopIsRight, Rebases
  <2>4. StateIsRight(Handler, w)'
    BY ONLY <1>3, <1>11, <2>2 DEF StateIsRight
  <2>5. /\ Below(s) \subseteq ToSet(n2)
        /\ \A f \in ToSet(n2) : f \in Below(s) \/ (f.fn \in {"init", "enable"} /\ f.uuid = w /\ ListsAreRight(f))
    BY <1>5, <1>7, <1>8
  <2> QED BY <1>0, <1>2, <1>3, <1>4, <1>7, <1>12, <1>14, <2>1, <2>3, <2>4, <2>5, SoloEnables DEF s
<1> QED BY <1>3, <1>13, <1>14

\* An extension that is at the end of an order now.
LEMMA Appended ==
  ASSUME NEW E, NEW s \in Seq(E), IsInjective(s), NEW e \in E, e \notin ToSet(s)
  PROVE  LET n == Append(s, e)
         IN  n \in Seq(E) /\ IsInjective(n) /\ ToSet(n) = ToSet(s) \cup {e}
<1> DEFINE n == Append(s, e)
<1>1. /\ n \in Seq(E) /\ DOMAIN n = 1 .. Len(s) + 1 /\ DOMAIN s = 1 .. Len(s) /\ Len(s) \in Nat
      /\ n[Len(s) + 1] = e /\ \A i \in 1 .. Len(s) : n[i] = s[i]
  OBVIOUS
<1> HIDE DEF n
<1>2. \A i \in DOMAIN n : i = Len(s) + 1 \/ i \in 1 .. Len(s)
  BY <1>1
<1>3. ToSet(n) = ToSet(s) \cup {e}
  <2>1. Len(s) + 1 \in DOMAIN n /\ \A i \in 1 .. Len(s) : i \in DOMAIN n
    BY <1>1
  <2> QED BY <1>1, <1>2, <2>1 DEF ToSet
<1>4. ASSUME NEW i \in DOMAIN n, NEW j \in DOMAIN n, n[i] = n[j] PROVE i = j
  <2>1. \A k \in 1 .. Len(s) : s[k] # e
    BY <1>1 DEF ToSet
  <2>2. CASE i \in 1 .. Len(s) /\ j \in 1 .. Len(s)
    BY <1>1, <1>4, <2>2 DEF IsInjective
  <2> QED BY <1>1, <1>2, <1>4, <2>1, <2>2
<1> QED BY <1>1, <1>3, <1>4 DEF IsInjective, n

\* The import ends, in one way or the other.
LEMMA InitDoneKeepsSolo ==
  ASSUME SoloInv, Alone, NEW t \in Tasks, InitDone(t)
  PROVE  SoloInv'
<1>0. stack[t] # <<>> /\ Top(t).fn = "init" /\ Top(t).pc = "import"
  BY DEF InitDone, At, CanRun, Top
<1>1. Top(t).uuid \in Uuids
  BY <1>0, SoloEnabling
<1>2. PICK w \in Uuids : w = Top(t).uuid
  BY <1>1
<1> DEFINE s == Handler
           n == Tail(s)
<1>3. /\ \/ extState' = [extState EXCEPT ![w] = "INACTIVE"] /\ on' = [on EXCEPT ![w] = 0]
         \/ extState' = [extState EXCEPT ![w] = "ERROR"] /\ on' = on
      /\ stack' = [stack EXCEPT ![t] = Tail(stack[t])]
      /\ wanted' = wanted /\ mode' = mode
      /\ extensionOrder' = extensionOrder /\ enabledExtensions' = enabledExtensions
  BY <1>2 DEF InitDone, SetState, Return, inputVars
<1>4. /\ s = stack[t] /\ s # <<>> /\ Top(t) = s[1] /\ TopIsRight(s)
      /\ StateIsRight(s, w) /\ ToSet(s) = {s[1]} \cup Below(s)
      /\ \A f \in Below(s) : f \in Frames /\ Waits(f) /\ Rank(Top(t)) < Rank(f)
      /\ Nested(n) /\ ToSet(n) = Below(s)
      /\ n # <<>> => n[1] \in Below(s)
      /\ \A m : stack' = [stack EXCEPT ![t] = m] => Handler' = m
      /\ extState \in [Uuids -> States] /\ on \in [Uuids -> Int]
      /\ extensionOrder \in Seq(Uuids) /\ IsInjective(extensionOrder)
  BY <1>0, <1>2, SoloEnabling
<1> HIDE DEF s
<1>5. stack' = [stack EXCEPT ![t] = n] /\ Handler' = n
  BY <1>3, <1>4
<1> HIDE DEF n
<1>6. \/ extState' = [extState EXCEPT ![w] = "INACTIVE"]
      \/ extState' = [extState EXCEPT ![w] = "ERROR"]
  BY <1>3
<1>7. PICK x \in {"INACTIVE", "ERROR"} : extState' = [extState EXCEPT ![w] = x]
  BY <1>6
<1>8. extState'[w] = x /\ x \in States
  BY <1>4, <1>7 DEF States
<1>9. on' \in [Uuids -> Int] /\ \A u \in Uuids \ {w} : on'[u] = on[u]
  BY <1>3, <1>4
<1>10. extState[w] = "INITIALIZED" /\ \A g \in ToSet(s) : g.fn = "enable" => g.uuid = w
  BY <1>0, <1>2, <1>4 DEF TopIsRight
<1>11. (Handler # <<>> => TopIsRight(Handler))'
  <2>1. n # <<>> => \/ n[1].fn \in {"changed", "enableAll"}
                    \/ n[1].fn = "enable" /\ n[1].pc = "check" /\ n[1].uuid = w
    BY <1>4, <1>10 DEF Waits
  <2> QED BY <1>5, <1>8, <2>1 DEF TopIsRight, Rebases
<1>12. StateIsRight(Handler, w)'
  <2>1. w \notin ToSet(extensionOrder) /\ on[w] = 0
    BY <1>10, <1>4 DEF StateIsRight
  <2>2. extState'[w] = "INACTIVE" => on'[w] = 0
    BY <1>3, <1>4, <2>1
  <2>3. Due(w) => \E f \in ToSet(s) : WillEnable(f, w)
    BY <1>4, <1>10 DEF StateIsRight
  <2>4. ~WillEnable(s[1], w)
    BY <1>0, <1>4 DEF WillEnable
  <2>5. Due(w) => \E f \in ToSet(n) : WillEnable(f, w)
    BY <1>4, <2>3, <2>4
  <2>6. Due(w)' = Due(w)
    BY <1>3 DEF Due
  <2> QED BY ONLY <1>3, <1>5, <1>8, <2>1, <2>2, <2>5, <2>6 DEF StateIsRight
<1>13. /\ Below(s) \subseteq ToSet(n)
       /\ \A f \in ToSet(n) : f \in Below(s) \/ (f.fn \in {"init", "enable"} /\ f.uuid = w /\ ListsAreRight(f))
  BY <1>4
<1>14. Top(t).fn \in {"init", "enable"}
  BY <1>0
<1> QED
  BY <1>0, <1>2, <1>3, <1>4, <1>5, <1>7, <1>8, <1>9, <1>11, <1>12, <1>13, <1>14, SoloEnables DEF s

\* The innermost function, which enables w, returns.
LEMMA EnableReturnsSolo ==
  ASSUME SoloInv, Alone, NEW t \in Tasks, stack[t] # <<>>, Top(t).fn = "enable", Return(t),
         NEW w \in Uuids, w = Top(t).uuid, wanted' = wanted, mode' = mode,
         enabledExtensions' = enabledExtensions,
         NEW x \in {"ACTIVE", "ERROR"}, extState' = [extState EXCEPT ![w] = x], on' = on,
         x = "ACTIVE" => on[w] = 1 /\ Due(w),
         extensionOrder' = IF x = "ACTIVE" THEN Append(extensionOrder, w) ELSE extensionOrder,
         w \notin ToSet(extensionOrder)
  PROVE  SoloInv'
<1> DEFINE s == Handler
           n == Tail(s)
<1>1. /\ s = stack[t] /\ s # <<>> /\ Top(t) = s[1] /\ Top(t) \in Frames
      /\ \A f \in Below(s) : f \in Frames /\ Waits(f) /\ Rank(Top(t)) < Rank(f)
      /\ Nested(n) /\ ToSet(n) = Below(s)
      /\ n # <<>> => n[1] \in Below(s)
      /\ \A m : stack' = [stack EXCEPT ![t] = m] => Handler' = m
      /\ extState \in [Uuids -> States] /\ on \in [Uuids -> Int]
      /\ extensionOrder \in Seq(Uuids) /\ IsInjective(extensionOrder)
  BY SoloEnabling
<1> HIDE DEF s
<1>2. stack' = [stack EXCEPT ![t] = n] /\ Handler' = n
  BY <1>1 DEF Return
<1> HIDE DEF n
<1>3. extState'[w] = x /\ x \in States
  BY <1>1 DEF States
<1>4. n # <<>> => n[1].fn \in {"changed", "enableAll"}
  BY <1>1, FrameFacts
<1>5. (Handler # <<>> => TopIsRight(Handler))'
  BY <1>2, <1>4 DEF TopIsRight, Rebases
<1>6. /\ extensionOrder' \in Seq(Uuids) /\ IsInjective(extensionOrder')
      /\ ToSet(extensionOrder') = IF x = "ACTIVE" THEN ToSet(extensionOrder) \cup {w} ELSE ToSet(extensionOrder)
  <2>1. CASE x = "ACTIVE"
    BY <1>1, <2>1, Appended
  <2>2. CASE x = "ERROR"
    BY <1>1, <2>2
  <2> QED BY <2>1, <2>2
<1>7. \A u \in Uuids \ {w} : u \in ToSet(extensionOrder') <=> u \in ToSet(extensionOrder)
  BY <1>6
<1>8. StateIsRight(Handler, w)'
  <2>1. ~(n # <<>> /\ Down(n[1], w))
    BY <1>4 DEF Down, Rebases
  <2>2. x = "ACTIVE" => Due(w)'
    BY DEF Due
  <2>3. x = "ACTIVE" <=> w \in ToSet(extensionOrder')
    BY <1>6
  <2>4. x = "ACTIVE" => on'[w] = 1
    OBVIOUS
  <2> QED BY ONLY x \in {"ACTIVE", "ERROR"}, <1>2, <1>3, <2>1, <2>2, <2>3, <2>4 DEF StateIsRight
<1>9. on' \in [Uuids -> Int] /\ \A u \in Uuids \ {w} : on'[u] = on[u]
  BY <1>1
<1>10. Top(t).fn \in {"init", "enable"}
  OBVIOUS
<1>11. /\ Below(s) \subseteq ToSet(n)
       /\ \A f \in ToSet(n) : f \in Below(s) \/ (f.fn \in {"init", "enable"} /\ f.uuid = w /\ ListsAreRight(f))
  BY <1>1
<1> QED
  BY <1>1, <1>2, <1>3, <1>5, <1>6, <1>7, <1>8, <1>9, <1>10, <1>11, SoloEnables DEF s

\* The code of the extension is called, or fails before.
LEMMA EnableCallKeepsSolo ==
  ASSUME SoloInv, Alone, NEW t \in Tasks, EnableCall(t)
  PROVE  SoloInv'
<1>0. /\ stack[t] # <<>> /\ Top(t).fn = "enable"
      /\ Top(t).pc = "check" \/ (Top(t).pc = "start" /\ Supports(Top(t).uuid, mode))
  BY DEF EnableCall, AtCheck, At, CanRun, Top
<1>1. Top(t).uuid \in Uuids
  BY <1>0, SoloEnabling
<1>2. PICK w \in Uuids : w = Top(t).uuid
  BY <1>1
<1> DEFINE s == Handler
           g == Frame("enable", "enabling", w)
           n == <<g>> \o Tail(s)
<1>3. /\ extState[w] = "INACTIVE"
      /\ \/ /\ extState' = [extState EXCEPT ![w] = "ACTIVATING"] /\ on' = [on EXCEPT ![w] = @ + 1]
            /\ stack' = [stack EXCEPT ![t] = <<g>> \o Tail(stack[t])]
         \/ extState' = [extState EXCEPT ![w] = "ERROR"] /\ on' = on /\ Return(t)
      /\ wanted' = wanted /\ mode' = mode
      /\ extensionOrder' = extensionOrder /\ enabledExtensions' = enabledExtensions
  BY <1>2 DEF EnableCall, SetState, Await, Become, inputVars
<1>4. /\ s = stack[t] /\ s # <<>> /\ Nested(s) /\ Top(t) = s[1] /\ Top(t) \in Frames
      /\ StateIsRight(s, w) /\ ListsAreRight(Top(t))
      /\ \A m : stack' = [stack EXCEPT ![t] = m] => Handler' = m
      /\ extState \in [Uuids -> States] /\ on \in [Uuids -> Int]
      /\ extensionOrder \in Seq(Uuids) /\ IsInjective(extensionOrder)
  BY <1>0, <1>2, SoloEnabling
<1> HIDE DEF s, g
<1>5. w \notin ToSet(extensionOrder) /\ on[w] = 0
  BY <1>3, <1>4 DEF StateIsRight
<1>6. CASE extState' = [extState EXCEPT ![w] = "ERROR"] /\ on' = on /\ Return(t)
  BY <1>0, <1>2, <1>3, <1>5, <1>6, EnableReturnsSolo
<1>7. CASE /\ extState' = [extState EXCEPT ![w] = "ACTIVATING"] /\ on' = [on EXCEPT ![w] = @ + 1]
           /\ stack' = [stack EXCEPT ![t] = <<g>> \o Tail(stack[t])]
  <2>1. g \in Frames /\ g.fn = "enable" /\ g.pc = "enabling" /\ g.uuid = w /\ Rank(g) = 2
    BY CallFrames DEF g
  <2>2. Rank(g) = Rank(s[1])
    BY <1>0, <1>4, <2>1, FrameFacts
  <2>3. Nested(n) /\ n # <<>> /\ n[1] = g /\ ToSet(n) = {g} \cup Below(s)
    BY <1>4, <2>1, <2>2, NestedBecome
  <2>4. w \in wanted /\ Supports(w, mode)
    BY <1>0, <1>2, <1>4 DEF ListsAreRight
  <2>5. ListsAreRight(g)
    BY <2>1, <2>4 DEF ListsAreRight
  <2>6. stack' = [stack EXCEPT ![t] = n] /\ Handler' = n
    BY <1>4, <1>7
  <2> HIDE DEF n
  <2>7. extState'[w] = "ACTIVATING" /\ on'[w] = 1 /\ "ACTIVATING" \in States
    BY <1>4, <1>5, <1>7 DEF States
  <2>8. on' \in [Uuids -> Int] /\ \A u \in Uuids \ {w} : on'[u] = on[u]
    BY <1>4, <1>7
  <2>9. (Handler # <<>> => TopIsRight(Handler))'
    BY <2>1, <2>3, <2>6, <2>7 DEF TopIsRight, Rebases
  <2>10. StateIsRight(Handler, w)'
    <3>1. \E f \in ToSet(n) : WillEnable(f, w)
      BY <2>1, <2>3 DEF WillEnable
    <3> QED BY ONLY <1>3, <1>5, <2>1, <2>3, <2>6, <2>7, <3>1 DEF StateIsRight
  <2>11. /\ Below(s) \subseteq ToSet(n)
         /\ \A f \in ToSet(n) : f \in Below(s) \/ (f.fn \in {"init", "enable"} /\ f.uuid = w /\ ListsAreRight(f))
    BY <2>1, <2>3, <2>5
  <2>12. Top(t).fn \in {"init", "enable"}
    BY <1>0
  <2> QED
    BY <1>0, <1>2, <1>3, <1>4, <1>7, <2>3, <2>6, <2>7, <2>8, <2>9, <2>10, <2>11, <2>12, SoloEnables DEF s
<1> QED BY <1>3, <1>6, <1>7

\* The extension runs, or its code has thrown.
LEMMA EnableDoneKeepsSolo ==
  ASSUME SoloInv, Alone, NEW t \in Tasks, EnableDone(t)
  PROVE  SoloInv'
<1>0. stack[t] # <<>> /\ Top(t).fn = "enable" /\ Top(t).pc = "enabling"
  BY DEF EnableDone, At, CanRun, Top
<1>1. Top(t).uuid \in Uuids
  BY <1>0, SoloEnabling
<1>2. PICK w \in Uuids : w = Top(t).uuid
  BY <1>1
<1> DEFINE s == Handler
<1>3. /\ \/ /\ extState' = [extState EXCEPT ![w] = "ACTIVE"]
            /\ extensionOrder' = Append(extensionOrder, w)
         \/ extState' = [extState EXCEPT ![w] = "ERROR"] /\ extensionOrder' = extensionOrder
      /\ Return(t) /\ wanted' = wanted /\ mode' = mode /\ on' = on
      /\ enabledExtensions' = enabledExtensions
  BY <1>2 DEF EnableDone, SetState, inputVars
<1>4. Top(t) = s[1] /\ TopIsRight(s) /\ StateIsRight(s, w) /\ ListsAreRight(Top(t))
  BY <1>0, <1>2, SoloEnabling
<1> HIDE DEF s
<1>5. extState[w] = "ACTIVATING"
  BY <1>0, <1>2, <1>4 DEF TopIsRight
<1>6. on[w] = 1 /\ w \notin ToSet(extensionOrder)
  BY <1>4, <1>5 DEF StateIsRight
<1>7. Due(w)
  BY <1>0, <1>2, <1>4 DEF ListsAreRight, Due
<1>8. CASE /\ extState' = [extState EXCEPT ![w] = "ACTIVE"]
           /\ extensionOrder' = Append(extensionOrder, w)
  BY <1>0, <1>2, <1>3, <1>6, <1>7, <1>8, EnableReturnsSolo
<1>9. CASE extState' = [extState EXCEPT ![w] = "ERROR"] /\ extensionOrder' = extensionOrder
  BY <1>0, <1>2, <1>3, <1>6, <1>7, <1>9, EnableReturnsSolo
<1> QED BY <1>3, <1>8, <1>9

\* What is left to be rebased: it is in the order, each once, after the place idx.
LEMMA EndFacts ==
  ASSUME NEW order, order \in Seq(Uuids), IsInjective(order), NEW idx, idx \in DOMAIN order,
         NEW todo, IsEndOf(todo, order, idx)
  PROVE  /\ todo \in Seq(Uuids) /\ IsInjective(todo)
         /\ \A u \in ToSet(todo) : u \in ToSet(order) /\ u # order[idx]
         /\ \A i \in DOMAIN order : order[i] \in ToSet(todo) => idx < i
         /\ \A i, j \in DOMAIN order : i < j /\ order[i] \in ToSet(todo) => order[j] \in ToSet(todo)
         /\ todo # <<>> => /\ Head(todo) \in Uuids /\ Head(todo) \in ToSet(todo)
                           /\ ToSet(todo) = {Head(todo)} \cup ToSet(Tail(todo))
                           /\ Head(todo) \notin ToSet(Tail(todo))
                           /\ IsEndOf(Tail(todo), order, idx)
<1>1. PICK m \in (idx + 1) .. (Len(order) + 1) : todo = SubSeq(order, m, Len(order))
  BY DEF IsEndOf
<1>2. /\ DOMAIN order = 1 .. Len(order) /\ Len(order) \in Nat /\ idx \in 1 .. Len(order) /\ m \in Nat
      /\ todo \in Seq(Uuids) /\ Len(todo) = Len(order) + 1 - m /\ DOMAIN todo = 1 .. Len(order) + 1 - m
      /\ \A i \in DOMAIN todo : todo[i] = order[m + i - 1] /\ m + i - 1 \in DOMAIN order
  BY <1>1
<1>3. \A u : u \in ToSet(todo) <=> \E i \in m .. Len(order) : u = order[i]
  <2>1. \A i \in m .. Len(order) : i - m + 1 \in DOMAIN todo /\ m + (i - m + 1) - 1 = i
    BY <1>2
  <2>2. \A i \in DOMAIN todo : m + i - 1 \in m .. Len(order)
    BY <1>2
  <2>3. ASSUME NEW u \in ToSet(todo) PROVE \E i \in m .. Len(order) : u = order[i]
    <3>1. PICK i \in DOMAIN todo : u = todo[i]
      BY DEF ToSet
    <3> QED BY <1>2, <2>2, <3>1
  <2>4. ASSUME NEW i \in m .. Len(order) PROVE order[i] \in ToSet(todo)
    <3>1. i - m + 1 \in DOMAIN todo /\ todo[i - m + 1] = order[i]
      BY <1>2, <2>1
    <3> QED BY <3>1 DEF ToSet
  <2> QED BY <2>3, <2>4
<1>4. \A i \in DOMAIN order : order[i] \in ToSet(todo) <=> m <= i
  <2>1. ASSUME NEW i \in DOMAIN order, order[i] \in ToSet(todo) PROVE m <= i
    <3>1. PICK j \in m .. Len(order) : order[i] = order[j]
      BY <1>3, <2>1
    <3>2. i = j
      BY <1>2, <3>1 DEF IsInjective
    <3> QED BY <1>2, <3>2
  <2>2. ASSUME NEW i \in DOMAIN order, m <= i PROVE order[i] \in ToSet(todo)
    BY <1>2, <1>3, <2>2
  <2> QED BY <2>1, <2>2
<1>5. \A u \in ToSet(todo) : u \in ToSet(order) /\ u # order[idx]
  <2>1. order[idx] \notin ToSet(todo)
    BY <1>1, <1>2, <1>4
  <2>2. \A i \in m .. Len(order) : i \in DOMAIN order
    BY <1>2
  <2> QED BY <1>3, <2>1, <2>2 DEF ToSet
<1>6. /\ \A i \in DOMAIN order : order[i] \in ToSet(todo) => idx < i
      /\ \A i, j \in DOMAIN order : i < j /\ order[i] \in ToSet(todo) => order[j] \in ToSet(todo)
  BY <1>1, <1>2, <1>4
<1>7. ASSUME todo # <<>>
      PROVE  /\ Head(todo) \in Uuids /\ Head(todo) \in ToSet(todo)
             /\ ToSet(todo) = {Head(todo)} \cup ToSet(Tail(todo))
             /\ Head(todo) \notin ToSet(Tail(todo))
             /\ IsEndOf(Tail(todo), order, idx)
  <2>1. /\ Head(todo) = todo[1] /\ todo[1] \in Uuids /\ todo[1] \in ToSet(todo)
        /\ ToSet(todo) = {todo[1]} \cup ToSet(Tail(todo)) /\ Tail(todo) \in Seq(Uuids)
    BY <1>2, <1>7, Contents
  <2>2. m <= Len(order) /\ m + 1 \in (idx + 1) .. (Len(order) + 1)
    BY <1>1, <1>2, <1>7
  <2>3. Tail(todo) = SubSeq(order, m + 1, Len(order))
    BY <1>1, <1>2, <1>7, <2>2, HeadTailOfSubSeq
  <2>4. IsEndOf(Tail(todo), order, idx)
    BY <2>2, <2>3 DEF IsEndOf
  <2>5. todo[1] \notin ToSet(Tail(todo))
    <3>1. \A i \in DOMAIN Tail(todo) : Tail(todo)[i] = todo[i + 1] /\ i + 1 \in DOMAIN todo /\ i + 1 # 1
      BY <1>2, <1>7
    <3>2. 1 \in DOMAIN todo
      BY <1>2, <2>2
    <3>3. \A i \in DOMAIN todo : todo[i] = todo[1] => i = 1
      <4>1. SUFFICES ASSUME NEW i \in DOMAIN todo, todo[i] = todo[1] PROVE i = 1
        OBVIOUS
      <4>2. order[m + i - 1] = order[m + 1 - 1] /\ m + i - 1 \in DOMAIN order /\ m + 1 - 1 \in DOMAIN order
        BY <1>2, <3>2, <4>1
      <4>3. m + i - 1 = m + 1 - 1
        BY <4>2 DEF IsInjective
      <4> QED BY <1>2, <4>3
    <3> QED BY <3>1, <3>3 DEF ToSet
  <2> QED BY <2>1, <2>4, <2>5
<1>8. IsInjective(todo)
  <2>1. SUFFICES ASSUME NEW i \in DOMAIN todo, NEW j \in DOMAIN todo, todo[i] = todo[j] PROVE i = j
    BY DEF IsInjective
  <2>2. m + i - 1 = m + j - 1
    BY <1>2, <2>1 DEF IsInjective
  <2> QED BY <1>2, <2>2
<1> QED BY <1>2, <1>5, <1>6, <1>7, <1>8

\* What is after an extension that is left to be rebased is left as well.
LEMMA EndGoesOn ==
  ASSUME NEW order, order \in Seq(Uuids), IsInjective(order), NEW idx, idx \in DOMAIN order,
         NEW todo, IsEndOf(todo, order, idx), NEW i, i \in DOMAIN order, NEW j, j \in DOMAIN order,
         i < j, order[i] \in ToSet(todo)
  PROVE  order[j] \in ToSet(todo)
  BY EndFacts

\* The order without the extension that was at a place of it.
LEMMA Removed ==
  ASSUME NEW E, NEW order \in Seq(E), IsInjective(order), NEW idx \in DOMAIN order
  PROVE  LET n == Splice(order, idx)
         IN  /\ n \in Seq(E) /\ IsInjective(n)
             /\ ToSet(n) = ToSet(order) \ {order[idx]}
<1> DEFINE n == Splice(order, idx)
           from(i) == IF i < idx THEN i ELSE i + 1
<1>1. DOMAIN order = 1 .. Len(order) /\ Len(order) \in Nat /\ idx \in 1 .. Len(order)
  OBVIOUS
<1>2. n = SubSeq(order, 1, idx - 1) \o SubSeq(order, idx + 1, Len(order))
  <2>1. idx # 0 /\ idx \in 1 .. Len(order)
    BY <1>1
  <2>2. n = RemoveAt(order, idx)
    BY <2>1 DEF Splice
  <2> QED BY <2>2 DEF RemoveAt
<1>3. /\ n \in Seq(E) /\ Len(n) = Len(order) - 1 /\ DOMAIN n = 1 .. Len(order) - 1
      /\ \A i \in DOMAIN n : n[i] = order[from(i)] /\ from(i) \in DOMAIN order /\ from(i) # idx
  <2> DEFINE a == SubSeq(order, 1, idx - 1)
             b == SubSeq(order, idx + 1, Len(order))
  <2>1. /\ a \in Seq(E) /\ Len(a) = idx - 1
        /\ \A i \in 1 .. idx - 1 : a[i] = order[i]
    BY <1>1
  <2>2. /\ b \in Seq(E) /\ Len(b) = Len(order) - idx
        /\ \A i \in 1 .. Len(order) - idx : b[i] = order[idx + i]
    BY <1>1
  <2> HIDE DEF a, b
  <2>3. n = a \o b
    BY <1>2 DEF a, b
  <2> HIDE DEF n
  <2>4. n \in Seq(E) /\ Len(n) = Len(order) - 1 /\ DOMAIN n = 1 .. Len(order) - 1
        /\ \A i \in 1 .. Len(order) - 1 : n[i] = IF i <= idx - 1 THEN a[i] ELSE b[i - (idx - 1)]
    <3>1. /\ n \in Seq(E) /\ Len(n) = Len(a) + Len(b)
          /\ \A i \in 1 .. Len(a) + Len(b) : n[i] = IF i <= Len(a) THEN a[i] ELSE b[i - Len(a)]
      BY <2>1, <2>2, <2>3, ConcatProperties
    <3>2. Len(a) + Len(b) = Len(order) - 1
      BY <1>1, <2>1, <2>2
    <3> QED BY <2>1, <3>1, <3>2
  <2>5. ASSUME NEW i \in DOMAIN n
        PROVE  n[i] = order[from(i)] /\ from(i) \in DOMAIN order /\ from(i) # idx
    <3>1. CASE i < idx
      BY <1>1, <2>1, <2>4, <3>1
    <3>2. CASE ~(i < idx)
      <4>1. n[i] = b[i - (idx - 1)] /\ i - (idx - 1) \in 1 .. Len(order) - idx
        BY <1>1, <2>4, <3>2
      <4>2. n[i] = order[idx + (i - (idx - 1))] /\ idx + (i - (idx - 1)) = i + 1
        BY <1>1, <2>2, <2>4, <4>1
      <4> QED BY <1>1, <2>4, <3>2, <4>2
    <3> QED BY <3>1, <3>2
  <2> QED BY <2>4, <2>5
<1> HIDE DEF n
<1>4. \A i, j \in DOMAIN n : from(i) = from(j) => i = j
  BY <1>1, <1>3
<1>5. \A k \in DOMAIN order : k # idx => \E i \in DOMAIN n : from(i) = k
  <2> SUFFICES ASSUME NEW k \in DOMAIN order, k # idx PROVE \E i \in DOMAIN n : from(i) = k
    OBVIOUS
  <2>1. CASE k < idx
    BY <1>1, <1>3, <2>1
  <2>2. CASE k > idx
    <3>1. k - 1 \in DOMAIN n /\ from(k - 1) = k
      BY <1>1, <1>3, <2>2
    <3> QED BY <3>1
  <2> QED BY <1>1, <2>1, <2>2
<1> HIDE DEF from
<1>6. IsInjective(n)
  BY <1>3, <1>4 DEF IsInjective
<1>7. ToSet(n) = ToSet(order) \ {order[idx]}
  <2>1. \A u \in ToSet(n) : u \in ToSet(order) /\ u # order[idx]
    BY <1>3 DEF ToSet, IsInjective
  <2>2. \A u \in ToSet(order) : u # order[idx] => u \in ToSet(n)
    BY <1>3, <1>5 DEF ToSet
  <2> QED BY <2>1, <2>2
<1> QED BY <1>3, <1>6, <1>7 DEF n

\* A frame that rebases, while an extension is enabled again.
LEMMA RebasedFrame ==
  ASSUME NEW f, f \in Frames, Rebases(f), NEW g, g = [f EXCEPT !.pc = "rebased"]
  PROVE  /\ g \in Frames /\ g.fn = "disable" /\ g.pc = "rebased" /\ g.uuid = f.uuid
         /\ g.idx = f.idx /\ g.todo = f.todo
<1> DEFINE D == [fn : {"disable"}, pc : {"rebase", "rebased"}, uuid : Uuids, idx : Int, todo : Seq(Uuids)]
<1>1. f \in D
  BY DEF Frames, Rebases
<1>2. /\ g \in D /\ g.fn = "disable" /\ g.pc = "rebased" /\ g.uuid = f.uuid
      /\ g.idx = f.idx /\ g.todo = f.todo
  BY <1>1
<1> QED BY <1>2 DEF Frames

\* The frames of a handler that rebases what an extension to be disabled was under.
LEMMA SoloRebasing ==
  ASSUME SoloInv, Alone, NEW t \in Tasks, stack[t] # <<>>, Rebases(Top(t))
  PROVE  LET s == Handler
             f == Top(t)
         IN  /\ Solo(s) /\ s = stack[t] /\ s # <<>> /\ Nested(s) /\ f = s[1] /\ f \in Frames
             /\ f.fn = "disable" /\ f.uuid \in Uuids /\ f.todo \in Seq(Uuids) /\ f.idx \in DOMAIN extensionOrder
             /\ extensionOrder[f.idx] = f.uuid /\ IsEndOf(f.todo, extensionOrder, f.idx)
             /\ extState[f.uuid] \in {"DEACTIVATING", "ERROR"} /\ ~Due(f.uuid)
             /\ f.pc = "rebased" => f.todo # <<>>
             /\ f.uuid \in ToSet(extensionOrder) /\ f.uuid \notin ToSet(f.todo)
             /\ ToSet(f.todo) \subseteq ToSet(extensionOrder)
             /\ ToSet(s) = {f} \cup Below(s)
             /\ \A g \in Below(s) : g \in Frames /\ g.fn \in {"changed", "enableAll"} /\ ListsAreRight(g)
             /\ Nested(Tail(s)) /\ ToSet(Tail(s)) = Below(s)
             /\ Tail(s) # <<>> => Tail(s)[1] \in Below(s)
             /\ \A u \in Uuids : /\ StateIsRight(s, u) /\ extState[u] # "ACTIVATING"
                                 /\ extState[u] = "DEACTIVATING" => u = f.uuid
             /\ \A n : stack' = [stack EXCEPT ![t] = n] => Handler' = n /\ DOMAIN stack' = Tasks
             /\ extState \in [Uuids -> States] /\ on \in [Uuids -> Int]
             /\ extensionOrder \in Seq(Uuids) /\ IsInjective(extensionOrder)
<1> DEFINE s == Handler
           f == Top(t)
<1>1. /\ Solo(s) /\ s = stack[t] /\ s # <<>> /\ Nested(s) /\ f = s[1] /\ f \in Frames
      /\ TopIsRight(s) /\ ListsAreRight(f)
      /\ ToSet(s) = {s[1]} \cup Below(s)
      /\ \A g \in Below(s) : g \in Frames /\ Rank(f) < Rank(g) /\ ListsAreRight(g)
      /\ \A n : stack' = [stack EXCEPT ![t] = n] => Handler' = n /\ DOMAIN stack' = Tasks
  BY HandlerTop
<1>2. Rebases(f) /\ f.fn = "disable" /\ f.pc # "start"
  BY DEF Rebases
<1> HIDE DEF s, f
<1>3. f.uuid \in Uuids /\ f.todo \in Seq(Uuids) /\ Rank(f) = 2
  BY <1>1, <1>2, FrameFacts
<1>4. /\ f.idx \in DOMAIN extensionOrder /\ extensionOrder[f.idx] = f.uuid
      /\ IsEndOf(f.todo, extensionOrder, f.idx)
      /\ extState[f.uuid] \in {"DEACTIVATING", "ERROR"}
      /\ f.pc = "rebased" => f.todo # <<>>
  BY <1>1, <1>2 DEF TopIsRight
<1>5. /\ extState \in [Uuids -> States] /\ on \in [Uuids -> Int]
      /\ extensionOrder \in Seq(Uuids) /\ IsInjective(extensionOrder)
      /\ \A u \in Uuids : StateIsRight(s, u)
  BY <1>1 DEF Solo
<1>6. f.uuid \notin ToSet(f.todo) /\ ToSet(f.todo) \subseteq ToSet(extensionOrder)
  <2>1. \A u \in ToSet(f.todo) : u \in ToSet(extensionOrder) /\ u # extensionOrder[f.idx]
    <3>1. /\ f.idx \in DOMAIN extensionOrder /\ IsEndOf(f.todo, extensionOrder, f.idx)
          /\ extensionOrder \in Seq(Uuids) /\ IsInjective(extensionOrder)
      BY <1>4, <1>5
    <3> QED BY ONLY <3>1, EndFacts, Zenon
  <2> QED BY <1>4, <2>1
<1>7. f.uuid \in ToSet(extensionOrder)
  BY <1>4 DEF ToSet
<1>8. \A g \in Below(s) : g.fn \in {"changed", "enableAll"}
  BY <1>1, <1>3, FrameFacts
<1>9. Nested(Tail(s)) /\ ToSet(Tail(s)) = Below(s) /\ (Tail(s) # <<>> => Tail(s)[1] \in Below(s))
  BY <1>1, NestedReturn
<1>10. ASSUME NEW u \in Uuids
       PROVE  extState[u] # "ACTIVATING" /\ (extState[u] = "DEACTIVATING" => u = f.uuid)
  BY <1>1, <1>2, <1>5 DEF StateIsRight
<1>11. ~Due(f.uuid)
  BY <1>1, <1>2 DEF ListsAreRight
<1> QED BY <1>1, <1>2, <1>3, <1>4, <1>5, <1>6, <1>7, <1>8, <1>9, <1>10, <1>11 DEF s, f

\* A step of the rebasing moves one extension, and no other goes down or up.
LEMMA RebasesOne ==
  ASSUME SoloInv, Alone, NEW t \in Tasks, stack[t] # <<>>, Rebases(Top(t)),
         NEW g \in Frames, Rebases(g), g.uuid = Top(t).uuid, g.idx = Top(t).idx,
         stack' = [stack EXCEPT ![t] = <<g>> \o Tail(stack[t])],
         IsEndOf(g.todo, extensionOrder, g.idx), g.pc = "rebased" => g.todo # <<>>,
         NEW w \in ToSet(Top(t).todo), NEW x \in {extState[w], "ERROR"},
         extState' = [extState EXCEPT ![w] = x],
         on' \in [Uuids -> Int], on'[w] = 1, \A u \in Uuids \ {w} : on'[u] = on[u],
         ~Down(g, w), \A u \in Uuids \ {w} : Down(g, u) <=> Down(Top(t), u),
         wanted' = wanted, mode' = mode,
         extensionOrder' = extensionOrder, enabledExtensions' = enabledExtensions
  PROVE  SoloInv'
<1> DEFINE s == Handler
           f == Top(t)
           n == <<g>> \o Tail(s)
<1>1. /\ Solo(s) /\ s = stack[t] /\ s # <<>> /\ Nested(s) /\ f = s[1] /\ f \in Frames
      /\ f.fn = "disable" /\ f.uuid \in Uuids /\ f.todo \in Seq(Uuids) /\ f.idx \in DOMAIN extensionOrder
      /\ extensionOrder[f.idx] = f.uuid
      /\ extState[f.uuid] \in {"DEACTIVATING", "ERROR"} /\ ~Due(f.uuid)
      /\ f.uuid \notin ToSet(f.todo)
      /\ ToSet(f.todo) \subseteq ToSet(extensionOrder)
      /\ ToSet(s) = {f} \cup Below(s)
      /\ \A h \in Below(s) : h \in Frames /\ h.fn \in {"changed", "enableAll"} /\ ListsAreRight(h)
      /\ \A u \in Uuids : /\ StateIsRight(s, u) /\ extState[u] # "ACTIVATING"
                          /\ extState[u] = "DEACTIVATING" => u = f.uuid
      /\ \A m : stack' = [stack EXCEPT ![t] = m] => Handler' = m /\ DOMAIN stack' = Tasks
      /\ extState \in [Uuids -> States]
      /\ extensionOrder \in Seq(Uuids) /\ IsInjective(extensionOrder)
  BY SoloRebasing
<1>2. g.fn = "disable" /\ g.pc # "start" /\ Rank(g) = 2 /\ Rank(f) = 2
  BY <1>1, FrameFacts DEF Rebases
<1>3. w \in Uuids /\ w \in ToSet(extensionOrder) /\ w # f.uuid
  BY <1>1, Contents
<1>4. x \in States /\ extState'[w] = x
  BY <1>1, <1>3 DEF States
<1> HIDE DEF s, f
<1>5. Nested(n) /\ n # <<>> /\ n[1] = g /\ ToSet(n) = {g} \cup Below(s)
  BY <1>1, <1>2, NestedBecome
<1>6. Handler' = n /\ DOMAIN stack' = Tasks
  BY <1>1
<1> HIDE DEF n
<1>7. ListsAreRight(g)
  BY <1>1, <1>2 DEF ListsAreRight, f
<1>8. \A h \in ToSet(n) : ListsAreRight(h)
  BY <1>1, <1>5, <1>7
<1>9. \A u : /\ WillEnable(g, u) <=> WillEnable(f, u)
             /\ WillDisable(g, u) <=> WillDisable(f, u)
  BY <1>1, <1>2 DEF WillEnable, WillDisable, f
<1>10. (Handler # <<>> => TopIsRight(Handler))'
  <2>1. extState'[g.uuid] \in {"DEACTIVATING", "ERROR"}
    BY <1>1, <1>3 DEF f
  <2>2. g.idx \in DOMAIN extensionOrder /\ extensionOrder[g.idx] = g.uuid
    BY <1>1 DEF f
  <2> QED BY <1>2, <1>5, <1>6, <2>1, <2>2 DEF TopIsRight
<1>11. /\ \A u, h : h \in ToSet(s) /\ WillEnable(h, u) => \E k \in ToSet(n) : WillEnable(k, u)
       /\ \A u, h : h \in ToSet(s) /\ WillDisable(h, u) => \E k \in ToSet(n) : WillDisable(k, u)
       /\ \A h \in ToSet(s) : h.fn = "changed" => \E k \in ToSet(n) : k.fn = "changed"
  <2>1. g \in ToSet(n) /\ \A h \in ToSet(s) : h = f \/ h \in ToSet(n)
    BY <1>1, <1>5
  <2>2. f.fn # "changed"
    BY <1>1
  <2> QED BY <1>9, <2>1, <2>2
<1>12. StateIsRight(Handler, w)'
  <2>1. extState[w] \in {"ACTIVE", "ERROR"}
    BY <1>1, <1>3 DEF StateIsRight
  <2>2. ~Due(w) /\ extState[w] = "ACTIVE" => \E h \in ToSet(n) : WillDisable(h, w)
    BY <1>1, <1>3, <1>11 DEF StateIsRight
  <2>3. Due(w)' = Due(w)
    BY DEF Due
  <2>4. x \in {"ACTIVE", "ERROR"} /\ (x = "ACTIVE" => extState[w] = "ACTIVE")
    BY <2>1
  <2>5. w \in ToSet(extensionOrder')
    BY <1>3
  <2> QED BY ONLY on'[w] = 1, ~Down(g, w), <1>4, <1>5, <1>6, <2>2, <2>3, <2>4, <2>5 DEF StateIsRight
<1>13. ASSUME NEW u \in Uuids \ {w}
       PROVE  /\ extState[u] # "ACTIVATING"
              /\ extState[u] = "DEACTIVATING" => n # <<>> /\ Rebases(n[1]) /\ n[1].uuid = u
              /\ (n # <<>> /\ Down(n[1], u)) <=> (s # <<>> /\ Down(s[1], u))
              /\ \A h \in ToSet(s) : WillEnable(h, u) => \E k \in ToSet(n) : WillEnable(k, u)
              /\ \A h \in ToSet(s) : WillDisable(h, u) => \E k \in ToSet(n) : WillDisable(k, u)
  <2>1. Down(g, u) <=> Down(f, u)
    BY DEF f
  <2>2. g.uuid = f.uuid
    BY DEF f
  <2> QED BY <1>1, <1>5, <1>11, <2>1, <2>2
<1>14. \A u \in Uuids \ {w} : u \in ToSet(extensionOrder') <=> u \in ToSet(extensionOrder)
  OBVIOUS
<1>15. extensionOrder' \in Seq(Uuids) /\ IsInjective(extensionOrder')
  BY <1>1
<1>16. Solo(Handler)'
  BY <1>1, <1>3, <1>4, <1>5, <1>6, <1>8, <1>10, <1>11, <1>12, <1>13, <1>14, <1>15, SoloMovesOne, Zenon DEF s
<1> QED BY <1>6, <1>16 DEF SoloInv

\* The next extension is enabled again.
LEMMA RebaseCallKeepsSolo ==
  ASSUME SoloInv, Alone, NEW t \in Tasks, RebaseCall(t)
  PROVE  SoloInv'
<1> DEFINE f == Top(t)
           g == [f EXCEPT !.pc = "rebased"]
<1>1. /\ stack[t] # <<>> /\ f.fn = "disable" /\ f.pc = "rebase" /\ f.todo # <<>>
      /\ on' = [on EXCEPT ![Head(f.todo)] = @ + 1]
      /\ stack' = [stack EXCEPT ![t] = <<g>> \o Tail(stack[t])]
      /\ wanted' = wanted /\ mode' = mode /\ extState' = extState
      /\ extensionOrder' = extensionOrder /\ enabledExtensions' = enabledExtensions
  BY DEF RebaseCall, At, CanRun, Top, Await, Become, inputVars
<1>2. Rebases(f)
  BY <1>1 DEF Rebases
<1>3. /\ f = Handler[1] /\ Handler # <<>> /\ f \in Frames /\ f.todo \in Seq(Uuids)
      /\ f.uuid \notin ToSet(f.todo)
      /\ f.idx \in DOMAIN extensionOrder /\ IsEndOf(f.todo, extensionOrder, f.idx)
      /\ ToSet(f.todo) \subseteq ToSet(extensionOrder)
      /\ \A u \in Uuids : StateIsRight(Handler, u)
      /\ extState \in [Uuids -> States] /\ on \in [Uuids -> Int]
      /\ extensionOrder \in Seq(Uuids) /\ IsInjective(extensionOrder)
  BY <1>1, <1>2, SoloRebasing
<1> HIDE DEF f
<1>4. PICK w \in Uuids : w = Head(f.todo)
  BY <1>1, <1>3
<1>5. w \in ToSet(f.todo) /\ w \notin ToSet(Tail(f.todo)) /\ ToSet(f.todo) = {w} \cup ToSet(Tail(f.todo))
  <2>1. /\ f.idx \in DOMAIN extensionOrder /\ IsEndOf(f.todo, extensionOrder, f.idx)
        /\ extensionOrder \in Seq(Uuids) /\ IsInjective(extensionOrder) /\ f.todo # <<>> /\ w = Head(f.todo)
    BY <1>1, <1>3, <1>4
  <2> QED BY ONLY <2>1, EndFacts, Zenon
<1>6. /\ g \in Frames /\ g.fn = "disable" /\ g.pc = "rebased" /\ g.uuid = f.uuid
      /\ g.idx = f.idx /\ g.todo = f.todo
  BY <1>2, <1>3, RebasedFrame
<1> HIDE DEF g
<1>7. Rebases(g)
  BY <1>6 DEF Rebases
<1>8. \A u : /\ Down(f, u) <=> u = f.uuid \/ u \in ToSet(f.todo)
             /\ Down(g, u) <=> u = f.uuid \/ u \in ToSet(Tail(f.todo))
  BY <1>1, <1>2, <1>6, <1>7 DEF Down
<1>9. ~Down(g, w) /\ \A u \in Uuids \ {w} : Down(g, u) <=> Down(f, u)
  BY <1>3, <1>5, <1>8
<1>10. on[w] = 0
  <2>1. w \in ToSet(extensionOrder) /\ StateIsRight(Handler, w) /\ Down(Handler[1], w)
    BY <1>3, <1>5, <1>8
  <2> QED BY <1>3, <2>1 DEF StateIsRight
<1>11. on' \in [Uuids -> Int] /\ on'[w] = 1 /\ \A u \in Uuids \ {w} : on'[u] = on[u]
  BY <1>1, <1>3, <1>4, <1>10
<1>12. extState' = [extState EXCEPT ![w] = extState[w]]
  BY <1>1, <1>3
<1>13. IsEndOf(g.todo, extensionOrder, g.idx) /\ g.todo # <<>>
  BY <1>1, <1>3, <1>6
<1> QED BY <1>1, <1>2, <1>5, <1>6, <1>7, <1>9, <1>11, <1>12, <1>13, RebasesOne DEF f

\* It has been enabled again, or its code has thrown.
LEMMA RebaseDoneKeepsSolo ==
  ASSUME SoloInv, Alone, NEW t \in Tasks, RebaseDone(t)
  PROVE  SoloInv'
<1> DEFINE f == Top(t)
           h == [f EXCEPT !.pc = "rebase", !.todo = Tail(f.todo)]
<1>1. /\ stack[t] # <<>> /\ f.fn = "disable" /\ f.pc = "rebased"
      /\ \/ extState' = extState
         \/ extState' = [extState EXCEPT ![Head(f.todo)] = "ERROR"]
      /\ stack' = [stack EXCEPT ![t] = <<h>> \o Tail(stack[t])]
      /\ wanted' = wanted /\ mode' = mode /\ on' = on
      /\ extensionOrder' = extensionOrder /\ enabledExtensions' = enabledExtensions
  BY DEF RebaseDone, At, CanRun, Top, Continue, Become, SetState, inputVars
<1>2. Rebases(f)
  BY <1>1 DEF Rebases
<1>3. /\ f = Handler[1] /\ Handler # <<>> /\ f \in Frames /\ f.todo \in Seq(Uuids) /\ f.todo # <<>>
      /\ f.uuid \notin ToSet(f.todo)
      /\ f.idx \in DOMAIN extensionOrder /\ IsEndOf(f.todo, extensionOrder, f.idx)
      /\ ToSet(f.todo) \subseteq ToSet(extensionOrder)
      /\ \A u \in Uuids : StateIsRight(Handler, u)
      /\ extState \in [Uuids -> States] /\ on \in [Uuids -> Int]
      /\ extensionOrder \in Seq(Uuids) /\ IsInjective(extensionOrder)
  BY <1>1, <1>2, SoloRebasing
<1> HIDE DEF f
<1>4. PICK w \in Uuids : w = Head(f.todo)
  BY <1>3
<1>5. /\ w \in ToSet(f.todo) /\ w \notin ToSet(Tail(f.todo))
      /\ IsEndOf(Tail(f.todo), extensionOrder, f.idx) /\ Tail(f.todo) \in Seq(Uuids)
  <2>1. Tail(f.todo) \in Seq(Uuids)
    BY <1>3
  <2>2. /\ f.idx \in DOMAIN extensionOrder /\ IsEndOf(f.todo, extensionOrder, f.idx)
        /\ extensionOrder \in Seq(Uuids) /\ IsInjective(extensionOrder) /\ f.todo # <<>> /\ w = Head(f.todo)
    BY <1>3, <1>4
  <2> QED BY ONLY <2>1, <2>2, EndFacts, Zenon
<1>6. /\ h \in Frames /\ h.fn = "disable" /\ h.pc = "rebase" /\ h.uuid = f.uuid
      /\ h.idx = f.idx /\ h.todo = Tail(f.todo)
  <2> DEFINE D == [fn : {"disable"}, pc : {"rebase", "rebased"}, uuid : Uuids, idx : Int, todo : Seq(Uuids)]
             left == Tail(f.todo)
  <2>1. f \in D
    BY <1>2, <1>3 DEF Frames, Rebases
  <2>2. left \in Seq(Uuids)
    BY <1>5
  <2>3. h = [f EXCEPT !.pc = "rebase", !.todo = left]
    OBVIOUS
  <2> HIDE DEF left, h
  <2>4. /\ h \in D /\ h.fn = "disable" /\ h.pc = "rebase" /\ h.uuid = f.uuid
        /\ h.idx = f.idx /\ h.todo = left
    BY <2>1, <2>2, <2>3
  <2> QED BY <2>4 DEF Frames, left
<1> HIDE DEF h
<1>7. Rebases(h)
  BY <1>6 DEF Rebases
<1>8. \A u : /\ Down(f, u) <=> u = f.uuid \/ u \in ToSet(Tail(f.todo))
             /\ Down(h, u) <=> u = f.uuid \/ u \in ToSet(Tail(f.todo))
  BY <1>1, <1>2, <1>6, <1>7 DEF Down
<1>9. ~Down(h, w) /\ \A u \in Uuids \ {w} : Down(h, u) <=> Down(f, u)
  BY <1>3, <1>5, <1>8
<1>10. on[w] = 1
  <2>1. w \in ToSet(extensionOrder) /\ StateIsRight(Handler, w) /\ ~Down(Handler[1], w)
    BY <1>3, <1>5, <1>8
  <2> QED BY <1>3, <2>1 DEF StateIsRight
<1>11. on' \in [Uuids -> Int] /\ on'[w] = 1 /\ \A u \in Uuids \ {w} : on'[u] = on[u]
  BY <1>1, <1>3, <1>10
<1>12. PICK x \in {extState[w], "ERROR"} : extState' = [extState EXCEPT ![w] = x]
  <2>1. extState = [extState EXCEPT ![w] = extState[w]]
    BY <1>3
  <2> QED BY <1>1, <1>4, <2>1
<1>13. IsEndOf(h.todo, extensionOrder, h.idx) /\ h.pc # "rebased"
  BY <1>5, <1>6
<1> QED BY <1>1, <1>2, <1>5, <1>6, <1>7, <1>9, <1>11, <1>12, <1>13, RebasesOne DEF f

\* The extension is disabled, and what was enabled after it runs again.
LEMMA DisableDoneKeepsSolo ==
  ASSUME SoloInv, Alone, NEW t \in Tasks, DisableDone(t)
  PROVE  SoloInv'
<1> DEFINE s == Handler
           f == Top(t)
           n == Tail(s)
<1>1. /\ stack[t] # <<>> /\ f.fn = "disable" /\ f.pc = "rebase" /\ f.todo = <<>>
      /\ extensionOrder' = Splice(extensionOrder, f.idx)
      /\ IF extState[f.uuid] = "ERROR" THEN extState' = extState
         ELSE extState' = [extState EXCEPT ![f.uuid] = "INACTIVE"]
      /\ stack' = [stack EXCEPT ![t] = Tail(stack[t])]
      /\ wanted' = wanted /\ mode' = mode /\ on' = on /\ enabledExtensions' = enabledExtensions
  BY DEF DisableDone, At, CanRun, Top, Return, SetState, inputVars
<1>2. Rebases(f)
  BY <1>1 DEF Rebases
<1>3. /\ Solo(s) /\ s = stack[t] /\ s # <<>> /\ f = s[1] /\ f \in Frames
      /\ f.uuid \in Uuids /\ f.idx \in DOMAIN extensionOrder
      /\ extensionOrder[f.idx] = f.uuid /\ ~Due(f.uuid)
      /\ f.uuid \in ToSet(extensionOrder)
      /\ ToSet(s) = {f} \cup Below(s)
      /\ \A g \in Below(s) : g \in Frames /\ g.fn \in {"changed", "enableAll"} /\ ListsAreRight(g)
      /\ Nested(n) /\ ToSet(n) = Below(s)
      /\ n # <<>> => n[1] \in Below(s)
      /\ \A u \in Uuids : /\ StateIsRight(s, u) /\ extState[u] # "ACTIVATING"
                          /\ extState[u] = "DEACTIVATING" => u = f.uuid
      /\ \A m : stack' = [stack EXCEPT ![t] = m] => Handler' = m /\ DOMAIN stack' = Tasks
      /\ extState \in [Uuids -> States] /\ on \in [Uuids -> Int]
      /\ extensionOrder \in Seq(Uuids) /\ IsInjective(extensionOrder)
  BY <1>1, <1>2, SoloRebasing
<1> HIDE DEF s, f
<1>4. PICK w \in Uuids : w = f.uuid
  BY <1>3
<1>5. Handler' = n /\ DOMAIN stack' = Tasks
  BY <1>1, <1>3
<1> HIDE DEF n
<1>6. PICK x \in {"ERROR", "INACTIVE"} : extState' = [extState EXCEPT ![w] = x]
  <2>1. extState[w] = "ERROR" => extState = [extState EXCEPT ![w] = "ERROR"]
    BY <1>3
  <2> QED BY <1>1, <1>4, <2>1
<1>7. extState'[w] = x /\ x \in States
  BY <1>3, <1>6 DEF States
<1>8. /\ extensionOrder' \in Seq(Uuids) /\ IsInjective(extensionOrder')
      /\ ToSet(extensionOrder') = ToSet(extensionOrder) \ {w}
  BY <1>1, <1>3, <1>4, Removed
<1>9. n # <<>> => n[1].fn \in {"changed", "enableAll"}
  BY <1>3
<1>10. (Handler # <<>> => TopIsRight(Handler))'
  BY <1>5, <1>9 DEF TopIsRight, Rebases
<1>11. on'[w] = 0
  <2>1. StateIsRight(s, w) /\ w \in ToSet(extensionOrder) /\ s # <<>> /\ Down(s[1], w)
    BY <1>2, <1>3, <1>4 DEF Down
  <2> QED BY <1>1, <2>1 DEF StateIsRight
<1>12. StateIsRight(Handler, w)'
  <2>1. ~Due(w)'
    BY <1>1, <1>3, <1>4 DEF Due
  <2> QED BY ONLY x \in {"ERROR", "INACTIVE"}, <1>7, <1>8, <1>11, <2>1 DEF StateIsRight
<1>13. \A h \in ToSet(s) : h = f \/ h \in ToSet(n)
  BY <1>3
<1>14. ASSUME NEW u \in Uuids \ {w}
       PROVE  /\ extState[u] # "ACTIVATING"
              /\ extState[u] = "DEACTIVATING" => n # <<>> /\ Rebases(n[1]) /\ n[1].uuid = u
              /\ (n # <<>> /\ Down(n[1], u)) <=> (s # <<>> /\ Down(s[1], u))
              /\ \A h \in ToSet(s) : WillEnable(h, u) => \E k \in ToSet(n) : WillEnable(k, u)
              /\ \A h \in ToSet(s) : WillDisable(h, u) => \E k \in ToSet(n) : WillDisable(k, u)
  <2>1. ~Down(s[1], u)
    BY <1>1, <1>3, <1>4 DEF Down, ToSet
  <2>2. ~(n # <<>> /\ Down(n[1], u))
    BY <1>9 DEF Down, Rebases
  <2>3. ~WillEnable(f, u) /\ ~WillDisable(f, u)
    BY <1>1, <1>4 DEF WillEnable, WillDisable
  <2> QED BY <1>3, <1>4, <1>13, <2>1, <2>2, <2>3
<1>15. \A h \in ToSet(s) : h.fn = "changed" => \E k \in ToSet(n) : k.fn = "changed"
  BY <1>1, <1>13
<1>16. \A h \in ToSet(n) : ListsAreRight(h)
  BY <1>3
<1>17. on' \in [Uuids -> Int] /\ \A u \in Uuids \ {w} : on'[u] = on[u]
  BY <1>1, <1>3
<1>18. \A u \in Uuids \ {w} : u \in ToSet(extensionOrder') <=> u \in ToSet(extensionOrder)
  BY <1>8
<1>19. Solo(Handler)'
  BY <1>1, <1>3, <1>5, <1>6, <1>7, <1>8, <1>10, <1>12, <1>14, <1>15, <1>16, <1>17, <1>18, SoloMovesOne, Zenon DEF s
<1> QED BY <1>5, <1>19 DEF SoloInv

\* The place of an extension in the order.
LEMMA IndexFacts ==
  ASSUME NEW order \in Seq(Uuids), IsInjective(order), NEW u \in ToSet(order)
  PROVE  IndexOf(order, u) \in DOMAIN order /\ order[IndexOf(order, u)] = u
<1>1. DOMAIN order = 1 .. Len(order) /\ Len(order) \in Nat
  OBVIOUS
<1>2. PICK i \in 1 .. Len(order) : order[i] = u
  BY <1>1 DEF ToSet
<1>3. \A j \in 1 .. (i - 1) : order[j] # u
  BY <1>1, <1>2 DEF IsInjective
<1>4. \E k \in 1 .. Len(order) : order[k] = u /\ \A j \in 1 .. (k - 1) : order[j] # u
  BY <1>2, <1>3
<1>5. /\ \E k \in 1 .. Len(order) : order[k] = u
      /\ LET k == CHOOSE k \in 1 .. Len(order) : order[k] = u /\ \A j \in 1 .. (k - 1) : order[j] # u
         IN  k \in 1 .. Len(order) /\ order[k] = u
  BY <1>4
<1> QED BY <1>1, <1>5 DEF IndexOf

\* How many times an extension is in a sequence that has each of its elements once.
LEMMA TimesInside ==
  ASSUME NEW E, NEW s \in Seq(E), IsInjective(s), NEW v
  PROVE  Cardinality({i \in DOMAIN s : s[i] = v}) = IF v \in ToSet(s) THEN 1 ELSE 0
<1> DEFINE P == {i \in DOMAIN s : s[i] = v}
<1>1. CASE v \in ToSet(s)
  <2>1. PICK i \in DOMAIN s : s[i] = v
    BY <1>1 DEF ToSet
  <2>2. P = {i}
    BY <2>1 DEF IsInjective
  <2> QED BY <1>1, <2>2, FS_Singleton
<1>2. CASE v \notin ToSet(s)
  <2>1. P = {}
    BY <1>2 DEF ToSet
  <2> QED BY <1>2, <2>1, FS_EmptySet
<1> QED BY <1>1, <1>2

\* An extension is stopped, and before it those enabled after it.
LEMMA DisableCallKeepsSolo ==
  ASSUME SoloInv, Alone, NEW t \in Tasks, DisableCall(t)
  PROVE  SoloInv'
<1>1. stack[t] # <<>> /\ Top(t).fn = "disable" /\ Top(t).pc = "start"
  BY DEF DisableCall, At, CanRun, Top
<1> DEFINE s == Handler
           f == Top(t)
<1>2. /\ Solo(s) /\ s = stack[t] /\ s # <<>> /\ Nested(s) /\ f = s[1] /\ f \in Frames /\ ListsAreRight(f)
      /\ ToSet(s) = {f} \cup Below(s)
      /\ \A h \in Below(s) : h \in Frames /\ ListsAreRight(h)
      /\ \A m : stack' = [stack EXCEPT ![t] = m] => Handler' = m /\ DOMAIN stack' = Tasks
  BY <1>1, HandlerTop
<1>3. f.uuid \in Uuids /\ Rank(f) = 2
  BY <1>1, <1>2, FrameFacts
<1>4. PICK w \in Uuids : w = f.uuid
  BY <1>3
<1> DEFINE idx == IndexOf(extensionOrder, w)
           todo == SubSeq(extensionOrder, idx + 1, Len(extensionOrder))
           stopped == Append(todo, w)
           g == [fn |-> "disable", pc |-> "rebase", uuid |-> w, idx |-> idx, todo |-> todo]
           n == <<g>> \o Tail(s)
<1>5. /\ extState[w] = "ACTIVE"
      /\ \E F \in SUBSET (Faulty \cap ToSet(stopped)) :
           extState' = [v \in Uuids |-> IF v \in F THEN "ERROR"
                                        ELSE IF v = w THEN "DEACTIVATING"
                                        ELSE extState[v]]
      /\ on' = [v \in Uuids |-> on[v] - Cardinality({i \in DOMAIN stopped : stopped[i] = v})]
      /\ stack' = [stack EXCEPT ![t] = <<g>> \o Tail(stack[t])]
      /\ wanted' = wanted /\ mode' = mode
      /\ extensionOrder' = extensionOrder /\ enabledExtensions' = enabledExtensions
  BY <1>4 DEF DisableCall, Continue, Become, inputVars
<1> HIDE DEF s, f, stopped, todo, idx
<1>6. /\ extState \in [Uuids -> States] /\ on \in [Uuids -> Int]
      /\ extensionOrder \in Seq(Uuids) /\ IsInjective(extensionOrder)
      /\ wanted \subseteq Uuids /\ enabledExtensions \in Seq(Uuids)
      /\ \A u \in Uuids : StateIsRight(s, u)
  BY <1>2 DEF Solo
<1>7. ~Moving(s)
  BY <1>1, <1>2 DEF Moving, Transits, f
<1>8. \A u \in Uuids :
        /\ extState[u] \in {"INITIALIZED", "INACTIVE", "ACTIVE", "ERROR"}
        /\ extState[u] = "ACTIVE" => u \in ToSet(extensionOrder)
        /\ u \in ToSet(extensionOrder) => extState[u] \in {"ACTIVE", "ERROR"} /\ on[u] = 1
        /\ extState[u] \in {"INITIALIZED", "INACTIVE"} => on[u] = 0
  BY <1>2, <1>7, StateAtRest
<1>9. idx \in DOMAIN extensionOrder /\ extensionOrder[idx] = w /\ w \in ToSet(extensionOrder)
  <2>1. w \in ToSet(extensionOrder)
    BY <1>5, <1>8
  <2> QED BY <1>6, <2>1, IndexFacts DEF idx
<1>10. IsEndOf(todo, extensionOrder, idx)
  <2>1. idx \in 1 .. Len(extensionOrder) /\ Len(extensionOrder) \in Nat
    BY <1>6, <1>9
  <2>2. idx + 1 \in (idx + 1) .. (Len(extensionOrder) + 1)
    BY <2>1
  <2> QED BY <2>2 DEF IsEndOf, todo
<1>11. /\ todo \in Seq(Uuids) /\ IsInjective(todo)
       /\ \A u \in ToSet(todo) : u \in ToSet(extensionOrder) /\ u # w
  <2>1. /\ extensionOrder \in Seq(Uuids) /\ IsInjective(extensionOrder) /\ idx \in DOMAIN extensionOrder
        /\ IsEndOf(todo, extensionOrder, idx) /\ extensionOrder[idx] = w
    BY <1>6, <1>9, <1>10
  <2> QED BY ONLY <2>1, EndFacts, Zenon
<1>12. /\ stopped \in Seq(Uuids) /\ IsInjective(stopped)
       /\ ToSet(stopped) = ToSet(todo) \cup {w}
  BY <1>11, Appended DEF stopped
<1>13. \A v : Cardinality({i \in DOMAIN stopped : stopped[i] = v}) = IF v \in ToSet(stopped) THEN 1 ELSE 0
  BY <1>12, TimesInside
<1>14. /\ g.fn = "disable" /\ g.pc = "rebase" /\ g.uuid = w /\ g.idx = idx /\ g.todo = todo
       /\ g \in Frames /\ Rank(g) = 2
  <2>1. idx \in Int
    BY <1>6, <1>9
  <2> QED BY <1>11, <2>1 DEF Frames, Rank
<1>15. Handler' = n /\ DOMAIN stack' = Tasks
  BY <1>2, <1>5
<1> HIDE DEF g
<1>16. Nested(n) /\ n # <<>> /\ n[1] = g /\ ToSet(n) = {g} \cup Below(s)
  BY <1>2, <1>3, <1>14, NestedBecome
<1> HIDE DEF n
<1>17. Rebases(g) /\ \A u : Down(g, u) <=> u \in ToSet(stopped)
  BY <1>12, <1>14 DEF Rebases, Down
<1>18. PICK F \in SUBSET ToSet(stopped) :
         extState' = [v \in Uuids |-> IF v \in F THEN "ERROR"
                                      ELSE IF v = w THEN "DEACTIVATING"
                                      ELSE extState[v]]
  BY <1>5
<1>19. /\ extState' \in [Uuids -> States]
       /\ \A u \in Uuids : extState'[u] = IF u \in F THEN "ERROR"
                                          ELSE IF u = w THEN "DEACTIVATING"
                                          ELSE extState[u]
  BY <1>6, <1>18 DEF States
<1>20. /\ on' \in [Uuids -> Int]
       /\ \A u \in Uuids : on'[u] = on[u] - (IF u \in ToSet(stopped) THEN 1 ELSE 0)
  <2> DEFINE C(v) == Cardinality({i \in DOMAIN stopped : stopped[i] = v})
  <2>1. on' = [v \in Uuids |-> on[v] - C(v)] /\ \A v : C(v) = IF v \in ToSet(stopped) THEN 1 ELSE 0
    BY <1>5, <1>13
  <2> HIDE DEF C
  <2> QED BY <1>6, <2>1
<1>21. ~Due(w) /\ ListsAreRight(g)
  BY <1>1, <1>2, <1>4, <1>14 DEF ListsAreRight, f
<1>22. \A h \in ToSet(n) : ListsAreRight(h)'
  BY <1>2, <1>5, <1>16, <1>21 DEF ListsAreRight, Due
<1>23. (Handler # <<>> => TopIsRight(Handler))'
  <2>1. extState'[w] \in {"DEACTIVATING", "ERROR"}
    BY <1>19
  <2> QED BY <1>5, <1>9, <1>10, <1>14, <1>15, <1>16, <2>1 DEF TopIsRight
<1>24. \A u : /\ ~WillEnable(f, u)
              /\ WillDisable(f, u) => WillDisable(g, u)
  BY <1>1, <1>4, <1>14 DEF WillEnable, WillDisable, f
<1>25. \A h \in ToSet(s) : h = f \/ h \in ToSet(n)
  BY <1>2, <1>16
<1>26. ASSUME NEW u \in Uuids PROVE StateIsRight(Handler, u)'
  <2>1. StateIsRight(s, u)
    BY <1>6
  <2>2. /\ Due(u) => extState[u] \in {"ACTIVE", "ERROR"} \/ \E h \in ToSet(n) : WillEnable(h, u)
        /\ ~Due(u) /\ extState[u] = "ACTIVE" => \E h \in ToSet(n) : WillDisable(h, u)
    BY <1>16, <1>24, <1>25, <2>1 DEF StateIsRight
  <2>3. Due(u)' = Due(u)
    BY <1>5 DEF Due
  <2>4. /\ extState'[u] # "ACTIVATING"
        /\ extState'[u] = "DEACTIVATING" => u = w
        /\ extState'[u] \in {"ACTIVE", "INITIALIZED", "INACTIVE"} => extState'[u] = extState[u]
        /\ extState'[u] # extState[u] => u \in ToSet(stopped)
    BY <1>8, <1>12, <1>19
  <2>5. u \in ToSet(stopped) => u \in ToSet(extensionOrder)
    BY <1>9, <1>11, <1>12
  <2>6. /\ extState'[u] \in {"ACTIVE", "DEACTIVATING"} => u \in ToSet(extensionOrder)
        /\ u \in ToSet(extensionOrder) => /\ extState'[u] \in {"ACTIVE", "DEACTIVATING", "ERROR"}
                                          /\ on'[u] = IF Down(g, u) THEN 0 ELSE 1
        /\ extState'[u] \in {"INITIALIZED", "INACTIVE"} => on'[u] = 0
    BY <1>8, <1>9, <1>12, <1>17, <1>19, <1>20, <2>4, <2>5
  <2>7. /\ Due(u) => extState'[u] \in {"ACTIVE", "ERROR"} \/ \E h \in ToSet(n) : WillEnable(h, u)
        /\ ~Due(u) /\ extState'[u] = "ACTIVE" => \E h \in ToSet(n) : WillDisable(h, u)
    BY <1>19, <1>21, <2>2, <2>4
  <2> QED BY ONLY <1>5, <1>14, <1>15, <1>16, <1>17, <2>3, <2>4, <2>6, <2>7 DEF StateIsRight
<1>27. ToSet(enabledExtensions) = wanted \/ \E h \in ToSet(n) : h.fn = "changed"
  BY <1>1, <1>2, <1>25 DEF Solo, f
<1> QED
  <2>1. Solo(Handler)'
    BY ONLY <1>5, <1>6, <1>15, <1>16, <1>19, <1>20, <1>22, <1>23, <1>26, <1>27 DEF Solo
  <2> QED BY <1>15, <2>1 DEF SoloInv

\* What a handler has read when it starts.
LEMMA ChangedFrameFacts ==
  ASSUME NEW new \in Seq(Uuids), NEW m
  PROVE  LET g == ChangedFrame(new, m)
         IN  /\ g \in Frames /\ g.fn = "changed" /\ g.pc = "enable"
             /\ g.new = new
             /\ ToSet(g.todo) = {u \in ToSet(new) : u \notin ToSet(enabledExtensions) /\ Supports(u, m)}
<1> DEFINE S == {u \in Uuids : u \notin ToSet(enabledExtensions) /\ Supports(u, m)}
           todo == Filter(new, S)
<1>1. ToSet(new) \subseteq Uuids
  BY Contents
<1>2. todo \in Seq(Uuids) /\ ToSet(todo) = ToSet(new) \cap S
  BY FilterFacts
<1>3. ChangedFrame(new, m) = [fn |-> "changed", pc |-> "enable", todo |-> todo, new |-> new]
  BY DEF ChangedFrame, ListFrame
<1> HIDE DEF todo
<1> QED BY <1>1, <1>2, <1>3 DEF Frames

\* The list of the extensions that settings and mode enable.
LEMMA EnabledAreExtensions ==
  ASSUME NEW sets, NEW m
  PROVE  /\ GetEnabledExtensions(sets, m) \in Seq(Uuids)
         /\ ToSet(GetEnabledExtensions(sets, m)) \subseteq Uuids
<1>1. Priority \in Seq(Uuids) /\ Len(Priority) \in Nat /\ \A i \in 1 .. Len(Priority) : Priority[i] \in Uuids
  BY ExtensionsAssumption
<1> DEFINE n == 2 * Len(Priority)
<1>2. n \in Nat /\ \A k \in 1 .. n : (k + 1) \div 2 \in 1 .. Len(Priority)
  BY <1>1
<1>3. Candidates \in [1 .. n -> Uuids]
  BY <1>1, <1>2 DEF Candidates
<1> HIDE DEF n
<1>4. Candidates \in Seq(Uuids)
  BY <1>2, <1>3
<1>5. GetEnabledExtensions(sets, m) \in Seq(Uuids)
  BY <1>4, PickFacts DEF GetEnabledExtensions
<1> QED BY <1>5, Contents

\* A handler starts, and it is to enable what becomes due.
LEMMA StartsSolo ==
  ASSUME SoloInv, Alone, NEW t \in Tasks, stack[t] = <<>>,
         NEW g, g.fn = "changed", g.pc = "enable",
         NEW n, stack' = [stack EXCEPT ![t] = n], Nested(n), n # <<>>, n[1] = g,
         wanted' \subseteq Uuids, extState' = extState, on' = on,
         extensionOrder' = extensionOrder, enabledExtensions' = enabledExtensions,
         ToSet(g.todo) \subseteq wanted', ToSet(g.new) = wanted',
         \A f \in ToSet(n) : f = g \/ (f.fn = "enableAll" /\ ToSet(f.todo) = {}),
         \A u \in Uuids : u \in wanted' /\ Supports(u, mode') =>
           extState[u] \in {"ACTIVE", "ERROR"} \/ \E f \in ToSet(n) : WillEnable(f, u)
  PROVE  SoloInv'
<1> DEFINE s == Handler
<1>1. Solo(s) /\ s = <<>> /\ Handler' = n /\ DOMAIN stack' = Tasks
  BY HandlerIs DEF SoloInv
<1> HIDE DEF s
<1>2. ~Moving(s)
  BY <1>1 DEF Moving
<1>3. g \in ToSet(n)
  BY NestedFacts
<1>4. \A u : ~Down(g, u)
  BY DEF Down, Rebases
<1>5. (Handler # <<>> => TopIsRight(Handler))'
  BY <1>1 DEF TopIsRight, Rebases
<1>6. \A u : WillDisable(g, u)
  BY DEF WillDisable
<1>7. ASSUME NEW u \in Uuids PROVE StateIsRight(Handler, u)'
  <2>1. /\ extState[u] \in {"INITIALIZED", "INACTIVE", "ACTIVE", "ERROR"}
        /\ extState[u] = "ACTIVE" => u \in ToSet(extensionOrder)
        /\ u \in ToSet(extensionOrder) => extState[u] \in {"ACTIVE", "ERROR"} /\ on[u] = 1
        /\ extState[u] \in {"INITIALIZED", "INACTIVE"} => on[u] = 0
    BY <1>1, <1>2, StateAtRest
  <2>2. /\ extState' = extState /\ on' = on /\ extensionOrder' = extensionOrder /\ n[1] = g
        /\ Due(u)' => extState[u] \in {"ACTIVE", "ERROR"} \/ \E f \in ToSet(n) : WillEnable(f, u)
    BY DEF Due
  <2> QED BY ONLY <1>1, <1>3, <1>4, <1>6, <2>1, <2>2 DEF StateIsRight
<1>8. /\ enabledExtensions \in Seq(Uuids) /\ extState \in [Uuids -> States] /\ on \in [Uuids -> Int]
      /\ extensionOrder \in Seq(Uuids) /\ IsInjective(extensionOrder)
  BY <1>1 DEF Solo
<1>9. \A f \in ToSet(n) : ListsAreRight(f)'
  BY DEF ListsAreRight
<1> QED
  <2>1. Solo(Handler)'
    BY <1>1, <1>3, <1>5, <1>7, <1>8, <1>9 DEF Solo
  <2> QED BY <1>1, <2>1 DEF SoloInv

\* What holds when no handler is under way.
LEMMA SoloSettled ==
  ASSUME SoloInv, Alone, NEW t \in Tasks, stack[t] = <<>>
  PROVE  /\ wanted \subseteq Uuids /\ ToSet(enabledExtensions) = wanted
         /\ \A u \in Uuids : Due(u) => extState[u] \in {"ACTIVE", "ERROR"}
<1>1. Solo(Handler) /\ Handler = <<>>
  BY HandlerIs DEF SoloInv
<1>2. ToSet(Handler) = {}
  BY <1>1 DEF ToSet
<1>3. \A u \in Uuids : StateIsRight(Handler, u)
  BY <1>1 DEF Solo
<1>4. \A u \in Uuids : Due(u) => extState[u] \in {"ACTIVE", "ERROR"}
  BY <1>2, <1>3 DEF StateIsRight
<1> QED BY <1>1, <1>2, <1>4 DEF Solo

\* The settings change.
LEMMA SettingsChangeKeepsSolo ==
  ASSUME SoloInv, Alone, NEW t \in Tasks, NEW sets, SettingsChange(t, sets)
  PROVE  SoloInv'
<1> DEFINE new == GetEnabledExtensions(sets, mode)
           w == ToSet(new)
<1>1. /\ stack[t] = <<>> /\ wanted' = w /\ mode' = mode
      /\ stack' = [stack EXCEPT ![t] = <<ChangedFrame(new, mode)>>]
      /\ extState' = extState /\ on' = on
      /\ extensionOrder' = extensionOrder /\ enabledExtensions' = enabledExtensions
  BY DEF SettingsChange, managerVars
<1>2. ToSet(enabledExtensions) = wanted /\ \A u \in Uuids : Due(u) => extState[u] \in {"ACTIVE", "ERROR"}
  BY <1>1, SoloSettled
<1>3. new \in Seq(Uuids) /\ w \subseteq Uuids
  BY EnabledAreExtensions
<1> HIDE DEF new
<1>4. PICK g \in Frames :
        /\ g = ChangedFrame(new, mode) /\ g.fn = "changed" /\ g.pc = "enable" /\ g.new = new
        /\ ToSet(g.todo) = {u \in w : u \notin ToSet(enabledExtensions) /\ Supports(u, mode)}
  BY <1>3, ChangedFrameFacts
<1> HIDE DEF w
<1>5. ToSet(g.new) = w
  BY <1>4 DEF w
<1> DEFINE n == <<g>>
<1>6. stack' = [stack EXCEPT ![t] = n] /\ n # <<>> /\ n[1] = g /\ ToSet(n) = {g}
  BY <1>1, <1>4 DEF ToSet
<1>7. Nested(n)
  BY DEF Nested
<1> HIDE DEF n
<1>8. /\ ToSet(g.todo) \subseteq wanted' /\ ToSet(g.new) = wanted'
      /\ \A f \in ToSet(n) : f = g \/ (f.fn = "enableAll" /\ ToSet(f.todo) = {})
  BY <1>1, <1>4, <1>5, <1>6
<1>9. \A u \in Uuids : u \in wanted' /\ Supports(u, mode') =>
        extState[u] \in {"ACTIVE", "ERROR"} \/ \E f \in ToSet(n) : WillEnable(f, u)
  <2> SUFFICES ASSUME NEW u \in Uuids, u \in wanted', Supports(u, mode')
               PROVE  extState[u] \in {"ACTIVE", "ERROR"} \/ \E f \in ToSet(n) : WillEnable(f, u)
    OBVIOUS
  <2>1. u \in w /\ Supports(u, mode)
    BY <1>1
  <2>2. CASE u \in wanted
    BY <1>2, <2>1, <2>2 DEF Due
  <2>3. CASE u \notin wanted
    BY <1>2, <1>4, <1>6, <2>1, <2>3 DEF WillEnable
  <2> QED BY <2>2, <2>3
<1>10. wanted' \subseteq Uuids
  BY <1>1, <1>3
<1> QED BY <1>1, <1>4, <1>6, <1>7, <1>8, <1>9, <1>10, StartsSolo, Zenon

\* The session mode changes, and all are to be enabled that it allows.
LEMMA SessionChangeKeepsSolo ==
  ASSUME SoloInv, Alone, NEW t \in Tasks, NEW m \in Modes, SessionChange(t, m)
  PROVE  SoloInv'
<1> DEFINE ea == ListFrame("enableAll", "start", <<>>, <<>>)
<1> DEFINE new == GetEnabledExtensions(setting, m)
           w == ToSet(new)
<1>1. /\ stack[t] = <<>> /\ wanted' = w
      /\ stack' = [stack EXCEPT ![t] = <<ChangedFrame(new, m), ea>>]
      /\ extState' = extState /\ on' = on
      /\ extensionOrder' = extensionOrder /\ enabledExtensions' = enabledExtensions
  BY DEF SessionChange, managerVars
<1>2. new \in Seq(Uuids) /\ w \subseteq Uuids
  BY EnabledAreExtensions
<1> HIDE DEF new
<1>3. PICK g \in Frames :
        /\ g = ChangedFrame(new, m) /\ g.fn = "changed" /\ g.pc = "enable" /\ g.new = new
        /\ ToSet(g.todo) = {u \in w : u \notin ToSet(enabledExtensions) /\ Supports(u, m)}
  BY <1>2, ChangedFrameFacts
<1>4. ea \in Frames /\ ea.fn = "enableAll" /\ ea.pc = "start" /\ ToSet(ea.todo) = {}
  BY DEF ListFrame, Frames, ToSet
<1> HIDE DEF ea
<1> DEFINE n == <<g, ea>>
<1>5. stack' = [stack EXCEPT ![t] = n] /\ n # <<>> /\ n[1] = g /\ ToSet(n) = {g, ea}
  BY <1>1, <1>3 DEF ToSet
<1>6. Nested(n)
  <2>1. Rank(g) = 3 /\ Rank(ea) = 4 /\ Waits(ea)
    BY <1>3, <1>4, FrameFacts DEF Waits
  <2>2. n \in Seq(Frames) /\ DOMAIN n = 1 .. 2 /\ n[1] = g /\ n[2] = ea
    BY <1>4
  <2> QED BY <2>1, <2>2 DEF Nested
<1> HIDE DEF n
<1>7. /\ ToSet(g.todo) \subseteq wanted' /\ ToSet(g.new) = wanted'
      /\ \A f \in ToSet(n) : f = g \/ (f.fn = "enableAll" /\ ToSet(f.todo) = {})
  BY <1>1, <1>3, <1>4, <1>5
<1>8. \A u : WillEnable(ea, u)
  BY <1>4 DEF WillEnable
<1>9. \A u \in Uuids : u \in wanted' /\ Supports(u, mode') =>
        extState[u] \in {"ACTIVE", "ERROR"} \/ \E f \in ToSet(n) : WillEnable(f, u)
  BY <1>5, <1>8
<1>10. wanted' \subseteq Uuids
  BY <1>1, <1>2
<1>11. /\ stack[t] = <<>> /\ g.fn = "changed" /\ g.pc = "enable"
       /\ extState' = extState /\ on' = on
       /\ extensionOrder' = extensionOrder /\ enabledExtensions' = enabledExtensions
  BY <1>1, <1>3
<1> QED BY <1>5, <1>6, <1>7, <1>9, <1>10, <1>11, StartsSolo, Zenon

\* Nothing is under way at first.
LEMMA SoloInit == ASSUME Init PROVE SoloInv
<1>1. Handler = <<>>
  BY DEF Init, Handler
<1>2. /\ wanted = {} /\ enabledExtensions = <<>> /\ extensionOrder = <<>>
      /\ on \in [Uuids -> Int] /\ \A u \in Uuids : on[u] = 0
      /\ DOMAIN stack = Tasks
  BY DEF Init
<1>3. extState \in [Uuids -> States] /\ \A u \in Uuids : extState[u] \in {"INITIALIZED", "INACTIVE"}
  BY ExtensionsAssumption DEF Init, States
<1>4. ToSet(<<>>) = {} /\ IsInjective(<<>>) /\ <<>> \in Seq(Uuids) /\ Nested(<<>>)
  BY DEF ToSet, IsInjective, Nested
<1>5. \A u \in Uuids : StateIsRight(<<>>, u)
  BY <1>2, <1>3, <1>4 DEF StateIsRight, Due
<1> QED BY <1>1, <1>2, <1>3, <1>4, <1>5 DEF SoloInv, Solo

\* A step that changes nothing the handler relies on.
LEMMA SoloStutters == ASSUME SoloInv, UNCHANGED vars PROVE SoloInv'
<1>1. /\ wanted' = wanted /\ mode' = mode /\ extState' = extState /\ on' = on
      /\ extensionOrder' = extensionOrder /\ enabledExtensions' = enabledExtensions /\ stack' = stack
  BY DEF vars, inputVars, managerVars
<1>2. Handler' = Handler
  BY <1>1 DEF Handler
<1> DEFINE s == Handler
<1>3. Solo(s) /\ DOMAIN stack' = Tasks
  BY <1>1 DEF SoloInv
<1>4. \A f \in ToSet(s) : ListsAreRight(f)'
  BY <1>1, <1>3 DEF Solo, ListsAreRight, Due
<1>5. (Handler # <<>> => TopIsRight(Handler))'
  <2>1. s # <<>> => TopIsRight(s)
    BY <1>3 DEF Solo
  <2> QED BY <1>1, <1>2, <2>1 DEF TopIsRight
<1>6. ASSUME NEW u \in Uuids PROVE StateIsRight(Handler, u)'
  <2>1. StateIsRight(s, u)
    BY <1>3 DEF Solo
  <2>2. Due(u)' = Due(u)
    BY <1>1 DEF Due
  <2> QED BY ONLY <1>1, <1>2, <2>1, <2>2 DEF StateIsRight
<1> QED
  <2>1. Solo(Handler)'
    BY <1>1, <1>2, <1>3, <1>4, <1>5, <1>6 DEF Solo
  <2> QED BY <1>3, <2>1 DEF SoloInv

\* One handler at a time: its frames tell how far it is, and what it has not yet done
\* is all that is between the extensions and the settings.
THEOREM SoloIsKept == Alone => (Spec => []SoloInv)
<1> SUFFICES ASSUME Alone PROVE Spec => []SoloInv
  OBVIOUS
<1>1. Init => SoloInv
  BY SoloInit
<1>2. SoloInv /\ [Next]_vars => SoloInv'
  <2> SUFFICES ASSUME SoloInv, [Next]_vars PROVE SoloInv'
    OBVIOUS
  <2>1. ASSUME NEW t \in Tasks, Step(t) PROVE SoloInv'
    <3>1. CASE EnableUnsupported(t) \/ EnableNotInactive(t) \/ DisableNotActive(t) \/ EnableAllDone(t)
      BY <3>1, ReturnsKeepSolo
    <3>2. CASE ChangedEnableNext(t) \/ ChangedDisableNext(t) \/ EnableAllNext(t)
      BY <3>2, CallsKeepSolo
    <3>3. CASE ChangedEnabled(t) \/ EnableAllStart(t)
      BY <3>3, NextListKeepsSolo
    <3>4. CASE EnableInit(t)
      BY <3>4, EnableInitKeepsSolo
    <3>5. CASE InitDone(t)
      BY <3>5, InitDoneKeepsSolo
    <3>6. CASE EnableCall(t)
      BY <3>6, EnableCallKeepsSolo
    <3>7. CASE EnableDone(t)
      BY <3>7, EnableDoneKeepsSolo
    <3>8. CASE DisableCall(t)
      BY <3>8, DisableCallKeepsSolo
    <3>9. CASE RebaseCall(t)
      BY <3>9, RebaseCallKeepsSolo
    <3>10. CASE RebaseDone(t)
      BY <3>10, RebaseDoneKeepsSolo
    <3>11. CASE DisableDone(t)
      BY <3>11, DisableDoneKeepsSolo
    <3>12. CASE ChangedDone(t)
      BY <3>12, ChangedDoneKeepsSolo
    <3> QED BY <2>1, <3>1, <3>2, <3>3, <3>4, <3>5, <3>6, <3>7, <3>8, <3>9, <3>10, <3>11, <3>12 DEF Step
  <2>2. ASSUME NEW t \in Tasks, NEW sets \in [Uuids -> Settings], SettingsChange(t, sets) PROVE SoloInv'
    BY <2>2, SettingsChangeKeepsSolo
  <2>3. ASSUME NEW t \in Tasks, NEW m \in Modes, SessionChange(t, m) PROVE SoloInv'
    BY <2>3, SessionChangeKeepsSolo
  <2>4. CASE UNCHANGED vars
    BY <2>4, SoloStutters
  <2> QED BY <2>1, <2>2, <2>3, <2>4 DEF Next
<1> QED BY <1>1, <1>2, PTL DEF Spec

\* Rebasing keeps the extensions stacked: while one handler runs at a time, an
\* extension that runs has all that were enabled before it running under it.
THEOREM ExtensionsAreStacked == Alone => (Spec => []Stacked)
<1> SUFFICES ASSUME Alone PROVE Spec => []Stacked
  OBVIOUS
<1>1. SoloInv => Stacked
  <2> DEFINE s == Handler
             o == extensionOrder
             f == s[1]
             left == IF f.pc = "rebased" THEN Tail(f.todo) ELSE f.todo
  <2> SUFFICES ASSUME SoloInv, NEW i \in 1 .. Len(o), NEW j \in 1 .. Len(o), i < j, on[o[j]] = 1
               PROVE  on[o[i]] = 1 \/ extState[o[i]] \in {"DEACTIVATING", "ERROR"}
    BY DEF Stacked
  <2>1. /\ Solo(s) /\ o \in Seq(Uuids) /\ IsInjective(o) /\ DOMAIN o = 1 .. Len(o)
        /\ s # <<>> => TopIsRight(s)
    BY DEF SoloInv, Solo
  <2> HIDE DEF s, o
  <2>2. \A k \in 1 .. Len(o) : /\ o[k] \in Uuids /\ o[k] \in ToSet(o)
                               /\ on[o[k]] = IF s # <<>> /\ Down(f, o[k]) THEN 0 ELSE 1
    <3>1. \A k \in 1 .. Len(o) : o[k] \in Uuids /\ o[k] \in ToSet(o)
      BY <2>1 DEF ToSet
    <3> QED BY <2>1, <3>1 DEF Solo, StateIsRight, o
  <2>3. CASE ~(s # <<>> /\ Down(f, o[i]))
    BY <2>2, <2>3
  <2>4. CASE s # <<>> /\ Down(f, o[i])
    <3> HIDE DEF f
    <3>1. /\ Rebases(f) /\ extState[f.uuid] \in {"DEACTIVATING", "ERROR"}
          /\ f.idx \in DOMAIN o /\ IsEndOf(f.todo, o, f.idx)
          /\ f.pc = "rebased" => f.todo # <<>>
      BY <2>1, <2>4 DEF TopIsRight, Down, Rebases, f, o
    <3>2. IsEndOf(left, o, f.idx)
      <4>1. f.todo # <<>> => IsEndOf(Tail(f.todo), o, f.idx)
        BY ONLY <2>1, <3>1, EndFacts, Zenon
      <4> QED BY <3>1, <4>1
    <3> HIDE DEF left
    <3>3. o[i] \in ToSet(left) => o[j] \in ToSet(left)
      BY <2>1, <3>1, <3>2, EndGoesOn
    <3>4. CASE o[i] = f.uuid
      BY <3>1, <3>4
    <3>5. CASE o[i] \in ToSet(left)
      <4>1. o[j] \in ToSet(left)
        BY <2>1, <3>3, <3>5
      <4>2. Down(f, o[j])
        BY <3>1, <4>1 DEF Down, left
      <4> QED BY <2>2, <2>4, <4>2 DEF f
    <3> QED BY <2>4, <3>4, <3>5 DEF Down, left
  <2> QED BY <2>3, <2>4
<1>2. Spec => []SoloInv
  BY SoloIsKept
<1> QED BY <1>1, <1>2, PTL

\* And once the handler is done, the extensions that run are those that the settings
\* want and the session mode allows, unless their code threw.
THEOREM SettledAlwaysMatches == Alone => (Spec => []SettledMatchesSettings)
<1> SUFFICES ASSUME Alone PROVE Spec => []SettledMatchesSettings
  OBVIOUS
<1>1. SoloInv => SettledMatchesSettings
  <2> SUFFICES ASSUME SoloInv, Settled
               PROVE  /\ IsInjective(extensionOrder)
                      /\ \A u \in Uuids : extState[u] # "ERROR" =>
                           /\ extState[u] = "ACTIVE" <=> u \in wanted /\ Supports(u, mode)
                           /\ extState[u] \in {"INITIALIZED", "INACTIVE", "ACTIVE"}
                           /\ on[u] = IF extState[u] = "ACTIVE" THEN 1 ELSE 0
                           /\ extState[u] = "ACTIVE" <=> u \in ToSet(extensionOrder)
    BY DEF SettledMatchesSettings
  <2>1. Solo(Handler) /\ Handler = <<>>
    BY DEF SoloInv, Settled, Handler
  <2>2. ~Moving(Handler) /\ ToSet(Handler) = {}
    BY <2>1 DEF Moving, ToSet
  <2>3. ASSUME NEW u \in Uuids, extState[u] # "ERROR"
        PROVE  /\ extState[u] = "ACTIVE" <=> Due(u)
               /\ extState[u] \in {"INITIALIZED", "INACTIVE", "ACTIVE"}
               /\ on[u] = IF extState[u] = "ACTIVE" THEN 1 ELSE 0
               /\ extState[u] = "ACTIVE" <=> u \in ToSet(extensionOrder)
    <3>1. StateIsRight(Handler, u)
      BY <2>1 DEF Solo
    <3>2. /\ extState[u] \in {"INITIALIZED", "INACTIVE", "ACTIVE", "ERROR"}
          /\ extState[u] = "ACTIVE" => u \in ToSet(extensionOrder)
          /\ u \in ToSet(extensionOrder) => extState[u] \in {"ACTIVE", "ERROR"} /\ on[u] = 1
          /\ extState[u] \in {"INITIALIZED", "INACTIVE"} => on[u] = 0
      BY <2>1, <2>2, StateAtRest
    <3>3. extState[u] = "ACTIVE" <=> Due(u)
      BY <2>2, <2>3, <3>1 DEF StateIsRight
    <3> QED BY <2>3, <3>2, <3>3
  <2>4. IsInjective(extensionOrder)
    BY <2>1 DEF Solo
  <2> QED BY <2>3, <2>4 DEF Due
<1>2. Spec => []SoloInv
  BY SoloIsKept
<1> QED BY <1>1, <1>2, PTL

=============================================================================
