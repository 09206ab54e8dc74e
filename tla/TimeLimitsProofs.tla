-------------------------- MODULE TimeLimitsProofs --------------------------
(***************************************************************************)
(* Three proofs.  The history that is stored can be loaded: through        *)
(* restarts, crashes, failed writes, sleep and clock steps the times in    *)
(* the file never decrease.  The timer of the limit is armed: no later     *)
(* than the time the limit is reached by the history there is, whatever    *)
(* part of it was lost; this takes what the operators of the active time   *)
(* do as a second passes and as the history is trimmed.  And as long as    *)
(* nothing was lost the history says of every second whether the user was  *)
(* active in it, so that the active time, the time the limit was reached   *)
(* and the state LIMIT_REACHED are those of the user's real activity.      *)
(***************************************************************************)
EXTENDS TimeLimits, FiniteSetTheorems, TLAPS

---------------------------------------------------------------------------
(* The elements of a sequence at some of its indices.                      *)

\* Indices of I are ranked from 1 to their number, without gaps.
LEMMA RanksAreThere ==
  ASSUME NEW n \in Nat, NEW I \in SUBSET (1 .. n)
  PROVE  /\ IsFiniteSet(I) /\ Cardinality(I) \in Nat
         /\ \A i \in I : Rank(I, i) \in 1 .. Cardinality(I)
         /\ \A i, j \in I : i < j => Rank(I, i) < Rank(I, j)
         /\ \A k \in 1 .. Cardinality(I) : \E i \in I : Rank(I, i) = k
<1> DEFINE U(i) == {j \in I : j <= i}
           c == Cardinality(I)
<1>0. \A i \in I : i \in Nat
  OBVIOUS
<1>1. IsFiniteSet(1 .. n)
  BY FS_Interval
<1>2. IsFiniteSet(I)
  BY <1>1, FS_Subset
<1>3. c \in Nat
  BY <1>2, FS_CardinalityType
<1>4. \A i \in I : IsFiniteSet(U(i)) /\ Cardinality(U(i)) \in Nat /\ Cardinality(U(i)) <= c
  <2> SUFFICES ASSUME NEW i \in I
               PROVE  IsFiniteSet(U(i)) /\ Cardinality(U(i)) \in Nat /\ Cardinality(U(i)) <= c
    OBVIOUS
  <2>1. U(i) \in SUBSET I
    OBVIOUS
  <2>2. IsFiniteSet(U(i)) /\ Cardinality(U(i)) <= c
    BY ONLY <1>2, <2>1, FS_Subset
  <2> QED BY <2>2, FS_CardinalityType
<1>5. \A i \in I : Cardinality(U(i)) # 0
  <2> SUFFICES ASSUME NEW i \in I PROVE Cardinality(U(i)) # 0
    OBVIOUS
  <2>1. i \in U(i)
    OBVIOUS
  <2> QED BY <1>4, <2>1, FS_EmptySet
<1>6. \A i, j \in I : i < j => Cardinality(U(i)) < Cardinality(U(j))
  <2> SUFFICES ASSUME NEW i \in I, NEW j \in I, i < j
               PROVE  Cardinality(U(i)) < Cardinality(U(j))
    OBVIOUS
  <2>0. \A x \in I : x <= i => x <= j
    BY <1>0
  <2>1. U(i) \in SUBSET U(j) /\ j \in U(j) /\ j \notin U(i)
    <3>1. \A x \in U(i) : x \in U(j)
      BY <2>0
    <3>2. j \in U(j)
      BY <1>0
    <3>3. j \notin U(i)
      BY <1>0
    <3> HIDE DEF U
    <3> QED BY <3>1, <3>2, <3>3
  <2>2. IsFiniteSet(U(j))
    BY <1>4
  <2>3. Cardinality(U(i)) <= Cardinality(U(j)) /\ Cardinality(U(i)) # Cardinality(U(j))
    <3> HIDE DEF U
    <3> QED BY ONLY <2>1, <2>2, FS_Subset
  <2> HIDE DEF U
  <2> QED BY <1>4, <2>3
<1> DEFINE f == [i \in I |-> Cardinality(U(i))]
<1>7. f \in [I -> 1 .. c] /\ \A i \in I : f[i] = Cardinality(U(i))
  <2> HIDE DEF U, c
  <2> QED BY <1>3, <1>4, <1>5
<1>8. \A i, j \in I : f[i] = f[j] => i = j
  <2> HIDE DEF U, f, c
  <2> QED BY <1>0, <1>4, <1>6, <1>7
<1>9. IsFiniteSet(1 .. c) /\ Cardinality(1 .. c) = c
  BY <1>3, FS_Interval
<1> HIDE DEF f
<1>10. f \in Injection(I, 1 .. c)
  BY <1>7, <1>8 DEF Injection, IsInjective
<1>11. f \in Surjection(I, 1 .. c)
  BY <1>9, <1>10, FS_Injection
<1>12. \A k \in 1 .. c : \E i \in I : Cardinality(U(i)) = k
  BY <1>7, <1>11 DEF Surjection
<1> QED
  BY <1>2, <1>3, <1>6, <1>7, <1>12 DEF Rank

\* What is picked of s is in s, and in the order of s.
LEMMA PickFacts ==
  ASSUME NEW E, NEW s \in Seq(E), NEW I \in SUBSET DOMAIN s
  PROVE  /\ Pick(s, I) \in Seq(E)
         /\ \A a \in DOMAIN Pick(s, I) : \E i \in I : Pick(s, I)[a] = s[i]
         /\ \A a, b \in DOMAIN Pick(s, I) : a < b =>
              \E i, j \in I : i < j /\ Pick(s, I)[a] = s[i] /\ Pick(s, I)[b] = s[j]
<1> DEFINE c == Cardinality(I)
           at(k) == CHOOSE i \in I : Rank(I, i) = k
           t == [k \in 1 .. c |-> s[at(k)]]
<1>1. Len(s) \in Nat /\ DOMAIN s = 1 .. Len(s) /\ \A i \in DOMAIN s : s[i] \in E
  OBVIOUS
<1>2. /\ c \in Nat
      /\ \A i \in I : Rank(I, i) \in 1 .. c
      /\ \A i, j \in I : i < j => Rank(I, i) < Rank(I, j)
      /\ \A k \in 1 .. c : \E i \in I : Rank(I, i) = k
  BY <1>1, RanksAreThere
<1>3. \A k \in 1 .. c : at(k) \in I /\ Rank(I, at(k)) = k
  BY <1>2
<1>4. \A k \in 1 .. c : at(k) \in DOMAIN s /\ at(k) \in Nat
  BY <1>1, <1>3
<1>5. Pick(s, I) = t
  BY DEF Pick
<1> HIDE DEF at, c
<1>6. DOMAIN t = 1 .. c /\ \A k \in 1 .. c : t[k] = s[at(k)] /\ t[k] \in E
  BY <1>1, <1>4
<1>7. t \in Seq(E)
  <2>1. t \in [1 .. c -> E]
    BY <1>1, <1>4
  <2> HIDE DEF t
  <2> QED BY <1>2, <2>1
<1>8. \A a, b \in 1 .. c : a < b => at(a) < at(b)
  <2> SUFFICES ASSUME NEW a \in 1 .. c, NEW b \in 1 .. c, a < b, ~(at(a) < at(b)) PROVE FALSE
    OBVIOUS
  <2>1. at(a) \in Nat /\ at(b) \in Nat /\ at(a) \in I /\ at(b) \in I
    BY <1>3, <1>4
  <2>2. Rank(I, at(a)) = a /\ Rank(I, at(b)) = b
    BY <1>3
  <2>3. at(b) = at(a) \/ at(b) < at(a)
    BY <2>1
  <2>4. at(b) < at(a) => b < a
    BY <1>2, <2>1, <2>2
  <2> QED BY <2>2, <2>3, <2>4
<1> HIDE DEF t
<1>9. /\ \A a \in DOMAIN t : \E i \in I : t[a] = s[i]
      /\ \A a, b \in DOMAIN t : a < b => \E i, j \in I : i < j /\ t[a] = s[i] /\ t[b] = s[j]
  BY <1>3, <1>6, <1>8
<1> QED
  BY <1>5, <1>7, <1>9

---------------------------------------------------------------------------
(* Times in order.                                                         *)

TimedEntries == [new : {"ACTIVE", "INACTIVE"}, time : Int]

\* The times of s never decrease, nor are they after t.
Sorted(s) == \A i, j \in DOMAIN s : i < j => s[i].time <= s[j].time
InOrder(s, t) == Sorted(s) /\ \A i \in DOMAIN s : s[i].time <= t

\* The entries of a history and their times.
LEMMA EntryFacts ==
  ASSUME NEW s \in Seq(TimedEntries)
  PROVE  /\ DOMAIN s = 1 .. Len(s) /\ Len(s) \in Nat
         /\ \A i \in DOMAIN s : s[i] \in TimedEntries /\ s[i].time \in Int
<1>1. DOMAIN s = 1 .. Len(s) /\ Len(s) \in Nat /\ \A i \in DOMAIN s : s[i] \in TimedEntries
  OBVIOUS
<1>2. \A e \in TimedEntries : e.time \in Int
  BY DEF TimedEntries
<1> QED BY <1>1, <1>2

\* Leaving entries out keeps the order.
LEMMA PickInOrder ==
  ASSUME NEW s \in Seq(TimedEntries), NEW I \in SUBSET DOMAIN s, NEW t, InOrder(s, t)
  PROVE  Pick(s, I) \in Seq(TimedEntries) /\ InOrder(Pick(s, I), t)
<1> DEFINE p == Pick(s, I)
<1>1. /\ p \in Seq(TimedEntries)
      /\ \A a \in DOMAIN p : \E i \in I : p[a] = s[i]
      /\ \A a, b \in DOMAIN p : a < b => \E i, j \in I : i < j /\ p[a] = s[i] /\ p[b] = s[j]
  BY PickFacts
<1> HIDE DEF p
<1>2. \A i \in I : i \in DOMAIN s
  OBVIOUS
<1>3. InOrder(p, t)
  BY <1>1, <1>2 DEF InOrder, Sorted
<1> QED BY <1>1, <1>3 DEF p

\* The trimming keeps the order.
LEMMA TrimInOrder ==
  ASSUME NEW s \in Seq(TimedEntries), NEW t, InOrder(s, t)
  PROVE  Trim(s, t) \in Seq(TimedEntries) /\ InOrder(Trim(s, t), t)
<1> DEFINE p == Pick(s, KeptAt(s, t))
<1>1. KeptAt(s, t) \in SUBSET DOMAIN s
  BY DEF KeptAt
<1>2. p \in Seq(TimedEntries) /\ InOrder(p, t)
  BY <1>1, PickInOrder
<1>3. Trim(s, t) = Pick(p, DOMAIN p \ Cancelling(p))
  BY DEF Trim, DropPairs
<1> HIDE DEF p
<1>4. DOMAIN p \ Cancelling(p) \in SUBSET DOMAIN p
  OBVIOUS
<1> QED BY <1>2, <1>3, <1>4, PickInOrder

\* What is loaded is in order whatever the file says, and not of the future.
LEMMA LoadedInOrder ==
  ASSUME NEW s \in Seq(TimedEntries), NEW t \in Int
  PROVE  Loaded(s, t) \in Seq(TimedEntries) /\ InOrder(Loaded(s, t), t)
<1> DEFINE I == WellFormed(s, t) \cap KeptAt(s, t)
           p == Pick(s, I)
<1>1. I \in SUBSET DOMAIN s
  BY DEF KeptAt
<1>2. /\ p \in Seq(TimedEntries)
      /\ \A a \in DOMAIN p : \E i \in I : p[a] = s[i]
      /\ \A a, b \in DOMAIN p : a < b => \E i, j \in I : i < j /\ p[a] = s[i] /\ p[b] = s[j]
  <2> HIDE DEF I
  <2> QED BY <1>1, PickFacts
<1>3. \A i \in I : s[i].time <= t
  BY DEF KeptAt
<1>4. \A i, j \in I : i < j => s[i].time <= s[j].time
  <2> SUFFICES ASSUME NEW i \in I, NEW j \in I, i < j PROVE s[i].time <= s[j].time
    OBVIOUS
  <2>1. j \in 1 .. j
    BY <1>1
  <2> QED BY <2>1 DEF WellFormed
<1>5. Loaded(s, t) = p
  BY DEF Loaded
<1> HIDE DEF p, I
<1>6. InOrder(p, t)
  BY <1>2, <1>3, <1>4 DEF InOrder, Sorted
<1> QED BY <1>2, <1>5, <1>6

\* So does a transition that happens now.
LEMMA AppendInOrder ==
  ASSUME NEW s \in Seq(TimedEntries), NEW t \in Int, InOrder(s, t),
         NEW new \in {"ACTIVE", "INACTIVE"}
  PROVE  LET r == Append(s, Entry(new, t))
         IN  r \in Seq(TimedEntries) /\ InOrder(r, t)
<1> DEFINE e == Entry(new, t)
           r == Append(s, e)
<1>1. e \in TimedEntries /\ e.time = t
  BY DEF Entry, TimedEntries
<1> HIDE DEF e
<1>2. /\ r \in Seq(TimedEntries) /\ DOMAIN s = 1 .. Len(s) /\ DOMAIN r = 1 .. (Len(s) + 1) /\ Len(s) \in Nat
      /\ r[Len(s) + 1] = e /\ \A i \in 1 .. Len(s) : r[i] = s[i]
  BY <1>1
<1> HIDE DEF r
<1>3. \A i \in DOMAIN r : i \in DOMAIN s \/ r[i] = e
  BY <1>2
<1>4. \A i \in DOMAIN r : r[i].time <= t
  BY <1>1, <1>2, <1>3 DEF InOrder, Sorted
<1>5. ASSUME NEW i \in DOMAIN r, NEW j \in DOMAIN r, i < j
      PROVE  r[i].time <= r[j].time
  <2>1. i \in DOMAIN s /\ r[i] = s[i]
    BY <1>2, <1>5
  <2>2. CASE j \in DOMAIN s
    BY <1>2, <1>5, <2>1, <2>2 DEF InOrder, Sorted
  <2>3. CASE r[j] = e
    BY <1>1, <1>4, <2>3
  <2> QED BY <1>3, <2>2, <2>3
<1> QED BY <1>2, <1>4, <1>5 DEF InOrder, Sorted, r, e

\* Adjusting all times for a clock step shifts them alike.
LEMMA AdjustInOrder ==
  ASSUME NEW s \in Seq(TimedEntries), NEW t \in Int, NEW d \in Int, InOrder(s, t)
  PROVE  AdjustAllTimes(s, d) \in Seq(TimedEntries) /\ InOrder(AdjustAllTimes(s, d), t + d)
<1> DEFINE r == AdjustAllTimes(s, d)
<1>1. DOMAIN s = 1 .. Len(s) /\ Len(s) \in Nat /\ \A i \in DOMAIN s : s[i] \in TimedEntries /\ s[i].time \in Int
  BY EntryFacts
<1>a. \A e \in TimedEntries : /\ [e EXCEPT !.time = e.time + d] \in TimedEntries
                              /\ [e EXCEPT !.time = e.time + d].time = e.time + d
  BY DEF TimedEntries
<1>2. \A i \in DOMAIN s : /\ [s[i] EXCEPT !.time = s[i].time + d] \in TimedEntries
                          /\ [s[i] EXCEPT !.time = s[i].time + d].time = s[i].time + d
  BY <1>1, <1>a
<1>3. r = [i \in 1 .. Len(s) |-> [s[i] EXCEPT !.time = s[i].time + d]]
  BY <1>1 DEF AdjustAllTimes
<1> HIDE DEF r
<1>4. /\ DOMAIN r = DOMAIN s /\ r \in [1 .. Len(s) -> TimedEntries]
      /\ \A i \in DOMAIN s : r[i].time = s[i].time + d
  BY <1>1, <1>2, <1>3
<1>5. r \in Seq(TimedEntries)
  BY <1>1, <1>4
<1>6. InOrder(r, t + d)
  BY <1>1, <1>4 DEF InOrder, Sorted
<1> QED BY <1>5, <1>6 DEF r

\* An empty history is in order.
LEMMA EmptyInOrder == <<>> \in Seq(TimedEntries) /\ \A t : InOrder(<<>>, t)
  BY DEF InOrder, Sorted

\* Time passes.
LEMMA LaterInOrder ==
  ASSUME NEW s \in Seq(TimedEntries), NEW t \in Int, NEW u \in Int, InOrder(s, t), t <= u
  PROVE  InOrder(s, u)
<1>1. \A i \in DOMAIN s : s[i].time \in Int
  BY EntryFacts
<1> QED BY <1>1 DEF InOrder, Sorted

---------------------------------------------------------------------------
(* The invariant.                                                          *)

Links == [source : BOOLEAN, leaked : BOOLEAN, manager : BOOLEAN,
          sleep : BOOLEAN, user : BOOLEAN, inhibitor : BOOLEAN]

HistoryTyped ==
  /\ now \in Int /\ offset \in Int /\ clockOffset \in Int /\ stepped \in Int
  /\ transitions \in Seq(TimedEntries) /\ file \in Seq(TimedEntries)
  /\ userState \in {"ACTIVE", "INACTIVE"}
  /\ starts \in Seq({"load", "inhibit", "proxy"})
  /\ links \in Links
  /\ {"state", "timer", "lastChange"} \subseteq DOMAIN machine

\* While the clock was watched and starts did not overlap: the file and, while
\* the machine runs, the transitions are in order, the latter not after now as it
\* would be without the clock steps they have not been adjusted for; a stopped
\* machine has nothing connected that would record; a start that loads has
\* nothing recorded yet; the machine runs if it is wanted.
Clean == losses \cap {"clock", "restart"} = {}
StopsRecording == ~links.source /\ ~links.user
HistoryInOrder ==
  /\ Sorted(file)
  /\ machine.state # "DISABLED" => InOrder(transitions, now - stepped)
  /\ Len(starts) <= 1 /\ ~links.leaked
  /\ machine.state = "DISABLED" => starts = <<>> /\ StopsRecording /\ machine.timer = NoTimer
  /\ starts # <<>> /\ starts[1] = "load" => transitions = <<>> /\ StopsRecording
  /\ life = "up" /\ conf.history => machine.state # "DISABLED"

StoreInv == HistoryTyped /\ (Clean => HistoryInOrder)

\* What _updateState and the recalculation of _addTransition leave of the machine:
\* it goes on, and a stopped machine is not started by a transition.
Parts == {"state", "timer", "lastChange"}

\* _updateState never stops a machine that runs.
LEMMA UpdatedFacts ==
  ASSUME NEW cf, NEW m, NEW tr, NEW us
  PROVE  /\ Parts \subseteq DOMAIN Updated(cf, m, tr, us)
         /\ m.state # "DISABLED" => Updated(cf, m, tr, us).state # "DISABLED"
<1> DEFINE reached == cf.limitOn /\ cf.limit - ActiveTime(tr, now) <= 0
<1>1. m.state # "DISABLED" => NewState(m, us, reached) # "DISABLED"
  BY Zenon DEF NewState
<1>2. Updated(cf, m, tr, us).state = NewState(m, us, reached)
  BY DEF Updated
<1>3. DOMAIN Updated(cf, m, tr, us) = Parts
  BY DEF Updated, Parts
<1> QED BY <1>1, <1>2, <1>3

\* A transition recalculates only a machine that runs, and does not stop it.
LEMMA RecalculatedFacts ==
  ASSUME NEW m, Parts \subseteq DOMAIN m, NEW tr, NEW us
  PROVE  LET r == Recalculated(m, tr, us)
         IN  /\ Parts \subseteq DOMAIN r
             /\ m.state # "DISABLED" => r.state # "DISABLED"
             /\ m.state = "DISABLED" => r = m
BY UpdatedFacts DEF Recalculated

\* Trimming and dropping keep what is in the history well typed, in any order.
LEMMA TrimTyped ==
  ASSUME NEW s \in Seq(TimedEntries), NEW t
  PROVE  Trim(s, t) \in Seq(TimedEntries)
<1> DEFINE p == Pick(s, KeptAt(s, t))
<1>1. KeptAt(s, t) \in SUBSET DOMAIN s
  BY DEF KeptAt
<1>2. p \in Seq(TimedEntries)
  BY <1>1, PickFacts
<1>3. Trim(s, t) = Pick(p, DOMAIN p \ Cancelling(p))
  BY DEF Trim, DropPairs
<1> HIDE DEF p
<1>4. DOMAIN p \ Cancelling(p) \in SUBSET DOMAIN p
  OBVIOUS
<1> QED BY <1>2, <1>3, <1>4, PickFacts

\* A transition appended to a history is an entry of it.
LEMMA AppendTyped ==
  ASSUME NEW s \in Seq(TimedEntries), NEW t \in Int, NEW new \in {"ACTIVE", "INACTIVE"}
  PROVE  Append(s, Entry(new, t)) \in Seq(TimedEntries)
<1>1. Entry(new, t) \in TimedEntries
  BY DEF Entry, TimedEntries
<1> QED BY <1>1

\* Nothing becomes clean again by losing more.
LEMMA LosingMore ==
  ASSUME NEW more, losses' = losses \cup more, Clean'
  PROVE  Clean /\ "clock" \notin more /\ "restart" \notin more
BY DEF Clean

---------------------------------------------------------------------------
(* The handlers that record.                                               *)

\* _updateUserState: whatever calls it, the history stays in order; only a
\* machine that runs and has nothing to load records.
LEMMA UserStateKeepsOrder ==
  ASSUME StoreInv, NEW lg, NEW lost, UpdateUserState(lg, lost)
  PROVE  /\ transitions' \in Seq(TimedEntries) /\ file' \in Seq(TimedEntries)
         /\ userState' \in {"ACTIVE", "INACTIVE"}
         /\ Parts \subseteq DOMAIN machine'
         /\ Clean' =>
              /\ Clean /\ "clock" \notin lost
              /\ Sorted(file')
              /\ machine.state = "DISABLED" => machine' = machine
              /\ machine.state # "DISABLED" =>
                   /\ machine'.state # "DISABLED"
                   /\ InOrder(transitions', now - stepped)
              /\ starts # <<>> /\ starts[1] = "load" => transitions' = transitions
<1> DEFINE new == Calculate(lg)
           tr == Append(transitions, Entry(new, now))
           kept == Trim(tr, now)
<1>1. /\ now \in Int /\ stepped \in Int
      /\ transitions \in Seq(TimedEntries) /\ file \in Seq(TimedEntries)
      /\ userState \in {"ACTIVE", "INACTIVE"} /\ Parts \subseteq DOMAIN machine
  BY DEF StoreInv, HistoryTyped, Parts
<1>2. new \in {"ACTIVE", "INACTIVE"}
  BY DEF Calculate
<1>3. CASE UNCHANGED <<userState, machine, transitions, file>> /\ losses' = losses \cup lost
  <2>1. Clean' => Clean /\ "clock" \notin lost
    BY <1>3, LosingMore
  <2>2. Clean => Sorted(file) /\ (machine.state # "DISABLED" => InOrder(transitions, now - stepped))
    BY DEF StoreInv, HistoryInOrder
  <2> QED BY <1>1, <1>3, <2>1, <2>2
<1>4. CASE /\ links.user
           /\ userState' = new
           /\ machine' = Recalculated(machine, tr, new)
           /\ transitions' = kept
           /\ Write(kept)
           /\ losses' = losses \cup lost \cup StoreLoses(tr) \cup LoseIf(stepped # 0, "clock")
  <2>1. tr \in Seq(TimedEntries)
    BY <1>1, <1>2, AppendTyped
  <2>2. kept \in Seq(TimedEntries)
    <3> HIDE DEF tr
    <3> QED BY <2>1, TrimTyped
  <2>3. file' \in {file, kept}
    BY <1>4 DEF Write
  <2>4. /\ Parts \subseteq DOMAIN machine'
        /\ machine.state # "DISABLED" => machine'.state # "DISABLED"
        /\ machine.state = "DISABLED" => machine' = machine
    <3> HIDE DEF tr, new
    <3> QED BY <1>1, <1>4, RecalculatedFacts
  <2>5. ASSUME Clean'
        PROVE  /\ Clean /\ "clock" \notin lost /\ stepped = 0
               /\ Sorted(file) /\ machine.state # "DISABLED"
               /\ InOrder(transitions, now)
               /\ ~(starts # <<>> /\ starts[1] = "load")
    <3>1. Clean /\ "clock" \notin lost /\ stepped = 0
      <4> HIDE DEF tr, kept
      <4>1. losses' = losses \cup (lost \cup StoreLoses(tr) \cup LoseIf(stepped # 0, "clock"))
        BY <1>4
      <4>2. Clean /\ "clock" \notin (lost \cup StoreLoses(tr) \cup LoseIf(stepped # 0, "clock"))
        BY <2>5, <4>1, LosingMore
      <4> QED BY <4>2 DEF LoseIf
    <3>2. HistoryInOrder
      BY <3>1 DEF StoreInv
    <3>3. Sorted(file) /\ machine.state # "DISABLED" /\ ~(starts # <<>> /\ starts[1] = "load")
      BY Zenon, <1>4, <3>2 DEF HistoryInOrder, StopsRecording
    <3>4. InOrder(transitions, now - stepped)
      BY <3>2, <3>3 DEF HistoryInOrder
    <3>5. now - stepped = now
      BY <1>1, <3>1
    <3> QED BY <3>1, <3>3, <3>4, <3>5
  <2>6. ASSUME Clean' PROVE InOrder(kept, now - stepped) /\ Sorted(kept)
    <3>1. InOrder(tr, now)
      BY <1>1, <1>2, <2>5, <2>6, AppendInOrder
    <3> HIDE DEF tr
    <3>2. InOrder(kept, now)
      BY <2>1, <3>1, TrimInOrder
    <3>3. now - stepped = now
      BY <1>1, <2>5, <2>6
    <3> QED BY <3>2, <3>3 DEF InOrder
  <2> HIDE DEF kept, new
  <2>7. /\ transitions' \in Seq(TimedEntries) /\ file' \in Seq(TimedEntries)
        /\ userState' \in {"ACTIVE", "INACTIVE"}
    BY <1>1, <1>2, <1>4, <2>2, <2>3
  <2>8. Clean' => Sorted(file')
    BY <2>3, <2>5, <2>6
  <2>9. Clean' => InOrder(transitions', now - stepped)
    BY <1>4, <2>6
  <2> QED BY <2>4, <2>5, <2>7, <2>8, <2>9
<1> HIDE DEF new, kept
<1> QED
  BY <1>3, <1>4 DEF UpdateUserState, new, kept

\* The facts of the invariant, one by one.
LEMMA TypedFacts ==
  ASSUME StoreInv
  PROVE  /\ now \in Int /\ offset \in Int /\ clockOffset \in Int /\ stepped \in Int
         /\ transitions \in Seq(TimedEntries) /\ file \in Seq(TimedEntries)
         /\ userState \in {"ACTIVE", "INACTIVE"}
         /\ starts \in Seq({"load", "inhibit", "proxy"})
         /\ links \in Links
         /\ Parts \subseteq DOMAIN machine
BY DEF StoreInv, HistoryTyped, Parts

\* g-properties-changed
LEMMA LoginChangeKeepsOrder ==
  ASSUME StoreInv, LoginChange
  PROVE  StoreInv'
<1> DEFINE lg == [login EXCEPT !.active = ~@]
<1>1. /\ UpdateUserState(lg, {})
      /\ UNCHANGED <<clockVars, conf, life, offsetVars, links, starts, stepped>>
  BY DEF LoginChange
<1> HIDE DEF lg
<1>2. /\ transitions' \in Seq(TimedEntries) /\ file' \in Seq(TimedEntries)
      /\ userState' \in {"ACTIVE", "INACTIVE"} /\ Parts \subseteq DOMAIN machine'
      /\ Clean' =>
           /\ Clean /\ Sorted(file')
           /\ machine.state = "DISABLED" => machine' = machine
           /\ machine.state # "DISABLED" =>
                machine'.state # "DISABLED" /\ InOrder(transitions', now - stepped)
           /\ starts # <<>> /\ starts[1] = "load" => transitions' = transitions
  BY <1>1, UserStateKeepsOrder
<1>3. HistoryTyped'
  BY <1>1, <1>2, TypedFacts DEF HistoryTyped, clockVars, offsetVars, Parts
<1>4. ASSUME Clean' PROVE HistoryInOrder'
  <2>1. HistoryInOrder
    BY <1>2, <1>4 DEF StoreInv
  <2>2. /\ now' = now /\ stepped' = stepped /\ starts' = starts /\ links' = links
        /\ life' = life /\ conf' = conf
    BY <1>1 DEF clockVars
  <2> QED BY Zenon, <1>2, <1>4, <2>1, <2>2 DEF HistoryInOrder, StopsRecording
<1> QED BY <1>3, <1>4 DEF StoreInv

\* prepare-for-sleep, on the way to sleep
LEMMA PrepareForSleepKeepsOrder ==
  ASSUME StoreInv, PrepareForSleep
  PROVE  StoreInv'
<1> DEFINE lg == [login EXCEPT !.sleeping = TRUE]
<1>0. UNCHANGED <<clockVars, conf, life, clockOffset, starts, stepped>>
  BY DEF PrepareForSleep
<1>1. CASE UNCHANGED <<machine, recordVars, links, losses>>
  <2>1. HistoryTyped'
    BY <1>0, <1>1, TypedFacts DEF HistoryTyped, clockVars, recordVars, Parts
  <2>2. /\ now' = now /\ stepped' = stepped /\ starts' = starts /\ links' = links
        /\ life' = life /\ conf' = conf /\ machine' = machine
        /\ file' = file /\ transitions' = transitions /\ losses' = losses
    BY <1>0, <1>1 DEF clockVars, recordVars
  <2> QED BY Zenon, <2>1, <2>2 DEF StoreInv, HistoryInOrder, StopsRecording, Clean
<1>2. CASE UpdateUserState(lg, {}) /\ links' = [links EXCEPT !.inhibitor = FALSE]
  <2> HIDE DEF lg
  <2>1. /\ transitions' \in Seq(TimedEntries) /\ file' \in Seq(TimedEntries)
        /\ userState' \in {"ACTIVE", "INACTIVE"} /\ Parts \subseteq DOMAIN machine'
        /\ Clean' =>
             /\ Clean /\ Sorted(file')
             /\ machine.state = "DISABLED" => machine' = machine
             /\ machine.state # "DISABLED" =>
                  machine'.state # "DISABLED" /\ InOrder(transitions', now - stepped)
             /\ starts # <<>> /\ starts[1] = "load" => transitions' = transitions
    BY <1>2, UserStateKeepsOrder
  <2>2. /\ links' \in Links
        /\ links'.leaked = links.leaked /\ links'.source = links.source
        /\ links'.user = links.user
    BY <1>2, TypedFacts DEF Links
  <2>3. HistoryTyped'
    BY <1>0, <2>1, <2>2, TypedFacts DEF HistoryTyped, clockVars, Parts
  <2>4. ASSUME Clean' PROVE HistoryInOrder'
    <3>1. HistoryInOrder
      BY <2>1, <2>4 DEF StoreInv
    <3>2. /\ now' = now /\ stepped' = stepped /\ starts' = starts
          /\ life' = life /\ conf' = conf
      BY <1>0 DEF clockVars
    <3> QED BY Zenon, <2>1, <2>2, <2>4, <3>1, <3>2 DEF HistoryInOrder, StopsRecording
  <2> QED BY <2>3, <2>4 DEF StoreInv
<1> QED BY <1>1, <1>2 DEF PrepareForSleep

\* prepare-for-sleep, after sleep: the clock offset is taken over as it is
LEMMA WakeUpKeepsOrder ==
  ASSUME StoreInv, WakeUp
  PROVE  StoreInv'
<1> DEFINE lg == [login EXCEPT !.sleeping = FALSE]
           lost == LoseIf(stepped # 0, "clock")
<1>0. UNCHANGED <<clockVars, conf, life, starts>>
  BY DEF WakeUp
<1>1. CASE UNCHANGED <<machine, recordVars, clockOffset, links, stepped, losses>>
  <2>1. HistoryTyped'
    BY <1>0, <1>1, TypedFacts DEF HistoryTyped, clockVars, recordVars, Parts
  <2>2. /\ now' = now /\ stepped' = stepped /\ starts' = starts /\ links' = links
        /\ life' = life /\ conf' = conf /\ machine' = machine
        /\ file' = file /\ transitions' = transitions /\ losses' = losses
    BY <1>0, <1>1 DEF clockVars, recordVars
  <2> QED BY Zenon, <2>1, <2>2 DEF StoreInv, HistoryInOrder, StopsRecording, Clean
<1>2. CASE /\ UpdateUserState(lg, lost)
           /\ clockOffset' = offset /\ stepped' = 0
           /\ \E ok \in Outcomes("inhibit") :
                links' = [links EXCEPT !.inhibitor = @ \/ ok]
  <2>0. "clock" \notin lost => stepped = 0
    BY DEF LoseIf
  <2> HIDE DEF lg, lost
  <2>1. /\ transitions' \in Seq(TimedEntries) /\ file' \in Seq(TimedEntries)
        /\ userState' \in {"ACTIVE", "INACTIVE"} /\ Parts \subseteq DOMAIN machine'
        /\ Clean' =>
             /\ Clean /\ "clock" \notin lost /\ Sorted(file')
             /\ machine.state = "DISABLED" => machine' = machine
             /\ machine.state # "DISABLED" =>
                  machine'.state # "DISABLED" /\ InOrder(transitions', now - stepped)
             /\ starts # <<>> /\ starts[1] = "load" => transitions' = transitions
    BY <1>2, UserStateKeepsOrder
  <2>2. PICK b \in BOOLEAN : links' = [links EXCEPT !.inhibitor = b]
    <3>1. PICK ok \in Outcomes("inhibit") : links' = [links EXCEPT !.inhibitor = @ \/ ok]
      BY <1>2
    <3>2. (links.inhibitor \/ ok) \in BOOLEAN
      OBVIOUS
    <3> QED BY <3>1, <3>2
  <2>3. /\ links' \in Links
        /\ links'.leaked = links.leaked /\ links'.source = links.source
        /\ links'.user = links.user
    BY <2>2, TypedFacts DEF Links
  <2>4. HistoryTyped'
    BY <1>0, <1>2, <2>1, <2>3, TypedFacts DEF HistoryTyped, clockVars, Parts
  <2>5. ASSUME Clean' PROVE HistoryInOrder'
    <3>1. HistoryInOrder /\ stepped = 0
      BY <2>0, <2>1, <2>5 DEF StoreInv
    <3>2. /\ now' = now /\ stepped' = stepped /\ starts' = starts
          /\ life' = life /\ conf' = conf
      BY <1>0, <1>2, <3>1 DEF clockVars
    <3> QED BY Zenon, <2>1, <2>3, <2>5, <3>1, <3>2 DEF HistoryInOrder, StopsRecording
  <2> QED BY <2>4, <2>5 DEF StoreInv
<1> QED BY <1>1, <1>2 DEF WakeUp

---------------------------------------------------------------------------
(* The clocks.                                                             *)

\* A second passes, or one asleep; a timer fires.
LEMMA TimePassesInOrder ==
  ASSUME StoreInv, Tick \/ SleepTick \/ TimerFires
  PROVE  StoreInv'
<1>0. /\ UNCHANGED <<conf, life, recordVars, clockOffset, links, starts, stepped>>
      /\ losses \subseteq losses'
  BY DEF Tick, SleepTick, TimerFires, envVars, offsetVars
<1>1. now' \in Int /\ offset' \in Int /\ now <= now'
  BY TypedFacts DEF Tick, SleepTick, TimerFires, clockVars
<1>2. /\ Parts \subseteq DOMAIN machine'
      /\ machine.state # "DISABLED" => machine'.state # "DISABLED"
      /\ machine.state = "DISABLED" /\ machine.timer = NoTimer =>
           machine'.state = "DISABLED" /\ machine'.timer = NoTimer
  <2>1. CASE Tick
    <3>1. PICK t : /\ machine' = [machine EXCEPT !.timer = t]
                   /\ machine.timer = NoTimer => t = NoTimer
      BY <2>1 DEF Tick
    <3> QED BY <3>1, TypedFacts DEF Parts
  <2>2. CASE SleepTick
    BY <2>2, TypedFacts DEF SleepTick
  <2>3. CASE TimerFires
    <3> DEFINE m == [machine EXCEPT !.timer = NoTimer]
    <3>1. machine.timer = 0 /\ machine' = Updated(conf, m, transitions, userState)
      BY <2>3 DEF TimerFires
    <3>2. m.state = machine.state
      BY TypedFacts DEF Parts
    <3>3. NoTimer # 0
      BY DEF NoTimer
    <3> HIDE DEF m
    <3> QED BY <3>1, <3>2, <3>3, UpdatedFacts
  <2> QED BY <2>1, <2>2, <2>3
<1>3. HistoryTyped'
  BY <1>0, <1>1, <1>2, TypedFacts DEF HistoryTyped, recordVars, Parts
<1>4. ASSUME Clean' PROVE HistoryInOrder'
  <2>1. HistoryInOrder
    BY <1>0, <1>4 DEF StoreInv, Clean
  <2>2. /\ stepped' = stepped /\ starts' = starts /\ links' = links /\ file' = file
        /\ transitions' = transitions /\ life' = life /\ conf' = conf
    BY <1>0 DEF recordVars
  <2>3. now - stepped \in Int /\ now' - stepped \in Int /\ now - stepped <= now' - stepped
    BY <1>1, TypedFacts
  <2>4. machine.state # "DISABLED" => InOrder(transitions', now' - stepped')
    BY <2>1, <2>2, <2>3, LaterInOrder, TypedFacts DEF HistoryInOrder
  <2> QED BY Zenon, <1>2, <2>1, <2>2, <2>4 DEF HistoryInOrder, StopsRecording
<1> QED BY <1>3, <1>4 DEF StoreInv

\* The clock is set: what is recorded stays in order with regard to the clock
\* without the step, provided that the step is watched or nothing is recorded.
LEMMA ClockStepKeepsOrder ==
  ASSUME StoreInv, NEW d \in ClockSteps, ClockStep(d)
  PROVE  StoreInv'
<1>0. UNCHANGED <<conf, life, machine, recordVars, clockOffset, links, starts>>
  BY DEF ClockStep, envVars
<1>1. d \in Int
  BY TimeLimitsAssumption
<1>2. /\ now' = now + d /\ offset' = offset + d
      /\ stepped' = IF links.source THEN stepped + d ELSE 0
      /\ losses' = losses \cup
           LoseIf(~links.source /\ (file # <<>> \/ transitions # <<>>), "clock")
  BY DEF ClockStep
<1>3. HistoryTyped'
  BY <1>0, <1>1, <1>2, TypedFacts DEF HistoryTyped, recordVars, Parts
<1>4. ASSUME Clean' PROVE HistoryInOrder'
  <2>1. /\ HistoryInOrder
        /\ ~links.source => transitions = <<>>
    <3>1. Clean /\ "clock" \notin LoseIf(~links.source /\ (file # <<>> \/ transitions # <<>>), "clock")
      BY <1>2, <1>4, LosingMore
    <3>2. ~(~links.source /\ (file # <<>> \/ transitions # <<>>))
      BY <3>1 DEF LoseIf
    <3> QED BY Zenon, <3>1, <3>2 DEF StoreInv
  <2>2. /\ starts' = starts /\ links' = links /\ file' = file /\ machine' = machine
        /\ transitions' = transitions /\ life' = life /\ conf' = conf
    BY <1>0 DEF recordVars
  <2>3. links.source => now' - stepped' = now - stepped
    BY <1>1, <1>2, TypedFacts
  <2>4. machine.state # "DISABLED" => InOrder(transitions', now' - stepped')
    BY <2>1, <2>2, <2>3, EmptyInOrder DEF HistoryInOrder
  <2> QED BY Zenon, <2>1, <2>2, <2>4 DEF HistoryInOrder, StopsRecording
<1> QED BY <1>3, <1>4 DEF StoreInv

\* The callback of timeChangeNotify catches up with the steps.
LEMMA ClockChangedKeepsOrder ==
  ASSUME StoreInv, ClockChanged
  PROVE  StoreInv'
<1> DEFINE d == offset - clockOffset
           tr == AdjustAllTimes(transitions, d)
           kept == Trim(tr, now)
           m == [machine EXCEPT !.lastChange = IF @ = 0 THEN 0 ELSE @ + d]
<1>0. UNCHANGED <<clockVars, conf, life, userState, links, starts>>
  BY DEF ClockChanged, envVars
<1>1. CASE UNCHANGED <<machine, transitions, file, clockOffset, stepped, losses>>
  <2>1. HistoryTyped'
    BY <1>0, <1>1, TypedFacts DEF HistoryTyped, clockVars, Parts
  <2>2. /\ now' = now /\ stepped' = stepped /\ starts' = starts /\ links' = links
        /\ life' = life /\ conf' = conf /\ machine' = machine
        /\ file' = file /\ transitions' = transitions /\ losses' = losses
    BY <1>0, <1>1 DEF clockVars
  <2> QED BY Zenon, <2>1, <2>2 DEF StoreInv, HistoryInOrder, StopsRecording, Clean
<1>2. CASE /\ links.source \/ links.leaked
           /\ clockOffset' = offset
           /\ transitions' = kept
           /\ Write(kept)
           /\ machine' = Updated(conf, m, kept, userState)
           /\ stepped' = 0
           /\ losses' = losses \cup StoreLoses(tr) \cup LoseIf(d # stepped, "clock")
  <2>1. d \in Int
    BY TypedFacts
  <2>2. m.state = machine.state
    BY TypedFacts DEF Parts
  <2> HIDE DEF d, m
  <2>3. tr \in Seq(TimedEntries)
    <3>1. DOMAIN transitions = 1 .. Len(transitions) /\ Len(transitions) \in Nat
          /\ \A i \in DOMAIN transitions : transitions[i] \in TimedEntries
      BY TypedFacts, EntryFacts
    <3>2. \A e \in TimedEntries : [e EXCEPT !.time = e.time + d] \in TimedEntries
      BY <2>1 DEF TimedEntries
    <3>3. tr \in [1 .. Len(transitions) -> TimedEntries]
      BY <3>1, <3>2 DEF AdjustAllTimes
    <3> QED BY <3>1, <3>3
  <2>4. kept \in Seq(TimedEntries)
    <3> HIDE DEF tr
    <3> QED BY <2>3, TrimTyped
  <2>5. file' \in {file, kept}
    BY <1>2 DEF Write
  <2>6. /\ Parts \subseteq DOMAIN machine'
        /\ machine.state # "DISABLED" => machine'.state # "DISABLED"
    <3> HIDE DEF kept
    <3> QED BY <1>2, <2>2, UpdatedFacts
  <2>7. HistoryTyped'
    <3> HIDE DEF kept
    <3> QED BY <1>0, <1>2, <2>4, <2>5, <2>6, TypedFacts DEF HistoryTyped, clockVars, Parts
  <2>8. ASSUME Clean' PROVE HistoryInOrder'
    <3>1. Clean /\ d = stepped
      <4> HIDE DEF tr, kept
      <4>1. losses' = losses \cup (StoreLoses(tr) \cup LoseIf(d # stepped, "clock"))
        BY <1>2
      <4>2. Clean /\ "clock" \notin (StoreLoses(tr) \cup LoseIf(d # stepped, "clock"))
        BY <2>8, <4>1, LosingMore
      <4> QED BY <4>2 DEF LoseIf
    <3>2. HistoryInOrder
      BY <3>1 DEF StoreInv
    <3>3. /\ machine.state # "DISABLED" /\ ~(starts # <<>> /\ starts[1] = "load")
      BY Zenon, <1>2, <3>2 DEF HistoryInOrder, StopsRecording
    <3>4. InOrder(kept, now)
      <4>1. InOrder(tr, (now - stepped) + d)
        <5>1. InOrder(transitions, now - stepped) /\ now - stepped \in Int
          BY <3>2, <3>3, TypedFacts DEF HistoryInOrder
        <5> QED BY <2>1, <5>1, TypedFacts, AdjustInOrder
      <4>2. (now - stepped) + d = now
        BY <3>1, TypedFacts
      <4> HIDE DEF tr
      <4> QED BY <2>3, <4>1, <4>2, TrimInOrder
    <3>5. /\ now' = now /\ starts' = starts /\ links' = links
          /\ life' = life /\ conf' = conf /\ now - 0 = now
      BY <1>0, TypedFacts DEF clockVars
    <3> HIDE DEF kept
    <3>6. InOrder(transitions', now' - stepped')
      BY <1>2, <3>4, <3>5
    <3>7. Sorted(file')
      BY <2>5, <3>2, <3>4 DEF InOrder, HistoryInOrder
    <3> QED BY Zenon, <2>6, <3>2, <3>3, <3>5, <3>6, <3>7 DEF HistoryInOrder, StopsRecording
  <2> QED BY <2>7, <2>8 DEF StoreInv
<1> HIDE DEF m, tr, kept
<1> QED BY <1>1, <1>2 DEF ClockChanged, m, tr, kept

---------------------------------------------------------------------------
(* Starting and stopping.                                                  *)

\* A start finds a stopped machine, so nothing that records.
LEMMA StartKeepsOrder ==
  ASSUME StoreInv, Start, machine.state = "DISABLED", now' = now, offset' = offset
  PROVE  StoreInv'
<1>0. UNCHANGED <<file, clockOffset, links, stepped>>
  BY DEF Start, offsetVars
<1>1. /\ userState' = "ACTIVE" /\ transitions' = <<>>
      /\ machine' = [machine EXCEPT !.state = "ACTIVE"]
      /\ starts' = Append(starts, "load")
      /\ losses' = losses \cup LoseIf(starts # <<>>, "restart")
  BY DEF Start
<1>2. Parts \subseteq DOMAIN machine' /\ machine'.state = "ACTIVE"
  BY <1>1, TypedFacts DEF Parts
<1>3. HistoryTyped'
  BY <1>0, <1>1, <1>2, TypedFacts, EmptyInOrder DEF HistoryTyped, Parts
<1>4. ASSUME Clean' PROVE HistoryInOrder'
  <2>1. Clean /\ starts = <<>>
    <3>1. Clean /\ "restart" \notin LoseIf(starts # <<>>, "restart")
      BY <1>1, <1>4, LosingMore
    <3> QED BY <3>1 DEF LoseIf
  <2>2. Sorted(file) /\ ~links.leaked /\ StopsRecording
    BY Zenon, <2>1 DEF StoreInv, HistoryInOrder
  <2>3. Len(starts') = 1 /\ starts'[1] = "load"
    BY <1>1, <2>1
  <2>4. /\ Sorted(file') /\ ~links'.leaked /\ StopsRecording'
        /\ InOrder(transitions', now' - stepped') /\ Len(starts') <= 1
    BY <1>0, <1>1, <2>2, <2>3, EmptyInOrder DEF StopsRecording
  <2>5. machine'.state # "DISABLED"
    BY <1>2
  <2> QED BY Zenon, <1>1, <2>4, <2>5 DEF HistoryInOrder
<1> QED BY <1>3, <1>4 DEF StoreInv

\* A stop with the history enabled stores it; one with it disabled deletes it.
LEMMA StopKeepsOrder ==
  ASSUME StoreInv, NEW history, Stop(history), UNCHANGED <<now, offset, starts>>,
         history => life = "up" /\ conf.history,
         ~(life' = "up" /\ conf'.history)
  PROVE  StoreInv'
<1> DEFINE tr == IF userState = "INACTIVE" THEN transitions
                 ELSE Append(transitions, Entry("INACTIVE", now))
           kept == Trim(tr, now)
<1>1. /\ machine' = Off /\ clockOffset' = 0 /\ stepped' = 0
      /\ links' = [NoLinks EXCEPT !.leaked = links.leaked]
  BY DEF Stop
<1>2. /\ Parts \subseteq DOMAIN machine'
      /\ machine'.state = "DISABLED" /\ machine'.timer = NoTimer
  BY <1>1 DEF Off, Parts
<1>3. links' \in Links /\ links'.leaked = links.leaked /\ ~links'.source /\ ~links'.user
  BY <1>1, TypedFacts DEF Links, NoLinks
<1>4. tr \in Seq(TimedEntries) /\ kept \in Seq(TimedEntries)
  <2>1. Append(transitions, Entry("INACTIVE", now)) \in Seq(TimedEntries)
    BY TypedFacts, AppendTyped
  <2>2. tr \in Seq(TimedEntries)
    BY <2>1, TypedFacts
  <2> HIDE DEF tr
  <2> QED BY <2>2, TrimTyped
<1>5. CASE /\ history
           /\ transitions' = kept /\ userState' = "INACTIVE" /\ Write(kept)
           /\ losses' = losses \cup (StoreLoses(tr) \cup LoseIf(stepped # 0, "clock")
                          \cup LoseIf(file' # kept, "store") \cup LoseIf(starts # <<>>, "restart"))
  <2>1. file' \in {file, kept}
    BY <1>5 DEF Write
  <2>2. HistoryTyped'
    <3> HIDE DEF kept
    <3> QED BY <1>1, <1>2, <1>3, <1>4, <1>5, <2>1, TypedFacts DEF HistoryTyped, Parts
  <2>3. ASSUME Clean' PROVE HistoryInOrder'
    <3>1. Clean /\ stepped = 0 /\ starts = <<>>
      <4> HIDE DEF tr, kept
      <4> DEFINE more == StoreLoses(tr) \cup LoseIf(stepped # 0, "clock")
                           \cup LoseIf(file' # kept, "store") \cup LoseIf(starts # <<>>, "restart")
      <4>1. Clean /\ "clock" \notin more /\ "restart" \notin more
        BY <1>5, <2>3, LosingMore
      <4> QED BY <4>1 DEF LoseIf
    <3>2. HistoryInOrder
      BY <3>1 DEF StoreInv
    <3>3. machine.state # "DISABLED" /\ ~links.leaked /\ Sorted(file)
      BY Zenon, <1>5, <3>2 DEF HistoryInOrder
    <3>4. InOrder(transitions, now)
      <4>1. now - stepped = now
        BY <3>1, TypedFacts
      <4> QED BY <3>2, <3>3, <4>1 DEF HistoryInOrder
    <3>5. InOrder(tr, now)
      BY <3>4, TypedFacts, AppendInOrder
    <3>6. InOrder(kept, now)
      <4> HIDE DEF tr
      <4> QED BY <1>4, <3>5, TrimInOrder
    <3> HIDE DEF kept
    <3>7. Sorted(file')
      BY <2>1, <3>3, <3>6 DEF InOrder
    <3>8. starts' = <<>> /\ Len(starts') <= 1
      BY <3>1
    <3> QED BY Zenon, <1>2, <1>3, <3>3, <3>7, <3>8 DEF HistoryInOrder, StopsRecording
  <2> QED BY <2>2, <2>3 DEF StoreInv
<1>6. CASE /\ ~history
           /\ Write(<<>>)
           /\ losses' = IF starts = <<>> /\ ~links.leaked /\ file' = <<>>
                        THEN {} ELSE losses \cup {"restart"} \cup LoseIf(stepped # 0, "clock")
           /\ UNCHANGED <<transitions, userState>>
  <2>1. file' \in Seq(TimedEntries)
    BY <1>6, TypedFacts, EmptyInOrder DEF Write
  <2>2. HistoryTyped'
    BY <1>1, <1>2, <1>3, <1>6, <2>1, TypedFacts DEF HistoryTyped, Parts
  <2>3. ASSUME Clean' PROVE HistoryInOrder'
    <3>1. starts = <<>> /\ ~links.leaked /\ file' = <<>>
      <4>1. "restart" \notin losses'
        BY <2>3 DEF Clean
      <4> QED BY <1>6, <4>1
    <3>2. Sorted(file')
      BY <3>1 DEF Sorted
    <3>3. starts' = <<>> /\ Len(starts') <= 1
      BY <3>1
    <3> QED BY Zenon, <1>2, <1>3, <3>1, <3>2, <3>3 DEF HistoryInOrder, StopsRecording
  <2> QED BY <2>2, <2>3 DEF StoreInv
<1> HIDE DEF tr, kept
<1>7. history \/ ~history
  OBVIOUS
<1>8. history => /\ transitions' = kept /\ userState' = "INACTIVE" /\ Write(kept)
                 /\ losses' = losses \cup StoreLoses(tr) \cup LoseIf(stepped # 0, "clock")
                       \cup LoseIf(file' # kept, "store") \cup LoseIf(starts # <<>>, "restart")
  BY DEF Stop, tr, kept
<1>9. ~history => /\ Write(<<>>)
                  /\ losses' = IF starts = <<>> /\ ~links.leaked /\ file' = <<>>
                               THEN {} ELSE losses \cup {"restart"} \cup LoseIf(stepped # 0, "clock")
                  /\ UNCHANGED <<transitions, userState>>
  BY DEF Stop
<1>10. (losses \cup StoreLoses(tr) \cup LoseIf(stepped # 0, "clock")
           \cup LoseIf(file' # kept, "store") \cup LoseIf(starts # <<>>, "restart"))
        = losses \cup (StoreLoses(tr) \cup LoseIf(stepped # 0, "clock")
                   \cup LoseIf(file' # kept, "store") \cup LoseIf(starts # <<>>, "restart"))
  OBVIOUS
<1> QED BY <1>5, <1>6, <1>7, <1>8, <1>9, <1>10

\* The shutdown signal.
LEMMA ShutdownKeepsOrder ==
  ASSUME StoreInv, Shutdown
  PROVE  StoreInv'
<1>1. /\ life = "up" /\ life' = "exiting" /\ Stop(conf.history)
      /\ UNCHANGED <<now, offset, starts>>
  BY DEF Shutdown, clockVars
<1> QED BY <1>1, StopKeepsOrder

\* _updateSettings, as the settings change and as the shell starts: a stopped
\* machine is started, a running one stopped or brought up to date.
LEMMA UpdateSettingsKeepsOrder ==
  ASSUME StoreInv, UpdateSettings(conf'), UNCHANGED <<now, offset>>
  PROVE  StoreInv'
<1>1. CASE ~conf'.history /\ Stop(FALSE) /\ UNCHANGED starts
  BY <1>1, StopKeepsOrder
<1>2. CASE conf'.history /\ machine.state = "DISABLED" /\ Start
  BY <1>2, StartKeepsOrder
<1>3. CASE /\ ~conf'.history /\ UNCHANGED <<machine, recordVars, offsetVars, links, starts, stepped, losses>>
  <2>1. /\ now' = now /\ offset' = offset /\ stepped' = stepped /\ starts' = starts /\ links' = links
        /\ machine' = machine /\ file' = file /\ transitions' = transitions /\ losses' = losses
        /\ userState' = userState /\ clockOffset' = clockOffset
    BY <1>3 DEF recordVars, offsetVars
  <2>2. HistoryTyped'
    BY <2>1, TypedFacts DEF HistoryTyped, Parts
  <2> QED BY Zenon, <1>3, <2>1, <2>2 DEF StoreInv, HistoryInOrder, StopsRecording, Clean
<1>4. CASE /\ machine.state # "DISABLED"
           /\ machine' = Updated(conf', machine, transitions, userState)
           /\ losses' = losses \cup LoseIf(stepped # 0, "timer")
           /\ UNCHANGED <<recordVars, offsetVars, links, starts, stepped>>
  <2>1. /\ now' = now /\ offset' = offset /\ stepped' = stepped /\ starts' = starts /\ links' = links
        /\ file' = file /\ transitions' = transitions
        /\ userState' = userState /\ clockOffset' = clockOffset
    BY <1>4 DEF recordVars, offsetVars
  <2>a. Clean' => Clean
    BY <1>4, LosingMore
  <2>2. Parts \subseteq DOMAIN machine' /\ machine'.state # "DISABLED"
    BY <1>4, UpdatedFacts
  <2>3. HistoryTyped'
    BY <2>1, <2>2, TypedFacts DEF HistoryTyped, Parts
  <2> QED BY Zenon, <1>4, <2>1, <2>2, <2>3, <2>a DEF StoreInv, HistoryInOrder, StopsRecording
<1> QED BY Zenon, <1>1, <1>2, <1>3, <1>4 DEF UpdateSettings

\* Settings start and stop the machine; neither puts a transition out of order.
LEMMA SettingsChangeKeepsOrder ==
  ASSUME StoreInv, NEW cf, SettingsChange(cf)
  PROVE  StoreInv'
<1>1. conf' = cf /\ UpdateSettings(cf) /\ UNCHANGED <<now, offset>>
  BY DEF SettingsChange, clockVars
<1> QED BY <1>1, UpdateSettingsKeepsOrder

\* Booting only applies the settings.
LEMMA BootKeepsOrder ==
  ASSUME StoreInv, Boot
  PROVE  StoreInv'
<1>1. conf' = conf /\ UpdateSettings(conf) /\ UNCHANGED <<now, offset>>
  BY DEF Boot, clockVars
<1> QED BY <1>1, UpdateSettingsKeepsOrder

\* The process ends, orderly or not: the file is what is left.
LEMMA ExitKeepsOrder ==
  ASSUME StoreInv, Exit, losses \subseteq losses'
  PROVE  StoreInv'
<1>1. /\ life' = "down" /\ machine' = Off /\ userState' = "INACTIVE" /\ transitions' = <<>>
      /\ clockOffset' = 0 /\ links' = NoLinks /\ starts' = <<>> /\ stepped' = 0
      /\ now' = now /\ offset' = offset /\ file' = file
  BY DEF Exit, clockVars
<1>2. /\ Parts \subseteq DOMAIN machine'
      /\ machine'.state = "DISABLED" /\ machine'.timer = NoTimer
  BY <1>1 DEF Off, Parts
<1>3. links' \in Links /\ ~links'.leaked /\ ~links'.source /\ ~links'.user
  BY <1>1 DEF Links, NoLinks
<1>4. HistoryTyped'
  BY <1>1, <1>2, <1>3, TypedFacts, EmptyInOrder DEF HistoryTyped, Parts
<1>5. ASSUME Clean' PROVE HistoryInOrder'
  <2>1. Sorted(file')
    BY <1>1, <1>5 DEF StoreInv, HistoryInOrder, Clean
  <2>2. Len(starts') <= 1 /\ life' # "up"
    BY <1>1
  <2> QED BY Zenon, <1>1, <1>2, <1>3, <2>1, <2>2 DEF HistoryInOrder, StopsRecording
<1> QED BY <1>4, <1>5 DEF StoreInv

---------------------------------------------------------------------------
(* The steps of a start.                                                   *)

\* A start that overlaps no other one is the first, and the last to end.
LEMMA OnlyStart ==
  ASSUME NEW S, NEW s \in Seq(S), Len(s) <= 1, NEW i \in DOMAIN s
  PROVE  i = 1 /\ s # <<>> /\ Len(s) = 1 /\ RemoveAt(s, i) = <<>>
<1>1. Len(s) \in Nat /\ DOMAIN s = 1 .. Len(s)
  OBVIOUS
<1>2. i = 1 /\ Len(s) = 1
  BY <1>1
<1>3. SubSeq(s, 1, 0) = <<>> /\ SubSeq(s, 2, 1) = <<>>
  OBVIOUS
<1>4. RemoveAt(s, 1) = <<>>
  BY <1>2, <1>3 DEF RemoveAt
<1> QED BY <1>2, <1>4

\* Removing an element leaves a sequence over the same set.
LEMMA RemoveTyped ==
  ASSUME NEW S, NEW s \in Seq(S), NEW i \in DOMAIN s
  PROVE  RemoveAt(s, i) \in Seq(S)
<1>1. Len(s) \in Nat /\ DOMAIN s = 1 .. Len(s) /\ i \in Nat /\ 1 <= i /\ i <= Len(s)
  OBVIOUS
<1>2. SubSeq(s, 1, i - 1) \in Seq(S) /\ SubSeq(s, i + 1, Len(s)) \in Seq(S)
  BY <1>1
<1> QED BY <1>2 DEF RemoveAt

\* The load has ended: the loaded history, which is in order, and after it the
\* transition that says that the user is taken to be active.
LEMMA LoadDoneKeepsOrder ==
  ASSUME StoreInv, NEW i \in DOMAIN starts, LoadDone(i)
  PROVE  StoreInv'
<1>1. PICK ok \in Outcomes("load"), listening \in Outcomes("listen") :
        LET loaded == IF ok THEN Loaded(file, now) ELSE <<>>
            tr == transitions \o loaded
            us == IF loaded = <<>> THEN userState ELSE Last(loaded).new
            m == IF ok /\ LoadRecalculates(file, now)
                 THEN Recalculated(machine, tr, us) ELSE machine
            fake == Append(tr, Entry("ACTIVE", now))
            begins == tr = <<>> \/ us # "ACTIVE"
        IN  /\ starts[i] = "load"
            /\ userState' = "ACTIVE"
            /\ transitions' = IF begins THEN fake ELSE tr
            /\ machine' = IF begins THEN Recalculated(m, fake, "ACTIVE") ELSE m
            /\ clockOffset' = offset
            /\ links' = [links EXCEPT !.source = listening,
                                      !.leaked = @ \/ links.source,
                                      !.manager = TRUE,
                                      !.sleep = @ \/ links.inhibitor]
            /\ Await(i, IF links.inhibitor THEN "proxy" ELSE "inhibit")
            /\ stepped' = 0
            /\ losses' = losses \cup LoseIf(~ok /\ file # <<>>, "load")
                                \cup LoseIf(stepped # 0, "clock")
            /\ UNCHANGED <<clockVars, envVars, file>>
  BY DEF LoadDone
<1> DEFINE loaded == IF ok THEN Loaded(file, now) ELSE <<>>
           tr == transitions \o loaded
           us == IF loaded = <<>> THEN userState ELSE Last(loaded).new
           m == IF ok /\ LoadRecalculates(file, now)
                THEN Recalculated(machine, tr, us) ELSE machine
           fake == Append(tr, Entry("ACTIVE", now))
           begins == tr = <<>> \/ us # "ACTIVE"
<1>2. /\ starts[i] = "load" /\ userState' = "ACTIVE"
      /\ transitions' = IF begins THEN fake ELSE tr
      /\ machine' = IF begins THEN Recalculated(m, fake, "ACTIVE") ELSE m
      /\ clockOffset' = offset /\ stepped' = 0
      /\ now' = now /\ offset' = offset /\ file' = file /\ life' = life /\ conf' = conf
  BY <1>1 DEF clockVars, envVars
<1>3. /\ links' = [links EXCEPT !.source = listening,
                                !.leaked = @ \/ links.source,
                                !.manager = TRUE,
                                !.sleep = @ \/ links.inhibitor]
      /\ starts' = [starts EXCEPT ![i] = IF links.inhibitor THEN "proxy" ELSE "inhibit"]
      /\ losses' = losses \cup (LoseIf(~ok /\ file # <<>>, "load")
                                  \cup LoseIf(stepped # 0, "clock"))
  BY <1>1 DEF Await
<1>4. loaded \in Seq(TimedEntries) /\ InOrder(loaded, now)
  BY TypedFacts, LoadedInOrder, EmptyInOrder
<1> HIDE DEF loaded
<1>5. tr \in Seq(TimedEntries)
  BY <1>4, TypedFacts
<1> HIDE DEF tr, us
<1>6. fake \in Seq(TimedEntries)
  BY <1>5, TypedFacts, AppendTyped
<1>7. /\ Parts \subseteq DOMAIN m
      /\ machine.state # "DISABLED" => m.state # "DISABLED"
  <2>1. /\ Parts \subseteq DOMAIN Recalculated(machine, tr, us)
        /\ machine.state # "DISABLED" => Recalculated(machine, tr, us).state # "DISABLED"
    BY RecalculatedFacts, TypedFacts
  <2> QED BY <2>1, TypedFacts
<1> HIDE DEF m, fake, begins
<1>8. /\ Parts \subseteq DOMAIN machine'
      /\ machine.state # "DISABLED" => machine'.state # "DISABLED"
  BY <1>2, <1>7, RecalculatedFacts
<1>9. /\ links' \in Links /\ links'.source \in BOOLEAN /\ links'.user = links.user
      /\ ~links.leaked /\ ~links.source => ~links'.leaked
  <2> DEFINE a == links.leaked \/ links.source
             b == links.sleep \/ links.inhibitor
  <2>1. links' = [links EXCEPT !.source = listening, !.leaked = a, !.manager = TRUE, !.sleep = b]
    BY <1>3
  <2>2. a \in BOOLEAN /\ b \in BOOLEAN /\ listening \in BOOLEAN
    BY DEF Outcomes
  <2>3. ~links.leaked /\ ~links.source => ~a
    OBVIOUS
  <2> HIDE DEF a, b
  <2>4. links' \in Links /\ links'.source = listening /\ links'.user = links.user /\ links'.leaked = a
    BY <2>1, <2>2, TypedFacts DEF Links
  <2> QED BY Zenon, <2>2, <2>3, <2>4
<1>10. /\ starts' \in Seq({"load", "inhibit", "proxy"}) /\ Len(starts') = Len(starts)
       /\ starts'[i] # "load"
  BY <1>3, TypedFacts
<1>11. transitions' \in Seq(TimedEntries)
  BY <1>2, <1>5, <1>6
<1>12. HistoryTyped'
  BY <1>2, <1>8, <1>9, <1>10, <1>11, TypedFacts DEF HistoryTyped, Parts
<1>13. ASSUME Clean' PROVE HistoryInOrder'
  <2>1. Clean
    BY <1>3, <1>13, LosingMore
  <2>2. HistoryInOrder
    BY <2>1 DEF StoreInv
  <2>3. i = 1 /\ starts # <<>> /\ Len(starts) = 1
    <3>1. Len(starts) <= 1
      BY <2>2 DEF HistoryInOrder
    <3> QED BY <3>1, OnlyStart, TypedFacts
  <2>4. /\ transitions = <<>> /\ ~links.source /\ ~links.user /\ ~links.leaked
        /\ Sorted(file) /\ machine.state # "DISABLED"
    BY Zenon, <1>2, <2>2, <2>3 DEF HistoryInOrder, StopsRecording
  <2>5. tr = loaded
    BY <1>4, <2>4 DEF tr
  <2>6. InOrder(fake, now)
    BY <1>4, <1>5, <2>5, TypedFacts, AppendInOrder DEF fake
  <2>7. InOrder(transitions', now' - stepped')
    <3>1. now' - stepped' = now
      BY <1>2, TypedFacts
    <3> QED BY <1>2, <1>4, <2>5, <2>6, <3>1
  <2>8. Len(starts') <= 1 /\ starts'[1] # "load"
    BY <1>10, <2>3
  <2>9. ~links'.leaked /\ machine'.state # "DISABLED" /\ Sorted(file')
    BY <1>2, <1>8, <1>9, <2>4
  <2> QED BY Zenon, <2>7, <2>8, <2>9 DEF HistoryInOrder
<1> QED BY <1>12, <1>13 DEF StoreInv

\* The inhibitor was taken, or not.
LEMMA InhibitDoneKeepsOrder ==
  ASSUME StoreInv, NEW i \in DOMAIN starts, InhibitDone(i)
  PROVE  StoreInv'
<1>1. /\ starts[i] = "inhibit"
      /\ starts' = IF links.manager THEN [starts EXCEPT ![i] = "proxy"] ELSE RemoveAt(starts, i)
      /\ UNCHANGED <<clockVars, conf, life, machine, recordVars, offsetVars, stepped, losses>>
  BY DEF InhibitDone, Await, Ended, envVars
<1>2. PICK ok : links' = [links EXCEPT !.inhibitor = @ \/ ok, !.sleep = links.manager]
  BY DEF InhibitDone
<1>3. /\ links' \in Links
      /\ links'.leaked = links.leaked /\ links'.source = links.source
      /\ links'.user = links.user
  <2> DEFINE b == links.inhibitor \/ ok
  <2>1. links' = [links EXCEPT !.inhibitor = b, !.sleep = links.manager]
    BY <1>2
  <2>2. b \in BOOLEAN /\ links.manager \in BOOLEAN
    BY TypedFacts DEF Links
  <2> HIDE DEF b
  <2> QED BY <2>1, <2>2, TypedFacts DEF Links
<1>a. \/ starts' = [starts EXCEPT ![i] = "proxy"]
      \/ starts' = RemoveAt(starts, i)
  BY Zenon, <1>1
<1>4. starts' \in Seq({"load", "inhibit", "proxy"})
  <2>1. RemoveAt(starts, i) \in Seq({"load", "inhibit", "proxy"})
    BY TypedFacts, RemoveTyped
  <2>2. [starts EXCEPT ![i] = "proxy"] \in Seq({"load", "inhibit", "proxy"})
    BY TypedFacts
  <2> QED BY <1>a, <2>1, <2>2
<1>5. HistoryTyped'
  BY <1>1, <1>3, <1>4, TypedFacts DEF HistoryTyped, clockVars, recordVars, offsetVars, Parts
<1>6. ASSUME Clean' PROVE HistoryInOrder'
  <2>1. HistoryInOrder
    BY <1>1, <1>6 DEF StoreInv, Clean
  <2>2. Len(starts) <= 1
    BY <2>1 DEF HistoryInOrder
  <2>3. i = 1 /\ starts # <<>> /\ Len(starts) = 1 /\ RemoveAt(starts, i) = <<>>
    BY <2>2, OnlyStart, TypedFacts
  <2>4. Len(starts') <= 1 /\ (starts' # <<>> => starts'[1] # "load")
    <3>1. /\ Len([starts EXCEPT ![i] = "proxy"]) = 1
          /\ [starts EXCEPT ![i] = "proxy"][1] = "proxy"
      BY <2>3, TypedFacts
    <3> QED BY <1>a, <2>3, <3>1
  <2>5. machine.state # "DISABLED"
    BY Zenon, <2>1, <2>3 DEF HistoryInOrder
  <2>6. /\ now' = now /\ stepped' = stepped /\ machine' = machine /\ conf' = conf
        /\ life' = life /\ file' = file /\ transitions' = transitions
    BY <1>1 DEF clockVars, recordVars
  <2> QED BY Zenon, <1>3, <2>1, <2>4, <2>5, <2>6 DEF HistoryInOrder
<1> QED BY <1>5, <1>6 DEF StoreInv

\* The proxy of the user is there, or not: a transition may be recorded, which is
\* not written to the file.
LEMMA ProxyDoneKeepsOrder ==
  ASSUME StoreInv, NEW i \in DOMAIN starts, ProxyDone(i)
  PROVE  StoreInv'
<1> DEFINE new == Calculate(login)
           tr == IF new = userState THEN transitions
                 ELSE Append(transitions, Entry(new, now))
           m == IF new = userState THEN machine ELSE Recalculated(machine, tr, new)
           more == LoseIf(stepped # 0, IF tr = transitions THEN "timer" ELSE "clock")
<1>1. /\ starts[i] = "proxy" /\ starts' = RemoveAt(starts, i)
      /\ UNCHANGED <<clockVars, conf, life, file, offsetVars, stepped>>
  BY DEF ProxyDone, Ended, envVars
<1>2. new \in {"ACTIVE", "INACTIVE"}
  BY DEF Calculate
<1>3. /\ links' \in Links
      /\ links'.leaked = links.leaked /\ links'.source = links.source
  <2>1. links' = links \/ links' = [links EXCEPT !.user = TRUE]
    BY DEF ProxyDone
  <2> QED BY <2>1, TypedFacts DEF Links
<1>4. starts' \in Seq({"load", "inhibit", "proxy"})
  BY <1>1, TypedFacts, RemoveTyped
<1>5. tr \in Seq(TimedEntries)
  BY <1>2, TypedFacts, AppendTyped
<1>6. \/ UNCHANGED <<userState, transitions, machine>> /\ losses' = losses \cup {"start"}
      \/ /\ userState' = new /\ transitions' = tr
         /\ machine' = Updated(conf, m, tr, new)
         /\ losses' = losses \cup more
  BY DEF ProxyDone
<1>7. /\ Parts \subseteq DOMAIN machine'
      /\ machine.state # "DISABLED" => machine'.state # "DISABLED"
  <2>1. machine.state # "DISABLED" => m.state # "DISABLED"
    BY TypedFacts, RecalculatedFacts
  <2> HIDE DEF m, tr, new
  <2> QED BY <1>6, <2>1, TypedFacts, UpdatedFacts
<1>8. HistoryTyped'
  <2> HIDE DEF m, tr, new
  <2> QED BY <1>1, <1>2, <1>3, <1>4, <1>5, <1>6, <1>7, TypedFacts
         DEF HistoryTyped, clockVars, offsetVars, Parts
<1>9. ASSUME Clean' PROVE HistoryInOrder'
  <2>1. Clean /\ (transitions' # transitions => stepped = 0)
    <3>1. CASE UNCHANGED transitions /\ losses' = losses \cup {"start"}
      BY <1>9, <3>1, LosingMore
    <3>2. CASE transitions' = tr /\ losses' = losses \cup more
      <4> HIDE DEF tr, more
      <4>1. Clean /\ "clock" \notin more
        BY <1>9, <3>2, LosingMore
      <4> QED BY <3>2, <4>1 DEF LoseIf, more
    <3> HIDE DEF tr, more, m
    <3> QED BY <1>6, <3>1, <3>2
  <2>2. HistoryInOrder
    BY <2>1 DEF StoreInv
  <2>3. Len(starts) <= 1
    BY <2>2 DEF HistoryInOrder
  <2>4. i = 1 /\ starts # <<>> /\ Len(starts) = 1 /\ starts' = <<>>
    BY <1>1, <2>3, OnlyStart, TypedFacts
  <2>5. machine.state # "DISABLED" /\ ~links.leaked /\ Sorted(file)
    BY Zenon, <2>2, <2>4 DEF HistoryInOrder
  <2>6. InOrder(transitions, now - stepped)
    BY <2>2, <2>5 DEF HistoryInOrder
  <2>7. InOrder(transitions', now - stepped)
    <3>1. CASE transitions' = transitions
      BY <2>6, <3>1
    <3>2. CASE transitions' # transitions
      <4>1. stepped = 0 /\ now - stepped = now
        BY <2>1, <3>2, TypedFacts
      <4>2. InOrder(Append(transitions, Entry(new, now)), now)
        BY <1>2, <2>6, <4>1, TypedFacts, AppendInOrder
      <4>3. transitions' = Append(transitions, Entry(new, now))
        <5> HIDE DEF m, more, new
        <5> QED BY <1>6, <3>2
      <4> QED BY <4>1, <4>2, <4>3
    <3> QED BY <3>1, <3>2
  <2>8. /\ now' = now /\ stepped' = stepped /\ conf' = conf /\ life' = life /\ file' = file
    BY <1>1 DEF clockVars
  <2>9. Len(starts') <= 1 /\ machine'.state # "DISABLED" /\ ~links'.leaked
    BY <1>3, <1>7, <2>4, <2>5
  <2> HIDE DEF m, more, new, tr
  <2> QED BY Zenon, <2>4, <2>5, <2>7, <2>8, <2>9 DEF HistoryInOrder
<1> QED BY <1>8, <1>9 DEF StoreInv

---------------------------------------------------------------------------

\* StoreInv is an inductive invariant of the time limits manager.
THEOREM HistoryStaysInOrder == Spec => []StoreInv
<1>1. Init => StoreInv
  <2> SUFFICES ASSUME Init PROVE StoreInv
    OBVIOUS
  <2>1. /\ now = StartTime /\ offset = StartTime /\ clockOffset = 0 /\ stepped = 0
        /\ life = "down" /\ machine = Off /\ userState = "INACTIVE"
        /\ transitions = <<>> /\ file = <<>> /\ links = NoLinks /\ starts = <<>>
    BY DEF Init
  <2>2. Parts \subseteq DOMAIN machine /\ machine.state = "DISABLED" /\ machine.timer = NoTimer
    BY <2>1 DEF Off, Parts
  <2>3. links \in Links /\ ~links.leaked /\ ~links.source /\ ~links.user
    BY <2>1 DEF Links, NoLinks
  <2>4. HistoryTyped
    BY <2>1, <2>2, <2>3, TimeLimitsAssumption, EmptyInOrder DEF HistoryTyped, Parts
  <2>5. Sorted(file) /\ Len(starts) <= 1 /\ life # "up"
    BY <2>1 DEF Sorted
  <2>6. HistoryInOrder
    BY Zenon, <2>1, <2>2, <2>3, <2>5 DEF HistoryInOrder, StopsRecording
  <2> QED BY <2>4, <2>6 DEF StoreInv
<1>2. StoreInv /\ [Next]_vars => StoreInv'
  <2> SUFFICES ASSUME StoreInv, [Next]_vars PROVE StoreInv'
    OBVIOUS
  <2>1. ASSUME NEW cf \in Changed(conf) \ {conf}, SettingsChange(cf) PROVE StoreInv'
    BY <2>1, SettingsChangeKeepsOrder
  <2>2. ASSUME NEW i \in DOMAIN starts, LoadDone(i) PROVE StoreInv'
    BY <2>2, LoadDoneKeepsOrder
  <2>3. ASSUME NEW i \in DOMAIN starts, InhibitDone(i) PROVE StoreInv'
    BY <2>3, InhibitDoneKeepsOrder
  <2>4. ASSUME NEW i \in DOMAIN starts, ProxyDone(i) PROVE StoreInv'
    BY <2>4, ProxyDoneKeepsOrder
  <2>5. CASE LoginChange
    BY <2>5, LoginChangeKeepsOrder
  <2>6. CASE PrepareForSleep
    BY <2>6, PrepareForSleepKeepsOrder
  <2>7. CASE WakeUp
    BY <2>7, WakeUpKeepsOrder
  <2>8. CASE TimerFires \/ Tick \/ SleepTick
    BY <2>8, TimePassesInOrder
  <2>9. CASE ClockChanged
    BY <2>9, ClockChangedKeepsOrder
  <2>10. ASSUME NEW d \in ClockSteps, ClockStep(d) PROVE StoreInv'
    BY <2>10, ClockStepKeepsOrder
  <2>11. CASE Shutdown
    BY <2>11, ShutdownKeepsOrder
  <2>12. CASE ExitAfterShutdown \/ Crash
    <3>1. Exit /\ losses \subseteq losses'
      BY <2>12 DEF ExitAfterShutdown, Crash
    <3> QED BY <3>1, ExitKeepsOrder
  <2>13. CASE Boot
    BY <2>13, BootKeepsOrder
  <2>14. CASE UNCHANGED vars
    <3>1. /\ now' = now /\ offset' = offset /\ stepped' = stepped /\ starts' = starts /\ links' = links
          /\ machine' = machine /\ file' = file /\ transitions' = transitions /\ losses' = losses
          /\ userState' = userState /\ clockOffset' = clockOffset /\ life' = life /\ conf' = conf
      BY <2>14 DEF vars, clockVars, envVars, recordVars, offsetVars
    <3> QED BY Zenon, <3>1 DEF StoreInv, HistoryTyped, HistoryInOrder, StopsRecording, Clean
  <2> QED
    BY Zenon, <2>1, <2>2, <2>3, <2>4, <2>5, <2>6, <2>7, <2>8, <2>9, <2>10, <2>11, <2>12, <2>13,
       <2>14 DEF Next
<1> QED BY <1>1, <1>2, PTL DEF Spec

\* The file is loaded in full: as long as no clock step went unwatched and no
\* starts overlapped, its times never decrease, whatever write failed, and however
\* the shell ended (_storeTransitions, _loadTransitions).
THEOREM StoredHistoryLoads == Spec => []StoredIsLoadable
<1>1. StoreInv => StoredIsLoadable
  BY DEF StoreInv, HistoryInOrder, Clean, Sorted, StoredIsLoadable
<1> QED BY <1>1, HistoryStaysInOrder, PTL

---------------------------------------------------------------------------
(* Days.                                                                   *)

\* Quotient and remainder.
LEMMA DivFacts ==
  ASSUME NEW t \in Int, NEW D \in Nat \ {0}
  PROVE  /\ t \div D \in Int
         /\ (t \div D) * D <= t
         /\ t < (t \div D) * D + D
BY SMT

\* Multiples of D are D apart.
LEMMA MultiplesApart ==
  ASSUME NEW D \in Nat \ {0}, NEW q \in Int, NEW r \in Int
  PROVE  /\ q * D \in Int /\ r * D \in Int
         /\ q < r => q * D + D <= r * D
         /\ q <= r => q * D <= r * D
<1>1. q < r => (q + 1) * D <= r * D
  BY SMT
<1>2. (q + 1) * D = q * D + D
  BY SMT
<1> QED BY <1>1, <1>2, SMT

\* A second later it is the same day, or the next one has just begun.
LEMMA DayFacts ==
  ASSUME NEW t \in Int
  PROVE  /\ StartOfToday(t) \in Int /\ StartOfToday(t) <= t /\ t < StartOfTomorrow(t)
         /\ StartOfTomorrow(t) \in Int /\ t - StartOfToday(t) < DayLength
         /\ StartOfToday(t + 1) = StartOfToday(t) \/ StartOfToday(t + 1) = t + 1
<1> DEFINE q == t \div DayLength
           r == (t + 1) \div DayLength
<1>1. /\ q \in Int /\ q * DayLength <= t /\ t < q * DayLength + DayLength
      /\ r \in Int /\ r * DayLength <= t + 1 /\ t + 1 < r * DayLength + DayLength
      /\ DayLength \in Nat
  BY DivFacts, TimeLimitsAssumption
<1> HIDE DEF q, r
<1>2. /\ q * DayLength \in Int /\ r * DayLength \in Int
      /\ q < r => q * DayLength + DayLength <= r * DayLength
      /\ r < q => r * DayLength + DayLength <= q * DayLength
  BY <1>1, MultiplesApart, TimeLimitsAssumption
<1> DEFINE a == q * DayLength
           b == r * DayLength
<1>3. StartOfToday(t) = a /\ StartOfToday(t + 1) = b /\ StartOfTomorrow(t) = a + DayLength
  BY DEF StartOfToday, StartOfTomorrow, q, r
<1>4. q = r => a = b
  OBVIOUS
<1> HIDE DEF a, b
<1>5. a \in Int /\ b \in Int /\ a <= t /\ t < a + DayLength /\ b <= t + 1 /\ t + 1 < b + DayLength
      /\ (q < r => a + DayLength <= b) /\ (r < q => b + DayLength <= a)
  BY <1>1, <1>2 DEF a, b
<1>6. a = b \/ b = t + 1
  BY <1>1, <1>4, <1>5
<1> QED BY <1>1, <1>3, <1>5, <1>6

\* A set of indices that is not empty has a least and a greatest.
LEMMA EndsOfIndices ==
  ASSUME NEW n \in Nat, NEW I \in SUBSET (1 .. n), I # {}
  PROVE  /\ Max(I) \in I /\ \A i \in I : i <= Max(I)
         /\ Min(I) \in I /\ \A i \in I : Min(I) <= i
<1> DEFINE c == Cardinality(I)
<1>1. /\ c \in Nat
      /\ \A i \in I : Rank(I, i) \in 1 .. c
      /\ \A i, j \in I : i < j => Rank(I, i) < Rank(I, j)
      /\ \A k \in 1 .. c : \E i \in I : Rank(I, i) = k
  BY RanksAreThere
<1>0. \A i \in I : i \in Nat
  OBVIOUS
<1> HIDE DEF c
<1>2. c \in 1 .. c /\ 1 \in 1 .. c
  <2>1. PICK i \in I : TRUE
    OBVIOUS
  <2>2. Rank(I, i) \in 1 .. c
    BY <1>1
  <2> QED BY <1>1, <2>2
<1>3. PICK a \in I : Rank(I, a) = c
  BY <1>1, <1>2
<1>4. PICK b \in I : Rank(I, b) = 1
  BY <1>1, <1>2
<1>5. \A i \in I : a >= i
  <2> SUFFICES ASSUME NEW i \in I, ~(a >= i) PROVE FALSE
    OBVIOUS
  <2>1. a < i
    BY <1>0
  <2>2. c < Rank(I, i) /\ Rank(I, i) \in 1 .. c
    BY <1>1, <1>3, <2>1
  <2> QED BY <1>1, <2>2
<1>6. \A i \in I : b <= i
  <2> SUFFICES ASSUME NEW i \in I, ~(b <= i) PROVE FALSE
    OBVIOUS
  <2>1. i < b
    BY <1>0
  <2>2. Rank(I, i) < 1 /\ Rank(I, i) \in 1 .. c
    BY <1>1, <1>4, <2>1
  <2> QED BY <1>1, <2>2
<1>7. Max(I) \in I /\ \A i \in I : Max(I) >= i
  <2>1. \E x \in I : \A y \in I : x >= y
    BY <1>5
  <2> QED BY Zenon, <2>1 DEF Max
<1>8. Min(I) \in I /\ \A i \in I : Min(I) <= i
  <2>1. \E x \in I : \A y \in I : x <= y
    BY <1>6
  <2> QED BY Zenon, <2>1 DEF Min
<1> QED BY <1>0, <1>7, <1>8

---------------------------------------------------------------------------
(* Active time.                                                            *)

\* The start of the active period the loop is in: the last transition to active,
\* or the start of the day.
LEMMA SinceFacts ==
  ASSUME NEW s \in Seq(TimedEntries), NEW from \in Int, NEW i \in Int
  PROVE  /\ Since(s, from, i) \in Int
         /\ \/ /\ Since(s, from, i) = from
               /\ \A j \in Today(s, from) : j < i => s[j].new # "ACTIVE"
            \/ \E m \in Today(s, from) :
                 /\ m < i /\ s[m].new = "ACTIVE" /\ Since(s, from, i) = s[m].time
                 /\ \A j \in Today(s, from) : j < i /\ s[j].new = "ACTIVE" => j <= m
<1> DEFINE begun == {j \in Today(s, from) : j < i /\ s[j].new = "ACTIVE"}
<1>1. DOMAIN s = 1 .. Len(s) /\ Len(s) \in Nat /\ \A j \in DOMAIN s : s[j].time \in Int
  BY EntryFacts
<1>2. begun \in SUBSET (1 .. Len(s))
  BY <1>1 DEF Today
<1>3. Since(s, from, i) = IF begun = {} THEN from ELSE s[Max(begun)].time
  BY DEF Since
<1>4. CASE begun = {}
  <2>1. \A j \in Today(s, from) : j < i => s[j].new # "ACTIVE"
    BY <1>4
  <2> QED BY <1>3, <1>4, <2>1
<1>5. CASE begun # {}
  <2> DEFINE m == Max(begun)
  <2>1. m \in begun /\ \A j \in begun : j <= m
    <3> HIDE DEF begun
    <3> QED BY <1>1, <1>2, <1>5, EndsOfIndices
  <2>2. Since(s, from, i) = s[m].time
    BY <1>3, <1>5
  <2> HIDE DEF m
  <2>3. /\ m \in Today(s, from) /\ m < i /\ s[m].new = "ACTIVE"
        /\ \A j \in Today(s, from) : j < i /\ s[j].new = "ACTIVE" => j <= m
    BY <2>1
  <2>4. m \in DOMAIN s
    BY <1>1, <1>2, <2>1
  <2> QED BY <1>1, <2>2, <2>3, <2>4
<1> QED BY <1>4, <1>5

\* The seconds spent are pairs of a transition that ends a period and a second.
LEMMA SpentMembers ==
  ASSUME NEW s, NEW from, NEW k, NEW p
  PROVE  p \in Spent(s, from, k) <=>
           \E i \in Today(s, from) : \E x \in Since(s, from, i) .. s[i].time - 1 :
             i <= k /\ s[i].new = "INACTIVE" /\ p = <<i, x>>
BY DEF Spent

\* They are finitely many.
LEMMA SpentIsFinite ==
  ASSUME NEW s \in Seq(TimedEntries), NEW from \in Int, NEW k
  PROVE  IsFiniteSet(Spent(s, from, k)) /\ Total(s, from, k) \in Nat
<1> DEFINE J == {j \in Today(s, from) : j <= k /\ s[j].new = "INACTIVE"}
           E(i) == {i} \X (Since(s, from, i) .. s[i].time - 1)
           F == {E(i) : i \in J}
           f == [i \in J |-> E(i)]
<1>1. DOMAIN s = 1 .. Len(s) /\ Len(s) \in Nat /\ \A j \in DOMAIN s : s[j].time \in Int
  BY EntryFacts
<1>2. J \in SUBSET (1 .. Len(s))
  BY <1>1 DEF Today
<1>3. IsFiniteSet(J)
  <2>1. IsFiniteSet(1 .. Len(s))
    BY <1>1, FS_Interval
  <2> QED BY <1>2, <2>1, FS_Subset
<1>4. \A i \in J : IsFiniteSet(E(i))
  <2> SUFFICES ASSUME NEW i \in J PROVE IsFiniteSet(E(i))
    OBVIOUS
  <2>1. i \in DOMAIN s /\ i \in Int
    BY <1>1, <1>2
  <2>2. Since(s, from, i) \in Int /\ s[i].time - 1 \in Int
    BY <1>1, <2>1, SinceFacts
  <2>3. IsFiniteSet(Since(s, from, i) .. s[i].time - 1)
    BY <2>2, FS_Interval
  <2> QED BY <2>3, FS_Singleton, FS_Product
<1> HIDE DEF J, E
<1>5. f \in Surjection(J, F)
  BY DEF Surjection
<1>6. IsFiniteSet(F)
  BY <1>3, <1>5, FS_Surjection
<1>7. \A T \in F : IsFiniteSet(T)
  BY <1>4
<1>8. IsFiniteSet(UNION F)
  <2> HIDE DEF F
  <2> QED BY <1>6, <1>7, FS_UNION
<1>9. Spent(s, from, k) = UNION F
  BY DEF Spent, J, E
<1> QED BY <1>8, <1>9, FS_CardinalityType DEF Total

\* What the last, unfinished, period adds.
OpenTime(s, from, t) ==
  IF s # <<>> /\ s[Len(s)].new = "ACTIVE"
  THEN NonNegative(t - Since(s, from, Len(s) + 1)) ELSE 0

\* The active time is that of the ended periods and of the unfinished one.
LEMMA ActiveTimeFacts ==
  ASSUME NEW s \in Seq(TimedEntries), NEW t \in Int
  PROVE  /\ ActiveTime(s, t) = Total(s, StartOfToday(t), Len(s)) + OpenTime(s, StartOfToday(t), t)
         /\ Total(s, StartOfToday(t), Len(s)) \in Nat
         /\ OpenTime(s, StartOfToday(t), t) \in Nat
         /\ ActiveTime(s, t) \in Nat
<1>1. StartOfToday(t) \in Int /\ Len(s) + 1 \in Int
  BY DayFacts, EntryFacts
<1>2. Since(s, StartOfToday(t), Len(s) + 1) \in Int
  BY <1>1, SinceFacts
<1>3. OpenTime(s, StartOfToday(t), t) \in Nat
  BY <1>2 DEF OpenTime, NonNegative
<1>4. Total(s, StartOfToday(t), Len(s)) \in Nat
  BY <1>1, SpentIsFinite
<1>5. ActiveTime(s, t) = Total(s, StartOfToday(t), Len(s)) + OpenTime(s, StartOfToday(t), t)
  BY DEF ActiveTime, OpenTime
<1> QED BY <1>3, <1>4, <1>5

\* In a second no more than a second is added, and nothing is left of the day before.
LEMMA ActiveTimeGrowsSlowly ==
  ASSUME NEW s \in Seq(TimedEntries), NEW t \in Int,
         \A i \in DOMAIN s : s[i].time <= t
  PROVE  ActiveTime(s, t + 1) <= ActiveTime(s, t) + 1
<1> DEFINE from == StartOfToday(t)
           next == StartOfToday(t + 1)
<1>0. t + 1 \in Int
  OBVIOUS
<1>1. from \in Int /\ next \in Int /\ (next = from \/ next = t + 1)
  BY DayFacts, <1>0
<1>2. DOMAIN s = 1 .. Len(s) /\ Len(s) \in Nat /\ \A j \in DOMAIN s : s[j].time \in Int
  BY EntryFacts
<1>3. /\ ActiveTime(s, t) = Total(s, from, Len(s)) + OpenTime(s, from, t)
      /\ Total(s, from, Len(s)) \in Nat /\ OpenTime(s, from, t) \in Nat
      /\ ActiveTime(s, t + 1) = Total(s, next, Len(s)) + OpenTime(s, next, t + 1)
      /\ Total(s, next, Len(s)) \in Nat /\ OpenTime(s, next, t + 1) \in Nat
  BY <1>0, ActiveTimeFacts
<1> HIDE DEF from, next
<1>4. Since(s, from, Len(s) + 1) \in Int
  BY <1>1, <1>2, SinceFacts
<1>5. CASE next = from
  <2>1. OpenTime(s, from, t + 1) <= OpenTime(s, from, t) + 1
    BY <1>4 DEF OpenTime, NonNegative
  <2> QED BY <1>3, <1>5, <2>1
<1>6. CASE next = t + 1
  <2>1. Today(s, next) = {}
    <3>1. \A j \in DOMAIN s : ~(s[j].time >= next)
      BY <1>2, <1>6
    <3> QED BY <3>1 DEF Today
  <2>2. Spent(s, next, Len(s)) = {}
    BY <2>1 DEF Spent
  <2>3. Total(s, next, Len(s)) = 0
    BY <2>2, FS_EmptySet DEF Total
  <2>4. Since(s, next, Len(s) + 1) = next
    BY <2>1 DEF Since
  <2>5. OpenTime(s, next, t + 1) = 0
    BY <1>6, <2>4 DEF OpenTime, NonNegative
  <2> QED BY <1>3, <2>3, <2>5
<1> QED BY <1>1, <1>5, <1>6

---------------------------------------------------------------------------
(* Trimming and active time.                                               *)

\* p is what is picked of s at I, the k-th element being the one at at[k].
Picked(p, s, I, at) ==
  /\ at \in [DOMAIN p -> I]
  /\ \A k \in DOMAIN p : p[k] = s[at[k]] /\ Rank(I, at[k]) = k
  /\ \A j, k \in DOMAIN p : j < k <=> at[j] < at[k]
  /\ \A i \in I : \E k \in DOMAIN p : at[k] = i

\* What is picked comes from the picked indices, in their order, all of them.
LEMMA PickPlaces ==
  ASSUME NEW E, NEW s \in Seq(E), NEW I \in SUBSET DOMAIN s
  PROVE  /\ Cardinality(I) \in Nat
         /\ Pick(s, I) \in Seq(E) /\ Len(Pick(s, I)) = Cardinality(I)
         /\ \E at : Picked(Pick(s, I), s, I, at)
<1> DEFINE c == Cardinality(I)
           at == [k \in 1 .. c |-> CHOOSE i \in I : Rank(I, i) = k]
<1>1. Len(s) \in Nat /\ DOMAIN s = 1 .. Len(s)
  OBVIOUS
<1>2. /\ c \in Nat
      /\ \A i \in I : Rank(I, i) \in 1 .. c
      /\ \A i, j \in I : i < j => Rank(I, i) < Rank(I, j)
      /\ \A k \in 1 .. c : \E i \in I : Rank(I, i) = k
  BY <1>1, RanksAreThere
<1>3. \A k \in 1 .. c : at[k] \in I /\ Rank(I, at[k]) = k
  BY <1>2
<1>4. Pick(s, I) = [k \in 1 .. c |-> s[at[k]]]
  BY DEF Pick
<1>5. at \in [1 .. c -> I]
  BY <1>3
<1>0. \A i \in I : i \in Nat
  BY <1>1
<1> HIDE DEF at, c
<1>6. Pick(s, I) \in Seq(E) /\ Len(Pick(s, I)) = c /\ DOMAIN Pick(s, I) = 1 .. c
  <2>1. \A k \in 1 .. c : s[at[k]] \in E
    BY <1>1, <1>5
  <2> DEFINE t == [k \in 1 .. c |-> s[at[k]]]
  <2>2. t \in [1 .. c -> E] /\ DOMAIN t = 1 .. c
    BY <2>1
  <2> HIDE DEF t
  <2>3. t \in Seq(E) /\ Len(t) = c
    BY <1>2, <2>2
  <2> QED BY <1>4, <2>2, <2>3 DEF t
<1>7. \A i, j \in I : Rank(I, i) < Rank(I, j) => i < j
  <2> SUFFICES ASSUME NEW i \in I, NEW j \in I, Rank(I, i) < Rank(I, j), ~(i < j) PROVE FALSE
    OBVIOUS
  <2>1. i = j \/ j < i
    BY <1>0
  <2>2. Rank(I, i) \in Int /\ Rank(I, j) \in Int
    BY <1>2
  <2>3. i # j
    BY <2>2
  <2>4. Rank(I, j) < Rank(I, i)
    BY <1>2, <2>1, <2>3
  <2> QED BY <2>2, <2>4
<1>8. \A j, k \in 1 .. c : j < k <=> at[j] < at[k]
  BY <1>2, <1>3, <1>7
<1>9. \A i \in I : \E k \in 1 .. c : at[k] = i
  <2> SUFFICES ASSUME NEW i \in I PROVE \E k \in 1 .. c : at[k] = i
    OBVIOUS
  <2> DEFINE k == Rank(I, i)
  <2>1. k \in 1 .. c /\ at[k] \in I /\ Rank(I, at[k]) = k
    BY <1>2, <1>3
  <2>2. ~(at[k] < i) /\ ~(i < at[k])
    BY <1>2, <2>1
  <2>3. at[k] \in Nat /\ i \in Nat
    BY <1>0, <2>1
  <2> HIDE DEF k
  <2> QED BY <2>1, <2>2, <2>3
<1>10. \A k \in 1 .. c : Pick(s, I)[k] = s[at[k]]
  BY <1>4
<1>11. Picked(Pick(s, I), s, I, at)
  BY <1>3, <1>5, <1>6, <1>8, <1>9, <1>10 DEF Picked
<1> QED BY <1>2, <1>6, <1>11 DEF c

\* Picking everything changes nothing.
LEMMA PickAll ==
  ASSUME NEW E, NEW s \in Seq(E)
  PROVE  Pick(s, DOMAIN s) = s
<1> DEFINE p == Pick(s, DOMAIN s)
<1>1. Len(s) \in Nat /\ DOMAIN s = 1 .. Len(s)
  OBVIOUS
<1>2. Cardinality(DOMAIN s) = Len(s)
  BY <1>1, FS_Interval
<1>3. /\ p \in Seq(E) /\ Len(p) = Len(s)
      /\ \E at : Picked(p, s, DOMAIN s, at)
  BY <1>2, PickPlaces
<1>4. PICK at : Picked(p, s, DOMAIN s, at)
  BY <1>3
<1>5. \A i \in DOMAIN s : Rank(DOMAIN s, i) = i
  <2> SUFFICES ASSUME NEW i \in DOMAIN s PROVE Rank(DOMAIN s, i) = i
    OBVIOUS
  <2>1. {j \in 1 .. Len(s) : j <= i} = 1 .. i /\ i \in Nat
    BY <1>1
  <2>2. Cardinality(1 .. i) = i
    BY <2>1, FS_Interval
  <2> QED BY <1>1, <2>1, <2>2 DEF Rank
<1> HIDE DEF p
<1>6. DOMAIN p = DOMAIN s
  BY <1>1, <1>3
<1>7. \A k \in DOMAIN s : p[k] = s[k]
  BY <1>4, <1>5, <1>6 DEF Picked
<1>8. p = s
  BY <1>1, <1>3, <1>7
<1> QED BY <1>8 DEF p

\* Entries are only dropped if they are of before the day, or of the future.
LEMMA KeptFacts ==
  ASSUME NEW s \in Seq(TimedEntries), NEW t \in Int, \A i \in DOMAIN s : s[i].time <= t
  PROVE  /\ KeptAt(s, t) \in SUBSET DOMAIN s
         /\ \A i \in DOMAIN s : s[i].time >= StartOfToday(t) => i \in KeptAt(s, t)
         /\ \A i \in DOMAIN s \ KeptAt(s, t) : s[i].time < t - Threshold
         /\ t - Threshold <= StartOfToday(t) /\ t - Threshold \in Int
         /\ s # <<>> => Len(s) \in KeptAt(s, t)
<1>1. DOMAIN s = 1 .. Len(s) /\ Len(s) \in Nat /\ \A j \in DOMAIN s : s[j].time \in Int
  BY EntryFacts
<1>2. /\ t - Threshold <= StartOfToday(t) /\ t - Threshold \in Int
      /\ StartOfToday(t) \in Int
  <2>1. StartOfToday(t) \in Int /\ t - StartOfToday(t) < DayLength
    BY DayFacts
  <2>2. DayLength \in Nat /\ Threshold \in Nat /\ Threshold >= DayLength
    BY TimeLimitsAssumption
  <2> QED BY <2>1, <2>2
<1>3. s # <<>> => Len(s) \in DOMAIN s
  BY <1>1
<1>4. \A i \in DOMAIN s : s[i].time >= StartOfToday(t) => s[i].time >= t - Threshold
  BY <1>1, <1>2
<1>5. \A i \in DOMAIN s : ~(s[i].time >= t - Threshold) => s[i].time < t - Threshold
  BY <1>1, <1>2
<1> QED BY <1>2, <1>3, <1>4, <1>5 DEF KeptAt

\* No active period gets longer as old entries are dropped.
LEMMA PickStartsLater ==
  ASSUME NEW s \in Seq(TimedEntries), NEW t \in Int, \A i \in DOMAIN s : s[i].time <= t,
         NEW p \in Seq(TimedEntries), NEW at, Picked(p, s, KeptAt(s, t), at),
         NEW k \in Int, NEW a \in Int, \A j \in DOMAIN p : j < k <=> at[j] < a
  PROVE  Since(s, StartOfToday(t), a) <= Since(p, StartOfToday(t), k)
<1> DEFINE from == StartOfToday(t)
           c == Len(p)
<1>1. DOMAIN s = 1 .. Len(s) /\ Len(s) \in Nat /\ \A j \in DOMAIN s : s[j].time \in Int
  BY EntryFacts
<1>2. c \in Nat /\ DOMAIN p = 1 .. c /\ \A j \in 1 .. c : p[j].time \in Int
  BY EntryFacts
<1> HIDE DEF c
<1>a. /\ at \in [1 .. c -> KeptAt(s, t)]
      /\ \A j \in 1 .. c : p[j] = s[at[j]] /\ (j < k <=> at[j] < a)
      /\ \A i, j \in 1 .. c : i < j <=> at[i] < at[j]
      /\ \A i \in KeptAt(s, t) : \E j \in 1 .. c : at[j] = i
  BY <1>2 DEF Picked
<1>3. /\ KeptAt(s, t) \in SUBSET DOMAIN s
      /\ \A i \in DOMAIN s : s[i].time >= from => i \in KeptAt(s, t)
      /\ \A i \in DOMAIN s \ KeptAt(s, t) : s[i].time < t - Threshold
      /\ t - Threshold <= from /\ t - Threshold \in Int
  BY KeptFacts
<1>4. from \in Int
  BY DayFacts
<1>5. \A j \in 1 .. c : at[j] \in DOMAIN s /\ at[j] \in Nat /\ at[j] \in KeptAt(s, t)
  BY <1>1, <1>3, <1>a
<1> HIDE DEF from
<1>6. \A j \in 1 .. c : j \in Today(p, from) <=> at[j] \in Today(s, from)
  <2> SUFFICES ASSUME NEW j \in 1 .. c PROVE j \in Today(p, from) <=> at[j] \in Today(s, from)
    OBVIOUS
  <2>1. ASSUME j \in Today(p, from) PROVE at[j] \in Today(s, from)
    <3>1. PICK i \in 1 .. c : i <= j /\ p[i].time >= from
      BY <1>2, <1>a, <2>1 DEF Today
    <3>2. at[i] \in DOMAIN s /\ at[i] <= at[j] /\ s[at[i]].time >= from
      <4>1. i = j \/ i < j
        BY <1>a, <3>1
      <4> QED BY <1>5, <1>a, <3>1, <4>1
    <3> QED BY <1>a, <1>5, <3>2 DEF Today
  <2>2. ASSUME at[j] \in Today(s, from) PROVE j \in Today(p, from)
    <3>1. PICK i \in DOMAIN s : i <= at[j] /\ s[i].time >= from
      BY <1>a, <2>2 DEF Today
    <3>2. i \in KeptAt(s, t)
      BY <1>a, <1>3, <3>1
    <3>3. PICK h \in 1 .. c : at[h] = i
      BY <1>a, <3>2
    <3>4. h <= j
      <4>1. ~(j < h)
        BY <1>a, <1>1, <1>5, <3>1, <3>3
      <4> QED BY <1>a, <4>1
    <3> QED BY <1>a, <1>2, <3>1, <3>3, <3>4 DEF Today
  <2> QED BY <1>a, <2>1, <2>2
<1>7. Since(s, from, a) \in Int /\ Since(p, from, k) \in Int
  BY <1>4, SinceFacts
<1>8. \/ Since(p, from, k) = from
      \/ \E m \in Today(p, from) :
           /\ m < k /\ p[m].new = "ACTIVE" /\ Since(p, from, k) = p[m].time
           /\ \A j \in Today(p, from) : j < k /\ p[j].new = "ACTIVE" => j <= m
  BY <1>4, SinceFacts
<1>9. \/ /\ Since(s, from, a) = from
         /\ \A j \in Today(s, from) : j < a => s[j].new # "ACTIVE"
      \/ \E m \in Today(s, from) :
           /\ m < a /\ s[m].new = "ACTIVE" /\ Since(s, from, a) = s[m].time
           /\ \A j \in Today(s, from) : j < a /\ s[j].new = "ACTIVE" => j <= m
  BY <1>4, SinceFacts
<1>10. ASSUME Since(s, from, a) = from,
              \A j \in Today(s, from) : j < a => s[j].new # "ACTIVE"
       PROVE  Since(s, from, a) <= Since(p, from, k)
  <2>1. \A m \in Today(p, from) : m < k => p[m].new # "ACTIVE"
    <3> SUFFICES ASSUME NEW m \in Today(p, from), m < k PROVE p[m].new # "ACTIVE"
      OBVIOUS
    <3>1. m \in 1 .. c
      BY <1>a, <1>2 DEF Today
    <3> QED BY <1>a, <1>6, <1>10, <3>1
  <2> QED BY <1>a, <1>7, <1>8, <1>10, <2>1
<1>11. ASSUME NEW m \in Today(s, from), m < a, s[m].new = "ACTIVE", Since(s, from, a) = s[m].time,
              \A j \in Today(s, from) : j < a /\ s[j].new = "ACTIVE" => j <= m
       PROVE  Since(s, from, a) <= Since(p, from, k)
  <2>0. m \in DOMAIN s /\ m \in Nat
    BY <1>a, <1>1 DEF Today
  <2>1. CASE m \in KeptAt(s, t)
    <3>1. PICK h \in 1 .. c : at[h] = m
      BY <1>a, <2>1
    <3>2. h \in Today(p, from) /\ h < k /\ p[h].new = "ACTIVE" /\ p[h].time = s[m].time
      BY <1>a, <1>6, <1>11, <3>1
    <3>3. \A j \in Today(p, from) : j < k /\ p[j].new = "ACTIVE" => j <= h
      <4> SUFFICES ASSUME NEW j \in Today(p, from), j < k, p[j].new = "ACTIVE" PROVE j <= h
        OBVIOUS
      <4>1. j \in 1 .. c
        BY <1>a, <1>2 DEF Today
      <4>2. at[j] <= m
        BY <1>a, <1>6, <1>11, <4>1
      <4>3. ~(h < j)
        BY <1>a, <1>5, <2>0, <3>1, <4>1, <4>2
      <4> QED BY <1>a, <4>1, <4>3
    <3>4. Since(p, from, k) = p[h].time
      <4>1. \A j \in Today(p, from) : j \in 1 .. c
        BY <1>a, <1>2 DEF Today
      <4>2. Since(p, from, k) = from => \E q \in Today(p, from) :
               /\ q < k /\ p[q].new = "ACTIVE" /\ Since(p, from, k) = p[q].time
               /\ \A j \in Today(p, from) : j < k /\ p[j].new = "ACTIVE" => j <= q
        BY <1>a, <1>4, <3>2, SinceFacts
      <4>3. PICK q \in Today(p, from) :
               /\ q < k /\ p[q].new = "ACTIVE" /\ Since(p, from, k) = p[q].time
               /\ \A j \in Today(p, from) : j < k /\ p[j].new = "ACTIVE" => j <= q
        BY <1>a, <1>8, <4>2
      <4>4. q = h
        BY <1>a, <3>2, <3>3, <4>1, <4>3
      <4> QED BY <1>a, <4>3, <4>4
    <3> QED BY <1>a, <1>2, <1>11, <3>1, <3>2, <3>4
  <2>2. CASE m \notin KeptAt(s, t)
    <3>1. s[m].time < t - Threshold /\ s[m].time \in Int
      BY <1>a, <1>1, <1>3, <2>0, <2>2
    <3>2. CASE Since(p, from, k) = from
      BY <1>a, <1>3, <1>4, <1>11, <3>1, <3>2
    <3>3. ASSUME NEW q \in Today(p, from), q < k, p[q].new = "ACTIVE", Since(p, from, k) = p[q].time
          PROVE  Since(s, from, a) <= Since(p, from, k)
      <4>1. q \in 1 .. c
        BY <1>a, <1>2 DEF Today
      <4>2. at[q] <= m /\ at[q] # m /\ at[q] \in Nat
        BY <1>a, <1>5, <1>6, <1>11, <2>2, <3>3, <4>1
      <4>3. at[q] # Len(s)
        BY <1>a, <1>1, <2>0, <4>2
      <4>4. s[at[q]].time >= t - Threshold
        BY <1>a, <1>5, <4>1, <4>3 DEF KeptAt
      <4>5. p[q].time = s[at[q]].time /\ s[at[q]].time \in Int
        BY <1>a, <1>1, <1>5, <4>1
      <4> QED BY <1>a, <1>3, <1>11, <3>1, <3>3, <4>4, <4>5
    <3> QED BY <1>a, <1>8, <3>2, <3>3
  <2> QED BY <1>a, <2>1, <2>2
<1> QED BY <1>a, <1>9, <1>10, <1>11 DEF from

\* The trimming before the history is stored adds nothing to the active time.
LEMMA TrimAddsNothing ==
  ASSUME NEW s \in Seq(TimedEntries), NEW t \in Int, \A i \in DOMAIN s : s[i].time <= t,
         Cancelling(Pick(s, KeptAt(s, t))) = {}
  PROVE  ActiveTime(Trim(s, t), t) <= ActiveTime(s, t)
<1> DEFINE p == Pick(s, KeptAt(s, t))
           c == Len(p)
           from == StartOfToday(t)
<1>1. DOMAIN s = 1 .. Len(s) /\ Len(s) \in Nat /\ \A j \in DOMAIN s : s[j].time \in Int
  BY EntryFacts
<1>2. /\ KeptAt(s, t) \in SUBSET DOMAIN s
      /\ \A i \in DOMAIN s : s[i].time >= from => i \in KeptAt(s, t)
      /\ s # <<>> => Len(s) \in KeptAt(s, t)
  BY KeptFacts
<1>3. /\ c \in Nat /\ p \in Seq(TimedEntries) /\ Len(p) = c
      /\ c = Cardinality(KeptAt(s, t)) /\ \E at : Picked(p, s, KeptAt(s, t), at)
  BY <1>2, PickPlaces
<1>a. PICK at : Picked(p, s, KeptAt(s, t), at)
  BY <1>3
<1>4. /\ at \in [1 .. c -> KeptAt(s, t)]
      /\ \A k \in 1 .. c : p[k] = s[at[k]]
      /\ \A j, k \in 1 .. c : j < k <=> at[j] < at[k]
      /\ \A i \in KeptAt(s, t) : \E k \in 1 .. c : at[k] = i
  <2> HIDE DEF p
  <2>1. DOMAIN p = 1 .. c
    BY <1>3
  <2> QED BY <1>a, <2>1 DEF Picked
<1>5. Trim(s, t) = p
  <2>1. DOMAIN p \ Cancelling(p) = DOMAIN p
    OBVIOUS
  <2>2. Pick(p, DOMAIN p) = p
    BY <1>3, PickAll
  <2> QED BY <2>1, <2>2 DEF Trim, DropPairs
<1> HIDE DEF p, c
<1>6. DOMAIN p = 1 .. c
  BY <1>3
<1>7. \A j \in 1 .. c : at[j] \in DOMAIN s /\ at[j] \in Nat /\ at[j] <= Len(s)
  BY <1>1, <1>2, <1>4
<1>8. ASSUME NEW k \in Int, NEW a \in Int, \A j \in 1 .. c : j < k <=> at[j] < a
      PROVE  Since(s, from, a) <= Since(p, from, k)
  BY <1>3, <1>6, <1>8, <1>a, PickStartsLater
<1>0. from \in Int
  BY DayFacts
<1> HIDE DEF from
<1>9. Total(p, from, Len(p)) <= Total(s, from, Len(s))
  <2> DEFINE f == [q \in Spent(p, from, Len(p)) |-> <<at[q[1]], q[2]>>]
  <2>1. ASSUME NEW q \in Spent(p, from, Len(p))
        PROVE  /\ q[1] \in 1 .. c /\ q = <<q[1], q[2]>>
               /\ <<at[q[1]], q[2]>> \in Spent(s, from, Len(s))
    <3>1. PICK i \in Today(p, from) : \E x \in Since(p, from, i) .. p[i].time - 1 :
             i <= Len(p) /\ p[i].new = "INACTIVE" /\ q = <<i, x>>
      BY SpentMembers
    <3>2. PICK x \in Since(p, from, i) .. p[i].time - 1 : p[i].new = "INACTIVE" /\ q = <<i, x>>
      BY <3>1
    <3>3. i \in 1 .. c /\ i \in Int
      BY <1>6 DEF Today
    <3>4. at[i] \in Today(s, from)
      <4>1. PICK j \in 1 .. c : j <= i /\ p[j].time >= from
        BY <1>6 DEF Today
      <4>2. at[j] <= at[i] /\ s[at[j]].time >= from
        <5>1. j = i \/ j < i
          BY <3>3, <4>1
        <5>2. at[j] = at[i] \/ at[j] < at[i]
          BY <1>4, <3>3, <5>1
        <5> QED BY <1>4, <1>7, <3>3, <4>1, <5>2
      <4> QED BY <1>7, <3>3, <4>2 DEF Today
    <3>5. Since(s, from, at[i]) <= Since(p, from, i)
      <4>1. at[i] \in Int
        BY <1>7, <3>3
      <4> QED BY <1>4, <1>8, <3>3, <4>1
    <3>6. s[at[i]] = p[i] /\ s[at[i]].time \in Int
      BY <1>1, <1>4, <1>7, <3>3
    <3>7. Since(s, from, at[i]) \in Int /\ Since(p, from, i) \in Int
      BY <1>0, <1>3, <1>7, <3>3, SinceFacts
    <3>8. x \in Since(s, from, at[i]) .. s[at[i]].time - 1
      BY <3>2, <3>5, <3>6, <3>7
    <3>9. <<at[i], x>> \in Spent(s, from, Len(s))
      BY <1>7, <3>2, <3>3, <3>4, <3>6, <3>8, SpentMembers
    <3>10. q[1] = i /\ q[2] = x
      BY <3>2
    <3> QED BY <3>2, <3>3, <3>9, <3>10
  <2>2. \A j, k \in 1 .. c : at[j] = at[k] => j = k
    <3> SUFFICES ASSUME NEW j \in 1 .. c, NEW k \in 1 .. c, at[j] = at[k] PROVE j = k
      OBVIOUS
    <3>1. ~(at[j] < at[k]) /\ ~(at[k] < at[j])
      BY <1>7
    <3>2. ~(j < k) /\ ~(k < j)
      BY <1>4, <3>1
    <3> QED BY <3>2
  <2>3. f \in [Spent(p, from, Len(p)) -> Spent(s, from, Len(s))]
    BY <2>1
  <2>4. ASSUME NEW q \in Spent(p, from, Len(p)), NEW r \in Spent(p, from, Len(p)), f[q] = f[r]
        PROVE  q = r
    <3>1. f[q] = <<at[q[1]], q[2]>> /\ f[r] = <<at[r[1]], r[2]>>
      OBVIOUS
    <3> HIDE DEF f
    <3>2. at[q[1]] = at[r[1]] /\ q[2] = r[2]
      <4> DEFINE a == at[q[1]]
                 b == at[r[1]]
      <4>1. <<a, q[2]>> = <<b, r[2]>>
        BY <2>4, <3>1
      <4> HIDE DEF a, b
      <4>2. a = b /\ q[2] = r[2]
        BY <4>1
      <4> QED BY <4>2 DEF a, b
    <3>3. q[1] = r[1]
      BY <2>1, <2>2, <3>2
    <3>4. q = <<q[1], q[2]>> /\ r = <<r[1], r[2]>>
      BY <2>1
    <3> QED BY <3>2, <3>3, <3>4
  <2> HIDE DEF f
  <2>5. f \in Injection(Spent(p, from, Len(p)), Spent(s, from, Len(s)))
    BY <2>3, <2>4 DEF Injection, IsInjective
  <2>6. IsFiniteSet(Spent(s, from, Len(s)))
    BY <1>0, SpentIsFinite
  <2> QED BY <2>5, <2>6, FS_Injection DEF Total
<1>10. OpenTime(p, from, t) <= OpenTime(s, from, t)
  <2>1. CASE s = <<>>
    <3>1. KeptAt(s, t) = {}
      BY <1>2, <2>1
    <3>2. c = 0
      BY <1>3, <3>1, FS_EmptySet
    <3>3. p = <<>>
      BY <1>3, <3>2
    <3> QED BY <2>1, <3>3 DEF OpenTime
  <2>2. CASE s # <<>>
    <3>1. PICK h \in 1 .. c : at[h] = Len(s)
      BY <1>2, <1>4, <2>2
    <3>2. h = c
      <4>1. c \in 1 .. c
        BY <1>3, <3>1
      <4>2. ~(at[h] < at[c])
        BY <1>1, <1>7, <3>1, <4>1
      <4>3. ~(h < c)
        BY <1>4, <4>1, <4>2
      <4> QED BY <1>3, <4>3
    <3>3. p # <<>> /\ p[Len(p)] = s[Len(s)]
      BY <1>3, <1>4, <3>1, <3>2
    <3>4. Since(s, from, Len(s) + 1) <= Since(p, from, Len(p) + 1)
      <4>1. \A j \in 1 .. c : j < Len(p) + 1 <=> at[j] < Len(s) + 1
        BY <1>1, <1>3, <1>7
      <4>2. Len(p) + 1 \in Int /\ Len(s) + 1 \in Int
        BY <1>1, <1>3
      <4> QED BY <1>8, <4>1, <4>2
    <3>5. Since(s, from, Len(s) + 1) \in Int /\ Since(p, from, Len(p) + 1) \in Int
      BY <1>0, <1>1, <1>3, SinceFacts
    <3> QED BY <2>2, <3>3, <3>4, <3>5 DEF OpenTime, NonNegative
  <2> QED BY <2>1, <2>2
<1>11. /\ ActiveTime(s, t) = Total(s, from, Len(s)) + OpenTime(s, from, t)
       /\ ActiveTime(p, t) = Total(p, from, Len(p)) + OpenTime(p, from, t)
       /\ Total(s, from, Len(s)) \in Nat /\ OpenTime(s, from, t) \in Nat
       /\ Total(p, from, Len(p)) \in Nat /\ OpenTime(p, from, t) \in Nat
  BY <1>3, ActiveTimeFacts DEF from
<1> QED BY <1>5, <1>9, <1>10, <1>11

---------------------------------------------------------------------------
(* The timer of the limit.                                                 *)

\* The history may have gaps, but no clock step was missed and every start took.
Trusted == losses \subseteq {"crash", "load", "store", "restart"}

\* A start awaits `what'.
Awaiting(what) == \E i \in DOMAIN starts : starts[i] = what

\* Once started, the manager hears of the user and of sleep, or still is starting;
\* steps that are not watched are not waited for.
LinksFollow ==
  /\ links.source => links.manager
  /\ ~links.source => stepped = 0
  /\ links.manager => starts # <<>> \/ links.user
  /\ links.manager => links.sleep \/ Awaiting("inhibit")

\* A user taken to be active is, or the start is under way.
UserFollows ==
  /\ machine.state # "DISABLED" /\ ~links.manager /\ userState = "ACTIVE" => Awaiting("load")
  /\ starts = <<>> /\ links.user /\ links.manager /\ userState = "ACTIVE" =>
       Calculate(login) = "ACTIVE"

\* No transition is after now, as it would be without the steps to adjust for.
NothingAhead ==
  machine.state # "DISABLED" \/ starts # <<>> =>
    \A i \in DOMAIN transitions : transitions[i].time <= now - stepped

\* The limit's timer, with the active time as of the clock that is adjusted for.
TimerSet ==
  starts = <<>> /\ machine.state = "ACTIVE" /\ userState = "ACTIVE" /\ conf.limitOn =>
    machine.timer \in 0 .. conf.limit - ActiveTime(transitions, now - stepped)

TimerFollows == LinksFollow /\ UserFollows /\ NothingAhead /\ TimerSet

\* A stopped machine has no timer, an ended shell nothing at all.
AtRest ==
  /\ conf \in Settings
  /\ machine.state = "DISABLED" => machine.timer = NoTimer
  /\ life = "down" => starts = <<>> /\ links = NoLinks /\ machine.state = "DISABLED"

TimerInv == AtRest /\ (Trusted => TimerFollows)

\* What _updateState schedules for an active user is the time left.
LEMMA UpdatedSetsTimer ==
  ASSUME NEW cf \in Settings, NEW m, NEW s \in Seq(TimedEntries), now \in Int
  PROVE  /\ Updated(cf, m, s, "ACTIVE").state = "ACTIVE" /\ cf.limitOn =>
              Updated(cf, m, s, "ACTIVE").timer \in 0 .. cf.limit - ActiveTime(s, now)
<1> DEFINE left == cf.limit - ActiveTime(s, now)
           reached == cf.limitOn /\ left <= 0
           u == Updated(cf, m, s, "ACTIVE")
<1>1. cf.limit \in Int
  <2>1. cf.limit \in Limits
    BY DEF Settings
  <2>2. \A l \in Limits : l \in Int
    BY TimeLimitsAssumption
  <2> QED BY <2>1, <2>2
<1>2. left \in Int
  <2>1. ActiveTime(s, now) \in Nat
    BY ActiveTimeFacts
  <2> QED BY <1>1, <2>1
<1>3. u.state = NewState(m, "ACTIVE", reached) /\ u.timer = NewTimer(m, "ACTIVE", reached, cf.limitOn, left)
  BY DEF Updated
<1>4. SUFFICES ASSUME u.state = "ACTIVE", cf.limitOn PROVE u.timer \in 0 .. left
  OBVIOUS
<1> HIDE DEF u, left
<1>5. ~reached
  BY Zenon, <1>3, <1>4 DEF NewState
<1>6. u.timer = left
  BY Zenon, <1>3, <1>4, <1>5 DEF NewTimer
<1> QED BY <1>2, <1>4, <1>5, <1>6

\* Neither updating nor recalculating arms a timer of a machine that stays stopped.
LEMMA UpdatedAtRest ==
  ASSUME NEW cf, NEW m, NEW s, NEW us, m.state = "DISABLED" => m.timer = NoTimer
  PROVE  /\ Updated(cf, m, s, us).state = "DISABLED" => Updated(cf, m, s, us).timer = NoTimer
         /\ Recalculated(m, s, us).state = "DISABLED" => Recalculated(m, s, us).timer = NoTimer
<1>1. ASSUME NEW c
      PROVE  Updated(c, m, s, us).state = "DISABLED" => Updated(c, m, s, us).timer = NoTimer
  <2> DEFINE left == c.limit - ActiveTime(s, now)
             reached == c.limitOn /\ left <= 0
             u == Updated(c, m, s, us)
  <2>1. /\ u.state = NewState(m, us, reached)
        /\ u.timer = NewTimer(m, us, reached, c.limitOn, left)
    BY DEF Updated
  <2> HIDE DEF u, reached
  <2>2. u.state = "DISABLED" => ~reached /\ us # "ACTIVE" /\ m.state = "DISABLED"
    BY Zenon, <2>1 DEF NewState
  <2>3. u.state = "DISABLED" => u.timer = m.timer
    BY Zenon, <2>1, <2>2 DEF NewTimer
  <2> QED BY Zenon, <2>2, <2>3 DEF u
<1>2. \/ Recalculated(m, s, us) = m
      \/ Recalculated(m, s, us) = Updated(conf, m, s, us)
  BY DEF Recalculated
<1> QED BY <1>1, <1>2

\* What is stored is not of the future.
LEMMA TrimNotAhead ==
  ASSUME NEW s \in Seq(TimedEntries), NEW t \in Int
  PROVE  \A i \in DOMAIN Trim(s, t) : Trim(s, t)[i].time <= t
<1> DEFINE p == Pick(s, KeptAt(s, t))
<1>1. KeptAt(s, t) \in SUBSET DOMAIN s /\ \A i \in KeptAt(s, t) : s[i].time <= t
  BY DEF KeptAt
<1>2. p \in Seq(TimedEntries) /\ \A a \in DOMAIN p : \E i \in KeptAt(s, t) : p[a] = s[i]
  BY <1>1, PickFacts
<1>3. Trim(s, t) = Pick(p, DOMAIN p \ Cancelling(p))
  BY DEF Trim, DropPairs
<1> HIDE DEF p
<1>4. DOMAIN p \ Cancelling(p) \in SUBSET DOMAIN p
  OBVIOUS
<1>5. \A a \in DOMAIN Trim(s, t) : \E i \in DOMAIN p : Trim(s, t)[a] = p[i]
  BY <1>2, <1>3, <1>4, PickFacts
<1> QED BY <1>1, <1>2, <1>5

\* A transition that happens now puts nothing ahead of it.
LEMMA AppendNotAhead ==
  ASSUME NEW s \in Seq(TimedEntries), NEW t \in Int, \A i \in DOMAIN s : s[i].time <= t,
         NEW new
  PROVE  \A i \in DOMAIN Append(s, Entry(new, t)) : Append(s, Entry(new, t))[i].time <= t
<1> DEFINE e == Entry(new, t)
           r == Append(s, e)
<1>1. e.time = t
  BY DEF Entry
<1> HIDE DEF e
<1>2. DOMAIN s = 1 .. Len(s) /\ Len(s) \in Nat
  BY EntryFacts
<1>3. DOMAIN r = 1 .. (Len(s) + 1) /\ r[Len(s) + 1] = e /\ \A i \in 1 .. Len(s) : r[i] = s[i]
  BY <1>2
<1> HIDE DEF r
<1>4. ASSUME NEW i \in DOMAIN r PROVE r[i].time <= t
  <2>1. i \in 1 .. Len(s) \/ i = Len(s) + 1
    BY <1>2, <1>3
  <2> QED BY <1>1, <1>2, <1>3, <2>1
<1> QED BY <1>4 DEF r, e

\* There is no active time without transitions.
LEMMA NothingIsActive == \A t : ActiveTime(<<>>, t) = 0
<1> TAKE t
<1> DEFINE from == StartOfToday(t)
<1>1. Today(<<>>, from) = {}
  BY DEF Today
<1>2. Spent(<<>>, from, Len(<<>>)) = {}
  BY <1>1 DEF Spent
<1>3. Total(<<>>, from, Len(<<>>)) = 0
  BY <1>2, FS_EmptySet DEF Total
<1> QED BY <1>3 DEF ActiveTime

\* What losing something more means.
LEMMA TrustingMore ==
  ASSUME NEW more, losses' = losses \cup more, Trusted'
  PROVE  Trusted /\ more \subseteq {"crash", "load", "store", "restart"}
BY DEF Trusted

\* Two sequences after each other.
LEMMA ConcatFacts ==
  ASSUME NEW S, NEW a \in Seq(S), NEW b \in Seq(S)
  PROVE  /\ a \o b \in Seq(S) /\ Len(a \o b) = Len(a) + Len(b)
         /\ DOMAIN (a \o b) = 1 .. Len(a) + Len(b)
         /\ Len(a) \in Nat /\ Len(b) \in Nat
         /\ \A k \in 1 .. Len(a) : (a \o b)[k] = a[k]
         /\ \A k \in 1 .. Len(b) : (a \o b)[Len(a) + k] = b[k]
OBVIOUS

\* A start that awaits something else goes on as one of them ends.
LEMMA RemoveKeeps ==
  ASSUME NEW S, NEW s \in Seq(S), NEW i \in DOMAIN s, NEW x, x # s[i],
         \E j \in DOMAIN s : s[j] = x
  PROVE  \E j \in DOMAIN RemoveAt(s, i) : RemoveAt(s, i)[j] = x
<1>1. Len(s) \in Nat /\ DOMAIN s = 1 .. Len(s) /\ i \in Nat /\ 1 <= i /\ i <= Len(s)
  OBVIOUS
<1>2. PICK j \in DOMAIN s : s[j] = x
  OBVIOUS
<1> DEFINE a == SubSeq(s, 1, i - 1)
           b == SubSeq(s, i + 1, Len(s))
           r == a \o b
<1>3. a \in Seq(S) /\ Len(a) = i - 1 /\ \A k \in 1 .. i - 1 : a[k] = s[k]
  BY <1>1
<1>4. b \in Seq(S) /\ Len(b) = Len(s) - i /\ \A k \in 1 .. Len(s) - i : b[k] = s[i + k]
  <2>1. b \in Seq(S)
    BY <1>1
  <2>2. Len(b) = Len(s) - i
    BY <1>1
  <2>3. ASSUME NEW k \in 1 .. Len(s) - i PROVE b[k] = s[i + k]
    <3>1. k \in Nat /\ (i + 1) + k - 1 = i + k /\ k \in 1 .. (Len(s) + 1) - (i + 1)
      BY <1>1
    <3>2. b[k] = s[(i + 1) + k - 1]
      BY <1>1, <3>1
    <3> QED BY <3>1, <3>2
  <2> QED BY <2>1, <2>2, <2>3
<1>5. RemoveAt(s, i) = r
  BY DEF RemoveAt
<1> HIDE DEF a, b
<1>6. /\ DOMAIN r = 1 .. Len(a) + Len(b)
      /\ \A k \in 1 .. Len(a) : r[k] = a[k]
      /\ \A k \in 1 .. Len(b) : r[Len(a) + k] = b[k]
  <2>1. a \in Seq(S) /\ b \in Seq(S)
    BY <1>3, <1>4
  <2>2. DOMAIN r = 1 .. Len(a) + Len(b)
    BY ONLY <2>1, ConcatFacts
  <2>3. \A k \in 1 .. Len(a) : r[k] = a[k]
    BY ONLY <2>1, ConcatFacts
  <2>4. \A k \in 1 .. Len(b) : r[Len(a) + k] = b[k]
    BY ONLY <2>1, ConcatFacts
  <2> QED BY <2>2, <2>3, <2>4
<1> HIDE DEF r
<1>7. j \in Nat /\ j # i /\ 1 <= j /\ j <= Len(s)
  BY <1>1, <1>2
<1>8. CASE j < i
  <2>1. j \in 1 .. Len(a) /\ j \in 1 .. i - 1 /\ j \in DOMAIN r
    BY <1>1, <1>3, <1>4, <1>6, <1>7, <1>8
  <2>2. r[j] = s[j]
    BY <1>3, <1>6, <2>1
  <2> QED BY <1>2, <1>5, <2>1, <2>2
<1>9. CASE j > i
  <2> DEFINE k == j - i
  <2>1. k \in 1 .. Len(b) /\ k \in 1 .. Len(s) - i /\ Len(a) + k \in DOMAIN r /\ i + k = j
    BY <1>1, <1>3, <1>4, <1>6, <1>7, <1>9
  <2> HIDE DEF k
  <2>2. r[Len(a) + k] = s[j]
    BY <1>4, <1>6, <2>1
  <2> QED BY <1>2, <1>5, <2>1, <2>2
<1> QED BY <1>7, <1>8, <1>9

\* _updateUserState(true): a user who becomes active has the limit's timer armed,
\* by a history that is not adjusted for a step or trimmed to less only if that is
\* noted as lost.
LEMMA UserStateSetsTimer ==
  ASSUME StoreInv, TimerInv, NEW lg, NEW lost, UpdateUserState(lg, lost), conf' = conf
  PROVE  /\ machine'.state = "DISABLED" => machine'.timer = NoTimer
         /\ machine.state = "DISABLED" => machine'.state = "DISABLED"
         /\ Trusted' =>
              /\ Trusted /\ "clock" \notin lost
              /\ \/ /\ UNCHANGED <<userState, machine, transitions>>
                    /\ links.user /\ (lg.active => links.manager) => userState = Calculate(lg)
                 \/ /\ links.user /\ (lg.active => links.manager)
                    /\ userState' = Calculate(lg) /\ stepped = 0
                    /\ machine.state # "DISABLED" \/ starts # <<>> =>
                         \A i \in DOMAIN transitions' : transitions'[i].time <= now
                    /\ machine'.state = "ACTIVE" /\ userState' = "ACTIVE" /\ conf.limitOn =>
                         machine'.timer \in 0 .. conf.limit - ActiveTime(transitions', now)
<1> DEFINE new == Calculate(lg)
           tr == Append(transitions, Entry(new, now))
           kept == Trim(tr, now)
           more == lost \cup StoreLoses(tr) \cup LoseIf(stepped # 0, "clock")
<1>0. new \in {"ACTIVE", "INACTIVE"}
  BY DEF Calculate
<1>a. AtRest
  BY DEF TimerInv
<1>b. now \in Int /\ stepped \in Int /\ transitions \in Seq(TimedEntries)
  BY TypedFacts
<1>1. CASE /\ UNCHANGED <<userState, machine, transitions>> /\ losses' = losses \cup lost
           /\ links.user /\ (lg.active => links.manager) => userState = new
  <2>1. machine.state = "DISABLED" => machine.timer = NoTimer
    BY <1>a DEF AtRest
  <2>2. Trusted' => Trusted /\ "clock" \notin lost
    BY <1>1, TrustingMore
  <2> QED BY <1>1, <2>1, <2>2
<1>2. CASE /\ links.user /\ (lg.active => links.manager)
           /\ userState' = new
           /\ machine' = Recalculated(machine, tr, new)
           /\ transitions' = kept
           /\ losses' = losses \cup more
  <2>0. tr \in Seq(TimedEntries)
    BY <1>0, <1>b, AppendTyped
  <2>1. machine'.state = "DISABLED" => machine'.timer = NoTimer
    <3>1. machine.state = "DISABLED" => machine.timer = NoTimer
      BY <1>a DEF AtRest
    <3> HIDE DEF new, tr
    <3> QED BY <1>2, <3>1, UpdatedAtRest
  <2>2. machine.state = "DISABLED" => machine' = machine
    <3> HIDE DEF new, tr
    <3> QED BY <1>2 DEF Recalculated
  <2>3. ASSUME Trusted'
        PROVE  /\ Trusted /\ "clock" \notin lost /\ stepped = 0
               /\ Cancelling(Pick(tr, KeptAt(tr, now))) = {}
    <3> HIDE DEF tr, new
    <3>1. Trusted /\ more \subseteq {"crash", "load", "store", "restart"}
      <4> HIDE DEF more
      <4> QED BY <1>2, <2>3, TrustingMore
    <3>2. "clock" \notin more /\ "pair" \notin more
      <4> HIDE DEF more
      <4> QED BY <3>1
    <3> QED BY <3>1, <3>2 DEF LoseIf, StoreLoses
  <2>4. ASSUME Trusted', machine.state # "DISABLED" \/ starts # <<>>
        PROVE  \A i \in DOMAIN tr : tr[i].time <= now
    <3>1. \A i \in DOMAIN transitions : transitions[i].time <= now - stepped
      BY <2>3, <2>4 DEF TimerInv, TimerFollows, NothingAhead
    <3>2. now - stepped = now
      BY <1>b, <2>3, <2>4
    <3>3. \A i \in DOMAIN transitions : transitions[i].time <= now
      BY <3>1, <3>2
    <3> HIDE DEF new
    <3> QED BY <1>b, <3>3, AppendNotAhead
  <2> HIDE DEF tr, new
  <2>5. \A i \in DOMAIN kept : kept[i].time <= now
    BY <1>b, <2>0, TrimNotAhead
  <2>6. ASSUME Trusted', machine'.state = "ACTIVE", userState' = "ACTIVE", conf.limitOn
        PROVE  machine'.timer \in 0 .. conf.limit - ActiveTime(kept, now)
    <3>1. machine.state # "DISABLED"
      BY <2>2, <2>6
    <3>2. new = "ACTIVE" /\ machine' = Updated(conf, machine, tr, "ACTIVE")
      BY <1>2, <2>6, <3>1 DEF Recalculated
    <3>3. conf \in Settings
      BY <1>a DEF AtRest
    <3>4. machine'.timer \in 0 .. conf.limit - ActiveTime(tr, now)
      BY <1>b, <2>0, <2>6, <3>2, <3>3, UpdatedSetsTimer
    <3>5. ActiveTime(kept, now) <= ActiveTime(tr, now)
      BY <1>b, <2>0, <2>3, <2>4, <2>6, <3>1, TrimAddsNothing
    <3>6. ActiveTime(kept, now) \in Nat /\ ActiveTime(tr, now) \in Nat
      <4>1. kept \in Seq(TimedEntries)
        BY <2>0, TrimTyped
      <4> HIDE DEF kept
      <4> QED BY <1>b, <2>0, <4>1, ActiveTimeFacts
    <3>7. conf.limit \in Int
      <4>1. conf.limit \in Limits
        BY <3>3 DEF Settings
      <4>2. \A l \in Limits : l \in Int
        BY TimeLimitsAssumption
      <4> QED BY <4>1, <4>2
    <3> HIDE DEF kept
    <3> QED BY <3>4, <3>5, <3>6, <3>7
  <2> HIDE DEF kept, more
  <2> QED BY <1>2, <2>1, <2>2, <2>3, <2>5, <2>6 DEF new
<1>3. (losses \cup lost \cup StoreLoses(tr) \cup LoseIf(stepped # 0, "clock")) = losses \cup more
  OBVIOUS
<1> HIDE DEF new, kept, more
<1> QED
  BY <1>1, <1>2, <1>3 DEF UpdateUserState, new, kept

\* An event of logind that is handled: nothing else than the user's state and what
\* depends on it changes, unless a step that was not adjusted for is forgotten.
LEMMA LoginSetsTimer ==
  ASSUME StoreInv, TimerInv, NEW lg, NEW lost, UpdateUserState(lg, lost), login' = lg,
         UNCHANGED <<now, conf, life, starts>>,
         stepped' = IF "clock" \in lost THEN 0 ELSE stepped,
         life = "up",
         links'.sleep = links.sleep, links'.source = links.source, links'.manager = links.manager,
         links'.user = links.user
  PROVE  TimerInv'
<1>0. now \in Int /\ stepped \in Int
  BY TypedFacts
<1>1. /\ machine'.state = "DISABLED" => machine'.timer = NoTimer
      /\ machine.state = "DISABLED" => machine'.state = "DISABLED"
      /\ Trusted' =>
           /\ Trusted /\ "clock" \notin lost
           /\ \/ /\ UNCHANGED <<userState, machine, transitions>>
                 /\ links.user /\ (lg.active => links.manager) => userState = Calculate(lg)
              \/ /\ links.user /\ (lg.active => links.manager)
                 /\ userState' = Calculate(lg) /\ stepped = 0
                 /\ machine.state # "DISABLED" \/ starts # <<>> =>
                      \A i \in DOMAIN transitions' : transitions'[i].time <= now
                 /\ machine'.state = "ACTIVE" /\ userState' = "ACTIVE" /\ conf.limitOn =>
                      machine'.timer \in 0 .. conf.limit - ActiveTime(transitions', now)
  BY UserStateSetsTimer
<1>2. AtRest'
  BY <1>1 DEF TimerInv, AtRest
<1>3. ASSUME Trusted' PROVE TimerFollows'
  <2>1. Trusted /\ stepped' = stepped
    BY <1>1, <1>3
  <2>2. LinksFollow /\ UserFollows /\ NothingAhead /\ TimerSet
    BY <2>1 DEF TimerInv, TimerFollows
  <2>3. LinksFollow'
    BY <2>1, <2>2 DEF LinksFollow, Awaiting
  <2>4. CASE /\ UNCHANGED <<userState, machine, transitions>>
             /\ links.user /\ (lg.active => links.manager) => userState = Calculate(lg)
    <3>1. UserFollows'
      BY <2>2, <2>4 DEF UserFollows, Awaiting
    <3>2. NothingAhead' /\ TimerSet'
      BY <2>1, <2>2, <2>4 DEF NothingAhead, TimerSet
    <3> QED BY <2>3, <3>1, <3>2 DEF TimerFollows
  <2>5. CASE /\ links.user /\ (lg.active => links.manager)
             /\ userState' = Calculate(lg) /\ stepped = 0
             /\ machine.state # "DISABLED" \/ starts # <<>> =>
                  \A i \in DOMAIN transitions' : transitions'[i].time <= now
             /\ machine'.state = "ACTIVE" /\ userState' = "ACTIVE" /\ conf.limitOn =>
                  machine'.timer \in 0 .. conf.limit - ActiveTime(transitions', now)
    <3>0. now' - stepped' = now
      BY <1>0, <2>1, <2>5
    <3>1. UserFollows'
      <4>1. userState' = "ACTIVE" => lg.active
        BY <2>5 DEF Calculate
      <4> QED BY <2>5, <4>1 DEF UserFollows
    <3>2. NothingAhead' /\ TimerSet'
      BY <1>1, <2>5, <3>0 DEF NothingAhead, TimerSet
    <3> QED BY <2>3, <3>1, <3>2 DEF TimerFollows
  <2> QED BY <1>1, <1>3, <2>4, <2>5
<1> QED BY <1>2, <1>3 DEF TimerInv

\* g-properties-changed; prepare-for-sleep, both ways: a handler that is missing
\* would be missed.
LEMMA LoginEventsSetTimer ==
  ASSUME StoreInv, TimerInv, LoginChange \/ PrepareForSleep \/ WakeUp
  PROVE  TimerInv'
<1>0. life = "up" /\ life' = life /\ conf' = conf /\ now' = now /\ starts' = starts
  BY DEF LoginChange, PrepareForSleep, WakeUp, clockVars
<1>a. links \in Links
  BY TypedFacts
<1>1. ASSUME links.sleep, PrepareForSleep \/ WakeUp PROVE TimerInv'
  <2>1. CASE PrepareForSleep
    <3> DEFINE lg == [login EXCEPT !.sleeping = TRUE]
    <3>1. /\ login' = lg /\ UpdateUserState(lg, {}) /\ stepped' = stepped
          /\ links' = [links EXCEPT !.inhibitor = FALSE]
      BY <1>1, <2>1 DEF PrepareForSleep
    <3>2. /\ links'.sleep = links.sleep /\ links'.source = links.source
          /\ links'.manager = links.manager /\ links'.user = links.user
      BY <1>a, <3>1 DEF Links
    <3> HIDE DEF lg
    <3> QED BY <1>0, <1>1, <3>1, <3>2, LoginSetsTimer
  <2>2. CASE WakeUp
    <3> DEFINE lg == [login EXCEPT !.sleeping = FALSE]
               lost == LoseIf(stepped # 0, "clock")
    <3>1. /\ login' = lg /\ UpdateUserState(lg, lost) /\ stepped' = 0
          /\ \E ok \in Outcomes("inhibit") : links' = [links EXCEPT !.inhibitor = @ \/ ok]
      BY <1>1, <2>2 DEF WakeUp
    <3>2. /\ links'.sleep = links.sleep /\ links'.source = links.source
          /\ links'.manager = links.manager /\ links'.user = links.user
      BY <1>a, <3>1 DEF Links
    <3>3. stepped' = IF "clock" \in lost THEN 0 ELSE stepped
      BY <3>1 DEF LoseIf
    <3> HIDE DEF lg, lost
    <3> QED BY <1>0, <1>1, <3>1, <3>2, <3>3, LoginSetsTimer
  <2> QED BY <1>1, <2>1, <2>2
<1>2. ASSUME ~links.sleep, PrepareForSleep \/ WakeUp PROVE TimerInv'
  <2>1. UNCHANGED <<machine, recordVars, links, losses, stepped>>
    BY <1>2 DEF PrepareForSleep, WakeUp
  <2>2. AtRest'
    BY <1>0, <2>1 DEF TimerInv, AtRest
  <2>3. ASSUME Trusted' PROVE TimerFollows'
    <3>1. LinksFollow /\ UserFollows /\ NothingAhead /\ TimerSet
      BY <2>1, <2>3 DEF TimerInv, TimerFollows, Trusted
    <3>2. LinksFollow' /\ NothingAhead' /\ TimerSet'
      BY <1>0, <2>1, <3>1 DEF LinksFollow, NothingAhead, TimerSet, Awaiting, recordVars
    <3>3. starts = <<>> => ~links.manager
      BY <1>2, <3>1 DEF LinksFollow, Awaiting
    <3>4. UserFollows'
      BY <1>0, <2>1, <3>1, <3>3 DEF UserFollows, Awaiting, recordVars
    <3> QED BY <3>2, <3>4 DEF TimerFollows
  <2> QED BY <2>2, <2>3 DEF TimerInv
<1>3. CASE LoginChange
  <2> DEFINE lg == [login EXCEPT !.active = ~@]
  <2>1. /\ login' = lg /\ UpdateUserState(lg, {}) /\ stepped' = stepped /\ links' = links
    BY <1>3 DEF LoginChange
  <2> HIDE DEF lg
  <2> QED BY <1>0, <2>1, LoginSetsTimer
<1> QED BY <1>1, <1>2, <1>3

\* A second passes, or one asleep; a timer fires.
LEMMA TimePassingKeepsTimer ==
  ASSUME StoreInv, TimerInv, Tick \/ SleepTick \/ TimerFires
  PROVE  TimerInv'
<1>0. /\ UNCHANGED <<conf, life, login, recordVars, links, starts, stepped>>
      /\ userState' = userState /\ transitions' = transitions
  BY DEF Tick, SleepTick, TimerFires, envVars, recordVars
<1>a. /\ now \in Int /\ stepped \in Int /\ transitions \in Seq(TimedEntries)
      /\ Parts \subseteq DOMAIN machine
  BY TypedFacts
<1>b. AtRest
  BY DEF TimerInv
<1>c. conf.limit \in Int
  <2>1. conf.limit \in Limits
    BY <1>b DEF AtRest, Settings
  <2>2. \A l \in Limits : l \in Int
    BY TimeLimitsAssumption
  <2> QED BY <2>1, <2>2
<1>d. \A u \in Int : ActiveTime(transitions, u) \in Nat
  BY <1>a, ActiveTimeFacts
<1>1. CASE Tick
  <2>1. PICK t : /\ machine' = [machine EXCEPT !.timer = t]
                 /\ machine.timer = NoTimer => t = NoTimer
                 /\ machine.timer # NoTimer => t = machine.timer - 1
    BY <1>1 DEF Tick
  <2>2. machine'.state = machine.state /\ machine'.timer = t
    BY <1>a, <2>1 DEF Parts
  <2>3. AtRest'
    BY <1>0, <1>b, <2>1, <2>2 DEF AtRest
  <2>4. now' = now + 1 /\ losses' = losses /\ machine.timer # 0
    BY <1>1 DEF Tick
  <2>5. ASSUME Trusted' PROVE TimerFollows'
    <3>1. LinksFollow /\ UserFollows /\ NothingAhead /\ TimerSet
      BY <2>4, <2>5 DEF TimerInv, TimerFollows, Trusted
    <3>2. LinksFollow' /\ UserFollows'
      BY <1>0, <2>2, <3>1 DEF LinksFollow, UserFollows, Awaiting
    <3>3. now' - stepped' = (now - stepped) + 1 /\ now - stepped \in Int
      BY <1>0, <1>a, <2>4
    <3>4. NothingAhead'
      <4>1. \A i \in DOMAIN transitions : transitions[i].time \in Int
        BY <1>a, EntryFacts
      <4>2. \A i \in DOMAIN transitions :
              transitions[i].time <= now - stepped => transitions[i].time <= now' - stepped'
        BY <3>3, <4>1
      <4> QED BY <1>0, <2>2, <3>1, <4>2 DEF NothingAhead
    <3>5. ASSUME starts = <<>>, machine.state = "ACTIVE", userState = "ACTIVE", conf.limitOn
          PROVE  t \in 0 .. conf.limit - ActiveTime(transitions, now' - stepped')
      <4>1. machine.timer \in 0 .. conf.limit - ActiveTime(transitions, now - stepped)
        BY <3>1, <3>5 DEF TimerSet
      <4>2. ActiveTime(transitions, (now - stepped) + 1) <= ActiveTime(transitions, now - stepped) + 1
        BY <1>a, <3>1, <3>3, <3>5, ActiveTimeGrowsSlowly DEF NothingAhead
      <4>3. machine.timer # NoTimer
        BY <1>c, <1>d, <3>3, <4>1 DEF NoTimer
      <4> QED BY <1>c, <1>d, <2>1, <2>4, <3>3, <4>1, <4>2, <4>3
    <3>6. TimerSet'
      BY <1>0, <2>2, <3>5 DEF TimerSet
    <3> QED BY <3>2, <3>4, <3>6 DEF TimerFollows
  <2> QED BY <2>3, <2>5 DEF TimerInv
<1>2. CASE SleepTick
  <2>1. /\ now' = now + 1 /\ machine' = machine /\ login.sleeping
        /\ losses' = losses \cup LoseIf(~links.user \/ ~links.sleep, "start")
    BY <1>2 DEF SleepTick
  <2>2. AtRest'
    BY <1>0, <1>b, <2>1 DEF AtRest
  <2>3. ASSUME Trusted' PROVE TimerFollows'
    <3>1. Trusted /\ links.user
      <4>1. Trusted /\ "start" \notin LoseIf(~links.user \/ ~links.sleep, "start")
        BY <2>1, <2>3, TrustingMore
      <4> QED BY <4>1 DEF LoseIf
    <3>2. LinksFollow /\ UserFollows /\ NothingAhead /\ TimerSet
      BY <3>1 DEF TimerInv, TimerFollows
    <3>3. LinksFollow' /\ UserFollows'
      BY <1>0, <2>1, <3>2 DEF LinksFollow, UserFollows, Awaiting
    <3>4. NothingAhead'
      <4>1. \A i \in DOMAIN transitions : transitions[i].time \in Int
        BY <1>a, EntryFacts
      <4>2. \A i \in DOMAIN transitions :
              transitions[i].time <= now - stepped => transitions[i].time <= now' - stepped'
        BY <1>0, <1>a, <2>1, <4>1
      <4> QED BY <1>0, <2>1, <3>2, <4>2 DEF NothingAhead
    <3>5. TimerSet'
      <4>1. Calculate(login) # "ACTIVE"
        BY <2>1 DEF Calculate
      <4>2. ~(starts = <<>> /\ machine.state = "ACTIVE" /\ userState = "ACTIVE")
        BY <3>1, <3>2, <4>1 DEF UserFollows, Awaiting
      <4> QED BY <1>0, <2>1, <4>2 DEF TimerSet
    <3> QED BY <3>3, <3>4, <3>5 DEF TimerFollows
  <2> QED BY <2>2, <2>3 DEF TimerInv
<1>3. CASE TimerFires
  <2> DEFINE m == [machine EXCEPT !.timer = NoTimer]
  <2>1. /\ now' = now /\ machine.timer = 0 /\ machine' = Updated(conf, m, transitions, userState)
        /\ losses' = losses \cup LoseIf(stepped # 0, "timer")
    BY <1>3 DEF TimerFires, clockVars
  <2>2. m.timer = NoTimer
    BY <1>a DEF Parts
  <2>3. machine.state # "DISABLED"
    BY <1>b, <2>1 DEF AtRest, NoTimer
  <2> HIDE DEF m
  <2>4. AtRest'
    <3>1. machine'.state = "DISABLED" => machine'.timer = NoTimer
      BY <2>1, <2>2, UpdatedAtRest
    <3> QED BY <1>0, <1>b, <2>3, <3>1 DEF AtRest
  <2>5. ASSUME Trusted' PROVE TimerFollows'
    <3>1. Trusted /\ stepped = 0
      <4>1. Trusted /\ "timer" \notin LoseIf(stepped # 0, "timer")
        BY <2>1, <2>5, TrustingMore
      <4> QED BY <4>1 DEF LoseIf
    <3>2. LinksFollow /\ UserFollows /\ NothingAhead
      BY <3>1 DEF TimerInv, TimerFollows
    <3>3. LinksFollow' /\ UserFollows' /\ NothingAhead'
      BY <1>0, <2>1, <2>3, <3>2 DEF LinksFollow, UserFollows, NothingAhead, Awaiting
    <3>4. now' - stepped' = now
      BY <1>0, <1>a, <2>1, <3>1
    <3>5. conf \in Settings
      BY <1>b DEF AtRest
    <3>6. TimerSet'
      BY <1>0, <1>a, <2>1, <3>4, <3>5, UpdatedSetsTimer DEF TimerSet
    <3> QED BY <3>3, <3>6 DEF TimerFollows
  <2> QED BY <2>4, <2>5 DEF TimerInv
<1> QED BY <1>1, <1>2, <1>3

\* The clock is set: the timer goes on by the clock without the step.
LEMMA ClockStepKeepsTimer ==
  ASSUME StoreInv, TimerInv, NEW d \in ClockSteps, ClockStep(d)
  PROVE  TimerInv'
<1>0. UNCHANGED <<conf, life, login, machine, recordVars, links, starts>>
  BY DEF ClockStep, envVars
<1>1. /\ now' = now + d /\ stepped' = IF links.source THEN stepped + d ELSE 0
      /\ losses' = losses \cup
           LoseIf(~links.source /\ (file # <<>> \/ transitions # <<>>), "clock")
  BY DEF ClockStep
<1>a. d \in Int /\ now \in Int /\ stepped \in Int
  BY TypedFacts, TimeLimitsAssumption
<1>2. AtRest'
  BY <1>0 DEF TimerInv, AtRest
<1>3. ASSUME Trusted' PROVE TimerFollows'
  <2>1. Trusted /\ (links.source \/ transitions = <<>>)
    <3>1. /\ Trusted
          /\ "clock" \notin LoseIf(~links.source /\ (file # <<>> \/ transitions # <<>>), "clock")
      BY <1>1, <1>3, TrustingMore
    <3> QED BY <3>1 DEF LoseIf
  <2>2. LinksFollow /\ UserFollows /\ NothingAhead /\ TimerSet
    BY <2>1 DEF TimerInv, TimerFollows
  <2>3. LinksFollow' /\ UserFollows'
    BY <1>0, <1>1, <2>2 DEF LinksFollow, UserFollows, Awaiting, recordVars
  <2>4. CASE links.source
    <3>1. now' - stepped' = now - stepped
      BY <1>1, <1>a, <2>4
    <3>2. NothingAhead' /\ TimerSet'
      BY <1>0, <2>2, <3>1 DEF NothingAhead, TimerSet, recordVars
    <3> QED BY <2>3, <3>2 DEF TimerFollows
  <2>5. CASE transitions = <<>>
    <3>1. NothingAhead' /\ TimerSet'
      BY <1>0, <2>2, <2>5, NothingIsActive DEF NothingAhead, TimerSet, recordVars
    <3> QED BY <2>3, <3>1 DEF TimerFollows
  <2> QED BY <2>1, <2>4, <2>5
<1> QED BY <1>2, <1>3 DEF TimerInv

\* Adjusting all times leaves them times.
LEMMA AdjustTyped ==
  ASSUME NEW s \in Seq(TimedEntries), NEW d \in Int
  PROVE  AdjustAllTimes(s, d) \in Seq(TimedEntries)
<1>1. DOMAIN s = 1 .. Len(s) /\ Len(s) \in Nat /\ \A i \in DOMAIN s : s[i] \in TimedEntries
  BY EntryFacts
<1>2. \A e \in TimedEntries : [e EXCEPT !.time = e.time + d] \in TimedEntries
  BY DEF TimedEntries
<1>3. AdjustAllTimes(s, d) = [i \in 1 .. Len(s) |-> [s[i] EXCEPT !.time = s[i].time + d]]
  BY <1>1 DEF AdjustAllTimes
<1>4. AdjustAllTimes(s, d) \in [1 .. Len(s) -> TimedEntries]
  BY <1>1, <1>2, <1>3
<1> QED BY <1>1, <1>4

\* The callback of timeChangeNotify arms the timer anew.
LEMMA ClockChangedSetsTimer ==
  ASSUME StoreInv, TimerInv, ClockChanged
  PROVE  TimerInv'
<1> DEFINE d == offset - clockOffset
           tr == AdjustAllTimes(transitions, d)
           kept == Trim(tr, now)
           m == [machine EXCEPT !.lastChange = IF @ = 0 THEN 0 ELSE @ + d]
<1>0. UNCHANGED <<clockVars, conf, login, life, userState, links, starts>> /\ now' = now
  BY DEF ClockChanged, envVars, clockVars
<1>a. /\ now \in Int /\ stepped \in Int /\ transitions \in Seq(TimedEntries)
      /\ d \in Int /\ Parts \subseteq DOMAIN machine
  BY TypedFacts
<1>b. AtRest
  BY DEF TimerInv
<1>1. CASE UNCHANGED <<machine, transitions, stepped, losses>>
  <2>1. AtRest'
    BY <1>0, <1>1, <1>b DEF AtRest
  <2>2. Trusted' => TimerFollows'
    BY <1>0, <1>1 DEF TimerInv, Trusted, TimerFollows, LinksFollow, UserFollows, NothingAhead,
                      TimerSet, Awaiting
  <2> QED BY <2>1, <2>2 DEF TimerInv
<1>2. CASE /\ links.source \/ links.leaked
           /\ d # 0
           /\ transitions' = kept
           /\ machine' = Updated(conf, m, kept, userState)
           /\ stepped' = 0
           /\ losses' = losses \cup (StoreLoses(tr) \cup LoseIf(d # stepped, "clock"))
  <2>1. m.state = machine.state /\ m.timer = machine.timer
    BY <1>a DEF Parts
  <2>2. tr \in Seq(TimedEntries)
    <3> HIDE DEF d
    <3> QED BY <1>a, AdjustTyped
  <2> HIDE DEF m, tr
  <2>3. kept \in Seq(TimedEntries) /\ \A i \in DOMAIN kept : kept[i].time <= now
    BY <1>a, <2>2, TrimTyped, TrimNotAhead
  <2>4. AtRest'
    <3>1. machine'.state = "DISABLED" => machine'.timer = NoTimer
      BY <1>2, <1>b, <2>1, UpdatedAtRest DEF AtRest
    <3>2. life # "down"
      BY <1>2, <1>b DEF AtRest, NoLinks
    <3> QED BY <1>0, <1>b, <3>1, <3>2 DEF AtRest
  <2>5. ASSUME Trusted' PROVE TimerFollows'
    <3>1. Trusted /\ d = stepped
      <4> HIDE DEF d
      <4> DEFINE more == StoreLoses(tr) \cup LoseIf(d # stepped, "clock")
      <4>1. Trusted /\ more \subseteq {"crash", "load", "store", "restart"}
        <5> HIDE DEF more
        <5> QED BY <1>2, <2>5, TrustingMore DEF more
      <4>2. "clock" \notin more
        <5> HIDE DEF more
        <5> QED BY <4>1
      <4> QED BY <4>1, <4>2 DEF LoseIf
    <3>2. LinksFollow /\ UserFollows
      BY <3>1 DEF TimerInv, TimerFollows
    <3>3. links.source /\ links.manager
      BY <1>2, <3>1, <3>2 DEF LinksFollow
    <3>4. LinksFollow' /\ UserFollows'
      BY <1>0, <3>2, <3>3 DEF LinksFollow, UserFollows, Awaiting
    <3> HIDE DEF kept
    <3>5. now' - stepped' = now
      BY <1>0, <1>2, <1>a
    <3>6. NothingAhead'
      BY <1>2, <2>3, <3>5 DEF NothingAhead
    <3>7. conf \in Settings
      BY <1>b DEF AtRest
    <3>8. TimerSet'
      BY <1>0, <1>2, <1>a, <2>3, <3>5, <3>7, UpdatedSetsTimer DEF TimerSet
    <3> QED BY <3>4, <3>6, <3>8 DEF TimerFollows
  <2> QED BY <2>4, <2>5 DEF TimerInv
<1>3. (losses \cup StoreLoses(tr) \cup LoseIf(d # stepped, "clock"))
        = losses \cup (StoreLoses(tr) \cup LoseIf(d # stepped, "clock"))
  OBVIOUS
<1> HIDE DEF m, tr, kept, d
<1> QED BY <1>1, <1>2, <1>3 DEF ClockChanged, m, tr, kept, d

\* A start begins with an empty history, and awaits the file.
LEMMA StartSetsTimer ==
  ASSUME StoreInv, TimerInv, Start, machine.state = "DISABLED", now' = now, conf' \in Settings,
         life' # "down"
  PROVE  TimerInv'
<1>1. /\ UNCHANGED <<links, stepped>>
      /\ transitions' = <<>> /\ userState' = "ACTIVE"
      /\ machine' = [machine EXCEPT !.state = "ACTIVE"]
      /\ starts' = Append(starts, "load")
      /\ losses' = losses \cup LoseIf(starts # <<>>, "restart")
  BY DEF Start
<1>2. machine'.state = "ACTIVE" /\ starts \in Seq({"load", "inhibit", "proxy"})
  BY <1>1, TypedFacts DEF Parts
<1>3. AtRest'
  BY <1>2 DEF AtRest
<1>4. ASSUME Trusted' PROVE TimerFollows'
  <2>1. Trusted
    BY <1>1, <1>4, TrustingMore
  <2>2. LinksFollow
    BY <2>1 DEF TimerInv, TimerFollows
  <2>3. /\ Len(starts) + 1 \in DOMAIN starts' /\ starts'[Len(starts) + 1] = "load"
        /\ \A i \in DOMAIN starts : i \in DOMAIN starts' /\ starts'[i] = starts[i]
    BY <1>1, <1>2
  <2>4. Awaiting("load")' /\ starts' # <<>> /\ (Awaiting("inhibit") => Awaiting("inhibit")')
    BY <2>3 DEF Awaiting
  <2>5. LinksFollow'
    BY <1>1, <2>2, <2>4 DEF LinksFollow
  <2>6. UserFollows' /\ NothingAhead' /\ TimerSet'
    BY <1>1, <2>4 DEF UserFollows, NothingAhead, TimerSet
  <2> QED BY <2>5, <2>6 DEF TimerFollows
<1> QED BY <1>3, <1>4 DEF TimerInv

\* A stop leaves nothing armed or connected; what it stores is not of the future.
LEMMA StopClearsTimer ==
  ASSUME StoreInv, TimerInv, NEW history, Stop(history), UNCHANGED <<now, starts>>,
         conf' \in Settings, life' # "down"
  PROVE  TimerInv'
<1> DEFINE tr == IF userState = "INACTIVE" THEN transitions
                 ELSE Append(transitions, Entry("INACTIVE", now))
<1>1. /\ machine' = Off /\ stepped' = 0 /\ links' = [NoLinks EXCEPT !.leaked = links.leaked]
  BY DEF Stop
<1>2. machine'.state = "DISABLED" /\ machine'.timer = NoTimer
  BY <1>1 DEF Off
<1>3. ~links'.source /\ ~links'.manager /\ ~links'.user
  BY <1>1 DEF NoLinks
<1>a. now \in Int /\ stepped \in Int /\ transitions \in Seq(TimedEntries)
  BY TypedFacts
<1>4. AtRest'
  BY <1>2 DEF AtRest
<1>5. LinksFollow' /\ UserFollows' /\ TimerSet'
  BY <1>1, <1>2, <1>3 DEF LinksFollow, UserFollows, TimerSet
<1>6. ASSUME Trusted', starts # <<>>
      PROVE  \A i \in DOMAIN transitions' : transitions'[i].time <= now
  <2>1. CASE history
    <3>1. transitions' = Trim(tr, now)
      BY <2>1 DEF Stop
    <3>2. tr \in Seq(TimedEntries)
      <4>1. Append(transitions, Entry("INACTIVE", now)) \in Seq(TimedEntries)
        BY <1>a, AppendTyped
      <4> QED BY <1>a, <4>1
    <3> HIDE DEF tr
    <3> QED BY <1>a, <3>1, <3>2, TrimNotAhead
  <2>2. CASE ~history
    <3>1. /\ transitions' = transitions
          /\ losses' = losses \cup ({"restart"} \cup LoseIf(stepped # 0, "clock"))
      BY <1>6, <2>2 DEF Stop
    <3>2. Trusted /\ stepped = 0
      <4>1. Trusted /\ "clock" \notin LoseIf(stepped # 0, "clock")
        <5> DEFINE more == {"restart"} \cup LoseIf(stepped # 0, "clock")
        <5>1. Trusted /\ more \subseteq {"crash", "load", "store", "restart"}
          <6> HIDE DEF more
          <6> QED BY <1>6, <3>1, TrustingMore DEF more
        <5> QED BY <5>1
      <4> QED BY <4>1 DEF LoseIf
    <3>3. NothingAhead
      BY <3>2 DEF TimerInv, TimerFollows
    <3>4. now - stepped = now
      BY <1>a, <3>2
    <3> QED BY <1>6, <3>1, <3>3, <3>4 DEF NothingAhead
  <2> QED BY <2>1, <2>2
<1>7. Trusted' => NothingAhead'
  <2>1. now' - stepped' = now
    BY <1>1, <1>a
  <2> QED BY <1>2, <1>6, <2>1 DEF NothingAhead
<1> QED BY <1>4, <1>5, <1>7 DEF TimerInv, TimerFollows

\* _updateSettings
LEMMA UpdateSettingsSetsTimer ==
  ASSUME StoreInv, TimerInv, UpdateSettings(conf'), now' = now, conf' \in Settings,
         life' # "down", life = "down" \/ login' = login
  PROVE  TimerInv'
<1>a. /\ now \in Int /\ stepped \in Int /\ transitions \in Seq(TimedEntries)
      /\ userState \in {"ACTIVE", "INACTIVE"}
  BY TypedFacts
<1>1. CASE Stop(FALSE) /\ UNCHANGED starts
  BY <1>1, StopClearsTimer
<1>2. CASE machine.state = "DISABLED" /\ Start
  BY <1>2, StartSetsTimer
<1>3. CASE /\ machine.state = "DISABLED"
           /\ UNCHANGED <<machine, recordVars, links, starts, stepped, losses>>
  <2>1. AtRest'
    BY <1>3 DEF TimerInv, AtRest
  <2>2. ASSUME Trusted' PROVE TimerFollows'
    <3>1. LinksFollow /\ UserFollows /\ NothingAhead
      BY <1>3, <2>2 DEF TimerInv, TimerFollows, Trusted
    <3>2. LinksFollow' /\ NothingAhead' /\ TimerSet'
      BY <1>3, <3>1 DEF LinksFollow, NothingAhead, TimerSet, Awaiting, recordVars
    <3>3. life = "down" => ~links.user
      BY DEF TimerInv, AtRest, NoLinks
    <3>4. UserFollows'
      BY <1>3, <3>1, <3>3 DEF UserFollows, recordVars
    <3> QED BY <3>2, <3>4 DEF TimerFollows
  <2> QED BY <2>1, <2>2 DEF TimerInv
<1>4. CASE /\ machine.state # "DISABLED"
           /\ machine' = Updated(conf', machine, transitions, userState)
           /\ losses' = losses \cup LoseIf(stepped # 0, "timer")
           /\ UNCHANGED <<recordVars, links, starts, stepped>>
  <2>1. AtRest'
    <3>1. machine'.state = "DISABLED" => machine'.timer = NoTimer
      BY <1>4, UpdatedAtRest
    <3> QED BY <3>1 DEF AtRest
  <2>2. ASSUME Trusted' PROVE TimerFollows'
    <3>1. Trusted /\ stepped = 0
      <4>1. Trusted /\ "timer" \notin LoseIf(stepped # 0, "timer")
        BY <1>4, <2>2, TrustingMore
      <4> QED BY <4>1 DEF LoseIf
    <3>2. LinksFollow /\ UserFollows /\ NothingAhead
      BY <3>1 DEF TimerInv, TimerFollows
    <3>3. login' = login
      BY <1>4 DEF TimerInv, AtRest
    <3>4. LinksFollow' /\ UserFollows' /\ NothingAhead'
      BY <1>4, <3>2, <3>3 DEF LinksFollow, UserFollows, NothingAhead, Awaiting, recordVars
    <3>5. now' - stepped' = now
      BY <1>4, <1>a, <3>1
    <3>6. TimerSet'
      <4>1. userState' = "ACTIVE" =>
              machine' = Updated(conf', machine, transitions, "ACTIVE")
        BY <1>4 DEF recordVars
      <4>2. transitions' = transitions
        BY <1>4 DEF recordVars
      <4> QED BY <1>a, <3>5, <4>1, <4>2, UpdatedSetsTimer DEF TimerSet
    <3> QED BY <3>4, <3>6 DEF TimerFollows
  <2> QED BY <2>1, <2>2 DEF TimerInv
<1> QED BY Zenon, <1>1, <1>2, <1>3, <1>4 DEF UpdateSettings

\* Settings that change, the constructor, the shutdown.
LEMMA LifeSetsTimer ==
  ASSUME StoreInv, TimerInv,
         \/ \E cf \in Changed(conf) : SettingsChange(cf)
         \/ Boot
         \/ Shutdown
  PROVE  TimerInv'
<1>a. conf \in Settings
  BY DEF TimerInv, AtRest
<1>1. ASSUME NEW cf \in Changed(conf), SettingsChange(cf) PROVE TimerInv'
  <2>1. cf \in Settings
    BY <1>a DEF Changed, Settings
  <2>2. conf' = cf /\ UpdateSettings(cf) /\ now' = now /\ life' = "up" /\ login' = login
    BY <1>1 DEF SettingsChange, clockVars
  <2> QED BY <2>1, <2>2, UpdateSettingsSetsTimer
<1>2. CASE Boot
  <2>1. conf' = conf /\ UpdateSettings(conf) /\ now' = now /\ life = "down" /\ life' = "up"
    BY <1>2 DEF Boot, clockVars
  <2> QED BY <1>a, <2>1, UpdateSettingsSetsTimer
<1>3. CASE Shutdown
  <2>1. Stop(conf.history) /\ now' = now /\ starts' = starts /\ conf' = conf /\ life' = "exiting"
    BY <1>3 DEF Shutdown, clockVars
  <2> QED BY <1>a, <2>1, StopClearsTimer
<1> QED BY <1>1, <1>2, <1>3

\* The process ends.
LEMMA ExitClearsTimer ==
  ASSUME TimerInv, Exit
  PROVE  TimerInv'
<1>1. /\ machine' = Off /\ userState' = "INACTIVE" /\ links' = NoLinks /\ starts' = <<>>
      /\ stepped' = 0 /\ transitions' = <<>> /\ conf' = conf
  BY DEF Exit
<1>2. machine'.state = "DISABLED" /\ machine'.timer = NoTimer /\ ~links'.source /\ ~links'.manager
  BY <1>1 DEF Off, NoLinks
<1>3. AtRest'
  BY <1>1, <1>2 DEF TimerInv, AtRest
<1>4. TimerFollows'
  BY <1>1, <1>2 DEF TimerFollows, LinksFollow, UserFollows, NothingAhead, TimerSet
<1> QED BY <1>3, <1>4 DEF TimerInv

\* The load has ended.
LEMMA LoadDoneSetsTimer ==
  ASSUME StoreInv, TimerInv, NEW i \in DOMAIN starts, LoadDone(i)
  PROVE  TimerInv'
<1>1. PICK ok \in Outcomes("load"), listening \in Outcomes("listen") :
        LET loaded == IF ok THEN Loaded(file, now) ELSE <<>>
            tr == transitions \o loaded
            us == IF loaded = <<>> THEN userState ELSE Last(loaded).new
            m == IF ok /\ LoadRecalculates(file, now)
                 THEN Recalculated(machine, tr, us) ELSE machine
            fake == Append(tr, Entry("ACTIVE", now))
            begins == tr = <<>> \/ us # "ACTIVE"
        IN  /\ transitions' = IF begins THEN fake ELSE tr
            /\ machine' = IF begins THEN Recalculated(m, fake, "ACTIVE") ELSE m
            /\ links' = [links EXCEPT !.source = listening,
                                      !.leaked = @ \/ links.source,
                                      !.manager = TRUE,
                                      !.sleep = @ \/ links.inhibitor]
            /\ Await(i, IF links.inhibitor THEN "proxy" ELSE "inhibit")
            /\ stepped' = 0
            /\ losses' = losses \cup LoseIf(~ok /\ file # <<>>, "load")
                                \cup LoseIf(stepped # 0, "clock")
            /\ UNCHANGED <<clockVars, envVars>>
  BY DEF LoadDone
<1> DEFINE loaded == IF ok THEN Loaded(file, now) ELSE <<>>
           tr == transitions \o loaded
           us == IF loaded = <<>> THEN userState ELSE Last(loaded).new
           m == IF ok /\ LoadRecalculates(file, now)
                THEN Recalculated(machine, tr, us) ELSE machine
           fake == Append(tr, Entry("ACTIVE", now))
           begins == tr = <<>> \/ us # "ACTIVE"
           more == LoseIf(~ok /\ file # <<>>, "load") \cup LoseIf(stepped # 0, "clock")
<1>2. /\ transitions' = IF begins THEN fake ELSE tr
      /\ machine' = IF begins THEN Recalculated(m, fake, "ACTIVE") ELSE m
      /\ stepped' = 0 /\ now' = now /\ conf' = conf /\ life' = life
      /\ losses' = losses \cup more
  BY <1>1 DEF clockVars, envVars
<1>3. /\ links' = [links EXCEPT !.source = listening,
                                !.leaked = @ \/ links.source,
                                !.manager = TRUE,
                                !.sleep = @ \/ links.inhibitor]
      /\ starts' = [starts EXCEPT ![i] = IF links.inhibitor THEN "proxy" ELSE "inhibit"]
  BY <1>1 DEF Await
<1>a. /\ now \in Int /\ stepped \in Int /\ transitions \in Seq(TimedEntries)
      /\ file \in Seq(TimedEntries) /\ links \in Links
      /\ starts \in Seq({"load", "inhibit", "proxy"})
  BY TypedFacts
<1>4. loaded \in Seq(TimedEntries) /\ InOrder(loaded, now)
  BY <1>a, LoadedInOrder, EmptyInOrder
<1> HIDE DEF loaded
<1>5. tr \in Seq(TimedEntries)
  BY <1>4, <1>a
<1> HIDE DEF us
<1>6. AtRest'
  <2>1. machine.state = "DISABLED" => machine.timer = NoTimer
    BY DEF TimerInv, AtRest
  <2> HIDE DEF tr
  <2>2. m.state = "DISABLED" => m.timer = NoTimer
    BY <2>1, UpdatedAtRest
  <2> HIDE DEF m, fake, begins
  <2>3. machine'.state = "DISABLED" => machine'.timer = NoTimer
    BY <1>2, <2>2, UpdatedAtRest
  <2>4. life # "down"
    BY DEF TimerInv, AtRest
  <2> QED BY <1>2, <2>3, <2>4 DEF TimerInv, AtRest
<1>7. ASSUME Trusted' PROVE TimerFollows'
  <2>1. Trusted /\ stepped = 0
    <3>1. Trusted /\ more \subseteq {"crash", "load", "store", "restart"}
      <4> HIDE DEF more
      <4> QED BY <1>2, <1>7, TrustingMore
    <3>2. "clock" \notin more
      <4> HIDE DEF more
      <4> QED BY <3>1
    <3> QED BY <3>1, <3>2 DEF LoseIf
  <2>2. /\ starts' # <<>> /\ i \in DOMAIN starts'
        /\ ~links.inhibitor => starts'[i] = "inhibit"
    BY <1>3, <1>a
  <2>3. /\ links'.manager
        /\ links.inhibitor => links'.sleep
    BY <1>3, <1>a DEF Links
  <2>4. LinksFollow'
    BY <1>2, <2>2, <2>3 DEF LinksFollow, Awaiting
  <2>5. UserFollows' /\ TimerSet'
    BY <2>2, <2>3 DEF UserFollows, TimerSet
  <2>6. NothingAhead'
    <3>1. \A j \in DOMAIN transitions : transitions[j].time <= now - stepped
      BY <2>1 DEF TimerInv, TimerFollows, NothingAhead
    <3>2. now - stepped = now /\ now' - stepped' = now
      BY <1>2, <1>a, <2>1
    <3>3. \A j \in DOMAIN tr : tr[j].time <= now
      <4>1. /\ DOMAIN tr = 1 .. Len(transitions) + Len(loaded)
            /\ Len(transitions) \in Nat /\ Len(loaded) \in Nat
            /\ \A k \in 1 .. Len(transitions) : tr[k] = transitions[k]
            /\ \A k \in 1 .. Len(loaded) : tr[Len(transitions) + k] = loaded[k]
        <5> QED BY ONLY <1>4, <1>a, ConcatFacts
      <4>2. DOMAIN transitions = 1 .. Len(transitions) /\ DOMAIN loaded = 1 .. Len(loaded)
        BY <1>4, <1>a, EntryFacts
      <4> SUFFICES ASSUME NEW j \in DOMAIN tr PROVE tr[j].time <= now
        OBVIOUS
      <4> HIDE DEF tr
      <4>3. CASE j <= Len(transitions)
        <5>1. j \in DOMAIN transitions
          BY <4>1, <4>2, <4>3
        <5> QED BY <3>1, <3>2, <4>1, <4>2, <5>1
      <4>4. CASE j > Len(transitions)
        <5> DEFINE k == j - Len(transitions)
        <5>1. k \in DOMAIN loaded /\ j = Len(transitions) + k
          BY <4>1, <4>2, <4>4
        <5> HIDE DEF k
        <5> QED BY <1>4, <4>1, <4>2, <5>1 DEF InOrder
      <4> QED BY <4>1, <4>3, <4>4
    <3> HIDE DEF tr
    <3>4. \A j \in DOMAIN fake : fake[j].time <= now
      BY <1>5, <1>a, <3>3, AppendNotAhead
    <3> QED BY <1>2, <3>2, <3>3, <3>4 DEF NothingAhead
  <2> QED BY <2>4, <2>5, <2>6 DEF TimerFollows
<1> QED BY <1>6, <1>7 DEF TimerInv

\* The inhibitor was taken, or not: a start that ends here, after a stop, leaves
\* another one under way if the user is taken to be active.
LEMMA InhibitDoneKeepsTimer ==
  ASSUME StoreInv, TimerInv, NEW i \in DOMAIN starts, InhibitDone(i)
  PROVE  TimerInv'
<1>1. /\ starts[i] = "inhibit"
      /\ starts' = IF links.manager THEN [starts EXCEPT ![i] = "proxy"] ELSE RemoveAt(starts, i)
      /\ UNCHANGED <<now, conf, life, login, machine, userState, transitions, stepped, losses>>
  BY DEF InhibitDone, Await, Ended, clockVars, envVars, recordVars
<1>2. PICK ok : links' = [links EXCEPT !.inhibitor = @ \/ ok, !.sleep = links.manager]
  BY DEF InhibitDone
<1>a. links \in Links /\ starts \in Seq({"load", "inhibit", "proxy"})
  BY TypedFacts
<1>3. /\ links'.source = links.source /\ links'.manager = links.manager
      /\ links'.user = links.user /\ links'.sleep = links.manager
  BY <1>2, <1>a DEF Links
<1>4. starts # <<>> /\ (links.manager => starts' # <<>>)
  BY <1>1, <1>a
<1>5. AtRest'
  BY <1>1, <1>4 DEF TimerInv, AtRest
<1>6. ASSUME Trusted' PROVE TimerFollows'
  <2>1. LinksFollow /\ UserFollows /\ NothingAhead
    BY <1>1, <1>6 DEF TimerInv, TimerFollows, Trusted
  <2>2. LinksFollow'
    BY <1>1, <1>3, <1>4, <2>1 DEF LinksFollow
  <2>3. ~links.manager /\ Awaiting("load") => Awaiting("load")' /\ starts' # <<>>
    <3> SUFFICES ASSUME ~links.manager, Awaiting("load") PROVE Awaiting("load")' /\ starts' # <<>>
      OBVIOUS
    <3>1. starts' = RemoveAt(starts, i) /\ \E j \in DOMAIN starts : starts[j] = "load"
      BY <1>1 DEF Awaiting
    <3>2. \E j \in DOMAIN starts' : starts'[j] = "load"
      BY <1>1, <1>a, <3>1, RemoveKeeps
    <3> QED BY <3>2 DEF Awaiting
  <2>4. UserFollows'
    BY <1>1, <1>3, <1>4, <2>1, <2>3 DEF UserFollows
  <2>5. NothingAhead' /\ TimerSet'
    <3>1. NothingAhead'
      BY <1>1, <1>4, <2>1 DEF NothingAhead
    <3>2. TimerSet'
      BY <1>1, <1>4, <2>1, <2>3 DEF UserFollows, TimerSet
    <3> QED BY <3>1, <3>2
  <2> QED BY <2>2, <2>4, <2>5 DEF TimerFollows
<1> QED BY <1>5, <1>6 DEF TimerInv

\* The proxy of the user is there, or not: the end of a start, which looks at the
\* state of the user and arms the timer by it.
LEMMA ProxyDoneSetsTimer ==
  ASSUME StoreInv, TimerInv, NEW i \in DOMAIN starts, ProxyDone(i)
  PROVE  TimerInv'
<1> DEFINE new == Calculate(login)
           tr == IF new = userState THEN transitions
                 ELSE Append(transitions, Entry(new, now))
           m == IF new = userState THEN machine ELSE Recalculated(machine, tr, new)
           what == IF tr = transitions THEN "timer" ELSE "clock"
<1>1. /\ starts[i] = "proxy" /\ starts' = RemoveAt(starts, i)
      /\ UNCHANGED <<now, conf, life, login, stepped>>
  BY DEF ProxyDone, Ended, clockVars, envVars
<1>2. \/ UNCHANGED machine /\ losses' = losses \cup {"start"}
      \/ /\ login.active => links.manager
         /\ links' = [links EXCEPT !.user = TRUE]
         /\ userState' = new /\ transitions' = tr
         /\ machine' = Updated(conf, m, tr, new)
         /\ losses' = losses \cup LoseIf(stepped # 0, what)
  BY DEF ProxyDone
<1>a. /\ links \in Links /\ starts \in Seq({"load", "inhibit", "proxy"})
      /\ now \in Int /\ stepped \in Int /\ transitions \in Seq(TimedEntries)
  BY TypedFacts
<1>b. starts # <<>>
  OBVIOUS
<1>3. new \in {"ACTIVE", "INACTIVE"} /\ (new = "ACTIVE" => login.active)
  BY DEF Calculate
<1>4. tr \in Seq(TimedEntries)
  BY <1>3, <1>a, AppendTyped
<1> HIDE DEF new
<1>5. AtRest'
  <2>1. machine.state = "DISABLED" => machine.timer = NoTimer
    BY DEF TimerInv, AtRest
  <2> HIDE DEF tr
  <2>2. m.state = "DISABLED" => m.timer = NoTimer
    BY <2>1, UpdatedAtRest
  <2> HIDE DEF m
  <2>3. machine'.state = "DISABLED" => machine'.timer = NoTimer
    BY <1>2, <2>1, <2>2, UpdatedAtRest
  <2> QED BY <1>1, <1>b, <2>3 DEF TimerInv, AtRest
<1>6. ASSUME Trusted' PROVE TimerFollows'
  <2>1. /\ login.active => links.manager
        /\ links' = [links EXCEPT !.user = TRUE]
        /\ userState' = new /\ transitions' = tr
        /\ machine' = Updated(conf, m, tr, new)
        /\ losses' = losses \cup LoseIf(stepped # 0, what)
    <3>1. "start" \notin losses'
      BY <1>6 DEF Trusted
    <3> HIDE DEF tr, m, what
    <3> QED BY <1>2, <3>1
  <2>2. Trusted /\ stepped = 0
    <3>1. Trusted /\ what \in {"timer", "clock"}
      <4> HIDE DEF tr
      <4> QED BY <1>6, <2>1, TrustingMore
    <3>2. LoseIf(stepped # 0, what) \subseteq {"crash", "load", "store", "restart"}
      <4> HIDE DEF what
      <4> QED BY <1>6, <2>1, TrustingMore
    <3> HIDE DEF what
    <3> QED BY <3>1, <3>2 DEF LoseIf
  <2> HIDE DEF what
  <2>3. LinksFollow /\ NothingAhead
    BY <2>2 DEF TimerInv, TimerFollows
  <2>4. /\ links'.user /\ links'.source = links.source /\ links'.manager = links.manager
        /\ links'.sleep = links.sleep
    BY <1>a, <2>1 DEF Links
  <2>5. Awaiting("inhibit") => Awaiting("inhibit")'
    <3> SUFFICES ASSUME Awaiting("inhibit") PROVE Awaiting("inhibit")'
      OBVIOUS
    <3>1. \E j \in DOMAIN starts : starts[j] = "inhibit"
      BY DEF Awaiting
    <3>2. \E j \in DOMAIN RemoveAt(starts, i) : RemoveAt(starts, i)[j] = "inhibit"
      BY <1>1, <1>a, <3>1, RemoveKeeps
    <3> QED BY <1>1, <3>2 DEF Awaiting
  <2>6. LinksFollow'
    <3> HIDE DEF tr, m
    <3> QED BY <1>1, <2>2, <2>3, <2>4, <2>5 DEF LinksFollow
  <2>7. UserFollows'
    <3> HIDE DEF tr, m
    <3> QED BY <1>1, <1>3, <2>1, <2>4 DEF UserFollows, new
  <2>8. now - stepped = now /\ now' - stepped' = now
    BY <1>1, <1>a, <2>2
  <2>9. NothingAhead'
    <3>1. \A j \in DOMAIN transitions : transitions[j].time <= now
      BY <1>b, <2>3, <2>8 DEF NothingAhead
    <3>2. \A j \in DOMAIN Append(transitions, Entry(new, now)) :
            Append(transitions, Entry(new, now))[j].time <= now
      BY <1>a, <3>1, AppendNotAhead
    <3>3. \A j \in DOMAIN tr : tr[j].time <= now
      BY <3>1, <3>2
    <3> HIDE DEF tr, m
    <3> QED BY <2>1, <2>8, <3>3 DEF NothingAhead
  <2>10. conf \in Settings
    BY DEF TimerInv, AtRest
  <2> HIDE DEF tr, m
  <2>11. TimerSet'
    <3> SUFFICES ASSUME machine'.state = "ACTIVE", userState' = "ACTIVE", conf.limitOn
                 PROVE  machine'.timer \in 0 .. conf.limit - ActiveTime(tr, now)
      BY <1>1, <2>1, <2>8 DEF TimerSet
    <3>1. machine' = Updated(conf, m, tr, "ACTIVE")
      BY <2>1
    <3> QED BY <1>4, <1>a, <2>10, <3>1, UpdatedSetsTimer
  <2> QED BY <2>6, <2>7, <2>9, <2>11 DEF TimerFollows
<1> QED BY <1>5, <1>6 DEF TimerInv

---------------------------------------------------------------------------

\* TimerInv is an invariant of the time limits manager, inductive with StoreInv.
THEOREM TimerStaysSet == Spec => []TimerInv
<1>1. Init => TimerInv
  <2> SUFFICES ASSUME Init PROVE TimerInv
    OBVIOUS
  <2>1. /\ stepped = 0 /\ machine = Off /\ userState = "INACTIVE" /\ links = NoLinks
        /\ starts = <<>> /\ conf \in StartSettings
    BY DEF Init
  <2>2. machine.state = "DISABLED" /\ machine.timer = NoTimer
    BY <2>1 DEF Off
  <2>3. ~links.source /\ ~links.manager /\ ~links.user
    BY <2>1 DEF NoLinks
  <2>4. conf \in Settings
    BY <2>1, TimeLimitsAssumption
  <2>5. AtRest
    BY <2>1, <2>2, <2>4 DEF AtRest
  <2>6. TimerFollows
    BY <2>1, <2>2, <2>3 DEF TimerFollows, LinksFollow, UserFollows, NothingAhead, TimerSet
  <2> QED BY <2>5, <2>6 DEF TimerInv
<1>2. StoreInv /\ TimerInv /\ [Next]_vars => TimerInv'
  <2> SUFFICES ASSUME StoreInv, TimerInv, [Next]_vars PROVE TimerInv'
    OBVIOUS
  <2>1. ASSUME NEW cf \in Changed(conf) \ {conf}, SettingsChange(cf) PROVE TimerInv'
    BY <2>1, LifeSetsTimer
  <2>2. ASSUME NEW i \in DOMAIN starts, LoadDone(i) PROVE TimerInv'
    BY <2>2, LoadDoneSetsTimer
  <2>3. ASSUME NEW i \in DOMAIN starts, InhibitDone(i) PROVE TimerInv'
    BY <2>3, InhibitDoneKeepsTimer
  <2>4. ASSUME NEW i \in DOMAIN starts, ProxyDone(i) PROVE TimerInv'
    BY <2>4, ProxyDoneSetsTimer
  <2>5. CASE LoginChange \/ PrepareForSleep \/ WakeUp
    BY <2>5, LoginEventsSetTimer
  <2>6. CASE TimerFires \/ Tick \/ SleepTick
    BY <2>6, TimePassingKeepsTimer
  <2>7. CASE ClockChanged
    BY <2>7, ClockChangedSetsTimer
  <2>8. ASSUME NEW d \in ClockSteps, ClockStep(d) PROVE TimerInv'
    BY <2>8, ClockStepKeepsTimer
  <2>9. CASE Boot \/ Shutdown
    BY <2>9, LifeSetsTimer
  <2>10. CASE ExitAfterShutdown \/ Crash
    BY <2>10, ExitClearsTimer DEF ExitAfterShutdown, Crash
  <2>11. CASE UNCHANGED vars
    <3>1. /\ now' = now /\ stepped' = stepped /\ starts' = starts /\ links' = links
          /\ machine' = machine /\ transitions' = transitions /\ losses' = losses
          /\ userState' = userState /\ life' = life /\ conf' = conf /\ login' = login
      BY <2>11 DEF vars, clockVars, envVars, recordVars
    <3> QED BY Zenon, <3>1 DEF TimerInv, AtRest, Trusted, TimerFollows, LinksFollow, UserFollows,
                               NothingAhead, TimerSet, Awaiting, Calculate
  <2> QED
    BY Zenon, <2>1, <2>2, <2>3, <2>4, <2>5, <2>6, <2>7, <2>8, <2>9, <2>10, <2>11 DEF Next
<1> QED BY <1>1, <1>2, HistoryStaysInOrder, PTL DEF Spec

\* Whatever was lost of the history, as long as no clock step was missed and the
\* starts took, the timer that _updateState arms is due no later than the limit is
\* reached by the history there is (_updateState, _scheduleUpdateState).
THEOREM LimitTimerIsAlwaysArmed == Spec => []LimitTimerArmed
<1>1. StoreInv /\ TimerInv => LimitTimerArmed
  <2> SUFFICES ASSUME StoreInv, TimerInv, Running, Trusted, conf.limitOn,
                      userState = "ACTIVE", machine.state = "ACTIVE"
               PROVE  machine.timer \in 0 .. conf.limit - ActiveTime(transitions, now)
    BY DEF LimitTimerArmed, Trusted
  <2>1. now - stepped = now /\ starts = <<>>
    BY TypedFacts DEF Running
  <2> QED BY <2>1 DEF TimerInv, TimerFollows, TimerSet
<1> QED BY <1>1, HistoryStaysInOrder, TimerStaysSet, PTL

---------------------------------------------------------------------------
(* Active seconds.                                                         *)

\* The i-th transition is the first one after second x.
NextAt(s, x, i) == s[i].time > x /\ \A j \in DOMAIN s : j < i => s[j].time <= x

\* By the history, second x is one of activity: the next transition ends it, or
\* there is none and the user is still active.
ActiveAt(s, x) ==
  \/ \E i \in DOMAIN s : NextAt(s, x, i) /\ s[i].new = "INACTIVE"
  \/ s # <<>> /\ s[Len(s)].new = "ACTIVE" /\ \A i \in DOMAIN s : s[i].time <= x

Alternates(s) == \A i \in DOMAIN s : i + 1 \in DOMAIN s => s[i].new # s[i + 1].new

\* The active seconds from `from' on which the transitions up to the k-th end.
EndedBy(s, from, k) ==
  {x \in Int : from <= x /\ \E i \in DOMAIN s : i <= k /\ NextAt(s, x, i) /\ s[i].new = "INACTIVE"}

\* A pair of a transition and a second is spent if the transition is the next one
\* and ends a period of activity.
LEMMA SpentIsEnded ==
  ASSUME NEW s \in Seq(TimedEntries), Sorted(s), Alternates(s), NEW from \in Int, NEW k,
         NEW i \in DOMAIN s, NEW x \in Int
  PROVE  <<i, x>> \in Spent(s, from, k) <=>
           i <= k /\ s[i].new = "INACTIVE" /\ from <= x /\ NextAt(s, x, i)
<1>1. DOMAIN s = 1 .. Len(s) /\ Len(s) \in Nat /\ \A j \in DOMAIN s : s[j].time \in Int
  BY EntryFacts
<1>0. \A j \in DOMAIN s : s[j].new \in {"ACTIVE", "INACTIVE"}
  <2>1. \A e \in TimedEntries : e.new \in {"ACTIVE", "INACTIVE"}
    BY DEF TimedEntries
  <2>2. \A j \in DOMAIN s : s[j] \in TimedEntries
    BY EntryFacts
  <2> QED BY <2>1, <2>2
<1>2. /\ Since(s, from, i) \in Int
      /\ \/ /\ Since(s, from, i) = from
            /\ \A j \in Today(s, from) : j < i => s[j].new # "ACTIVE"
         \/ \E m \in Today(s, from) :
              /\ m < i /\ s[m].new = "ACTIVE" /\ Since(s, from, i) = s[m].time
              /\ \A j \in Today(s, from) : j < i /\ s[j].new = "ACTIVE" => j <= m
  BY <1>1, SinceFacts
<1>3. \A j \in DOMAIN s : j \in Today(s, from) <=> s[j].time >= from
  <2> SUFFICES ASSUME NEW j \in DOMAIN s PROVE j \in Today(s, from) <=> s[j].time >= from
    OBVIOUS
  <2>1. s[j].time >= from => j \in Today(s, from)
    BY <1>1 DEF Today
  <2>2. ASSUME j \in Today(s, from) PROVE s[j].time >= from
    <3>1. PICK h \in DOMAIN s : h <= j /\ s[h].time >= from
      BY <2>2 DEF Today
    <3>2. s[h].time <= s[j].time
      BY <1>1, <3>1 DEF Sorted
    <3> QED BY <1>1, <3>1, <3>2
  <2> QED BY <2>1, <2>2
<1>4. \A j \in Today(s, from) : j \in DOMAIN s
  BY DEF Today
<1>5. <<i, x>> \in Spent(s, from, k) <=>
        /\ i \in Today(s, from) /\ i <= k /\ s[i].new = "INACTIVE"
        /\ Since(s, from, i) <= x /\ x <= s[i].time - 1
  <2>1. <<i, x>> \in Spent(s, from, k) <=>
          \E h \in Today(s, from) : \E y \in Since(s, from, h) .. s[h].time - 1 :
            h <= k /\ s[h].new = "INACTIVE" /\ <<i, x>> = <<h, y>>
    BY SpentMembers
  <2>2. x \in Since(s, from, i) .. s[i].time - 1 <=> Since(s, from, i) <= x /\ x <= s[i].time - 1
    BY <1>1, <1>2
  <2> QED BY <2>1, <2>2
<1>6. ASSUME i \in Today(s, from), s[i].new = "INACTIVE",
             Since(s, from, i) <= x, x <= s[i].time - 1
      PROVE  from <= x /\ NextAt(s, x, i)
  <2>1. s[i].time > x
    BY <1>1, <1>6
  <2>2. from <= x
    BY <1>1, <1>2, <1>3, <1>4, <1>6
  <2>3. ASSUME NEW j \in DOMAIN s, j < i PROVE s[j].time <= x
    <3>1. CASE s[j].time < from
      BY <1>1, <2>2, <3>1
    <3>2. CASE s[j].time >= from
      <4> DEFINE h == i - 1
      <4>1. h \in DOMAIN s /\ h + 1 = i /\ j <= h /\ h < i
        BY <1>1, <2>3
      <4> HIDE DEF h
      <4>2. s[j].time <= s[h].time
        <5>1. j = h \/ j < h
          BY <1>1, <4>1
        <5> QED BY <1>1, <4>1, <5>1 DEF Sorted
      <4>3. h \in Today(s, from)
        BY <1>1, <1>3, <3>2, <4>1, <4>2
      <4>4. s[h].new = "ACTIVE"
        BY <1>0, <1>6, <4>1 DEF Alternates
      <4>5. PICK m \in Today(s, from) :
              /\ m < i /\ s[m].new = "ACTIVE" /\ Since(s, from, i) = s[m].time
              /\ \A l \in Today(s, from) : l < i /\ s[l].new = "ACTIVE" => l <= m
        BY <1>2, <4>1, <4>3, <4>4
      <4>6. h <= m /\ m \in DOMAIN s
        BY <1>4, <4>1, <4>3, <4>4, <4>5
      <4>7. m = h
        BY <1>1, <4>1, <4>5, <4>6
      <4> QED BY <1>1, <1>6, <4>1, <4>2, <4>5, <4>7
    <3> QED BY <1>1, <3>1, <3>2
  <2> QED BY <2>1, <2>2, <2>3 DEF NextAt
<1>7. ASSUME from <= x, NextAt(s, x, i)
      PROVE  i \in Today(s, from) /\ Since(s, from, i) <= x /\ x <= s[i].time - 1
  <2>1. s[i].time > x /\ \A j \in DOMAIN s : j < i => s[j].time <= x
    BY <1>7 DEF NextAt
  <2>2. i \in Today(s, from) /\ x <= s[i].time - 1
    BY <1>1, <1>3, <1>7, <2>1
  <2>3. Since(s, from, i) <= x
    BY <1>1, <1>2, <1>4, <1>7, <2>1
  <2> QED BY <2>2, <2>3
<1> QED BY <1>5, <1>6, <1>7

\* So the total is the number of those seconds.
LEMMA TotalIsEnded ==
  ASSUME NEW s \in Seq(TimedEntries), Sorted(s), Alternates(s), NEW from \in Int, NEW k
  PROVE  /\ IsFiniteSet(EndedBy(s, from, k))
         /\ Total(s, from, k) = Cardinality(EndedBy(s, from, k))
<1> DEFINE P == Spent(s, from, k)
           Q == EndedBy(s, from, k)
           f == [p \in P |-> p[2]]
<1>1. IsFiniteSet(P)
  BY SpentIsFinite
<1>2. DOMAIN s = 1 .. Len(s) /\ Len(s) \in Nat /\ \A j \in DOMAIN s : s[j].time \in Int
  BY EntryFacts
<1>3. \A p \in P : \E i \in DOMAIN s, x \in Int : p = <<i, x>>
  <2> SUFFICES ASSUME NEW p \in P PROVE \E i \in DOMAIN s, x \in Int : p = <<i, x>>
    OBVIOUS
  <2>1. PICK i \in Today(s, from) : \E x \in Since(s, from, i) .. s[i].time - 1 : p = <<i, x>>
    BY SpentMembers
  <2>2. i \in DOMAIN s
    BY DEF Today
  <2> QED BY <2>1, <2>2
<1>4. \A i \in DOMAIN s, x \in Int :
        <<i, x>> \in P <=> i <= k /\ s[i].new = "INACTIVE" /\ from <= x /\ NextAt(s, x, i)
  BY SpentIsEnded
<1> HIDE DEF P
<1>5. \A p \in P : f[p] = p[2] /\ p[2] \in Q
  <2> SUFFICES ASSUME NEW p \in P PROVE f[p] = p[2] /\ p[2] \in Q
    OBVIOUS
  <2>1. PICK i \in DOMAIN s, x \in Int : p = <<i, x>>
    BY <1>3
  <2>2. i <= k /\ s[i].new = "INACTIVE" /\ from <= x /\ NextAt(s, x, i)
    BY <1>4, <2>1
  <2>3. x \in Q
    BY <2>2 DEF EndedBy
  <2> QED BY <2>1, <2>3
<1>6. \A p, q \in P : p[2] = q[2] => p = q
  <2> SUFFICES ASSUME NEW p \in P, NEW q \in P, p[2] = q[2] PROVE p = q
    OBVIOUS
  <2>1. PICK i \in DOMAIN s, x \in Int : p = <<i, x>>
    BY <1>3
  <2>2. PICK j \in DOMAIN s, y \in Int : q = <<j, y>>
    BY <1>3
  <2>3. x = y
    BY <2>1, <2>2
  <2>4. NextAt(s, x, i) /\ NextAt(s, x, j)
    BY <1>4, <2>1, <2>2, <2>3
  <2>5. ~(i < j) /\ ~(j < i)
    BY <1>2, <2>4 DEF NextAt
  <2>6. i = j
    BY <1>2, <2>5
  <2> QED BY <2>1, <2>2, <2>3, <2>6
<1>7. \A x \in Q : \E p \in P : p[2] = x
  <2> SUFFICES ASSUME NEW x \in Q PROVE \E p \in P : p[2] = x
    OBVIOUS
  <2>1. x \in Int /\ from <= x
    BY DEF EndedBy
  <2>2. PICK i \in DOMAIN s : i <= k /\ NextAt(s, x, i) /\ s[i].new = "INACTIVE"
    BY DEF EndedBy
  <2>3. <<i, x>> \in P
    BY <1>4, <2>1, <2>2
  <2>4. <<i, x>>[2] = x
    OBVIOUS
  <2> QED BY <2>3, <2>4
<1> HIDE DEF Q
<1>8. f \in Bijection(P, Q)
  <2>1. f \in [P -> Q]
    BY <1>5
  <2>2. \A a, b \in P : f[a] = f[b] => a = b
    BY <1>5, <1>6
  <2>3. \A x \in Q : \E p \in P : f[p] = x
    BY <1>5, <1>7
  <2> HIDE DEF f
  <2> QED BY <2>1, <2>2, <2>3 DEF Bijection, Injection, Surjection, IsInjective
<1>9. IsFiniteSet(Q) /\ Cardinality(Q) = Cardinality(P)
  BY <1>1, <1>8, FS_Bijection DEF ExistsBijection
<1> QED BY <1>9 DEF Total, P, Q

\* Two finite sets with nothing in common.
LEMMA DisjointCount ==
  ASSUME NEW S, IsFiniteSet(S), NEW T, IsFiniteSet(T), S \cap T = {}
  PROVE  /\ IsFiniteSet(S \cup T)
         /\ Cardinality(S \cup T) = Cardinality(S) + Cardinality(T)
<1>1. /\ IsFiniteSet(S \cup T)
      /\ Cardinality(S \cup T) = Cardinality(S) + Cardinality(T) - Cardinality(S \cap T)
  BY FS_Union
<1>2. Cardinality(S \cap T) = 0
  BY FS_EmptySet
<1>3. Cardinality(S) \in Nat /\ Cardinality(T) \in Nat
  BY FS_CardinalityType
<1> QED BY <1>1, <1>2, <1>3

\* The seconds of activity from `from' to t.
Seconds(s, from, t) == {x \in from .. t - 1 : ActiveAt(s, x)}

\* The unfinished period begins with the last transition, or with the day.
LEMMA OpenPeriod ==
  ASSUME NEW s \in Seq(TimedEntries), Sorted(s), NEW from \in Int, NEW x \in Int,
         s # <<>>, s[Len(s)].new = "ACTIVE"
  PROVE  /\ Since(s, from, Len(s) + 1) \in Int
         /\ Since(s, from, Len(s) + 1) <= x <=>
              from <= x /\ \A i \in DOMAIN s : s[i].time <= x
<1> DEFINE n == Len(s)
           b == Since(s, from, n + 1)
<1>1. DOMAIN s = 1 .. n /\ n \in Nat /\ \A j \in DOMAIN s : s[j].time \in Int
  BY EntryFacts
<1>2. n \in DOMAIN s /\ n < n + 1 /\ n + 1 \in Int
  BY <1>1
<1>3. /\ b \in Int
      /\ \/ /\ b = from
            /\ \A j \in Today(s, from) : j < n + 1 => s[j].new # "ACTIVE"
         \/ \E m \in Today(s, from) :
              /\ m < n + 1 /\ s[m].new = "ACTIVE" /\ b = s[m].time
              /\ \A j \in Today(s, from) : j < n + 1 /\ s[j].new = "ACTIVE" => j <= m
  BY <1>2, SinceFacts
<1> HIDE DEF b
<1>4. \A j \in Today(s, from) : j \in DOMAIN s /\ s[j].time >= from
  <2> SUFFICES ASSUME NEW j \in Today(s, from) PROVE j \in DOMAIN s /\ s[j].time >= from
    OBVIOUS
  <2>1. j \in DOMAIN s
    BY DEF Today
  <2>2. PICK h \in DOMAIN s : h <= j /\ s[h].time >= from
    BY DEF Today
  <2>3. s[h].time <= s[j].time
    BY <1>1, <2>1, <2>2 DEF Sorted
  <2> QED BY <1>1, <2>1, <2>2, <2>3
<1>5. \A j \in DOMAIN s : s[j].time >= from => j \in Today(s, from)
  BY <1>1 DEF Today
<1>6. \A j \in DOMAIN s : s[j].time <= s[n].time
  <2> SUFFICES ASSUME NEW j \in DOMAIN s PROVE s[j].time <= s[n].time
    OBVIOUS
  <2>1. j = n \/ j < n
    BY <1>1
  <2> QED BY <1>1, <1>2, <2>1 DEF Sorted
<1>7. CASE s[n].time >= from
  <2>1. n \in Today(s, from)
    BY <1>2, <1>5, <1>7
  <2>2. PICK m \in Today(s, from) :
              /\ m < n + 1 /\ s[m].new = "ACTIVE" /\ b = s[m].time
              /\ \A j \in Today(s, from) : j < n + 1 /\ s[j].new = "ACTIVE" => j <= m
    BY <1>2, <1>3, <2>1
  <2>3. n <= m /\ m \in DOMAIN s
    BY <1>2, <1>4, <2>1, <2>2
  <2>4. m = n
    BY <1>1, <2>3
  <2>5. b = s[n].time
    BY <2>2, <2>4
  <2>6. b <= x => \A i \in DOMAIN s : s[i].time <= x
    BY <1>1, <1>2, <1>6, <2>5
  <2>7. b <= x => from <= x
    BY <1>1, <1>2, <1>7, <2>5
  <2>8. (\A i \in DOMAIN s : s[i].time <= x) => b <= x
    BY <1>2, <2>5
  <2> QED BY <1>3, <2>6, <2>7, <2>8 DEF b
<1>8. CASE ~(s[n].time >= from)
  <2>1. \A j \in DOMAIN s : s[j].time < from
    BY <1>1, <1>2, <1>6, <1>8
  <2>2. \A j : j \notin Today(s, from)
    BY <1>1, <1>4, <2>1
  <2>3. b = from
    BY <1>3, <2>2
  <2>4. from <= x => \A i \in DOMAIN s : s[i].time <= x
    BY <1>1, <2>1
  <2> QED BY <1>3, <2>3, <2>4 DEF b
<1> QED BY <1>7, <1>8

\* The active time is the number of the seconds of activity.
LEMMA ActiveTimeCounts ==
  ASSUME NEW s \in Seq(TimedEntries), NEW t \in Int, InOrder(s, t), Alternates(s)
  PROVE  /\ IsFiniteSet(Seconds(s, StartOfToday(t), t))
         /\ ActiveTime(s, t) = Cardinality(Seconds(s, StartOfToday(t), t))
<1> DEFINE from == StartOfToday(t)
           n == Len(s)
           open == s # <<>> /\ s[n].new = "ACTIVE"
           b == Since(s, from, n + 1)
           A == EndedBy(s, from, n)
           B == IF open THEN b .. t - 1 ELSE {}
<1>1. DOMAIN s = 1 .. n /\ n \in Nat /\ \A j \in DOMAIN s : s[j].time \in Int /\ s[j].time <= t
  BY EntryFacts DEF InOrder
<1>2. Sorted(s)
  BY DEF InOrder
<1>3. from \in Int /\ from <= t
  BY DayFacts
<1> HIDE DEF from
<1>4. IsFiniteSet(A) /\ Total(s, from, n) = Cardinality(A)
  BY <1>2, <1>3, TotalIsEnded
<1>5. open => b \in Int /\ \A x \in Int :
         b <= x <=> from <= x /\ \A i \in DOMAIN s : s[i].time <= x
  BY <1>2, <1>3, OpenPeriod
<1>6. open => b <= t
  BY <1>1, <1>3, <1>5
<1> HIDE DEF b
<1>7. IsFiniteSet(B) /\ OpenTime(s, from, t) = Cardinality(B)
  <2>1. CASE open
    <3>1. IsFiniteSet(b .. t - 1) /\ Cardinality(b .. t - 1) = IF b > t - 1 THEN 0 ELSE (t - 1) - b + 1
      <4>1. b \in Int /\ t - 1 \in Int
        BY <1>5, <2>1
      <4> QED BY <4>1, FS_Interval
    <3>2. OpenTime(s, from, t) = NonNegative(t - b)
      BY <2>1 DEF OpenTime, b
    <3> QED BY <1>5, <1>6, <2>1, <3>1, <3>2 DEF NonNegative
  <2>2. CASE ~open
    <3>1. OpenTime(s, from, t) = 0
      BY <2>2 DEF OpenTime
    <3> QED BY <2>2, <3>1, FS_EmptySet
  <2> QED BY <2>1, <2>2
<1>8. \A x : x \in A <=> x \in from .. t - 1 /\ \E i \in DOMAIN s : NextAt(s, x, i) /\ s[i].new = "INACTIVE"
  <2>1. ASSUME NEW x \in A
        PROVE  x \in from .. t - 1 /\ \E i \in DOMAIN s : NextAt(s, x, i) /\ s[i].new = "INACTIVE"
    <3>1. x \in Int /\ from <= x
      BY DEF EndedBy
    <3>2. PICK i \in DOMAIN s : i <= n /\ NextAt(s, x, i) /\ s[i].new = "INACTIVE"
      BY DEF EndedBy
    <3>3. x < s[i].time /\ s[i].time <= t /\ s[i].time \in Int
      BY <1>1, <3>2 DEF NextAt
    <3> QED BY <1>3, <3>1, <3>2, <3>3
  <2>2. ASSUME NEW x \in from .. t - 1, \E i \in DOMAIN s : NextAt(s, x, i) /\ s[i].new = "INACTIVE"
        PROVE  x \in A
    <3>1. x \in Int /\ from <= x
      BY <1>3
    <3>2. \A i \in DOMAIN s : i <= n
      BY <1>1
    <3> QED BY <2>2, <3>1, <3>2 DEF EndedBy
  <2> HIDE DEF A
  <2> QED BY <2>1, <2>2
<1>9. \A x : x \in B <=> x \in from .. t - 1 /\ open /\ \A i \in DOMAIN s : s[i].time <= x
  <2> SUFFICES ASSUME NEW x
               PROVE  x \in B <=> x \in from .. t - 1 /\ open /\ \A i \in DOMAIN s : s[i].time <= x
    OBVIOUS
  <2> HIDE DEF open
  <2>1. x \in B <=> open /\ x \in Int /\ b <= x /\ x <= t - 1
    BY <1>5
  <2>2. x \in from .. t - 1 <=> x \in Int /\ from <= x /\ x <= t - 1
    BY <1>3
  <2>3. open /\ x \in Int => (b <= x <=> from <= x /\ \A i \in DOMAIN s : s[i].time <= x)
    BY <1>5
  <2> HIDE DEF B
  <2> QED BY <2>1, <2>2, <2>3
<1> HIDE DEF A, B
<1>10. Seconds(s, from, t) = A \cup B
  BY <1>8, <1>9 DEF Seconds, ActiveAt
<1>11. A \cap B = {}
  <2> SUFFICES ASSUME NEW x \in A, x \in B PROVE FALSE
    OBVIOUS
  <2>1. PICK i \in DOMAIN s : NextAt(s, x, i)
    BY <1>8
  <2>2. s[i].time <= x /\ s[i].time > x /\ x \in Int
    BY <1>3, <1>8, <1>9, <2>1 DEF NextAt
  <2> QED BY <1>1, <2>2
<1>12. IsFiniteSet(A \cup B) /\ Cardinality(A \cup B) = Cardinality(A) + Cardinality(B)
  BY <1>4, <1>7, <1>11, DisjointCount
<1>13. ActiveTime(s, t) = Total(s, from, n) + OpenTime(s, from, t)
  BY ActiveTimeFacts DEF from
<1>14. IsFiniteSet(Seconds(s, from, t)) /\ ActiveTime(s, t) = Cardinality(Seconds(s, from, t))
  BY <1>4, <1>7, <1>10, <1>12, <1>13
<1> QED BY <1>14 DEF from

---------------------------------------------------------------------------
(* What is done to the history leaves the seconds of activity as they are. *)

\* While nothing is after second x, it is the last state that counts.
LEMMA ActiveNow ==
  ASSUME NEW s \in Seq(TimedEntries), NEW x \in Int, \A i \in DOMAIN s : s[i].time <= x
  PROVE  ActiveAt(s, x) <=> s # <<>> /\ s[Len(s)].new = "ACTIVE"
<1>1. \A i \in DOMAIN s : s[i].time \in Int
  BY EntryFacts
<1>2. \A i \in DOMAIN s : ~NextAt(s, x, i)
  BY <1>1 DEF NextAt
<1> QED BY <1>2 DEF ActiveAt

\* Without a history nothing is active.
LEMMA NothingActive == Alternates(<<>>) /\ \A x : ~ActiveAt(<<>>, x)
BY DEF Alternates, ActiveAt

\* A transition to the other state, now.
LEMMA AppendKeepsSeconds ==
  ASSUME NEW s \in Seq(TimedEntries), NEW t \in Int, \A i \in DOMAIN s : s[i].time <= t,
         Alternates(s), NEW new \in {"ACTIVE", "INACTIVE"},
         IF s = <<>> THEN new = "ACTIVE" ELSE new # s[Len(s)].new
  PROVE  LET r == Append(s, Entry(new, t))
         IN  /\ r \in Seq(TimedEntries) /\ Alternates(r) /\ r # <<>> /\ r[Len(r)].new = new
             /\ \A x \in Int : x < t => (ActiveAt(r, x) <=> ActiveAt(s, x))
<1> DEFINE e == Entry(new, t)
           n == Len(s)
           r == Append(s, e)
<1>1. e \in TimedEntries /\ e.time = t /\ e.new = new
  BY DEF Entry, TimedEntries
<1> HIDE DEF e
<1>2. /\ r \in Seq(TimedEntries) /\ DOMAIN s = 1 .. n /\ DOMAIN r = 1 .. (n + 1) /\ n \in Nat
      /\ r[n + 1] = e /\ \A i \in 1 .. n : r[i] = s[i]
  BY <1>1
<1>a. Len(r) = n + 1
  BY <1>1, <1>2
<1>b. r # <<>>
  BY <1>2, <1>a
<1>3. \A i \in DOMAIN s : s[i].time \in Int /\ s[i].new \in {"ACTIVE", "INACTIVE"}
  <2>1. \A d \in TimedEntries : d.time \in Int /\ d.new \in {"ACTIVE", "INACTIVE"}
    BY DEF TimedEntries
  <2> QED BY <2>1, EntryFacts
<1> HIDE DEF r
<1>4. Alternates(r)
  <2> SUFFICES ASSUME NEW i \in DOMAIN r, i + 1 \in DOMAIN r PROVE r[i].new # r[i + 1].new
    BY DEF Alternates
  <2>1. i \in 1 .. n
    BY <1>2
  <2>2. CASE i + 1 \in 1 .. n
    BY <1>2, <2>1, <2>2 DEF Alternates
  <2>3. CASE i = n
    <3>1. s # <<>>
      BY <1>2, <2>1
    <3>2. r[i].new = s[n].new /\ r[i + 1].new = new
      BY <1>1, <1>2, <2>1, <2>3
    <3> QED BY <3>1, <3>2
  <2> QED BY <1>2, <2>1, <2>2, <2>3
<1>5. ASSUME NEW x \in Int, x < t PROVE ActiveAt(r, x) <=> ActiveAt(s, x)
  <2>1. \A i \in 1 .. n : NextAt(r, x, i) <=> NextAt(s, x, i)
    <3> SUFFICES ASSUME NEW i \in 1 .. n PROVE NextAt(r, x, i) <=> NextAt(s, x, i)
      OBVIOUS
    <3>1. \A j \in DOMAIN r : j < i => j \in 1 .. n
      BY <1>2
    <3>2. \A j \in 1 .. n : j \in DOMAIN r
      BY <1>2
    <3> QED BY <1>2, <3>1, <3>2 DEF NextAt
  <2>2. NextAt(r, x, n + 1) <=> \A i \in 1 .. n : s[i].time <= x
    <3>1. r[n + 1].time > x
      BY <1>1, <1>2, <1>5
    <3>2. \A j \in DOMAIN r : j < n + 1 <=> j \in 1 .. n
      BY <1>2
    <3>3. \A j \in 1 .. n : j \in DOMAIN r
      BY <1>2
    <3> QED BY <1>2, <3>1, <3>2, <3>3 DEF NextAt
  <2>3. ActiveAt(r, x) <=> \/ \E i \in 1 .. n : NextAt(s, x, i) /\ s[i].new = "INACTIVE"
                           \/ new = "INACTIVE" /\ \A i \in 1 .. n : s[i].time <= x
    <3>1. ~(\A i \in DOMAIN r : r[i].time <= x)
      <4>1. n + 1 \in DOMAIN r /\ ~(r[n + 1].time <= x)
        BY <1>1, <1>2, <1>5
      <4> QED BY <4>1
    <3>2. ActiveAt(r, x) <=> \E i \in DOMAIN r : NextAt(r, x, i) /\ r[i].new = "INACTIVE"
      BY <3>1 DEF ActiveAt
    <3>3. \A i : i \in DOMAIN r <=> i \in 1 .. n \/ i = n + 1
      BY <1>2
    <3>4. r[n + 1].new = new /\ \A i \in 1 .. n : r[i].new = s[i].new
      BY <1>1, <1>2
    <3> QED BY <2>1, <2>2, <3>2, <3>3, <3>4
  <2>4. CASE s = <<>>
    <3>1. new = "ACTIVE" /\ ~ActiveAt(s, x) /\ 1 .. n = {}
      BY <1>2, <2>4, NothingActive
    <3> QED BY <2>3, <3>1
  <2>5. CASE s # <<>>
    <3>1. n \in DOMAIN s
      BY <1>2, <2>5
    <3>2. new = "INACTIVE" <=> s[n].new = "ACTIVE"
      BY <1>3, <2>5, <3>1
    <3> QED BY <1>2, <2>3, <2>5, <3>2 DEF ActiveAt
  <2> QED BY <2>4, <2>5
<1>6. r[Len(r)].new = new
  BY <1>1, <1>2, <1>a
<1> QED BY <1>2, <1>4, <1>5, <1>6, <1>b DEF r, e

\* Adjusting all times for a clock step moves the seconds alike.
LEMMA AdjustMovesSeconds ==
  ASSUME NEW s \in Seq(TimedEntries), NEW d \in Int, Alternates(s)
  PROVE  LET r == AdjustAllTimes(s, d)
         IN  /\ r \in Seq(TimedEntries) /\ Alternates(r)
             /\ s # <<>> => r # <<>> /\ r[Len(r)].new = s[Len(s)].new
             /\ \A x \in Int : ActiveAt(r, x + d) <=> ActiveAt(s, x)
<1> DEFINE r == AdjustAllTimes(s, d)
           n == Len(s)
<1>1. DOMAIN s = 1 .. n /\ n \in Nat /\ \A i \in DOMAIN s : s[i] \in TimedEntries /\ s[i].time \in Int
  BY EntryFacts
<1>2. \A e \in TimedEntries : /\ [e EXCEPT !.time = e.time + d].time = e.time + d
                              /\ [e EXCEPT !.time = e.time + d].new = e.new
  BY DEF TimedEntries
<1>3. r \in Seq(TimedEntries)
  BY AdjustTyped
<1>4. r = [i \in 1 .. n |-> [s[i] EXCEPT !.time = s[i].time + d]]
  BY <1>1 DEF AdjustAllTimes
<1> HIDE DEF r
<1>5. /\ DOMAIN r = 1 .. n
      /\ \A i \in 1 .. n : r[i].time = s[i].time + d /\ r[i].new = s[i].new
  BY <1>1, <1>2, <1>4
<1>6. Len(r) = n
  BY <1>1, <1>3, <1>5
<1>7. Alternates(r)
  BY <1>1, <1>5 DEF Alternates
<1>8. s # <<>> => r # <<>> /\ r[Len(r)].new = s[n].new
  BY <1>1, <1>5, <1>6
<1>9. ASSUME NEW x \in Int PROVE ActiveAt(r, x + d) <=> ActiveAt(s, x)
  <2>1. \A i \in 1 .. n : r[i].time <= x + d <=> s[i].time <= x
    BY <1>1, <1>5
  <2>2. \A i \in 1 .. n : r[i].time > x + d <=> s[i].time > x
    BY <1>1, <1>5
  <2>3. \A i \in 1 .. n : NextAt(r, x + d, i) <=> NextAt(s, x, i)
    BY <1>1, <1>5, <2>1, <2>2 DEF NextAt
  <2>4. r # <<>> <=> s # <<>>
    BY <1>1, <1>3, <1>6
  <2> QED BY <1>1, <1>5, <1>6, <1>8, <2>1, <2>3, <2>4 DEF ActiveAt
<1> QED BY <1>3, <1>7, <1>8, <1>9 DEF r

\* Keeping what is recent and the last entry: the seconds of the day and more are
\* what they were.
LEMMA KeepingKeepsSeconds ==
  ASSUME NEW s \in Seq(TimedEntries), NEW t \in Int, InOrder(s, t), Alternates(s)
  PROVE  LET p == Pick(s, KeptAt(s, t))
         IN  /\ p \in Seq(TimedEntries) /\ InOrder(p, t) /\ Alternates(p)
             /\ s # <<>> => p # <<>> /\ p[Len(p)].new = s[Len(s)].new
             /\ s = <<>> => p = <<>>
             /\ \A x \in Int : x >= t - Threshold => (ActiveAt(p, x) <=> ActiveAt(s, x))
<1> DEFINE K == KeptAt(s, t)
           p == Pick(s, K)
           c == Len(p)
           n == Len(s)
<1>1. DOMAIN s = 1 .. n /\ n \in Nat /\ \A j \in DOMAIN s : s[j].time \in Int /\ s[j].time <= t
  BY EntryFacts DEF InOrder
<1>2. /\ K \in SUBSET DOMAIN s
      /\ \A i \in DOMAIN s \ K : s[i].time < t - Threshold
      /\ t - Threshold \in Int
      /\ s # <<>> => n \in K
  BY <1>1, KeptFacts
<1>3. p \in Seq(TimedEntries) /\ InOrder(p, t)
  BY <1>2, PickInOrder
<1>4. \E at : Picked(p, s, K, at)
  BY <1>2, PickPlaces
<1>5. PICK at : Picked(p, s, K, at)
  BY <1>4
<1> HIDE DEF p, c
<1>6. c \in Nat /\ DOMAIN p = 1 .. c
  BY <1>3, EntryFacts DEF c
<1>7. /\ \A k \in 1 .. c : at[k] \in K /\ p[k] = s[at[k]]
      /\ \A j, k \in 1 .. c : j < k <=> at[j] < at[k]
      /\ \A i \in K : \E k \in 1 .. c : at[k] = i
  BY <1>5, <1>6 DEF Picked
<1>k. \A i \in K : i \in DOMAIN s /\ (i = n \/ s[i].time >= t - Threshold)
  BY <1>2 DEF KeptAt
<1> HIDE DEF K
<1>8. \A k \in 1 .. c : at[k] \in 1 .. n /\ at[k] \in Nat
  BY <1>1, <1>2, <1>7
<1>9. s # <<>> => c \in 1 .. c /\ p[c] = s[n] /\ p # <<>>
  <2> SUFFICES ASSUME s # <<>> PROVE c \in 1 .. c /\ p[c] = s[n] /\ p # <<>>
    OBVIOUS
  <2>1. PICK h \in 1 .. c : at[h] = n
    BY <1>2, <1>7
  <2>2. c \in 1 .. c
    BY <1>6, <2>1
  <2>3. ~(at[h] < at[c])
    BY <1>1, <1>8, <2>1, <2>2
  <2>4. h = c
    BY <1>6, <1>7, <2>1, <2>2, <2>3
  <2>5. p # <<>>
    BY <1>6, <2>2
  <2> QED BY <1>7, <2>1, <2>2, <2>4, <2>5
<1>10. s = <<>> => p = <<>>
  <2> SUFFICES ASSUME s = <<>> PROVE p = <<>>
    OBVIOUS
  <2>1. \A k \in 1 .. c : FALSE
    BY <1>8
  <2>2. c = 0
    <3>1. c # 0 => 1 \in 1 .. c
      BY <1>6
    <3> QED BY <2>1, <3>1
  <2> QED BY <1>3, <2>2 DEF c
<1>11. Alternates(p)
  <2> SUFFICES ASSUME NEW k \in 1 .. c, k + 1 \in 1 .. c PROVE p[k].new # p[k + 1].new
    BY <1>6 DEF Alternates
  <2> DEFINE a == at[k]
             b == at[k + 1]
  <2>1. a \in 1 .. n /\ b \in 1 .. n /\ a < b /\ a \in K /\ b \in K
    <3>1. k < k + 1
      BY <1>6
    <3> QED BY <1>7, <1>8, <3>1
  <2>2. b = a + 1
    <3> SUFFICES ASSUME b # a + 1 PROVE FALSE
      OBVIOUS
    <3> DEFINE m == a + 1
    <3> HIDE DEF a, b
    <3>1. m \in DOMAIN s /\ a < m /\ m < b
      BY <1>1, <2>1
    <3>2. m \notin K
      <4> SUFFICES ASSUME m \in K PROVE FALSE
        OBVIOUS
      <4>1. PICK h \in 1 .. c : at[h] = m
        BY <1>7
      <4>2. k < h /\ h < k + 1
        <5> HIDE DEF m
        <5> QED BY <1>7, <3>1, <4>1 DEF a, b
      <4> QED BY <1>6, <4>2
    <3> HIDE DEF m
    <3>3. s[m].time < t - Threshold
      BY <1>2, <3>1, <3>2
    <3>4. s[a].time <= s[m].time
      BY <1>1, <2>1, <3>1 DEF InOrder, Sorted
    <3>5. s[a].time \in Int /\ s[m].time \in Int
      BY <1>1, <2>1, <3>1
    <3>6. a # n
      <4>1. n \in Nat
        BY <1>1
      <4> HIDE DEF n
      <4> QED BY <2>1, <4>1
    <3>7. s[a].time >= t - Threshold
      BY <1>k, <2>1, <3>6
    <3> QED BY <1>2, <3>3, <3>4, <3>5, <3>7
  <2>3. s[a].new # s[a + 1].new
    <3>1. a \in DOMAIN s /\ a + 1 \in DOMAIN s
      BY <1>1, <2>1, <2>2
    <3> HIDE DEF a
    <3> QED BY <3>1 DEF Alternates
  <2> QED BY <1>7, <2>2, <2>3
<1>12. ASSUME NEW x \in Int, x >= t - Threshold PROVE ActiveAt(p, x) <=> ActiveAt(s, x)
  <2>0. \A i \in DOMAIN s : i \in K \/ s[i].time <= x
    <3> SUFFICES ASSUME NEW i \in DOMAIN s, i \notin K PROVE s[i].time <= x
      OBVIOUS
    <3>1. s[i].time < t - Threshold /\ s[i].time \in Int
      BY <1>1, <1>2
    <3> QED BY <1>2, <1>12, <3>1
  <2>1. ASSUME NEW k \in 1 .. c PROVE NextAt(p, x, k) <=> NextAt(s, x, at[k])
    <3>1. ASSUME NextAt(p, x, k) PROVE NextAt(s, x, at[k])
      <4>1. s[at[k]].time > x
        BY <1>7, <3>1 DEF NextAt
      <4>2. ASSUME NEW j \in DOMAIN s, j < at[k] PROVE s[j].time <= x
        <5>1. CASE j \in K
          <6>1. PICK h \in 1 .. c : at[h] = j
            BY <1>7, <5>1
          <6>2. h < k
            BY <1>7, <4>2, <6>1
          <6>3. p[h].time <= x
            BY <1>6, <3>1, <6>2 DEF NextAt
          <6> QED BY <1>7, <6>1, <6>3
        <5> QED BY <2>0, <5>1
      <4> QED BY <4>1, <4>2 DEF NextAt
    <3>2. ASSUME NextAt(s, x, at[k]) PROVE NextAt(p, x, k)
      <4>1. p[k].time > x
        BY <1>7, <3>2 DEF NextAt
      <4>2. ASSUME NEW j \in 1 .. c, j < k PROVE p[j].time <= x
        <5>1. at[j] < at[k] /\ at[j] \in DOMAIN s
          BY <1>1, <1>7, <1>8, <4>2
        <5> QED BY <1>7, <3>2, <5>1 DEF NextAt
      <4> QED BY <1>6, <4>1, <4>2 DEF NextAt
    <3> QED BY <3>1, <3>2
  <2>2. (\E k \in DOMAIN p : NextAt(p, x, k) /\ p[k].new = "INACTIVE")
          <=> \E i \in DOMAIN s : NextAt(s, x, i) /\ s[i].new = "INACTIVE"
    <3>1. ASSUME NEW k \in DOMAIN p, NextAt(p, x, k), p[k].new = "INACTIVE"
          PROVE  \E i \in DOMAIN s : NextAt(s, x, i) /\ s[i].new = "INACTIVE"
      <4>1. at[k] \in DOMAIN s /\ NextAt(s, x, at[k]) /\ s[at[k]].new = "INACTIVE"
        BY <1>1, <1>6, <1>7, <1>8, <2>1, <3>1
      <4> QED BY <4>1
    <3>2. ASSUME NEW i \in DOMAIN s, NextAt(s, x, i), s[i].new = "INACTIVE"
          PROVE  \E k \in DOMAIN p : NextAt(p, x, k) /\ p[k].new = "INACTIVE"
      <4>1. ~(s[i].time <= x)
        BY <1>1, <3>2 DEF NextAt
      <4>2. PICK k \in 1 .. c : at[k] = i
        BY <1>7, <2>0, <4>1
      <4>3. k \in DOMAIN p /\ NextAt(p, x, k) /\ p[k].new = "INACTIVE"
        BY <1>6, <1>7, <2>1, <3>2, <4>2
      <4> QED BY <4>3
    <3> QED BY <3>1, <3>2
  <2>3. (\A k \in DOMAIN p : p[k].time <= x) <=> \A i \in DOMAIN s : s[i].time <= x
    <3>1. ASSUME \A k \in DOMAIN p : p[k].time <= x, NEW i \in DOMAIN s PROVE s[i].time <= x
      <4>1. CASE i \in K
        <5>1. PICK k \in 1 .. c : at[k] = i
          BY <1>7, <4>1
        <5> QED BY <1>6, <1>7, <3>1, <5>1
      <4> QED BY <2>0, <4>1
    <3>2. ASSUME \A i \in DOMAIN s : s[i].time <= x, NEW k \in DOMAIN p PROVE p[k].time <= x
      BY <1>1, <1>6, <1>7, <1>8, <3>2
    <3> QED BY <3>1, <3>2
  <2>4. p # <<>> /\ p[Len(p)].new = "ACTIVE" <=> s # <<>> /\ s[n].new = "ACTIVE"
    BY <1>9, <1>10 DEF c
  <2> QED BY <2>2, <2>3, <2>4 DEF ActiveAt
<1>13. s # <<>> => p # <<>> /\ p[Len(p)].new = s[n].new
  BY <1>9 DEF c
<1> QED BY <1>3, <1>10, <1>11, <1>12, <1>13 DEF p, K

\* The trimming, when no two transitions cancel each other out.
LEMMA TrimKeepsSeconds ==
  ASSUME NEW s \in Seq(TimedEntries), NEW t \in Int, InOrder(s, t), Alternates(s),
         Cancelling(Pick(s, KeptAt(s, t))) = {}
  PROVE  LET r == Trim(s, t)
         IN  /\ r \in Seq(TimedEntries) /\ InOrder(r, t) /\ Alternates(r)
             /\ s # <<>> => r # <<>> /\ r[Len(r)].new = s[Len(s)].new
             /\ \A x \in Int : x >= t - Threshold => (ActiveAt(r, x) <=> ActiveAt(s, x))
<1> DEFINE p == Pick(s, KeptAt(s, t))
<1>1. /\ p \in Seq(TimedEntries) /\ InOrder(p, t) /\ Alternates(p)
      /\ s # <<>> => p # <<>> /\ p[Len(p)].new = s[Len(s)].new
      /\ \A x \in Int : x >= t - Threshold => (ActiveAt(p, x) <=> ActiveAt(s, x))
  BY KeepingKeepsSeconds
<1>2. Trim(s, t) = p
  <2>1. DOMAIN p \ Cancelling(p) = DOMAIN p
    OBVIOUS
  <2>2. Pick(p, DOMAIN p) = p
    BY <1>1, PickAll
  <2> QED BY <2>1, <2>2 DEF Trim, DropPairs
<1> HIDE DEF p
<1> QED BY <1>1, <1>2

\* All of a file that is in order is loaded but what is too old.
LEMMA LoadedKeepsSeconds ==
  ASSUME NEW s \in Seq(TimedEntries), NEW t \in Int, InOrder(s, t), Alternates(s)
  PROVE  LET r == Loaded(s, t)
         IN  /\ r \in Seq(TimedEntries) /\ InOrder(r, t) /\ Alternates(r)
             /\ s # <<>> => r # <<>> /\ r[Len(r)].new = s[Len(s)].new
             /\ s = <<>> => r = <<>>
             /\ \A x \in Int : x >= t - Threshold => (ActiveAt(r, x) <=> ActiveAt(s, x))
<1> DEFINE p == Pick(s, KeptAt(s, t))
<1>1. /\ p \in Seq(TimedEntries) /\ InOrder(p, t) /\ Alternates(p)
      /\ s # <<>> => p # <<>> /\ p[Len(p)].new = s[Len(s)].new
      /\ s = <<>> => p = <<>>
      /\ \A x \in Int : x >= t - Threshold => (ActiveAt(p, x) <=> ActiveAt(s, x))
  BY KeepingKeepsSeconds
<1>2. \A i \in KeptAt(s, t) : i \in DOMAIN s
  BY DEF KeptAt
<1>3. ASSUME NEW i \in DOMAIN s PROVE i \in WellFormed(s, t)
  <2>1. DOMAIN s = 1 .. Len(s) /\ Len(s) \in Nat
    BY EntryFacts
  <2>2. \A k \in 1 .. i : k \in DOMAIN s
    BY <2>1
  <2> QED BY <1>2, <2>2 DEF WellFormed, InOrder, Sorted
<1>4. WellFormed(s, t) \cap KeptAt(s, t) = KeptAt(s, t)
  BY <1>2, <1>3
<1>5. Loaded(s, t) = p
  BY <1>4 DEF Loaded
<1> HIDE DEF p
<1> QED BY <1>1, <1>5

---------------------------------------------------------------------------
(* The history says what was active.                                       *)

\* What was active in the seconds `secs' before t, as far back as the history is
\* kept, is what s says; d is how far the seconds have moved on since.
Says(s, secs, t, d) ==
  \A x \in Int : t - Threshold <= x /\ x < t => (x + d \in secs <=> ActiveAt(s, x))

\* The history ends with the state of the user.
Reads(s, us) == s # <<>> /\ Alternates(s) /\ s[Len(s)].new = us

\* A transition to the other state, now.
LEMMA RecordsOn ==
  ASSUME NEW s \in Seq(TimedEntries), NEW t \in Int, InOrder(s, t), NEW secs,
         NEW us \in {"ACTIVE", "INACTIVE"}, Reads(s, us), Says(s, secs, t, 0),
         NEW new \in {"ACTIVE", "INACTIVE"}, new # us
  PROVE  LET r == Append(s, Entry(new, t))
         IN  /\ r \in Seq(TimedEntries) /\ InOrder(r, t)
             /\ Reads(r, new) /\ Says(r, secs, t, 0)
<1> DEFINE r == Append(s, Entry(new, t))
<1>1. r \in Seq(TimedEntries) /\ InOrder(r, t)
  BY AppendInOrder
<1>2. \A i \in DOMAIN s : s[i].time <= t
  BY DEF InOrder
<1>3. /\ Alternates(r) /\ r # <<>> /\ r[Len(r)].new = new
      /\ \A x \in Int : x < t => (ActiveAt(r, x) <=> ActiveAt(s, x))
  <2>1. Alternates(s) /\ IF s = <<>> THEN new = "ACTIVE" ELSE new # s[Len(s)].new
    BY DEF Reads
  <2> QED BY <1>2, <2>1, AppendKeepsSeconds
<1> HIDE DEF r
<1>4. Says(r, secs, t, 0)
  BY <1>3 DEF Says
<1> QED BY <1>1, <1>3, <1>4 DEF Reads, r

\* The trimming of such a history.
LEMMA TrimsOn ==
  ASSUME NEW s \in Seq(TimedEntries), NEW t \in Int, InOrder(s, t), NEW secs,
         NEW us, Reads(s, us), Says(s, secs, t, 0),
         Cancelling(Pick(s, KeptAt(s, t))) = {}
  PROVE  LET r == Trim(s, t)
         IN  /\ r \in Seq(TimedEntries) /\ InOrder(r, t)
             /\ Reads(r, us) /\ Says(r, secs, t, 0)
<1> DEFINE r == Trim(s, t)
<1>1. Alternates(s) /\ s # <<>> /\ s[Len(s)].new = us
  BY DEF Reads
<1>2. /\ r \in Seq(TimedEntries) /\ InOrder(r, t) /\ Alternates(r)
      /\ r # <<>> /\ r[Len(r)].new = s[Len(s)].new
      /\ \A x \in Int : x >= t - Threshold => (ActiveAt(r, x) <=> ActiveAt(s, x))
  BY <1>1, TrimKeepsSeconds
<1> HIDE DEF r
<1>3. t - Threshold \in Int
  BY TimeLimitsAssumption
<1>4. Says(r, secs, t, 0)
  BY <1>2, <1>3 DEF Says
<1> QED BY <1>1, <1>2, <1>4 DEF Reads, r

\* A clock step moves the seconds; adjusting the times catches up with it.
LEMMA AdjustsOn ==
  ASSUME NEW s \in Seq(TimedEntries), NEW t \in Int, NEW d \in Int, InOrder(s, t - d),
         NEW secs, NEW us, Reads(s, us), Says(s, secs, t - d, d)
  PROVE  LET r == AdjustAllTimes(s, d)
         IN  /\ r \in Seq(TimedEntries) /\ InOrder(r, t)
             /\ Reads(r, us) /\ Says(r, secs, t, 0)
<1> DEFINE r == AdjustAllTimes(s, d)
<1>1. Alternates(s) /\ s # <<>> /\ s[Len(s)].new = us
  BY DEF Reads
<1>2. /\ r \in Seq(TimedEntries) /\ Alternates(r)
      /\ r # <<>> /\ r[Len(r)].new = s[Len(s)].new
      /\ \A x \in Int : ActiveAt(r, x + d) <=> ActiveAt(s, x)
  BY <1>1, AdjustMovesSeconds
<1>3. InOrder(r, (t - d) + d)
  <2>1. t - d \in Int
    OBVIOUS
  <2> QED BY <2>1, AdjustInOrder
<1>4. (t - d) + d = t
  OBVIOUS
<1> HIDE DEF r
<1>5. Says(r, secs, t, 0)
  <2> SUFFICES ASSUME NEW x \in Int, t - Threshold <= x, x < t
               PROVE  x + 0 \in secs <=> ActiveAt(r, x)
    BY DEF Says
  <2> DEFINE y == x - d
  <2>1. y \in Int /\ y + d = x /\ (t - d) - Threshold <= y /\ y < t - d /\ x + 0 = x
    BY TimeLimitsAssumption
  <2> HIDE DEF y
  <2>2. y + d \in secs <=> ActiveAt(s, y)
    BY <2>1 DEF Says
  <2>3. ActiveAt(r, y + d) <=> ActiveAt(s, y)
    BY <1>2, <2>1
  <2> QED BY <2>1, <2>2, <2>3
<1> QED BY <1>1, <1>2, <1>3, <1>4, <1>5 DEF Reads, r

\* A second passes; it is counted if the history says that the user is active.
LEMMA SecondPasses ==
  ASSUME NEW s \in Seq(TimedEntries), NEW t \in Int, NEW d \in Int, InOrder(s, t),
         NEW secs, NEW more, \A x \in secs : x \in Int /\ x < t + d, Says(s, secs, t, d),
         secs \subseteq more, more \subseteq secs \cup {t + d},
         t + d \in more <=> s # <<>> /\ s[Len(s)].new = "ACTIVE"
  PROVE  Says(s, more, t + 1, d)
<1> SUFFICES ASSUME NEW x \in Int, (t + 1) - Threshold <= x, x < t + 1
             PROVE  x + d \in more <=> ActiveAt(s, x)
  BY DEF Says
<1>1. CASE x = t
  <2>1. ActiveAt(s, x) <=> s # <<>> /\ s[Len(s)].new = "ACTIVE"
    BY <1>1, ActiveNow DEF InOrder
  <2> QED BY <1>1, <2>1
<1>2. CASE x # t
  <2>1. t - Threshold <= x /\ x < t /\ x + d # t + d
    BY <1>2, TimeLimitsAssumption
  <2>2. x + d \in secs <=> ActiveAt(s, x)
    BY <2>1 DEF Says
  <2> QED BY <2>1, <2>2
<1> QED BY <1>1, <1>2

---------------------------------------------------------------------------
(* The invariant of the active time.                                       *)

\* Only timers may have been armed wrongly.
Exact == losses \subseteq {"timer"}

\* Nothing is recorded: what was active is in the file, if anywhere.
Idle == machine.state = "DISABLED" \/ starts = <<"load">>

Past == \A x \in activeSecs : x \in Int /\ x < now

FileExact ==
  /\ stepped = 0 /\ InOrder(file, now) /\ Alternates(file)
  /\ file # <<>> => file[Len(file)].new = "INACTIVE"
  /\ Says(file, activeSecs, now, 0)

RecordExact ==
  Reads(transitions, userState) /\ Says(transitions, activeSecs, now - stepped, stepped)

\* What is connected once the file is loaded, and what the user is taken to be.
StartExact ==
  /\ links.manager
  /\ starts = <<>> => links.user /\ links.sleep /\ userState = Calculate(login)
  /\ starts # <<>> => /\ userState = "ACTIVE" /\ ~links.user
                      /\ starts[1] = "proxy" => links.sleep

Accurate ==
  /\ machine.state # "DISABLED" => life = "up"
  /\ Idle => FileExact
  /\ ~Idle => RecordExact /\ StartExact

ExactInv == Past /\ (Exact => Accurate)

\* Nothing becomes exact again by losing more.
LEMMA LosingExact ==
  ASSUME NEW more, losses' = losses \cup more, Exact'
  PROVE  Exact /\ more \subseteq {"timer"}
BY DEF Exact

\* At most one start, and not none.
LEMMA OneElement ==
  ASSUME NEW S, NEW s \in Seq(S), s # <<>>, Len(s) <= 1
  PROVE  s = <<s[1]>>
<1>0. Len(s) \in Nat
  OBVIOUS
<1>a. Len(s) = 0 => s = <<>>
  OBVIOUS
<1>1. Len(s) = 1
  BY <1>0, <1>a
<1>2. s[1] \in S
  BY <1>1
<1>3. s = <<s[1]>>
  BY <1>1, <1>2
<1> QED BY <1>3

\* What StoreInv says then.
LEMMA ExactFacts ==
  ASSUME StoreInv, Exact
  PROVE  /\ HistoryInOrder /\ ~links.leaked /\ now - stepped \in Int
         /\ Idle => ~links.source /\ ~links.user
         /\ ~Idle => /\ machine.state # "DISABLED"
                     /\ InOrder(transitions, now - stepped)
                     /\ starts # <<>> => starts[1] # "load"
<1>1. HistoryInOrder
  BY DEF StoreInv, Exact, Clean
<1>2. ~links.leaked
  BY <1>1 DEF HistoryInOrder
<1>3. now - stepped \in Int
  BY TypedFacts
<1>4. ASSUME Idle PROVE StopsRecording
  <2>1. CASE machine.state = "DISABLED"
    BY <1>1, <2>1 DEF HistoryInOrder
  <2>2. CASE starts = <<"load">>
    <3>1. starts # <<>> /\ starts[1] = "load"
      BY <2>2
    <3> QED BY <1>1, <3>1 DEF HistoryInOrder
  <2> QED BY <1>4, <2>1, <2>2 DEF Idle
<1>5. ASSUME ~Idle
      PROVE  /\ machine.state # "DISABLED"
             /\ InOrder(transitions, now - stepped)
             /\ starts # <<>> => starts[1] # "load"
  <2>1. machine.state # "DISABLED"
    BY <1>5 DEF Idle
  <2>2. InOrder(transitions, now - stepped)
    BY <1>1, <2>1 DEF HistoryInOrder
  <2>3. ASSUME starts # <<>>, starts[1] = "load" PROVE FALSE
    <3>1. Len(starts) <= 1 /\ starts \in Seq({"load", "inhibit", "proxy"})
      BY <1>1, TypedFacts DEF HistoryInOrder
    <3>2. starts # <<>>
      BY <2>3
    <3>3. starts = <<starts[1]>>
      BY <3>1, <3>2, OneElement
    <3>4. starts = <<"load">>
      BY <2>3, <3>3
    <3> QED BY <1>5, <3>4 DEF Idle
  <2> QED BY <2>1, <2>2, <2>3
<1> QED BY <1>1, <1>2, <1>3, <1>4, <1>5 DEF StopsRecording

\* The parts of the invariant while something is recorded.
LEMMA RecordFacts ==
  ASSUME StoreInv, ExactInv, Exact, ~Idle
  PROVE  /\ Reads(transitions, userState)
         /\ Says(transitions, activeSecs, now - stepped, stepped)
         /\ StartExact /\ life = "up"
<1>1. Accurate
  BY DEF ExactInv
<1>2. RecordExact /\ StartExact
  BY <1>1 DEF Accurate
<1>3. machine.state # "DISABLED"
  BY DEF Idle
<1>4. life = "up"
  BY <1>1, <1>3 DEF Accurate
<1> QED BY <1>2, <1>4 DEF RecordExact

---------------------------------------------------------------------------
(* What logind tells.                                                      *)

\* _updateUserState
LEMMA UserStateKeepsExact ==
  ASSUME StoreInv, ExactInv, NEW lg, NEW lost, UpdateUserState(lg, lost), Exact'
  PROVE  /\ Exact /\ lost \subseteq {"timer"}
         /\ machine'.state = "DISABLED" <=> machine.state = "DISABLED"
         /\ Idle => file' = file
         /\ ~Idle => /\ Reads(transitions', userState')
                     /\ Says(transitions', activeSecs, now - stepped, stepped)
                     /\ starts = <<>> => userState' = Calculate(lg)
                     /\ starts # <<>> => userState' = userState
<1> DEFINE new == Calculate(lg)
           tr == Append(transitions, Entry(new, now))
           kept == Trim(tr, now)
<1>1. new \in {"ACTIVE", "INACTIVE"}
  BY DEF Calculate
<1>2. CASE /\ UNCHANGED <<userState, machine, transitions, file>> /\ losses' = losses \cup lost
           /\ ~(links.user /\ (lg.active => links.manager) /\ new # userState)
  <2>1. Exact /\ lost \subseteq {"timer"}
    BY <1>2, LosingExact
  <2>2. ASSUME ~Idle
        PROVE  /\ Reads(transitions, userState)
               /\ Says(transitions, activeSecs, now - stepped, stepped)
               /\ starts = <<>> => userState = new
    <3>1. /\ Reads(transitions, userState)
          /\ Says(transitions, activeSecs, now - stepped, stepped) /\ StartExact
      BY <2>1, <2>2, RecordFacts
    <3>2. starts = <<>> => links.manager /\ links.user
      BY <3>1 DEF StartExact
    <3> HIDE DEF new
    <3> QED BY <1>2, <3>1, <3>2
  <2> HIDE DEF new
  <2> QED BY <1>2, <2>1, <2>2 DEF new
<1>3. CASE /\ links.user /\ new # userState
           /\ userState' = new
           /\ machine' = Recalculated(machine, tr, new)
           /\ transitions' = kept
           /\ losses' = losses \cup (lost \cup StoreLoses(tr) \cup LoseIf(stepped # 0, "clock"))
  <2>1. Exact /\ lost \subseteq {"timer"} /\ stepped = 0 /\ Cancelling(Pick(tr, KeptAt(tr, now))) = {}
    <3> HIDE DEF tr, kept, new
    <3> DEFINE more == lost \cup StoreLoses(tr) \cup LoseIf(stepped # 0, "clock")
    <3>1. Exact /\ more \subseteq {"timer"}
      BY <1>3, LosingExact
    <3>2. stepped = 0
      BY <3>1 DEF LoseIf
    <3>3. Cancelling(Pick(tr, KeptAt(tr, now))) = {}
      BY <3>1 DEF LoseIf, StoreLoses
    <3> QED BY <3>1, <3>2, <3>3
  <2>2. ~Idle
    BY <1>3, <2>1, ExactFacts
  <2>3. /\ Reads(transitions, userState) /\ StartExact
        /\ Says(transitions, activeSecs, now - stepped, stepped)
    BY <2>1, <2>2, RecordFacts
  <2>4. InOrder(transitions, now - stepped) /\ machine.state # "DISABLED"
    BY <2>1, <2>2, ExactFacts
  <2>5. now - stepped = now /\ now \in Int /\ transitions \in Seq(TimedEntries)
        /\ userState \in {"ACTIVE", "INACTIVE"} /\ Parts \subseteq DOMAIN machine
    BY <2>1, TypedFacts
  <2>6. /\ tr \in Seq(TimedEntries) /\ InOrder(tr, now)
        /\ Reads(tr, new) /\ Says(tr, activeSecs, now, 0)
    <3>1. InOrder(transitions, now) /\ Says(transitions, activeSecs, now, 0)
      BY <2>1, <2>3, <2>4, <2>5
    <3> HIDE DEF new
    <3> QED BY <1>1, <1>3, <2>3, <2>5, <3>1, RecordsOn
  <2>7. Reads(kept, new) /\ Says(kept, activeSecs, now, 0)
    <3> HIDE DEF tr, new
    <3> QED BY <2>1, <2>5, <2>6, TrimsOn
  <2>8. machine'.state # "DISABLED"
    <3> HIDE DEF tr, new
    <3> QED BY <1>3, <2>4, <2>5, RecalculatedFacts
  <2>9. starts = <<>>
    BY <1>3, <2>3 DEF StartExact
  <2> HIDE DEF kept, new
  <2> QED BY <1>3, <2>1, <2>2, <2>4, <2>5, <2>7, <2>8, <2>9 DEF new
<1>4. (losses \cup lost \cup StoreLoses(tr) \cup LoseIf(stepped # 0, "clock"))
        = losses \cup (lost \cup StoreLoses(tr) \cup LoseIf(stepped # 0, "clock"))
  OBVIOUS
<1>5. IF /\ links.user
         /\ lg.active => links.manager
         /\ new # userState
      THEN /\ userState' = new
           /\ machine' = Recalculated(machine, tr, new)
           /\ transitions' = kept
           /\ Write(kept)
           /\ losses' = losses \cup lost \cup StoreLoses(tr) \cup LoseIf(stepped # 0, "clock")
      ELSE /\ losses' = losses \cup lost
           /\ UNCHANGED <<userState, machine, transitions, file>>
  BY DEF UpdateUserState
<1> HIDE DEF new, kept, tr
<1> QED BY <1>2, <1>3, <1>4, <1>5 DEF new

\* Its callers.
LEMMA LoginKeepsExact ==
  ASSUME StoreInv, ExactInv, NEW lost, UpdateUserState(login', lost),
         UNCHANGED <<now, life, starts, activeSecs>>,
         links'.manager = links.manager, links'.user = links.user, links'.sleep = links.sleep,
         stepped' = stepped \/ (stepped' = 0 /\ lost = LoseIf(stepped # 0, "clock"))
  PROVE  ExactInv'
<1>1. Past'
  BY DEF ExactInv, Past
<1>2. ASSUME Exact' PROVE Accurate'
  <2>1. /\ Exact /\ lost \subseteq {"timer"}
        /\ machine'.state = "DISABLED" <=> machine.state = "DISABLED"
        /\ Idle => file' = file
        /\ ~Idle => /\ Reads(transitions', userState')
                    /\ Says(transitions', activeSecs, now - stepped, stepped)
                    /\ starts = <<>> => userState' = Calculate(login')
                    /\ starts # <<>> => userState' = userState
    BY <1>2, UserStateKeepsExact
  <2>2. stepped' = stepped
    <3>1. CASE stepped' = 0 /\ lost = LoseIf(stepped # 0, "clock")
      BY <2>1, <3>1 DEF LoseIf
    <3> QED BY <3>1
  <2>3. Idle' <=> Idle
    BY <2>1 DEF Idle
  <2>4. Accurate
    BY <2>1 DEF ExactInv
  <2>5. machine'.state # "DISABLED" => life' = "up"
    BY <2>1, <2>4 DEF Accurate
  <2>6. ASSUME Idle PROVE FileExact'
    <3>1. FileExact /\ file' = file
      BY <2>1, <2>4, <2>6 DEF Accurate
    <3> QED BY <2>2, <3>1 DEF FileExact
  <2>7. ASSUME ~Idle PROVE RecordExact' /\ StartExact'
    <3>1. RecordExact'
      BY <2>1, <2>2, <2>7 DEF RecordExact
    <3>2. StartExact
      BY <2>4, <2>7 DEF Accurate
    <3>3. StartExact'
      BY Zenon, <2>1, <2>7, <3>2 DEF StartExact
    <3> QED BY <3>1, <3>3
  <2> QED BY <2>3, <2>5, <2>6, <2>7 DEF Accurate
<1> QED BY <1>1, <1>2 DEF ExactInv

\* A signal nothing is connected to.
LEMMA UnheardKeepsExact ==
  ASSUME StoreInv, ExactInv, ~links.sleep,
         UNCHANGED <<now, life, starts, activeSecs, machine, recordVars, links, stepped, losses>>
  PROVE  ExactInv'
<1>1. Past' /\ (Exact' <=> Exact) /\ (Idle' <=> Idle)
  BY DEF ExactInv, Past, Exact, Idle
<1>2. ASSUME Exact PROVE Accurate'
  <2>1. Accurate
    BY <1>2 DEF ExactInv
  <2>2. userState' = userState /\ transitions' = transitions /\ file' = file
    BY DEF recordVars
  <2>3. Idle => FileExact'
    BY <2>1, <2>2 DEF Accurate, FileExact
  <2>4. ~Idle => RecordExact'
    BY <2>1, <2>2 DEF Accurate, RecordExact
  <2>5. ~Idle => StartExact'
    BY Zenon, <2>1, <2>2 DEF Accurate, StartExact
  <2> QED BY <1>1, <2>1, <2>3, <2>4, <2>5 DEF Accurate
<1> QED BY <1>1, <1>2 DEF ExactInv

\* logind tells of activity, of sleep and of its end.
LEMMA LoginEventsKeepExact ==
  ASSUME StoreInv, ExactInv, LoginChange \/ PrepareForSleep \/ WakeUp
  PROVE  ExactInv'
<1>1. CASE LoginChange
  <2>1. /\ UpdateUserState(login', {}) /\ stepped' = stepped /\ links' = links
        /\ UNCHANGED <<now, life, starts, activeSecs>>
    BY <1>1 DEF LoginChange, clockVars
  <2> QED BY <2>1, LoginKeepsExact
<1>2. CASE PrepareForSleep
  <2>1. stepped' = stepped /\ UNCHANGED <<now, life, starts, activeSecs>>
    BY <1>2 DEF PrepareForSleep, clockVars
  <2>2. CASE links.sleep
    <3>1. UpdateUserState(login', {}) /\ links' = [links EXCEPT !.inhibitor = FALSE]
      BY <1>2, <2>2 DEF PrepareForSleep
    <3>2. /\ links'.manager = links.manager /\ links'.user = links.user
          /\ links'.sleep = links.sleep
      BY <3>1, TypedFacts DEF Links
    <3> QED BY <2>1, <3>1, <3>2, LoginKeepsExact
  <2>3. CASE ~links.sleep
    <3>1. UNCHANGED <<machine, recordVars, links, losses>>
      BY <1>2, <2>3 DEF PrepareForSleep
    <3> QED BY <2>1, <2>3, <3>1, UnheardKeepsExact
  <2> QED BY <2>2, <2>3
<1>3. CASE WakeUp
  <2>1. UNCHANGED <<now, life, starts, activeSecs>>
    BY <1>3 DEF WakeUp, clockVars
  <2>2. CASE links.sleep
    <3> DEFINE lost == LoseIf(stepped # 0, "clock")
    <3>1. /\ UpdateUserState(login', lost) /\ stepped' = 0
          /\ \E ok \in Outcomes("inhibit") : links' = [links EXCEPT !.inhibitor = @ \/ ok]
      BY <1>3, <2>2 DEF WakeUp
    <3>2. PICK ok \in Outcomes("inhibit") : links' = [links EXCEPT !.inhibitor = @ \/ ok]
      BY <3>1
    <3>3. /\ links'.manager = links.manager /\ links'.user = links.user
          /\ links'.sleep = links.sleep
      BY <3>2, TypedFacts DEF Links
    <3> QED BY <2>1, <3>1, <3>3, LoginKeepsExact
  <2>3. CASE ~links.sleep
    <3>1. UNCHANGED <<machine, recordVars, links, stepped, losses>>
      BY <1>3, <2>3 DEF WakeUp
    <3> QED BY <2>1, <2>3, <3>1, UnheardKeepsExact
  <2> QED BY <2>2, <2>3
<1> QED BY <1>1, <1>2, <1>3

---------------------------------------------------------------------------
(* The clocks.                                                             *)

\* While nothing is recorded nothing is active.
LEMMA IdleIsInactive ==
  ASSUME StoreInv, ExactInv, Exact, Idle
  PROVE  /\ stepped = 0 /\ InOrder(file, now) /\ Says(file, activeSecs, now, 0)
         /\ ~(file # <<>> /\ file[Len(file)].new = "ACTIVE")
         /\ file # <<>> => file[Len(file)].new = "INACTIVE"
         /\ Alternates(file)
<1>1. FileExact
  BY DEF ExactInv, Accurate
<1> QED BY <1>1 DEF FileExact

\* A second passes, with the shell awake: it is counted exactly if the history
\* says that the user is active.
LEMMA TickKeepsExact ==
  ASSUME StoreInv, ExactInv, Tick
  PROVE  ExactInv'
<1>1. /\ now' = now + 1
      /\ activeSecs' = IF Counted THEN activeSecs \cup {now} ELSE activeSecs
      /\ machine' = [machine EXCEPT !.timer = IF @ = NoTimer THEN @ ELSE @ - 1]
      /\ UNCHANGED <<life, login, userState, transitions, file, links, starts, stepped, losses>>
  BY DEF Tick, envVars, recordVars
<1>2. machine'.state = machine.state
  <2>1. \E t : machine' = [machine EXCEPT !.timer = t]
    BY <1>1
  <2> QED BY <2>1, TypedFacts DEF Parts
<1>3. now \in Int /\ stepped \in Int /\ transitions \in Seq(TimedEntries) /\ file \in Seq(TimedEntries)
      /\ now - stepped \in Int /\ (now - stepped) + stepped = now /\ now + 0 = now
      /\ (now - stepped) + 1 = now' - stepped'
  <2>1. now' = now + 1 /\ stepped' = stepped
    BY <1>1
  <2>2. now \in Int /\ stepped \in Int /\ transitions \in Seq(TimedEntries) /\ file \in Seq(TimedEntries)
    BY TypedFacts
  <2> QED BY <2>1, <2>2
<1>4. Past
  BY DEF ExactInv
<1>5. Past'
  BY <1>1, <1>3, <1>4 DEF Past
<1>6. activeSecs \subseteq activeSecs' /\ activeSecs' \subseteq activeSecs \cup {now}
      /\ (now \in activeSecs' <=> Counted)
  <2>1. now \notin activeSecs
    BY <1>3, <1>4 DEF Past
  <2> QED BY <1>1, <2>1
<1>7. (Exact' <=> Exact) /\ (Idle' <=> Idle)
  BY <1>1, <1>2 DEF Exact, Idle
<1>8. ASSUME Exact PROVE Accurate'
  <2>1. Accurate
    BY <1>8 DEF ExactInv
  <2>2. machine'.state # "DISABLED" => life' = "up"
    BY <1>1, <1>2, <2>1 DEF Accurate
  <2>3. ASSUME Idle PROVE FileExact'
    <3>1. /\ stepped = 0 /\ InOrder(file, now) /\ Says(file, activeSecs, now, 0)
          /\ ~(file # <<>> /\ file[Len(file)].new = "ACTIVE")
          /\ file # <<>> => file[Len(file)].new = "INACTIVE"
          /\ Alternates(file)
      BY <1>8, <2>3, IdleIsInactive
    <3>2. ~Counted
      <4>1. machine.state = "DISABLED" \/ starts = <<"load">>
        BY <2>3 DEF Idle
      <4>2. <<"load">> # <<>>
        OBVIOUS
      <4> QED BY <4>1, <4>2 DEF Counted
    <3>3. now \notin activeSecs'
      BY <1>6, <3>2
    <3>4. Says(file, activeSecs', now + 1, 0)
      <4>1. \A x \in activeSecs : x \in Int /\ x < now + 0
        BY <1>3, <1>4 DEF Past
      <4>2. now + 0 \in activeSecs' <=> file # <<>> /\ file[Len(file)].new = "ACTIVE"
        BY <1>3, <3>1, <3>3
      <4>3. activeSecs' \subseteq activeSecs \cup {now + 0}
        BY <1>3, <1>6
      <4> QED BY <1>3, <1>6, <3>1, <4>1, <4>2, <4>3, SecondPasses
    <3>5. InOrder(file, now + 1)
      <4>1. now + 1 \in Int /\ now <= now + 1
        BY <1>3
      <4> QED BY <1>3, <3>1, <4>1, LaterInOrder
    <3> QED BY <1>1, <3>1, <3>4, <3>5 DEF FileExact
  <2>4. ASSUME ~Idle PROVE RecordExact'
    <3>1. /\ Reads(transitions, userState)
          /\ Says(transitions, activeSecs, now - stepped, stepped)
          /\ StartExact /\ life = "up"
      BY <1>8, <2>4, RecordFacts
    <3>2. InOrder(transitions, now - stepped) /\ machine.state # "DISABLED"
          /\ starts # <<"load">>
      BY <1>8, <2>4, ExactFacts DEF Idle
    <3>3. Counted <=> userState = "ACTIVE"
      <4>1. starts = <<>> => userState = Calculate(login)
        BY <3>1 DEF StartExact
      <4>2. starts # <<>> => userState = "ACTIVE"
        BY <3>1 DEF StartExact
      <4> QED BY <3>1, <3>2, <4>1, <4>2 DEF Counted
    <3>4. now \in activeSecs' <=> transitions # <<>> /\ transitions[Len(transitions)].new = "ACTIVE"
      BY <1>6, <3>1, <3>3 DEF Reads
    <3>5. Says(transitions, activeSecs', (now - stepped) + 1, stepped)
      <4> DEFINE t == now - stepped
      <4>1. t \in Int /\ t + stepped = now
        BY <1>3
      <4>2. Says(transitions, activeSecs, t, stepped) /\ InOrder(transitions, t)
        BY <3>1, <3>2
      <4> HIDE DEF t
      <4>3. \A x \in activeSecs : x \in Int /\ x < t + stepped
        BY <1>4, <4>1 DEF Past
      <4>4. Says(transitions, activeSecs', t + 1, stepped)
        BY <1>3, <1>6, <3>4, <4>1, <4>2, <4>3, SecondPasses
      <4> QED BY <4>4 DEF t
    <3> QED BY <1>1, <1>3, <3>1, <3>5 DEF RecordExact
  <2>5. ASSUME ~Idle PROVE StartExact'
    <3>1. StartExact
      BY <2>1, <2>5 DEF Accurate
    <3> QED BY Zenon, <1>1, <3>1 DEF StartExact
  <2> QED BY <1>7, <2>2, <2>3, <2>4, <2>5 DEF Accurate
<1> QED BY <1>5, <1>7, <1>8 DEF ExactInv

\* A second passes asleep, which the history knows of: the user is inactive.
LEMMA SleepTickKeepsExact ==
  ASSUME StoreInv, ExactInv, SleepTick
  PROVE  ExactInv'
<1>1. /\ now' = now + 1 /\ login.sleeping /\ activeSecs' = activeSecs
      /\ losses' = losses \cup LoseIf(~links.user \/ ~links.sleep, "start")
      /\ UNCHANGED <<life, login, userState, transitions, file, machine, links, starts, stepped>>
  BY DEF SleepTick, envVars, recordVars
<1>2. now \in Int /\ stepped \in Int /\ transitions \in Seq(TimedEntries)
      /\ now - stepped \in Int /\ (now - stepped) + stepped = now
      /\ (now - stepped) + 1 = now' - stepped'
  BY <1>1, TypedFacts
<1>3. Past
  BY DEF ExactInv
<1>4. Past'
  BY <1>1, <1>2, <1>3 DEF Past
<1>5. ASSUME Exact' PROVE Accurate'
  <2>1. Exact /\ links.user
    <3>1. Exact /\ LoseIf(~links.user \/ ~links.sleep, "start") \subseteq {"timer"}
      BY <1>1, <1>5, LosingExact
    <3> QED BY <3>1 DEF LoseIf
  <2>2. ~Idle
    BY <2>1, ExactFacts
  <2>3. /\ Reads(transitions, userState)
        /\ Says(transitions, activeSecs, now - stepped, stepped)
        /\ StartExact /\ life = "up"
    BY <2>1, <2>2, RecordFacts
  <2>4. InOrder(transitions, now - stepped)
    BY <2>1, <2>2, ExactFacts
  <2>5. userState = "INACTIVE"
    BY <1>1, <2>1, <2>3 DEF StartExact, Calculate
  <2>6. now \notin activeSecs
    BY <1>2, <1>3 DEF Past
  <2>7. Says(transitions, activeSecs, (now - stepped) + 1, stepped)
    <3> DEFINE t == now - stepped
    <3>1. t \in Int /\ t + stepped = now
      BY <1>2
    <3>2. Says(transitions, activeSecs, t, stepped) /\ InOrder(transitions, t)
      BY <2>3, <2>4
    <3> HIDE DEF t
    <3>3. \A x \in activeSecs : x \in Int /\ x < t + stepped
      BY <1>3, <3>1 DEF Past
    <3>4. now \in activeSecs <=> transitions # <<>> /\ transitions[Len(transitions)].new = "ACTIVE"
      BY <2>3, <2>5, <2>6 DEF Reads
    <3>5. activeSecs \subseteq activeSecs \cup {t + stepped}
      OBVIOUS
    <3>6. Says(transitions, activeSecs, t + 1, stepped)
      BY <1>2, <3>1, <3>2, <3>3, <3>4, <3>5, SecondPasses
    <3> QED BY <3>6 DEF t
  <2>8. RecordExact'
    BY <1>1, <1>2, <2>3, <2>7 DEF RecordExact
  <2>9. StartExact'
    BY Zenon, <1>1, <2>3 DEF StartExact
  <2>10. ~Idle'
    BY Zenon, <1>1, <2>2 DEF Idle
  <2> QED BY <1>1, <2>3, <2>8, <2>9, <2>10 DEF Accurate
<1> QED BY <1>4, <1>5 DEF ExactInv

\* The timer and the machine have no part in it.
LEMMA MachineKeepsExact ==
  ASSUME StoreInv, ExactInv, machine'.state = "DISABLED" <=> machine.state = "DISABLED",
         UNCHANGED <<now, life, login, userState, transitions, file, links, starts, stepped, activeSecs>>,
         Exact' => Exact
  PROVE  ExactInv'
<1>1. Past' /\ (Idle' <=> Idle)
  BY DEF ExactInv, Past, Idle
<1>2. ASSUME Exact' PROVE Accurate'
  <2>1. Accurate
    BY <1>2 DEF ExactInv
  <2>2. Idle => FileExact'
    BY <2>1 DEF Accurate, FileExact
  <2>3. ~Idle => RecordExact'
    BY <2>1 DEF Accurate, RecordExact
  <2>4. ~Idle => StartExact'
    BY Zenon, <2>1 DEF Accurate, StartExact
  <2> QED BY <1>1, <2>1, <2>2, <2>3, <2>4 DEF Accurate
<1> QED BY <1>1, <1>2 DEF ExactInv

\* The callback of _scheduleUpdateState
LEMMA TimerKeepsExact ==
  ASSUME StoreInv, ExactInv, TimerFires
  PROVE  ExactInv'
<1> DEFINE m == [machine EXCEPT !.timer = NoTimer]
<1>1. /\ machine.timer = 0 /\ machine' = Updated(conf, m, transitions, userState)
      /\ losses' = losses \cup LoseIf(stepped # 0, "timer")
      /\ UNCHANGED <<now, life, login, userState, transitions, file, links, starts, stepped, activeSecs>>
  BY DEF TimerFires, clockVars, envVars, recordVars
<1>2. m.state = machine.state
  BY TypedFacts DEF Parts
<1> HIDE DEF m
<1>3. Exact' => Exact
  BY <1>1, LosingExact
<1>4. ASSUME Exact' PROVE machine'.state # "DISABLED" /\ machine.state # "DISABLED"
  <2>1. HistoryInOrder
    BY <1>3, <1>4, ExactFacts
  <2>2. machine.state # "DISABLED"
    BY <1>1, <2>1 DEF HistoryInOrder, NoTimer
  <2> QED BY <1>1, <1>2, <2>2, UpdatedFacts
<1>5. CASE Exact'
  BY <1>1, <1>3, <1>4, <1>5, MachineKeepsExact
<1>6. CASE ~Exact'
  BY <1>1, <1>6 DEF ExactInv, Past
<1> QED BY <1>5, <1>6

\* The clock is set: watched, while there is a history; what was active moves.
LEMMA ClockStepKeepsExact ==
  ASSUME StoreInv, ExactInv, NEW d \in ClockSteps, ClockStep(d)
  PROVE  ExactInv'
<1>1. d \in Int
  BY TimeLimitsAssumption
<1>2. /\ now' = now + d /\ activeSecs' = {s + d : s \in activeSecs}
      /\ stepped' = IF links.source THEN stepped + d ELSE 0
      /\ losses' = losses \cup
           LoseIf(~links.source /\ (file # <<>> \/ transitions # <<>>), "clock")
      /\ UNCHANGED <<life, login, userState, transitions, file, machine, links, starts>>
  BY DEF ClockStep, envVars, recordVars
<1>3. Past
  BY DEF ExactInv
<1>4. now \in Int /\ stepped \in Int /\ file \in Seq(TimedEntries)
  BY TypedFacts
<1>5. Past'
  BY <1>1, <1>2, <1>3, <1>4 DEF Past
<1>6. \A x \in Int : x + d \in activeSecs' <=> x \in activeSecs
  <2> SUFFICES ASSUME NEW x \in Int PROVE x + d \in activeSecs' <=> x \in activeSecs
    OBVIOUS
  <2>1. \A s \in activeSecs : s \in Int
    BY <1>3 DEF Past
  <2>2. ASSUME NEW s \in activeSecs, x + d = s + d PROVE s = x
    <3>1. s \in Int
      BY <2>1
    <3> QED BY <1>1, <2>2, <3>1
  <2>3. x + d \in activeSecs' <=> \E s \in activeSecs : x + d = s + d
    BY <1>2
  <2>4. x \in activeSecs => \E s \in activeSecs : x + d = s + d
    OBVIOUS
  <2> QED BY <2>2, <2>3, <2>4
<1>7. ASSUME Exact' PROVE Accurate'
  <2>1. Exact /\ (~links.source => file = <<>> /\ transitions = <<>>)
    <3>1. Exact /\ LoseIf(~links.source /\ (file # <<>> \/ transitions # <<>>), "clock") \subseteq {"timer"}
      BY <1>2, <1>7, LosingExact
    <3> QED BY <3>1 DEF LoseIf
  <2>2. Accurate
    BY <2>1 DEF ExactInv
  <2>3. Idle' <=> Idle
    BY <1>2 DEF Idle
  <2>4. ASSUME Idle PROVE FileExact'
    <3>1. ~links.source
      BY <2>1, <2>4, ExactFacts
    <3>2. /\ file = <<>> /\ stepped' = 0 /\ file' = <<>>
      BY <1>2, <2>1, <3>1
    <3>3. Says(file, activeSecs, now, 0)
      BY <2>1, <2>4, IdleIsInactive
    <3>4. Says(<<>>, activeSecs', now', 0)
      <4> SUFFICES ASSUME NEW x \in Int, now' - Threshold <= x, x < now'
                   PROVE  x + 0 \in activeSecs' <=> ActiveAt(<<>>, x)
        BY DEF Says
      <4> DEFINE y == x - d
      <4>1. y \in Int /\ y + d = x /\ x + 0 = x /\ y + 0 = y /\ now - Threshold <= y /\ y < now
        BY <1>1, <1>2, <1>4, TimeLimitsAssumption
      <4> HIDE DEF y
      <4>2. y + 0 \in activeSecs <=> ActiveAt(<<>>, y)
        BY <3>2, <3>3, <4>1 DEF Says
      <4> QED BY <1>6, <4>1, <4>2, NothingActive
    <3>5. InOrder(<<>>, now') /\ Alternates(<<>>)
      BY EmptyInOrder, NothingActive
    <3> QED BY <3>2, <3>4, <3>5 DEF FileExact
  <2>5. ASSUME ~Idle PROVE RecordExact'
    <3>1. /\ Reads(transitions, userState)
          /\ Says(transitions, activeSecs, now - stepped, stepped)
      BY <2>1, <2>5, RecordFacts
    <3>2. links.source
      BY <2>1, <3>1 DEF Reads
    <3>3. stepped' = stepped + d /\ now' - stepped' = now - stepped
      BY <1>1, <1>2, <1>4, <3>2
    <3>4. Says(transitions, activeSecs', now - stepped, stepped + d)
      <4> SUFFICES ASSUME NEW x \in Int, (now - stepped) - Threshold <= x, x < now - stepped
                   PROVE  x + (stepped + d) \in activeSecs' <=> ActiveAt(transitions, x)
        BY DEF Says
      <4>1. x + (stepped + d) = (x + stepped) + d /\ x + stepped \in Int
        BY <1>1, <1>4
      <4>2. x + stepped \in activeSecs <=> ActiveAt(transitions, x)
        BY <3>1 DEF Says
      <4> QED BY <1>6, <4>1, <4>2
    <3> QED BY <1>2, <3>1, <3>3, <3>4 DEF RecordExact
  <2>6. ASSUME ~Idle PROVE StartExact'
    <3>1. StartExact
      BY <2>2, <2>6 DEF Accurate
    <3> QED BY Zenon, <1>2, <3>1 DEF StartExact
  <2>7. machine'.state # "DISABLED" => life' = "up"
    BY <1>2, <2>2 DEF Accurate
  <2> QED BY <2>3, <2>4, <2>5, <2>6, <2>7 DEF Accurate
<1> QED BY <1>5, <1>7 DEF ExactInv

\* The callback of timeChangeNotify moves the history alike.
LEMMA ClockChangedKeepsExact ==
  ASSUME StoreInv, ExactInv, ClockChanged
  PROVE  ExactInv'
<1> DEFINE d == offset - clockOffset
           tr == AdjustAllTimes(transitions, d)
           kept == Trim(tr, now)
           m == [machine EXCEPT !.lastChange = IF @ = 0 THEN 0 ELSE @ + d]
<1>0. UNCHANGED <<now, life, login, userState, links, starts, activeSecs>>
  BY DEF ClockChanged, envVars, clockVars
<1>1. CASE UNCHANGED <<machine, transitions, file, clockOffset, stepped, losses>>
  BY <1>0, <1>1, MachineKeepsExact DEF Exact
<1>2. CASE /\ links.source \/ links.leaked
           /\ transitions' = kept
           /\ machine' = Updated(conf, m, kept, userState)
           /\ stepped' = 0
           /\ losses' = losses \cup (StoreLoses(tr) \cup LoseIf(d # stepped, "clock"))
  <2>1. Past'
    BY <1>0 DEF ExactInv, Past
  <2>2. ASSUME Exact' PROVE Accurate'
    <3>1. Exact /\ d = stepped /\ Cancelling(Pick(tr, KeptAt(tr, now))) = {}
      <4> HIDE DEF tr, kept, d
      <4>1. Exact /\ (StoreLoses(tr) \cup LoseIf(d # stepped, "clock")) \subseteq {"timer"}
        BY <1>2, <2>2, LosingExact
      <4>2. d = stepped
        BY <4>1 DEF LoseIf
      <4>3. Cancelling(Pick(tr, KeptAt(tr, now))) = {}
        BY <4>1 DEF LoseIf, StoreLoses
      <4> QED BY <4>1, <4>2, <4>3
    <3>2. ~Idle
      BY <1>2, <3>1, ExactFacts
    <3>3. /\ Reads(transitions, userState)
          /\ Says(transitions, activeSecs, now - stepped, stepped)
          /\ StartExact /\ life = "up"
      BY <3>1, <3>2, RecordFacts
    <3>4. InOrder(transitions, now - stepped) /\ machine.state # "DISABLED"
      BY <3>1, <3>2, ExactFacts
    <3>5. now \in Int /\ d \in Int /\ transitions \in Seq(TimedEntries) /\ now - 0 = now
      BY TypedFacts
    <3>6. m.state = machine.state
      BY TypedFacts DEF Parts
    <3> HIDE DEF d, m
    <3>7. /\ tr \in Seq(TimedEntries) /\ InOrder(tr, now)
          /\ Reads(tr, userState) /\ Says(tr, activeSecs, now, 0)
      BY <3>1, <3>3, <3>4, <3>5, AdjustsOn
    <3> HIDE DEF tr
    <3>8. Reads(kept, userState) /\ Says(kept, activeSecs, now, 0)
      BY <3>1, <3>5, <3>7, TrimsOn
    <3> HIDE DEF kept
    <3>9. RecordExact'
      BY <1>0, <1>2, <3>5, <3>8 DEF RecordExact
    <3>10. StartExact'
      BY Zenon, <1>0, <3>3 DEF StartExact
    <3>11. machine'.state # "DISABLED"
      BY <1>2, <3>4, <3>6, UpdatedFacts
    <3>12. ~Idle'
      BY Zenon, <1>0, <3>2, <3>11 DEF Idle
    <3> QED BY <1>0, <3>3, <3>9, <3>10, <3>12 DEF Accurate
  <2> QED BY <2>1, <2>2 DEF ExactInv
<1>3. (losses \cup StoreLoses(tr) \cup LoseIf(d # stepped, "clock"))
        = losses \cup (StoreLoses(tr) \cup LoseIf(d # stepped, "clock"))
  OBVIOUS
<1> HIDE DEF m, tr, kept
<1> QED BY <1>1, <1>2, <1>3 DEF ClockChanged, m, tr, kept

---------------------------------------------------------------------------
(* Starting, stopping, and the end of the shell.                           *)

\* A stopped machine is started: nothing is recorded before the file is loaded.
LEMMA StartKeepsExact ==
  ASSUME StoreInv, ExactInv, Start, machine.state = "DISABLED", now' = now, life' = "up"
  PROVE  ExactInv'
<1>1. /\ starts' = Append(starts, "load")
      /\ losses' = losses \cup LoseIf(starts # <<>>, "restart")
      /\ file' = file /\ activeSecs' = activeSecs /\ stepped' = stepped
  BY DEF Start
<1>2. Past'
  BY <1>1 DEF ExactInv, Past
<1>3. ASSUME Exact' PROVE Accurate'
  <2>1. Exact /\ starts = <<>>
    <3>1. Exact /\ LoseIf(starts # <<>>, "restart") \subseteq {"timer"}
      BY <1>1, <1>3, LosingExact
    <3> QED BY <3>1 DEF LoseIf
  <2>2. FileExact
    BY <2>1 DEF ExactInv, Accurate, Idle
  <2>3. starts' = <<"load">>
    BY <1>1, <2>1
  <2>4. FileExact'
    BY <1>1, <2>2 DEF FileExact
  <2>5. Idle'
    BY <2>3 DEF Idle
  <2> QED BY <2>4, <2>5 DEF Accurate
<1> QED BY <1>2, <1>3 DEF ExactInv

\* A stop: what was recorded is in the file and the user is inactive; or, with the
\* history disabled, there is none.
LEMMA StopKeepsExact ==
  ASSUME StoreInv, ExactInv, NEW history, Stop(history), UNCHANGED <<now, starts>>,
         history => life = "up" /\ conf.history
  PROVE  ExactInv'
<1> DEFINE tr == IF userState = "INACTIVE" THEN transitions
                 ELSE Append(transitions, Entry("INACTIVE", now))
           kept == Trim(tr, now)
<1>1. machine' = Off /\ stepped' = 0
  BY DEF Stop
<1>2. machine'.state = "DISABLED" /\ Idle'
  BY <1>1 DEF Off, Idle
<1>3. CASE /\ history
           /\ activeSecs' = activeSecs
           /\ losses' = losses \cup (StoreLoses(tr) \cup LoseIf(stepped # 0, "clock")
                          \cup LoseIf(file' # kept, "store") \cup LoseIf(starts # <<>>, "restart"))
  <2>1. Past'
    BY <1>3 DEF ExactInv, Past
  <2>2. ASSUME Exact' PROVE FileExact'
    <3>1. /\ Exact /\ stepped = 0 /\ starts = <<>> /\ file' = kept
          /\ Cancelling(Pick(tr, KeptAt(tr, now))) = {}
      <4> HIDE DEF tr, kept
      <4> DEFINE more == StoreLoses(tr) \cup LoseIf(stepped # 0, "clock")
                           \cup LoseIf(file' # kept, "store") \cup LoseIf(starts # <<>>, "restart")
      <4>1. Exact /\ more \subseteq {"timer"}
        BY <1>3, <2>2, LosingExact
      <4>2. stepped = 0
        BY <4>1 DEF LoseIf
      <4>3. starts = <<>>
        BY <4>1 DEF LoseIf
      <4>4. file' = kept
        BY <4>1 DEF LoseIf
      <4>5. Cancelling(Pick(tr, KeptAt(tr, now))) = {}
        BY <4>1 DEF LoseIf, StoreLoses
      <4> QED BY <4>1, <4>2, <4>3, <4>4, <4>5
    <3>2. machine.state # "DISABLED"
      <4>1. HistoryInOrder
        BY <3>1, ExactFacts
      <4> QED BY <1>3, <4>1 DEF HistoryInOrder
    <3>3. ~Idle
      BY <3>1, <3>2 DEF Idle
    <3>4. /\ Reads(transitions, userState)
          /\ Says(transitions, activeSecs, now - stepped, stepped)
      BY <3>1, <3>3, RecordFacts
    <3>5. InOrder(transitions, now - stepped)
      BY <3>1, <3>3, ExactFacts
    <3>6. now - stepped = now /\ now \in Int /\ transitions \in Seq(TimedEntries)
          /\ userState \in {"ACTIVE", "INACTIVE"}
      BY <3>1, TypedFacts
    <3>7. InOrder(transitions, now) /\ Says(transitions, activeSecs, now, 0)
      BY <3>1, <3>4, <3>5, <3>6
    <3>8. /\ tr \in Seq(TimedEntries) /\ InOrder(tr, now)
          /\ Reads(tr, "INACTIVE") /\ Says(tr, activeSecs, now, 0)
      <4>1. CASE userState = "INACTIVE"
        BY <3>4, <3>6, <3>7, <4>1
      <4>2. CASE userState # "INACTIVE"
        <5> DEFINE r == Append(transitions, Entry("INACTIVE", now))
        <5>1. /\ r \in Seq(TimedEntries) /\ InOrder(r, now)
              /\ Reads(r, "INACTIVE") /\ Says(r, activeSecs, now, 0)
          BY <3>4, <3>6, <3>7, <4>2, RecordsOn
        <5> QED BY <4>2, <5>1
      <4> QED BY <4>1, <4>2
    <3>9. /\ kept \in Seq(TimedEntries) /\ InOrder(kept, now)
          /\ Reads(kept, "INACTIVE") /\ Says(kept, activeSecs, now, 0)
      <4> HIDE DEF tr
      <4> QED BY <3>1, <3>6, <3>8, TrimsOn
    <3> HIDE DEF kept
    <3> QED BY <1>1, <1>3, <3>1, <3>9 DEF FileExact, Reads
  <2> QED BY <1>2, <2>1, <2>2 DEF ExactInv, Accurate
<1>4. CASE /\ ~history
           /\ losses' = IF starts = <<>> /\ ~links.leaked /\ file' = <<>>
                        THEN {} ELSE losses \cup {"restart"} \cup LoseIf(stepped # 0, "clock")
           /\ activeSecs' = {}
  <2>1. Past'
    BY <1>4 DEF Past
  <2>2. ASSUME Exact' PROVE FileExact'
    <3>1. file' = <<>>
      <4>1. "restart" \notin losses'
        BY <2>2 DEF Exact
      <4> QED BY <1>4, <4>1
    <3>2. InOrder(<<>>, now') /\ Alternates(<<>>) /\ \A x : ~ActiveAt(<<>>, x)
      BY EmptyInOrder, NothingActive
    <3>3. Says(<<>>, activeSecs', now', 0)
      BY <1>4, <3>2 DEF Says
    <3> QED BY <1>1, <3>1, <3>2, <3>3 DEF FileExact
  <2> QED BY <1>2, <2>1, <2>2 DEF ExactInv, Accurate
<1> HIDE DEF tr, kept
<1>5. history => /\ activeSecs' = activeSecs
                 /\ losses' = losses \cup StoreLoses(tr) \cup LoseIf(stepped # 0, "clock")
                       \cup LoseIf(file' # kept, "store") \cup LoseIf(starts # <<>>, "restart")
  BY DEF Stop, tr, kept
<1>6. ~history => /\ losses' = IF starts = <<>> /\ ~links.leaked /\ file' = <<>>
                               THEN {} ELSE losses \cup {"restart"} \cup LoseIf(stepped # 0, "clock")
                  /\ activeSecs' = {}
  BY DEF Stop
<1>7. (losses \cup StoreLoses(tr) \cup LoseIf(stepped # 0, "clock")
           \cup LoseIf(file' # kept, "store") \cup LoseIf(starts # <<>>, "restart"))
        = losses \cup (StoreLoses(tr) \cup LoseIf(stepped # 0, "clock")
                   \cup LoseIf(file' # kept, "store") \cup LoseIf(starts # <<>>, "restart"))
  OBVIOUS
<1> QED BY <1>3, <1>4, <1>5, <1>6, <1>7

\* _updateSettings
LEMMA UpdateSettingsKeepsExact ==
  ASSUME StoreInv, ExactInv, UpdateSettings(conf'), now' = now, life' = "up",
         life = "up" => login' = login
  PROVE  ExactInv'
<1>1. CASE Stop(FALSE) /\ UNCHANGED starts
  BY <1>1, StopKeepsExact
<1>2. CASE machine.state = "DISABLED" /\ Start
  BY <1>2, StartKeepsExact
<1>3. ASSUME machine'.state = "DISABLED" <=> machine.state = "DISABLED", Exact' => Exact,
             UNCHANGED <<recordVars, links, starts, activeSecs, stepped>>
      PROVE  ExactInv'
  <2>1. /\ userState' = userState /\ transitions' = transitions /\ file' = file
        /\ links' = links /\ starts' = starts /\ activeSecs' = activeSecs /\ stepped' = stepped
    BY <1>3 DEF recordVars
  <2>2. Past' /\ (Idle' <=> Idle)
    BY <1>3, <2>1 DEF ExactInv, Past, Idle
  <2>3. ASSUME Exact' PROVE Accurate'
    <3>1. Accurate
      BY <1>3, <2>3 DEF ExactInv
    <3>2. Idle => FileExact'
      BY <2>1, <3>1 DEF Accurate, FileExact
    <3>3. ASSUME ~Idle PROVE RecordExact' /\ StartExact'
      <4>1. RecordExact /\ StartExact /\ life = "up"
        <5>1. machine.state # "DISABLED"
          BY <3>3 DEF Idle
        <5> QED BY <3>1, <3>3, <5>1 DEF Accurate
      <4>2. login' = login
        BY <4>1
      <4>3. RecordExact'
        BY <2>1, <4>1 DEF RecordExact
      <4>4. StartExact'
        BY Zenon, <2>1, <4>1, <4>2 DEF StartExact
      <4> QED BY <4>3, <4>4
    <3> QED BY <2>2, <3>2, <3>3 DEF Accurate
  <2> QED BY <2>2, <2>3 DEF ExactInv
<1>4. CASE UNCHANGED <<machine, recordVars, offsetVars, links, starts, activeSecs, stepped, losses>>
  <2>1. Exact' => Exact
    BY <1>4 DEF Exact
  <2> QED BY <1>3, <1>4, <2>1
<1>5. CASE /\ machine.state # "DISABLED"
           /\ machine' = Updated(conf', machine, transitions, userState)
           /\ losses' = losses \cup LoseIf(stepped # 0, "timer")
           /\ UNCHANGED <<recordVars, offsetVars, links, starts, activeSecs, stepped>>
  <2>1. machine'.state # "DISABLED"
    BY <1>5, UpdatedFacts
  <2>2. Exact' => Exact
    BY <1>5, LosingExact
  <2> QED BY <1>3, <1>5, <2>1, <2>2
<1> QED BY Zenon, <1>1, <1>2, <1>4, <1>5 DEF UpdateSettings

\* Settings that change, and the shell that starts or shuts down.
LEMMA LifeKeepsExact ==
  ASSUME StoreInv, ExactInv,
         (\E cf \in Changed(conf) \ {conf} : SettingsChange(cf)) \/ Boot \/ Shutdown
  PROVE  ExactInv'
<1>1. ASSUME NEW cf, SettingsChange(cf) PROVE ExactInv'
  <2>1. /\ conf' = cf /\ UpdateSettings(cf) /\ now' = now /\ life' = "up" /\ login' = login
    BY <1>1 DEF SettingsChange, clockVars
  <2> QED BY <2>1, UpdateSettingsKeepsExact
<1>2. CASE Boot
  <2>1. /\ conf' = conf /\ UpdateSettings(conf) /\ now' = now /\ life' = "up" /\ life # "up"
    BY <1>2 DEF Boot, clockVars
  <2> QED BY <2>1, UpdateSettingsKeepsExact
<1>3. CASE Shutdown
  <2>1. life = "up" /\ Stop(conf.history) /\ UNCHANGED <<now, starts>>
    BY <1>3 DEF Shutdown, clockVars
  <2> QED BY <2>1, StopKeepsExact
<1> QED BY <1>1, <1>2, <1>3

\* The process ends: what was recorded but not stored is lost.
LEMMA ExitKeepsExact ==
  ASSUME StoreInv, ExactInv, ExitAfterShutdown \/ Crash
  PROVE  ExactInv'
<1>1. /\ Exit
      /\ machine' = Off /\ stepped' = 0 /\ now' = now /\ file' = file /\ activeSecs' = activeSecs
  BY DEF ExitAfterShutdown, Crash, Exit, clockVars
<1>2. machine'.state = "DISABLED" /\ Idle'
  BY <1>1 DEF Off, Idle
<1>3. Past'
  BY <1>1 DEF ExactInv, Past
<1>4. ASSUME Exact' PROVE FileExact'
  <2>1. Exact /\ (Idle \/ (transitions = file /\ userState = "INACTIVE" /\ stepped = 0))
    <3>1. CASE ExitAfterShutdown
      <4>1. life # "up" /\ Exact
        BY <1>4, <3>1 DEF ExitAfterShutdown, Exact
      <4>2. Idle
        BY <4>1, RecordFacts
      <4> QED BY <4>1, <4>2
    <3>2. CASE Crash
      <4> DEFINE kept == \/ machine.state = "DISABLED"
                         \/ starts = <<"load">>
                         \/ transitions = file /\ userState = "INACTIVE" /\ stepped = 0
      <4>1. losses' = losses \cup LoseIf(~kept, "crash")
        BY <3>2 DEF Crash
      <4> HIDE DEF kept
      <4>2. Exact /\ LoseIf(~kept, "crash") \subseteq {"timer"}
        BY <1>4, <4>1, LosingExact
      <4>3. kept
        BY <4>2 DEF LoseIf
      <4> QED BY <4>2, <4>3 DEF kept, Idle
    <3> QED BY <3>1, <3>2
  <2>2. CASE Idle
    <3>1. FileExact
      BY <2>1, <2>2 DEF ExactInv, Accurate
    <3> QED BY <1>1, <3>1 DEF FileExact
  <2>3. CASE ~Idle /\ transitions = file /\ userState = "INACTIVE" /\ stepped = 0
    <3>1. Reads(file, "INACTIVE") /\ Says(file, activeSecs, now - stepped, 0)
      BY <2>1, <2>3, RecordFacts
    <3>2. InOrder(file, now - stepped)
      BY <2>1, <2>3, ExactFacts
    <3>3. now - stepped = now
      BY <2>3, TypedFacts
    <3> QED BY <1>1, <3>1, <3>2, <3>3 DEF FileExact, Reads
  <2> QED BY <2>1, <2>2, <2>3
<1> QED BY <1>2, <1>3, <1>4 DEF ExactInv, Accurate

---------------------------------------------------------------------------
(* The steps of a start.                                                   *)

\* The only start.
LEMMA OnlyOneStarts ==
  ASSUME StoreInv, Exact, NEW i \in DOMAIN starts
  PROVE  /\ i = 1 /\ starts = <<starts[1]>> /\ RemoveAt(starts, i) = <<>>
         /\ \A w : [starts EXCEPT ![i] = w] = <<w>>
         /\ machine.state # "DISABLED"
         /\ starts[i] = "load" => Idle /\ transitions = <<>>
         /\ starts[i] # "load" => ~Idle
<1>1. HistoryInOrder /\ starts \in Seq({"load", "inhibit", "proxy"})
  BY ExactFacts, TypedFacts
<1>2. Len(starts) <= 1
  BY <1>1 DEF HistoryInOrder
<1>3. i = 1 /\ starts # <<>> /\ RemoveAt(starts, i) = <<>>
  BY <1>1, <1>2, OnlyStart
<1>4. starts = <<starts[1]>>
  BY <1>1, <1>2, <1>3, OneElement
<1>5. ASSUME NEW w PROVE [starts EXCEPT ![i] = w] = <<w>>
  <2> DEFINE a == starts[1]
  <2>1. starts = <<a>>
    BY <1>4
  <2> HIDE DEF a
  <2>2. [<<a>> EXCEPT ![1] = w] = <<w>>
    OBVIOUS
  <2> QED BY <1>3, <2>1, <2>2
<1>6. machine.state # "DISABLED"
  BY Zenon, <1>1, <1>3 DEF HistoryInOrder
<1>7. starts[i] = "load" => Idle /\ transitions = <<>>
  <2> SUFFICES ASSUME starts[i] = "load" PROVE Idle /\ transitions = <<>>
    OBVIOUS
  <2>1. transitions = <<>>
    BY Zenon, <1>1, <1>3 DEF HistoryInOrder
  <2> QED BY <1>3, <1>4, <2>1 DEF Idle
<1>8. starts[i] # "load" => ~Idle
  <2> SUFFICES ASSUME starts[i] # "load", Idle PROVE FALSE
    OBVIOUS
  <2>1. starts = <<"load">>
    BY <1>6 DEF Idle
  <2>2. starts[1] = "load"
    BY <2>1
  <2> QED BY <1>3, <2>2
<1> QED BY <1>3, <1>4, <1>5, <1>6, <1>7, <1>8

\* The file is loaded: it says all there is, and the user, inactive by it, is taken
\* to be active from now on.
LEMMA LoadDoneKeepsExact ==
  ASSUME StoreInv, ExactInv, NEW i \in DOMAIN starts, LoadDone(i)
  PROVE  ExactInv'
<1>1. PICK ok \in Outcomes("load"), listening \in Outcomes("listen") :
        LET loaded == IF ok THEN Loaded(file, now) ELSE <<>>
            tr == transitions \o loaded
            us == IF loaded = <<>> THEN userState ELSE Last(loaded).new
            m == IF ok /\ LoadRecalculates(file, now)
                 THEN Recalculated(machine, tr, us) ELSE machine
            fake == Append(tr, Entry("ACTIVE", now))
            begins == tr = <<>> \/ us # "ACTIVE"
        IN  /\ starts[i] = "load"
            /\ userState' = "ACTIVE"
            /\ transitions' = IF begins THEN fake ELSE tr
            /\ machine' = IF begins THEN Recalculated(m, fake, "ACTIVE") ELSE m
            /\ clockOffset' = offset
            /\ links' = [links EXCEPT !.source = listening,
                                      !.leaked = @ \/ links.source,
                                      !.manager = TRUE,
                                      !.sleep = @ \/ links.inhibitor]
            /\ Await(i, IF links.inhibitor THEN "proxy" ELSE "inhibit")
            /\ stepped' = 0
            /\ losses' = losses \cup LoseIf(~ok /\ file # <<>>, "load")
                                \cup LoseIf(stepped # 0, "clock")
            /\ UNCHANGED <<clockVars, envVars, file, activeSecs>>
  BY DEF LoadDone
<1> DEFINE loaded == IF ok THEN Loaded(file, now) ELSE <<>>
           tr == transitions \o loaded
           us == IF loaded = <<>> THEN userState ELSE Last(loaded).new
           fake == Append(tr, Entry("ACTIVE", now))
<1>2. /\ starts[i] = "load" /\ userState' = "ACTIVE"
      /\ transitions' = IF tr = <<>> \/ us # "ACTIVE" THEN fake ELSE tr
      /\ stepped' = 0 /\ activeSecs' = activeSecs
      /\ now' = now /\ file' = file /\ life' = life /\ login' = login
  BY <1>1 DEF clockVars, envVars
<1>3. /\ links' = [links EXCEPT !.source = listening,
                                !.leaked = @ \/ links.source,
                                !.manager = TRUE,
                                !.sleep = @ \/ links.inhibitor]
      /\ starts' = [starts EXCEPT ![i] = IF links.inhibitor THEN "proxy" ELSE "inhibit"]
      /\ losses' = losses \cup (LoseIf(~ok /\ file # <<>>, "load")
                                  \cup LoseIf(stepped # 0, "clock"))
  BY <1>1 DEF Await
<1>4. Past'
  BY <1>2 DEF ExactInv, Past
<1>5. ASSUME Exact' PROVE Accurate'
  <2>1. Exact /\ stepped = 0 /\ (~ok => file = <<>>)
    <3> DEFINE more == LoseIf(~ok /\ file # <<>>, "load") \cup LoseIf(stepped # 0, "clock")
    <3>1. Exact /\ more \subseteq {"timer"}
      BY <1>3, <1>5, LosingExact
    <3>2. stepped = 0
      BY <3>1 DEF LoseIf
    <3>3. ~ok => file = <<>>
      BY <3>1 DEF LoseIf
    <3> QED BY <3>1, <3>2, <3>3
  <2>2. Idle /\ transitions = <<>> /\ machine.state # "DISABLED"
        /\ \A w : [starts EXCEPT ![i] = w] = <<w>>
    BY <1>2, <2>1, OnlyOneStarts
  <2>3. /\ InOrder(file, now) /\ Says(file, activeSecs, now, 0) /\ Alternates(file)
        /\ file # <<>> => file[Len(file)].new = "INACTIVE"
    BY <2>1, <2>2, IdleIsInactive
  <2>4. now \in Int /\ file \in Seq(TimedEntries) /\ now - 0 = now /\ now - Threshold \in Int
    BY TypedFacts, TimeLimitsAssumption
  <2>5. /\ loaded \in Seq(TimedEntries) /\ InOrder(loaded, now) /\ Alternates(loaded)
        /\ loaded # <<>> => loaded[Len(loaded)].new = "INACTIVE"
        /\ \A x \in Int : x >= now - Threshold => (ActiveAt(loaded, x) <=> ActiveAt(file, x))
    <3>1. CASE ok
      <4> DEFINE r == Loaded(file, now)
      <4>1. /\ r \in Seq(TimedEntries) /\ InOrder(r, now) /\ Alternates(r)
            /\ file # <<>> => r # <<>> /\ r[Len(r)].new = file[Len(file)].new
            /\ file = <<>> => r = <<>>
            /\ \A x \in Int : x >= now - Threshold => (ActiveAt(r, x) <=> ActiveAt(file, x))
        BY <2>3, <2>4, LoadedKeepsSeconds
      <4>2. loaded = r
        BY <3>1
      <4> HIDE DEF r, loaded
      <4> QED BY <2>3, <4>1, <4>2
    <3>2. CASE ~ok
      <4>1. loaded = <<>> /\ file = <<>>
        BY <2>1, <3>2
      <4> HIDE DEF loaded
      <4> QED BY <2>3, <2>4, <4>1
    <3> QED BY <3>1, <3>2
  <2>6. loaded = <<>> \/ us # "ACTIVE"
    BY <2>5 DEF Last
  <2> HIDE DEF loaded
  <2>7. tr = loaded
    BY <2>2, <2>5
  <2> DEFINE r == Append(loaded, Entry("ACTIVE", now))
  <2>8. transitions' = r
    BY <1>2, <2>6, <2>7
  <2>9. /\ Alternates(r) /\ r # <<>> /\ r[Len(r)].new = "ACTIVE"
        /\ \A x \in Int : x < now => (ActiveAt(r, x) <=> ActiveAt(loaded, x))
    <3>1. \A k \in DOMAIN loaded : loaded[k].time <= now
      BY <2>5 DEF InOrder
    <3>2. IF loaded = <<>> THEN "ACTIVE" = "ACTIVE" ELSE "ACTIVE" # loaded[Len(loaded)].new
      BY <2>5
    <3>3. Alternates(loaded) /\ loaded \in Seq(TimedEntries)
      BY <2>5
    <3> QED BY <2>4, <3>1, <3>2, <3>3, AppendKeepsSeconds
  <2> HIDE DEF r
  <2>10. Says(r, activeSecs, now, 0)
    BY <2>3, <2>4, <2>5, <2>9 DEF Says
  <2>11. RecordExact'
    BY <1>2, <2>4, <2>8, <2>9, <2>10 DEF RecordExact, Reads
  <2>12. starts' = <<IF links.inhibitor THEN "proxy" ELSE "inhibit">>
    BY <1>3, <2>2
  <2>13. starts' # <<>> /\ starts' # <<"load">> /\ (starts'[1] = "proxy" => links.inhibitor)
    BY <2>12
  <2>14. /\ links'.manager /\ links'.user = links.user
         /\ links.inhibitor => links'.sleep
    <3> DEFINE a == links.leaked \/ links.source
               b == links.sleep \/ links.inhibitor
    <3>1. links' = [links EXCEPT !.source = listening, !.leaked = a, !.manager = TRUE, !.sleep = b]
      BY <1>3
    <3>2. links.inhibitor => b
      OBVIOUS
    <3> HIDE DEF a, b
    <3>3. links'.manager = TRUE /\ links'.user = links.user /\ links'.sleep = b
      BY <3>1, TypedFacts DEF Links
    <3> QED BY Zenon, <3>2, <3>3
  <2>15. ~links.user
    BY <2>1, <2>2, ExactFacts
  <2>16. StartExact'
    BY <1>2, <2>13, <2>14, <2>15 DEF StartExact
  <2>17. machine'.state # "DISABLED" /\ life' = "up"
    <3>1. StoreInv'
      BY LoadDoneKeepsOrder
    <3>2. HistoryInOrder'
      BY <1>5, <3>1 DEF StoreInv, Exact, Clean
    <3>3. machine'.state # "DISABLED"
      BY Zenon, <2>13, <3>2 DEF HistoryInOrder
    <3>4. life = "up"
      BY <2>1, <2>2 DEF ExactInv, Accurate
    <3> QED BY <1>2, <3>3, <3>4
  <2>18. ~Idle'
    BY Zenon, <2>13, <2>17 DEF Idle
  <2> QED BY <2>11, <2>16, <2>17, <2>18 DEF Accurate
<1> QED BY <1>4, <1>5 DEF ExactInv

\* The inhibitor was taken, or not.
LEMMA InhibitDoneKeepsExact ==
  ASSUME StoreInv, ExactInv, NEW i \in DOMAIN starts, InhibitDone(i)
  PROVE  ExactInv'
<1>1. /\ starts[i] = "inhibit"
      /\ starts' = IF links.manager THEN [starts EXCEPT ![i] = "proxy"] ELSE RemoveAt(starts, i)
      /\ UNCHANGED <<now, life, login, machine, userState, transitions, stepped, losses, activeSecs>>
  BY DEF InhibitDone, Await, Ended, envVars, clockVars, recordVars
<1>2. PICK ok : links' = [links EXCEPT !.inhibitor = @ \/ ok, !.sleep = links.manager]
  BY DEF InhibitDone
<1>3. /\ links'.manager = links.manager /\ links'.user = links.user
      /\ links'.sleep = links.manager
  <2> DEFINE b == links.inhibitor \/ ok
  <2>1. links' = [links EXCEPT !.inhibitor = b, !.sleep = links.manager]
    BY <1>2
  <2> HIDE DEF b
  <2> QED BY <2>1, TypedFacts DEF Links
<1>4. Past'
  BY <1>1 DEF ExactInv, Past
<1>5. ASSUME Exact' PROVE Accurate'
  <2>1. Exact
    BY <1>1, <1>5 DEF Exact
  <2>2. ~Idle /\ machine.state # "DISABLED" /\ starts = <<starts[1]>>
        /\ \A w : [starts EXCEPT ![i] = w] = <<w>>
    BY <1>1, <2>1, OnlyOneStarts
  <2>3. /\ Reads(transitions, userState)
        /\ Says(transitions, activeSecs, now - stepped, stepped)
        /\ StartExact /\ life = "up"
    BY <2>1, <2>2, RecordFacts
  <2>4. starts # <<>>
    <3>1. <<starts[1]>> # <<>>
      OBVIOUS
    <3> QED BY <2>2, <3>1
  <2>5. links.manager /\ ~links.user /\ userState = "ACTIVE"
    BY <2>3, <2>4 DEF StartExact
  <2>6. starts' = <<"proxy">>
    BY <1>1, <2>2, <2>5
  <2>7. starts' # <<>> /\ starts' # <<"load">>
    BY <2>6
  <2>8. StartExact'
    BY <1>1, <1>3, <2>5, <2>7 DEF StartExact
  <2>9. RecordExact'
    BY <1>1, <2>3 DEF RecordExact
  <2>10. ~Idle' /\ life' = "up"
    BY <1>1, <2>2, <2>3, <2>7 DEF Idle
  <2> QED BY <2>8, <2>9, <2>10 DEF Accurate
<1> QED BY <1>4, <1>5 DEF ExactInv

\* The proxy of the user is there: what the user was taken to be is put right.
LEMMA ProxyDoneKeepsExact ==
  ASSUME StoreInv, ExactInv, NEW i \in DOMAIN starts, ProxyDone(i)
  PROVE  ExactInv'
<1> DEFINE new == Calculate(login)
           tr == IF new = userState THEN transitions
                 ELSE Append(transitions, Entry(new, now))
           m == IF new = userState THEN machine ELSE Recalculated(machine, tr, new)
           more == LoseIf(stepped # 0, IF tr = transitions THEN "timer" ELSE "clock")
<1>1. /\ starts[i] = "proxy" /\ starts' = RemoveAt(starts, i)
      /\ UNCHANGED <<now, life, login, stepped, activeSecs>>
  BY DEF ProxyDone, Ended, envVars, clockVars
<1>2. new \in {"ACTIVE", "INACTIVE"}
  BY DEF Calculate
<1>3. \/ losses' = losses \cup {"start"}
      \/ /\ links' = [links EXCEPT !.user = TRUE]
         /\ userState' = new /\ transitions' = tr
         /\ machine' = Updated(conf, m, tr, new)
         /\ losses' = losses \cup more
  BY DEF ProxyDone
<1>4. Past'
  BY <1>1 DEF ExactInv, Past
<1>5. ASSUME Exact' PROVE Accurate'
  <2>1. /\ Exact /\ links' = [links EXCEPT !.user = TRUE]
        /\ userState' = new /\ transitions' = tr /\ machine' = Updated(conf, m, tr, new)
        /\ tr # transitions => stepped = 0
    <3>1. CASE losses' = losses \cup {"start"}
      BY <1>5, <3>1 DEF Exact
    <3>2. CASE /\ links' = [links EXCEPT !.user = TRUE]
               /\ userState' = new /\ transitions' = tr
               /\ machine' = Updated(conf, m, tr, new)
               /\ losses' = losses \cup more
      <4> HIDE DEF more, tr, m, new
      <4>1. Exact /\ more \subseteq {"timer"}
        BY <1>5, <3>2, LosingExact
      <4>2. tr # transitions => stepped = 0
        BY <4>1 DEF LoseIf, more
      <4> QED BY <3>2, <4>1, <4>2
    <3> HIDE DEF more, tr, m, new
    <3> QED BY <1>3, <3>1, <3>2
  <2>2. ~Idle /\ machine.state # "DISABLED" /\ RemoveAt(starts, i) = <<>>
        /\ i = 1 /\ starts = <<starts[1]>>
    BY <1>1, <2>1, OnlyOneStarts
  <2>3. /\ Reads(transitions, userState)
        /\ Says(transitions, activeSecs, now - stepped, stepped)
        /\ StartExact /\ life = "up"
    BY <2>1, <2>2, RecordFacts
  <2>4. InOrder(transitions, now - stepped)
    BY <2>1, <2>2, ExactFacts
  <2>5. now \in Int /\ stepped \in Int /\ transitions \in Seq(TimedEntries)
        /\ userState \in {"ACTIVE", "INACTIVE"} /\ Parts \subseteq DOMAIN machine
    BY TypedFacts
  <2>6. Reads(tr, new) /\ Says(tr, activeSecs, now - stepped, stepped)
    <3>1. CASE new = userState
      BY <2>3, <3>1
    <3>2. CASE new # userState
      <4> DEFINE r == Append(transitions, Entry(new, now))
      <4>1. tr = r
        BY <3>2
      <4>2. r # transitions
        <5>1. Entry(new, now) \in TimedEntries
          BY <1>2, <2>5 DEF Entry, TimedEntries
        <5> DEFINE e == Entry(new, now)
        <5> HIDE DEF e
        <5>2. Len(Append(transitions, e)) = Len(transitions) + 1 /\ Len(transitions) \in Nat
          BY <2>5, <5>1 DEF e
        <5>3. Len(r) # Len(transitions)
          BY <5>2 DEF e
        <5> QED BY <5>3
      <4>3. stepped = 0 /\ now - stepped = now
        BY <2>1, <2>5, <4>1, <4>2
      <4>4. InOrder(transitions, now) /\ Says(transitions, activeSecs, now, 0)
        BY <2>3, <2>4, <4>3
      <4> HIDE DEF new
      <4>5. Reads(r, new) /\ Says(r, activeSecs, now, 0)
        BY <1>2, <2>3, <2>5, <3>2, <4>4, RecordsOn
      <4> HIDE DEF r
      <4> QED BY <4>1, <4>3, <4>5
    <3> QED BY <3>1, <3>2
  <2>7. RecordExact'
    <3> HIDE DEF tr, new, m
    <3> QED BY <1>1, <2>1, <2>6 DEF RecordExact
  <2>8. links.manager /\ links.sleep
    <3>1. starts # <<>> /\ starts[1] = "proxy"
      <4>1. <<starts[1]>> # <<>>
        OBVIOUS
      <4> QED BY <1>1, <2>2, <4>1
    <3> QED BY <2>3, <3>1 DEF StartExact
  <2>9. links'.manager /\ links'.sleep /\ links'.user
    <3>1. links' = [links EXCEPT !.user = TRUE]
      BY <2>1
    <3> QED BY <2>8, <3>1, TypedFacts DEF Links
  <2>10. starts' = <<>> /\ <<>> # <<"load">>
    BY <1>1, <2>2
  <2>11. StartExact'
    <3> HIDE DEF tr, m
    <3> QED BY Zenon, <1>1, <2>1, <2>9, <2>10 DEF StartExact, new
  <2>12. machine'.state # "DISABLED"
    <3>1. m.state # "DISABLED"
      <4> HIDE DEF tr, new
      <4> QED BY <2>2, <2>5, RecalculatedFacts
    <3> HIDE DEF tr, m, new
    <3> QED BY <2>1, <3>1, UpdatedFacts
  <2>13. ~Idle'
    BY Zenon, <2>10, <2>12 DEF Idle
  <2> QED BY <1>1, <2>3, <2>7, <2>11, <2>13 DEF Accurate
<1> QED BY <1>4, <1>5 DEF ExactInv

---------------------------------------------------------------------------

\* What the history says was active was, and nothing else: an inductive invariant
\* as long as nothing was lost.
THEOREM HistoryStaysExact == Spec => [](StoreInv /\ ExactInv)
<1>1. Init => ExactInv
  <2> SUFFICES ASSUME Init PROVE ExactInv
    OBVIOUS
  <2>1. /\ machine = Off /\ stepped = 0 /\ file = <<>> /\ activeSecs = {}
    BY DEF Init
  <2>2. machine.state = "DISABLED"
    BY <2>1 DEF Off
  <2>3. InOrder(<<>>, now) /\ Alternates(<<>>) /\ \A x : ~ActiveAt(<<>>, x)
    BY EmptyInOrder, NothingActive
  <2>4. Says(<<>>, {}, now, 0)
    BY <2>3 DEF Says
  <2>5. FileExact
    BY <2>1, <2>3, <2>4 DEF FileExact
  <2> QED BY <2>1, <2>2, <2>5 DEF ExactInv, Past, Accurate, Idle
<1>2. StoreInv /\ ExactInv /\ [Next]_vars => ExactInv'
  <2> SUFFICES ASSUME StoreInv, ExactInv, [Next]_vars PROVE ExactInv'
    OBVIOUS
  <2>1. ASSUME NEW i \in DOMAIN starts, LoadDone(i) PROVE ExactInv'
    BY <2>1, LoadDoneKeepsExact
  <2>2. ASSUME NEW i \in DOMAIN starts, InhibitDone(i) PROVE ExactInv'
    BY <2>2, InhibitDoneKeepsExact
  <2>3. ASSUME NEW i \in DOMAIN starts, ProxyDone(i) PROVE ExactInv'
    BY <2>3, ProxyDoneKeepsExact
  <2>4. CASE LoginChange \/ PrepareForSleep \/ WakeUp
    BY <2>4, LoginEventsKeepExact
  <2>5. CASE TimerFires
    BY <2>5, TimerKeepsExact
  <2>6. CASE ClockChanged
    BY <2>6, ClockChangedKeepsExact
  <2>7. CASE Tick
    BY <2>7, TickKeepsExact
  <2>8. CASE SleepTick
    BY <2>8, SleepTickKeepsExact
  <2>9. ASSUME NEW d \in ClockSteps, ClockStep(d) PROVE ExactInv'
    BY <2>9, ClockStepKeepsExact
  <2>10. CASE (\E cf \in Changed(conf) \ {conf} : SettingsChange(cf)) \/ Boot \/ Shutdown
    BY <2>10, LifeKeepsExact
  <2>11. CASE ExitAfterShutdown \/ Crash
    BY <2>11, ExitKeepsExact
  <2>12. CASE UNCHANGED vars
    <3>1. /\ UNCHANGED <<now, life, login, userState, transitions, file, links, starts, stepped, activeSecs>>
          /\ machine' = machine /\ losses' = losses
      BY <2>12 DEF vars, clockVars, envVars, recordVars, offsetVars
    <3> QED BY <3>1, MachineKeepsExact DEF Exact
  <2> QED
    BY Zenon, <2>1, <2>2, <2>3, <2>4, <2>5, <2>6, <2>7, <2>8, <2>9, <2>10, <2>11, <2>12 DEF Next
<1> QED BY <1>1, <1>2, HistoryStaysInOrder, PTL DEF Spec

\* The active seconds of today are those the history says.
LEMMA ActiveTodayIsSaid ==
  ASSUME StoreInv, ExactInv, Running, Exact
  PROVE  /\ now \in Int /\ transitions \in Seq(TimedEntries)
         /\ InOrder(transitions, now) /\ Alternates(transitions)
         /\ ActiveToday = Seconds(transitions, StartOfToday(now), now)
<1>1. ~Idle /\ stepped = 0
  <2>1. <<>> # <<"load">>
    OBVIOUS
  <2> QED BY <2>1 DEF Running, Idle
<1>2. now \in Int /\ transitions \in Seq(TimedEntries) /\ now - stepped = now
  BY <1>1, TypedFacts
<1>3. InOrder(transitions, now)
  BY <1>1, <1>2, ExactFacts
<1>4. Reads(transitions, userState) /\ Says(transitions, activeSecs, now, 0)
  BY <1>1, <1>2, RecordFacts
<1>5. /\ StartOfToday(now) \in Int /\ now - Threshold <= StartOfToday(now) /\ now - Threshold \in Int
  <2>1. \A k \in DOMAIN transitions : transitions[k].time <= now
    BY <1>3 DEF InOrder
  <2>2. now - Threshold <= StartOfToday(now) /\ now - Threshold \in Int
    BY <1>2, <2>1, KeptFacts
  <2>3. StartOfToday(now) \in Int
    BY <1>2, DayFacts
  <2> QED BY <2>2, <2>3
<1>6. \A x \in activeSecs : x \in Int
  BY DEF ExactInv, Past
<1>7. \A x \in StartOfToday(now) .. now - 1 : x \in activeSecs <=> ActiveAt(transitions, x)
  <2> SUFFICES ASSUME NEW x \in StartOfToday(now) .. now - 1
               PROVE  x \in activeSecs <=> ActiveAt(transitions, x)
    OBVIOUS
  <2>1. x \in Int /\ now - Threshold <= x /\ x < now /\ x + 0 = x
    BY <1>2, <1>5
  <2>2. x + 0 \in activeSecs <=> ActiveAt(transitions, x)
    BY <1>4, <2>1 DEF Says
  <2> QED BY <2>1, <2>2
<1>8. ActiveToday = Seconds(transitions, StartOfToday(now), now)
  <2>1. \A x : x \in ActiveToday <=> x \in activeSecs /\ x \in StartOfToday(now) .. now - 1
    BY <1>2, <1>5, <1>6 DEF ActiveToday
  <2> QED BY <1>7, <2>1 DEF Seconds
<1> QED BY <1>2, <1>3, <1>4, <1>8 DEF Reads

\* Through restarts of the shell, sleep, clock steps and the turn of the day, the
\* active time calculated from the transitions is the time the user was active
\* today, as long as nothing was lost (_calculateActiveTimeTodaySecs and all that
\* records, stores and loads the transitions).
THEOREM ActiveTimeIsAlwaysReal == Spec => []ActiveTimeIsReal
<1>1. StoreInv /\ ExactInv => ActiveTimeIsReal
  <2> SUFFICES ASSUME StoreInv, ExactInv, Running, Exact
               PROVE  ActiveTime(transitions, now) = Cardinality(ActiveToday)
    BY DEF ActiveTimeIsReal, Exact
  <2>1. /\ now \in Int /\ transitions \in Seq(TimedEntries)
        /\ InOrder(transitions, now) /\ Alternates(transitions)
        /\ ActiveToday = Seconds(transitions, StartOfToday(now), now)
    BY ActiveTodayIsSaid
  <2> QED BY <2>1, ActiveTimeCounts
<1> QED BY <1>1, HistoryStaysExact, PTL

---------------------------------------------------------------------------
(* The time the limit was reached.                                         *)

Below(S, b) == {x \in S : x < b}

\* Up to b fewer than `limit' seconds are in S, up to e at least as many; between
\* the two either all are or none.  Then the limit is reached by counting back
\* from e.
LEMMA CountingBack ==
  ASSUME NEW S \in SUBSET Int, IsFiniteSet(S), NEW b \in Int, NEW e \in Int, b <= e,
         NEW limit \in Nat,
         Cardinality(Below(S, b)) < limit, Cardinality(Below(S, e)) >= limit,
         (\A x \in b .. e - 1 : x \in S) \/ (\A x \in b .. e - 1 : x \notin S)
  PROVE  LET r == e - (Cardinality(Below(S, e)) - limit)
         IN  r - 1 \in S /\ Cardinality(Below(S, r)) = limit
<1> DEFINE L == Below(S, b)
           E == Below(S, e)
           r == e - (Cardinality(E) - limit)
<1>0. L \in SUBSET S /\ E \in SUBSET S
  BY DEF Below
<1>1. IsFiniteSet(L) /\ IsFiniteSet(E) /\ Cardinality(L) \in Nat /\ Cardinality(E) \in Nat
  <2> HIDE DEF L, E
  <2> QED BY <1>0, FS_Subset, FS_CardinalityType
<1>2. ASSUME NEW u \in Int, b <= u, \A x \in b .. u - 1 : x \in S
      PROVE  Cardinality(Below(S, u)) = Cardinality(L) + (u - b)
  <2> DEFINE I == b .. u - 1
  <2>1. IsFiniteSet(I) /\ Cardinality(I) = u - b
    <3>1. b \in Int /\ u - 1 \in Int
      BY <1>2
    <3>2. IsFiniteSet(I) /\ Cardinality(I) = IF b > u - 1 THEN 0 ELSE (u - 1) - b + 1
      BY <3>1, FS_Interval
    <3> QED BY <1>2, <3>2
  <2>2. L \cap I = {}
    BY DEF Below
  <2>3. Below(S, u) = L \cup I
    <3>1. \A x : x \in S /\ x < u => x \in L \cup I
      <4> SUFFICES ASSUME NEW x \in S, x < u PROVE x \in L \cup I
        OBVIOUS
      <4>1. x \in Int
        OBVIOUS
      <4> QED BY <1>2, <4>1 DEF Below
    <3>2. \A x : x \in L \cup I => x \in S /\ x < u
      <4> SUFFICES ASSUME NEW x \in L \cup I PROVE x \in S /\ x < u
        OBVIOUS
      <4>1. CASE x \in L
        BY <1>2, <4>1 DEF Below
      <4>2. CASE x \in I
        BY <1>2, <4>2
      <4> QED BY <4>1, <4>2
    <3> HIDE DEF L, I
    <3> QED BY <3>1, <3>2 DEF Below
  <2> HIDE DEF L, I
  <2>4. Cardinality(L \cup I) = Cardinality(L) + Cardinality(I)
    BY <1>1, <2>1, <2>2, DisjointCount
  <2> QED BY <2>1, <2>3, <2>4
<1>3. \A x \in b .. e - 1 : x \in S
  <2> SUFFICES ASSUME \A x \in b .. e - 1 : x \notin S PROVE FALSE
    OBVIOUS
  <2>1. E = L
    <3>1. \A x \in S : x < e <=> x < b
      <4> SUFFICES ASSUME NEW x \in S PROVE x < e <=> x < b
        OBVIOUS
      <4>1. x \in Int
        OBVIOUS
      <4> QED BY <4>1
    <3> QED BY <3>1 DEF Below
  <2> HIDE DEF L, E
  <2> QED BY <1>1, <2>1 DEF L, E
<1>4. Cardinality(E) = Cardinality(L) + (e - b)
  BY <1>2, <1>3
<1>5. Cardinality(L) < limit /\ Cardinality(E) >= limit
  OBVIOUS
<1> HIDE DEF L, E
<1>6. r \in Int /\ b < r /\ r <= e /\ Cardinality(L) + (r - b) = limit
  BY <1>1, <1>4, <1>5
<1> HIDE DEF r
<1>7. r - 1 \in S
  <2>1. r - 1 \in b .. e - 1
    BY <1>6
  <2> QED BY <1>3, <2>1
<1>8. Cardinality(Below(S, r)) = Cardinality(L) + (r - b)
  <2>1. \A x \in b .. r - 1 : x \in S
    <3>1. \A x \in b .. r - 1 : x \in b .. e - 1
      BY <1>6
    <3> QED BY <1>3, <3>1
  <2>2. b <= r
    BY <1>6
  <2> QED BY <1>2, <1>6, <2>1, <2>2
<1> QED BY <1>6, <1>7, <1>8 DEF r, E

\* The total up to a transition of the day is what was active before it.
LEMMA TotalIsBefore ==
  ASSUME NEW s \in Seq(TimedEntries), NEW t \in Int, InOrder(s, t), Alternates(s),
         NEW from \in Int, NEW k \in DOMAIN s
  PROVE  Total(s, from, k) = Cardinality(Below(Seconds(s, from, t), s[k].time))
<1> DEFINE B == Below(Seconds(s, from, t), s[k].time)
<1>1. DOMAIN s = 1 .. Len(s) /\ Len(s) \in Nat
      /\ \A j \in DOMAIN s : s[j].time \in Int /\ s[j].time <= t
  BY EntryFacts DEF InOrder
<1>2. Sorted(s)
  BY DEF InOrder
<1>3. ASSUME NEW x \in EndedBy(s, from, k) PROVE x \in B
  <2>1. x \in Int /\ from <= x
    BY DEF EndedBy
  <2>2. PICK i \in DOMAIN s : i <= k /\ NextAt(s, x, i) /\ s[i].new = "INACTIVE"
    BY DEF EndedBy
  <2>3. x < s[i].time /\ ActiveAt(s, x)
    BY <1>1, <2>1, <2>2 DEF NextAt, ActiveAt
  <2>4. s[i].time <= s[k].time
    <3>1. i = k \/ i < k
      BY <1>1, <2>2
    <3> QED BY <1>1, <1>2, <3>1 DEF Sorted
  <2>5. x \in from .. t - 1 /\ x < s[k].time
    BY <1>1, <2>1, <2>3, <2>4
  <2> QED BY <2>3, <2>5 DEF Seconds, Below
<1>4. ASSUME NEW x \in B PROVE x \in EndedBy(s, from, k)
  <2>1. x \in from .. t - 1 /\ ActiveAt(s, x) /\ x < s[k].time
    BY DEF Seconds, Below
  <2>2. x \in Int /\ from <= x
    BY <2>1
  <2>3. ~(s[k].time <= x)
    BY <1>1, <2>1, <2>2
  <2>4. PICK i \in DOMAIN s : NextAt(s, x, i) /\ s[i].new = "INACTIVE"
    BY <2>1, <2>3 DEF ActiveAt
  <2>5. i <= k
    <3>1. ~(k < i)
      BY <2>3, <2>4 DEF NextAt
    <3> QED BY <1>1, <3>1
  <2> QED BY <2>2, <2>4, <2>5 DEF EndedBy
<1>5. B = EndedBy(s, from, k)
  <2> HIDE DEF B
  <2> QED BY <1>3, <1>4
<1>6. Total(s, from, k) = Cardinality(EndedBy(s, from, k))
  BY <1>2, TotalIsEnded
<1> QED BY <1>5, <1>6

\* If no transition up to the h-th shows the limit to be passed, then it was not at
\* the beginning of the period after it, or of the day.
LEMMA PeriodBegins ==
  ASSUME NEW s \in Seq(TimedEntries), NEW t \in Int, InOrder(s, t), Alternates(s),
         NEW from \in Int, NEW h \in 0 .. Len(s), NEW limit \in Nat \ {0},
         \A j \in Today(s, from) : j <= h => ~(Total(s, from, j) >= limit)
  PROVE  \E b \in Int :
           /\ from <= b /\ \A j \in DOMAIN s : j <= h => s[j].time <= b
           /\ b = from \/ (h \in DOMAIN s /\ b = s[h].time)
           /\ Cardinality(Below(Seconds(s, from, t), b)) < limit
<1>1. DOMAIN s = 1 .. Len(s) /\ Len(s) \in Nat
      /\ \A j \in DOMAIN s : s[j].time \in Int /\ s[j].time <= t
  BY EntryFacts DEF InOrder
<1>2. Sorted(s)
  BY DEF InOrder
<1>3. CASE h \in DOMAIN s /\ s[h].time >= from
  <2> DEFINE B == Below(Seconds(s, from, t), s[h].time)
  <2>1. h \in Today(s, from)
    BY <1>1, <1>3 DEF Today
  <2>2. ~(Total(s, from, h) >= limit)
    BY <1>1, <2>1
  <2>3. Total(s, from, h) = Cardinality(B)
    BY <1>3, TotalIsBefore
  <2>4. IsFiniteSet(EndedBy(s, from, h)) /\ Total(s, from, h) = Cardinality(EndedBy(s, from, h))
    BY <1>2, TotalIsEnded
  <2>5. Total(s, from, h) \in Nat
    BY <2>4, FS_CardinalityType
  <2>6. Cardinality(B) < limit
    BY <2>2, <2>3, <2>5
  <2>7. \A j \in DOMAIN s : j <= h => s[j].time <= s[h].time
    <3> SUFFICES ASSUME NEW j \in DOMAIN s, j <= h PROVE s[j].time <= s[h].time
      OBVIOUS
    <3>1. j = h \/ j < h
      BY <1>1
    <3> QED BY <1>1, <1>2, <1>3, <3>1 DEF Sorted
  <2>8. s[h].time \in Int /\ from <= s[h].time
    BY <1>1, <1>3
  <2> HIDE DEF B
  <2> QED BY <1>3, <2>6, <2>7, <2>8 DEF B
<1>4. CASE ~(h \in DOMAIN s /\ s[h].time >= from)
  <2>1. \A j \in DOMAIN s : j <= h => s[j].time <= from
    <3> SUFFICES ASSUME NEW j \in DOMAIN s, j <= h PROVE s[j].time <= from
      OBVIOUS
    <3>1. h \in DOMAIN s
      BY <1>1
    <3>2. s[h].time < from
      BY <1>1, <1>4, <3>1
    <3>3. j = h \/ j < h
      BY <1>1
    <3>4. s[j].time <= s[h].time
      BY <1>1, <1>2, <3>1, <3>3 DEF Sorted
    <3> QED BY <1>1, <3>1, <3>2, <3>4
  <2>2. Below(Seconds(s, from, t), from) = {}
    <3>1. \A x \in Seconds(s, from, t) : ~(x < from)
      BY <1>1 DEF Seconds
    <3> QED BY <3>1 DEF Below
  <2>3. Cardinality(Below(Seconds(s, from, t), from)) < limit
    BY <2>2, FS_EmptySet
  <2>4. from <= from
    OBVIOUS
  <2> QED BY <2>1, <2>3, <2>4
<1> QED BY <1>3, <1>4

\* _calculateDailyLimitReachedAtSecs: the active second that used the limit up, and
\* the ones before it, are as many as the limit allows.
LEMMA ReachedAtCounts ==
  ASSUME NEW s \in Seq(TimedEntries), NEW t \in Int, InOrder(s, t), Alternates(s),
         NEW limit \in Nat \ {0},
         Cardinality(Seconds(s, StartOfToday(t), t)) >= limit
  PROVE  LET r == ReachedAt(s, t, limit)
             S == Seconds(s, StartOfToday(t), t)
         IN  r - 1 \in S /\ Cardinality(Below(S, r)) = limit
<1> DEFINE from == StartOfToday(t)
           S == Seconds(s, from, t)
           hits == {k \in Today(s, from) : Total(s, from, k) >= limit}
           n == Len(s)
<1>1. DOMAIN s = 1 .. n /\ n \in Nat /\ \A j \in DOMAIN s : s[j].time \in Int /\ s[j].time <= t
  BY EntryFacts DEF InOrder
<1>2. from \in Int /\ from <= t
  BY DayFacts
<1>3. IsFiniteSet(S) /\ ActiveTime(s, t) = Cardinality(S) /\ Cardinality(S) \in Nat
  <2>1. IsFiniteSet(S) /\ ActiveTime(s, t) = Cardinality(S)
    BY ActiveTimeCounts
  <2> QED BY <2>1, FS_CardinalityType
<1>4. ReachedAt(s, t, limit) =
        IF hits # {}
        THEN s[Min(hits)].time - (Total(s, from, Min(hits)) - limit)
        ELSE t - (ActiveTime(s, t) - limit)
  <2>1. ActiveTime(s, t) >= limit
    BY <1>3
  <2> QED BY <2>1 DEF ReachedAt
<1>5. hits \in SUBSET (1 .. n)
  BY <1>1 DEF Today
<1>a. Cardinality(S) >= limit
  OBVIOUS
<1> HIDE DEF from, hits
<1>6. S \in SUBSET Int
  BY <1>1, <1>2 DEF Seconds
<1>7. \A j \in DOMAIN s : j \in Today(s, from) <=> \E i \in DOMAIN s : i <= j /\ s[i].time >= from
  BY DEF Today
<1>8. CASE hits # {}
  <2> DEFINE k == Min(hits)
             h == k - 1
             e == s[k].time
  <2>1. k \in hits /\ \A i \in hits : k <= i
    BY <1>1, <1>5, <1>8, EndsOfIndices
  <2> HIDE DEF k
  <2>2. k \in DOMAIN s /\ k \in Int /\ Total(s, from, k) >= limit /\ e \in Int /\ e <= t
    BY <1>1, <1>5, <2>1 DEF hits
  <2>3. h \in 0 .. n /\ \A j \in Today(s, from) : j <= h => ~(Total(s, from, j) >= limit)
    <3>1. h \in 0 .. n
      BY <1>1, <1>5, <2>1, <2>2
    <3>2. ASSUME NEW j \in Today(s, from), j <= h, Total(s, from, j) >= limit PROVE FALSE
      <4>1. j \in hits /\ j \in Int
        BY <1>1, <3>2 DEF hits, Today
      <4>2. k <= j
        BY <2>1, <4>1
      <4> QED BY <2>2, <3>2, <4>1, <4>2
    <3> QED BY <3>1, <3>2
  <2> HIDE DEF h
  <2>4. \E b \in Int :
           /\ from <= b /\ \A j \in DOMAIN s : j <= h => s[j].time <= b
           /\ b = from \/ (h \in DOMAIN s /\ b = s[h].time)
           /\ Cardinality(Below(Seconds(s, from, t), b)) < limit
    BY <1>2, <2>3, PeriodBegins
  <2>5. PICK b \in Int :
           /\ from <= b /\ \A j \in DOMAIN s : j <= h => s[j].time <= b
           /\ b = from \/ (h \in DOMAIN s /\ b = s[h].time)
           /\ Cardinality(Below(S, b)) < limit
    BY <2>4
  <2>6. b <= e
    <3>1. CASE b = from
      <4>1. k \in Today(s, from)
        BY <2>1 DEF hits
      <4>2. PICK i \in DOMAIN s : i <= k /\ s[i].time >= from
        BY <1>7, <2>2, <4>1
      <4>3. s[i].time <= s[k].time
        <5>1. i = k \/ i < k
          BY <1>1, <2>2, <4>2
        <5> QED BY <1>1, <2>2, <5>1 DEF InOrder, Sorted
      <4> QED BY <1>1, <1>2, <2>2, <3>1, <4>2, <4>3
    <3>2. CASE h \in DOMAIN s /\ b = s[h].time
      <4>1. h < k
        BY <2>2 DEF h
      <4> QED BY <2>2, <3>2, <4>1 DEF InOrder, Sorted
    <3> QED BY <2>5, <3>1, <3>2
  <2>7. Total(s, from, k) = Cardinality(Below(S, e))
    BY <1>2, <2>2, TotalIsBefore
  <2>8. \A x \in b .. e - 1 : x \in S <=> s[k].new = "INACTIVE"
    <3> SUFFICES ASSUME NEW x \in b .. e - 1 PROVE x \in S <=> s[k].new = "INACTIVE"
      OBVIOUS
    <3>1. x \in Int /\ b <= x /\ x < e
      BY <2>2
    <3>2. x \in from .. t - 1
      BY <1>2, <2>2, <2>5, <3>1
    <3>3. \A j \in DOMAIN s : j < k => s[j].time <= x
      <4> SUFFICES ASSUME NEW j \in DOMAIN s, j < k PROVE s[j].time <= x
        OBVIOUS
      <4>1. j <= h
        BY <1>1, <2>2 DEF h
      <4>2. s[j].time <= b /\ s[j].time \in Int
        BY <1>1, <2>5, <4>1
      <4> QED BY <3>1, <4>2
    <3>4. NextAt(s, x, k)
      BY <2>2, <3>1, <3>3 DEF NextAt
    <3>5. ~(s[k].time <= x)
      BY <2>2, <3>1
    <3>6. \A i \in DOMAIN s : NextAt(s, x, i) => i = k
      <4> SUFFICES ASSUME NEW i \in DOMAIN s, NextAt(s, x, i) PROVE i = k
        OBVIOUS
      <4>1. ~(k < i)
        BY <2>2, <3>5 DEF NextAt
      <4>2. ~(i < k)
        <5>1. ~(s[i].time <= x)
          BY <1>1, <3>1 DEF NextAt
        <5> QED BY <3>3, <5>1
      <4> QED BY <1>1, <2>2, <4>1, <4>2
    <3>7. ActiveAt(s, x) <=> s[k].new = "INACTIVE"
      BY <2>2, <3>4, <3>5, <3>6 DEF ActiveAt
    <3> QED BY <3>2, <3>7 DEF Seconds
  <2> HIDE DEF S
  <2>9. LET r == e - (Cardinality(Below(S, e)) - limit)
        IN  r - 1 \in S /\ Cardinality(Below(S, r)) = limit
    <3>1. (\A x \in b .. e - 1 : x \in S) \/ (\A x \in b .. e - 1 : x \notin S)
      BY <2>8
    <3>2. Cardinality(Below(S, e)) >= limit
      BY <2>2, <2>7
    <3>3. Cardinality(Below(S, b)) < limit
      BY <2>5 DEF S
    <3>4. e \in Int
      BY <2>2
    <3> HIDE DEF e
    <3> QED BY <1>3, <1>6, <2>6, <3>1, <3>2, <3>3, <3>4, CountingBack
  <2>10. ReachedAt(s, t, limit) = e - (Cardinality(Below(S, e)) - limit)
    BY <1>4, <1>8, <2>7 DEF k
  <2> QED BY <2>9, <2>10 DEF S, from
<1>9. CASE hits = {}
  <2>1. \A j \in Today(s, from) : j <= n => ~(Total(s, from, j) >= limit)
    BY <1>9 DEF hits
  <2>2. n \in 0 .. n
    BY <1>1
  <2>3. \E b \in Int :
           /\ from <= b /\ \A j \in DOMAIN s : j <= n => s[j].time <= b
           /\ b = from \/ (n \in DOMAIN s /\ b = s[n].time)
           /\ Cardinality(Below(Seconds(s, from, t), b)) < limit
    BY <1>2, <2>1, <2>2, PeriodBegins
  <2>4. PICK b \in Int :
           /\ from <= b /\ \A j \in DOMAIN s : j <= n => s[j].time <= b
           /\ b = from \/ (n \in DOMAIN s /\ b = s[n].time)
           /\ Cardinality(Below(S, b)) < limit
    BY <2>3
  <2>5. b <= t
    BY <1>1, <1>2, <2>4
  <2>6. \A x \in b .. t - 1 : x \in S <=> s # <<>> /\ s[n].new = "ACTIVE"
    <3> SUFFICES ASSUME NEW x \in b .. t - 1
                 PROVE  x \in S <=> s # <<>> /\ s[n].new = "ACTIVE"
      OBVIOUS
    <3>1. x \in Int /\ b <= x /\ x \in from .. t - 1
      BY <1>2, <2>4
    <3>2. \A i \in DOMAIN s : s[i].time <= x
      <4> SUFFICES ASSUME NEW i \in DOMAIN s PROVE s[i].time <= x
        OBVIOUS
      <4>1. i <= n /\ s[i].time \in Int
        BY <1>1
      <4>2. s[i].time <= b
        BY <2>4, <4>1
      <4> QED BY <3>1, <4>1, <4>2
    <3>3. ActiveAt(s, x) <=> s # <<>> /\ s[n].new = "ACTIVE"
      BY <3>1, <3>2, ActiveNow
    <3> QED BY <3>1, <3>3 DEF Seconds
  <2>7. Below(S, t) = S
    <3>1. \A x \in S : x < t
      BY <1>2 DEF Seconds
    <3> QED BY <3>1 DEF Below
  <2> HIDE DEF S
  <2>8. LET r == t - (Cardinality(Below(S, t)) - limit)
        IN  r - 1 \in S /\ Cardinality(Below(S, r)) = limit
    <3>1. (\A x \in b .. t - 1 : x \in S) \/ (\A x \in b .. t - 1 : x \notin S)
      BY <2>6
    <3>2. Cardinality(Below(S, t)) >= limit
      BY <1>a, <2>7 DEF S
    <3>3. Cardinality(Below(S, b)) < limit
      BY <2>4 DEF S
    <3> QED BY <1>3, <1>6, <2>5, <3>1, <3>2, <3>3, CountingBack
  <2>9. ReachedAt(s, t, limit) = t - (Cardinality(Below(S, t)) - limit)
    BY <1>3, <1>4, <1>9, <2>7
  <2> QED BY <2>8, <2>9 DEF S, from
<1> QED BY <1>8, <1>9

\* The time dailyLimitTime gives once the limit is reached is the end of the second
\* in which the user's active time came up to the limit, as long as nothing was
\* lost (_calculateDailyLimitReachedAtSecs).
THEOREM ReachedAtIsAlwaysReal == Spec => []ReachedAtIsReal
<1>1. StoreInv /\ TimerInv /\ ExactInv => ReachedAtIsReal
  <2> SUFFICES ASSUME StoreInv, TimerInv, ExactInv, Running, Exact,
                      Cardinality(ActiveToday) >= conf.limit
               PROVE  LET r == ReachedAt(transitions, now, conf.limit)
                      IN  /\ r - 1 \in ActiveToday
                          /\ Cardinality({s \in ActiveToday : s < r}) = conf.limit
    BY DEF ReachedAtIsReal, Exact
  <2>1. /\ now \in Int /\ transitions \in Seq(TimedEntries)
        /\ InOrder(transitions, now) /\ Alternates(transitions)
        /\ ActiveToday = Seconds(transitions, StartOfToday(now), now)
    BY ActiveTodayIsSaid
  <2>2. conf.limit \in Nat \ {0}
    BY TimeLimitsAssumption DEF TimerInv, AtRest, Settings
  <2> QED BY <2>1, <2>2, ReachedAtCounts DEF Below
<1> QED BY <1>1, HistoryStaysExact, TimerStaysSet, PTL

---------------------------------------------------------------------------
(* The state of the machine.                                               *)

States == {"DISABLED", "ACTIVE", "LIMIT_REACHED"}

UsedUp(cf, tr, t) == cf.limitOn /\ ActiveTime(tr, t) >= cf.limit

\* For a user who is inactive, the limit that is used up was noticed before.  One
\* who is active is let off when the limit is no longer used up, at the latest by
\* the timer of the next day.
Limited(cf, m, tr, us, t) ==
  /\ us = "INACTIVE" /\ UsedUp(cf, tr, t) => m.state = "LIMIT_REACHED"
  /\ us = "ACTIVE" /\ m.state = "LIMIT_REACHED" =>
       \/ m.timer = 0
       \/ UsedUp(cf, tr, t) /\ m.timer \in 1 .. StartOfTomorrow(t) - t

LimitInv ==
  /\ machine.state \in States
  /\ losses = {} /\ starts = <<>> /\ machine.state # "DISABLED" =>
       Limited(conf, machine, transitions, userState, now - stepped)

\* Nothing is found again by losing more.
LEMMA LosingNothing ==
  ASSUME NEW more, losses' = losses \cup more, losses' = {}
  PROVE  losses = {} /\ more = {}
OBVIOUS

\* The limits are positive numbers.
LEMMA LimitTyped ==
  ASSUME NEW cf \in Settings
  PROVE  cf.limit \in Nat \ {0} /\ cf.limitOn \in BOOLEAN
<1>1. cf.limit \in Limits /\ cf.limitOn \in BOOLEAN
  BY DEF Settings
<1> QED BY <1>1, TimeLimitsAssumption

\* _updateState leaves the machine as the limit wants it.
LEMMA UpdatedIsLimited ==
  ASSUME NEW cf \in Settings, NEW m, m.state \in States, NEW s \in Seq(TimedEntries),
         NEW us \in {"ACTIVE", "INACTIVE"}, now \in Int
  PROVE  LET u == Updated(cf, m, s, us)
         IN  u.state \in States /\ Limited(cf, u, s, us, now)
<1> DEFINE left == cf.limit - ActiveTime(s, now)
           reached == cf.limitOn /\ left <= 0
           u == Updated(cf, m, s, us)
<1>1. cf.limit \in Nat \ {0} /\ ActiveTime(s, now) \in Nat
  BY LimitTyped, ActiveTimeFacts
<1>2. reached <=> UsedUp(cf, s, now)
  BY <1>1 DEF UsedUp
<1>3. u.state = NewState(m, us, reached) /\ u.timer = NewTimer(m, us, reached, cf.limitOn, left)
  BY DEF Updated
<1> HIDE DEF u, reached, left
<1>4. u.state \in States
  BY <1>3 DEF NewState, States
<1>5. reached => u.state = "LIMIT_REACHED" /\ u.timer = StartOfTomorrow(now) - now
  BY <1>3 DEF NewState, NewTimer
<1>6. ~reached /\ us = "ACTIVE" => u.state = "ACTIVE"
  BY <1>3 DEF NewState
<1>7. StartOfTomorrow(now) - now \in 1 .. StartOfTomorrow(now) - now
  <2>1. StartOfTomorrow(now) \in Int /\ now < StartOfTomorrow(now)
    BY DayFacts
  <2> QED BY <2>1
<1>8. Limited(cf, u, s, us, now)
  BY <1>2, <1>5, <1>6, <1>7 DEF Limited
<1> QED BY <1>4, <1>8 DEF u

\* Trimming leaves the active time as it is.
LEMMA TrimKeepsActiveTime ==
  ASSUME NEW s \in Seq(TimedEntries), NEW t \in Int, InOrder(s, t), Alternates(s),
         Cancelling(Pick(s, KeptAt(s, t))) = {}
  PROVE  ActiveTime(Trim(s, t), t) = ActiveTime(s, t)
<1> DEFINE r == Trim(s, t)
           from == StartOfToday(t)
<1>1. /\ r \in Seq(TimedEntries) /\ InOrder(r, t) /\ Alternates(r)
      /\ \A x \in Int : x >= t - Threshold => (ActiveAt(r, x) <=> ActiveAt(s, x))
  BY TrimKeepsSeconds
<1> HIDE DEF r
<1>2. from \in Int /\ t - Threshold <= from /\ t - Threshold \in Int
  <2>1. \A k \in DOMAIN s : s[k].time <= t
    BY DEF InOrder
  <2>2. t - Threshold <= from /\ t - Threshold \in Int
    BY <2>1, KeptFacts
  <2>3. from \in Int
    BY DayFacts
  <2> QED BY <2>2, <2>3
<1>3. ActiveTime(r, t) = Cardinality(Seconds(r, from, t))
  BY <1>1, ActiveTimeCounts
<1>4. ActiveTime(s, t) = Cardinality(Seconds(s, from, t))
  BY ActiveTimeCounts
<1> HIDE DEF from
<1>5. Seconds(r, from, t) = Seconds(s, from, t)
  <2>1. \A x \in from .. t - 1 : x \in Int /\ x >= t - Threshold
    BY <1>2
  <2> QED BY <1>1, <2>1 DEF Seconds
<1> QED BY <1>3, <1>4, <1>5 DEF r

\* A second adds nothing for a user who is inactive; nor, within the day, does it
\* take anything away.
LEMMA NextSecond ==
  ASSUME NEW s \in Seq(TimedEntries), NEW t \in Int, InOrder(s, t), Alternates(s)
  PROVE  /\ s[Len(s)].new = "INACTIVE" => ActiveTime(s, t + 1) <= ActiveTime(s, t)
         /\ StartOfToday(t + 1) = StartOfToday(t) => ActiveTime(s, t) <= ActiveTime(s, t + 1)
<1> DEFINE u == t + 1
           A == Seconds(s, StartOfToday(t), t)
           B == Seconds(s, StartOfToday(u), u)
<1>1. u \in Int /\ t <= u
  OBVIOUS
<1>2. /\ StartOfToday(t) \in Int /\ StartOfToday(u) \in Int
      /\ StartOfToday(u) = StartOfToday(t) \/ StartOfToday(u) = u
  BY <1>1, DayFacts
<1> HIDE DEF u
<1>3. InOrder(s, u)
  BY <1>1, LaterInOrder
<1>4. IsFiniteSet(A) /\ ActiveTime(s, t) = Cardinality(A)
  BY ActiveTimeCounts
<1>5. IsFiniteSet(B) /\ ActiveTime(s, u) = Cardinality(B)
  BY <1>1, <1>3, ActiveTimeCounts
<1>6. ASSUME s[Len(s)].new = "INACTIVE" PROVE B \subseteq A
  <2> SUFFICES ASSUME NEW x \in B PROVE x \in A
    OBVIOUS
  <2>1. x \in Int /\ StartOfToday(u) <= x /\ x <= t /\ ActiveAt(s, x)
    BY <1>1, <1>2 DEF Seconds, u
  <2>2. x # t
    <3> SUFFICES ASSUME x = t PROVE FALSE
      OBVIOUS
    <3>1. ActiveAt(s, x) <=> s # <<>> /\ s[Len(s)].new = "ACTIVE"
      BY ActiveNow DEF InOrder
    <3> QED BY <1>6, <2>1, <3>1
  <2>3. StartOfToday(u) = StartOfToday(t)
    BY <1>1, <1>2, <2>1 DEF u
  <2>4. x \in StartOfToday(t) .. t - 1
    BY <1>2, <2>1, <2>2, <2>3
  <2> QED BY <2>1, <2>4 DEF Seconds
<1>7. ASSUME StartOfToday(u) = StartOfToday(t) PROVE A \subseteq B
  <2> SUFFICES ASSUME NEW x \in A PROVE x \in B
    OBVIOUS
  <2>1. x \in StartOfToday(t) .. t - 1 /\ ActiveAt(s, x)
    BY DEF Seconds
  <2>2. x \in StartOfToday(u) .. u - 1
    BY <1>2, <1>7, <2>1 DEF u
  <2> QED BY <2>1, <2>2 DEF Seconds
<1> HIDE DEF A, B
<1>8. B \subseteq A => Cardinality(B) <= Cardinality(A)
  BY <1>4, FS_Subset
<1>9. A \subseteq B => Cardinality(A) <= Cardinality(B)
  BY <1>5, FS_Subset
<1> QED BY <1>4, <1>5, <1>6, <1>7, <1>8, <1>9 DEF u

\* What the invariants say of a machine that runs and has lost nothing.
LEMMA LosslessFacts ==
  ASSUME StoreInv, TimerInv, ExactInv, losses = {}
  PROVE  /\ Exact /\ conf \in Settings /\ now - stepped \in Int
         /\ links.user \/ links.source => ~Idle
         /\ ~Idle => /\ InOrder(transitions, now - stepped) /\ machine.state # "DISABLED"
                     /\ Reads(transitions, userState)
                     /\ Says(transitions, activeSecs, now - stepped, stepped) /\ StartExact
<1>1. Exact
  BY DEF Exact
<1>2. conf \in Settings
  BY DEF TimerInv, AtRest
<1>3. /\ now - stepped \in Int /\ (Idle => ~links.source /\ ~links.user)
      /\ ~Idle => InOrder(transitions, now - stepped) /\ machine.state # "DISABLED"
  BY <1>1, ExactFacts
<1>4. ~Idle => /\ Reads(transitions, userState)
               /\ Says(transitions, activeSecs, now - stepped, stepped) /\ StartExact
  BY <1>1, RecordFacts
<1> QED BY <1>1, <1>2, <1>3, <1>4

\* Nothing that matters changes.
LEMMA SameLimited ==
  ASSUME LimitInv, losses' = {} => losses = {} /\ now' - stepped' = now - stepped,
         UNCHANGED <<machine, conf, transitions, userState, starts>>
  PROVE  LimitInv'
BY DEF LimitInv, Limited, UsedUp

\* A stopped machine, or one that is starting, enforces no limit.
LEMMA NotLimitedYet ==
  ASSUME machine'.state \in States,
         losses' = {} => machine'.state = "DISABLED" \/ starts' # <<>>
  PROVE  LimitInv'
BY DEF LimitInv

\* The machine is brought up to date.
LEMMA UpdatedKeepsLimit ==
  ASSUME StoreInv, NEW m, m.state \in States, conf' \in Settings,
         transitions' \in Seq(TimedEntries), userState' \in {"ACTIVE", "INACTIVE"},
         machine' = Updated(conf', m, transitions', userState'), now' = now,
         losses' = {} => stepped' = 0
  PROVE  LimitInv'
<1>1. now \in Int
  BY TypedFacts
<1>2. /\ machine'.state \in States
      /\ Limited(conf', machine', transitions', userState', now)
  BY <1>1, UpdatedIsLimited
<1>3. losses' = {} => now' - stepped' = now
  BY <1>1
<1> QED BY <1>2, <1>3 DEF LimitInv, Limited, UsedUp

\* _updateUserState
LEMMA UserStateKeepsLimit ==
  ASSUME StoreInv, TimerInv, ExactInv, LimitInv, NEW lg, NEW lost, UpdateUserState(lg, lost),
         UNCHANGED <<now, conf, starts>>,
         stepped' = stepped \/ (stepped' = 0 /\ lost = LoseIf(stepped # 0, "clock"))
  PROVE  LimitInv'
<1> DEFINE new == Calculate(lg)
           tr == Append(transitions, Entry(new, now))
           kept == Trim(tr, now)
<1>1. new \in {"ACTIVE", "INACTIVE"}
  BY DEF Calculate
<1>2. now \in Int /\ transitions \in Seq(TimedEntries) /\ conf \in Settings
      /\ userState \in {"ACTIVE", "INACTIVE"} /\ machine.state \in States
  BY TypedFacts DEF LimitInv, TimerInv, AtRest
<1>3. CASE UNCHANGED <<userState, machine, transitions, file>> /\ losses' = losses \cup lost
  <2>1. losses' = {} => losses = {} /\ lost = {}
    BY <1>3, LosingNothing
  <2>2. lost = {} => stepped' = stepped
    BY DEF LoseIf
  <2> QED BY <1>3, <2>1, <2>2, SameLimited
<1>4. CASE /\ links.user /\ new # userState
           /\ userState' = new
           /\ machine' = Recalculated(machine, tr, new)
           /\ transitions' = kept
           /\ losses' = losses \cup (lost \cup StoreLoses(tr) \cup LoseIf(stepped # 0, "clock"))
  <2>1. tr \in Seq(TimedEntries)
    BY <1>1, <1>2, AppendTyped
  <2>2. Updated(conf, machine, tr, new).state \in States /\ Limited(conf, Updated(conf, machine, tr, new), tr, new, now)
    <3> HIDE DEF tr, new
    <3> QED BY <1>1, <1>2, <2>1, UpdatedIsLimited
  <2>3. machine'.state \in States
    <3> HIDE DEF tr, new
    <3> QED BY <1>2, <1>4, <2>2 DEF Recalculated
  <2>4. ASSUME losses' = {} PROVE Limited(conf, machine', kept, new, now) /\ now' - stepped' = now
    <3>1. losses = {} /\ stepped = 0 /\ Cancelling(Pick(tr, KeptAt(tr, now))) = {}
      <4> HIDE DEF tr, kept, new
      <4> DEFINE more == lost \cup StoreLoses(tr) \cup LoseIf(stepped # 0, "clock")
      <4>1. losses = {} /\ more = {}
        BY <1>4, <2>4, LosingNothing
      <4>2. stepped = 0
        BY <4>1 DEF LoseIf
      <4>3. Cancelling(Pick(tr, KeptAt(tr, now))) = {}
        BY <4>1 DEF LoseIf, StoreLoses
      <4> QED BY <4>1, <4>2, <4>3
    <3>2. /\ InOrder(transitions, now - stepped) /\ machine.state # "DISABLED"
          /\ Reads(transitions, userState)
          /\ Says(transitions, activeSecs, now - stepped, stepped)
      BY <1>4, <3>1, LosslessFacts
    <3>3. now - stepped = now /\ now' - stepped' = now
      BY <1>2, <3>1
    <3>4. InOrder(tr, now) /\ Reads(tr, new)
      <4>1. InOrder(transitions, now) /\ Says(transitions, activeSecs, now, 0)
        BY <3>1, <3>2, <3>3
      <4> HIDE DEF new
      <4> QED BY <1>1, <1>2, <1>4, <3>2, <4>1, RecordsOn
    <3> HIDE DEF tr, new
    <3>5. ActiveTime(kept, now) = ActiveTime(tr, now)
      <4>1. Alternates(tr)
        BY <3>4 DEF Reads
      <4> QED BY <1>2, <2>1, <3>1, <3>4, <4>1, TrimKeepsActiveTime
    <3>6. machine' = Updated(conf, machine, tr, new)
      BY <1>4, <3>2 DEF Recalculated
    <3> HIDE DEF kept
    <3> QED BY <2>2, <3>3, <3>5, <3>6 DEF Limited, UsedUp
  <2> HIDE DEF kept, new
  <2> QED BY <1>4, <2>3, <2>4 DEF LimitInv, Limited, UsedUp
<1>5. (losses \cup lost \cup StoreLoses(tr) \cup LoseIf(stepped # 0, "clock"))
        = losses \cup (lost \cup StoreLoses(tr) \cup LoseIf(stepped # 0, "clock"))
  OBVIOUS
<1>6. IF /\ links.user
         /\ lg.active => links.manager
         /\ new # userState
      THEN /\ userState' = new
           /\ machine' = Recalculated(machine, tr, new)
           /\ transitions' = kept
           /\ Write(kept)
           /\ losses' = losses \cup lost \cup StoreLoses(tr) \cup LoseIf(stepped # 0, "clock")
      ELSE /\ losses' = losses \cup lost
           /\ UNCHANGED <<userState, machine, transitions, file>>
  BY DEF UpdateUserState
<1> HIDE DEF new, kept, tr
<1> QED BY <1>3, <1>4, <1>5, <1>6

\* logind tells of activity, of sleep and of its end.
LEMMA LoginEventsKeepLimit ==
  ASSUME StoreInv, TimerInv, ExactInv, LimitInv, LoginChange \/ PrepareForSleep \/ WakeUp
  PROVE  LimitInv'
<1>0. UNCHANGED <<now, conf, starts>>
  BY DEF LoginChange, PrepareForSleep, WakeUp, clockVars
<1>1. CASE LoginChange
  <2>1. UpdateUserState(login', {}) /\ stepped' = stepped
    BY <1>1 DEF LoginChange
  <2> QED BY <1>0, <2>1, UserStateKeepsLimit
<1>2. CASE PrepareForSleep
  <2>1. stepped' = stepped
    BY <1>2 DEF PrepareForSleep
  <2>2. CASE UpdateUserState(login', {})
    BY <1>0, <2>1, <2>2, UserStateKeepsLimit
  <2>3. CASE UNCHANGED <<machine, recordVars, losses>>
    BY <1>0, <2>1, <2>3, SameLimited DEF recordVars
  <2> QED BY <1>2, <2>2, <2>3 DEF PrepareForSleep
<1>3. CASE WakeUp
  <2> DEFINE lost == LoseIf(stepped # 0, "clock")
  <2>1. CASE UpdateUserState(login', lost) /\ stepped' = 0
    BY <1>0, <2>1, UserStateKeepsLimit
  <2>2. CASE UNCHANGED <<machine, recordVars, losses, stepped>>
    BY <1>0, <2>2, SameLimited DEF recordVars
  <2> QED BY <1>3, <2>1, <2>2 DEF WakeUp
<1> QED BY <1>1, <1>2, <1>3

\* A machine that has started has a history that ends with the user's state.
LEMMA StartedFacts ==
  ASSUME StoreInv, TimerInv, ExactInv, losses = {}, starts = <<>>, machine.state # "DISABLED"
  PROVE  /\ ~Idle /\ conf \in Settings /\ now - stepped \in Int
         /\ transitions \in Seq(TimedEntries) /\ InOrder(transitions, now - stepped)
         /\ Reads(transitions, userState) /\ Alternates(transitions)
         /\ transitions # <<>> /\ transitions[Len(transitions)].new = userState
         /\ links.user /\ links.sleep /\ userState = Calculate(login)
<1>1. ~Idle
  <2>1. <<>> # <<"load">>
    OBVIOUS
  <2> QED BY <2>1 DEF Idle
<1>2. /\ conf \in Settings /\ now - stepped \in Int
      /\ InOrder(transitions, now - stepped)
      /\ Reads(transitions, userState) /\ StartExact
  BY <1>1, LosslessFacts
<1>3. links.user /\ links.sleep /\ userState = Calculate(login)
  BY <1>2 DEF StartExact
<1>4. transitions # <<>> /\ Alternates(transitions) /\ transitions[Len(transitions)].new = userState
  BY <1>2 DEF Reads
<1> QED BY <1>1, <1>2, <1>3, <1>4, TypedFacts

\* What is compared with the limit, now and a second later.
LEMMA LimitCounts ==
  ASSUME NEW cf \in Settings, NEW s \in Seq(TimedEntries), NEW t \in Int
  PROVE  cf.limit \in Nat /\ ActiveTime(s, t) \in Nat /\ ActiveTime(s, t + 1) \in Nat
<1>1. cf.limit \in Nat
  BY LimitTyped
<1>2. ActiveTime(s, t) \in Nat
  BY ActiveTimeFacts
<1>3. t + 1 \in Int
  OBVIOUS
<1>4. ActiveTime(s, t + 1) \in Nat
  BY <1>3, ActiveTimeFacts
<1> QED BY <1>1, <1>2, <1>4

\* A second passes: the timer of the next day is due when that day begins.
LEMMA TickKeepsLimit ==
  ASSUME StoreInv, TimerInv, ExactInv, LimitInv, Tick
  PROVE  LimitInv'
<1>1. PICK w : /\ machine' = [machine EXCEPT !.timer = w]
               /\ machine.timer # NoTimer => w = machine.timer - 1
  BY DEF Tick
<1>2. machine'.state = machine.state /\ machine'.timer = w
  BY <1>1, TypedFacts DEF Parts
<1>3. /\ now' = now + 1 /\ machine.timer # 0
      /\ UNCHANGED <<conf, userState, transitions, starts, stepped, losses>>
  BY DEF Tick, envVars, recordVars
<1>4. ASSUME losses = {}, starts = <<>>, machine.state # "DISABLED"
      PROVE  Limited(conf, machine', transitions, userState, now' - stepped')
  <2> DEFINE t == now - stepped
             later == StartOfTomorrow(t)
  <2>1. /\ conf \in Settings /\ t \in Int
        /\ transitions \in Seq(TimedEntries) /\ InOrder(transitions, t)
        /\ Alternates(transitions) /\ transitions[Len(transitions)].new = userState
    BY <1>4, StartedFacts
  <2>2. Limited(conf, machine, transitions, userState, t)
    BY <1>4 DEF LimitInv
  <2>3. now' - stepped' = t + 1
    BY <1>3, TypedFacts
  <2> HIDE DEF t
  <2>4. /\ userState = "INACTIVE" => ActiveTime(transitions, t + 1) <= ActiveTime(transitions, t)
        /\ StartOfToday(t + 1) = StartOfToday(t) =>
             ActiveTime(transitions, t) <= ActiveTime(transitions, t + 1)
    BY <2>1, NextSecond
  <2>5. conf.limit \in Nat /\ ActiveTime(transitions, t) \in Nat
        /\ ActiveTime(transitions, t + 1) \in Nat
    BY <2>1, LimitCounts
  <2>6. ASSUME userState = "INACTIVE", UsedUp(conf, transitions, t + 1)
        PROVE  machine'.state = "LIMIT_REACHED"
    <3>1. UsedUp(conf, transitions, t)
      BY <2>4, <2>5, <2>6 DEF UsedUp
    <3> QED BY <1>2, <2>2, <2>6, <3>1 DEF Limited
  <2>7. ASSUME userState = "ACTIVE", machine.state = "LIMIT_REACHED", w # 0
        PROVE  UsedUp(conf, transitions, t + 1) /\ w \in 1 .. StartOfTomorrow(t + 1) - (t + 1)
    <3>1. UsedUp(conf, transitions, t) /\ machine.timer \in 1 .. later - t
      BY <1>3, <2>2, <2>7 DEF Limited
    <3>2. later \in Int /\ StartOfToday(t) \in Int
          /\ (StartOfToday(t + 1) = StartOfToday(t) \/ StartOfToday(t + 1) = t + 1)
      BY <2>1, DayFacts
    <3> HIDE DEF later
    <3>3. machine.timer # NoTimer
      BY <2>1, <3>1, <3>2 DEF NoTimer
    <3>4. w \in 1 .. later - (t + 1) /\ t + 1 < later
      BY <1>1, <2>1, <2>7, <3>1, <3>2, <3>3
    <3>5. StartOfToday(t + 1) = StartOfToday(t)
      <4> SUFFICES ASSUME StartOfToday(t + 1) = t + 1, StartOfToday(t) # t + 1 PROVE FALSE
        BY <3>2
      <4>1. ~(StartOfToday(t) < t + 1 /\ t + 1 < StartOfToday(t) + DayLength)
        <5> DEFINE q == t \div DayLength
                   r == (t + 1) \div DayLength
        <5>1. StartOfToday(t) = q * DayLength /\ StartOfToday(t + 1) = r * DayLength
          BY DEF StartOfToday
        <5>2. q \in Int /\ r \in Int /\ t + 1 \in Int
          BY <2>1, DivFacts, TimeLimitsAssumption
        <5> HIDE DEF q, r
        <5>3. /\ q * DayLength \in Int /\ r * DayLength \in Int /\ DayLength \in Int
              /\ q < r => q * DayLength + DayLength <= r * DayLength
              /\ r < q => r * DayLength + DayLength <= q * DayLength
          BY <5>2, MultiplesApart, TimeLimitsAssumption
        <5>4. q = r => q * DayLength = r * DayLength
          OBVIOUS
        <5> QED
          BY <5>1, <5>2, <5>3, <5>4
      <4>2. StartOfToday(t) <= t
        BY <2>1, DayFacts
      <4>3. later = StartOfToday(t) + DayLength
        BY DEF StartOfTomorrow, later
      <4> QED BY <2>1, <3>2, <3>4, <4>1, <4>2, <4>3
    <3>6. StartOfTomorrow(t + 1) = later
      BY <3>5 DEF StartOfTomorrow, later
    <3>7. UsedUp(conf, transitions, t + 1)
      BY <2>4, <2>5, <3>1, <3>5 DEF UsedUp
    <3> QED BY <3>4, <3>6, <3>7
  <2> QED BY <1>2, <2>3, <2>6, <2>7 DEF Limited
<1> QED BY <1>2, <1>3, <1>4 DEF LimitInv

\* A second passes asleep, in which the user is inactive.
LEMMA SleepTickKeepsLimit ==
  ASSUME StoreInv, TimerInv, ExactInv, LimitInv, SleepTick
  PROVE  LimitInv'
<1>1. /\ now' = now + 1 /\ login.sleeping
      /\ losses' = losses \cup LoseIf(~links.user \/ ~links.sleep, "start")
      /\ UNCHANGED <<machine, conf, userState, transitions, starts, stepped>>
  BY DEF SleepTick, envVars, recordVars
<1>2. ASSUME losses' = {}, starts = <<>>, machine.state # "DISABLED"
      PROVE  Limited(conf, machine, transitions, userState, now' - stepped')
  <2> DEFINE t == now - stepped
  <2>1. losses = {}
    BY <1>1, <1>2, LosingNothing
  <2>2. /\ conf \in Settings /\ t \in Int
        /\ transitions \in Seq(TimedEntries) /\ InOrder(transitions, t)
        /\ Alternates(transitions) /\ transitions[Len(transitions)].new = userState
        /\ userState = Calculate(login)
    BY <1>2, <2>1, StartedFacts
  <2>3. Limited(conf, machine, transitions, userState, t)
    BY <1>2, <2>1 DEF LimitInv
  <2>4. now' - stepped' = t + 1
    BY <1>1, TypedFacts
  <2>5. userState = "INACTIVE"
    BY <1>1, <2>2 DEF Calculate
  <2> HIDE DEF t
  <2>6. ActiveTime(transitions, t + 1) <= ActiveTime(transitions, t)
    BY <2>2, <2>5, NextSecond
  <2>7. conf.limit \in Nat /\ ActiveTime(transitions, t) \in Nat
        /\ ActiveTime(transitions, t + 1) \in Nat
    BY <2>2, LimitCounts
  <2>8. UsedUp(conf, transitions, t + 1) => UsedUp(conf, transitions, t)
    BY <2>6, <2>7 DEF UsedUp
  <2> QED BY <2>3, <2>4, <2>5, <2>8 DEF Limited
<1> QED BY <1>1, <1>2 DEF LimitInv

\* The callback of _scheduleUpdateState
LEMMA TimerKeepsLimit ==
  ASSUME StoreInv, TimerInv, LimitInv, TimerFires
  PROVE  LimitInv'
<1> DEFINE m == [machine EXCEPT !.timer = NoTimer]
<1>1. /\ machine' = Updated(conf, m, transitions, userState)
      /\ losses' = losses \cup LoseIf(stepped # 0, "timer")
      /\ UNCHANGED <<now, conf, userState, transitions, stepped>>
  BY DEF TimerFires, clockVars, envVars, recordVars
<1>2. m.state \in States
  BY TypedFacts DEF Parts, LimitInv
<1> HIDE DEF m
<1>3. losses' = {} => stepped' = 0
  <2> SUFFICES ASSUME losses' = {} PROVE stepped = 0
    BY <1>1
  <2>1. LoseIf(stepped # 0, "timer") = {}
    BY <1>1, LosingNothing
  <2> QED BY <2>1 DEF LoseIf
<1>4. conf' \in Settings /\ transitions' \in Seq(TimedEntries) /\ userState' \in {"ACTIVE", "INACTIVE"}
  BY <1>1, TypedFacts DEF TimerInv, AtRest
<1>5. machine' = Updated(conf', m, transitions', userState') /\ now' = now
  BY <1>1
<1> QED BY <1>2, <1>3, <1>4, <1>5, UpdatedKeepsLimit

\* The clock is set: what counts is the time that is adjusted for.
LEMMA ClockStepKeepsLimit ==
  ASSUME StoreInv, TimerInv, ExactInv, LimitInv, NEW d \in ClockSteps, ClockStep(d)
  PROVE  LimitInv'
<1>1. /\ now' = now + d
      /\ stepped' = IF links.source THEN stepped + d ELSE 0
      /\ losses' = losses \cup
           LoseIf(~links.source /\ (file # <<>> \/ transitions # <<>>), "clock")
      /\ UNCHANGED <<machine, conf, userState, transitions, starts>>
  BY DEF ClockStep, envVars, recordVars
<1>2. ASSUME losses' = {}, starts = <<>>, machine.state # "DISABLED"
      PROVE  losses = {} /\ now' - stepped' = now - stepped
  <2>1. /\ losses = {}
        /\ LoseIf(~links.source /\ (file # <<>> \/ transitions # <<>>), "clock") = {}
    BY <1>1, <1>2, LosingNothing
  <2>2. transitions # <<>>
    BY <1>2, <2>1, StartedFacts
  <2>3. links.source
    BY <2>1, <2>2 DEF LoseIf
  <2>4. d \in Int
    BY TimeLimitsAssumption
  <2> QED BY <1>1, <2>1, <2>3, <2>4, TypedFacts
<1> QED BY <1>1, <1>2 DEF LimitInv, Limited, UsedUp

\* The callback of timeChangeNotify
LEMMA ClockChangedKeepsLimit ==
  ASSUME StoreInv, TimerInv, LimitInv, ClockChanged
  PROVE  LimitInv'
<1> DEFINE d == offset - clockOffset
           tr == AdjustAllTimes(transitions, d)
           kept == Trim(tr, now)
           m == [machine EXCEPT !.lastChange = IF @ = 0 THEN 0 ELSE @ + d]
<1>0. UNCHANGED <<now, conf, userState, starts>>
  BY DEF ClockChanged, envVars, clockVars
<1>1. CASE UNCHANGED <<machine, transitions, stepped, losses>>
  BY <1>0, <1>1, SameLimited
<1>2. CASE /\ transitions' = kept
           /\ machine' = Updated(conf, m, kept, userState)
           /\ stepped' = 0
  <2>1. m.state = machine.state
    BY TypedFacts DEF Parts
  <2>2. tr \in Seq(TimedEntries)
    <3>1. d \in Int /\ transitions \in Seq(TimedEntries)
      BY TypedFacts
    <3> HIDE DEF d
    <3> QED BY <3>1, AdjustTyped
  <2> HIDE DEF m, tr
  <2>3. kept \in Seq(TimedEntries)
    BY <2>2, TrimTyped
  <2> HIDE DEF kept
  <2>4. m.state \in States /\ conf \in Settings /\ userState \in {"ACTIVE", "INACTIVE"}
    BY <2>1, TypedFacts DEF LimitInv, TimerInv, AtRest
  <2>5. /\ conf' \in Settings /\ transitions' \in Seq(TimedEntries)
        /\ userState' \in {"ACTIVE", "INACTIVE"}
        /\ machine' = Updated(conf', m, transitions', userState') /\ now' = now
    BY <1>0, <1>2, <2>3, <2>4
  <2> QED BY <1>2, <2>4, <2>5, UpdatedKeepsLimit
<1> HIDE DEF m, tr, kept, d
<1> QED BY <1>1, <1>2 DEF ClockChanged, m, tr, kept, d

\* Neither updating nor recalculating leaves the states there are.
LEMMA UpdatedState ==
  ASSUME NEW m, m.state \in States, NEW s, NEW us
  PROVE  /\ \A cf : Updated(cf, m, s, us).state \in States
         /\ Recalculated(m, s, us).state \in States
<1>1. ASSUME NEW cf PROVE Updated(cf, m, s, us).state \in States
  <2> DEFINE reached == cf.limitOn /\ cf.limit - ActiveTime(s, now) <= 0
  <2>1. Updated(cf, m, s, us).state = NewState(m, us, reached)
    BY DEF Updated
  <2> HIDE DEF reached
  <2> QED BY <2>1 DEF NewState, States
<1>2. \/ Recalculated(m, s, us) = m
      \/ Recalculated(m, s, us) = Updated(conf, m, s, us)
  BY DEF Recalculated
<1> QED BY <1>1, <1>2

\* _updateSettings
LEMMA UpdateSettingsKeepsLimit ==
  ASSUME StoreInv, LimitInv, UpdateSettings(conf'), now' = now, conf' \in Settings
  PROVE  LimitInv'
<1>1. CASE Stop(FALSE)
  <2>1. machine'.state = "DISABLED"
    BY <1>1 DEF Stop, Off
  <2> QED BY <2>1, NotLimitedYet DEF States
<1>2. CASE Start
  <2>1. machine'.state = "ACTIVE"
    BY <1>2, TypedFacts DEF Start, Parts
  <2>2. starts' # <<>>
    <3>1. starts' = Append(starts, "load") /\ starts \in Seq({"load", "inhibit", "proxy"})
      BY <1>2, TypedFacts DEF Start
    <3> QED BY <3>1
  <2> QED BY <2>1, <2>2, NotLimitedYet DEF States
<1>3. CASE machine.state = "DISABLED" /\ machine' = machine
  BY <1>3, NotLimitedYet DEF States
<1>4. CASE /\ machine' = Updated(conf', machine, transitions, userState)
           /\ losses' = losses \cup LoseIf(stepped # 0, "timer")
           /\ UNCHANGED <<recordVars, stepped>>
  <2>1. losses' = {} => stepped' = 0
    <3> SUFFICES ASSUME losses' = {} PROVE stepped = 0
      BY <1>4
    <3>1. LoseIf(stepped # 0, "timer") = {}
      BY <1>4, LosingNothing
    <3> QED BY <3>1 DEF LoseIf
  <2>2. /\ transitions' = transitions /\ userState' = userState
        /\ transitions \in Seq(TimedEntries) /\ userState \in {"ACTIVE", "INACTIVE"}
        /\ machine.state \in States
    BY <1>4, TypedFacts DEF LimitInv, recordVars
  <2>3. machine' = Updated(conf', machine, transitions', userState')
    BY <1>4, <2>2
  <2> QED BY <2>1, <2>2, <2>3, UpdatedKeepsLimit
<1> QED BY Zenon, <1>1, <1>2, <1>3, <1>4 DEF UpdateSettings

\* Settings that change, and the shell that starts, shuts down or ends.
LEMMA LifeKeepsLimit ==
  ASSUME StoreInv, TimerInv, LimitInv,
         \/ \E cf \in Changed(conf) : SettingsChange(cf)
         \/ Boot \/ Shutdown \/ ExitAfterShutdown \/ Crash
  PROVE  LimitInv'
<1>a. conf \in Settings
  BY DEF TimerInv, AtRest
<1>1. ASSUME NEW cf \in Changed(conf), SettingsChange(cf) PROVE LimitInv'
  <2>1. cf \in Settings
    BY <1>a DEF Changed, Settings
  <2>2. conf' = cf /\ UpdateSettings(cf) /\ now' = now
    BY <1>1 DEF SettingsChange, clockVars
  <2> QED BY <2>1, <2>2, UpdateSettingsKeepsLimit
<1>2. CASE Boot
  <2>1. conf' = conf /\ UpdateSettings(conf) /\ now' = now
    BY <1>2 DEF Boot, clockVars
  <2> QED BY <1>a, <2>1, UpdateSettingsKeepsLimit
<1>3. CASE Shutdown \/ ExitAfterShutdown \/ Crash
  <2>1. machine' = Off
    BY <1>3 DEF Shutdown, Stop, ExitAfterShutdown, Crash, Exit
  <2>2. machine'.state = "DISABLED"
    BY <2>1 DEF Off
  <2> QED BY <2>2, NotLimitedYet DEF States
<1> QED BY <1>1, <1>2, <1>3

\* The start goes on: it enforces nothing before it ends.
LEMMA LoadDoneKeepsLimit ==
  ASSUME StoreInv, LimitInv, NEW i \in DOMAIN starts, LoadDone(i)
  PROVE  LimitInv'
<1>1. PICK ok \in Outcomes("load"), listening \in Outcomes("listen") :
        LET loaded == IF ok THEN Loaded(file, now) ELSE <<>>
            tr == transitions \o loaded
            us == IF loaded = <<>> THEN userState ELSE Last(loaded).new
            m == IF ok /\ LoadRecalculates(file, now)
                 THEN Recalculated(machine, tr, us) ELSE machine
            fake == Append(tr, Entry("ACTIVE", now))
            begins == tr = <<>> \/ us # "ACTIVE"
        IN  /\ machine' = IF begins THEN Recalculated(m, fake, "ACTIVE") ELSE m
            /\ Await(i, IF links.inhibitor THEN "proxy" ELSE "inhibit")
  BY DEF LoadDone
<1> DEFINE loaded == IF ok THEN Loaded(file, now) ELSE <<>>
           tr == transitions \o loaded
           us == IF loaded = <<>> THEN userState ELSE Last(loaded).new
           m == IF ok /\ LoadRecalculates(file, now)
                THEN Recalculated(machine, tr, us) ELSE machine
           fake == Append(tr, Entry("ACTIVE", now))
           begins == tr = <<>> \/ us # "ACTIVE"
<1>2. /\ machine' = IF begins THEN Recalculated(m, fake, "ACTIVE") ELSE m
      /\ starts' = [starts EXCEPT ![i] = IF links.inhibitor THEN "proxy" ELSE "inhibit"]
  BY <1>1 DEF Await
<1>3. starts \in Seq({"load", "inhibit", "proxy"}) /\ machine.state \in States
  BY TypedFacts DEF LimitInv
<1> HIDE DEF tr, us
<1>4. m.state \in States
  BY <1>3, UpdatedState
<1> HIDE DEF m, fake, begins
<1>5. machine'.state \in States
  BY <1>2, <1>4, UpdatedState
<1>6. starts' # <<>>
  BY <1>2, <1>3
<1> QED BY <1>5, <1>6, NotLimitedYet

\* The inhibitor was taken, or not.
LEMMA InhibitDoneKeepsLimit ==
  ASSUME StoreInv, ExactInv, LimitInv, NEW i \in DOMAIN starts, InhibitDone(i)
  PROVE  LimitInv'
<1>1. /\ starts[i] = "inhibit" /\ machine' = machine /\ losses' = losses
      /\ starts' = IF links.manager THEN [starts EXCEPT ![i] = "proxy"] ELSE RemoveAt(starts, i)
  BY DEF InhibitDone, Await, Ended
<1>2. ASSUME losses = {} PROVE starts' # <<>>
  <2>1. Exact
    BY <1>2 DEF Exact
  <2>2. ~Idle
    BY <1>1, <2>1, OnlyOneStarts
  <2>3. links.manager
    BY <2>1, <2>2, RecordFacts DEF StartExact
  <2> QED BY <1>1, <2>3, TypedFacts
<1>3. machine'.state \in States
  BY <1>1 DEF LimitInv
<1> QED BY <1>1, <1>2, <1>3, NotLimitedYet

\* The proxy of the user is there: the start ends with the machine up to date.
LEMMA ProxyDoneKeepsLimit ==
  ASSUME StoreInv, TimerInv, ExactInv, LimitInv, NEW i \in DOMAIN starts, ProxyDone(i)
  PROVE  LimitInv'
<1> DEFINE new == Calculate(login)
           tr == IF new = userState THEN transitions
                 ELSE Append(transitions, Entry(new, now))
           m == IF new = userState THEN machine ELSE Recalculated(machine, tr, new)
           what == IF tr = transitions THEN "timer" ELSE "clock"
<1>1. UNCHANGED <<now, conf, stepped>>
  BY DEF ProxyDone, envVars, clockVars
<1>2. \/ machine' = machine /\ losses' = losses \cup {"start"}
      \/ /\ userState' = new /\ transitions' = tr
         /\ machine' = Updated(conf, m, tr, new)
         /\ losses' = losses \cup LoseIf(stepped # 0, what)
  BY DEF ProxyDone
<1>3. CASE machine' = machine /\ losses' = losses \cup {"start"}
  <2>1. losses' # {}
    BY <1>3
  <2>2. machine'.state \in States
    BY <1>3 DEF LimitInv
  <2> QED BY <2>1, <2>2, NotLimitedYet
<1>4. CASE /\ userState' = new /\ transitions' = tr
           /\ machine' = Updated(conf, m, tr, new)
           /\ losses' = losses \cup LoseIf(stepped # 0, what)
  <2>1. new \in {"ACTIVE", "INACTIVE"}
    BY DEF Calculate
  <2>2. now \in Int /\ transitions \in Seq(TimedEntries) /\ conf \in Settings
        /\ machine.state \in States
    BY TypedFacts DEF LimitInv, TimerInv, AtRest
  <2> HIDE DEF new
  <2>3. tr \in Seq(TimedEntries)
    BY <2>1, <2>2, AppendTyped
  <2> HIDE DEF tr
  <2>4. m.state \in States
    BY <2>2, UpdatedState
  <2> HIDE DEF m
  <2>5. losses' = {} => stepped' = 0
    <3> SUFFICES ASSUME losses' = {} PROVE stepped = 0
      BY <1>1
    <3> HIDE DEF what
    <3>1. LoseIf(stepped # 0, what) = {}
      BY <1>4, LosingNothing
    <3> QED BY <3>1 DEF LoseIf
  <2>6. /\ conf' \in Settings /\ transitions' \in Seq(TimedEntries)
        /\ userState' \in {"ACTIVE", "INACTIVE"}
        /\ machine' = Updated(conf', m, transitions', userState') /\ now' = now
    BY <1>1, <1>4, <2>1, <2>2, <2>3
  <2> QED BY <2>4, <2>5, <2>6, UpdatedKeepsLimit
<1> HIDE DEF new, tr, m, what
<1> QED BY <1>2, <1>3, <1>4

---------------------------------------------------------------------------

\* LimitInv is inductive with what keeps the history exact and the timer armed.
THEOREM LimitStaysEnforced == Spec => []LimitInv
<1>1. Init => LimitInv
  <2> SUFFICES ASSUME Init PROVE LimitInv
    OBVIOUS
  <2>1. machine.state = "DISABLED"
    BY DEF Init, Off
  <2> QED BY <2>1 DEF LimitInv, States
<1>2. StoreInv /\ TimerInv /\ ExactInv /\ LimitInv /\ [Next]_vars => LimitInv'
  <2> SUFFICES ASSUME StoreInv, TimerInv, ExactInv, LimitInv, [Next]_vars PROVE LimitInv'
    OBVIOUS
  <2>1. ASSUME NEW i \in DOMAIN starts, LoadDone(i) PROVE LimitInv'
    BY <2>1, LoadDoneKeepsLimit
  <2>2. ASSUME NEW i \in DOMAIN starts, InhibitDone(i) PROVE LimitInv'
    BY <2>2, InhibitDoneKeepsLimit
  <2>3. ASSUME NEW i \in DOMAIN starts, ProxyDone(i) PROVE LimitInv'
    BY <2>3, ProxyDoneKeepsLimit
  <2>4. CASE LoginChange \/ PrepareForSleep \/ WakeUp
    BY <2>4, LoginEventsKeepLimit
  <2>5. CASE TimerFires
    BY <2>5, TimerKeepsLimit
  <2>6. CASE ClockChanged
    BY <2>6, ClockChangedKeepsLimit
  <2>7. CASE Tick
    BY <2>7, TickKeepsLimit
  <2>8. CASE SleepTick
    BY <2>8, SleepTickKeepsLimit
  <2>9. ASSUME NEW d \in ClockSteps, ClockStep(d) PROVE LimitInv'
    BY <2>9, ClockStepKeepsLimit
  <2>10. ASSUME NEW cf \in Changed(conf) \ {conf}, SettingsChange(cf) PROVE LimitInv'
    BY <2>10, LifeKeepsLimit
  <2>11. CASE Boot \/ Shutdown \/ ExitAfterShutdown \/ Crash
    BY <2>11, LifeKeepsLimit
  <2>12. CASE UNCHANGED vars
    <3>1. /\ UNCHANGED <<machine, conf, transitions, userState, starts>>
          /\ losses' = losses /\ now' = now /\ stepped' = stepped
      BY <2>12 DEF vars, clockVars, envVars, recordVars, offsetVars
    <3>2. losses' = {} => losses = {} /\ now' - stepped' = now - stepped
      BY <3>1
    <3> QED BY <3>1, <3>2, SameLimited
  <2> QED
    BY Zenon, <2>1, <2>2, <2>3, <2>4, <2>5, <2>6, <2>7, <2>8, <2>9, <2>10, <2>11, <2>12 DEF Next
<1> QED BY <1>1, <1>2, HistoryStaysExact, TimerStaysSet, PTL DEF Spec

\* While the user is active, the state is LIMIT_REACHED exactly when the time the
\* user really was active today has used up the limit, and a user who is inactive
\* is not let off before the day is over, with no more than the timers that
\* _updateState arms (_scheduleUpdateState) as time passes.
THEOREM LimitIsAlwaysEnforced == Spec => []LimitIsEnforced
<1>1. StoreInv /\ TimerInv /\ ExactInv /\ LimitInv => LimitIsEnforced
  <2> DEFINE usedUp == conf.limitOn /\ Cardinality(ActiveToday) >= conf.limit
  <2> SUFFICES ASSUME StoreInv, TimerInv, ExactInv, LimitInv,
                      Running, losses = {}, machine.timer # 0
               PROVE  /\ usedUp => machine.state = "LIMIT_REACHED"
                      /\ userState = "ACTIVE" /\ machine.state = "LIMIT_REACHED" => usedUp
    BY DEF LimitIsEnforced
  <2>1. Exact /\ Trusted /\ stepped = 0 /\ starts = <<>> /\ machine.state # "DISABLED"
    BY DEF Exact, Trusted, Running
  <2>2. /\ now \in Int /\ transitions \in Seq(TimedEntries)
        /\ InOrder(transitions, now) /\ Alternates(transitions)
        /\ ActiveToday = Seconds(transitions, StartOfToday(now), now)
    BY <2>1, ActiveTodayIsSaid
  <2>3. ActiveTime(transitions, now) = Cardinality(ActiveToday)
    BY <2>2, ActiveTimeCounts
  <2>4. usedUp <=> UsedUp(conf, transitions, now)
    BY <2>3 DEF UsedUp
  <2> HIDE DEF usedUp
  <2>5. now - stepped = now
    BY <2>1, <2>2
  <2>6. Limited(conf, machine, transitions, userState, now)
    BY <2>1, <2>5 DEF LimitInv
  <2>7. ASSUME UsedUp(conf, transitions, now), userState = "ACTIVE", machine.state = "ACTIVE"
        PROVE  FALSE
    <3>1. conf.limitOn /\ machine.timer \in 0 .. conf.limit - ActiveTime(transitions, now)
      BY <2>1, <2>5, <2>7 DEF TimerInv, TimerFollows, TimerSet, UsedUp
    <3>2. conf.limit \in Nat /\ ActiveTime(transitions, now) \in Nat
      <4>1. conf \in Settings
        BY DEF TimerInv, AtRest
      <4> QED BY <2>2, <4>1, LimitCounts
    <3>3. ActiveTime(transitions, now) >= conf.limit
      BY <2>7 DEF UsedUp
    <3> QED BY <3>1, <3>2, <3>3
  <2>8. userState \in {"ACTIVE", "INACTIVE"} /\ machine.state \in {"ACTIVE", "LIMIT_REACHED"}
    BY <2>1, TypedFacts DEF LimitInv, States
  <2> QED BY <2>4, <2>6, <2>7, <2>8 DEF Limited
<1> QED BY <1>1, HistoryStaysExact, TimerStaysSet, LimitStaysEnforced, PTL
=============================================================================
