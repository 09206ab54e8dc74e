------------------------- MODULE BreakManagerProofs -------------------------
(* Invariants of the break manager, for all settings, times and clock steps. *)
EXTENDS BreakManager, TLAPS

-----------------------------------------------------------------------------
(* Arithmetic of the timer and of getNextBreakDue.                         *)

\* _scheduleUpdateState rounds up, by less than a second.
LEMMA CeilBounds ==
  ASSUME NEW t \in Int
  PROVE  /\ CeilToSecs(t) \in Int
         /\ t <= CeilToSecs(t)
         /\ CeilToSecs(t) < t + TicksPerSec
<1> DEFINE a == t + TicksPerSec - 1
           q == a \div TicksPerSec
           m == a % TicksPerSec
<1>1. TicksPerSec \in Nat \ {0} /\ a \in Int
  BY TimeAssumption
<1>2. q \in Int /\ m \in 0 .. (TicksPerSec - 1) /\ a = TicksPerSec * q + m
  BY <1>1
<1>3. CeilToSecs(t) = q * TicksPerSec
  BY DEF CeilToSecs
<1>4. q * TicksPerSec = a - m
  BY <1>1, <1>2
<1> QED
  BY <1>1, <1>2, <1>3, <1>4

\* When a type would be due is a positive time.
LEMMA WouldBeDueType ==
  ASSUME NEW cf \in [BreakTypes -> Settings], NEW le \in [BreakTypes -> Nat],
         NEW b \in BreakTypes
  PROVE  WouldBeDueAt(cf, le, b) \in Nat \ {0}
  BY DEF WouldBeDueAt, Settings

\* The three choices of the loop of getNextBreakDue exist.
LEMMA ChoicesExist ==
  ASSUME NEW S \in SUBSET BreakTypes, S # {}, NEW f \in BreakTypes,
         NEW cf \in [BreakTypes -> Settings], NEW le \in [BreakTypes -> Nat]
  PROVE  /\ LastIn(S, f) \in S
         /\ Longest(S, cf, f) \in S
         /\ Soonest(S, cf, le, f) \in S
         /\ \A c \in S : WouldBeDueAt(cf, le, Soonest(S, cf, le, f))
                           <= WouldBeDueAt(cf, le, c)
<1>1. S = {"eyesight"} \/ S = {"movement"} \/ S = {"eyesight", "movement"}
  BY DEF BreakTypes
<1>2. f = "eyesight" \/ f = "movement"
  BY DEF BreakTypes
<1>3. \A b \in BreakTypes : /\ WouldBeDueAt(cf, le, b) \in Int
                            /\ cf[b].duration \in Int
  BY WouldBeDueType DEF Settings
<1>4. \E b \in S : \A c \in S \ {b} : c = f
  BY <1>1, <1>2
<1>5. \E b \in S : \A c \in S \ {b} :
        IF b = f THEN cf[b].duration >= cf[c].duration
                 ELSE cf[b].duration > cf[c].duration
  BY <1>1, <1>2, <1>3 DEF BreakTypes
<1>6. \E b \in S : \A c \in S \ {b} :
        IF b = f THEN WouldBeDueAt(cf, le, b) <= WouldBeDueAt(cf, le, c)
                 ELSE WouldBeDueAt(cf, le, b) < WouldBeDueAt(cf, le, c)
  BY <1>1, <1>2, <1>3 DEF BreakTypes
<1>7. LastIn(S, f) \in S
  BY <1>4 DEF LastIn
<1>8. Longest(S, cf, f) \in S
  BY <1>5 DEF Longest
<1> DEFINE s == Soonest(S, cf, le, f)
<1>9. s \in S /\ \A c \in S \ {s} :
        IF s = f THEN WouldBeDueAt(cf, le, s) <= WouldBeDueAt(cf, le, c)
                 ELSE WouldBeDueAt(cf, le, s) < WouldBeDueAt(cf, le, c)
  BY <1>6 DEF Soonest
<1>10. \A c \in S : WouldBeDueAt(cf, le, s) <= WouldBeDueAt(cf, le, c)
  <2> HIDE DEF s
  <2> QED BY <1>3, <1>9
<1> QED
  BY <1>7, <1>8, <1>9, <1>10

\* A sound answer: nothing if no type is enabled, else an enabled type and the
\* time some enabled type is due; a time in the future is the first at which
\* any is due.
SoundAnswer(en, cf, le, from, next) ==
  /\ en = {} => next.type = NoType /\ next.time = 0
  /\ en # {} =>
       /\ next.type \in en
       /\ \E b \in en : next.time = WouldBeDueAt(cf, le, b)
       /\ next.time \in Nat \ {0}
       /\ next.time > from => \A b \in en : next.time <= WouldBeDueAt(cf, le, b)

\* getNextBreakDue gives a sound answer.
LEMMA NextBreakDueFacts ==
  ASSUME NEW en \in SUBSET BreakTypes, NEW f \in BreakTypes,
         NEW cf \in [BreakTypes -> Settings], NEW le \in [BreakTypes -> Nat],
         NEW from \in Int
  PROVE  SoundAnswer(en, cf, le, from, NextBreakDue(en, f, cf, le, from))
<1> DEFINE due == DueTypes(en, cf, le, from)
           next == NextBreakDue(en, f, cf, le, from)
<1>1. CASE en = {}
  BY <1>1 DEF NextBreakDue, SoundAnswer
<1>2. CASE en # {} /\ due # {}
  <2>1. due \in SUBSET BreakTypes /\ due \subseteq en
    BY DEF DueTypes
  <2>2. LastIn(due, f) \in due /\ Longest(due, cf, f) \in due
    BY <1>2, <2>1, ChoicesExist
  <2>3. /\ next.type = Longest(due, cf, f)
        /\ next.time = WouldBeDueAt(cf, le, LastIn(due, f))
    BY <1>2 DEF NextBreakDue
  <2>4. next.time \in Nat \ {0}
    BY <2>1, <2>2, <2>3, WouldBeDueType
  <2>5. next.time <= from
    BY <2>2, <2>3 DEF DueTypes
  <2> QED BY <1>2, <2>1, <2>2, <2>3, <2>4, <2>5 DEF SoundAnswer
<1>3. CASE en # {} /\ due = {}
  <2> DEFINE s == Soonest(en, cf, le, f)
  <2>1. s \in en /\ \A c \in en : WouldBeDueAt(cf, le, s) <= WouldBeDueAt(cf, le, c)
    BY <1>3, ChoicesExist
  <2>2. next.type = s /\ next.time = WouldBeDueAt(cf, le, s)
    BY <1>3 DEF NextBreakDue
  <2>3. next.time \in Nat \ {0}
    BY <2>1, <2>2, WouldBeDueType
  <2> QED BY <1>3, <2>1, <2>2, <2>3 DEF SoundAnswer
<1> QED
  BY <1>1, <1>2, <1>3

\* What the choices of NextBreakDue are for one key.
LEMMA ChoiceOfOne ==
  ASSUME NEW f \in BreakTypes, NEW b \in BreakTypes,
         NEW cf \in [BreakTypes -> Settings], NEW le \in [BreakTypes -> Nat]
  PROVE  /\ LastIn({b}, f) = b
         /\ Longest({b}, cf, f) = b
         /\ Soonest({b}, cf, le, f) = b
<1>1. {b} \in SUBSET BreakTypes /\ {b} # {}
  OBVIOUS
<1> QED BY <1>1, ChoicesExist

\* What they are for two.
LEMMA ChoiceOfTwo ==
  ASSUME NEW f \in BreakTypes, NEW g \in BreakTypes, f # g,
         NEW cf \in [BreakTypes -> Settings], NEW le \in [BreakTypes -> Nat]
  PROVE  /\ LastIn({f, g}, f) = g
         /\ Longest({f, g}, cf, f)
              = IF cf[g].duration > cf[f].duration THEN g ELSE f
         /\ Soonest({f, g}, cf, le, f)
              = IF WouldBeDueAt(cf, le, f) > WouldBeDueAt(cf, le, g) THEN g ELSE f
<1>1. \A b \in BreakTypes : /\ WouldBeDueAt(cf, le, b) \in Int
                            /\ cf[b].duration \in Int
  BY WouldBeDueType DEF Settings
<1> DEFINE S == {f, g}
           l == LastIn(S, f)
           d == Longest(S, cf, f)
           t == Soonest(S, cf, le, f)
<1>3. S \in SUBSET BreakTypes /\ S # {} /\ g \in S \ {f} /\ f \in S \ {g}
  OBVIOUS
<1>4. l \in S /\ d \in S /\ t \in S
  BY <1>3, ChoicesExist
<1>5. l = g
  <2>1. \E b \in S : \A c \in S \ {b} : c = f
    OBVIOUS
  <2>2. \A c \in S \ {l} : c = f
    BY <2>1 DEF LastIn
  <2> HIDE DEF l
  <2> QED BY <1>3, <1>4, <2>2
<1>6. d = IF cf[g].duration > cf[f].duration THEN g ELSE f
  <2> DEFINE P(b) == \A c \in S \ {b} : IF b = f THEN cf[b].duration >= cf[c].duration
                                                ELSE cf[b].duration > cf[c].duration
  <2>1. P(f) \/ P(g)
    BY <1>1
  <2>2. P(d)
    BY <2>1 DEF Longest
  <2> HIDE DEF d
  <2> QED BY <1>1, <1>3, <1>4, <2>2
<1>7. t = IF WouldBeDueAt(cf, le, f) > WouldBeDueAt(cf, le, g) THEN g ELSE f
  <2> DEFINE P(b) == \A c \in S \ {b} :
                       IF b = f THEN WouldBeDueAt(cf, le, b) <= WouldBeDueAt(cf, le, c)
                                ELSE WouldBeDueAt(cf, le, b) < WouldBeDueAt(cf, le, c)
  <2>1. P(f) \/ P(g)
    BY <1>1
  <2>2. P(t)
    BY <2>1 DEF Soonest
  <2> HIDE DEF t
  <2> QED BY <1>1, <1>3, <1>4, <2>2
<1> QED BY <1>5, <1>6, <1>7

\* The closed form is what the loop computes, from any time.
LEMMA LoopComputesNextBreakDue ==
  ASSUME NEW en \in SUBSET BreakTypes, NEW f \in BreakTypes,
         NEW cf \in [BreakTypes -> Settings], NEW le \in [BreakTypes -> Nat],
         NEW from \in Int
  PROVE  LET r == Loop(en, f, cf, le, from)
         IN  NextBreakDue(en, f, cf, le, from) = [type |-> r.type, time |-> r.time]
<1> DEFINE g == CHOOSE b \in BreakTypes : b # f
           due == DueTypes(en, cf, le, from)
           none == [duration |-> 0, type |-> NoType, time |-> 0]
           one == IF f \in en THEN LoopBody(cf, le, from, none, f) ELSE none
           r == Loop(en, f, cf, le, from)
<1>1. g \in BreakTypes /\ f # g
  BY DEF BreakTypes
<1>2. r = IF g \in en THEN LoopBody(cf, le, from, one, g) ELSE one
  BY DEF Loop
<1> HIDE DEF g, r
<1>3. \A b \in BreakTypes : b = f \/ b = g
  BY <1>1 DEF BreakTypes
<1>4. /\ WouldBeDueAt(cf, le, f) \in Nat \ {0} /\ WouldBeDueAt(cf, le, g) \in Nat \ {0}
      /\ cf[f].duration \in Nat \ {0} /\ cf[g].duration \in Nat \ {0}
  BY <1>1, WouldBeDueType DEF Settings
<1>5. CASE en = {}
  <2>1. r = none
    BY <1>1, <1>2, <1>5
  <2>2. NextBreakDue(en, f, cf, le, from) = [type |-> NoType, time |-> 0]
    BY <1>5 DEF NextBreakDue
  <2> QED BY <2>1, <2>2 DEF r
<1>6. CASE en = {f} \/ en = {g}
  <2>1. PICK b \in BreakTypes : en = {b} /\ r = LoopBody(cf, le, from, none, b)
    BY <1>1, <1>2, <1>6
  <2>2. LastIn({b}, f) = b /\ Longest({b}, cf, f) = b /\ Soonest({b}, cf, le, f) = b
    BY ChoiceOfOne
  <2>3. due = {b} \/ due = {}
    BY <2>1 DEF DueTypes
  <2>4. due = {b} <=> WouldBeDueAt(cf, le, b) <= from
    BY <2>1 DEF DueTypes
  <2>5. r.type = b /\ r.time = WouldBeDueAt(cf, le, b)
    BY <2>1 DEF LoopBody
  <2>6. NextBreakDue(en, f, cf, le, from) = [type |-> b, time |-> WouldBeDueAt(cf, le, b)]
    BY <2>1, <2>2, <2>3 DEF NextBreakDue
  <2> QED BY <2>5, <2>6 DEF r
<1>7. CASE en = {f, g}
  <2> DEFINE atF == WouldBeDueAt(cf, le, f)
             atG == WouldBeDueAt(cf, le, g)
  <2>b. \A b \in BreakTypes : LastIn({b}, f) = b /\ Longest({b}, cf, f) = b
    BY ChoiceOfOne
  <2>0. /\ LastIn({f, g}, f) = g
        /\ Longest({f, g}, cf, f) = IF cf[g].duration > cf[f].duration THEN g ELSE f
        /\ Soonest({f, g}, cf, le, f) = IF atF > atG THEN g ELSE f
    BY <1>1, ChoiceOfTwo, Zenon
  <2>1. one = [duration |-> IF atF <= from THEN cf[f].duration ELSE 0,
               type |-> f, time |-> atF]
    BY <1>7 DEF LoopBody
  <2>2. r = LoopBody(cf, le, from, one, g)
    BY <1>2, <1>7
  <2>3. CASE atF <= from /\ atG <= from
    <3>1. due = {f, g}
      BY <1>7, <2>3 DEF DueTypes
    <3>2. r.time = atG /\ r.type = IF cf[g].duration > cf[f].duration THEN g ELSE f
      BY <1>4, <2>1, <2>2, <2>3 DEF LoopBody
    <3>3. NextBreakDue(en, f, cf, le, from)
            = [type |-> IF cf[g].duration > cf[f].duration THEN g ELSE f, time |-> atG]
      BY <1>1, <1>7, <2>b, <2>0, <3>1 DEF NextBreakDue
    <3> QED BY <3>2, <3>3 DEF r
  <2>4. CASE atF <= from /\ ~(atG <= from)
    <3>1. due = {f}
      BY <1>7, <2>4 DEF DueTypes
    <3>2. r.time = atF /\ r.type = f
      BY <1>4, <2>1, <2>2, <2>4 DEF LoopBody
    <3>3. NextBreakDue(en, f, cf, le, from) = [type |-> f, time |-> atF]
      BY <1>1, <1>7, <2>b, <2>0, <3>1 DEF NextBreakDue
    <3> QED BY <3>2, <3>3 DEF r
  <2>5. CASE ~(atF <= from) /\ atG <= from
    <3>1. due = {g}
      BY <1>7, <2>5 DEF DueTypes
    <3>2. r.time = atG /\ r.type = g
      BY <1>4, <2>1, <2>2, <2>5 DEF LoopBody
    <3>3. NextBreakDue(en, f, cf, le, from) = [type |-> g, time |-> atG]
      BY <1>1, <1>7, <2>b, <2>0, <3>1 DEF NextBreakDue
    <3> QED BY <3>2, <3>3 DEF r
  <2>6. CASE ~(atF <= from) /\ ~(atG <= from)
    <3>1. due = {}
      BY <1>7, <2>6 DEF DueTypes
    <3>2. /\ r.type = IF atF > atG THEN g ELSE f
          /\ r.time = IF atF > atG THEN atG ELSE atF
      BY <1>4, <2>1, <2>2, <2>6 DEF LoopBody
    <3>3. NextBreakDue(en, f, cf, le, from)
            = [type |-> IF atF > atG THEN g ELSE f, time |-> IF atF > atG THEN atG ELSE atF]
      BY <1>1, <1>7, <2>b, <2>0, <3>1 DEF NextBreakDue
    <3> QED BY <3>2, <3>3 DEF r
  <2> QED BY <2>3, <2>4, <2>5, <2>6
<1>8. en = {} \/ en = {f} \/ en = {g} \/ en = {f, g}
  BY <1>1, <1>3
<1> QED BY <1>5, <1>6, <1>7, <1>8

-----------------------------------------------------------------------------
(* What a run of _updateState leaves behind.                               *)

\* The timer is right for the fields a run of _updateState leaves: first half
\* of NextTransitionScheduled, for the enabled types en and settings cf.
Scheduled(en, cf, le, tm, base) ==
  /\ \A b \in en : tm # NoTimer /\ tm < WouldBeDueAt(cf, le, b) - base + TicksPerSec
  /\ en # {} => \E b \in en : tm >= WouldBeDueAt(cf, le, b) - base

\* Arming the timer for a future time.
LEMMA ScheduleFacts ==
  ASSUME NEW t \in Int, t > 0, ScheduleUpdateState(t)
  PROVE  /\ timer' \in Nat /\ timer' # NoTimer /\ skew' = 0
         /\ t <= timer' /\ timer' < t + TicksPerSec
  BY CeilBounds, TimeAssumption DEF ScheduleUpdateState, NoTimer

\* Arming the timer for the next break that is not due, or keeping it.
LEMMA ScheduleNextFacts ==
  ASSUME NEW en \in SUBSET BreakTypes, NEW f \in BreakTypes,
         NEW cf \in [BreakTypes -> Settings], NEW le \in [BreakTypes -> Nat],
         now \in Nat, skew \in Int, NEW tm \in Nat \cup {NoTimer},
         NEW next, SoundAnswer(en, cf, le, now, next),
         ScheduleNextBreak(next, next.type # NoType /\ next.time <= now, tm)
  PROVE  /\ timer' \in Nat \cup {NoTimer} /\ skew' \in Int
         /\ timer' = NoTimer => skew' = 0
         /\ ~(next.type # NoType /\ next.time <= now)
              => Scheduled(en, cf, le, timer', now - skew')
<1> DEFINE isDue == next.type # NoType /\ next.time <= now
<1>1. CASE en = {}
  <2>1. next.time = 0
    BY <1>1 DEF SoundAnswer
  <2>2. KeepTimer(tm)
    BY <2>1 DEF ScheduleNextBreak
  <2> QED BY <1>1, <2>2 DEF KeepTimer, Scheduled
<1>2. CASE en # {} /\ isDue
  <2>1. KeepTimer(tm)
    BY <1>2 DEF ScheduleNextBreak
  <2> QED BY <1>2, <2>1 DEF KeepTimer
<1>3. CASE en # {} /\ ~isDue
  <2>1. /\ next.type \in en
        /\ next.time \in Nat \ {0}
        /\ \E b \in en : next.time = WouldBeDueAt(cf, le, b)
        /\ next.time > now => \A b \in en : next.time <= WouldBeDueAt(cf, le, b)
    BY <1>3 DEF SoundAnswer
  <2>2. next.type # NoType
    BY <2>1, NoTypeAssumption
  <2>3. next.time > now
    BY <1>3, <2>1, <2>2
  <2>4. ScheduleUpdateState(next.time - now)
    BY <1>3, <2>1 DEF ScheduleNextBreak
  <2>5. /\ timer' \in Nat /\ timer' # NoTimer /\ skew' = 0
        /\ next.time - now <= timer' /\ timer' < next.time - now + TicksPerSec
    BY <2>1, <2>3, <2>4, ScheduleFacts
  <2>6. \A b \in en : WouldBeDueAt(cf, le, b) \in Int
    BY WouldBeDueType
  <2> QED BY <2>1, <2>3, <2>5, <2>6, TimeAssumption DEF Scheduled
<1> QED BY <1>1, <1>2, <1>3

\* The hypotheses under which the actions call _updateState.
Callable(en, f, cf, le, iState, iStart, st, tm) ==
  /\ en \in SUBSET BreakTypes /\ f \in BreakTypes
  /\ cf \in [BreakTypes -> Settings] /\ le \in [BreakTypes -> Nat]
  /\ iState \in IdleStates /\ iStart \in Nat
  /\ st \in BreakStates \ {"DISABLED"}
  /\ tm \in Nat \cup {NoTimer}
  /\ now \in Nat /\ skew \in Int
  /\ curType \in BreakTypes \cup {NoType} /\ curStart \in Nat

\* What holds after it.
Updated(en, cf, iState, iStart) ==
  /\ lastEnd' \in [BreakTypes -> Nat]
  /\ state' \in BreakStates \ {"DISABLED"}
  /\ curType' \in BreakTypes \cup {NoType} /\ curStart' \in Nat
  /\ idleState' = iState
  /\ idleStart' = IF iState = "IDLE" THEN iStart ELSE 0
  /\ timer' \in Nat \cup {NoTimer} /\ skew' \in Int
  /\ signals' \in SUBSET SignalNames
  /\ state' = "ACTIVE" => Scheduled(en, cf, lastEnd', timer', now - skew')
  /\ state' = "IN_BREAK" /\ iState = "IDLE" => timer' # NoTimer

\* The branch of _updateState taken while the user is idle.
LEMMA UpdateIdleFacts ==
  ASSUME NEW en, NEW f, NEW cf, NEW le, NEW iStart, NEW st, NEW tm,
         Callable(en, f, cf, le, "IDLE", iStart, st, tm),
         UpdateStateIdle(en, f, cf, le, iStart, st, tm)
  PROVE  Updated(en, cf, "IDLE", iStart)
<1> DEFINE next == NextBreakDue(en, f, cf, le, now)
           isDue == next.type # NoType /\ next.time <= now
           endTime == next.time + cf[next.type].duration
           inBreak == isDue /\ endTime > now
           newState == IF inBreak THEN "IN_BREAK" ELSE "IDLE"
<1>1. /\ \/ inBreak /\ ScheduleUpdateState(endTime - now)
         \/ ~inBreak /\ ScheduleNextBreak(next, isDue, tm)
      /\ state' = newState
      /\ IF st # newState
         THEN /\ curType' = next.type
              /\ curStart' = IF inBreak THEN next.time ELSE 0
         ELSE UNCHANGED <<curType, curStart>>
      /\ signals' = IF isDue /\ ~inBreak /\ st = "IN_BREAK"
                    THEN {"break-finished"} ELSE {}
      /\ lastEnd' = le /\ idleState' = "IDLE" /\ idleStart' = iStart
  BY DEF UpdateStateIdle
<1>2. /\ next.type \in BreakTypes \cup {NoType} /\ next.time \in Nat
      /\ isDue => next.type \in BreakTypes
  <2>1. SoundAnswer(en, cf, le, now, next)
    BY NextBreakDueFacts DEF Callable
  <2> HIDE DEF next
  <2> QED BY <2>1, NoTypeAssumption DEF Callable, SoundAnswer
<1>3. isDue => endTime \in Nat
  BY <1>2 DEF Callable, Settings
<1>4. timer' \in Nat \cup {NoTimer} /\ skew' \in Int /\ (inBreak => timer' # NoTimer)
  <2> HIDE DEF next, endTime
  <2>1. CASE inBreak
    <3>1. endTime - now \in Int /\ endTime - now > 0
      BY <2>1, <1>3 DEF Callable
    <3> QED BY <3>1, <2>1, <1>1, ScheduleFacts
  <2>2. CASE ~inBreak
    <3>1. SoundAnswer(en, cf, le, now, next)
      BY NextBreakDueFacts DEF Callable, next
    <3> QED BY <3>1, <2>2, <1>1, ScheduleNextFacts DEF Callable
  <2> QED BY <2>1, <2>2
<1> HIDE DEF next, endTime
<1> QED
  BY <1>1, <1>2, <1>4 DEF Updated, Callable, BreakStates, SignalNames

\* The branch of _updateState taken while the user is active.
LEMMA UpdateActiveFacts ==
  ASSUME NEW en, NEW f, NEW cf, NEW le, NEW iStart, NEW st, NEW tm,
         Callable(en, f, cf, le, "ACTIVE", iStart, st, tm),
         UpdateStateActive(en, f, cf, le, iStart, st, tm)
  PROVE  /\ Updated(en, cf, "ACTIVE", iStart)
         /\ lastEnd' = BreaksTaken(en, cf, le, iStart)
<1> DEFINE taken == BreaksTaken(en, cf, le, iStart)
           next == NextBreakDue(en, f, cf, taken, now)
           isDue == next.type # NoType /\ next.time <= now
           announce == isDue /\ st = "ACTIVE"
           relax == ~isDue /\ st # "ACTIVE"
<1>1. /\ ScheduleNextBreak(next, isDue, tm)
      /\ state' = IF announce THEN "BREAK_DUE" ELSE IF relax THEN "ACTIVE" ELSE st
      /\ curType' = IF announce THEN next.type ELSE IF relax THEN NoType ELSE curType
      /\ curStart' = IF announce THEN next.time ELSE IF relax THEN 0 ELSE curStart
      /\ signals' = IF announce THEN {"break-due"} ELSE {}
      /\ lastEnd' = taken /\ idleState' = "ACTIVE" /\ idleStart' = 0
  BY DEF UpdateStateActive
<1>2. taken \in [BreakTypes -> Nat]
  BY DEF BreaksTaken, Callable
<1> HIDE DEF taken
<1>sound. SoundAnswer(en, cf, taken, now, next)
  BY <1>2, NextBreakDueFacts DEF Callable
<1> HIDE DEF next
<1>3. next.type \in BreakTypes \cup {NoType} /\ next.time \in Nat
  BY <1>sound DEF Callable, SoundAnswer
<1>4. /\ timer' \in Nat \cup {NoTimer} /\ skew' \in Int
      /\ ~isDue => Scheduled(en, cf, taken, timer', now - skew')
  BY <1>1, <1>2, <1>sound, ScheduleNextFacts DEF Callable
<1> QED
  BY <1>1, <1>2, <1>3, <1>4 DEF Updated, Callable, BreakStates, SignalNames, taken

\* Either branch.
LEMMA UpdateFacts ==
  ASSUME NEW en, NEW f, NEW cf, NEW le, NEW iState, NEW iStart, NEW st, NEW tm,
         Callable(en, f, cf, le, iState, iStart, st, tm),
         UpdateState(en, f, cf, le, iState, iStart, st, tm)
  PROVE  /\ Updated(en, cf, iState, iStart)
         /\ iState = "ACTIVE" => lastEnd' = BreaksTaken(en, cf, le, iStart)
<1>1. CASE iState = "IDLE"
  BY <1>1, UpdateIdleFacts DEF UpdateState
<1>2. CASE iState = "ACTIVE"
  BY <1>2, UpdateActiveFacts DEF UpdateState
<1> QED BY <1>1, <1>2 DEF Callable, IdleStates

-----------------------------------------------------------------------------
(* The inductive invariant.                                                *)

IInv == TypeOK /\ WatchesFollowState /\ NextTransitionScheduled /\ IdleTimeIsReal

\* What a step that runs _updateState owes besides Updated.
LEMMA UpdatedKeepsIInv ==
  ASSUME NEW iState \in IdleStates, NEW iStart \in Nat,
         Updated(enabled', conf', iState, iStart),
         now' \in Nat, now' > MinBreakLength, steps' \in Nat, now' = now,
         conf' \in [BreakTypes -> Settings],
         enabled' \in SUBSET BreakTypes, first' \in BreakTypes,
         idleWatch' = TRUE, activeWatch' \in BOOLEAN,
         activeWatch' <=> iState = "IDLE",
         sinceInput' \in Nat, idleFired' \in BOOLEAN,
         iState = "IDLE" /\ steps' = 0 => iStart > 0 /\ now - iStart <= sinceInput'
  PROVE  IInv'
<1>1. TypeOK'
  BY DEF TypeOK, Updated
<1>2. WatchesFollowState'
  BY DEF WatchesFollowState, Updated
<1>3. NextTransitionScheduled'
  BY DEF NextTransitionScheduled, Updated, Scheduled, SteadyNow
<1>4. IdleTimeIsReal'
  BY DEF IdleTimeIsReal, Updated, IdleStates
<1> QED BY <1>1, <1>2, <1>3, <1>4 DEF IInv

\* Disabling the reminders resets everything.
LEMMA StopKeepsIInv ==
  ASSUME IInv, StopStateMachine, UNCHANGED <<conf, sinceInput, clockVars>>
  PROVE  IInv'
<1>0. lastEnd' \in [BreakTypes -> Nat] /\ FirstSupported \in BreakTypes
  BY DEF StopStateMachine, FirstSupported, BreakTypes
<1>b. idleWatch' \in BOOLEAN /\ activeWatch' \in BOOLEAN /\ idleFired' \in BOOLEAN
  BY Zenon DEF StopStateMachine, IInv, TypeOK
<1>m. /\ timer' \in Nat \cup {NoTimer} /\ skew' \in Int /\ curStart' \in Nat
      /\ idleStart' \in Nat /\ now' = now /\ steps' = steps
      /\ sinceInput' = sinceInput /\ conf' = conf
  BY DEF StopStateMachine, clockVars
<1>s. /\ enabled' \in SUBSET BreakTypes /\ first' \in BreakTypes
      /\ state' \in BreakStates /\ curType' \in BreakTypes \cup {NoType}
      /\ idleState' \in IdleStates /\ signals' \in SUBSET SignalNames
  BY <1>0 DEF StopStateMachine, BreakStates, IdleStates
<1>1. TypeOK'
  BY <1>0, <1>b, <1>m, <1>s DEF IInv, TypeOK
<1>2. WatchesFollowState'
  BY DEF StopStateMachine, WatchesFollowState
<1>3. NextTransitionScheduled'
  BY DEF StopStateMachine, NextTransitionScheduled
<1>4. IdleTimeIsReal'
  BY DEF StopStateMachine, IdleTimeIsReal
<1> QED BY <1>1, <1>2, <1>3, <1>4 DEF IInv

\* A change of the selected types.
LEMMA SetSelectedKeepsIInv ==
  ASSUME IInv, NEW S \in Selections, SetSelected(S)
  PROVE  IInv'
<1>1. CASE S = {}
  BY <1>1, StopKeepsIInv DEF SetSelected
<1> SUFFICES ASSUME S # {} PROVE IInv'
  BY <1>1
<1>2. /\ UNCHANGED <<conf, sinceInput, now, steps>>
      /\ enabled' = S \cap BreakTypes /\ first' = FirstKey(S)
      /\ \/ state = "DISABLED" /\ StartStateMachine(enabled', first', LastEndFor(S))
         \/ /\ state # "DISABLED"
            /\ UpdateState(enabled', first', conf, LastEndFor(S), idleState,
                           idleStart, state, timer)
            /\ UNCHANGED <<watchVars, idleFired>>
  BY DEF SetSelected, clockVars
<1>3. first' \in BreakTypes
  <2>1. enabled \cap S # {} => (CHOOSE b \in enabled \cap S : TRUE) \in enabled \cap S
    OBVIOUS
  <2> QED BY <1>2, <2>1 DEF FirstKey, FirstSupported, BreakTypes, IInv, TypeOK
<1>4. LastEndFor(S) \in [BreakTypes -> Nat]
  BY DEF LastEndFor, IInv, TypeOK
<1>5. CASE state = "DISABLED"
  <2>1. /\ idleWatch' = TRUE /\ idleFired' = FALSE /\ UNCHANGED activeWatch
        /\ UpdateState(enabled', first', conf, LastEndFor(S), "ACTIVE", 0, "ACTIVE", timer)
    BY <1>2, <1>5 DEF StartStateMachine
  <2>2. Callable(enabled', first', conf, LastEndFor(S), "ACTIVE", 0, "ACTIVE", timer)
    BY <1>2, <1>3, <1>4 DEF Callable, IInv, TypeOK, IdleStates, BreakStates
  <2>3. Updated(enabled', conf, "ACTIVE", 0)
    BY <2>1, <2>2, UpdateFacts
  <2>4. activeWatch' = FALSE
    BY <2>1, <1>5 DEF IInv, WatchesFollowState, TypeOK
  <2> QED
    BY <1>2, <1>3, <2>1, <2>3, <2>4, UpdatedKeepsIInv DEF IInv, TypeOK, IdleStates
<1>6. CASE state # "DISABLED"
  <2>1. /\ UpdateState(enabled', first', conf, LastEndFor(S), idleState,
                       idleStart, state, timer)
        /\ UNCHANGED <<idleWatch, activeWatch, idleFired>>
    BY <1>2, <1>6 DEF watchVars
  <2>2. Callable(enabled', first', conf, LastEndFor(S), idleState, idleStart, state, timer)
    BY <1>2, <1>3, <1>4, <1>6 DEF Callable, IInv, TypeOK
  <2>3. Updated(enabled', conf, idleState, idleStart)
    BY <2>1, <2>2, UpdateFacts
  <2> QED
    BY <1>2, <1>3, <1>6, <2>1, <2>3, UpdatedKeepsIInv
       DEF IInv, TypeOK, WatchesFollowState, IdleTimeIsReal
<1> QED BY <1>5, <1>6

\* A change of the settings of one type.
LEMMA SetTypeSettingsKeepsIInv ==
  ASSUME IInv, NEW b \in BreakTypes, NEW r \in TypeSettings[b], SetTypeSettings(b, r)
  PROVE  IInv'
<1>1. conf' \in [BreakTypes -> Settings] /\ \A c \in BreakTypes \ {b} : conf'[c] = conf[c]
  BY SettingsAssumption DEF SetTypeSettings, IInv, TypeOK
<1>2. UNCHANGED <<enabled, first, idleWatch, activeWatch, sinceInput, idleFired, now, steps>>
  BY DEF SetTypeSettings, mapVars, watchVars, monitorVars, clockVars
<1>3. CASE b \in enabled
  <2>1. UpdateState(enabled, first, conf', lastEnd, idleState, idleStart, state, timer)
    BY <1>3 DEF SetTypeSettings
  <2>2. state # "DISABLED"
    BY <1>3 DEF IInv, WatchesFollowState
  <2>3. Callable(enabled, first, conf', lastEnd, idleState, idleStart, state, timer)
    BY <1>1, <2>2 DEF Callable, IInv, TypeOK
  <2>4. Updated(enabled, conf', idleState, idleStart)
    BY <2>1, <2>3, UpdateFacts
  <2> QED
    BY <1>1, <1>2, <2>2, <2>4, UpdatedKeepsIInv
       DEF IInv, TypeOK, WatchesFollowState, IdleTimeIsReal
<1>4. CASE b \notin enabled
  <2>1. UNCHANGED <<lastEnd, state, curType, curStart, idleState, idleStart, timer, skew>>
        /\ signals' = {}
    BY <1>4 DEF SetTypeSettings, machineVars, timerVars
  <2>2. TypeOK' /\ WatchesFollowState' /\ IdleTimeIsReal'
    BY <1>1, <1>2, <2>1 DEF IInv, TypeOK, WatchesFollowState, IdleTimeIsReal
  <2>3. \A c \in enabled : WouldBeDueAt(conf', lastEnd', c) = WouldBeDueAt(conf, lastEnd, c)
    BY <1>1, <1>4, <2>1 DEF WouldBeDueAt, IInv, TypeOK
  <2>4. NextTransitionScheduled'
    BY <1>2, <2>1, <2>3 DEF IInv, NextTransitionScheduled, SteadyNow
  <2> QED BY <2>2, <2>4 DEF IInv
<1> QED BY <1>3, <1>4

\* The steps that run _updateState without touching settings or clocks.
LEMMA CallbackKeepsIInv ==
  ASSUME IInv, state # "DISABLED",
         NEW le \in [BreakTypes -> Nat], NEW iState \in IdleStates, NEW iStart \in Nat,
         NEW tm \in Nat \cup {NoTimer},
         UpdateState(enabled, first, conf, le, iState, iStart, state, tm),
         UNCHANGED <<conf, enabled, first, idleWatch, now, steps>>,
         activeWatch' \in BOOLEAN, activeWatch' <=> iState = "IDLE",
         sinceInput' \in Nat, idleFired' \in BOOLEAN,
         iState = "IDLE" /\ steps = 0 => iStart > 0 /\ now - iStart <= sinceInput'
  PROVE  IInv'
<1>1. Callable(enabled, first, conf, le, iState, iStart, state, tm)
  BY DEF Callable, IInv, TypeOK
<1>2. Updated(enabled, conf, iState, iStart)
  BY <1>1, UpdateFacts
<1> QED
  BY <1>2, UpdatedKeepsIInv DEF IInv, TypeOK, WatchesFollowState

\* The idle watch fires: the recorded idle time ends now and has lasted
\* MinBreakLength, as the monitor saw.
LEMMA OnIdleWatchKeepsIInv ==
  ASSUME IInv, OnIdleWatch
  PROVE  IInv'
<1>1. /\ idleWatch /\ sinceInput >= MinBreakLength
      /\ idleFired' = TRUE /\ activeWatch' = TRUE
      /\ UpdateState(enabled, first, conf, lastEnd, "IDLE", now - MinBreakLength,
                     state, timer)
      /\ UNCHANGED <<conf, enabled, first, idleWatch, sinceInput, now, steps>>
  BY DEF OnIdleWatch, IdleWatchReady, mapVars, clockVars
<1>2. state # "DISABLED" /\ lastEnd \in [BreakTypes -> Nat] /\ sinceInput \in Nat
      /\ timer \in Nat \cup {NoTimer}
  BY <1>1 DEF IInv, WatchesFollowState, TypeOK
<1>3. /\ now - MinBreakLength \in Nat /\ now - MinBreakLength > 0
      /\ now - (now - MinBreakLength) <= sinceInput
  BY <1>1, TimeAssumption DEF IInv, TypeOK
<1> QED
  BY <1>1, <1>2, <1>3, CallbackKeepsIInv DEF IdleStates

\* Input, with or without an active watch.
LEMMA UserActivityKeepsIInv ==
  ASSUME IInv, UserActivity
  PROVE  IInv'
<1>1. /\ sinceInput' = 0 /\ idleFired' = FALSE
      /\ UNCHANGED <<conf, enabled, first, idleWatch, now, steps>>
  BY DEF UserActivity, mapVars, clockVars
<1>2. CASE activeWatch
  <2>1. /\ activeWatch' = FALSE
        /\ UpdateState(enabled, first, conf, lastEnd, "ACTIVE", idleStart, state, timer)
    BY <1>2 DEF UserActivity, OnUserActiveWatch
  <2>2. state # "DISABLED" /\ lastEnd \in [BreakTypes -> Nat] /\ idleStart \in Nat
        /\ timer \in Nat \cup {NoTimer}
    BY <1>2 DEF IInv, WatchesFollowState, TypeOK
  <2> QED
    BY <1>1, <2>1, <2>2, CallbackKeepsIInv DEF IdleStates
<1>3. CASE ~activeWatch
  <2>1. UNCHANGED <<lastEnd, state, curType, curStart, idleState, idleStart, timer,
                    skew, activeWatch>> /\ signals' = {}
    BY <1>3 DEF UserActivity, machineVars, timerVars
  <2>2. TypeOK' /\ WatchesFollowState'
    BY <1>1, <2>1 DEF IInv, TypeOK, WatchesFollowState
  <2>3. NextTransitionScheduled'
    BY <1>1, <2>1 DEF IInv, NextTransitionScheduled, SteadyNow, WouldBeDueAt
  <2>4. IdleTimeIsReal'
    BY <1>3, <2>1 DEF IInv, WatchesFollowState, IdleTimeIsReal
  <2> QED BY <2>2, <2>3, <2>4 DEF IInv
<1> QED BY <1>2, <1>3

\* The timer fires.
LEMMA TimerFiresKeepsIInv ==
  ASSUME IInv, TimerFires
  PROVE  IInv'
<1>1. /\ timer = 0
      /\ UpdateState(enabled, first, conf, lastEnd, idleState, idleStart, state, NoTimer)
      /\ UNCHANGED <<conf, enabled, first, idleWatch, activeWatch, sinceInput,
                     idleFired, now, steps>>
  BY DEF TimerFires, mapVars, watchVars, monitorVars, clockVars
<1>2. /\ state # "DISABLED" /\ lastEnd \in [BreakTypes -> Nat]
      /\ idleState \in IdleStates /\ idleStart \in Nat /\ sinceInput \in Nat
      /\ activeWatch \in BOOLEAN /\ idleFired \in BOOLEAN
      /\ activeWatch <=> idleState = "IDLE"
      /\ idleState = "IDLE" /\ steps = 0 => idleStart > 0 /\ now - idleStart <= sinceInput
  BY <1>1 DEF IInv, WatchesFollowState, TypeOK, NoTimer, IdleTimeIsReal
<1> QED
  BY <1>1, <1>2, CallbackKeepsIInv

\* The user postpones the breaks that are due, to any end time.
LEMMA PostponeKeepsIInv ==
  ASSUME IInv, NEW le \in [BreakTypes -> Nat], state # "DISABLED",
         UpdateState(enabled, first, conf, le, idleState, idleStart, state, timer),
         UNCHANGED <<conf, mapVars, watchVars, monitorVars, clockVars>>
  PROVE  IInv'
<1>1. UNCHANGED <<conf, enabled, first, idleWatch, activeWatch, sinceInput,
                  idleFired, now, steps>>
  BY DEF mapVars, watchVars, monitorVars, clockVars
<1>2. /\ idleState \in IdleStates /\ idleStart \in Nat /\ sinceInput \in Nat
      /\ activeWatch \in BOOLEAN /\ idleFired \in BOOLEAN
      /\ timer \in Nat \cup {NoTimer}
      /\ activeWatch <=> idleState = "IDLE"
      /\ idleState = "IDLE" /\ steps = 0 => idleStart > 0 /\ now - idleStart <= sinceInput
  BY DEF IInv, WatchesFollowState, TypeOK, IdleTimeIsReal
<1> QED
  BY <1>1, <1>2, CallbackKeepsIInv

\* Time passes, or the wall clock is stepped.
LEMMA ClocksKeepIInv ==
  ASSUME IInv, Tick \/ \E d \in ClockSteps : ClockStep(d)
  PROVE  IInv'
<1>1. CASE Tick
  <2>1. /\ now' = now + 1 /\ timer # 0
        /\ timer' = IF timer = NoTimer THEN NoTimer ELSE timer - 1
        /\ sinceInput' = sinceInput + 1 /\ signals' = {}
        /\ UNCHANGED <<conf, enabled, first, lastEnd, state, curType, curStart, idleState,
                       idleStart, idleWatch, activeWatch, skew, steps, idleFired>>
    BY <1>1 DEF Tick, mapVars, machineVars, watchVars
  <2>2. TypeOK' /\ WatchesFollowState'
    BY <2>1, TimeAssumption DEF IInv, TypeOK, WatchesFollowState, NoTimer
  <2>3. \A b \in enabled : WouldBeDueAt(conf, lastEnd, b) \in Int
    BY WouldBeDueType DEF IInv, TypeOK
  <2>4. NextTransitionScheduled'
    BY <2>1, <2>2, <2>3, TimeAssumption
       DEF IInv, TypeOK, NextTransitionScheduled, SteadyNow, WouldBeDueAt, NoTimer
  <2>5. IdleTimeIsReal'
    BY <2>1 DEF IInv, TypeOK, IdleTimeIsReal
  <2> QED BY <2>2, <2>4, <2>5 DEF IInv
<1>2. ASSUME NEW d \in ClockSteps, ClockStep(d) PROVE IInv'
  <2>1. /\ now' = now + d /\ now + d > MinBreakLength /\ steps' = steps + 1
        /\ skew' = IF timer = NoTimer THEN 0 ELSE skew + d
        /\ signals' = {} /\ d \in Int
        /\ UNCHANGED <<conf, enabled, first, lastEnd, state, curType, curStart, idleState,
                       idleStart, idleWatch, activeWatch, timer, sinceInput, idleFired>>
    BY <1>2, TimeAssumption DEF ClockStep, mapVars, machineVars, watchVars, monitorVars
  <2>2. TypeOK' /\ WatchesFollowState'
    BY <2>1, TimeAssumption DEF IInv, TypeOK, WatchesFollowState
  <2>3. \A b \in enabled : WouldBeDueAt(conf, lastEnd, b) \in Int
    BY WouldBeDueType DEF IInv, TypeOK
  <2>4. timer # NoTimer => SteadyNow' = SteadyNow
    BY <2>1 DEF IInv, TypeOK, SteadyNow
  <2>5. NextTransitionScheduled'
    BY <2>1, <2>2, <2>3, <2>4 DEF IInv, TypeOK, NextTransitionScheduled, WouldBeDueAt
  <2>6. IdleTimeIsReal'
    BY <2>1 DEF IInv, TypeOK, IdleTimeIsReal
  <2> QED BY <2>2, <2>5, <2>6 DEF IInv
<1> QED BY <1>1, <1>2

\* Every step of the specification keeps the inductive invariant.
LEMMA StepKeepsIInv ==
  ASSUME IInv, [Next]_vars
  PROVE  IInv'
<1>1. CASE \E S \in Selections : SetSelected(S)
  BY <1>1, SetSelectedKeepsIInv
<1>2. CASE \E b \in BreakTypes : \E r \in TypeSettings[b] : SetTypeSettings(b, r)
  BY <1>2, SetTypeSettingsKeepsIInv
<1>3. CASE OnIdleWatch
  BY <1>3, OnIdleWatchKeepsIInv
<1>4. CASE UserActivity
  BY <1>4, UserActivityKeepsIInv
<1>5. CASE TimerFires
  BY <1>5, TimerFiresKeepsIInv
<1>6. CASE DelayBreak
  <2> DEFINE le == [b \in BreakTypes |->
                      IF b \in DueTypes(enabled, conf, lastEnd, now)
                      THEN lastEnd[b] + conf[b].delay ELSE lastEnd[b]]
  <2>1. le \in [BreakTypes -> Nat]
    BY DEF IInv, TypeOK, Settings
  <2>2. /\ state # "DISABLED"
        /\ UpdateState(enabled, first, conf, le, idleState, idleStart, state, timer)
        /\ UNCHANGED <<conf, mapVars, watchVars, monitorVars, clockVars>>
    BY <1>6 DEF DelayBreak, PostponeDue
  <2> HIDE DEF le
  <2> QED BY <2>1, <2>2, PostponeKeepsIInv
<1>7. CASE SkipBreak
  <2> DEFINE le == [b \in BreakTypes |->
                      IF b \in DueTypes(enabled, conf, lastEnd, now)
                      THEN now ELSE lastEnd[b]]
  <2>1. le \in [BreakTypes -> Nat]
    BY DEF IInv, TypeOK
  <2>2. /\ state # "DISABLED"
        /\ UpdateState(enabled, first, conf, le, idleState, idleStart, state, timer)
        /\ UNCHANGED <<conf, mapVars, watchVars, monitorVars, clockVars>>
    BY <1>7 DEF SkipBreak, PostponeDue
  <2> HIDE DEF le
  <2> QED BY <2>1, <2>2, PostponeKeepsIInv
<1>8. CASE Tick \/ \E d \in ClockSteps : ClockStep(d)
  BY <1>8, ClocksKeepIInv
<1>9. CASE TakeBreak \/ UNCHANGED vars
  <2>1. /\ UNCHANGED <<conf, enabled, first, lastEnd, state, curType, curStart, idleState,
                       idleStart, idleWatch, activeWatch, timer, skew, sinceInput,
                       idleFired, now, steps>>
        /\ signals' \in SUBSET SignalNames
    BY <1>9 DEF TakeBreak, vars, mapVars, machineVars, watchVars, timerVars, monitorVars,
                clockVars, SignalNames, IInv, TypeOK
  <2>2. TypeOK' /\ WatchesFollowState'
    BY <2>1 DEF IInv, TypeOK, WatchesFollowState
  <2>3. NextTransitionScheduled' /\ IdleTimeIsReal'
    BY <2>1 DEF IInv, NextTransitionScheduled, IdleTimeIsReal, SteadyNow, WouldBeDueAt
  <2> QED BY <2>2, <2>3 DEF IInv
<1> QED
  BY <1>1, <1>2, <1>3, <1>4, <1>5, <1>6, <1>7, <1>8, <1>9 DEF Next

\* The manager is constructed in a state of the inductive invariant.
LEMMA InitIInv == Init => IInv
<1> SUFFICES ASSUME Init PROVE IInv
  OBVIOUS
<1>1. conf \in [BreakTypes -> Settings]
  BY SettingsAssumption DEF Init
<1>2. FirstSupported \in BreakTypes /\ lastEnd \in [BreakTypes -> Nat]
  BY DEF Init, FirstSupported, BreakTypes
<1>b. idleWatch \in BOOLEAN /\ activeWatch \in BOOLEAN /\ idleFired \in BOOLEAN
  BY Zenon DEF Init
<1>m. /\ timer \in Nat \cup {NoTimer} /\ skew \in Int /\ curStart \in Nat
      /\ idleStart \in Nat /\ now \in Nat /\ now > MinBreakLength /\ steps \in Nat
      /\ sinceInput \in Nat
  BY TimeAssumption DEF Init
<1>s. /\ enabled \in SUBSET BreakTypes /\ first \in BreakTypes
      /\ state \in BreakStates /\ curType \in BreakTypes \cup {NoType}
      /\ idleState \in IdleStates /\ signals \in SUBSET SignalNames
  BY <1>2 DEF Init, BreakStates, IdleStates
<1>3. TypeOK
  BY <1>1, <1>2, <1>b, <1>m, <1>s DEF TypeOK
<1>4. WatchesFollowState
  BY DEF Init, WatchesFollowState
<1>5. NextTransitionScheduled /\ IdleTimeIsReal
  BY DEF Init, NextTransitionScheduled, IdleTimeIsReal
<1> QED BY <1>3, <1>4, <1>5 DEF IInv

\* The inductive invariant holds in every reachable state of the manager.
THEOREM BreakManagerInvariant == Spec => []IInv
<1>1. IInv /\ [Next]_vars => IInv'
  BY StepKeepsIInv
<1> QED BY InitIInv, <1>1, PTL DEF Spec

\* Every variable of the break manager stays in its type.
THEOREM BreakManagerTypeOK == Spec => []TypeOK
<1>1. IInv => TypeOK
  BY DEF IInv
<1> QED BY BreakManagerInvariant, <1>1, PTL

\* The idle monitor's watches follow the state, and a disabled manager has no
\* watch and no timer that could call it.
THEOREM WatchesFollowStateAlways == Spec => []WatchesFollowState
<1>1. IInv => WatchesFollowState
  BY DEF IInv
<1> QED BY BreakManagerInvariant, <1>1, PTL

\* In ACTIVE the timer fires within a second of the first break that is due,
\* whatever the settings, their changes and the steps of the wall clock.
THEOREM BreaksAreNeverMissed == Spec => []NextTransitionScheduled
<1>1. IInv => NextTransitionScheduled
  BY DEF IInv
<1> QED BY BreakManagerInvariant, <1>1, PTL

\* While the machine takes the user to be idle, idleStart, which breaks are
\* credited from, is no earlier than the last input, unless the wall clock was
\* stepped.
THEOREM IdleTimeIsAlwaysReal == Spec => []IdleTimeIsReal
<1>1. IInv => IdleTimeIsReal
  BY DEF IInv
<1> QED BY BreakManagerInvariant, <1>1, PTL

\* Only a step of the active watch can end an idle period without disabling the
\* manager, and it credits a break type only with idle time that was real.
THEOREM OnlyEarnedBreaksCount == Spec => BreaksAreEarned
<1> DEFINE A == idleState = "IDLE" /\ idleState' = "ACTIVE" /\ state' # "DISABLED" /\ steps = 0 =>
                  \A b \in enabled : lastEnd'[b] # lastEnd[b] => sinceInput >= conf[b].duration
<1>1. IInv /\ [Next]_vars => [A]_vars
  <2> SUFFICES ASSUME IInv, Next, idleState = "IDLE", idleState' = "ACTIVE",
                      state' # "DISABLED", steps = 0,
                      NEW b \in enabled, lastEnd'[b] # lastEnd[b]
               PROVE  sinceInput >= conf[b].duration
    OBVIOUS
  <2>0. /\ activeWatch /\ state # "DISABLED" /\ idleStart > 0 /\ now - idleStart <= sinceInput
        /\ b \in BreakTypes /\ now \in Nat /\ idleStart \in Nat /\ sinceInput \in Nat
        /\ conf[b].duration \in Nat
    BY DEF IInv, TypeOK, WatchesFollowState, IdleTimeIsReal, Settings
  <2>1. CASE UserActivity
    <3>1. UpdateState(enabled, first, conf, lastEnd, "ACTIVE", idleStart, state, timer)
      BY <2>0, <2>1 DEF UserActivity, OnUserActiveWatch
    <3>2. lastEnd' = BreaksTaken(enabled, conf, lastEnd, idleStart)
      BY <3>1 DEF UpdateState, UpdateStateActive
    <3>3. now - idleStart >= conf[b].duration
      BY <2>0, <3>2 DEF BreaksTaken, IInv, TypeOK
    <3> QED BY <2>0, <3>3
  <2>2. CASE \E S \in Selections : SetSelected(S)
    <3>1. PICK S \in Selections : SetSelected(S)
      BY <2>2
    <3>2. S # {}
      BY <3>1 DEF SetSelected, StopStateMachine
    <3> QED BY <2>0, <3>1, <3>2 DEF SetSelected, UpdateState, UpdateStateIdle
  <2>3. CASE \E c \in BreakTypes : \E r \in TypeSettings[c] : SetTypeSettings(c, r)
    BY <2>3 DEF SetTypeSettings, UpdateState, UpdateStateIdle, machineVars
  <2>4. CASE OnIdleWatch
    BY <2>4 DEF OnIdleWatch, UpdateState, UpdateStateIdle
  <2>5. CASE TimerFires
    BY <2>5 DEF TimerFires, UpdateState, UpdateStateIdle
  <2>6. CASE DelayBreak \/ SkipBreak
    BY <2>6 DEF DelayBreak, SkipBreak, PostponeDue, UpdateState, UpdateStateIdle
  <2>7. CASE TakeBreak \/ Tick \/ \E d \in ClockSteps : ClockStep(d)
    BY <2>7 DEF TakeBreak, Tick, ClockStep, machineVars
  <2> QED
    BY <2>1, <2>2, <2>3, <2>4, <2>5, <2>6, <2>7 DEF Next
<1> QED BY BreakManagerInvariant, <1>1, PTL DEF BreaksAreEarned, Spec

=============================================================================
