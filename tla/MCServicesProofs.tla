-------------------------- MODULE MCServicesProofs --------------------------
(***************************************************************************)
(* Theorems about the calendar, for any calendars, events, times and       *)
(* ranges and any order of crashes, requests and deliveries; and theorems  *)
(* about the services together, which MCServices puts side by side.        *)
(***************************************************************************)
EXTENDS MCServices, ServicesProofs

-----------------------------------------------------------------------------
(* The invariant.                                                          *)

Times == EventTimes \cup {NoTime}
Pairs == Int \X Int
Views == [source : CalSources, range : Pairs, dead : BOOLEAN, reported : [Events -> Times]]
Threads == [source : CalSources, phase : {"started", "connecting", "returned"}]
MessageKinds == {"added", "removed", "disappeared", "vanished", "appeared"} \cup ProxyAnswers
Readers == [waits : BOOLEAN, listens : BOOLEAN, ready : BOOLEAN, cur : Pairs, last : Pairs,
            events : [CalSources \X Events -> Times]]
Messages == [kind : MessageKinds, source : CalSources \cup {"none"},
             event : Events \cup {"none"}, time : Times]

\* The variables have their types.
CalTypes ==
  /\ diary \in [CalSources -> [Events -> Times]]
  /\ registry \subseteq CalSources /\ clients \subseteq CalSources
  /\ threads \in Seq(Threads)
  /\ toServer \in Seq(Pairs) /\ toShell \in Seq(Messages)
  /\ reader \in Readers

\* The views are of different calendars and of the server's range, the shell was
\* told whether there are any, and there are none for a range that is none.
SoundServer(srv) ==
  /\ srv \in [up : BOOLEAN, range : Pairs, views : Seq(Views), told : BOOLEAN]
  /\ \A i, j \in DOMAIN srv.views : srv.views[i].source = srv.views[j].source => i = j
  /\ \A i \in DOMAIN srv.views : srv.views[i].range = srv.range
  /\ srv.told <=> srv.views # <<>>

\* Messages whose reception changes what the reader has of event e of s.
Affects(m, s, e) ==
  \/ m.kind \in {"vanished", "appeared", "loaded"}
  \/ m.kind = "disappeared" /\ m.source = s
  \/ m.kind \in {"added", "removed"} /\ m.source = s /\ m.event = e

\* When all that is on its way is received, the reader has event e of s at time t.
Reaches(sent, has, s, e, t) ==
  \/ \E k \in DOMAIN sent :
       /\ sent[k] = Told("added", s, e, t)
       /\ \A l \in DOMAIN sent : l > k => ~Affects(sent[l], s, e)
  \/ /\ \A l \in DOMAIN sent : ~Affects(sent[l], s, e)
     /\ has[<<s, e>>] = t

\* What a view reported reaches the reader, unless a request is on its way that
\* will make the views anew.
Known(srv, wanted, sent, has) ==
  wanted = <<>> =>
    \A i \in DOMAIN srv.views, e \in Events :
      srv.views[i].reported[e] # NoTime =>
        Reaches(sent, has, srv.views[i].source, e, srv.views[i].reported[e])

\* A reader that hears nothing yet has asked for nothing, and so nothing is reported.
Quiet ==
  /\ ~reader.listens => /\ ~reader.ready /\ toServer = <<>>
                        /\ server.range = NoRange /\ server.views = <<>>
  /\ reader.waits => ~reader.listens /\ \A k \in DOMAIN toShell : toShell[k].kind \notin ProxyAnswers

CalSound ==
  /\ CalTypes
  /\ SoundServer(server)
  /\ Known(server, toServer, toShell, reader.events)

CalInv == CalSound /\ Quiet

-----------------------------------------------------------------------------
(* Sequences.                                                              *)

\* Two sequences joined.
LEMMA Joined ==
  ASSUME NEW S, NEW a \in Seq(S), NEW b \in Seq(S)
  PROVE  /\ a \o b \in Seq(S) /\ Len(a \o b) = Len(a) + Len(b)
         /\ \A k \in 1 .. Len(a) + Len(b) :
              (a \o b)[k] = IF k <= Len(a) THEN a[k] ELSE b[k - Len(a)]
  OBVIOUS

\* What is left when one element is removed.
LEMMA Removed ==
  ASSUME NEW S, NEW s \in Seq(S), NEW n \in DOMAIN s
  PROVE  /\ RemoveAt(s, n) \in Seq(S)
         /\ Len(RemoveAt(s, n)) = Len(s) - 1
         /\ \A k \in 1 .. Len(s) - 1 :
              RemoveAt(s, n)[k] = IF k < n THEN s[k] ELSE s[k + 1]
<1>1. Len(s) \in Nat /\ DOMAIN s = 1 .. Len(s) /\ n \in Nat /\ 1 <= n /\ n <= Len(s)
  OBVIOUS
<1>2. SubSeq(s, 1, n - 1) \in Seq(S) /\ SubSeq(s, n + 1, Len(s)) \in Seq(S)
  BY <1>1
<1>3. Len(SubSeq(s, 1, n - 1)) = n - 1 /\ Len(SubSeq(s, n + 1, Len(s))) = Len(s) - n
  BY <1>1
<1>4. \A k \in 1 .. n - 1 : SubSeq(s, 1, n - 1)[k] = s[k]
  BY <1>1
<1>5. \A k \in 1 .. Len(s) - n : SubSeq(s, n + 1, Len(s))[k] = s[n + k]
  BY <1>1
<1> DEFINE a == SubSeq(s, 1, n - 1)
           b == SubSeq(s, n + 1, Len(s))
<1> HIDE DEF a, b
<1>6. /\ a \o b \in Seq(S) /\ Len(a \o b) = Len(s) - 1
      /\ \A k \in 1 .. Len(s) - 1 : (a \o b)[k] = IF k < n THEN a[k] ELSE b[k - (n - 1)]
  <2>1. a \in Seq(S) /\ b \in Seq(S) /\ Len(a) = n - 1 /\ Len(b) = Len(s) - n
    BY <1>2, <1>3 DEF a, b
  <2>2. /\ a \o b \in Seq(S) /\ Len(a \o b) = Len(a) + Len(b)
        /\ \A k \in 1 .. Len(a) + Len(b) :
             (a \o b)[k] = IF k <= Len(a) THEN a[k] ELSE b[k - Len(a)]
    BY <2>1, Joined, Zenon
  <2> QED BY <1>1, <2>1, <2>2
<1>7. ASSUME NEW k \in 1 .. Len(s) - 1
      PROVE  (a \o b)[k] = IF k < n THEN s[k] ELSE s[k + 1]
  <2>1. CASE k < n
    <3>1. k \in 1 .. n - 1
      BY <1>1, <2>1
    <3> QED BY <1>4, <1>6, <2>1, <3>1 DEF a
  <2>2. CASE ~(k < n)
    <3>1. k - (n - 1) \in 1 .. Len(s) - n /\ n + (k - (n - 1)) = k + 1
      BY <1>1, <2>2
    <3> QED BY <1>5, <1>6, <2>2, <3>1 DEF b
  <2> QED BY <2>1, <2>2
<1> QED BY <1>6, <1>7 DEF RemoveAt, a, b

\* A finite set as a sequence: each element of the set at one place at most.
LEMMA Listed ==
  ASSUME NEW S, IsFiniteSet(S)
  PROVE  /\ Cardinality(S) \in Nat
         /\ SetToSeq(S) \in [1 .. Cardinality(S) -> S]
         /\ \A a, b \in 1 .. Cardinality(S) : SetToSeq(S)[a] = SetToSeq(S)[b] => a = b
<1>1. Cardinality(S) \in Nat /\ ExistsBijection(1 .. Cardinality(S), S)
  BY FS_CardinalityType
<1>2. \E f \in [1 .. Cardinality(S) -> S] : IsInjective(f)
  BY <1>1 DEF ExistsBijection, Bijection, Injection, IsInjective
<1>3. SetToSeq(S) \in [1 .. Cardinality(S) -> S] /\ IsInjective(SetToSeq(S))
  BY <1>2 DEF SetToSeq
<1> QED BY <1>1, <1>3 DEF IsInjective

-----------------------------------------------------------------------------
(* What a change of the views keeps.                                       *)

\* The views of new have reported nothing, or what one of old had.
Kept(new, old) ==
  \A i \in DOMAIN new.views :
    \/ \A e \in Events : new.views[i].reported[e] = NoTime
    \/ \E j \in DOMAIN old.views :
         /\ new.views[i].source = old.views[j].source
         /\ new.views[i].reported = old.views[j].reported

\* A view of the old set is known after the move as it was before it.
LEMMA KeptIsKnown ==
  ASSUME NEW new, NEW old, Kept(new, old), NEW wanted, NEW sent, NEW has,
         Known(old, wanted, sent, has)
  PROVE  Known(new, wanted, sent, has)
  BY DEF Kept, Known

\* A calendar that comes gets a view if it has none.
LEMMA AppearedIsSound ==
  ASSUME NEW srv, SoundServer(srv), NEW s \in CalSources, NEW replies \in BOOLEAN
  PROVE  LET r == ClientAppeared(srv, s, replies)
         IN  SoundServer(r) /\ Kept(r, srv)
<1> DEFINE more == [srv EXCEPT !.views = <<NewView(s, srv.range)>> \o @]
           r == ClientAppeared(srv, s, replies)
           v == NewView(s, srv.range)
           n == Len(srv.views)
<1>1. CASE HasView(srv, s) \/ ~CanStart(srv.range) \/ ~replies
  BY <1>1 DEF ClientAppeared, Kept
<1>2. CASE ~(HasView(srv, s) \/ ~CanStart(srv.range) \/ ~replies)
  <2>1. v \in Views /\ \A e \in Events : v.reported[e] = NoTime
    BY DEF NewView, Views, Times, SoundServer
  <2>v. v.source = s /\ v.range = srv.range
    BY DEF NewView
  <2>2. n \in Nat /\ srv.views \in Seq(Views) /\ DOMAIN srv.views = 1 .. n
    BY DEF SoundServer
  <2> HIDE DEF v
  <2>3. /\ <<v>> \o srv.views \in Seq(Views)
        /\ Len(<<v>> \o srv.views) = n + 1
        /\ (<<v>> \o srv.views)[1] = v
        /\ \A k \in 2 .. n + 1 : (<<v>> \o srv.views)[k] = srv.views[k - 1]
    BY <2>1, <2>2
  <2> DEFINE vs == <<v>> \o srv.views
  <2>4. DOMAIN vs = 1 .. n + 1 /\ vs # <<>>
    BY <2>2, <2>3
  <2>5. more = [srv EXCEPT !.views = vs]
    BY DEF v
  <2> HIDE DEF vs, more
  <2>6. /\ more \in [up : BOOLEAN, range : Pairs, views : Seq(Views), told : BOOLEAN]
        /\ more.views = vs /\ more.range = srv.range /\ more.told = srv.told
    BY <2>3, <2>5 DEF SoundServer, vs
  <2>7. r = IF n + 1 = 1 THEN NotifyHas(more) ELSE more
    BY <1>2, <2>3, <2>6 DEF ClientAppeared, more, vs
  <2>8. /\ r \in [up : BOOLEAN, range : Pairs, views : Seq(Views), told : BOOLEAN]
        /\ r.views = vs /\ r.range = srv.range
    BY <2>6, <2>7 DEF NotifyHas
  <2>9. r.told <=> r.views # <<>>
    <3>1. CASE n = 0
      BY <2>4, <2>6, <2>7, <2>8, <3>1 DEF NotifyHas
    <3>2. CASE n # 0
      <4>1. srv.views # <<>> /\ r.told = srv.told
        BY <2>2, <2>6, <2>7, <3>2
      <4> QED BY <2>4, <2>8, <4>1 DEF SoundServer
    <3> QED BY <3>1, <3>2
  <2>10. \A i, j \in 1 .. n + 1 : vs[i].source = vs[j].source => i = j
    <3>1. \A k \in 1 .. n : srv.views[k].source # s
      BY <1>2, <2>2 DEF HasView
    <3>2. \A i, j \in 1 .. n : srv.views[i].source = srv.views[j].source => i = j
      BY <2>2 DEF SoundServer
    <3>3. vs[1].source = s /\ \A k \in 2 .. n + 1 : vs[k] = srv.views[k - 1] /\ k - 1 \in 1 .. n
      BY <2>v, <2>2, <2>3 DEF vs
    <3>4. \A k \in 1 .. n + 1 : k = 1 \/ k \in 2 .. n + 1
      BY <2>2
    <3> QED
      <4> SUFFICES ASSUME NEW i \in 1 .. n + 1, NEW j \in 1 .. n + 1, vs[i].source = vs[j].source
                   PROVE  i = j
        OBVIOUS
      <4>1. CASE i = 1 /\ j = 1
        BY <4>1
      <4>2. CASE i # 1 /\ j = 1
        BY <3>1, <3>3, <3>4, <4>2
      <4>3. CASE i = 1 /\ j # 1
        BY <3>1, <3>3, <3>4, <4>3
      <4>4. CASE i # 1 /\ j # 1
        <5>1. i \in 2 .. n + 1 /\ j \in 2 .. n + 1
          BY <2>2, <4>4
        <5>2. /\ i - 1 \in 1 .. n /\ j - 1 \in 1 .. n
              /\ srv.views[i - 1].source = srv.views[j - 1].source
          BY <3>3, <5>1
        <5>3. i - 1 = j - 1
          BY <3>2, <5>2
        <5> QED BY <5>1, <5>3
      <4> QED BY <4>1, <4>2, <4>3, <4>4
  <2>11. \A i \in 1 .. n + 1 : vs[i] = v \/ \E j \in 1 .. n : vs[i] = srv.views[j]
    BY <2>2, <2>3 DEF vs
  <2>12. \A i \in 1 .. n + 1 : vs[i].range = srv.range
    BY <2>v, <2>2, <2>11 DEF SoundServer
  <2>13. SoundServer(r)
    BY <2>4, <2>8, <2>9, <2>10, <2>12 DEF SoundServer
  <2>14. Kept(r, srv)
    BY <2>1, <2>2, <2>4, <2>8, <2>11 DEF Kept
  <2> QED BY <2>13, <2>14
<1> QED BY <1>1, <1>2

\* The view of a calendar that goes is the only one of it that there was.
LEMMA DisappearedIsSound ==
  ASSUME NEW srv, SoundServer(srv), NEW s \in CalSources, HasView(srv, s)
  PROVE  LET r == ClientDisappeared(srv, s)
         IN  /\ SoundServer(r) /\ Kept(r, srv)
             /\ \A i \in DOMAIN r.views : r.views[i].source # s
<1> DEFINE P(i) == srv.views[i].source = s /\ \A j \in 1 .. i - 1 : srv.views[j].source # s
           f == CHOOSE i \in DOMAIN srv.views : P(i)
           less == [srv EXCEPT !.views = RemoveAt(@, f)]
           vs == RemoveAt(srv.views, f)
           r == ClientDisappeared(srv, s)
           n == Len(srv.views)
<1>1. n \in Nat /\ srv.views \in Seq(Views) /\ DOMAIN srv.views = 1 .. n
  BY DEF SoundServer
<1>2. \E i \in DOMAIN srv.views : P(i)
  <2>1. PICK i \in DOMAIN srv.views : srv.views[i].source = s
    BY DEF HasView
  <2>2. ASSUME NEW j \in 1 .. i - 1 PROVE srv.views[j].source # s
    <3>1. j \in DOMAIN srv.views /\ j # i
      BY <1>1, <2>1
    <3> QED BY <2>1, <3>1 DEF SoundServer
  <2> QED BY <2>1, <2>2
<1>3. f \in DOMAIN srv.views /\ srv.views[f].source = s
  BY <1>2
<1>4. r = IF less.views = <<>> THEN NotifyHas(less) ELSE less
  BY DEF ClientDisappeared
<1> HIDE DEF f
<1>5. /\ vs \in Seq(Views) /\ Len(vs) = n - 1
      /\ \A k \in 1 .. n - 1 : vs[k] = IF k < f THEN srv.views[k] ELSE srv.views[k + 1]
  BY <1>1, <1>3, Removed
<1> HIDE DEF vs
<1>6. /\ less \in [up : BOOLEAN, range : Pairs, views : Seq(Views), told : BOOLEAN]
      /\ less.views = vs /\ less.range = srv.range /\ less.told = srv.told
  BY <1>5 DEF SoundServer, vs
<1> HIDE DEF less
<1>7. /\ r \in [up : BOOLEAN, range : Pairs, views : Seq(Views), told : BOOLEAN]
      /\ r.views = vs /\ r.range = srv.range
  BY <1>4, <1>6 DEF NotifyHas
<1>8. r.told <=> r.views # <<>>
  <2>1. CASE vs = <<>>
    BY <1>4, <1>6, <2>1 DEF NotifyHas
  <2>2. CASE vs # <<>>
    <3>1. srv.views # <<>> /\ r.told = srv.told
      BY <1>1, <1>3, <1>4, <1>6, <2>2
    <3> QED BY <1>7, <2>2, <3>1 DEF SoundServer
  <2> QED BY <2>1, <2>2
<1> DEFINE old(k) == IF k < f THEN k ELSE k + 1
<1>9. \A k \in 1 .. n - 1 : old(k) \in 1 .. n /\ old(k) # f /\ vs[k] = srv.views[old(k)]
  BY <1>1, <1>3, <1>5
<1>10. \A k, l \in 1 .. n - 1 : old(k) = old(l) => k = l
  BY <1>1, <1>3
<1>11. DOMAIN vs = 1 .. n - 1
  BY <1>1, <1>5
<1>12. \A i, j \in 1 .. n : srv.views[i].source = srv.views[j].source => i = j
  BY <1>1 DEF SoundServer
<1> HIDE DEF old
<1>13. \A i, j \in 1 .. n - 1 : vs[i].source = vs[j].source => i = j
  BY <1>9, <1>10, <1>12
<1>14. \A i \in 1 .. n - 1 : vs[i].range = srv.range
  BY <1>1, <1>9 DEF SoundServer
<1>15. \A i \in 1 .. n - 1 : vs[i].source # s
  BY <1>1, <1>3, <1>9, <1>12
<1>16. SoundServer(r)
  BY <1>7, <1>8, <1>11, <1>13, <1>14 DEF SoundServer
<1>17. Kept(r, srv)
  BY <1>1, <1>7, <1>9, <1>11 DEF Kept
<1> QED BY <1>7, <1>11, <1>15, <1>16, <1>17

\* The views a request makes anew are of different calendars and have reported
\* nothing.
LEMMA UpdatedIsSound ==
  ASSUME NEW srv, SoundServer(srv), NEW range \in Pairs, NEW answering \in SUBSET CalSources
  PROVE  LET r == UpdateViews([srv EXCEPT !.range = range], answering)
         IN  /\ SoundServer(r)
             /\ \A i \in DOMAIN r.views, e \in Events : r.views[i].reported[e] = NoTime
<1> DEFINE ranged == [srv EXCEPT !.range = range]
           c == Cardinality(answering)
           list == [i \in 1 .. c |-> NewView(SetToSeq(answering)[i], range)]
           vs == IF CanStart(range) THEN list ELSE <<>>
           fresh == [ranged EXCEPT !.views = vs]
           r == UpdateViews(ranged, answering)
<1>1. /\ ranged \in [up : BOOLEAN, range : Pairs, views : Seq(Views), told : BOOLEAN]
      /\ ranged.range = range /\ ranged.views = srv.views /\ ranged.told = srv.told
  BY DEF SoundServer
<1>2. IsFiniteSet(answering)
  BY FS_Subset, CalendarAssumption
<1>3. /\ c \in Nat /\ SetToSeq(answering) \in [1 .. c -> answering]
      /\ \A a, b \in 1 .. c : SetToSeq(answering)[a] = SetToSeq(answering)[b] => a = b
  BY <1>2, Listed
<1>4. r = IF (vs # <<>>) # (srv.views # <<>>) THEN NotifyHas(fresh) ELSE fresh
  BY <1>1 DEF UpdateViews
<1>5. ASSUME NEW s \in CalSources
      PROVE  LET v == NewView(s, range)
             IN  /\ v \in Views /\ v.source = s /\ v.range = range
                 /\ \A e \in Events : v.reported[e] = NoTime
  BY DEF NewView, Views, Times
<1> HIDE DEF c, ranged
<1>6. /\ list \in Seq(Views) /\ DOMAIN list = 1 .. c
      /\ \A i \in 1 .. c : /\ list[i].source = SetToSeq(answering)[i] /\ list[i].range = range
                           /\ \A e \in Events : list[i].reported[e] = NoTime
  <2>1. \A i \in 1 .. c : SetToSeq(answering)[i] \in CalSources
    BY <1>3
  <2>2. \A i \in 1 .. c : list[i] = NewView(SetToSeq(answering)[i], range)
    OBVIOUS
  <2> HIDE DEF list
  <2>3. \A i \in 1 .. c : list[i] \in Views
    BY <1>5, <2>1, <2>2
  <2>4. list \in [1 .. c -> Views]
    BY <2>3 DEF list
  <2>5. list \in Seq(Views)
    BY <1>3, <2>4
  <2> QED BY <1>5, <2>1, <2>2, <2>4, <2>5
<1> HIDE DEF list
<1>7. /\ vs \in Seq(Views)
      /\ \A i, j \in DOMAIN vs : vs[i].source = vs[j].source => i = j
      /\ \A i \in DOMAIN vs : vs[i].range = range /\ \A e \in Events : vs[i].reported[e] = NoTime
  BY <1>3, <1>6
<1> HIDE DEF vs
<1>8. /\ fresh \in [up : BOOLEAN, range : Pairs, views : Seq(Views), told : BOOLEAN]
      /\ fresh.views = vs /\ fresh.range = range /\ fresh.told = srv.told
  BY <1>1, <1>7
<1> HIDE DEF fresh
<1>9. /\ r \in [up : BOOLEAN, range : Pairs, views : Seq(Views), told : BOOLEAN]
      /\ r.views = vs /\ r.range = range
  BY <1>4, <1>8 DEF NotifyHas
<1>10. r.told <=> r.views # <<>>
  <2>1. CASE (vs # <<>>) # (srv.views # <<>>)
    BY <1>4, <1>8, <2>1 DEF NotifyHas
  <2>2. CASE (vs # <<>>) = (srv.views # <<>>)
    <3>1. r.told = srv.told
      BY <1>4, <1>8, <2>2
    <3> QED BY <1>9, <2>2, <3>1 DEF SoundServer
  <2> QED BY <2>1, <2>2
<1> QED BY <1>7, <1>9, <1>10 DEF SoundServer, ranged

-----------------------------------------------------------------------------
(* What a message changes.                                                 *)

\* A message at the end of the queue that does not affect an event.
LEMMA SentUnaffected ==
  ASSUME NEW sent \in Seq(Messages), NEW has, NEW s, NEW e, NEW t,
         Reaches(sent, has, s, e, t), NEW m \in Messages, ~Affects(m, s, e)
  PROVE  Reaches(Append(sent, m), has, s, e, t)
<1> DEFINE more == Append(sent, m)
           n == Len(sent)
<1>1. /\ n \in Nat /\ DOMAIN sent = 1 .. n /\ DOMAIN more = 1 .. n + 1
      /\ more[n + 1] = m /\ \A k \in 1 .. n : more[k] = sent[k]
  OBVIOUS
<1> HIDE DEF more
<1>2. \A l \in DOMAIN more : l \in DOMAIN sent \/ ~Affects(more[l], s, e)
  BY <1>1
<1>3. CASE \E k \in DOMAIN sent :
             /\ sent[k] = Told("added", s, e, t)
             /\ \A l \in DOMAIN sent : l > k => ~Affects(sent[l], s, e)
  BY <1>1, <1>2, <1>3 DEF Reaches, more
<1>4. CASE /\ \A l \in DOMAIN sent : ~Affects(sent[l], s, e)
           /\ has[<<s, e>>] = t
  BY <1>1, <1>2, <1>4 DEF Reaches, more
<1> QED BY <1>3, <1>4 DEF Reaches

\* A report at the end of the queue is what the reader will have.
LEMMA SentReaches ==
  ASSUME NEW sent \in Seq(Messages), NEW has, NEW s, NEW e, NEW t
  PROVE  Reaches(Append(sent, Told("added", s, e, t)), has, s, e, t)
<1> DEFINE more == Append(sent, Told("added", s, e, t))
           n == Len(sent)
<1>1. n \in Nat /\ DOMAIN more = 1 .. n + 1 /\ more[n + 1] = Told("added", s, e, t)
  OBVIOUS
<1> HIDE DEF more
<1>2. \A l \in DOMAIN more : ~(l > n + 1)
  BY <1>1
<1> QED BY <1>1, <1>2 DEF Reaches, more

\* The reader receives the first message of the queue.
LEMMA ReceivedReaches ==
  ASSUME NEW sent \in Seq(Messages), sent # <<>>, NEW s \in CalSources, NEW e \in Events, NEW t,
         NEW rd \in Readers, rd.listens,
         Reaches(sent, rd.events, s, e, t)
  PROVE  Reaches(Tail(sent), Received(rd, Head(sent)).events, s, e, t)
<1> DEFINE rest == Tail(sent)
           n == Len(sent)
           new == Received(rd, Head(sent)).events
<1>1. /\ n \in Nat /\ n >= 1 /\ DOMAIN sent = 1 .. n /\ DOMAIN rest = 1 .. n - 1
      /\ \A k \in 1 .. n - 1 : rest[k] = sent[k + 1]
      /\ Head(sent) = sent[1] /\ sent[1] \in Messages
  OBVIOUS
<1> HIDE DEF rest
<1>2. CASE \A l \in DOMAIN sent : ~Affects(sent[l], s, e)
  <2>1. \A l \in DOMAIN rest : ~Affects(rest[l], s, e)
    BY <1>1, <1>2
  <2>2. rd.events[<<s, e>>] = t
    BY <1>2 DEF Reaches, Affects, Told
  <2>3. ~Affects(sent[1], s, e)
    BY <1>1, <1>2
  <2>4. new[<<s, e>>] = rd.events[<<s, e>>]
    BY <1>1, <2>3 DEF Received, Heard, Initialized, ProxyAnswers, Affects, Messages, MessageKinds, Readers
  <2> QED BY <2>1, <2>2, <2>4 DEF Reaches, rest
<1>3. CASE \E k \in DOMAIN sent :
             /\ sent[k] = Told("added", s, e, t)
             /\ \A l \in DOMAIN sent : l > k => ~Affects(sent[l], s, e)
  <2>1. PICK k \in DOMAIN sent :
             /\ sent[k] = Told("added", s, e, t)
             /\ \A l \in DOMAIN sent : l > k => ~Affects(sent[l], s, e)
    BY <1>3
  <2>2. CASE k = 1
    <3>1. \A l \in DOMAIN rest : ~Affects(rest[l], s, e)
      <4> SUFFICES ASSUME NEW l \in DOMAIN rest PROVE ~Affects(rest[l], s, e)
        OBVIOUS
      <4>1. l + 1 \in DOMAIN sent /\ l + 1 > 1 /\ rest[l] = sent[l + 1]
        BY <1>1
      <4> QED BY <2>1, <2>2, <4>1
    <3>2. new[<<s, e>>] = t
      BY <1>1, <2>1, <2>2 DEF Received, Heard, ProxyAnswers, Told, Readers
    <3> QED BY <3>1, <3>2 DEF Reaches, rest
  <2>3. CASE k # 1
    <3>1. k - 1 \in DOMAIN rest /\ rest[k - 1] = Told("added", s, e, t)
      BY <1>1, <2>1, <2>3
    <3>2. \A l \in DOMAIN rest : l > k - 1 => ~Affects(rest[l], s, e)
      <4> SUFFICES ASSUME NEW l \in DOMAIN rest, l > k - 1 PROVE ~Affects(rest[l], s, e)
        OBVIOUS
      <4>1. l + 1 \in DOMAIN sent /\ l + 1 > k /\ rest[l] = sent[l + 1]
        BY <1>1
      <4> QED BY <2>1, <4>1
    <3> QED BY <3>1, <3>2 DEF Reaches, rest
  <2> QED BY <2>2, <2>3
<1> QED BY <1>2, <1>3 DEF Reaches

\* What is received keeps the reader's types.
LEMMA ReceivedTyped ==
  ASSUME NEW rd \in Readers, NEW m \in Messages
  PROVE  /\ Received(rd, m) \in Readers
         /\ rd.listens => Received(rd, m).listens
         /\ ~Received(rd, m).listens => Received(rd, m) = rd
<1>1. NoRange \in Pairs /\ NoEvents \in [CalSources \X Events -> Times]
  BY DEF NoRange, Pairs, NoEvents, Times
<1>2. m.kind \in MessageKinds /\ m.time \in Times /\ NoTime \in Times
  BY DEF Messages, Times
<1>3. ASSUME NEW r \in Readers
      PROVE  OnNameAppeared(r) \in Readers /\ OnNameAppeared(r).listens = r.listens
  BY <1>1 DEF OnNameAppeared, ResetCache, LoadEvents, Readers
<1>4. ASSUME m.kind \notin ProxyAnswers
      PROVE  Heard(rd, m) \in Readers /\ Heard(rd, m).listens = rd.listens
  <2>1. CASE m.kind = "added"
    BY <1>2, <2>1 DEF Heard, Readers
  <2>2. CASE m.kind = "removed"
    BY <1>2, <2>2 DEF Heard, Readers
  <2>3. CASE m.kind = "disappeared"
    BY <1>2, <2>3 DEF Heard, Readers
  <2>4. CASE m.kind = "vanished"
    BY <1>1, <2>4 DEF Heard, ResetCache, Readers
  <2>5. CASE m.kind = "appeared"
    BY <1>3, <2>5 DEF Heard
  <2> QED BY <1>2, <1>4, <2>1, <2>2, <2>3, <2>4, <2>5 DEF MessageKinds
<1>5. CASE m.kind \in ProxyAnswers
  <2>1. [rd EXCEPT !.listens = TRUE] \in Readers /\ [rd EXCEPT !.listens = TRUE].listens
    BY DEF Readers
  <2>2. OnNameAppeared([rd EXCEPT !.listens = TRUE]) \in Readers
        /\ OnNameAppeared([rd EXCEPT !.listens = TRUE]).listens
    BY <1>3, <2>1
  <2> QED BY <1>5, <2>1, <2>2 DEF Received, Initialized, ProxyAnswers
<1>6. CASE m.kind \notin ProxyAnswers
  BY <1>4, <1>6 DEF Received
<1> QED BY <1>5, <1>6

-----------------------------------------------------------------------------
(* The steps.                                                              *)

\* At the start no view has reported and nothing is on its way.
LEMMA CalInitInv == CalInit => CalInv
<1> SUFFICES ASSUME CalInit PROVE CalInv
  OBVIOUS
<1>1. NoRange \in Pairs /\ NoEvents \in [CalSources \X Events -> Times]
  BY DEF NoRange, Pairs, NoEvents, Times
<1>2. CalTypes
  BY <1>1 DEF CalInit, CalTypes, Times, Readers
<1>3. SoundServer(server)
  BY <1>1 DEF CalInit, SoundServer, FreshServer
<1>4. Known(server, toServer, toShell, reader.events)
  BY DEF CalInit, Known, FreshServer
<1>5. Quiet
  BY DEF CalInit, Quiet, FreshServer, ProxyAnswers
<1> QED BY <1>2, <1>3, <1>4, <1>5 DEF CalInv, CalSound

\* A server without views is sound and owes the reader nothing.
LEMMA FreshIsSound ==
  ASSUME NEW up \in BOOLEAN
  PROVE  /\ SoundServer(FreshServer(up))
         /\ \A wanted, sent, has : Known(FreshServer(up), wanted, sent, has)
<1>1. NoRange \in Pairs
  BY DEF NoRange, Pairs
<1> QED BY <1>1 DEF SoundServer, FreshServer, Known

\* A calendar that comes only starts a connection.
LEMMA SourceAppearedKeepsInv ==
  ASSUME CalSound, NEW s \in CalSources, SourceAppeared(s)
  PROVE  CalSound'
<1>1. Connect(s) \in Threads
  BY DEF Connect, Threads
<1>2. threads' \in Seq(Threads)
  BY <1>1 DEF CalSound, CalTypes, SourceAppeared
<1>3. UNCHANGED <<diary, clients, server, toServer, toShell, reader>> /\ registry' \subseteq CalSources
  BY DEF CalSound, CalTypes, SourceAppeared
<1> QED BY <1>2, <1>3 DEF CalSound, CalTypes

\* A calendar that goes takes its view along.
LEMMA SourceDisappearedKeepsInv ==
  ASSUME CalSound, NEW s \in CalSources, SourceDisappeared(s)
  PROVE  CalSound'
<1> DEFINE m == Told("disappeared", s, "none", NoTime)
<1>1. /\ UNCHANGED <<diary, threads, toServer, reader>>
      /\ registry' \subseteq CalSources /\ clients' \subseteq CalSources
  BY DEF CalSound, CalTypes, SourceDisappeared
<1>2. CASE s \in clients /\ HasView(server, s)
  <2>1. server' = ClientDisappeared(server, s) /\ toShell' = Append(toShell, m)
    BY <1>2 DEF SourceDisappeared
  <2>2. /\ SoundServer(server') /\ Kept(server', server)
        /\ \A i \in DOMAIN server'.views : server'.views[i].source # s
    BY <1>2, <2>1, DisappearedIsSound DEF CalSound
  <2>3. m \in Messages /\ toShell \in Seq(Messages) /\ toShell' \in Seq(Messages)
    BY <2>1 DEF CalSound, CalTypes, Messages, Told, MessageKinds, Times
  <2>4. Known(server', toServer, toShell, reader.events)
    BY <2>2, KeptIsKnown DEF CalSound
  <2>5. Known(server', toServer, toShell', reader.events)
    <3> SUFFICES ASSUME toServer = <<>>, NEW i \in DOMAIN server'.views, NEW e \in Events,
                        server'.views[i].reported[e] # NoTime
                 PROVE  Reaches(toShell', reader.events, server'.views[i].source, e,
                                server'.views[i].reported[e])
      BY DEF Known
    <3>1. ~Affects(m, server'.views[i].source, e)
      BY <2>2 DEF Affects, Told
    <3>2. Reaches(toShell, reader.events, server'.views[i].source, e, server'.views[i].reported[e])
      BY <2>4 DEF Known
    <3> HIDE DEF m
    <3> QED BY <2>1, <2>3, <3>1, <3>2, SentUnaffected
  <2> QED BY <1>1, <2>2, <2>3, <2>5 DEF CalSound, CalTypes
<1>3. CASE ~(s \in clients /\ HasView(server, s))
  <2>1. UNCHANGED <<server, toShell>>
    BY <1>3 DEF SourceDisappeared
  <2> QED BY <1>1, <2>1 DEF CalSound, CalTypes
<1> QED BY <1>2, <1>3

\* The view of a backend that died is dead, and reports no more.
LEMMA BackendDiedKeepsInv ==
  ASSUME CalSound, NEW s \in CalSources, BackendDied(s)
  PROVE  CalSound'
<1> DEFINE old == server.views
           vs == [i \in DOMAIN old |->
                    IF old[i].source = s THEN [old[i] EXCEPT !.dead = TRUE] ELSE old[i]]
<1>1. UNCHANGED <<registry, diary, threads, toServer, toShell, reader>> /\ clients' \subseteq CalSources
  BY DEF CalSound, CalTypes, BackendDied
<1>2. server' = [server EXCEPT !.views = vs]
  BY DEF BackendDied
<1>3. old \in Seq(Views) /\ Len(old) \in Nat /\ DOMAIN old = 1 .. Len(old)
  BY DEF CalSound, SoundServer
<1>4. \A i \in DOMAIN old : /\ vs[i] \in Views /\ vs[i].source = old[i].source
                           /\ vs[i].range = old[i].range /\ vs[i].reported = old[i].reported
  <2> SUFFICES ASSUME NEW i \in DOMAIN old
               PROVE  /\ vs[i] \in Views /\ vs[i].source = old[i].source
                      /\ vs[i].range = old[i].range /\ vs[i].reported = old[i].reported
    OBVIOUS
  <2>1. old[i] \in Views
    BY <1>3
  <2> QED BY <2>1 DEF Views
<1>5. vs \in [1 .. Len(old) -> Views]
  BY <1>3, <1>4
<1> HIDE DEF vs
<1>6. vs \in Seq(Views) /\ DOMAIN vs = DOMAIN old /\ (vs = <<>> <=> old = <<>>)
  BY <1>3, <1>5
<1>7. /\ server' \in [up : BOOLEAN, range : Pairs, views : Seq(Views), told : BOOLEAN]
      /\ server'.views = vs /\ server'.range = server.range /\ server'.told = server.told
  BY <1>2, <1>6 DEF CalSound, SoundServer
<1>8. SoundServer(server')
  BY <1>4, <1>6, <1>7 DEF CalSound, SoundServer
<1>9. Kept(server', server)
  BY <1>4, <1>6, <1>7 DEF Kept
<1>10. Known(server', toServer, toShell, reader.events)
  BY <1>9, KeptIsKnown DEF CalSound
<1> QED BY <1>1, <1>8, <1>10 DEF CalSound, CalTypes

\* The steps of a connecting thread.
LEMMA ThreadKeepsInv ==
  ASSUME CalSound, NEW n \in Nat,
         ThreadLookup(n) \/ \E connects \in BOOLEAN : ThreadConnected(n, connects)
  PROVE  CalSound'
<1>1. UNCHANGED <<registry, diary, server, toServer, toShell, reader>>
  BY DEF ThreadLookup, ThreadConnected
<1>2. threads \in Seq(Threads) /\ n \in DOMAIN threads /\ threads[n] \in Threads
  BY DEF CalSound, CalTypes, ThreadLookup, ThreadConnected
<1>3. RemoveAt(threads, n) \in Seq(Threads)
  BY <1>2, Removed
<1>4. \A ph \in {"connecting", "returned"} : [threads EXCEPT ![n].phase = ph] \in Seq(Threads)
  <2> SUFFICES ASSUME NEW ph \in {"connecting", "returned"}
               PROVE  [threads EXCEPT ![n].phase = ph] \in Seq(Threads)
    OBVIOUS
  <2> DEFINE t == [threads[n] EXCEPT !.phase = ph]
  <2>1. t \in Threads
    BY <1>2 DEF Threads
  <2>2. [threads EXCEPT ![n].phase = ph] = [threads EXCEPT ![n] = t]
    OBVIOUS
  <2> HIDE DEF t
  <2>3. [threads EXCEPT ![n] = t] \in Seq(Threads)
    BY <1>2, <2>1
  <2> QED BY <2>2, <2>3
<1>5. threads' \in Seq(Threads)
  <2>1. CASE ThreadLookup(n)
    BY <1>4, <2>1 DEF ThreadLookup
  <2>2. CASE \E connects \in BOOLEAN : ThreadConnected(n, connects)
    BY <1>3, <1>4, <2>2 DEF ThreadConnected
  <2> QED BY <2>1, <2>2
<1>6. clients' \subseteq CalSources
  <2>1. clients' = clients \/ clients' = clients \cup {threads[n].source}
    BY DEF ThreadLookup, ThreadConnected
  <2>2. threads[n].source \in CalSources /\ clients \subseteq CalSources
    BY <1>2 DEF CalSound, CalTypes, Threads
  <2> QED BY <2>1, <2>2
<1> QED BY <1>1, <1>5, <1>6 DEF CalSound, CalTypes

\* A backend that has answered gets a view, which reports everything anew.
LEMMA ClientConnectedKeepsInv ==
  ASSUME CalSound, NEW n \in Nat, NEW replies \in BOOLEAN, ClientConnected(n, replies)
  PROVE  CalSound'
<1>1. UNCHANGED <<registry, diary, clients, toServer, toShell, reader>>
  BY DEF ClientConnected
<1>a. threads \in Seq(Threads) /\ n \in DOMAIN threads
  BY DEF CalSound, CalTypes, ClientConnected
<1>b. threads[n] \in Threads
  BY <1>a
<1>2. threads \in Seq(Threads) /\ n \in DOMAIN threads /\ threads[n].source \in CalSources
  BY <1>a, <1>b DEF Threads
<1>3. threads' \in Seq(Threads)
  BY <1>2, Removed DEF ClientConnected
<1>4. server' = ClientAppeared(server, threads[n].source, replies)
  BY DEF ClientConnected
<1>5. SoundServer(server') /\ Kept(server', server)
  BY <1>2, <1>4, AppearedIsSound DEF CalSound
<1>6. Known(server', toServer, toShell, reader.events)
  BY <1>5, KeptIsKnown DEF CalSound
<1> QED BY <1>1, <1>3, <1>5, <1>6 DEF CalSound, CalTypes

\* The shell asks for a range; until the answer, nothing need be known.
LEMMA SetTimeRangeKeepsInv ==
  ASSUME CalSound, NEW answering \in SUBSET CalSources, SetTimeRange(answering)
  PROVE  CalSound'
<1>1. UNCHANGED <<registry, diary, clients, threads, toShell, reader>>
  BY DEF SetTimeRange
<1>2. toServer' \in Seq(Pairs) /\ Head(toServer) \in Pairs
  BY DEF CalSound, CalTypes, SetTimeRange
<1>3. server' = UpdateViews([server EXCEPT !.range = Head(toServer)], answering)
  BY DEF SetTimeRange, Reloads
<1>4. /\ SoundServer(server')
      /\ \A i \in DOMAIN server'.views, e \in Events : server'.views[i].reported[e] = NoTime
  BY <1>2, <1>3, UpdatedIsSound DEF CalSound
<1>5. Known(server', toServer', toShell, reader.events)
  BY <1>4 DEF Known
<1> QED BY <1>1, <1>2, <1>4, <1>5 DEF CalSound, CalTypes

\* What a view reports is what the shell is told: everything that overlaps the
\* range passes the server's filter.
LEMMA OverlappingPasses ==
  ASSUME NEW time \in Pairs, NEW range \in Pairs, Overlaps(time, range)
  PROVE  PassesFilter(time, range)
  BY DEF Pairs, Overlaps, PassesFilter

\* A view reports what is in its calendar, and the signal is on its way.
LEMMA ViewReportsKeepsInv ==
  ASSUME CalSound, NEW i \in Nat, NEW e \in Events, ViewReports(i, e)
  PROVE  CalSound'
<1> DEFINE v == server.views[i]
           t == Wanted(v.source, e, v.range)
           w == [v EXCEPT !.reported[e] = t]
           vs == [server.views EXCEPT ![i] = w]
<1>1. UNCHANGED <<registry, diary, clients, threads, toServer, reader>>
  BY DEF ViewReports
<1>2. /\ i \in DOMAIN server.views /\ server.views \in Seq(Views) /\ v \in Views
      /\ DOMAIN server.views = 1 .. Len(server.views) /\ Len(server.views) \in Nat
      /\ v.range = server.range /\ server.range \in Pairs
  BY DEF CalSound, SoundServer, ViewReports
<1>3. v.source \in CalSources /\ v.reported \in [Events -> Times]
  BY <1>2 DEF Views
<1>4. t \in Times /\ (t # NoTime => t \in Pairs /\ Overlaps(t, v.range))
  BY <1>3, CalendarAssumption DEF Wanted, CalSound, CalTypes, Times, Pairs
<1>5. server' = [server EXCEPT !.views[i].reported[e] = t]
  BY DEF ViewReports
<1>6. toShell' = IF t = NoTime THEN Append(toShell, Told("removed", v.source, e, NoTime))
                 ELSE IF PassesFilter(t, server.range) THEN Append(toShell, Told("added", v.source, e, t))
                 ELSE toShell
  BY DEF ViewReports
<1> HIDE DEF t
<1>7. server' = [server EXCEPT !.views = vs]
  BY <1>5
<1> HIDE DEF v
<1>8. /\ w \in Views /\ w.source = v.source /\ w.range = v.range /\ w.reported[e] = t
      /\ \A f \in Events : f # e => w.reported[f] = v.reported[f]
  BY <1>2, <1>3, <1>4 DEF Views
<1> HIDE DEF w
<1>9. /\ vs \in Seq(Views) /\ DOMAIN vs = DOMAIN server.views /\ vs[i] = w /\ vs # <<>>
      /\ \A j \in DOMAIN vs : j # i => vs[j] = server.views[j]
  BY <1>2, <1>8
<1> HIDE DEF vs
<1>10. /\ server' \in [up : BOOLEAN, range : Pairs, views : Seq(Views), told : BOOLEAN]
       /\ server'.views = vs /\ server'.range = server.range /\ server'.told = server.told
  BY <1>7, <1>9 DEF CalSound, SoundServer
<1>11. \A j \in DOMAIN vs : vs[j].source = server.views[j].source /\ vs[j].range = server.views[j].range
  BY <1>8, <1>9 DEF v
<1>12. server.views # <<>>
  BY <1>2
<1>13. SoundServer(server')
  BY <1>9, <1>10, <1>11, <1>12 DEF CalSound, SoundServer
<1> DEFINE m == IF t = NoTime THEN Told("removed", v.source, e, NoTime)
                ELSE Told("added", v.source, e, t)
<1>14. toShell' = Append(toShell, m)
  BY <1>2, <1>4, <1>6, OverlappingPasses
<1>15. m \in Messages /\ m.source = v.source /\ m.event = e /\ m.kind \in {"added", "removed"}
  BY <1>3, <1>4 DEF Told, Messages, MessageKinds, Times
<1> HIDE DEF m
<1>16. toShell \in Seq(Messages) /\ toShell' \in Seq(Messages)
  BY <1>14, <1>15 DEF CalSound, CalTypes
<1>17. Known(server', toServer, toShell', reader.events)
  <2> SUFFICES ASSUME toServer = <<>>, NEW j \in DOMAIN vs, NEW f \in Events,
                      vs[j].reported[f] # NoTime
               PROVE  Reaches(toShell', reader.events, vs[j].source, f, vs[j].reported[f])
    BY <1>10 DEF Known
  <2>1. CASE j = i /\ f = e
    <3>1. m = Told("added", v.source, e, t) /\ vs[j].source = v.source /\ vs[j].reported[f] = t
      BY <1>8, <1>9, <2>1 DEF m
    <3> QED BY <1>14, <1>16, <2>1, <3>1, SentReaches
  <2>2. CASE ~(j = i /\ f = e)
    <3>1. vs[j].source = server.views[j].source /\ vs[j].reported[f] = server.views[j].reported[f]
      BY <1>8, <1>9, <1>11, <2>2 DEF v
    <3>2. Reaches(toShell, reader.events, vs[j].source, f, vs[j].reported[f])
      BY <1>9, <3>1 DEF CalSound, Known
    <3>3. vs[j].source # v.source \/ f # e
      <4>1. j # i => server.views[j].source # server.views[i].source
        BY <1>2, <1>9 DEF CalSound, SoundServer
      <4> QED BY <2>2, <3>1, <4>1 DEF v
    <3>4. ~Affects(m, vs[j].source, f)
      BY <1>15, <3>3 DEF Affects
    <3> QED BY <1>14, <1>15, <1>16, <3>2, <3>4, SentUnaffected
  <2> QED BY <2>1, <2>2
<1> QED BY <1>1, <1>13, <1>16, <1>17 DEF CalSound, CalTypes

\* A change of the diary is one the views have yet to report.
LEMMA EventChangesKeepsInv ==
  ASSUME CalSound, NEW s \in CalSources, NEW e \in Events, NEW time \in EventTimes \cup {NoTime},
         EventChanges(s, e, time)
  PROVE  CalSound'
<1>1. UNCHANGED <<registry, clients, threads, server, toServer, toShell, reader>>
  BY DEF EventChanges
<1>2. diary' \in [CalSources -> [Events -> Times]]
  BY DEF EventChanges, CalSound, CalTypes, Times
<1> QED BY <1>1, <1>2 DEF CalSound, CalTypes

\* What is on its way to a crashed server is lost with it.
LEMMA ServerCrashesKeepsInv ==
  ASSUME CalSound, ServerCrashes
  PROVE  CalSound'
<1>1. UNCHANGED <<registry, diary, reader>> /\ clients' = {} /\ threads' = <<>> /\ toServer' = <<>>
  BY DEF ServerCrashes
<1>2. server' = FreshServer(FALSE)
  BY DEF ServerCrashes
<1>3. About("vanished") \in Messages
  BY DEF About, Told, Messages, MessageKinds, Times
<1>4. toShell' \in Seq(Messages)
  BY <1>3 DEF ServerCrashes, CalSound, CalTypes
<1>5. SoundServer(server') /\ Known(server', toServer', toShell', reader'.events)
  BY <1>2, FreshIsSound
<1> QED BY <1>1, <1>4, <1>5 DEF CalSound, CalTypes

\* A server that starts has no views, and the shell is about to ask it.
LEMMA ServerStartsKeepsInv ==
  ASSUME CalSound, ServerStarts
  PROVE  CalSound'
<1>1. UNCHANGED <<registry, diary, clients, toServer, reader>>
  BY DEF ServerStarts
<1>2. server' = FreshServer(TRUE)
  BY DEF ServerStarts
<1>3. About("appeared") \in Messages
  BY DEF About, Told, Messages, MessageKinds, Times
<1>4. toShell' \in Seq(Messages)
  BY <1>3 DEF ServerStarts, CalSound, CalTypes
<1>5. SoundServer(server') /\ Known(server', toServer', toShell', reader'.events)
  BY <1>2, FreshIsSound
<1> DEFINE c == Cardinality(registry)
           q == SetToSeq(registry)
<1>6. IsFiniteSet(registry)
  BY FS_Subset, CalendarAssumption DEF CalSound, CalTypes
<1>7. c \in Nat /\ q \in [1 .. c -> registry]
  BY <1>6, Listed
<1>8. threads' = [k \in 1 .. c |-> Connect(q[k])]
  BY DEF ServerStarts
<1> HIDE DEF c, q
<1>9. \A k \in 1 .. c : Connect(q[k]) \in Threads
  BY <1>7 DEF Connect, Threads, CalSound, CalTypes
<1>10. threads' \in Seq(Threads)
  BY <1>7, <1>8, <1>9
<1> QED BY <1>1, <1>4, <1>5, <1>10 DEF CalSound, CalTypes

\* The shell receives one message, which is then no longer on its way.
LEMMA ReceiveKeepsInv ==
  ASSUME CalSound, Quiet, Receive
  PROVE  CalSound'
<1>1. UNCHANGED <<registry, diary, clients, threads, server>>
  BY DEF Receive
<1>2. toShell # <<>> /\ toShell \in Seq(Messages) /\ toShell' = Tail(toShell)
  BY DEF Receive, CalSound, CalTypes
<1>3. toShell' \in Seq(Messages) /\ Head(toShell) \in Messages
  BY <1>2
<1>4. reader' = Received(reader, Head(toShell))
  BY DEF Receive
<1>5. reader' \in Readers
  BY <1>3, <1>4, ReceivedTyped DEF CalSound, CalTypes
<1> DEFINE fetch == IF Head(toShell).kind \in {"appeared", "loaded"} /\ reader'.listens
                    THEN SetTimeRangeCall(reader') ELSE <<>>
<1>6. toServer' = toServer \o fetch
  BY DEF Receive
<1>7. fetch \in Seq(Pairs)
  BY <1>5 DEF SetTimeRangeCall, Readers
<1> HIDE DEF fetch
<1>8. toServer \in Seq(Pairs) /\ toServer' \in Seq(Pairs) /\ (toServer' = <<>> => toServer = <<>>)
  <2>1. toServer \in Seq(Pairs)
    BY DEF CalSound, CalTypes
  <2>2. toServer' \in Seq(Pairs) /\ Len(toServer') = Len(toServer) + Len(fetch)
    BY <1>6, <1>7, <2>1, Joined
  <2> QED BY <1>7, <2>1, <2>2
<1>9. Known(server, toServer', toShell', reader'.events)
  <2> SUFFICES ASSUME toServer' = <<>>, NEW i \in DOMAIN server.views, NEW e \in Events,
                      server.views[i].reported[e] # NoTime
               PROVE  Reaches(toShell', reader'.events, server.views[i].source, e,
                              server.views[i].reported[e])
    BY DEF Known
  <2>1. server.views[i].source \in CalSources
    <3>1. server.views \in Seq(Views)
      BY DEF CalSound, SoundServer
    <3>2. server.views[i] \in Views
      BY <3>1
    <3> QED BY <3>2 DEF Views
  <2>2. Reaches(toShell, reader.events, server.views[i].source, e, server.views[i].reported[e])
    BY <1>8 DEF CalSound, Known
  <2>3. reader \in Readers /\ reader.listens
    BY DEF CalSound, CalTypes, Quiet
  <2> QED BY <1>2, <1>4, <2>1, <2>2, <2>3, ReceivedReaches
<1> QED BY <1>1, <1>3, <1>5, <1>8, <1>9 DEF CalSound, CalTypes

\* Either nothing is asked and the reader keeps what it has, or a request is on
\* its way and the views will be made anew.
LEMMA RequestRangeKeepsInv ==
  ASSUME CalSound, NEW range \in Ranges, RequestRange(range)
  PROVE  CalSound'
<1> DEFINE asking == [reader EXCEPT !.last = range, !.cur = range]
<1>1. UNCHANGED <<registry, diary, clients, threads, server, toShell>>
  BY DEF RequestRange
<1>2. range \in Pairs /\ reader \in Readers
  BY CalendarAssumption DEF CalSound, CalTypes, Pairs
<1>3. asking \in Readers /\ asking.events = reader.events
  BY <1>2 DEF Readers
<1>4. reader' = LoadEvents(asking) /\ toServer' = toServer \o SetTimeRangeCall(reader')
  BY DEF RequestRange
<1> HIDE DEF asking
<1>5. NoEvents \in [CalSources \X Events -> Times]
  BY DEF NoEvents, Times
<1>6. reader' \in Readers
  BY <1>3, <1>4, <1>5 DEF LoadEvents, Readers
<1>7. toServer \in Seq(Pairs) /\ SetTimeRangeCall(reader') \in Seq(Pairs)
  BY <1>6 DEF SetTimeRangeCall, CalSound, CalTypes, Readers
<1>8. /\ toServer' \in Seq(Pairs)
      /\ Len(toServer') = Len(toServer) + Len(SetTimeRangeCall(reader'))
  BY <1>4, <1>7, Joined
<1>9. CASE Asks(asking)
  <2>1. Asks(reader')
    BY <1>3, <1>4, <1>9 DEF LoadEvents, Asks, Readers
  <2>2. Len(SetTimeRangeCall(reader')) = 1
    BY <2>1 DEF SetTimeRangeCall
  <2>3. toServer' # <<>>
    BY <1>7, <1>8, <2>2
  <2> QED BY <1>1, <1>6, <1>8, <2>3 DEF CalSound, CalTypes, Known
<1>10. CASE ~Asks(asking)
  <2>1. reader' = asking /\ ~Asks(reader')
    BY <1>4, <1>10 DEF LoadEvents
  <2>2. SetTimeRangeCall(reader') = <<>>
    BY <2>1 DEF SetTimeRangeCall
  <2>3. toServer' = toServer
    BY <1>4, <1>7, <2>2
  <2> QED BY <1>1, <1>3, <1>6, <2>1, <2>3 DEF CalSound, CalTypes
<1> QED BY <1>9, <1>10

\* The answer about the proxy is on its way; nothing was reported yet.
LEMMA ProxyAnsweredKeepsInv ==
  ASSUME CalSound, Quiet, NEW kind \in ProxyAnswers, ProxyAnswered(kind)
  PROVE  CalSound'
<1>1. UNCHANGED <<registry, diary, clients, threads, server, toServer>> /\ server.views = <<>>
  BY DEF ProxyAnswered, Quiet
<1>2. reader' \in Readers
  BY DEF ProxyAnswered, CalSound, CalTypes, Readers
<1>3. About(kind) \in Messages /\ toShell' = Append(toShell, About(kind)) /\ toShell \in Seq(Messages)
  BY DEF ProxyAnswered, About, Told, Messages, MessageKinds, Times, CalSound, CalTypes
<1>4. Known(server', toServer', toShell', reader'.events)
  BY <1>1 DEF Known
<1> QED BY <1>1, <1>2, <1>3, <1>4 DEF CalSound, CalTypes

\* Nothing is asked, and nothing reported, before the reader listens.
LEMMA QuietStays ==
  ASSUME CalSound, Quiet, CalNext
  PROVE  Quiet'
<1>1. reader \in Readers /\ toShell \in Seq(Messages) /\ toServer \in Seq(Pairs)
  BY DEF CalSound, CalTypes
<1>2. ASSUME NEW m \in Messages, toShell' = Append(toShell, m), m.kind \notin ProxyAnswers, reader.waits
      PROVE  \A k \in DOMAIN toShell' : toShell'[k].kind \notin ProxyAnswers
  <2>1. /\ DOMAIN toShell' = 1 .. Len(toShell) + 1 /\ Len(toShell) \in Nat /\ DOMAIN toShell = 1 .. Len(toShell)
        /\ toShell'[Len(toShell) + 1] = m /\ \A k \in 1 .. Len(toShell) : toShell'[k] = toShell[k]
    BY <1>1, <1>2
  <2> QED BY <1>2, <2>1 DEF Quiet
<1>3. CASE \E s \in CalSources : SourceAppeared(s)
  BY <1>3 DEF SourceAppeared, Quiet
<1>4. CASE \E s \in CalSources : SourceDisappeared(s)
  <2>1. PICK s \in CalSources : SourceDisappeared(s)
    BY <1>4
  <2> DEFINE m == Told("disappeared", s, "none", NoTime)
  <2>2. m \in Messages /\ m.kind \notin ProxyAnswers
    BY DEF Told, Messages, MessageKinds, Times, ProxyAnswers
  <2>3. server.views = <<>> => ~HasView(server, s)
    BY DEF HasView
  <2>4. /\ UNCHANGED <<toServer, reader>>
        /\ \/ UNCHANGED <<server, toShell>>
           \/ HasView(server, s) /\ toShell' = Append(toShell, m)
    BY <2>1 DEF SourceDisappeared
  <2> HIDE DEF m
  <2> QED BY <1>2, <2>2, <2>3, <2>4 DEF Quiet
<1>5. CASE \E s \in CalSources : BackendDied(s)
  <2>1. PICK s \in CalSources : BackendDied(s)
    BY <1>5
  <2>2. UNCHANGED <<toServer, toShell, reader>>
    BY <2>1 DEF BackendDied
  <2>3. server.views = <<>> => server'.views = <<>> /\ server'.range = server.range
    <3> SUFFICES ASSUME server.views = <<>> PROVE server'.views = <<>> /\ server'.range = server.range
      OBVIOUS
    <3>1. server' = [server EXCEPT !.views = [i \in DOMAIN server.views |->
            IF server.views[i].source = s THEN [server.views[i] EXCEPT !.dead = TRUE] ELSE server.views[i]]]
      BY <2>1 DEF BackendDied
    <3>2. [i \in DOMAIN server.views |->
            IF server.views[i].source = s THEN [server.views[i] EXCEPT !.dead = TRUE] ELSE server.views[i]] = <<>>
      OBVIOUS
    <3>3. server' = [server EXCEPT !.views = <<>>]
      BY <3>1, <3>2
    <3> QED BY <3>3 DEF CalSound, SoundServer
  <2> QED BY <2>2, <2>3 DEF Quiet
<1>6. CASE \E n, connects : ThreadLookup(n) \/ ThreadConnected(n, connects)
  BY <1>6 DEF ThreadLookup, ThreadConnected, Quiet
<1>7. CASE \E n, replies : ClientConnected(n, replies)
  <2>1. PICK n, replies : ClientConnected(n, replies)
    BY <1>7
  <2>2. UNCHANGED <<toServer, toShell, reader>> /\ server' = ClientAppeared(server, threads[n].source, replies)
    BY <2>1 DEF ClientConnected
  <2>3. server.range = NoRange => server' = server
    BY <2>2 DEF ClientAppeared, CanStart, NoRange
  <2> QED BY <2>2, <2>3 DEF Quiet
<1>8. CASE \E answering \in SUBSET CalSources : SetTimeRange(answering)
  BY <1>8 DEF SetTimeRange, Quiet
<1>9. CASE \E i \in 1 .. Cardinality(CalSources), e \in Events : ViewReports(i, e)
  <2>1. PICK i \in 1 .. Cardinality(CalSources), e \in Events : ViewReports(i, e)
    BY <1>9
  <2>2. server.views # <<>> /\ UNCHANGED <<toServer, reader>>
    BY <2>1 DEF ViewReports
  <2> QED BY <2>2 DEF Quiet
<1>10. CASE \E s \in CalSources, e \in Events, time \in EventTimes \cup {NoTime} : EventChanges(s, e, time)
  BY <1>10 DEF EventChanges, Quiet
<1>11. CASE ServerCrashes \/ ServerStarts
  <2> DEFINE kind == IF ServerCrashes THEN "vanished" ELSE "appeared"
  <2>1. About(kind) \in Messages /\ About(kind).kind \notin ProxyAnswers
    BY DEF About, Told, Messages, MessageKinds, Times, ProxyAnswers
  <2>2. /\ toShell' = Append(toShell, About(kind)) /\ reader' = reader
        /\ toServer' \in {toServer, <<>>} /\ server'.range = NoRange /\ server'.views = <<>>
    BY <1>11 DEF ServerCrashes, ServerStarts, FreshServer
  <2> HIDE DEF kind
  <2> QED BY <1>2, <2>1, <2>2 DEF Quiet
<1>12. CASE \E kind \in ProxyAnswers : ProxyAnswered(kind)
  <2>1. UNCHANGED <<server, toServer>> /\ reader' = [reader EXCEPT !.waits = FALSE]
    BY <1>12 DEF ProxyAnswered
  <2> QED BY <1>1, <2>1 DEF Quiet, Readers
<1>13. CASE Receive
  <2>1. /\ toShell # <<>> /\ toShell' = Tail(toShell) /\ reader' = Received(reader, Head(toShell))
        /\ server' = server
        /\ ~reader'.listens => toServer' = toServer \o <<>>
    BY <1>13 DEF Receive
  <2>2. /\ Head(toShell) = toShell[1] /\ Head(toShell) \in Messages /\ 1 \in DOMAIN toShell
        /\ \A k \in DOMAIN toShell' : k + 1 \in DOMAIN toShell /\ toShell'[k] = toShell[k + 1]
    BY <1>1, <2>1
  <2>3. /\ reader.listens => reader'.listens
        /\ ~reader'.listens => reader' = reader
    BY <1>1, <2>1, <2>2, ReceivedTyped
  <2>4. ~reader'.listens => toServer' = toServer
    BY <1>1, <2>1
  <2>5. ASSUME reader'.waits
        PROVE  ~reader'.listens /\ \A k \in DOMAIN toShell' : toShell'[k].kind \notin ProxyAnswers
    <3>1. reader'.waits = reader.waits
      <4>1. \A r \in Readers : OnNameAppeared(r).waits = r.waits
        BY DEF OnNameAppeared, ResetCache, LoadEvents, Readers
      <4>2. [reader EXCEPT !.listens = TRUE] \in Readers /\ [reader EXCEPT !.listens = TRUE].waits = reader.waits
        BY <1>1 DEF Readers
      <4>3. Head(toShell).kind \in ProxyAnswers => Initialized(reader, Head(toShell).kind).waits = reader.waits
        BY <4>1, <4>2 DEF Initialized, ProxyAnswers
      <4>4. Head(toShell).kind \notin ProxyAnswers => Heard(reader, Head(toShell)).waits = reader.waits
        BY <1>1, <2>2, <4>1 DEF Heard, Messages, MessageKinds, ResetCache, Readers
      <4> QED BY <2>1, <4>3, <4>4 DEF Received
    <3>2. ~reader.listens /\ \A k \in DOMAIN toShell : toShell[k].kind \notin ProxyAnswers
      BY <2>5, <3>1 DEF Quiet
    <3>3. reader' = reader
      BY <2>1, <2>2, <3>2 DEF Received
    <3> QED BY <2>2, <3>2, <3>3
  <2> QED BY <2>1, <2>3, <2>4, <2>5 DEF Quiet
<1>14. CASE \E range \in Ranges : RequestRange(range)
  <2>1. PICK range \in Ranges : RequestRange(range)
    BY <1>14
  <2> DEFINE asking == [reader EXCEPT !.last = range, !.cur = range]
  <2>2. /\ UNCHANGED <<server, toShell>> /\ reader' = LoadEvents(asking)
        /\ toServer' = toServer \o SetTimeRangeCall(reader')
    BY <2>1 DEF RequestRange
  <2>3. asking.listens = reader.listens /\ asking.ready = reader.ready /\ asking.waits = reader.waits
    BY <1>1 DEF Readers
  <2>4. asking \in Readers
    BY <1>1, CalendarAssumption DEF Readers, Pairs
  <2> HIDE DEF asking
  <2>5. reader'.listens = reader.listens /\ reader'.ready = reader.ready /\ reader'.waits = reader.waits
    BY <2>2, <2>3, <2>4 DEF LoadEvents, Readers
  <2>6. ~reader.ready => toServer' = toServer
    BY <1>1, <2>2, <2>5 DEF SetTimeRangeCall, Asks
  <2> QED BY <2>2, <2>5, <2>6 DEF Quiet
<1> QED BY ONLY <1>3, <1>4, <1>5, <1>6, <1>7, <1>8, <1>9, <1>10, <1>11, <1>12, <1>13, <1>14, CalNext DEF CalNext

\* Every step of the calendar keeps the invariant.
LEMMA CalStepKeepsInv == CalInv /\ [CalNext]_calVars => CalInv'
<1> SUFFICES ASSUME CalInv, [CalNext]_calVars PROVE CalInv'
  OBVIOUS
<1>1. CASE UNCHANGED calVars
  BY <1>1 DEF calVars, CalInv, CalSound, CalTypes, Quiet
<1>2. CASE CalNext
  <2>0. CalSound /\ Quiet /\ Quiet'
    BY <1>2, QuietStays DEF CalInv
  <2>s. SUFFICES CalSound'
    BY <2>0 DEF CalInv
  <2>1. Cardinality(CalSources) \in Nat
    BY FS_CardinalityType, CalendarAssumption
  <2>2. CASE \E s \in CalSources : SourceAppeared(s) \/ SourceDisappeared(s) \/ BackendDied(s)
    BY <2>0, <2>2, SourceAppearedKeepsInv, SourceDisappearedKeepsInv, BackendDiedKeepsInv
  <2>3. CASE \E n \in 1 .. Cardinality(CalSources) + MaxCalOps :
               \/ ThreadLookup(n)
               \/ \E connects \in BOOLEAN : ThreadConnected(n, connects)
    <3>1. PICK n \in 1 .. Cardinality(CalSources) + MaxCalOps :
               \/ ThreadLookup(n)
               \/ \E connects \in BOOLEAN : ThreadConnected(n, connects)
      BY <2>3
    <3>2. n \in Nat
      BY <2>0, <3>1 DEF ThreadLookup, ThreadConnected, CalSound, CalTypes
    <3> QED BY <2>0, <3>1, <3>2, ThreadKeepsInv
  <2>4. CASE \E n \in 1 .. Cardinality(CalSources) + MaxCalOps, replies \in BOOLEAN : ClientConnected(n, replies)
    <3>1. PICK n \in 1 .. Cardinality(CalSources) + MaxCalOps, replies \in BOOLEAN : ClientConnected(n, replies)
      BY <2>4
    <3>2. n \in Nat
      BY <2>0, <3>1 DEF ClientConnected, CalSound, CalTypes
    <3> QED BY <2>0, <3>1, <3>2, ClientConnectedKeepsInv
  <2>5. CASE \E answering \in SUBSET CalSources : SetTimeRange(answering)
    BY <2>0, <2>5, SetTimeRangeKeepsInv
  <2>6. CASE \E i \in 1 .. Cardinality(CalSources), e \in Events : ViewReports(i, e)
    <3>1. PICK i \in 1 .. Cardinality(CalSources), e \in Events : ViewReports(i, e)
      BY <2>6
    <3>2. i \in Nat
      BY <2>1, <3>1
    <3> QED BY <2>0, <3>1, <3>2, ViewReportsKeepsInv
  <2>7. CASE \E s \in CalSources, e \in Events, time \in EventTimes \cup {NoTime} : EventChanges(s, e, time)
    BY <2>0, <2>7, EventChangesKeepsInv
  <2>8. CASE ServerCrashes \/ ServerStarts \/ Receive \/ \E kind \in ProxyAnswers : ProxyAnswered(kind)
    BY <2>0, <2>8, ServerCrashesKeepsInv, ServerStartsKeepsInv, ReceiveKeepsInv, ProxyAnsweredKeepsInv
  <2>9. CASE \E range \in Ranges : RequestRange(range)
    BY <2>0, <2>9, RequestRangeKeepsInv
  <2> QED BY <1>2, <2>2, <2>3, <2>4, <2>5, <2>6, <2>7, <2>8, <2>9 DEF CalNext
<1> QED BY <1>1, <1>2

-----------------------------------------------------------------------------
(* The results.                                                            *)

\* The inductive invariant: what a view reported is in the shell or will be when
\* the messages on their way are received, unless a request is on its way that
\* makes the views anew.
THEOREM CalendarInvariant == CalSpec => []CalInv
<1> QED BY CalInitInv, CalStepKeepsInv, PTL DEF CalSpec

\* With nothing on its way, the invariant says that no event is missed.
LEMMA CalInvImpliesNoneMissed == CalInv => NoEventIsMissed
<1> SUFFICES ASSUME CalInv PROVE NoEventIsMissed
  OBVIOUS
<1>1. /\ \A i, j \in DOMAIN server.views : server.views[i].source = server.views[j].source => i = j
      /\ \A i \in DOMAIN server.views : server.views[i].range = server.range
      /\ server.told <=> server.views # <<>>
  BY DEF CalInv, CalSound, SoundServer
<1>2. ASSUME Delivered, NEW i \in DOMAIN server.views, NEW e \in Events, ~server.views[i].dead
      PROVE  Wanted(server.views[i].source, e, server.views[i].range)
               \in {NoTime, reader.events[<<server.views[i].source, e>>]}
  <2> DEFINE v == server.views[i]
  <2>1. toServer = <<>> /\ toShell = <<>> /\ v.reported[e] = Wanted(v.source, e, v.range)
    BY <1>2 DEF Delivered
  <2> SUFFICES ASSUME v.reported[e] # NoTime
               PROVE  v.reported[e] = reader.events[<<v.source, e>>]
    BY <2>1
  <2>2. Reaches(toShell, reader.events, v.source, e, v.reported[e])
    BY <2>1 DEF CalInv, CalSound, Known
  <2> QED BY <2>1, <2>2 DEF Reaches
<1> QED BY <1>1, <1>2 DEF NoEventIsMissed

\* However calendars, crashes of backends and of the server, ranges and messages
\* cross, once everything is delivered the shell has every event of every
\* calendar that is viewed, at its present time.
THEOREM NoEventIsEverMissed == CalSpec => []NoEventIsMissed
<1> QED BY CalendarInvariant, CalInvImpliesNoneMissed, PTL

---------------------------------------------------------------------------
(* The services together.  A behaviour is one of one part, and every other *)
(* part stays as it is, so that what is shown of each holds of all.        *)

\* The variables of the parts, and the steps they may take.
LEMMA PartsMove ==
  ASSUME [PartsNext]_<<part, parts>>
  PROVE  /\ [MuxerNext]_muxerVars /\ [CameraNext]_cameraVars /\ [PolkitNext]_polkitVars /\ [AgentNext]_agentVars
         /\ [PromptNext]_promptVars /\ [UiNext]_uiVars /\ [SnifferNext]_snifferVars /\ [GlobalNext]_globalVars
<1>1. CASE UNCHANGED <<part, parts>>
  <2>1. UNCHANGED <<muxerVars, cameraVars, polkitVars, agentVars, promptVars, uiVars, snifferVars, globalVars>>
    BY <1>1 DEF parts
  <2> QED BY <2>1
<1>2. CASE PartsNext
  <2>1. [MuxerNext]_muxerVars
    BY <1>2 DEF PartsNext
  <2>2. [CameraNext]_cameraVars
    BY <1>2 DEF PartsNext
  <2>3. [PolkitNext]_polkitVars
    BY <1>2 DEF PartsNext
  <2>4. [AgentNext]_agentVars
    BY <1>2 DEF PartsNext
  <2>5. [PromptNext]_promptVars
    BY <1>2 DEF PartsNext
  <2>6. [UiNext]_uiVars
    BY <1>2 DEF PartsNext
  <2>7. [SnifferNext]_snifferVars
    BY <1>2 DEF PartsNext
  <2>8. [GlobalNext]_globalVars
    BY <1>2 DEF PartsNext, GlobalNext
  <2> QED BY <2>1, <2>2, <2>3, <2>4, <2>5, <2>6, <2>7, <2>8
<1> QED BY <1>1, <1>2

\* Each part begins as it does alone, and so is what it is alone.
LEMMA PartsAreParts ==
  PartsSpec => /\ MuxerSpec /\ CameraSpec /\ PolkitSpec /\ AgentSpec
               /\ PromptSpec /\ UiSpec /\ SnifferSpec /\ GlobalSpec
<1>1. PartsInit => /\ MuxerInit /\ CameraInit /\ PolkitInit /\ AgentInit
                   /\ PromptInit /\ UiInit /\ SnifferInit /\ GlobalInit
  BY DEF PartsInit
<1>2. [PartsNext]_<<part, parts>> =>
        /\ [MuxerNext]_muxerVars /\ [CameraNext]_cameraVars /\ [PolkitNext]_polkitVars /\ [AgentNext]_agentVars
        /\ [PromptNext]_promptVars /\ [UiNext]_uiVars /\ [SnifferNext]_snifferVars /\ [GlobalNext]_globalVars
  BY PartsMove
<1> QED BY <1>1, <1>2, PTL DEF PartsSpec, MuxerSpec, CameraSpec, PolkitSpec, AgentSpec, PromptSpec, UiSpec, SnifferSpec, GlobalSpec

\* The observers of actions and the indicator of cameras see what there is
\* (gtkactionmuxer.c, shell-camera-monitor.c).
THEOREM WatchersAlwaysAgree == PartsSpec => []WatchersAgree
BY PartsAreParts, ObserversAlwaysAgree, RunningCamerasAreReported, PTL DEF WatchersAgree

\* Everybody who asks for a password, a picture, what a medium holds, a save or
\* a run at leisure is answered, once and in turn, for any number of requests
\* and any tree of directories (shell-polkit-authentication-agent.c,
\* shell-network-agent.c, shell-keyring-prompt.c, screenshot.js,
\* hotplug-sniffer.c, shell-global.c).
THEOREM AskersAreAlwaysAnswered == PartsSpec => []AskersAreAnswered
BY PartsAreParts, RequestsAlwaysTakeTurns, NetworkIsAnsweredOnce, PromptsAreAnswered, GoneDialogAlwaysOwesNothing,
   MediaAreAlwaysSniffed, LastSaveHasTheFile, PTL DEF AskersAreAnswered

---------------------------------------------------------------------------
(* The requests an application makes for the proxy of its busy state, and  *)
(* the usage statistics: what ApplicationsAgree says of either.            *)

Requests == [bus : {NoBus} \cup {AppAttr[w].bus : w \in AppWindows},
             pending : BOOLEAN, cancelled : BOOLEAN]

\* Beside BusyWatchIsOurs: the request under way is one that is still answered
\* and has not been cancelled.
BusyInv ==
  /\ running \in BOOLEAN /\ requests \in Seq(Requests)
  /\ busName \in {NoBus} \cup {AppAttr[w].bus : w \in AppWindows}
  /\ proxy \in 0 .. Len(requests) /\ request \in 0 .. Len(requests)
  /\ request # 0 => requests[request].pending /\ ~requests[request].cancelled
  /\ BusyWatchIsOurs

LEMMA AddWindowKeepsBusyInv ==
  ASSUME BusyInv, NEW w \in AppWindows, AddWindow(w)
  PROVE  BusyInv'
<1> USE DEF BusyInv, BusyWatchIsOurs, NoProxy
<1>1. /\ running' = TRUE /\ proxy' = proxy
      /\ busName' \in {NoBus} \cup {AppAttr[v].bus : v \in AppWindows}
      /\ WatchBusy(w, busName')
  BY DEF AddWindow, UpdatedBus
<1>2. CASE UNCHANGED <<requests, request>>
  BY <1>1, <1>2
<1>3. CASE /\ proxy = 0 /\ request = 0
           /\ requests' = Append(requests, [bus |-> busName', pending |-> TRUE, cancelled |-> FALSE])
           /\ request' = Len(requests) + 1
  <2>1. [bus |-> busName', pending |-> TRUE, cancelled |-> FALSE] \in Requests
    BY <1>1 DEF Requests
  <2>2. /\ requests' \in Seq(Requests) /\ Len(requests') = Len(requests) + 1
        /\ \A r \in DOMAIN requests : requests'[r] = requests[r]
        /\ requests'[Len(requests) + 1] = [bus |-> busName', pending |-> TRUE, cancelled |-> FALSE]
        /\ DOMAIN requests = 1 .. Len(requests) /\ DOMAIN requests' = 1 .. Len(requests) + 1
    BY <1>3, <2>1
  <2>3. ASSUME NEW r \in DOMAIN requests', requests'[r].pending, ~requests'[r].cancelled
        PROVE  r = request'
    <3>1. CASE r = Len(requests) + 1
      BY <3>1, <1>3
    <3>2. CASE r \in DOMAIN requests
      BY <3>2, <2>2, <2>3, <1>3
    <3> QED BY <2>2, <3>1, <3>2
  <2>4. Len(requests) \in Nat
    OBVIOUS
  <2> QED BY <1>1, <1>3, <2>2, <2>3, <2>4
<1> QED BY <1>1, <1>2, <1>3 DEF WatchBusy

LEMMA RemoveWindowKeepsBusyInv ==
  ASSUME BusyInv, NEW w \in AppWindows, RemoveWindow(w)
  PROVE  BusyInv'
<1> USE DEF BusyInv, BusyWatchIsOurs, NoProxy
<1>1. CASE UNCHANGED <<running, busName, proxy, request, requests>>
  BY <1>1
<1>2. CASE /\ running' = FALSE /\ busName' = NoBus /\ proxy' = 0 /\ request' = 0
           /\ requests' = IF request = 0 THEN requests
                          ELSE [requests EXCEPT ![request].cancelled = TRUE]
  <2>1. CASE request = 0
    BY <1>2, <2>1
  <2>2. CASE request # 0
    <3>1. request \in DOMAIN requests /\ requests[request] \in Requests
      BY <2>2
    <3>2. requests' = [requests EXCEPT ![request] = [requests[request] EXCEPT !.cancelled = TRUE]]
      BY <1>2, <2>2
    <3>3. [requests[request] EXCEPT !.cancelled = TRUE] \in Requests
      BY <3>1 DEF Requests
    <3>4. requests' \in Seq(Requests) /\ Len(requests') = Len(requests) /\ DOMAIN requests' = DOMAIN requests
      BY <3>1, <3>2, <3>3
    <3>5. requests'[request].cancelled
      BY <3>1, <3>2 DEF Requests
    <3>6. \A r \in DOMAIN requests : r # request => requests'[r] = requests[r]
      BY <3>2
    <3> QED BY <1>2, <3>4, <3>5, <3>6
  <2> QED BY <2>1, <2>2
<1> QED BY <1>1, <1>2 DEF RemoveWindow, NoProxy

LEMMA ProxyReadyKeepsBusyInv ==
  ASSUME BusyInv, NEW r \in Int, NEW ok \in BOOLEAN, ProxyReady(r, ok)
  PROVE  BusyInv'
<1> USE DEF BusyInv, BusyWatchIsOurs, NoProxy
<1>1. /\ r \in DOMAIN requests /\ requests[r].pending /\ requests[r] \in Requests
      /\ requests' = [requests EXCEPT ![r] = [requests[r] EXCEPT !.pending = FALSE]]
      /\ proxy' = IF ok /\ ~requests[r].cancelled THEN r ELSE proxy
      /\ request' = IF running /\ ~requests[r].cancelled THEN 0 ELSE request
      /\ running' = running /\ busName' = busName
  BY DEF ProxyReady
<1>2. [requests[r] EXCEPT !.pending = FALSE] \in Requests
  BY <1>1 DEF Requests
<1>3. requests' \in Seq(Requests) /\ Len(requests') = Len(requests) /\ DOMAIN requests' = DOMAIN requests
  BY <1>1, <1>2
<1>4. /\ ~requests'[r].pending /\ requests'[r].cancelled = requests[r].cancelled
      /\ \A k \in DOMAIN requests : k # r => requests'[k] = requests[k]
  BY <1>1 DEF Requests
<1>5. DOMAIN requests = 1 .. Len(requests) /\ Len(requests) \in Nat
  OBVIOUS
<1>6. CASE requests[r].cancelled
  <2>1. r # request /\ proxy' = proxy /\ request' = request /\ r # proxy
    BY <1>1, <1>6, <1>5
  <2> QED BY <1>1, <1>3, <1>4, <1>5, <2>1
<1>7. CASE ~requests[r].cancelled
  <2>1. r = request /\ running /\ proxy = 0 /\ request' = 0 /\ r # 0
    BY <1>1, <1>5, <1>7
  <2>2. proxy' \in {0, r}
    BY <1>1, <2>1
  <2> QED BY <1>1, <1>3, <1>4, <1>5, <1>7, <2>1, <2>2
<1> QED BY <1>6, <1>7

\* The busy state of an application comes from a proxy that this run of it asked
\* for, however answers cross windows that come and go (shell-app.c).
THEOREM BusyWatchIsAlwaysOurs == SWSpec => []BusyWatchIsOurs
<1>1. SWInit => BusyInv
  <2> SUFFICES ASSUME SWInit PROVE BusyInv
    OBVIOUS
  <2>1. running = FALSE /\ busName = NoBus /\ proxy = 0 /\ request = 0 /\ requests = <<>>
    BY DEF SWInit, NoProxy
  <2>2. requests \in Seq(Requests) /\ Len(requests) = 0 /\ DOMAIN requests = {}
    BY <2>1
  <2>3. BusyWatchIsOurs
    BY <2>1, <2>2 DEF BusyWatchIsOurs, NoProxy
  <2>4. 0 \in 0 .. Len(requests)
    BY <2>2
  <2> QED BY <2>1, <2>2, <2>3, <2>4 DEF BusyInv
<1>2. BusyInv /\ [SWNext]_swVars => BusyInv'
  <2> SUFFICES ASSUME BusyInv, [SWNext]_swVars PROVE BusyInv'
    OBVIOUS
  <2>1. CASE \E w \in AppWindows : AddWindow(w) \/ RemoveWindow(w)
    BY <2>1, AddWindowKeepsBusyInv, RemoveWindowKeepsBusyInv
  <2>2. CASE \E r \in 1 .. MaxRequests, ok \in BOOLEAN : ProxyReady(r, ok)
    <3>1. PICK r \in 1 .. MaxRequests, ok \in BOOLEAN : ProxyReady(r, ok)
      BY <2>2
    <3> QED BY <3>1, ProxyReadyKeepsBusyInv
  <2>3. CASE UNCHANGED <<running, busName, proxy, request, requests>>
    BY <2>3 DEF BusyInv, BusyWatchIsOurs
  <2>13. CASE \E w \in AppWindows : FocusWindow(w)
    <3>1. /\ busName' \in {NoBus} \cup {AppAttr[w].bus : w \in AppWindows}
          /\ UNCHANGED <<running, proxy, request, requests>>
      BY <2>13 DEF FocusWindow, UpdatedBus, BusyInv
    <3> QED BY <3>1 DEF BusyInv, BusyWatchIsOurs
  <2>4. CASE \E w \in AppWindows : UserTimeChanged(w)
    BY <2>3, <2>4 DEF UserTimeChanged
  <2>5. CASE \E s \in Spaces : WorkspaceSwitched(s)
    BY <2>3, <2>5 DEF WorkspaceSwitched
  <2>6. CASE \E w \in AppWindows : Minimize(w)
    BY <2>3, <2>6 DEF Minimize, swRun
  <2>7. CASE \E w \in AppWindows, s \in Spaces : MoveWindow(w, s)
    BY <2>3, <2>7 DEF MoveWindow, swRun
  <2>8. CASE \E s \in Spaces \cup {0} : StartupSequence(s)
    BY <2>3, <2>8 DEF StartupSequence, swRun
  <2>9. CASE StartupCompleted
    BY <2>3, <2>9 DEF StartupCompleted, swRun
  <2>10. CASE \E w \in AppWindows \cup {NoWin}, old \in BOOLEAN : ActivateWindow(w, old)
    <3>1. UNCHANGED <<running, busName, proxy, request, requests>>
      BY <2>10, Zenon DEF ActivateWindow
    <3> QED BY <2>3, <3>1
  <2>11. CASE Activate \/ OpenNewWindow \/ RequestQuit
    <3>1. UNCHANGED <<running, swRun>>
      BY <2>11, Zenon DEF Activate, OpenNewWindow, RequestQuit
    <3> QED BY <2>3, <3>1 DEF swRun
  <2>12. CASE UNCHANGED swVars
    BY <2>3, <2>12 DEF swVars
  <2> QED BY <2>1, <2>2, <2>3, <2>4, <2>5, <2>6, <2>7, <2>8, <2>9, <2>10, <2>11, <2>12, <2>13 DEF SWNext
<1>3. BusyInv => BusyWatchIsOurs
  BY DEF BusyInv
<1> QED BY <1>1, <1>2, <1>3, PTL DEF SWSpec

\* The application whose time is counted is the one with the focus
\* (shell-app-usage.c).
THEOREM WatchedAlwaysHasFocus == UsageSpec => []WatchedHasFocus
<1>1. UsageInit => WatchedHasFocus
  BY DEF UsageInit, WatchedHasFocus
<1>2. WatchedHasFocus /\ [UsageNext]_usageVars => WatchedHasFocus'
  BY DEF WatchedHasFocus, UsageNext, usageVars, FocusAppChanged, WatchFocus, AppStateChanged,
         SessionStatusChanged, MonitoringKeyChanged, SaveUsage, UsageRestart, ClockTick, Uninstall
<1> QED BY <1>1, <1>2, PTL DEF UsageSpec

\* An entry whose score is at most b.
ScoresTo(b) == [score : {s \in Int : s <= b}, lastSeen : Int]

\* The entries in memory and in the file have a score within the bound.
ScoreInv ==
  /\ longest \in Int
  /\ usages \in [UsageApps -> ScoresTo(ScoreBound)] /\ usageFile \in [UsageApps -> ScoresTo(ScoreBound)]
  /\ clock \in Int /\ watchStart \in Int /\ watched \in UsageApps \cup {Nobody}
  /\ focusedApp \in UsageApps \cup {Nobody}

\* The bound grows with the longest stretch.
LEMMA BoundGrows ==
  ASSUME NEW m \in Int, NEW n \in Int, m <= n
  PROVE  LET B(x) == Unit * (IF x > ScoreMax THEN x ELSE ScoreMax)
         IN  B(m) \in Nat /\ B(n) \in Nat /\ B(m) <= B(n) /\ Unit * n <= B(n) /\ Unit * ScoreMax <= B(n)
  BY AppUsageAssumption DEF Unit

\* A score within a bound, to which no more than the bound is added, is within it once
\* halved: one halving is enough.
LEMMA IncrementIsBounded ==
  ASSUME ScoreInv, NEW a \in UsageApps, NEW time \in Int, NEW b \in Nat,
         ScoreBound <= b, UsageCount(time) * Unit <= b, ScoreMax * Unit <= b
  PROVE  Increment(a, time) \in [UsageApps -> ScoresTo(b)]
<1> DEFINE n == UsageCount(time)
           new == [score |-> UsageFor(usages, a).score + n * Unit, lastSeen |-> time]
           seen == [usages EXCEPT ![a] = new]
<1>1. n \in Int
  BY AppUsageAssumption DEF UsageCount, ScoreInv
<1>2. ScoreBound \in Nat
  BY BoundGrows DEF ScoreInv, ScoreBound
<1>3. /\ NoUsage \in ScoresTo(b) /\ \A v \in UsageApps : usages[v] \in ScoresTo(b)
      /\ UsageFor(usages, a) \in ScoresTo(b)
  BY <1>2 DEF UsageFor, NoUsage, NewUsage, ScoresTo, ScoreInv
<1>4. new.score \in Int /\ new.score <= 2 * b /\ new.lastSeen = time
  <2>1. n * Unit \in Int /\ n * Unit <= b
    BY <1>1 DEF Unit
  <2> HIDE DEF n
  <2> QED BY <1>3, <2>1 DEF ScoresTo
<1>5. Increment(a, time) = IF n > 0 /\ new.score > ScoreMax * Unit THEN NormalizeUsage(seen) ELSE seen
  BY DEF Increment, ScoreInv
<1> HIDE DEF n
<1>6. CASE new.score <= b
  <2>1. new \in ScoresTo(b)
    BY <1>4, <1>6 DEF ScoresTo
  <2>2. seen \in [UsageApps -> ScoresTo(b)]
    BY <1>3, <2>1 DEF ScoreInv
  <2>3. NormalizeUsage(seen) \in [UsageApps -> ScoresTo(b)]
    <3> SUFFICES ASSUME NEW v \in UsageApps
                 PROVE  (IF seen[v] = NoUsage THEN NoUsage ELSE [seen[v] EXCEPT !.score = @ \div 2]) \in ScoresTo(b)
      BY DEF NormalizeUsage
    <3> HIDE DEF seen
    <3>1. seen[v] \in ScoresTo(b)
      BY <2>2
    <3>2. seen[v].score \in Int /\ seen[v].score \div 2 \in Int /\ seen[v].score \div 2 <= b
      BY <3>1 DEF ScoresTo
    <3>3. [seen[v] EXCEPT !.score = @ \div 2] = [score |-> seen[v].score \div 2, lastSeen |-> seen[v].lastSeen]
      BY <3>1 DEF ScoresTo
    <3> QED BY <1>3, <3>1, <3>2, <3>3 DEF ScoresTo
  <2> QED BY <1>5, <2>2, <2>3
<1>7. CASE new.score > b
  <2>1. n > 0
    <3>1. SUFFICES ASSUME n <= 0 PROVE FALSE
      BY <1>1
    <3>2. n * Unit <= 0
      BY <1>1, <3>1 DEF Unit
    <3> QED BY <1>1, <1>3, <1>7, <3>2 DEF ScoresTo, Unit
  <2>2. Increment(a, time) = NormalizeUsage(seen)
    <3>1. ScoreMax * Unit \in Int
      BY AppUsageAssumption DEF Unit
    <3> QED BY <1>4, <1>5, <1>7, <2>1, <3>1
  <2>3. ASSUME NEW v \in UsageApps
        PROVE  (IF seen[v] = NoUsage THEN NoUsage ELSE [seen[v] EXCEPT !.score = @ \div 2]) \in ScoresTo(b)
    <3>1. seen[v] = IF v = a THEN new ELSE usages[v]
      BY DEF ScoreInv
    <3>2. seen[v] \in [score : Int, lastSeen : Int] /\ seen[v].score <= 2 * b
      BY <1>3, <1>4, <3>1 DEF ScoresTo
    <3> HIDE DEF seen
    <3>3. seen[v].score \div 2 \in Int /\ seen[v].score \div 2 <= b
      BY <3>2
    <3>4. [seen[v] EXCEPT !.score = @ \div 2] = [score |-> seen[v].score \div 2, lastSeen |-> seen[v].lastSeen]
      BY <3>2
    <3> QED BY <1>3, <3>2, <3>3, <3>4 DEF ScoresTo
  <2> QED BY <2>2, <2>3 DEF NormalizeUsage
<1> QED BY <1>4, <1>6, <1>7

\* A count within the longest stretch is within a bound that covers it.
LEMMA Stretched ==
  ASSUME NEW n \in Int, NEW l \in Int, NEW m \in Int, NEW b \in Nat,
         n <= l, Unit * l <= b, Unit * m <= b
  PROVE  n * Unit <= b /\ m * Unit <= b
BY DEF Unit

\* The watched application, if any, is credited.
LEMMA CreditIsBounded ==
  ASSUME ScoreInv, NEW time \in Int, Credit(time)
  PROVE  /\ longest' \in Int /\ longest <= longest' /\ ScoreBound <= ScoreBound'
         /\ usages' \in [UsageApps -> ScoresTo(ScoreBound')]
<1>1. CASE watched = Nobody
  BY <1>1, BoundGrows DEF Credit, ScoreInv, ScoreBound
<1>2. CASE watched # Nobody
  <2> DEFINE n == UsageCount(time)
             b == ScoreBound'
  <2>1. n \in Int
    BY AppUsageAssumption DEF UsageCount, ScoreInv
  <2>2. longest' = (IF n > longest THEN n ELSE longest) /\ usages' = Increment(watched, time)
    BY <1>2 DEF Credit
  <2> HIDE DEF n
  <2>3. longest' \in Int /\ longest <= longest' /\ n <= longest'
    BY <2>1, <2>2 DEF ScoreInv
  <2>4. b \in Nat /\ ScoreBound <= b /\ Unit * longest' <= b /\ Unit * ScoreMax <= b
    BY <2>3, BoundGrows DEF ScoreInv, ScoreBound
  <2> HIDE DEF b
  <2>5. n * Unit <= b /\ ScoreMax * Unit <= b
    <3>1. ScoreMax \in Int
      BY AppUsageAssumption
    <3> QED BY <2>1, <2>3, <2>4, <3>1, Stretched
  <2>6. watched \in UsageApps
    BY <1>2 DEF ScoreInv
  <2>7. Increment(watched, time) \in [UsageApps -> ScoresTo(b)]
    BY <2>4, <2>5, <2>6, IncrementIsBounded DEF n
  <2> QED BY <2>2, <2>3, <2>4, <2>7 DEF b
<1> QED BY <1>1, <1>2

\* A greater bound admits what the smaller one does.
LEMMA EntriesStayBounded ==
  ASSUME ScoreInv, longest' \in Int, longest <= longest'
  PROVE  \A u : u \in [UsageApps -> ScoresTo(ScoreBound)] => u \in [UsageApps -> ScoresTo(ScoreBound')]
<1>1. ScoreBound \in Nat /\ ScoreBound' \in Nat /\ ScoreBound <= ScoreBound'
  BY BoundGrows DEF ScoreInv, ScoreBound
<1>2. \A e : e \in ScoresTo(ScoreBound) => e \in ScoresTo(ScoreBound')
  BY <1>1 DEF ScoresTo
<1> QED BY <1>2

\* What stays when the other steps change the entries.
LEMMA UsageStepIsBounded == ASSUME ScoreInv, [UsageNext]_usageVars PROVE ScoreInv'
<1>1. longest' = longest => ScoreBound' = ScoreBound
  BY DEF ScoreBound
<1>2. CASE UNCHANGED usageVars
  BY <1>1, <1>2 DEF usageVars, ScoreInv
<1>3. ASSUME NEW app \in UsageApps \cup {Nobody}, WatchFocus(app), usageFile' = usageFile
      PROVE  /\ longest' \in Int /\ usages' \in [UsageApps -> ScoresTo(ScoreBound')]
             /\ usageFile' \in [UsageApps -> ScoresTo(ScoreBound')]
             /\ watchStart' \in Int /\ watched' \in UsageApps \cup {Nobody}
  <2>1. Credit(clock) /\ clock \in Int /\ watched' = app /\ watchStart' = clock
    BY <1>3 DEF WatchFocus, ScoreInv
  <2>2. /\ longest' \in Int /\ longest <= longest'
        /\ usages' \in [UsageApps -> ScoresTo(ScoreBound')]
    BY <2>1, CreditIsBounded
  <2>3. usageFile \in [UsageApps -> ScoresTo(ScoreBound)]
    BY DEF ScoreInv
  <2>4. usageFile \in [UsageApps -> ScoresTo(ScoreBound')]
    BY ONLY <2>2, <2>3, ScoreInv, EntriesStayBounded
  <2> QED BY <1>3, <2>1, <2>2, <2>4
<1>4. NoUsage \in ScoresTo(ScoreBound) /\ NewUsage \in ScoresTo(ScoreBound)
  <2>1. ScoreBound \in Nat
    BY BoundGrows DEF ScoreInv, ScoreBound
  <2> QED BY <2>1 DEF NoUsage, NewUsage, ScoresTo
<1>5. CASE \E a \in UsageApps \cup {Nobody} : FocusAppChanged(a)
  BY <1>3, <1>5 DEF FocusAppChanged, ScoreInv
<1>6. CASE \E a \in UsageApps, runs \in BOOLEAN : AppStateChanged(a, runs)
  <2>1. PICK a \in UsageApps, runs \in BOOLEAN : AppStateChanged(a, runs)
    BY <1>6
  <2>2. UsageFor(usages, a) \in ScoresTo(ScoreBound)
    BY <1>4 DEF UsageFor, ScoreInv
  <2>3. [UsageFor(usages, a) EXCEPT !.lastSeen = clock] \in ScoresTo(ScoreBound)
    BY <2>2 DEF ScoresTo, ScoreInv
  <2> QED BY <1>1, <2>1, <2>2, <2>3 DEF AppStateChanged, ScoreInv
<1>7. CASE SessionStatusChanged
  <2>1. CASE ~currentlyIdle
    <3>1. Credit(watchStart + IdleTransition) /\ watchStart + IdleTransition \in Int
      BY <1>7, <2>1, AppUsageAssumption DEF SessionStatusChanged, ScoreInv
    <3>2. /\ longest' \in Int /\ longest <= longest'
          /\ usages' \in [UsageApps -> ScoresTo(ScoreBound')]
      BY <3>1, CreditIsBounded
    <3>3. usageFile \in [UsageApps -> ScoresTo(ScoreBound)]
      BY DEF ScoreInv
    <3>4. usageFile \in [UsageApps -> ScoresTo(ScoreBound')]
      BY ONLY <3>2, <3>3, ScoreInv, EntriesStayBounded
    <3> QED BY <1>7, <2>1, <3>2, <3>4 DEF SessionStatusChanged, ScoreInv
  <2>2. CASE currentlyIdle
    BY <1>1, <1>7, <2>2 DEF SessionStatusChanged, ScoreInv
  <2> QED BY <2>1, <2>2
<1>8. CASE MonitoringKeyChanged
  <2>1. CASE WatchFocus(focusedApp)
    BY <1>3, <1>8, <2>1 DEF MonitoringKeyChanged, ScoreInv
  <2>2. CASE watched' = Nobody /\ UNCHANGED <<usages, watchStart, longest>>
    BY <1>1, <1>8, <2>2 DEF MonitoringKeyChanged, ScoreInv
  <2> QED BY <1>8, <2>1, <2>2 DEF MonitoringKeyChanged
<1>9. CASE \E ok \in BOOLEAN : SaveUsage(ok)
  BY <1>1, <1>4, <1>9 DEF SaveUsage, ScoreInv
<1>10. CASE UsageRestart
  BY <1>1, <1>4, <1>10 DEF UsageRestart, CleanUsage, ScoreInv
<1>11. CASE \E n \in {FocusMin, Week} : ClockTick(n)
  BY <1>1, <1>11, AppUsageAssumption DEF ClockTick, ScoreInv
<1>12. CASE \E a \in UsageApps : Uninstall(a)
  BY <1>1, <1>12 DEF Uninstall, ScoreInv
<1> QED BY <1>2, <1>5, <1>6, <1>7, <1>8, <1>9, <1>10, <1>11, <1>12 DEF UsageNext

\* A score is within the limit, in memory or in the file, or within what the longest
\* stretch of focus so far was worth (shell-app-usage.c).
THEOREM ScoresStayBounded == UsageSpec => []ScoresAreBounded
<1>1. UsageInit => ScoreInv
  <2> SUFFICES ASSUME UsageInit PROVE ScoreInv
    OBVIOUS
  <2>1. longest = 0 /\ ScoreBound \in Nat
    BY BoundGrows DEF UsageInit, ScoreBound
  <2>2. NoUsage \in ScoresTo(ScoreBound)
    BY <2>1 DEF NoUsage, ScoresTo
  <2> QED BY <2>1, <2>2 DEF UsageInit, ScoreInv
<1>2. ScoreInv /\ [UsageNext]_usageVars => ScoreInv'
  BY UsageStepIsBounded
<1>3. ScoreInv => ScoresAreBounded
  BY DEF ScoreInv, ScoresTo, ScoresAreBounded
<1> QED BY <1>1, <1>2, <1>3, PTL DEF UsageSpec
=============================================================================
