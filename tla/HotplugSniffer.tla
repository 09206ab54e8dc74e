--------------------------- MODULE HotplugSniffer ---------------------------
(***************************************************************************)
(* The service that tells what a plugged-in medium holds                   *)
(* (src/hotplug-sniffer/): SniffURI() calls, each with a sniffer that      *)
(* walks the directories of the medium until it is through or its watchdog *)
(* cuts it short, and the timer that makes the idle process quit.  GIO is  *)
(* external: a file or directory can be read or not.  A task is answered   *)
(* as soon as it is given its result, and a cancelled one with an error.   *)
(* The entries of a directory come in any order, which also is the order   *)
(* in which the directories found are gone through.                        *)
(***************************************************************************)
EXTENDS Integers, Sequences, FiniteSets
Seqs == INSTANCE SequencesExt

CONSTANTS
  SniffUris,       \* places that are asked about; those in DOMAIN Entries are directories
  Entries,         \* the entries of each directory: content types, and directories
  BatchSize,       \* entries per callback
  Invocations      \* calls, at most these

Dirs == DOMAIN Entries
ContentTypes == <<"video", "audio", "pictures", "documents">>
Types == {ContentTypes[i] : i \in DOMAIN ContentTypes}
NoCounts == [t \in Types |-> 0]

\* The directories from d down: those in every set that has d and, with a
\* directory, what is in it.
Whole(S) == \A d \in S : \A i \in DOMAIN Entries[d] : Entries[d][i] \in Dirs => Entries[d][i] \in S
DirsBelow(d) == {e \in Dirs : \A S \in SUBSET Dirs : d \in S /\ Whole(S) => e \in S}

\* Directories make a tree, as links are not followed.
ASSUME SnifferAssumption ==
  /\ IsFiniteSet(Dirs) /\ \A d \in Dirs : IsFiniteSet(DOMAIN Entries[d])
  /\ Types \cap Dirs = {}
  /\ \A d, e \in Dirs : \A i \in DOMAIN Entries[d], j \in DOMAIN Entries[e] :
       Entries[d][i] = Entries[e][j] /\ Entries[d][i] \in Dirs => d = e
  /\ \A d \in Dirs : \A i \in DOMAIN Entries[d] : Entries[d][i] \in Dirs => d \notin DirsBelow(Entries[d][i])

VARIABLES
  sniffs,      \* the sniffer of each call
  quitTimers,  \* autoquit timeouts that are armed
  autoquitId,  \* the one autoquit_id names, or 0
  process,     \* running or gone
  overlapped   \* history: a call came while another was under way
snifferVars == <<sniffs, quitTimers, autoquitId, process, overlapped>>

\* dir: the directory being read; rest: the entries of it that are left; subdirs:
\* directories found and not yet read
Unasked == [phase |-> "unasked", uri |-> "none", dir |-> "none", subdirs |-> {}, rest |-> {}, counts |-> NoCounts, cancelled |-> FALSE,
            watchdog |-> FALSE, skipped |-> FALSE, answer |-> <<>>]
UnderWay(r) == sniffs[r].phase \in {"query", "load", "more"}

---------------------------------------------------------------------------
\* add_content_type_to_cache() and deep_count_one() for the entries of a batch
DeepCount(s, batch) ==
  [s EXCEPT !.rest = @ \ batch,
            !.subdirs = @ \cup {Entries[s.dir][i] : i \in {j \in batch : Entries[s.dir][j] \in Dirs}},
            !.counts = [t \in Types |-> @[t] + Cardinality({i \in batch : Entries[s.dir][i] = t})]]

\* prepare_async_result(): the most frequent type, and up to two more with a
\* tenth of the files.
SumOf(counts) == counts["video"] + counts["audio"] + counts["pictures"] + counts["documents"]
Rank(t) == CHOOSE i \in DOMAIN ContentTypes : ContentTypes[i] = t
Results(counts) ==
  LET sorted == Seqs!SetToSortSeq(Types, LAMBDA a, b : counts[a] > counts[b] \/ (counts[a] = counts[b] /\ Rank(a) < Rank(b)))
      high(i) == counts[sorted[i]] * 10 >= SumOf(counts)
  IN IF SumOf(counts) = 0 THEN <<>>
     ELSE SubSeq(sorted, 1, IF ~high(2) THEN 1 ELSE IF ~high(3) THEN 2 ELSE 3)

\* ensure_autoquit_off(), ensure_autoquit_on(): the latter names a new timeout
\* whatever there was.
EnsureAutoquitOff == quitTimers' = quitTimers \ {autoquitId} /\ autoquitId' = 0
NewTimer == 1 + Cardinality({r \in Invocations : sniffs[r].phase = "answered"})
EnsureAutoquitOn == quitTimers' = quitTimers \cup {NewTimer + 1} /\ autoquitId' = NewTimer + 1

\* deep_count_finish() and sniff_async_ready_cb(): an error, or what was found
Answer(r, s, answer) ==
  /\ sniffs' = [sniffs EXCEPT ![r] = [s EXCEPT !.phase = "answered", !.answer = answer, !.cancelled = FALSE]]
  /\ EnsureAutoquitOn
Failed == <<"error">>
DeepCountFinish(r, s) == Answer(r, s, IF s.cancelled THEN Failed ELSE Results(s.counts))
Continue(r, s) == sniffs' = [sniffs EXCEPT ![r] = s] /\ UNCHANGED <<quitTimers, autoquitId>>
\* deep_count_load() and deep_count_next_dir()
DeepCountLoad(s, d) == [s EXCEPT !.phase = "load", !.dir = d, !.rest = DOMAIN Entries[d], !.subdirs = @ \ {d}]
DeepCountNextDir(r, s) ==
  \/ s.subdirs = {} /\ DeepCountFinish(r, s)
  \/ \E d \in s.subdirs : Continue(r, DeepCountLoad(s, d))

---------------------------------------------------------------------------
HandleSniffUri(r, uri) ==
  /\ process = "running" /\ sniffs[r] = Unasked
  /\ sniffs' = [sniffs EXCEPT ![r] = [Unasked EXCEPT !.phase = "query", !.uri = uri, !.watchdog = TRUE]]
  /\ overlapped' = (overlapped \/ \E q \in Invocations : UnderWay(q))
  /\ EnsureAutoquitOff /\ UNCHANGED process

QueryInfoReady(r, ok) ==
  /\ process = "running" /\ sniffs[r].phase = "query" /\ UNCHANGED <<process, overlapped>>
  /\ IF sniffs[r].cancelled \/ ~ok \/ sniffs[r].uri \notin Dirs THEN Answer(r, sniffs[r], Failed)
     ELSE Continue(r, DeepCountLoad(sniffs[r], sniffs[r].uri))

LeftOut(s) == [s EXCEPT !.rest = {}, !.skipped = TRUE]
\* deep_count_callback(): a directory that cannot be read is left out.
DeepCountCallback(r, ok) ==
  LET s == sniffs[r]
  IN /\ process = "running" /\ s.phase = "load" /\ UNCHANGED <<process, overlapped>>
     /\ \/ s.cancelled /\ DeepCountFinish(r, s)
        \/ ~s.cancelled /\ ok /\ Continue(r, [s EXCEPT !.phase = "more"])
        \/ ~s.cancelled /\ ~ok /\ DeepCountNextDir(r, LeftOut(s))

\* deep_count_more_files_callback(): a batch, or the end of the directory, for
\* which an error is taken too
DeepCountMoreFiles(r, ok) ==
  LET s == sniffs[r]
  IN /\ process = "running" /\ s.phase = "more" /\ UNCHANGED <<process, overlapped>>
     /\ \/ s.cancelled /\ DeepCountFinish(r, s)
        \/ ~s.cancelled /\ ~ok /\ DeepCountNextDir(r, LeftOut(s))
        \/ ~s.cancelled /\ ok /\ s.rest = {} /\ DeepCountNextDir(r, s)
        \/ /\ ~s.cancelled /\ ok
           /\ \E batch \in SUBSET s.rest :
                batch # {} /\ Cardinality(batch) <= BatchSize /\ Continue(r, DeepCount(s, batch))

\* The watchdog outlives the answer: nothing but the end of the sniffer, which
\* its own task holds, would remove it.
WatchdogTimeoutReached(r) ==
  /\ process = "running" /\ sniffs[r].watchdog
  /\ sniffs' = [sniffs EXCEPT ![r].watchdog = FALSE, ![r].cancelled = TRUE]
  /\ UNCHANGED <<quitTimers, autoquitId, process, overlapped>>
AutoquitTimeout(t) ==
  /\ process = "running" /\ t \in quitTimers
  /\ quitTimers' = quitTimers \ {t} /\ autoquitId' = 0 /\ process' = "gone"
  /\ UNCHANGED <<sniffs, overlapped>>

---------------------------------------------------------------------------
SnifferInit ==
  /\ sniffs = [r \in Invocations |-> Unasked]
  /\ quitTimers = {1} /\ autoquitId = 1 /\ process = "running" /\ overlapped = FALSE
SnifferNext ==
  \/ \E r \in Invocations :
       \/ \E uri \in SniffUris : HandleSniffUri(r, uri)
       \/ \E ok \in BOOLEAN : QueryInfoReady(r, ok) \/ DeepCountCallback(r, ok) \/ DeepCountMoreFiles(r, ok)
       \/ WatchdogTimeoutReached(r)
  \/ \E t \in 1 .. Cardinality(Invocations) + 1 : AutoquitTimeout(t)
SnifferSpec == SnifferInit /\ [][SnifferNext]_snifferVars

---------------------------------------------------------------------------
\* What a directory and those below it hold of each type.
FilesIn(D, t) == UNION {{d} \X {i \in DOMAIN Entries[d] : Entries[d][i] = t} : d \in D}
FilesOf(uri) == [t \in Types |-> Cardinality(FilesIn(DirsBelow(uri), t))]

\* Calls that come one at a time are never left unanswered by a process that
\* quits, and a process with nothing to do is always about to quit.  A sniff
\* that ran its course counted every file of the medium once, whatever
\* batches and directories it came in: its answer is that of the whole tree
\* (ensure_autoquit_on(), deep_count_more_files_callback(),
\* prepare_async_result()).
MediaAreSniffed ==
  /\ ~overlapped => /\ process = "gone" => \A r \in Invocations : ~UnderWay(r)
                    /\ process = "running" => quitTimers = IF \E r \in Invocations : UnderWay(r) THEN {} ELSE {autoquitId}
  /\ \A r \in Invocations : sniffs[r].phase = "answered" /\ sniffs[r].answer # Failed /\ ~sniffs[r].skipped =>
       sniffs[r].answer = Results(FilesOf(sniffs[r].uri))
=============================================================================
