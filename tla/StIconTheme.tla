---------------------------- MODULE StIconTheme -----------------------------
(***************************************************************************)
(* The themes an StIconTheme has read, and the answers it remembers        *)
(* (src/st/st-icon-theme.c).                                               *)
(*                                                                         *)
(* Themes are read by the first lookup after a change, and read again when *)
(* a lookup finds, not more often than every five seconds, that one of the *)
(* directories they were looked for in has another modification time.      *)
(* Whoever keeps icons is told by the "changed" signal, from an idle       *)
(* handler; its handlers look icons up again.  What a lookup answers is    *)
(* here the list of themes it searched; IconLookup says how.               *)
(*                                                                         *)
(* Then the life of icon infos: the table that finds them again, the short *)
(* list that keeps them alive, and the loading of their images.  info_cache *)
(* holds no reference: an info is removed from it when the last reference  *)
(* goes.  References are held by callers, by the list of the least recently *)
(* used (the LRU list), by a load that is under way and by the proxy       *)
(* images handed out.  Loads run in a thread on a copy, whose result is    *)
(* copied back when the main loop gets to it.                              *)
(***************************************************************************)
EXTENDS Integers, Sequences, FiniteSets
LOCAL INSTANCE SequencesExt

CONSTANTS
  Paths,          \* directories that can be on the search path
  ThemeNames,     \* names of themes
  Default, Gnome, Fallback,    \* the ones that are always looked for
  Inherits,       \* of each theme, the themes it names
  Keepers,        \* those who keep icons, in the order of their handlers
  IconKeys,       \* what is looked up
  SlowHandlers,   \* whether five seconds can go by while handlers run
  MaxMtime,       \* bound on modification times
  MaxPathLength,  \* bound on the search path
  MaxThemeOps     \* bound on the calls and changes of a behaviour

Places == Paths \X ThemeNames
NoTheme == "none"

VARIABLES
  mtimeOf,    \* modification time of each place, 0 where there is no directory
  setting,    \* the theme of the settings
  path,       \* search_path
  valid,      \* themes_valid
  themes,     \* the themes that were read, in lookup order
  mtimes,     \* dir_mtimes
  old,        \* whether last_stat_time is more than five seconds ago
  cache,      \* info_cache: what was answered for a key
  queued,     \* theme_changed_idle
  emission,   \* the handlers that are still to run in an emission, or none
  kept,       \* the icons the keepers hold: what they were answered
  themeOps    \* calls and changes so far
iconThemeVars == <<mtimeOf, setting, path, valid, themes, mtimes, old, cache, queued, emission, kept, themeOps>>

NotEmitting == <<NoTheme>>
NotKept == <<>>
Elems(seq) == {seq[i] : i \in DOMAIN seq}

---------------------------------------------------------------------------
\* insert_theme(): a theme once, then the ones it inherits.  Every place it
\* was looked for in is remembered.  Only the built-in index of the fallback
\* theme needs no directory.  acc: the themes in order, and the names tried.
RECURSIVE InsertTheme(_, _, _)
InsertTheme(acc, name, on) ==
  LET exists == \E i \in DOMAIN on.path : on.mtimeOf[on.path[i], name] > 0
      tried == [acc EXCEPT !.tried = @ \cup {name}]
      here == [tried EXCEPT !.order = Append(@, name)]
  IN IF name \in Elems(acc.order) THEN acc
     ELSE IF ~exists /\ name # Fallback THEN tried
     ELSE FoldLeft(LAMBDA a, n : InsertTheme(a, n, on), here, IF exists THEN Inherits[name] ELSE <<>>)
\* load_themes()
InsertAll(on) ==
  FoldLeft(LAMBDA a, n : InsertTheme(a, n, on), [order |-> <<>>, tried |-> {}], <<on.setting, Default, Gnome, Fallback>>)
\* A theme with the modification times of its places stands for its content.
ContentOf(order, on) ==
  [i \in DOMAIN order |-> <<order[i], [j \in DOMAIN on.path |-> <<on.path[j], on.mtimeOf[on.path[j], order[i]]>>]>>]
ReadThemes(on, inserted) ==
  [themes |-> ContentOf(inserted.order, on),
   mtimes |-> [q \in Elems(on.path) \X inserted.tried |-> on.mtimeOf[q]]]
LoadThemes(on) == ReadThemes(on, InsertAll(on))

OnDisk == [mtimeOf |-> mtimeOf, path |-> path, setting |-> setting]
\* rescan_themes()
Rescan == \E q \in DOMAIN mtimes : mtimes[q] # mtimeOf[q]
\* Mutant: the keepers are not told of themes that are read again.
QueueOnlySwitches(wasValid) == FALSE
\* The end of ensure_valid_themes(): only what replaces valid themes is a
\* change, and one idle handler at a time is waiting.
QueueAfterLoad(wasValid) == wasValid

\* ensure_valid_themes(): Reloads says whether the themes are read.
ReloadsThemes == ~valid \/ (old /\ Rescan)
Ensure ==
  IF ReloadsThemes
  THEN LET read == LoadThemes(OnDisk)
       IN /\ themes' = read.themes /\ mtimes' = read.mtimes
          /\ valid' = TRUE /\ old' = FALSE
          /\ queued' = (queued \/ QueueAfterLoad(valid))
  ELSE /\ UNCHANGED <<themes, mtimes, valid, queued>>
       /\ old' = FALSE
\* What is left in the cache when Ensure is done: nothing after a rescan.
CacheAfterEnsure == IF valid /\ ReloadsThemes THEN [k \in IconKeys |-> NotKept] ELSE cache

\* real_choose_icon(): a remembered answer, or one from the themes.
AnswerTo(k, before, read) == IF before[k] # NotKept THEN before[k] ELSE read
AskTheme(o, k) ==
  /\ Ensure
  /\ cache' = [CacheAfterEnsure EXCEPT ![k] = AnswerTo(k, CacheAfterEnsure, themes')]
  /\ kept' = [kept EXCEPT ![o] = AnswerTo(k, CacheAfterEnsure, themes')]

\* do_theme_change() with blow_themes()
DoThemeChange ==
  /\ cache' = [k \in IconKeys |-> NotKept]
  /\ valid' = FALSE
  /\ queued' = (queued \/ valid)
  /\ IF valid THEN themes' = <<>> /\ mtimes' = <<>> ELSE UNCHANGED <<themes, mtimes>>

---------------------------------------------------------------------------
Quiet == emission = NotEmitting
Op == themeOps < MaxThemeOps /\ themeOps' = themeOps + 1

LookupIcon(o, k) ==
  /\ Quiet /\ Op /\ AskTheme(o, k)
  /\ UNCHANGED <<mtimeOf, setting, path, emission>>
\* update_current_theme() from notify::gtk-icon-theme
SettingsChanged(name) ==
  /\ Quiet /\ Op /\ name # setting
  /\ setting' = name
  /\ DoThemeChange
  /\ UNCHANGED <<mtimeOf, path, old, emission, kept>>
SetPath(new) ==
  /\ Quiet /\ Op
  /\ path' = new
  /\ DoThemeChange
  /\ UNCHANGED <<mtimeOf, setting, old, emission, kept>>
SetSearchPath(p) == SetPath(<<p>>)
AppendSearchPath(p) == Len(path) < MaxPathLength /\ SetPath(Append(path, p))
PrependSearchPath(p) == Len(path) < MaxPathLength /\ SetPath(<<p>> \o path)
\* st_icon_theme_rescan_if_needed()
RescanIfNeeded ==
  /\ Quiet /\ Op /\ valid
  /\ IF Rescan THEN DoThemeChange /\ UNCHANGED old
     ELSE old' = FALSE /\ UNCHANGED <<cache, valid, queued, themes, mtimes>>
  /\ UNCHANGED <<mtimeOf, setting, path, emission, kept>>
\* Another program installs or removes a theme.
Install(q) ==
  /\ Op
  /\ \E t \in 0 .. MaxMtime : t # mtimeOf[q] /\ mtimeOf' = [mtimeOf EXCEPT ![q] = t]
  /\ UNCHANGED <<setting, path, valid, themes, mtimes, old, cache, queued, emission, kept>>
FiveSeconds ==
  /\ ~old /\ (Quiet \/ SlowHandlers)
  /\ old' = TRUE
  /\ UNCHANGED <<mtimeOf, setting, path, valid, themes, mtimes, cache, queued, emission, kept, themeOps>>

\* theme_changed_idle(): the signal is emitted, then the handler forgotten.
ThemeChangedIdle ==
  /\ Quiet /\ queued
  /\ emission' = Keepers
  /\ UNCHANGED <<mtimeOf, setting, path, valid, themes, mtimes, old, cache, queued, kept, themeOps>>
HandleChanged(k) ==
  /\ emission # NotEmitting /\ emission # <<>>
  /\ AskTheme(emission[1], k)
  /\ emission' = Tail(emission)
  /\ UNCHANGED <<mtimeOf, setting, path, themeOps>>
EmissionDone ==
  /\ emission = <<>>
  /\ emission' = NotEmitting
  /\ queued' = FALSE
  /\ UNCHANGED <<mtimeOf, setting, path, valid, themes, mtimes, old, cache, kept, themeOps>>

IconThemeInit ==
  /\ mtimeOf \in [Places -> {0, 1}]
  /\ setting = Default
  /\ path \in {<<p>> : p \in Paths}
  /\ valid = FALSE /\ themes = <<>> /\ mtimes = <<>> /\ old = FALSE
  /\ cache = [k \in IconKeys |-> NotKept]
  /\ queued = FALSE /\ emission = NotEmitting
  /\ kept = [o \in Elems(Keepers) |-> NotKept]
  /\ themeOps = 0
IconThemeNext ==
  \/ \E i \in 1 .. Len(Keepers), k \in IconKeys : LookupIcon(Keepers[i], k)
  \/ \E name \in ThemeNames : SettingsChanged(name)
  \/ \E p \in Paths : SetSearchPath(p) \/ AppendSearchPath(p) \/ PrependSearchPath(p)
  \/ RescanIfNeeded
  \/ \E q \in Places : Install(q)
  \/ FiveSeconds \/ ThemeChangedIdle \/ EmissionDone
  \/ \E k \in IconKeys : HandleChanged(k)
IconThemeSpec == IconThemeInit /\ [][IconThemeNext]_iconThemeVars

---------------------------------------------------------------------------
(* Properties *)

\* Whoever holds an icon of themes that are no longer the ones that would be
\* searched is still going to be told: an idle handler is queued, or its turn
\* in the emission has not come (queue_theme_changed(), do_theme_change()).
StaleKeepersAreTold ==
  \A o \in Elems(Keepers) :
    kept[o] # NotKept /\ ~(valid /\ kept[o] = themes)
    => \/ queued /\ emission = NotEmitting
       \/ emission # NotEmitting /\ o \in Elems(emission)

\* No answer outlives the themes it was found in, and each is found as if the
\* themes on disk at the time they were read were searched now.
AnswersAreOfTheThemes ==
  \A k \in IconKeys : cache[k] # NotKept => valid /\ cache[k] = themes

\* While themes are valid, every directory whose appearance could change them
\* is among the ones that are looked at again, even one of a theme that was
\* not there (insert_theme() records the times before it looks for the index).
ChangesAreNoticed ==
  valid /\ LoadThemes(OnDisk).themes # themes => Rescan

-----------------------------------------------------------------------------
CONSTANTS
  InfoKeys,      \* what is looked up: names, size, scale and flags
  Emblems,       \* of each key, whether its icon has an emblem: "none", "good", "bad"
  Readable,      \* the keys whose image can be read
  SymbolicKeys,  \* the keys whose icon is symbolic, an svg file that is coloured
  Colours,       \* colours of symbolic icons
  InfoIds,       \* 1 .. n: the infos of a behaviour, in the order of creation
  LruSize,       \* INFO_CACHE_LRU_SIZE
  MaxHandles,    \* bound on the references a caller holds to one info
  MaxInfoOps     \* bound on the calls of a behaviour

VARIABLES
  info,      \* the infos
  table,     \* info_cache: the info of a key, or 0
  lru,       \* info_cache_lru
  loads,     \* loads under way: a copy per info, as a sequence
  made,      \* how many infos were made
  infoOps
infoVars == <<info, table, lru, loads, made, infoOps>>

Plain == "plain"
Looks2 == Colours \cup {Plain}
NotMade == [key |-> "none", alive |-> FALSE, in |-> FALSE, handles |-> 0, loading |-> 0,
            pixbuf |-> FALSE, applied |-> FALSE, failed |-> FALSE,
            tints |-> {}, proxy |-> [c \in Looks2 |-> 0]]
\* A state of the whole component, for actions of several steps.
S0 == [info |-> info, table |-> table, lru |-> lru]
OnLru(s, i) == \E n \in DOMAIN s.lru : s.lru[n] = i
References(s, i) ==
  s.info[i].handles + s.info[i].loading + Cardinality({c \in Looks2 : s.info[i].proxy[c] > 0})
  + (IF OnLru(s, i) THEN 1 ELSE 0)

\* st_icon_info_finalize(): out of the table, if still in it.
Finalize(s, i) ==
  [s EXCEPT !.info[i].alive = FALSE, !.info[i].in = FALSE,
            !.table = [k \in InfoKeys |-> IF s.info[i].in /\ k = s.info[i].key THEN 0 ELSE @[k]]]
DropUnreferenced(s, i) == IF s.info[i].alive /\ References(s, i) = 0 THEN Finalize(s, i) ELSE s

\* remove_from_lru_cache()
RemoveFromLru(s, i) == [s EXCEPT !.lru = SelectSeq(@, LAMBDA j : j # i)]
\* add_to_lru_cache() with ensure_lru_cache_space(): the last makes room.
MakeRoom(s) ==
  IF Len(s.lru) < LruSize THEN s
  ELSE DropUnreferenced([s EXCEPT !.lru = SubSeq(@, 1, LruSize - 1)], s.lru[LruSize])
Prepended(s, i) == [s EXCEPT !.lru = <<i>> \o @]
AddToLru(s, i) == Prepended(MakeRoom(s), i)
\* ensure_in_lru_cache()
EnsureInLru(s, i) == IF OnLru(s, i) THEN Prepended(RemoveFromLru(s, i), i) ELSE AddToLru(s, i)

\* proxy_pixbuf_destroy(), proxy_symbolic_pixbuf_destroy(): only an info that
\* is still in the table is kept.
ProxyGone(s, i, c) ==
  LET gone == [s EXCEPT !.info[i].proxy[c] = 0]
  IN DropUnreferenced(IF s.info[i].in THEN EnsureInLru(gone, i) ELSE gone, i)

\* icon_info_uncached() for every info, from g_hash_table_remove_all()
Uncached(s, i) == DropUnreferenced(RemoveFromLru([s EXCEPT !.info[i].in = FALSE], i), i)
RemoveAll(s) ==
  LET emptied == [s EXCEPT !.table = [k \in InfoKeys |-> 0]]
      held == {i \in InfoIds : s.info[i].in}
  IN FoldLeft(Uncached, emptied, SetToSeq(held))

---------------------------------------------------------------------------
\* icon_info_ensure_scale_and_pixbuf() with apply_emblems()
Applied(r) == IF r.applied \/ Emblems[r.key] # "good" THEN r ELSE [r EXCEPT !.applied = TRUE]
EnsurePixbuf(r) ==
  IF r.pixbuf THEN Applied(r)
  ELSE IF r.failed THEN r
  ELSE IF r.key \in Readable THEN Applied([r EXCEPT !.pixbuf = TRUE]) ELSE [r EXCEPT !.failed = TRUE]
\* icon_info_get_pixbuf_ready()
Ready(r) == (r.pixbuf /\ (Emblems[r.key] = "none" \/ r.applied)) \/ r.failed
\* st_icon_info_load_icon(): a proxy, shared by those who ask while it lives.
LoadIcon(r) ==
  LET loaded == EnsurePixbuf(r)
  IN IF loaded.pixbuf THEN [loaded EXCEPT !.proxy[Plain] = @ + 1] ELSE loaded

\* Symbolic icons: one image per set of colours, found by
\* symbolic_pixbuf_cache_matches() and handed out by symbolic_cache_get_proxy().
IsTinted(r, c) == c # Plain /\ r.key \in SymbolicKeys
TintedProxy(r, c) == [r EXCEPT !.tints = @ \cup {c}, !.proxy[c] = @ + 1]
\* st_icon_info_load_symbolic_internal() with st_icon_info_load_symbolic_svg():
\* a failure is handed to the caller and not remembered.
LoadTinted(r, c) ==
  IF c \in r.tints \/ r.key \in Readable THEN TintedProxy(EnsurePixbuf(r), c) ELSE r
\* st_icon_info_load_symbolic()
Load(r, c) == IF IsTinted(r, c) THEN LoadTinted(r, c) ELSE LoadIcon(r)
ReadyFor(r, c) == IF IsTinted(r, c) THEN c \in r.tints ELSE Ready(r)

---------------------------------------------------------------------------
Becomes(s) == info' = s.info /\ table' = s.table /\ lru' = s.lru
Call == infoOps < MaxInfoOps /\ infoOps' = infoOps + 1

\* real_choose_icon(): the info of the table, off the list because the caller
\* holds it now; or a new one.  An icon with an emblem is a copy that is not
\* in the table (st_icon_theme_lookup_by_gicon_for_scale()).
Hit(s, i) == RemoveFromLru([s EXCEPT !.info[i].handles = @ + 1], i)
New(s, i, k) ==
  [s EXCEPT !.info[i] = [NotMade EXCEPT !.key = k, !.alive = TRUE, !.handles = 1, !.in = Emblems[k] = "none"],
            !.table = IF Emblems[k] = "none" THEN [@ EXCEPT ![k] = i] ELSE @]
Choose(k) ==
  /\ Call
  /\ IF table[k] # 0
     THEN /\ info[table[k]].handles < MaxHandles
          /\ Becomes(Hit(S0, table[k]))
          /\ UNCHANGED made
     ELSE /\ made < Cardinality(InfoIds)
          /\ made' = made + 1
          /\ Becomes(New(S0, made + 1, k))
  /\ UNCHANGED loads
Unref(i) ==
  /\ info[i].handles > 0
  /\ Becomes(DropUnreferenced([S0 EXCEPT !.info[i].handles = @ - 1], i))
  /\ UNCHANGED <<loads, made, infoOps>>
LoadNow(i, c) ==
  /\ Call /\ info[i].handles > 0
  /\ Becomes([S0 EXCEPT !.info[i] = Load(@, c)])
  /\ UNCHANGED <<loads, made>>
\* st_icon_info_load_icon_async(), st_icon_info_load_symbolic_async(): at once
\* when it is ready, else in a thread, on a copy.
LoadAsync(i, c) ==
  /\ Call /\ info[i].handles > 0
  /\ IF ReadyFor(info[i], c)
     THEN /\ Becomes([S0 EXCEPT !.info[i] = Load(@, c)])
          /\ UNCHANGED loads
     ELSE /\ loads' = Append(loads, [of |-> i, look |-> c, copy |-> info[i], done |-> FALSE])
          /\ Becomes([S0 EXCEPT !.info[i].loading = @ + 1])
  /\ UNCHANGED made
\* load_icon_thread(), load_symbolic_icon_thread()
LoadThread(n) ==
  /\ n \in DOMAIN loads /\ ~loads[n].done
  /\ loads' = [loads EXCEPT ![n].done = TRUE, ![n].copy = EnsurePixbuf(@)]
  /\ UNCHANGED <<info, table, lru, made, infoOps>>
\* st_icon_info_load_icon_finish(): the copy's result, unless someone else
\* loaded the icon meanwhile.
CopiedBack(r, copy) ==
  IF Ready(r) THEN r ELSE [r EXCEPT !.applied = copy.applied, !.pixbuf = copy.pixbuf, !.failed = copy.failed]
\* st_icon_info_load_symbolic_finish()
SymbolicFinished(r, c, copy) ==
  IF ~IsTinted(r, c) THEN LoadIcon(CopiedBack(r, copy))
  ELSE IF c \in r.tints \/ copy.pixbuf THEN TintedProxy(r, c) ELSE r
LoadFinish(n) ==
  /\ n \in DOMAIN loads /\ loads[n].done
  /\ LET i == loads[n].of
     IN Becomes(DropUnreferenced([S0 EXCEPT !.info[i] = SymbolicFinished([@ EXCEPT !.loading = @ - 1], loads[n].look, loads[n].copy)], i))
  /\ loads' = RemoveAt(loads, n)
  /\ UNCHANGED <<made, infoOps>>
\* A holder of a proxy lets it go.
DropProxy(i, c) ==
  /\ info[i].proxy[c] > 0
  /\ Becomes(IF info[i].proxy[c] > 1 THEN [S0 EXCEPT !.info[i].proxy[c] = @ - 1] ELSE ProxyGone(S0, i, c))
  /\ UNCHANGED <<loads, made, infoOps>>
\* do_theme_change(), or ensure_valid_themes() after a rescan
ThemeChange ==
  /\ Call
  /\ Becomes(RemoveAll(S0))
  /\ UNCHANGED <<loads, made>>

InfoInit ==
  /\ info = [i \in InfoIds |-> NotMade]
  /\ table = [k \in InfoKeys |-> 0]
  /\ lru = <<>> /\ loads = <<>> /\ made = 0 /\ infoOps = 0
InfoNext ==
  \/ \E k \in InfoKeys : Choose(k)
  \/ \E i \in InfoIds : Unref(i) \/ LoadThread(i) \/ LoadFinish(i)
  \/ \E i \in InfoIds, c \in Looks2 : LoadNow(i, c) \/ LoadAsync(i, c) \/ DropProxy(i, c)
  \/ ThemeChange
InfoSpec == InfoInit /\ [][InfoNext]_infoVars

---------------------------------------------------------------------------
(* Properties *)

\* The table and the list never point at an info that is gone; the list keeps
\* only infos a lookup can find, at most LruSize of them, each once; and an
\* info lives exactly as long as something refers to it (icon_info_uncached(),
\* st_icon_info_finalize(), and the assertion of st_icon_theme_finalize() that
\* the list is empty once the table is).
CachedInfosLive ==
  /\ \A k \in InfoKeys : table[k] # 0 => info[table[k]].alive /\ info[table[k]].in /\ info[table[k]].key = k
  /\ \A n \in DOMAIN lru : info[lru[n]].alive /\ table[info[lru[n]].key] = lru[n]
  /\ Len(lru) <= LruSize /\ \A m, n \in DOMAIN lru : m # n => lru[m] # lru[n]
  /\ \A i \in InfoIds : info[i].alive <=> References(S0, i) > 0

\* When a load has come back, the info is ready: the assertion at the end of
\* st_icon_info_load_icon_finish().
LoadedInfosAreReady ==
  \A n \in DOMAIN loads : loads[n].done /\ ~IsTinted(info[loads[n].of], loads[n].look)
    => Ready(CopiedBack(info[loads[n].of], loads[n].copy))
=============================================================================
