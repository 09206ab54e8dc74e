----------------------------- MODULE IconLookup -----------------------------
(***************************************************************************)
(* Finding the file of an icon: the lookups of st-icon-theme.c and the     *)
(* index files of st-icon-cache.c.                                         *)
(*                                                                         *)
(* An icon name is the sequence of its words, between which the program    *)
(* has dashes.  A file is a name and a suffix.  A directory of a theme has *)
(* the numbers its group of index.theme gives it and the files in it,      *)
(* which are read either from the directory or from the index file of the  *)
(* theme (icon-theme.cache), one chain of names per bucket.                *)
(***************************************************************************)
EXTENDS Integers, Sequences
LOCAL INSTANCE SequencesExt
LOCAL INSTANCE FiniteSetsExt
LOCAL INSTANCE FiniteSets

CONSTANTS
  IconFiles,    \* files: pairs of a name and a suffix
  Groups,       \* groups of index.theme: type, size, min, max, threshold, scale
  Asked,        \* lists of names asked for
  Dimensions,   \* sizes asked for
  Ratios2,      \* scales asked for
  MaxFiles      \* bound on the files of the themes together

VARIABLES
  first, second,   \* the directories of two themes, in lookup order
  loose,           \* unthemed icons, by name
  last             \* the chain an index file was left at
lookupVars == <<first, second, loose, last>>

Symbolic == "symbolic"
NoInfo == [name |-> <<>>]
Magnitude(n) == IF n < 0 THEN -n ELSE n

---------------------------------------------------------------------------
\* Names.

\* icon_name_is_symbolic()
IsSymbolicName(n) ==
  \/ n[Len(n)] = Symbolic
  \/ Len(n) > 1 /\ n[Len(n)] \in {"ltr", "rtl"} /\ n[Len(n) - 1] = Symbolic
\* Nine characters are cut off, whichever of the endings the name has: "sym"
\* is what is left of "symbolic-ltr".
WithoutSymbolic(n) ==
  IF n[Len(n)] = Symbolic THEN Front(n) ELSE Append(SubSeq(n, 1, Len(n) - 2), "sym")
\* icon_name_list_add_icon()
WithDirection(n, flags) ==
  IF "ltr" \in flags THEN <<Append(n, "ltr"), n>>
  ELSE IF "rtl" \in flags THEN <<Append(n, "rtl"), n>> ELSE <<n>>
AllWithDirection(names, flags) == FlattenSeq([i \in DOMAIN names |-> WithDirection(names[i], flags)])
Mapped2(Op(_), names) == [i \in DOMAIN names |-> Op(names[i])]
ToRegular(n) == IF IsSymbolicName(n) THEN WithoutSymbolic(n) ELSE n
ToSymbolic(n) == IF IsSymbolicName(n) THEN n ELSE Append(n, Symbolic)

\* choose_icon(): the names that are looked for, in their order.
NamesToTry(names, flags) ==
  LET isRegular(n) == ~IsSymbolicName(n)
      symbolic == SelectSeq(names, IsSymbolicName)
      regular == SelectSeq(names, isRegular)
  IN IF "force-regular" \in flags /\ symbolic # <<>>
     THEN AllWithDirection(Mapped2(ToRegular, names) \o symbolic, flags)
     ELSE IF "force-symbolic" \in flags /\ regular # <<>>
     THEN AllWithDirection(Mapped2(ToSymbolic, names) \o regular, flags)
     ELSE AllWithDirection(names, flags)

\* st_icon_theme_lookup_icon_for_scale(): the more and more generic names,
\* for a symbolic icon the symbolic ones before the others.
GenericNames(n) ==
  LET plain == ToRegular(n)
      shorter == [i \in 1 .. Len(plain) |-> SubSeq(plain, 1, Len(plain) - i + 1)]
      withSymbolic(m) == Append(m, Symbolic)
  IN IF IsSymbolicName(n) THEN Mapped2(withSymbolic, shorter) \o shorter ELSE shorter

---------------------------------------------------------------------------
\* The files of a directory.

\* scan_directory(), scan_resources(): the suffixes of each name.
Scanned(files, n) == {f[2] : f \in {g \in files : g[1] = n}}

\* The index file: strip_suffix() of its writer leaves ".symbolic" in a name.
IndexName(f) == IF f[2] = "symbolic.png" THEN Append(f[1], ".symbolic") ELSE f[1]
IndexSuffix(f) == IF f[2] = "symbolic.png" THEN "png" ELSE f[2]
\* find_image_offset() and st_icon_cache_get_icon_flags(): the chain that was
\* found last is tried first, then the chain of the name's bucket.
Chain(files, n) == {f \in files : IndexName(f) = n}
ChainFor(files, n, at) == IF at = n THEN Chain(files, at) ELSE Chain(files, n)
FindImage(files, n, at) == {IndexSuffix(f) : f \in ChainFor(files, n, at)}
LastChain(files, n) == IF Chain(files, n) = {} THEN <<>> ELSE n

\* Mutant: the index file is asked for the name itself only.
IndexedPlain(files, n, at) == FindImage(files, n, at)
\* theme_dir_get_icon_suffix() with an index file.
Indexed(files, n, at) ==
  IF IsSymbolicName(n) /\ "png" \in FindImage(files, Append(n, ".symbolic"), at)
  THEN {"symbolic.png"} ELSE FindImage(files, n, at)
IconSuffixes(d, n, at) == IF d.indexed THEN Indexed(d.files, n, at) ELSE Scanned(d.files, n)

\* best_suffix()
BestSuffix(suffixes, svg) ==
  IF "symbolic.png" \in suffixes THEN "symbolic.png"
  ELSE IF "png" \in suffixes THEN "png"
  ELSE IF svg /\ "svg" \in suffixes THEN "svg"
  ELSE IF "xpm" \in suffixes THEN "xpm" ELSE "none"

\* theme_dir_size_difference()
SizeDifference(d, size, scale) ==
  LET wanted == size * scale
      low == (IF d.type = "scalable" THEN d.min ELSE d.size - d.threshold) * d.scale
      high == (IF d.type = "scalable" THEN d.max ELSE d.size + d.threshold) * d.scale
  IN IF d.type = "fixed" THEN Magnitude(wanted - d.size * d.scale)
     ELSE IF wanted < low THEN low - wanted
     ELSE IF (IF d.type = "scalable" THEN size ELSE wanted) > high THEN wanted - high
     ELSE 0

\* compare_dir_matches()
SameScaleBetter(a, b, size, scale) ==
  IF (a.scale = scale) # (b.scale = scale) THEN a.scale = scale
  ELSE IF (a.type = "scalable") # (b.type = "scalable") THEN a.type # "scalable"
  ELSE Magnitude(size * scale - a.size * a.scale) <= Magnitude(size * scale - b.size * b.scale)
CompareDirMatches(a, b, size, scale) ==
  LET da == SizeDifference(a, size, scale)
      db == SizeDifference(b, size, scale)
  IN IF da = 0 THEN db # 0 \/ SameScaleBetter(a, b, size, scale)
     ELSE IF (a.size >= size) # (b.size >= size) THEN a.size >= size
     ELSE da < db \/ (da = db /\ SameScaleBetter(a, b, size, scale))

\* theme_lookup_icon(): of the directories that have the icon, the best.
ThemeLookupDir(dirs, n, size, scale, svg, at) ==
  LET having == SelectSeq(dirs, LAMBDA d : BestSuffix(IconSuffixes(d, n, at), svg) # "none")
  IN IF having = <<>> THEN <<>>
     ELSE <<FoldLeft(LAMBDA best, d : IF CompareDirMatches(d, best, size, scale) THEN d ELSE best,
                     having[1], Tail(having))>>
\* icon_info_new() with what the lookup fills in.
ThemeLookup(dirs, n, size, scale, svg, at) ==
  LET found == ThemeLookupDir(dirs, n, size, scale, svg, at)
  IN IF found = <<>> THEN NoInfo
     ELSE [name |-> n, suffix |-> BestSuffix(IconSuffixes(found[1], n, at), svg), dir |-> found[1]]

\* add_unthemed_icon(): of several files the first with an svg and the best
\* of the others.
Rank(suffix) == CHOOSE i \in 0 .. 4 : <<"none", "xpm", "svg", "png", "symbolic.png">>[i + 1] = suffix
NoLoose == [svg |-> FALSE, other |-> "none"]
LooseWith(icon, suffix) ==
  IF suffix = "svg" THEN [icon EXCEPT !.svg = TRUE]
  ELSE [icon EXCEPT !.other = IF Rank(suffix) > Rank(@) THEN suffix ELSE @]
LooseSuffix(icon, svg) ==
  IF svg /\ icon.svg /\ Rank(icon.other) < Rank("png") THEN "svg" ELSE icon.other
UnthemedDir(size) == [type |-> "unthemed", size |-> size, min |-> 0, max |-> 0, threshold |-> 0, scale |-> 1]

\* real_choose_icon(): every name in every theme, then the unthemed icons.
RealChooseIcon(themes, unthemed, names, size, scale, flags, at) ==
  LET svg == "no-svg" \notin flags
      tries == {<<i, t>> \in (DOMAIN names) \X (DOMAIN themes) :
                  ThemeLookupDir(themes[t], names[i], size, scale, svg, at) # <<>>}
      loosely == {i \in DOMAIN names : names[i] \in DOMAIN unthemed}
      best == CHOOSE p \in tries : \A q \in tries : p[1] < q[1] \/ (p[1] = q[1] /\ p[2] <= q[2])
  IN IF tries # {} THEN ThemeLookup(themes[best[2]], names[best[1]], size, scale, svg, at)
     ELSE IF loosely = {} \/ LooseSuffix(unthemed[names[Min(loosely)]], svg) = "none" THEN NoInfo
     ELSE [name |-> names[Min(loosely)], suffix |-> LooseSuffix(unthemed[names[Min(loosely)]], svg),
           dir |-> UnthemedDir(size)]
ChooseIcon(themes, unthemed, names, size, scale, flags, at) ==
  RealChooseIcon(themes, unthemed, NamesToTry(names, flags), size, scale, flags, at)

---------------------------------------------------------------------------
\* What is loaded of the file.  A scale is a fraction.

\* The unscaled_scale of real_choose_icon(): what the icon of scale 1 would be
\* magnified by.
UnscaledScale(dirs, info, size, scale, svg, at) ==
  LET plain == ThemeLookup(dirs, info.name, size, 1, svg, at)
  IN IF scale = 1 \/ plain = NoInfo THEN <<1, 1>>
     ELSE <<plain.dir.size * scale, info.dir.size * info.dir.scale>>
\* icon_info_ensure_scale_and_pixbuf(): the size in pixels of what is loaded,
\* from an image whose own size is image.
RoundedTo(n, fraction) == Max({1, (2 * n * fraction[1] + fraction[2]) \div (2 * fraction[2])})
LoadedSize(info, size, scale, forced, unscaled, image) ==
  LET wanted == size * scale
      dscale == IF info.suffix = "svg" THEN scale ELSE info.dir.scale
      inDir == IF wanted < info.dir.min * dscale THEN <<info.dir.min, info.dir.size>>
               ELSE IF wanted > info.dir.max * dscale THEN <<info.dir.max, info.dir.size>>
               ELSE <<wanted, info.dir.size * dscale>>
      factor == IF info.dir.type = "scalable" THEN inDir ELSE unscaled
  IN IF forced THEN wanted
     ELSE IF info.dir.type = "unthemed" THEN Min({wanted, image})
     ELSE IF info.suffix = "svg" THEN (info.dir.size * dscale * factor[1]) \div factor[2]
     ELSE RoundedTo(image, factor)

\* st_icon_theme_has_icon(), st_icon_theme_list_icons()
ListedIn(d) == IF d.indexed THEN {IndexName(f) : f \in d.files} ELSE {f[1] : f \in d.files}
ListIcons(themes, unthemed) ==
  UNION {UNION {ListedIn(themes[t][i]) : i \in DOMAIN themes[t]} : t \in DOMAIN themes} \cup DOMAIN unthemed
HasIcon(themes, n) == \E t \in DOMAIN themes : \E i \in DOMAIN themes[t] : n \in ListedIn(themes[t][i])

---------------------------------------------------------------------------
\* theme_subdir_load(): a directory with files is added to the theme.
Directory(group, files, indexed) ==
  [type |-> group.type, size |-> group.size, min |-> group.min, max |-> group.max,
   threshold |-> group.threshold, scale |-> group.scale, files |-> files, indexed |-> indexed]
FileCount(dirs) == FoldLeft(LAMBDA n, d : n + Cardinality(d.files), 0, dirs)
FilesLoaded == FileCount(first) + FileCount(second) + Cardinality(DOMAIN loose)

SubdirLoad(t, group, files, indexed) ==
  /\ files # {} /\ FilesLoaded + Cardinality(files) <= MaxFiles
  /\ IF t = 1 THEN first' = Append(first, Directory(group, files, indexed)) /\ UNCHANGED second
     ELSE second' = Append(second, Directory(group, files, indexed)) /\ UNCHANGED first
  /\ UNCHANGED <<loose, last>>
AddUnthemedIcon(f) ==
  /\ FilesLoaded < MaxFiles
  /\ loose' = [n \in DOMAIN loose \cup {f[1]} |->
                 IF n # f[1] THEN loose[n]
                 ELSE LooseWith(IF n \in DOMAIN loose THEN loose[n] ELSE NoLoose, f[2])]
  /\ UNCHANGED <<first, second, last>>
\* A lookup leaves the index file at the chain it found.
AskIndex(n) ==
  /\ last' = LastChain(UNION {d.files : d \in Range(first)}, n)
  /\ UNCHANGED <<first, second, loose>>

LookupInit == first = <<>> /\ second = <<>> /\ loose = <<>> /\ last = <<>>
LookupNext ==
  \/ \E t \in 1 .. 2, g \in Groups, files \in SUBSET IconFiles, indexed \in BOOLEAN : SubdirLoad(t, g, files, indexed)
  \/ \E f \in IconFiles : AddUnthemedIcon(f)
  \/ \E f \in IconFiles : AskIndex(IndexName(f))
LookupSpec == LookupInit /\ [][LookupNext]_lookupVars

---------------------------------------------------------------------------
(* Properties *)

LookupFlags == {{}, {"force-regular"}, {"force-symbolic", "rtl"}, {"no-svg"}}
Answer(a, size, scale, flags) == ChooseIcon(<<first, second>>, loose, a, size, scale, flags, last)

\* An index file changes nothing: the icon found for every list of names is
\* the one that is found by reading the directories (the comment above the
\* second lookup of theme_dir_get_icon_suffix() is about just this case).
IndexChangesNothing ==
  LET unindexed(dirs) == [i \in DOMAIN dirs |-> [dirs[i] EXCEPT !.indexed = FALSE]]
      found(info) == IF info = NoInfo THEN <<>> ELSE <<info.name, info.suffix, info.dir.size>>
      indexes == \E d \in Range(first) \cup Range(second) : d.indexed
  IN indexes => \A a \in Asked, size \in Dimensions, scale \in Ratios2, flags \in LookupFlags :
       found(Answer(a, size, scale, flags)) =
       found(ChooseIcon(<<unindexed(first), unindexed(second)>>, loose, a, size, scale, flags, <<>>))

\* The theme a file was found in, where it is in one.
ThemeOf(info) == IF \E d \in Range(first) : info # NoInfo /\ info.dir = d THEN first ELSE second

\* Where a theme has an icon at exactly the size and scale asked for, no
\* other file of that name in the theme is taken (compare_dir_matches()).
ExactIconIsTaken(info, size, scale) ==
  LET exact(d) == d.size = size /\ d.scale = scale /\ d.type # "scalable"
                  /\ BestSuffix(IconSuffixes(d, info.name, last), TRUE) # "none"
  IN info # NoInfo /\ info.dir.type # "unthemed" /\ (\E d \in Range(ThemeOf(info)) : exact(d))
     => info.dir.size * info.dir.scale = size * scale

\* No icon is loaded larger than its directory says it may be scaled to.
LoadedWithinLimits(info, size, scale) ==
  info # NoInfo /\ info.dir.type = "scalable" /\ info.suffix = "svg" /\ info.dir.min <= info.dir.max
    => LoadedSize(info, size, scale, FALSE, <<1, 1>>, 1) \in info.dir.min * scale .. info.dir.max * scale

\* At a larger scale a picture of one size is loaded at that many times the
\* size it has at scale 1, though another directory was chosen: "we want to
\* reuse the exact same size as a scale==1 lookup would be".
LoadedAlike(info, plain, size, scale) ==
  LET natural(i) == i.dir.size * i.dir.scale
      unscaled == UnscaledScale(ThemeOf(info), info, size, scale, TRUE, last)
  IN plain # NoInfo /\ plain.dir.type # "scalable" /\ plain.dir.scale = 1 /\ plain.suffix # "svg"
     => LoadedSize(info, size, scale, FALSE, unscaled, natural(info))
        = scale * LoadedSize(plain, size, 1, FALSE, <<1, 1>>, natural(plain))
SameLayout(info, size, scale) ==
  info # NoInfo /\ info.dir.type \notin {"unthemed", "scalable"} /\ info.suffix # "svg"
    => LoadedAlike(info, ThemeLookup(ThemeOf(info), info.name, size, 1, TRUE, last), size, scale)

\* A name for which there is an icon is listed, and is said to be there; but
\* not a symbolic picture, which an index file lists under a longer name.
FoundIsListed(info) ==
  info # NoInfo /\ info.suffix # "symbolic.png" =>
    /\ info.name \in ListIcons(<<first, second>>, loose)
    /\ info.dir.type # "unthemed" => HasIcon(<<first, second>>, info.name)

\* The icon found is the right one, however the themes are stored.
AnswerIsRight(info, size, scale, flags) ==
  /\ FoundIsListed(info)
  /\ flags = {} => /\ ExactIconIsTaken(info, size, scale) /\ LoadedWithinLimits(info, size, scale)
                   /\ SameLayout(info, size, scale)
LookupFindsTheIcon ==
  first \o second # <<>> =>
    /\ IndexChangesNothing
    /\ \A a \in Asked, size \in Dimensions, scale \in Ratios2, flags \in LookupFlags :
         AnswerIsRight(Answer(a, size, scale, flags), size, scale, flags)
=============================================================================
