------------------------------- MODULE StTheme ------------------------------
(***************************************************************************)
(* The cascade of st/st-theme.c: which sheets a theme has, how selectors   *)
(* are matched against a node, and in which order the declarations that    *)
(* apply to a node are handed to it.  A node is the path of elements from  *)
(* the root; an element has the names of its types, an id, its classes and *)
(* its pseudo classes.  Selectors are the ones CssParser reads.            *)
(***************************************************************************)
EXTENDS Integers, Sequences, FiniteSets

CONSTANTS
  Files,        \* files that may be loaded as style sheets
  Content,      \* what parsing a file gives: its statements, or NoContent
  BaseFiles,    \* <<default (UA), theme (user), application (author)>>
  CustomFiles,  \* the files extensions bring
  Nodes,        \* the nodes asked about
  MaxSheets     \* bound: how many sheets are parsed in one run of the shell

NoContent == <<[k |-> "unreadable"]>>
NoSheetId == 0
NoFile == "no file"

---------------------------------------------------------------------------
(* Matching. *)

\* class, id and pseudo class; no attribute ever matches.
AdditionalSelMatches(a, el) ==
  CASE a.k = "class" -> a.name \in el.classes
    [] a.k = "id" -> a.name = el.id
    [] a.k = "pseudo" -> a.name \in el.pseudo
    [] OTHER -> FALSE
AdditionalSelectorMatchesStyle(add, el) == \A n \in DOMAIN add : AdditionalSelMatches(add[n], el)
ElementNameMatchesType(name, el) == name \in el.types
SimpleSelMatches(sel, el) ==
  /\ sel.name \in {"", "*"} \/ ElementNameMatchesType(sel.name, el)
  /\ sel.name = "" => sel.add # <<>>
  /\ AdditionalSelectorMatchesStyle(sel.add, el)

\* sel_matches_style_real(): the selectors up to the k-th at the element at
\* `cur`, for a node that ends at `at`.  A blank looks upward from the node's
\* own parent, wherever the walk has come to meanwhile.
RECURSIVE Walk(_, _, _, _, _)
Walk(sels, k, path, at, cur) ==
  /\ SimpleSelMatches(sels[k], path[cur])
  /\ k = 1 \/ (CASE sels[k].comb = " " ->
                      LET found == {n \in 1..(at - 1) : Walk(sels, k - 1, path, n, n)}
                      IN  /\ found # {}
                          /\ Walk(sels, k - 1, path, at, CHOOSE n \in found : \A m \in found : m <= n)
                 [] sels[k].comb = ">" -> cur > 1 /\ Walk(sels, k - 1, path, at, cur - 1)
                 [] OTHER -> FALSE)
SelMatchesStyle(sels, path) == Walk(sels, Len(sels), path, Len(path), Len(path))

\* cr_simple_sel_compute_specificity(): ids, the other conditions, names; a
\* simple selector that starts with a pseudo class counts for nothing.
Specificity(sels) ==
  LET counted == {n \in DOMAIN sels : sels[n].name # "" \/ sels[n].add[1].k # "pseudo"}
      Conds(kinds) == Cardinality({<<n, m>> \in counted \X (1..4) :
                                     m <= Len(sels[n].add) /\ sels[n].add[m].k \in kinds})
      names == Cardinality({n \in DOMAIN sels : sels[n].name \notin {"", "*"}})
  IN  Conds({"id"}) * 1000000 + Conds({"class", "attribute", "pseudo"}) * 1000 + names

---------------------------------------------------------------------------
(* The sheets of a theme.                                                  *)

VARIABLES
  sheets,    \* every sheet parsed: [file, origin, ext, imports: statement -> sheet id, -1 or 0]
  byFile,    \* stylesheets_by_file: file -> sheet id, or NoSheetId
  fileOf,    \* files_by_stylesheet: sheet id -> file, or NoFile
  cascade,   \* CRCascade: origin + 1 -> sheet id, or NoSheetId
  custom,    \* custom_stylesheets, the newest first
  props      \* the answer to the last question: [node, decls]

themeVars == <<sheets, byFile, fileOf, cascade, custom, props>>
themeState == [sheets |-> sheets, byFile |-> byFile, fileOf |-> fileOf]
NB_ORIGINS == 3
SheetIds == 1..MaxSheets
NoProps == [node |-> <<>>, decls |-> <<>>]

\* parse_stylesheet(): a new sheet, of the lowest origin and no extension's.
ParseStylesheet(s, file) ==
  IF Content[file] = NoContent THEN s
  ELSE [s EXCEPT !.sheets = Append(@, [file |-> file, origin |-> 0, ext |-> FALSE,
                                      imports |-> [n \in DOMAIN Content[file] |-> NoSheetId]])]
InsertStylesheet(s, file, id) ==
  [s EXCEPT !.byFile[file] = id, !.fileOf[id] = file]
\* resolve_stylesheet(): the sheet of the file, parsed if it has none.
ResolveStylesheet(s, file) ==
  IF s.byFile[file] # NoSheetId \/ Content[file] = NoContent THEN s
  ELSE InsertStylesheet(ParseStylesheet(s, file), file, Len(s.sheets) + 1)

\* st_theme_constructed(): the application's sheet, the theme's, the default
\* one; each is given its origin by the cascade.
Constructed ==
  LET empty == [sheets |-> <<>>, byFile |-> [f \in Files |-> NoSheetId],
                fileOf |-> [id \in SheetIds |-> NoFile]]
      Add(s, o) == IF Content[BaseFiles[o]] = NoContent THEN s
                   ELSE LET parsed == ParseStylesheet(s, BaseFiles[o])
                            id == Len(parsed.sheets)
                        IN  InsertStylesheet([parsed EXCEPT !.sheets[id].origin = o - 1], BaseFiles[o], id)
  IN  Add(Add(Add(empty, 3), 2), 1)
CascadeOf(s) == [o \in 1..NB_ORIGINS |-> s.byFile[BaseFiles[o]]]
Become(s) == sheets' = s.sheets /\ byFile' = s.byFile /\ fileOf' = s.fileOf

ThemeInit == /\ sheets = Constructed.sheets /\ byFile = Constructed.byFile
             /\ fileOf = Constructed.fileOf /\ cascade = CascadeOf(Constructed)
             /\ custom = <<>> /\ props = NoProps

Room == Len(sheets) + 1 <= MaxSheets
Loaded(s, file) ==
  LET r == ResolveStylesheet(s, file)
  IN  IF r.byFile[file] = NoSheetId THEN r ELSE [r EXCEPT !.sheets[r.byFile[file]].ext = TRUE]
\* An extension is enabled: its sheet is loaded,
LoadStylesheet(file) ==
  /\ Room
  /\ byFile[file] = NoSheetId \/ \A n \in DOMAIN custom : custom[n] # byFile[file]
  /\ LET s == Loaded(themeState, file)
     IN  Become(s) /\ custom' = IF s.byFile[file] = NoSheetId THEN custom
                                ELSE <<s.byFile[file]>> \o custom
  /\ UNCHANGED <<cascade, props>>
\* and unloaded when it is disabled.
UnloadStylesheet(file) ==
  /\ byFile[file] # NoSheetId
  /\ \E n \in DOMAIN custom :
       /\ custom[n] = byFile[file]
       /\ custom' = SubSeq(custom, 1, n - 1) \o SubSeq(custom, n + 1, Len(custom))
  /\ byFile' = [byFile EXCEPT ![file] = NoSheetId]
  /\ fileOf' = [fileOf EXCEPT ![byFile[file]] = NoFile]
  /\ UNCHANGED <<sheets, cascade, props>>

\* st_theme_get_custom_stylesheets(), the oldest first.
CustomStylesheets == [n \in DOMAIN custom |-> fileOf[custom[Len(custom) + 1 - n]]]
\* js/ui/main.js loadTheme(): a new theme takes over the extensions' files.
RECURSIVE LoadAll(_, _, _)
LoadAll(s, files, list) ==
  IF files = <<>> THEN [s |-> s, custom |-> list]
  ELSE LET loaded == Loaded(s, Head(files))
       IN  LoadAll(loaded, Tail(files), <<loaded.byFile[Head(files)]>> \o list)
LoadTheme ==
  /\ custom # <<>>
  /\ LET new == LoadAll(Constructed, CustomStylesheets, <<>>)
     IN  Become(new.s) /\ custom' = new.custom /\ cascade' = CascadeOf(Constructed)
  /\ props' = NoProps

---------------------------------------------------------------------------
(* The declarations that apply to a node.                                  *)

\* The selectors of a ruleset that match, in order; the last one's specificity
\* is left in the statement, and each adds the declarations once more.
MatchingSels(stmt, path) == SelectSeq(stmt.sel, LAMBDA sels : SelMatchesStyle(sels, path))
StmtDecls(id, n, stmt, path) ==
  LET matching == MatchingSels(stmt, path)
      Of(d) == [name |-> stmt.decls[d].name, important |-> stmt.decls[d].important, sheet |-> id,
                stmt |-> n, spec |-> Specificity(matching[Len(matching)])]
      once == [d \in DOMAIN stmt.decls |-> Of(d)]
      times[k \in 0..Len(matching)] == IF k = 0 THEN <<>> ELSE times[k - 1] \o once
  IN  IF matching = <<>> THEN <<>> ELSE times[Len(matching)]

\* add_matched_properties() over the statements of a sheet from the n-th on.
\* An import is resolved once; one that cannot be read stays -1.
RECURSIVE AddMatched(_, _, _, _)
AddMatched(acc, id, n, path) ==
  LET sheet == acc.s.sheets[id]
      stmts == Content[sheet.file]
      stmt == stmts[n]
  IN  IF n > Len(stmts) THEN acc
      ELSE IF stmt.k = "ruleset"
        THEN AddMatched([acc EXCEPT !.decls = @ \o StmtDecls(id, n, stmt, path)], id, n + 1, path)
      ELSE IF stmt.k # "import" THEN AddMatched(acc, id, n + 1, path)
      ELSE LET file == stmt.name[1]
               resolved == ResolveStylesheet(acc.s, file)
               target == IF sheet.imports[n] # NoSheetId THEN sheet.imports[n]
                         ELSE IF resolved.byFile[file] = NoSheetId THEN -1 ELSE resolved.byFile[file]
               s == IF sheet.imports[n] # NoSheetId THEN acc.s
                    ELSE [resolved EXCEPT !.sheets[id].imports[n] = target]
               inner == IF target = -1 THEN [acc EXCEPT !.s = s]
                        ELSE AddMatched([acc EXCEPT !.s = s], target, 1, path)
           IN  AddMatched(inner, id, n + 1, path)

GetOrigin(s, d) == s.sheets[d.sheet].origin + (IF d.important THEN NB_ORIGINS ELSE 0)
                   + IF s.sheets[d.sheet].ext THEN 2 * NB_ORIGINS ELSE 0
\* Mutant: of the same origin, the one declared last wins.
CompareOrigins(s, a, b) == GetOrigin(s, a) - GetOrigin(s, b)
CompareDeclarations(s, a, b) ==
  IF GetOrigin(s, a) # GetOrigin(s, b) THEN GetOrigin(s, a) - GetOrigin(s, b) ELSE a.spec - b.spec
\* g_ptr_array_sort() is stable.
StableSort(s, list) ==
  LET Before(i, j) == \/ CompareDeclarations(s, list[i], list[j]) < 0
                      \/ CompareDeclarations(s, list[i], list[j]) = 0 /\ i < j
      Place(i) == Cardinality({j \in DOMAIN list : Before(j, i)}) + 1
  IN  [p \in DOMAIN list |-> list[CHOOSE i \in DOMAIN list : Place(i) = p]]

RECURSIVE AddAll(_, _, _)
AddAll(acc, ids, path) ==
  IF ids = <<>> THEN acc
  ELSE AddAll(IF Head(ids) = NoSheetId THEN acc ELSE AddMatched(acc, Head(ids), 1, path),
              Tail(ids), path)
Matched(s, path) == AddAll([s |-> s, decls |-> <<>>], cascade \o custom, path)
GetMatchedProperties(path) ==
  /\ Room
  /\ LET acc == Matched(themeState, path)
     IN  Become(acc.s) /\ props' = [node |-> path, decls |-> StableSort(acc.s, acc.decls)]
  /\ UNCHANGED <<cascade, custom>>

ThemeNext == \/ \E f \in CustomFiles : LoadStylesheet(f) \/ UnloadStylesheet(f)
             \/ \E path \in Nodes : GetMatchedProperties(path)
             \/ LoadTheme
ThemeSpec == ThemeInit /\ [][ThemeNext]_themeVars

---------------------------------------------------------------------------
(* Properties. *)

\* _st_theme_resolve_url() asserts that the sheet an address stands in has a
\* file: every sheet the cascade reads, directly or through imports, has one,
\* and the file leads back to that sheet.
ImportsOf(id) == {sheets[id].imports[n] : n \in DOMAIN sheets[id].imports} \ {NoSheetId, -1}
RECURSIVE ImportedBy(_)
ImportedBy(ids) ==
  LET more == UNION {ImportsOf(id) : id \in ids}
  IN  IF more \subseteq ids THEN ids ELSE ImportedBy(more \cup ids)
SheetsInUse ==
  ImportedBy(({cascade[o] : o \in 1..NB_ORIGINS} \cup {custom[n] : n \in DOMAIN custom}) \ {NoSheetId})
SheetsHaveFiles == \A id \in SheetsInUse : fileOf[id] # NoFile /\ byFile[fileOf[id]] = id

\* What CSS says of a list of simple selectors: there are elements of the
\* path, the node last, each a descendant or a child of the one before it.
CssMatches(sels, path) ==
  LET places == {p \in [DOMAIN sels -> DOMAIN path] : p[Len(sels)] = Len(path)}
  IN  \E p \in places :
        /\ \A n \in DOMAIN sels : SimpleSelMatches(sels[n], path[p[n]])
        /\ \A n \in 2..Len(sels) :
             CASE sels[n].comb = " " -> p[n - 1] < p[n] [] sels[n].comb = ">" -> p[n - 1] = p[n] - 1
               [] OTHER -> FALSE
AllSelectors == UNION {{Content[f][n].sel[l] : l \in DOMAIN Content[f][n].sel} :
                         <<f, n>> \in {<<g, m>> \in Files \X (1..4) :
                                         m \in DOMAIN Content[g] /\ Content[g][m].k = "ruleset"}}
\* A selector matches every node CSS says it does, and others only where a
\* ">" follows a blank (sel_matches_style_real()).
ChildOfDescendant(sels) == \E n \in 2..(Len(sels) - 1) : sels[n].comb = " " /\ sels[n + 1].comb = ">"
MatchesCss ==
  props # NoProps => \A sels \in AllSelectors :
    /\ CssMatches(sels, props.node) => SelMatchesStyle(sels, props.node)
    /\ SelMatchesStyle(sels, props.node) /\ ~ChildOfDescendant(sels) => CssMatches(sels, props.node)

\* The declaration that wins is the last one: no other one for the same
\* property is of a higher origin, nor of the same one and more specific,
\* where the ruleset was matched by one of its selectors only.
OneMatch(d, path) == Len(MatchingSels(Content[sheets[d.sheet].file][d.stmt], path)) = 1
LastDeclarationWins ==
  \A i, j \in DOMAIN props.decls :
    LET a == props.decls[i]
        b == props.decls[j]
        own(d) == Content[sheets[d.sheet].file][d.stmt]
    IN  a.name = b.name /\ i < j /\ OneMatch(a, props.node) /\ OneMatch(b, props.node)
        => \/ GetOrigin(themeState, a) < GetOrigin(themeState, b)
           \/ /\ GetOrigin(themeState, a) = GetOrigin(themeState, b)
              /\ Specificity(MatchingSels(own(a), props.node)[1])
                   <= Specificity(MatchingSels(own(b), props.node)[1])

\* However sheets are loaded and unloaded, the cascade reads sheets that have
\* their files, matches as CSS does and lets the right declaration win.
CascadeIsSound == SheetsHaveFiles /\ MatchesCss /\ LastDeclarationWins
=============================================================================
