-------------------------------- MODULE CssOm -------------------------------
(***************************************************************************)
(* The object model of a style sheet: cr-om-parser.c, which builds it from *)
(* the parser's events, cr-statement.c, cr-declaration.c, cr-term.c and    *)
(* the selectors' files, which print it and read single pieces of it.      *)
(*                                                                         *)
(* A parse of a text is one call, but its events reach the handlers one by *)
(* one and meet the context the earlier ones left; `events` holds the ones *)
(* still to come.  A handler whose g_return_if_fail() does not hold does   *)
(* nothing.                                                                *)
(***************************************************************************)
EXTENDS CssParser

CONSTANTS
  SheetTexts,       \* the texts that are parsed
  ParseText(_),     \* the parser: CssParser's Stylesheet
  ParseStatement(_),    \* reading one statement: StatementFromBuf below
  ParseDeclarations(_), \* reading an inline style: DeclarationListFromBuf
  ParseValue(_),        \* reading the value of a declaration: ExpressionFromBuf
  InCoreGrammar(_)      \* whether the core grammar reads a statement: ParsesAgainstCore

VARIABLES
  css,       \* the text being parsed
  events,    \* the events not yet handled
  past,      \* those handled
  ctxt,      \* ParsingContext: sheet, cur_stmt, cur_media_stmt; or NoCtxt
  result     \* the style sheet handed out: a sequence of statements, or NoSheet

omVars == <<css, events, past, ctxt, result>>

NoSheet == <<[k |-> "no sheet"]>>
NoStmt == [k |-> "none"]
NoCtxt == [sheet |-> NoSheet, cur |-> NoStmt, media |-> NoStmt]

\* cr_statement_new_*(); what a kind of statement does not have is empty.
Stmt(k, name, sel, media) ==
  [k |-> k, name |-> name, sel |-> sel, media |-> media, decls |-> <<>>, rules |-> <<>>]
NewRuleset(sel) == Stmt("ruleset", <<>>, sel, <<>>)
NewMediaRule(media) == Stmt("media", <<>>, <<>>, media)
NewImportRule(url, media) == Stmt("import", <<url>>, <<>>, media)
NewPageRule(name) == Stmt("page", name, <<>>, <<>>)
NewCharsetRule(charset) == Stmt("charset", <<charset>>, <<>>, <<>>)
NewFontFaceRule == Stmt("font_face", <<>>, <<>>, <<>>)
AppendDecl(stmt, decl) == [stmt EXCEPT !.decls = Append(@, decl)]

---------------------------------------------------------------------------
(* The handlers. *)

OmInit == /\ css \in SheetTexts /\ events = <<>> /\ past = <<>>
          /\ ctxt = NoCtxt /\ result = NoSheet

ParseBuf == /\ past = <<>> /\ events = <<>>
            /\ events' = ParseText(css).ev
            /\ UNCHANGED <<css, past, ctxt, result>>

Handles(e) == events # <<>> /\ Head(events).e = e /\ events' = Tail(events)
              /\ past' = Append(past, Head(events)) /\ UNCHANGED css
Arg == Head(events).v
HasCtxt == ctxt.sheet # NoSheet

StartDocument == /\ Handles("start_document")
                 /\ ctxt' = [sheet |-> <<>>, cur |-> NoStmt, media |-> NoStmt]
                 /\ UNCHANGED result

\* A statement still open when the text ends costs the whole sheet.
EndDocument_ == /\ Handles("end_document")
                /\ ctxt' = NoCtxt
                /\ result' = IF HasCtxt /\ ctxt.cur = NoStmt THEN ctxt.sheet ELSE result

CharsetRule == /\ Handles("charset")
               /\ ctxt' = IF HasCtxt THEN [ctxt EXCEPT !.sheet = Append(@, NewCharsetRule(Arg))]
                          ELSE ctxt
               /\ UNCHANGED result

StartFontFace == /\ Handles("start_font_face")
                 /\ ctxt' = IF HasCtxt /\ ctxt.cur = NoStmt
                            THEN [ctxt EXCEPT !.cur = NewFontFaceRule] ELSE ctxt
                 /\ UNCHANGED result
StartPage == /\ Handles("start_page")
             /\ ctxt' = IF HasCtxt /\ ctxt.cur = NoStmt
                        THEN [ctxt EXCEPT !.cur = NewPageRule(Arg)] ELSE ctxt
             /\ UNCHANGED result

\* The statement goes into the sheet, whatever media rule is open.
Closed(k) == IF HasCtxt /\ ctxt.cur.k = k
             THEN [ctxt EXCEPT !.sheet = Append(@, ctxt.cur), !.cur = NoStmt] ELSE ctxt
EndFontFace == Handles("end_font_face") /\ ctxt' = Closed("font_face") /\ UNCHANGED result
EndPage == Handles("end_page") /\ ctxt' = Closed("page") /\ UNCHANGED result

StartMedia == /\ Handles("start_media")
              /\ ctxt' = IF HasCtxt /\ ctxt.cur = NoStmt /\ ctxt.media = NoStmt
                         THEN [ctxt EXCEPT !.media = NewMediaRule(Arg)] ELSE ctxt
              /\ UNCHANGED result
EndMedia == /\ Handles("end_media")
            /\ ctxt' = IF HasCtxt /\ ctxt.media # NoStmt
                       THEN [sheet |-> Append(ctxt.sheet, ctxt.media), cur |-> NoStmt,
                             media |-> NoStmt]
                       ELSE ctxt
            /\ UNCHANGED result

\* An import met while a statement is open is chained to that one.  The parser
\* reports imports before any statement, so none is.
ImportStyle == /\ Handles("import_style")
               /\ ctxt' = IF HasCtxt /\ ctxt.cur = NoStmt
                          THEN [ctxt EXCEPT !.sheet = Append(@, NewImportRule(Arg[1], Arg[2]))]
                          ELSE ctxt
               /\ UNCHANGED result

StartSelector == /\ Handles("start_selector")
                 /\ ctxt' = IF HasCtxt THEN [ctxt EXCEPT !.cur = NewRuleset(Arg)] ELSE ctxt
                 /\ UNCHANGED result
EndSelector == /\ Handles("end_selector")
               /\ ctxt' = IF ~HasCtxt \/ ctxt.cur = NoStmt THEN ctxt
                          ELSE IF ctxt.media # NoStmt
                          THEN [ctxt EXCEPT !.media.rules = Append(@, ctxt.cur), !.cur = NoStmt]
                          ELSE [ctxt EXCEPT !.sheet = Append(@, ctxt.cur), !.cur = NoStmt]
               /\ UNCHANGED result

Property == /\ Handles("property")
            /\ ctxt' = IF HasCtxt /\ ctxt.cur.k \in {"ruleset", "font_face", "page"}
                       THEN [ctxt EXCEPT !.cur = AppendDecl(@, Arg)] ELSE ctxt
            /\ UNCHANGED result

\* error(): the open statement goes, an open media rule stays.
\* Mutant: the open statement stays open.
ErrorOnly == Handles("error") /\ UNCHANGED <<ctxt, result>>
Error == /\ Handles("error")
         /\ ctxt' = [ctxt EXCEPT !.cur = NoStmt]
         /\ UNCHANGED result
\* unrecoverable_error(): what there is of the sheet is the result.
UnrecoverableError == /\ Handles("unrecoverable_error")
                      /\ result' = IF HasCtxt THEN ctxt.sheet ELSE result
                      /\ ctxt' = NoCtxt

OmNext == \/ ParseBuf \/ StartDocument \/ EndDocument_ \/ CharsetRule
          \/ StartFontFace \/ EndFontFace \/ StartPage \/ EndPage \/ StartMedia \/ EndMedia
          \/ ImportStyle \/ StartSelector \/ EndSelector \/ Property
          \/ Error \/ UnrecoverableError
OmSpec == OmInit /\ [][OmNext]_omVars

---------------------------------------------------------------------------
(* Printing: the to_string() functions, as the tokens of what they write.  *)

Tok(t, v) == [t |-> t, v |-> v]
Mark(t) == Tok(t, t)
Char(c) == Tok("DELIM", c)
Blank == <<Tok("S", " ")>>

\* Concatenate F(1) .. F(n), with a separator between two.
RECURSIVE Joined(_, _, _)
Joined(F(_), n, sep) ==
  IF n = 0 THEN <<>> ELSE IF n = 1 THEN F(1) ELSE Joined(F, n - 1, sep) \o sep \o F(n)

PrintPseudo(p) ==
  <<Char(":")>> \o IF p.value = "" THEN <<Tok("IDENT", p.name)>>
                   ELSE <<Tok("FUNCTION", p.name), Tok("IDENT", p.value), Mark(")")>>
\* No operator is written for a match of no kind.
PrintAttrSel(a) ==
  LET op == CASE a.match = "EQUALS" -> <<Char("=")>>
              [] a.match \in {"INCLUDES", "DASHMATCH"} -> <<Mark(a.match)>> [] OTHER -> <<>>
  IN  <<Tok("IDENT", a.name)>> \o IF a.match = "SET" THEN <<>> ELSE op \o <<Tok("STRING", a.value)>>
PrintAdditionalSel(a) ==
  CASE a.k = "class" -> <<Char("."), Tok("IDENT", a.name)>>
    [] a.k = "id" -> <<Tok("HASH", a.name)>>
    [] a.k = "pseudo" -> PrintPseudo(a)
    [] a.k = "attribute" -> <<Mark("[")>> \o PrintAttrSel(a) \o <<Mark("]")>>
\* The combinator is written only in front of a name.
PrintSimpleSel(sel) ==
  LET comb == CASE sel.comb = " " -> Blank [] sel.comb \in {"+", ">"} -> <<Char(sel.comb)>>
                [] OTHER -> <<>>
      name == IF sel.name = "*" THEN Char("*") ELSE Tok("IDENT", sel.name)
      Add(n) == PrintAdditionalSel(sel.add[n])
  IN  (IF sel.name = "" THEN <<>> ELSE Append(comb, name)) \o Joined(Add, Len(sel.add), <<>>)
PrintSimpleSels(sels) == LET One(n) == PrintSimpleSel(sels[n]) IN Joined(One, Len(sels), <<>>)
PrintSelector(list) ==
  LET One(n) == PrintSimpleSels(list[n]) IN Joined(One, Len(list), <<Char(",")>> \o Blank)

\* A sign is written right in front of its term: a number's becomes a part of
\* the number, and a "-" makes one name with a word behind it.
RECURSIVE PrintTerms(_)
PrintTerms(terms) ==
  LET Op(t) == CASE t.op = "/" -> Blank \o <<Char("/")>> \o Blank
                 [] t.op = "," -> <<Char(",")>> \o Blank [] OTHER -> <<>>
      Signed(t) == CASE t.t \in {"NUM", "IDENT"} /\ t.unary = "-" -> <<Tok(t.t, "-" \o t.v)>>
                     [] t.t = "NUM" -> <<Tok("NUM", t.v)>>
                     [] t.unary = "" -> <<Tok(t.t, t.v)>>
                     [] OTHER -> <<Char(t.unary), Tok(t.t, t.v)>>
      One(n) == (IF n > 1 /\ terms[n].op = "" THEN Blank ELSE Op(terms[n])) \o Signed(terms[n])
                \o IF terms[n].t = "FUNCTION" THEN PrintTerms(terms[n].params) \o <<Mark(")")>>
                   ELSE <<>>
  IN  Joined(One, Len(terms), <<>>)

PrintDeclaration(d) ==
  <<Tok("IDENT", d.name)>> \o Blank \o <<Char(":")>> \o Blank \o PrintTerms(d.value)
  \o IF d.important THEN Blank \o <<Mark("IMPORTANT")>> ELSE <<>>
\* A ";" between two declarations, none behind the last.
PrintDeclarations(decls) ==
  LET One(n) == Blank \o PrintDeclaration(decls[n]) IN Joined(One, Len(decls), <<Mark(";")>>)
PrintBlock(decls) ==
  Blank \o <<Mark("{")>> \o Blank \o PrintDeclarations(decls) \o Blank \o <<Mark("}")>>

PrintRuleset(r) == PrintSelector(r.sel) \o PrintBlock(r.decls)
\* A font face with no declaration leaves no trace.
PrintFontFace(f) == IF f.decls = <<>> THEN <<>> ELSE <<Mark("FONT_FACE")>> \o PrintBlock(f.decls)
PrintCharset(c) == <<Mark("CHARSET")>> \o Blank \o <<Tok("STRING", c.name[1])>> \o Blank \o <<Mark(";")>>
PrintPage(p) ==
  <<Mark("PAGE")>> \o Blank \o (IF p.name[1] = "" THEN <<>> ELSE <<Tok("IDENT", p.name[1])>>)
  \o (IF p.name[2] = "" THEN <<>> ELSE Blank \o <<Char(":"), Tok("IDENT", p.name[2])>>)
  \o (IF p.decls = <<>> THEN <<>> ELSE PrintBlock(p.decls) \o Blank)
PrintMedia(m) ==
  LET Name(n) == Blank \o <<Tok("IDENT", m.media[n])>>
      Rule(n) == PrintRuleset(m.rules[n])
  IN  <<Mark("MEDIA")>> \o Joined(Name, Len(m.media), <<Char(",")>>) \o Blank \o <<Mark("{")>>
      \o Blank \o Joined(Rule, Len(m.rules), Blank) \o Blank \o <<Mark("}")>>
PrintImport(i) ==
  LET Name(n) == <<Tok("IDENT", i.media[n])>>
  IN  <<Mark("IMPORT")>> \o Blank \o <<Tok("URI", i.name[1])>>
      \o Joined(Name, Len(i.media), <<Char(",")>> \o Blank) \o Blank \o <<Mark(";")>>
PrintStatement(s) ==
  CASE s.k = "ruleset" -> PrintRuleset(s) [] s.k = "font_face" -> PrintFontFace(s)
    [] s.k = "charset" -> PrintCharset(s) [] s.k = "page" -> PrintPage(s)
    [] s.k = "media" -> PrintMedia(s) [] s.k = "import" -> PrintImport(s)
PrintSheet(sheet) == LET One(n) == PrintStatement(sheet[n]) IN Joined(One, Len(sheet), Blank)

---------------------------------------------------------------------------
(* Reading one piece: the *_parse_from_buf() functions.                    *)

\* What the handlers registered for one kind of statement make of an event.
RulesetCallback(stmt, h) ==
  CASE h.e = "start_selector" -> NewRuleset(h.v) [] h.e = "property" -> AppendDecl(stmt, h.v)
    [] OTHER -> stmt
MediaCallback(stmt, h) ==
  CASE h.e = "start_media" -> NewMediaRule(h.v)
    [] h.e = "start_selector" -> [stmt EXCEPT !.rules = Append(@, NewRuleset(h.v))]
    [] h.e = "property" -> [stmt EXCEPT !.rules[Len(stmt.rules)] = AppendDecl(@, h.v)]
    [] OTHER -> stmt
PageCallback(stmt, h) ==
  CASE h.e = "start_page" -> NewPageRule(h.v) [] h.e = "property" -> AppendDecl(stmt, h.v)
    [] OTHER -> stmt
FontFaceCallback(stmt, h) ==
  IF h.e = "property" THEN AppendDecl(stmt, [h.v EXCEPT !.important = FALSE]) ELSE stmt
Callback(stmt, h) ==
  CASE stmt.k = "ruleset" -> RulesetCallback(stmt, h) [] stmt.k = "media" -> MediaCallback(stmt, h)
    [] stmt.k = "page" -> PageCallback(stmt, h) [] stmt.k = "font_face" -> FontFaceCallback(stmt, h)
    [] stmt.k = "charset" -> NewCharsetRule(h.v) [] OTHER -> NewImportRule(h.v[1], h.v[2])
RECURSIVE Built(_, _)
Built(ev, stmt) == IF ev = <<>> THEN stmt ELSE Built(Tail(ev), Callback(stmt, Head(ev)))
Single(r, stmt) == IF r.st = "ok" THEN Built(r.ev, stmt) ELSE NoStmt
RulesetFromBuf(s) == Single(Ruleset(s, Skip(s, 1)), NewRuleset(<<>>))
MediaRuleFromBuf(s) == IF T(s, Skip(s, 1)) = "MEDIA" THEN Single(Media(s, Skip(s, 1)), NewMediaRule(<<>>))
                       ELSE NoStmt
ImportRuleFromBuf(s) == IF T(s, Skip(s, 1)) = "IMPORT"
                        THEN Single(Import(s, Skip(s, 1)), NewImportRule("", <<>>)) ELSE NoStmt
PageRuleFromBuf(s) == IF T(s, Skip(s, 1)) = "PAGE" THEN Single(Page(s, Skip(s, 1)), NewPageRule(<<>>))
                      ELSE NoStmt
CharsetRuleFromBuf(s) == IF T(s, Skip(s, 1)) = "CHARSET"
                         THEN Single(Charset(s, Skip(s, 1)), NewCharsetRule("")) ELSE NoStmt
FontFaceRuleFromBuf(s) == IF T(s, Skip(s, 1)) = "FONT_FACE"
                          THEN Single(FontFace(s, Skip(s, 1)), NewFontFaceRule) ELSE NoStmt
\* The first of these that reads the text.
StatementFromBuf(s) ==
  LET tries == <<RulesetFromBuf(s), CharsetRuleFromBuf(s), MediaRuleFromBuf(s),
                 FontFaceRuleFromBuf(s), PageRuleFromBuf(s), ImportRuleFromBuf(s)>>
      read == {n \in DOMAIN tries : tries[n] # NoStmt}
  IN  IF read = {} THEN NoStmt ELSE tries[CHOOSE n \in read : \A m \in read : n <= m]
ParsesAgainstCore(s) == StatementCore(s, 1).st = "ok"

DeclarationFromBuf(s) == Declaration(s, Skip(s, 1))
ExpressionFromBuf(s) == Expr(s, Skip(s, 1))
\* An inline style.  A declaration that cannot be read drops all of them, but
\* what stands where a ";" should is ignored with everything behind it.
RECURSIVE DeclarationListTail(_, _, _)
WithDeclaration(s, decls, d) ==
  CASE d.st = "eof" -> decls
    [] d.st = "ok" -> DeclarationListTail(s, Skip(s, d.i), Append(decls, d.v))
    [] OTHER -> <<>>
DeclarationListTail(s, semi, decls) ==
  IF T(s, semi) # ";" THEN decls
  ELSE WithDeclaration(s, decls, Declaration(s, Skip(s, semi + 1)))
DeclarationListFromBuf(s) == WithDeclaration(s, <<>>, DeclarationFromBuf(s))

---------------------------------------------------------------------------
(* Properties. *)

Finished == past # <<>> /\ events = <<>>

\* The media rule announced last met an error before its end.
BrokenOff ==
  \E m, n \in DOMAIN past :
    /\ m < n /\ past[m].e = "start_media" /\ past[n].e = "error"
    /\ \A k \in m..Len(past) : past[k].e # "end_media"

\* start_media()'s g_return_if_fail() holds: no media rule is still open when
\* one starts.  error() leaves the open one open, so one that was broken off
\* makes the handler refuse the next, whose rules go to the broken one.
MediaRulesAreAccepted ==
  events # <<>> /\ Head(events).e = "start_media" =>
    HasCtxt /\ ctxt.cur = NoStmt /\ ctxt.media = NoStmt

\* Every event is handled in a context that can take it, and none is open when
\* the text ends: no handler's g_return_if_fail() refuses one, but for
\* start_media()'s while a media rule that was broken off is still open.
HandlersAccept ==
  events # <<>> =>
    CASE Head(events).e = "start_document" -> ~HasCtxt
      [] Head(events).e \in {"start_font_face", "start_page"} -> HasCtxt /\ ctxt.cur = NoStmt
      [] Head(events).e = "start_media" -> MediaRulesAreAccepted \/ (HasCtxt /\ ctxt.cur = NoStmt /\ BrokenOff)
      [] Head(events).e = "end_media" -> ctxt.media # NoStmt /\ ctxt.cur = NoStmt
      [] Head(events).e = "end_selector" -> ctxt.cur.k = "ruleset"
      [] Head(events).e = "end_page" -> ctxt.cur.k = "page"
      [] Head(events).e = "end_font_face" -> ctxt.cur.k = "font_face"
      [] Head(events).e = "property" -> ctxt.cur # NoStmt
      [] Head(events).e = "import_style" -> HasCtxt /\ ctxt.cur = NoStmt
      [] OTHER -> HasCtxt

\* The rulesets of a sheet in order, those of media rules with their media.
RECURSIVE RulesOf(_)
RulesOf(sheet) ==
  IF sheet = <<>> THEN <<>>
  ELSE LET h == Head(sheet)
           own == CASE h.k = "ruleset" -> <<<<h.sel, <<>>>>>>
                    [] h.k = "media" -> [n \in DOMAIN h.rules |-> <<h.rules[n].sel, h.media>>]
                    [] OTHER -> <<>>
       IN  own \o RulesOf(Tail(sheet))
\* The rulesets whose end was announced, with the media rule announced around
\* each: a media rule ends where its end, or an error outside a ruleset, is.
RECURSIVE Announced(_, _)
Announced(ev, media) ==
  IF ev = <<>> THEN <<>>
  ELSE LET h == Head(ev)
       IN  (IF h.e = "end_selector" THEN <<<<h.v, media>>>> ELSE <<>>)
           \o Announced(Tail(ev), CASE h.e = "start_media" -> h.v
                                    [] h.e \in {"end_media", "error"} -> <<>> [] OTHER -> media)

\* A ruleset that was read to its end is in the sheet, in the order of the
\* text and under the media it stands in, unless a media rule was broken off:
\* nothing closes that one.
Count(e) == Cardinality({n \in DOMAIN past : past[n].e = e})
ReadRulesAreKept ==
  Finished /\ Count("start_media") = Count("end_media") => RulesOf(result) = Announced(past, <<>>)

\* What is printed of a sheet is read back as the same sheet, if every simple
\* selector has a name, no term has a sign, every attribute's operator is
\* known and no font face is empty.
Printable(sheet) ==
  \A n \in DOMAIN sheet :
    LET rules == {sheet[n]} \cup {sheet[n].rules[r] : r \in DOMAIN sheet[n].rules}
    IN  /\ sheet[n].k = "font_face" => sheet[n].decls # <<>>
        /\ \A r \in rules : \A l \in DOMAIN r.sel : \A k \in DOMAIN r.sel[l] :
             /\ k > 1 => r.sel[l][k].name # ""
             /\ \A a \in DOMAIN r.sel[l][k].add : r.sel[l][k].add[a].match # "NO_MATCH"
        /\ \A r \in rules : \A d \in DOMAIN r.decls : \A t \in DOMAIN r.decls[d].value :
             r.decls[d].value[t].unary = ""
Props(decls) == LET One(n) == Event("property", decls[n]) IN Joined(One, Len(decls), <<>>)
RuleEvents(r) ==
  Event("start_selector", r.sel) \o Props(r.decls) \o Event("end_selector", r.sel)
StatementEvents(s) ==
  LET Rule(n) == RuleEvents(s.rules[n])
  IN  CASE s.k = "ruleset" -> RuleEvents(s)
        [] s.k = "media" -> Event("start_media", s.media) \o Joined(Rule, Len(s.rules), <<>>)
                            \o Event("end_media", s.media)
        [] s.k = "page" -> Event("start_page", s.name) \o Props(s.decls) \o Event("end_page", s.name)
        [] s.k = "font_face" -> Event("start_font_face", <<>>) \o Props(s.decls)
                                \o Event("end_font_face", <<>>)
        [] s.k = "charset" -> Event("charset", s.name[1])
        [] s.k = "import" -> Event("import_style", <<s.name[1], s.media>>)
SheetEvents(sheet) ==
  LET One(n) == StatementEvents(sheet[n])
  IN  Event("start_document", <<>>) \o Joined(One, Len(sheet), <<>>) \o Event("end_document", <<>>)
PrintReadsBack ==
  Finished /\ result # NoSheet /\ Printable(result)
    => ParseText(PrintSheet(result)).ev = SheetEvents(result)

\* The declarations of a rule, printed, are read as an inline style to the
\* same list, and the value of each to the same terms.
InlineReadsBack ==
  Finished /\ result # NoSheet /\ Printable(result) =>
    \A n \in DOMAIN result :
      LET decls == result[n].decls
      IN  /\ decls # <<>> => ParseDeclarations(PrintDeclarations(decls)) = decls
          /\ \A d \in DOMAIN decls : ParseValue(PrintTerms(decls[d].value)).v = decls[d].value

\* A text that starts with a statement which can be read by itself has that
\* statement first in its sheet, whatever follows; only a font face that is
\* read by itself loses its priorities.  Without blanks or comments before it
\* the statement is one of the core grammar too, which does not skip them.
PlainPriorities(stmt) ==
  [stmt EXCEPT !.decls = [n \in DOMAIN @ |-> [@[n] EXCEPT !.important = FALSE]]]
StartsSheet(stmt) ==
  /\ result # NoSheet /\ result # <<>>
  /\ stmt = IF result[1].k = "font_face" THEN PlainPriorities(result[1]) ELSE result[1]
  /\ Skip(css, 1) = 1 => InCoreGrammar(css)
FirstStatementIsKept ==
  Finished => \A stmt \in {ParseStatement(css)} \ {NoStmt} : StartsSheet(stmt)

\* What is in the sheet is what the text says, statement by statement, and
\* what it is printed as says the same.
SheetsAreKept ==
  HandlersAccept /\ ReadRulesAreKept /\ PrintReadsBack /\ InlineReadsBack /\ FirstStatementIsKept
=============================================================================
