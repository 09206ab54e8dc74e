----------------------------- MODULE CssParser ------------------------------
(***************************************************************************)
(* The parser of the CSS engine, st/croco/cr-parser.c: its grammar, the    *)
(* recovery through the core grammar, and the events it sends to its       *)
(* document handler.  A text is the sequence of its tokens, [t |-> type,   *)
(* v |-> value]; a delimiter's value is its character, and the characters  *)
(* the code peeks at are the tokens they begin.  A production is an        *)
(* operator from a text and the index of the next token to its status, the *)
(* index it leaves the tokenizer at (where it started, if it failed), its  *)
(* value and its events.  CssTokenizer shows that pushing a token back and *)
(* returning to a position lose nothing, which this abstraction rests on.  *)
(***************************************************************************)
EXTENDS Integers, Sequences, FiniteSets

CONSTANT RECURSIVE_CALLERS_LIMIT   \* how deep parse_any_core and parse_block_core nest

T(s, i) == IF i <= Len(s) THEN s[i].t ELSE "EOF"
V(s, i) == s[i].v
IsDelim(s, i, c) == T(s, i) = "DELIM" /\ V(s, i) = c

\* ok, parsing (CR_PARSING_ERROR), eof (CR_END_OF_INPUT_ERROR), error (any other)
Result(st, i, v, ev) == [st |-> st, i |-> i, v |-> v, ev |-> ev]
Ok(i, v) == Result("ok", i, v, <<>>)
Fails(st, i) == Result(st, i, <<>>, <<>>)
\* A token that must be there: its absence is the caller's status.
Missing(s, i) == IF T(s, i) = "EOF" THEN "eof" ELSE "parsing"
Event(e, v) == <<[e |-> e, v |-> v]>>

\* cr_parser_try_to_skip_spaces_and_comments()
RECURSIVE Skip(_, _)
Skip(s, i) == IF T(s, i) \in {"S", "COMMENT"} THEN Skip(s, i + 1) ELSE i

---------------------------------------------------------------------------
(* The core grammar, which only finds the end of what is not understood.   *)

AtTokens == {"ATKEYWORD", "IMPORT", "PAGE", "MEDIA", "FONT_FACE", "CHARSET"}
AnyTokens == {"IDENT", "NUM", "DIMEN", "RGB", "STRING", "DELIM", "URI", "HASH", "INCLUDES",
              "DASHMATCH", "S", "COMMENT", "IMPORTANT"}
Closing == [t \in {"FUNCTION", "(", "["} |-> IF t = "[" THEN "]" ELSE ")"]

RECURSIVE AnyCore(_, _, _), AnyStar(_, _, _), BlockContent(_, _, _), ValueTail(_, _, _)

AnyCore(s, i, calls) ==
  IF calls > RECURSIVE_CALLERS_LIMIT THEN Fails("error", i)
  ELSE IF T(s, i) \in AnyTokens THEN Ok(i + 1, <<>>)
  ELSE IF T(s, i) \in {"(", "["} /\ T(s, i + 1) = Closing[T(s, i)] THEN Ok(i + 2, <<>>)
  ELSE IF T(s, i) \notin DOMAIN Closing THEN Fails("parsing", i)
  ELSE LET inner == AnyStar(s, i + 1, calls + 1)
       IN  IF inner.st = "parsing" /\ T(s, inner.i) = Closing[T(s, i)] THEN Ok(inner.i + 1, <<>>)
           ELSE Fails("parsing", i)

\* As many as there are; the status is the last one's.
AnyStar(s, i, calls) ==
  LET any == AnyCore(s, i, calls) IN IF any.st = "ok" THEN AnyStar(s, any.i, calls) ELSE any

BlockCore(s, i, calls) ==
  IF calls > RECURSIVE_CALLERS_LIMIT THEN Fails("error", i)
  ELSE IF T(s, i) # "{" THEN Fails("parsing", i)
  ELSE LET rest == BlockContent(s, Skip(s, i + 1), calls)
       IN  IF rest.st = "ok" THEN rest ELSE Fails("parsing", i)
BlockContent(s, i, calls) ==
  CASE T(s, i) = "}" -> Ok(Skip(s, i + 1), <<>>)
    [] T(s, i) \in {";", "ATKEYWORD"} -> BlockContent(s, Skip(s, i + 1), calls)
    [] OTHER -> LET part == IF T(s, i) = "{" THEN BlockCore(s, i, calls + 1)
                            ELSE AnyCore(s, i, calls + 1)
                IN  IF part.st = "ok" THEN BlockContent(s, Skip(s, part.i), calls)
                    ELSE Fails("parsing", i)

\* Values up to a token that cannot be one.  If there is none the status is
\* still ok, but the position goes back to the start.
ValueTail(s, i, start) ==
  CASE T(s, i) = "ATKEYWORD" -> ValueTail(s, Skip(s, i + 1), start)
    [] T(s, i) = "EOF" -> Fails("parsing", start)
    [] OTHER -> LET part == IF T(s, i) = "{" THEN BlockCore(s, i, 0) ELSE AnyCore(s, i, 0)
                IN  IF part.st = "ok" THEN ValueTail(s, part.i, start)
                    ELSE IF T(s, i) = "{" THEN Fails("parsing", start) ELSE Ok(i, <<>>)
ValueCore(s, i) == ValueTail(s, i, i)

DeclarationCore(s, i) ==
  LET colon == Skip(s, i + 1)
      value == ValueCore(s, Skip(s, colon + 1))
  IN  IF T(s, i) # "IDENT" \/ ~IsDelim(s, colon, ":") \/ value.st # "ok" THEN Fails("parsing", i)
      ELSE Ok(value.i, <<>>)

AtruleCore(s, i) ==
  LET head == AnyStar(s, Skip(s, i + 1), 0)
      block == BlockCore(s, head.i, 0)
  IN  IF T(s, i) \notin AtTokens THEN Fails("parsing", i)
      ELSE IF T(s, head.i) = ";" THEN Ok(head.i + 1, <<>>)
      ELSE IF T(s, head.i) = "{" /\ block.st = "ok" THEN block ELSE Fails("parsing", i)

SelectorCore(s, i) == AnyStar(s, i, 0)

RECURSIVE DeclarationListCore(_, _)
DeclarationListCore(s, i) ==
  LET next == Skip(s, i + 1)
      end == DeclarationCore(s, next).i
  IN  IF T(s, i) = "}" THEN Ok(i + 1, <<>>)
      ELSE IF T(s, i) # ";" THEN Fails("parsing", i)
      ELSE IF T(s, end) = "}" THEN Ok(Skip(s, end + 1), <<>>) ELSE DeclarationListCore(s, end)
RulesetCore(s, i) ==
  LET open == SelectorCore(s, i).i
      rest == DeclarationListCore(s, DeclarationCore(s, Skip(s, open + 1)).i)
  IN  IF T(s, open) # "{" \/ rest.st # "ok" THEN Fails("parsing", i) ELSE rest
StatementCore(s, i) == IF T(s, i) \in AtTokens THEN AtruleCore(s, i) ELSE RulesetCore(s, i)

---------------------------------------------------------------------------
(* Selectors. *)

AttrSel(name, match, value) == [k |-> "attribute", name |-> name, match |-> match, value |-> value]
AddSel(k, name) == [k |-> k, name |-> name, match |-> "", value |-> ""]
\* Only a "]" ends the test for presence; any other token is taken for an
\* operator, of no kind if it is none.
AttributeSelector(s, i) ==
  LET name == Skip(s, i + 1)
      op == Skip(s, name + 1)
      match == CASE T(s, op) \in {"INCLUDES", "DASHMATCH"} -> T(s, op)
                 [] IsDelim(s, op, "=") -> "EQUALS" [] OTHER -> "NO_MATCH"
      value == Skip(s, op + 1)
      close == Skip(s, value + 1)
  IN  IF T(s, i) # "[" \/ T(s, name) # "IDENT" THEN Fails("parsing", i)
      ELSE IF T(s, op) = "]" THEN Ok(op + 1, AttrSel(V(s, name), "SET", ""))
      ELSE IF T(s, value) \notin {"IDENT", "STRING"} \/ T(s, close) # "]" THEN Fails("parsing", i)
      ELSE Ok(close + 1, AttrSel(V(s, name), match, V(s, value)))

PseudoSelector(s, i) ==
  LET arg == Skip(s, i + 2)
  IN  CASE T(s, i + 1) = "IDENT" -> Ok(i + 2, AddSel("pseudo", V(s, i + 1)))
        [] T(s, i + 1) = "FUNCTION" /\ T(s, arg) = "IDENT" ->
             IF T(s, arg + 1) = ")"
             THEN Ok(arg + 2, [AddSel("pseudo", V(s, i + 1)) EXCEPT !.value = V(s, arg)])
             ELSE Fails(Missing(s, arg + 1), i)
        [] OTHER -> Fails("parsing", i)

RECURSIVE AdditionalSels(_, _, _)
AdditionalSels(s, i, found) ==
  LET Continue(r) == IF r.st = "ok" THEN AdditionalSels(s, r.i, Append(found, r.v)) ELSE r
  IN  CASE T(s, i) = "EOF" -> Fails("eof", i)
        [] T(s, i) = "HASH" -> Continue(Ok(i + 1, AddSel("id", V(s, i))))
        [] IsDelim(s, i, ".") -> Continue(IF T(s, i + 1) = "IDENT"
                                          THEN Ok(i + 2, AddSel("class", V(s, i + 1)))
                                          ELSE Fails(Missing(s, i + 1), i))
        [] T(s, i) = "[" -> Continue(AttributeSelector(s, i))
        [] IsDelim(s, i, ":") -> Continue(PseudoSelector(s, i))
        [] OTHER -> Ok(i, found)

\* White space behind the element's name is skipped as well, so what stands
\* behind it still belongs to the same simple selector.
SimpleSelector(s, i) ==
  LET named == IsDelim(s, i, "*") \/ T(s, i) = "IDENT"
      more == AdditionalSels(s, Skip(s, IF named THEN i + 1 ELSE i), <<>>)
  IN  IF T(s, i) = "EOF" THEN Fails("eof", i)
      ELSE IF more.st # "ok" THEN Fails(more.st, i)
      ELSE IF ~named /\ more.v = <<>> THEN Fails("parsing", i)
      ELSE Ok(Skip(s, more.i), [name |-> IF named THEN V(s, i) ELSE "", comb |-> "", add |-> more.v])

\* A combinator is read before it is known whether a selector follows.
RECURSIVE SimpleSelsTail(_, _, _)
SimpleSelsTail(s, i, sels) ==
  LET comb == CASE IsDelim(s, i, "+") -> "+" [] IsDelim(s, i, ">") -> ">" [] OTHER -> " "
      start == IF comb = " " THEN i ELSE Skip(s, i + 1)
      sel == SimpleSelector(s, start)
  IN  IF T(s, i) = "EOF" THEN Fails("eof", i)
      ELSE IF sel.st # "ok" THEN Ok(start, sels)
      ELSE SimpleSelsTail(s, sel.i, Append(sels, [sel.v EXCEPT !.comb = comb]))
SimpleSels(s, i) ==
  LET first == SimpleSelector(s, i)
      rest == SimpleSelsTail(s, first.i, <<first.v>>)
  IN  IF first.st # "ok" THEN Fails("parsing", i) ELSE IF rest.st = "ok" THEN rest ELSE Fails("eof", i)

RECURSIVE SelectorTail(_, _, _)
SelectorTail(s, i, list) ==
  LET next == SimpleSels(s, Skip(s, i + 1))
  IN  IF ~IsDelim(s, i, ",") THEN Ok(Skip(s, i), list)
      ELSE IF next.st # "ok" THEN Fails("parsing", i)
      ELSE SelectorTail(s, next.i, Append(list, next.v))
Selector(s, i) ==
  LET first == SimpleSels(s, i)
      rest == SelectorTail(s, first.i, <<first.v>>)
  IN  IF first.st # "ok" \/ rest.st # "ok" THEN Fails("parsing", i) ELSE rest

---------------------------------------------------------------------------
(* Declarations. *)

RECURSIVE Expr(_, _)
TermOf(unary, tok, params) == [op |-> "", unary |-> unary, t |-> tok.t, v |-> tok.v, params |-> params]
\* A function needs at least one parameter.
FunctionTerm(s, i) ==
  LET params == Expr(s, Skip(s, i + 1))
  IN  IF params.st # "ok" THEN Fails("parsing", i)
      ELSE IF T(s, params.i) # ")" THEN Fails(Missing(s, params.i), i)
      ELSE Ok(params.i + 1, params.v)
Term(s, i) ==
  LET signed == IsDelim(s, i, "+") \/ IsDelim(s, i, "-")
      unary == IF signed THEN V(s, i) ELSE ""
      at == IF signed THEN Skip(s, i + 1) ELSE i
      func == FunctionTerm(s, at)
  IN  IF T(s, at) = "EOF" THEN Fails("eof", i)
      ELSE IF T(s, at) = "FUNCTION"
        THEN IF func.st = "ok" THEN Ok(Skip(s, func.i), TermOf(unary, s[at], func.v))
             ELSE Fails(func.st, i)
      ELSE IF T(s, at) \in {"NUM", "STRING", "IDENT", "URI", "RGB", "HASH"}
        THEN Ok(Skip(s, at + 1), TermOf(unary, s[at], <<>>))
      ELSE Fails("parsing", i)

\* An operator with no term behind it is dropped, and is no error.
RECURSIVE ExprTail(_, _, _)
ExprTail(s, i, terms) ==
  LET op == IF IsDelim(s, i, "/") \/ IsDelim(s, i, ",") THEN V(s, i) ELSE ""
      start == Skip(s, IF op = "" THEN i ELSE i + 1)
      term == Term(s, start)
  IN  IF T(s, i) = "EOF" THEN Ok(i, terms)
      ELSE IF term.st # "ok" THEN Ok(start, terms)
      ELSE ExprTail(s, term.i, Append(terms, [term.v EXCEPT !.op = op]))
Expr(s, i) ==
  LET first == Term(s, i)
  IN  IF first.st # "ok" THEN Fails("parsing", i) ELSE ExprTail(s, first.i, <<first.v>>)

Declaration(s, i) ==
  LET colon == Skip(s, i + 1)
      expr == Expr(s, Skip(s, colon + 1))
      prio == Skip(s, expr.i)
      decl == [name |-> V(s, i), value |-> expr.v, important |-> T(s, prio) = "IMPORTANT"]
  IN  IF T(s, i) # "IDENT" THEN Fails(Missing(s, i), i)
      ELSE IF ~IsDelim(s, colon, ":") THEN Fails(Missing(s, colon), i)
      ELSE IF expr.st # "ok" THEN Fails("parsing", i)
      ELSE Ok(IF decl.important THEN Skip(s, prio + 1) ELSE prio, decl)

\* What a declaration that was read tells the handler.
PropertyOf(d) == IF d.st = "ok" THEN Event("property", d.v) ELSE <<>>

---------------------------------------------------------------------------
(* Statements. *)

\* The declarations behind the first; one that fails ends them only where the
\* next token is not another ";".
RECURSIVE RulesetTail(_, _, _)
RulesetTail(s, i, ev) ==
  LET d == Declaration(s, Skip(s, i + 1))
  IN  IF T(s, i) = "EOF" THEN Result("eof", i, <<>>, ev)
      ELSE IF T(s, i) = ";" THEN RulesetTail(s, d.i, ev \o PropertyOf(d))
      ELSE LET end == Skip(s, i)
           IN  IF T(s, end) = "}" THEN Result("ok", end + 1, <<>>, ev)
               ELSE Result(Missing(s, end), i, <<>>, ev)
Ruleset(s, i) ==
  LET sel == Selector(s, i)
      body == Skip(s, sel.i + 1)
      d == Declaration(s, body)
      rest == IF d.st # "ok" /\ T(s, body) = "EOF" THEN Fails("parsing", body)
              ELSE RulesetTail(s, d.i, PropertyOf(d))
      start == Event("start_selector", sel.v)
  IN  IF sel.st # "ok" THEN Fails("parsing", i)
      ELSE IF T(s, sel.i) # "{" THEN Fails(Missing(s, sel.i), i)
      ELSE IF rest.st = "ok"
        THEN Result("ok", rest.i, <<>>, start \o rest.ev \o Event("end_selector", sel.v))
      ELSE Result(rest.st, i, <<>>, start \o rest.ev \o Event("error", <<>>))

\* A list of media names from the one at i.
RECURSIVE MediaList(_, _, _)
MediaList(s, i, list) ==
  LET comma == Skip(s, i + 1)
  IN  IF T(s, i) # "IDENT" THEN Fails("parsing", i)
      ELSE IF IsDelim(s, comma, ",") THEN MediaList(s, Skip(s, comma + 1), Append(list, V(s, i)))
      ELSE Ok(comma, Append(list, V(s, i)))

RECURSIVE MediaRulesets(_, _, _)
MediaRulesets(s, i, ev) ==
  LET rule == Ruleset(s, i)
  IN  IF rule.st = "ok" THEN MediaRulesets(s, Skip(s, rule.i), ev \o rule.ev)
      ELSE Result("ok", i, <<>>, ev \o rule.ev)
Media(s, i) ==
  LET list == MediaList(s, Skip(s, i + 1), <<>>)
      rules == MediaRulesets(s, Skip(s, list.i + 1), <<>>)
      ev == Event("start_media", list.v) \o rules.ev
  IN  IF list.st # "ok" THEN Fails("parsing", i)
      ELSE IF T(s, list.i) # "{" THEN Fails(Missing(s, list.i), i)
      ELSE IF T(s, rules.i) # "}" THEN Result(Missing(s, rules.i), i, <<>>, ev)
      ELSE Result("ok", Skip(s, rules.i + 1), <<>>, ev \o Event("end_media", list.v))

\* The declarations of a page or of a font face behind the first: one that
\* fails ends them.
RECURSIVE AtDeclarations(_, _, _)
AtDeclarations(s, i, ev) ==
  LET d == Declaration(s, Skip(s, i + 1))
  IN  IF T(s, i) = ";" /\ d.st = "ok" THEN AtDeclarations(s, d.i, ev \o PropertyOf(d))
      ELSE Result("ok", Skip(s, IF T(s, i) = ";" THEN i + 1 ELSE i), <<>>, ev)
Page(s, i) ==
  LET name == Skip(s, i + 1)
      colon == IF T(s, name) = "IDENT" THEN Skip(s, name + 1) ELSE name
      open == IF IsDelim(s, colon, ":") THEN Skip(s, colon + 2) ELSE colon
      what == <<IF T(s, name) = "IDENT" THEN V(s, name) ELSE "",
                IF IsDelim(s, colon, ":") THEN V(s, colon + 1) ELSE "">>
      first == Declaration(s, Skip(s, open + 1))
      rest == AtDeclarations(s, first.i, PropertyOf(first))
      start == Event("start_page", what)
  IN  IF (IsDelim(s, colon, ":") /\ T(s, colon + 1) # "IDENT") \/ T(s, open) # "{"
        THEN Fails("parsing", i)
      ELSE IF first.st # "ok" THEN Result("parsing", i, <<>>, start)
      ELSE IF T(s, rest.i) # "}" THEN Result("parsing", i, <<>>, start \o rest.ev)
      ELSE Result("ok", Skip(s, rest.i + 1), <<>>, start \o rest.ev \o Event("end_page", what))
\* ... where a font face may have none.
FontFace(s, i) ==
  LET open == Skip(s, i + 1)
      first == Declaration(s, Skip(s, open + 1))
      rest == AtDeclarations(s, first.i, PropertyOf(first))
      start == Event("start_font_face", <<>>)
  IN  IF T(s, open) # "{" THEN Fails("parsing", i)
      ELSE IF T(s, rest.i) # "}" THEN Result(Missing(s, rest.i), i, <<>>, start \o rest.ev)
      ELSE Result("ok", Skip(s, rest.i + 1), <<>>, start \o rest.ev \o Event("end_font_face", <<>>))

Import(s, i) ==
  LET uri == Skip(s, i + 1)
      next == Skip(s, uri + 1)
      media == MediaList(s, next, <<>>)
      list == IF T(s, next) = "IDENT" THEN media ELSE Ok(next, <<>>)
      import == Event("import_style", <<V(s, uri), list.v>>)
  IN  IF T(s, uri) \notin {"STRING", "URI"} THEN Fails(Missing(s, uri), i)
      ELSE IF list.st # "ok" THEN Fails("parsing", i)
      ELSE IF T(s, list.i) = "EOF" /\ list.v # <<>> THEN Result("ok", list.i, <<>>, import)
      ELSE IF T(s, list.i) # ";" THEN Fails(Missing(s, list.i), i)
      ELSE Result("ok", Skip(s, list.i + 1), <<>>, import)

Charset(s, i) ==
  LET value == Skip(s, i + 1)
      semi == Skip(s, value + 1)
  IN  IF T(s, value) # "STRING" \/ T(s, semi) # ";" THEN Fails("parsing", i)
      ELSE Result("ok", semi + 1, <<>>, Event("charset", V(s, value)))

---------------------------------------------------------------------------
(* cr_parser_parse_stylesheet() *)

RECURSIVE SkipTokens(_, _, _)
SkipTokens(s, i, types) == IF T(s, i) \in types THEN SkipTokens(s, i + 1, types) ELSE i
SkipMarks(s, i) == SkipTokens(s, i, {"S", "COMMENT", "CDO", "CDC"})

EndDocument(i, ev) == Result("ok", i, <<>>, ev \o Event("end_document", <<>>))
Unrecoverable(st, i, ev) == Result(st, i, <<>>, ev \o Event("unrecoverable_error", <<>>))
RuleStarts == {"HASH", "[", "IDENT"}

\* Rulesets and at-rules until the end, or until one that is neither
\* understood nor skipped by the core grammar.  A comment is no white space
\* here: it starts a statement of the core grammar.
RECURSIVE Statements(_, _, _)
Statements(s, i, ev) ==
  LET isRule == T(s, i) \in RuleStarts \/ \E c \in {".", ":", "*"} : IsDelim(s, i, c)
      known == isRule \/ T(s, i) \in {"MEDIA", "PAGE", "FONT_FACE"}
      parsed == CASE isRule -> Ruleset(s, i) [] T(s, i) = "MEDIA" -> Media(s, i)
                  [] T(s, i) = "PAGE" -> Page(s, i) [] OTHER -> FontFace(s, i)
      skipped == IF isRule THEN RulesetCore(s, i) ELSE StatementCore(s, i)
      evError == ev \o parsed.ev \o Event("error", <<>>)
  IN  IF T(s, i) = "EOF" THEN EndDocument(i, ev)
      ELSE IF T(s, i) \in {"S", "CDO", "CDC"} THEN Statements(s, SkipMarks(s, i), ev)
      ELSE IF known /\ parsed.st = "ok" THEN Statements(s, parsed.i, ev \o parsed.ev)
      ELSE IF skipped.st = "ok" THEN Statements(s, skipped.i, IF known THEN evError ELSE ev)
      ELSE Unrecoverable(skipped.st, i, IF known THEN evError ELSE ev)

\* Imports.  A "<!--" or "-->" behind one is read but the token is kept, and
\* the next read then refuses its argument: the whole text is given up.
RECURSIVE Imports(_, _, _)
Imports(s, i, ev) ==
  LET import == Import(s, i)
      skipped == AtruleCore(s, i)
  IN  CASE T(s, i) = "EOF" -> EndDocument(i, ev)
        [] T(s, i) \in {"CDO", "CDC"} ->
             IF T(s, SkipTokens(s, i, {"S", "CDO", "CDC"})) = "EOF" THEN EndDocument(i, ev)
             ELSE Unrecoverable("error", 1, ev)
        [] T(s, i) # "IMPORT" -> Statements(s, i, ev)
        [] import.st = "ok" -> Imports(s, Skip(s, import.i), ev \o import.ev)
        [] import.st = "eof" -> Unrecoverable("eof", 1, ev)
        [] skipped.st = "ok" -> Imports(s, Skip(s, skipped.i), ev \o Event("error", <<>>))
        [] OTHER -> Unrecoverable(skipped.st, 1, ev \o Event("error", <<>>))

Stylesheet(s) ==
  LET first == Skip(s, 1)
      charset == Charset(s, first)
      skipped == AtruleCore(s, first)
      start == Event("start_document", <<>>)
  IN  IF T(s, first) = "EOF" THEN EndDocument(first, start)
      ELSE IF T(s, first) # "CHARSET" THEN Imports(s, SkipMarks(s, first), start)
      ELSE IF charset.st = "ok" THEN Imports(s, SkipMarks(s, charset.i), start \o charset.ev)
      ELSE IF skipped.st = "ok" THEN Imports(s, SkipMarks(s, skipped.i), start)
      ELSE Unrecoverable("parsing", 1, start)
=============================================================================
