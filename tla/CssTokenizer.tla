---------------------------- MODULE CssTokenizer ----------------------------
(***************************************************************************)
(* The tokenizer of the CSS engine: st/croco/cr-tknzr.c on the input of    *)
(* cr-input.c.  A text is a sequence of characters, one string of one      *)
(* character each (every character outside ASCII is "NA"), and the input's *)
(* state is the index of the next character; Len(s) + 1 is the end of the  *)
(* input.  A parsing function is an operator from a text and an index to   *)
(* the index behind what it read, or Fail: where the code fails it puts    *)
(* the position back, which is what its caller's own index models.  A      *)
(* token's value is the text it spans.                                     *)
(***************************************************************************)
EXTENDS Integers, Sequences, FiniteSets

CONSTANT Texts   \* the texts a tokenizer may be given

Fail == 0
White == {" ", "\t", "\r", "\n", "\f"}
Digits == {"0", "1", "9"}
HexDigits == Digits \cup {"a", "c", "d", "e", "f"}
Letters == {"a", "c", "d", "e", "f", "g", "h", "i", "k", "l", "m", "n", "o", "p", "r", "s",
            "t", "u", "x", "z", "H"}
NonAscii == "NA"

---------------------------------------------------------------------------
(* cr-input.c *)
PeekChar(s, i) == IF i <= Len(s) THEN s[i] ELSE ""
\* The k-th character from i; peek_byte() fails where there is none.
PeekByte(s, i, k) == PeekChar(s, i + k - 1)
HasBytes(s, i, k) == i + k - 1 <= Len(s)
ConsumeWhiteSpaces(s, i) ==
  CHOOSE j \in i..(Len(s) + 1) :
    PeekChar(s, j) \notin White /\ \A k \in i..(j - 1) : s[k] \in White
StartsWith(s, i, w) == HasBytes(s, i, Len(w)) /\ \A k \in 1..Len(w) : s[i + k - 1] = w[k]

\* Apply a parsing function until it fails.
Star(s, i, Parse(_, _)) ==
  LET end[j \in i..(Len(s) + 1)] == IF Parse(s, j) = Fail THEN j ELSE end[Parse(s, j)]
  IN  end[i]

---------------------------------------------------------------------------
(* The parsing functions. *)

ParseW(s, i) == IF PeekChar(s, i) \in White THEN ConsumeWhiteSpaces(s, i) ELSE Fail
TryToSkipSpaces(s, i) == ConsumeWhiteSpaces(s, i)

\* Two bytes are looked at, so a newline that ends the input is not one.
ParseNl(s, i) ==
  IF ~HasBytes(s, i, 2) THEN Fail
  ELSE IF s[i] = "\r" /\ s[i + 1] = "\n" THEN i + 2
  ELSE IF s[i] \in {"\n", "\r", "\f"} THEN i + 1 ELSE Fail

\* "/*" up to the first "*/"; without one, the input ends first.
ParseComment(s, i) ==
  LET ends == {j \in (i + 4)..(Len(s) + 1) : s[j - 2] = "*" /\ s[j - 1] = "/"}
  IN  IF ~StartsWith(s, i, <<"/", "*">>) \/ ends = {} THEN Fail
      ELSE CHOOSE j \in ends : \A k \in ends : j <= k

\* A backslash, up to six hexadecimal digits and all the white space behind
\* them.  The character behind each digit is looked at, and must be there.
ParseUnicodeEscape(s, i) ==
  LET digits == CHOOSE n \in 0..6 :
        /\ \A k \in 1..n : PeekByte(s, i + 1, k) \in HexDigits
        /\ n = 6 \/ PeekByte(s, i + 1, n + 1) \notin HexDigits
  IN  IF PeekChar(s, i) # "\\" \/ ~HasBytes(s, i + 1, digits + 1) THEN Fail
      ELSE ConsumeWhiteSpaces(s, i + 1 + digits)

ParseEscape(s, i) ==
  IF ~HasBytes(s, i, 2) \/ s[i] # "\\" THEN Fail
  ELSE IF s[i + 1] \in HexDigits THEN ParseUnicodeEscape(s, i)
  ELSE IF s[i + 1] \in {" ", NonAscii} THEN i + 2 ELSE Fail

\* One element of a string with this delimiter.  Two bytes are looked at
\* before each, so the delimiter that ends the input does not end a string.
StringChars == {"\t", " ", "!", "#", "%", "(", ")", "*", "+", ",", "-", ".", "/", ":", ";", "<", "=",
                ">", "@", "[", "]", "_", "{", "|", "}", "~", NonAscii} \cup Letters \cup Digits
ParseStringChar(s, i) ==
  IF ~HasBytes(s, i, 2) THEN Fail
  ELSE IF s[i] = "\\" THEN
    IF s[i + 1] \in {"'", "\""} THEN i + 2
    ELSE IF ParseEscape(s, i) # Fail THEN ParseEscape(s, i)
    ELSE ParseNl(s, i + 1)
  ELSE IF s[i] \in StringChars THEN i + 1 ELSE Fail
ParseString(s, i) ==
  IF PeekChar(s, i) \notin {"'", "\""} THEN Fail
  ELSE LET end == Star(s, i + 1, ParseStringChar)
       IN  IF HasBytes(s, end, 2) /\ s[end] = s[i] THEN end + 1 ELSE Fail

ParseNmstart(s, i) ==
  IF PeekChar(s, i) = "\\" THEN ParseEscape(s, i)
  ELSE IF PeekChar(s, i) \in Letters \cup {NonAscii} THEN i + 1 ELSE Fail
ParseNmchar(s, i) ==
  IF PeekChar(s, i) = "\\" THEN ParseEscape(s, i)
  ELSE IF PeekChar(s, i) \in Letters \cup Digits \cup {NonAscii, "-", "_"} THEN i + 1 ELSE Fail
ParseIdent(s, i) ==
  LET start == ParseNmstart(s, IF PeekChar(s, i) = "-" THEN i + 1 ELSE i)
  IN  IF start = Fail THEN Fail ELSE Star(s, start, ParseNmchar)
ParseName(s, i) == IF ParseNmchar(s, i) = Fail THEN Fail ELSE Star(s, i, ParseNmchar)
ParseHash(s, i) == IF PeekChar(s, i) = "#" THEN ParseName(s, i + 1) ELSE Fail
ParseAtkeyword(s, i) == IF PeekChar(s, i) = "@" THEN ParseIdent(s, i + 1) ELSE Fail

\* A quoted address; if there is none, or no ")" behind it, an unquoted one
\* from wherever the quoted one ended.
UriChars == {"!", "#", "%", "*", "+", ",", "-", ".", "/", ":", ";", "<", "=", ">", "@", "[", "\\",
             "]", "_", "{", "|", "}", "~", NonAscii} \cup Letters \cup Digits
ParseUriChar(s, i) == IF PeekChar(s, i) \in UriChars THEN i + 1 ELSE ParseEscape(s, i)
ParseUnquotedUri(s, i) ==
  LET chars == Star(s, i, ParseUriChar)
      end == TryToSkipSpaces(s, chars)
  IN  IF HasBytes(s, chars, 1) /\ PeekChar(s, end) = ")" THEN end + 1 ELSE Fail
ParseUri(s, i) ==
  LET open == TryToSkipSpaces(s, i + 4)
      quoted == ParseString(s, open)
      close == TryToSkipSpaces(s, quoted)
  IN  IF ~StartsWith(s, i, <<"u", "r", "l", "(">>) THEN Fail
      ELSE IF quoted = Fail THEN ParseUnquotedUri(s, open)
      ELSE IF ~HasBytes(s, close, 1) THEN Fail
      ELSE IF s[close] = ")" THEN close + 1 ELSE ParseUnquotedUri(s, close)

\* A sign, digits, at most one point, and a digit behind the point.
ParseNum(s, i) ==
  LET first == IF PeekChar(s, i) \in {"+", "-"} THEN i + 1 ELSE i
      end == CHOOSE j \in first..(Len(s) + 1) :
        /\ \A k \in first..(j - 1) : s[k] \in Digits \cup {"."}
        /\ PeekChar(s, j) \notin Digits \cup {"."}
      points == {k \in first..(end - 1) : s[k] = "."}
  IN  IF end = first \/ Cardinality(points) > 1 \/ s[end - 1] = "." THEN Fail ELSE end

\* "rgb(", three numbers with or without "%" and one more byte, which the
\* code takes for the ")" without looking.
ParseRgbPart(s, i) ==
  LET num == ParseNum(s, TryToSkipSpaces(s, i))
  IN  IF num = Fail \/ ~HasBytes(s, num, 1) THEN Fail
      ELSE TryToSkipSpaces(s, IF s[num] = "%" THEN num + 1 ELSE num)
ParseRgb(s, i) ==
  LET Next(j) == IF j # Fail /\ PeekChar(s, j) = "," THEN ParseRgbPart(s, j + 1) ELSE Fail
      end == Next(Next(ParseRgbPart(s, i + 4)))
  IN  IF StartsWith(s, i, <<"r", "g", "b", "(">>) /\ end # Fail /\ HasBytes(s, end, 1)
      THEN end + 1 ELSE Fail

ParseImportant(s, i) ==
  LET word == TryToSkipSpaces(s, i + 1)
  IN  IF PeekChar(s, i) = "!" /\ StartsWith(s, word, <<"i","m","p","o","r","t","a","n","t">>)
      THEN word + 9 ELSE Fail

---------------------------------------------------------------------------
(* cr_tknzr_get_next_token() *)

Sym(type, w) == [type |-> type, word |-> w]
AtSyms == <<Sym("FONT_FACE_SYM", <<"@","f","o","n","t","-","f","a","c","e">>),
            Sym("CHARSET_SYM", <<"@","c","h","a","r","s","e","t">>),
            Sym("IMPORT_SYM", <<"@","i","m","p","o","r","t">>),
            Sym("MEDIA_SYM", <<"@","m","e","d","i","a">>),
            Sym("PAGE_SYM", <<"@","p","a","g","e">>)>>
Syms == <<Sym("CDO", <<"<","!","-","-">>), Sym("CDC", <<"-","-",">">>),
          Sym("INCLUDES", <<"~","=">>), Sym("DASHMATCH", <<"|","=">>),
          Sym("SEMICOLON", <<";">>), Sym("CBO", <<"{">>), Sym("CBC", <<"}">>), Sym("PO", <<"(">>),
          Sym("PC", <<")">>), Sym("BO", <<"[">>), Sym("BC", <<"]">>)>>
Units == <<Sym("EMS", <<"e","m">>), Sym("EXS", <<"e","x">>), Sym("LENGTH", <<"p","x">>),
           Sym("LENGTH", <<"c","m">>), Sym("LENGTH", <<"m","m">>), Sym("LENGTH", <<"i","n">>),
           Sym("LENGTH", <<"p","t">>), Sym("LENGTH", <<"p","c">>), Sym("ANGLE", <<"d","e","g">>),
           Sym("ANGLE", <<"r","a","d">>), Sym("ANGLE", <<"g","r","a","d">>), Sym("TIME", <<"m","s">>),
           Sym("TIME", <<"s">>), Sym("FREQ", <<"H","z">>), Sym("FREQ", <<"k","H","z">>),
           Sym("PERCENTAGE", <<"%">>)>>

Token(type, i, j) == [type |-> type, from |-> i, to |-> j]
\* The words of a table that stand at i; the first of the table is taken.
Matching(s, i, table) == {n \in DOMAIN table : StartsWith(s, i, table[n].word)}
FirstOf(s, i, table) == table[CHOOSE n \in Matching(s, i, table) :
                                \A m \in Matching(s, i, table) : n <= m]

Delim(i) == Token("DELIM", i, i + 1)
\* A number takes the unit behind it, or an identifier as its dimension.
NumberToken(s, i) ==
  LET num == ParseNum(s, i)
  IN  IF num = Fail THEN Delim(i)
      ELSE IF Matching(s, num, Units) # {}
        THEN LET u == FirstOf(s, num, Units) IN Token(u.type, i, num + Len(u.word))
      ELSE IF ParseIdent(s, num) # Fail THEN Token("DIMEN", i, ParseIdent(s, num))
      ELSE Token("NUMBER", i, num)
\* The code tests next_bytes[0] where it means next_char, and nothing has set
\* it here: a character outside ASCII starts no identifier.
IdentToken(s, i) ==
  IF s[i] \notin Letters \cup {"\\"} \/ ParseIdent(s, i) = Fail THEN Delim(i)
  ELSE LET end == ParseIdent(s, i)
       IN  IF PeekChar(s, end) = "(" THEN Token("FUNCTION", i, end + 1) ELSE Token("IDENT", i, end)
Parsed(type, i, end) == IF end = Fail THEN Delim(i) ELSE Token(type, i, end)

ReadToken(s, i) ==
  CASE Matching(s, i, Syms) # {} ->
         LET t == FirstOf(s, i, Syms) IN Token(t.type, i, i + Len(t.word))
    [] s[i] = "@" -> IF Matching(s, i, AtSyms) # {}
                     THEN LET t == FirstOf(s, i, AtSyms) IN Token(t.type, i, i + Len(t.word))
                     ELSE Parsed("ATKEYWORD", i, ParseAtkeyword(s, i))
    [] s[i] = "u" /\ ParseUri(s, i) # Fail -> Token("URI", i, ParseUri(s, i))
    [] s[i] = "r" /\ ParseRgb(s, i) # Fail -> Token("RGB", i, ParseRgb(s, i))
    [] s[i] = "-" /\ Matching(s, i, Syms) = {} ->
         IF ParseIdent(s, i) # Fail THEN Token("IDENT", i, ParseIdent(s, i)) ELSE NumberToken(s, i)
    [] s[i] = "/" -> Parsed("COMMENT", i, ParseComment(s, i))
    [] s[i] \in White -> Token("S", i, ParseW(s, i))
    [] s[i] = "#" -> Parsed("HASH", i, ParseHash(s, i))
    [] s[i] \in {"'", "\""} -> Parsed("STRING", i, ParseString(s, i))
    [] s[i] = "!" -> Parsed("IMPORTANT_SYM", i, ParseImportant(s, i))
    [] s[i] \in Digits \cup {".", "+"} -> NumberToken(s, i)
    [] OTHER -> IdentToken(s, i)

---------------------------------------------------------------------------
(* The tokenizer with its one-token push-back. *)

VARIABLES
  text,     \* what is tokenized
  pos,      \* the input's position
  prevPos,  \* prev_pos: where the last token read started
  tokenCache,    \* token_cache: the token given back, or NoToken
  held,     \* the token the caller has got, or NoToken
  peeked,   \* whether the caller's last call was a peek_byte()
  seen      \* the position up to which the caller has consumed the text

tkVars == <<text, pos, prevPos, tokenCache, held, peeked, seen>>
NoToken == [type |-> "none"]

TkInit == /\ text \in Texts /\ pos = 1 /\ prevPos = 1 /\ tokenCache = NoToken /\ held = NoToken
          /\ peeked = FALSE /\ seen = 1

\* A caller takes the next token: the one given back, or a new one.
GetNextToken ==
  /\ held = NoToken
  /\ IF tokenCache # NoToken
     THEN held' = tokenCache /\ tokenCache' = NoToken /\ UNCHANGED <<pos, prevPos>>
     ELSE /\ pos <= Len(text)
          /\ held' = ReadToken(text, pos)
          /\ pos' = held'.to
          /\ prevPos' = pos
          /\ UNCHANGED tokenCache
  /\ peeked' = FALSE
  /\ UNCHANGED <<text, seen>>

\* ... and keeps it,
Consume == /\ held # NoToken /\ seen' = held.to /\ held' = NoToken
           /\ UNCHANGED <<text, pos, prevPos, tokenCache, peeked>>
\* ... or gives it back, as parse_token() does with one of another type.
UngetToken == /\ held # NoToken /\ tokenCache' = held /\ held' = NoToken
              /\ UNCHANGED <<text, pos, prevPos, peeked, seen>>

\* peek_char(), peek_byte(), read_char() and get_cur_pos() first drop a token
\* given back and return to where it started.
\* Mutant: the token is dropped and the position left behind it.
RewoundNever == pos
Rewound == IF tokenCache # NoToken THEN prevPos ELSE pos
PeekNext == /\ held = NoToken /\ pos' = Rewound /\ tokenCache' = NoToken
            /\ peeked' \in BOOLEAN   \* peek_byte(), or one of the others
            /\ UNCHANGED <<text, prevPos, held, seen>>
ReadChar == /\ held = NoToken /\ Rewound <= Len(text) /\ pos' = Rewound + 1 /\ tokenCache' = NoToken
            /\ seen' = seen + 1 /\ peeked' = FALSE
            /\ UNCHANGED <<text, prevPos, held>>
\* read_byte() reads on from the position and minds no token given back.  Its
\* one caller, parse_expr(), has called peek_byte() right before.
ReadByte == /\ held = NoToken /\ peeked /\ pos <= Len(text) /\ pos' = pos + 1
            /\ seen' = seen + 1 /\ peeked' = FALSE
            /\ UNCHANGED <<text, prevPos, tokenCache, held>>
\* A production that fails puts the position back to where it started.
SetCurPos(p) == /\ held = NoToken /\ p <= Len(text) /\ p <= seen
                /\ pos' = p /\ tokenCache' = NoToken /\ seen' = p /\ peeked' = FALSE
                /\ UNCHANGED <<text, prevPos, held>>

TkNext == \/ GetNextToken \/ Consume \/ UngetToken \/ PeekNext \/ ReadChar \/ ReadByte
          \/ \E p \in 1..2 : SetCurPos(p)
TkSpec == TkInit /\ [][TkNext]_tkVars

---------------------------------------------------------------------------
(* Properties. *)

\* However a caller mixes tokens, push-backs, single characters and returns
\* to an earlier position, and reads a byte it has looked at, it is given
\* every character exactly once and in order: the token at hand, the token
\* given back or the next character to read starts where what it consumed
\* ended, and a token is never empty.
NothingIsLost ==
  /\ held # NoToken => held.from = seen /\ held.to > held.from /\ pos = held.to
  /\ held = NoToken /\ tokenCache # NoToken => tokenCache.from = seen /\ prevPos = seen /\ pos = tokenCache.to
  /\ held = NoToken /\ tokenCache = NoToken => pos = seen

\* A token given back is the one that would be read again from its start.
PushBackIsTransparent == tokenCache # NoToken => tokenCache = ReadToken(text, prevPos)

\* Callers that push tokens back get the text they would have got without.
TokensAreKept == NothingIsLost /\ PushBackIsTransparent
=============================================================================
