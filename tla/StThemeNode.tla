---------------------------- MODULE StThemeNode -----------------------------
(***************************************************************************)
(* st/st-theme-node.c: a node of the style tree and the questions it is    *)
(* asked.  Answers are computed at the first question and kept; a node is  *)
(* never changed, so that a later question hears what was kept.  How they  *)
(* are computed comes first: what the declarations of a node come to.  They *)
(* come sorted from StTheme, the inline style's after them.                *)
(*                                                                         *)
(* Nodes are numbered from the root, the parent of n is n - 1.  Lengths    *)
(* are in thousandths of a pixel where the code has a double; a colour is  *)
(* <<red, green, blue, alpha>>.                                            *)
(***************************************************************************)
EXTENDS Integers, Sequences, FiniteSets
LOCAL INSTANCE SequencesExt
LOCAL INSTANCE FiniteSetsExt

CONSTANTS
  ScaleFactor,   \* st_theme_context_get_scale_factor()
  Resolution,    \* dots per inch
  ContextFont,   \* the interface font
  AccentColor, AccentFgColor,
  NamedColors,   \* the table of cr-rgb.c, as a function
  Luminance(_, _), \* Cogl: the colour with its luminance moved by hundredths
  Files_         \* addresses that lead to a file

TRANSPARENT == <<0, 0, 0, 0>>
BLACK == <<0, 0, 0, 255>>
Root == 1
Milli == 1000

\* A term of a declaration.
CssTerm(t, s, n, unit) == [t |-> t, s |-> s, n |-> n, unit |-> unit, neg |-> FALSE, op |-> "", args |-> <<>>]
Ident(s) == CssTerm("ident", s, 0, "")
Number(n, unit) == CssTerm("number", "", n, unit)
Uri(s) == CssTerm("uri", s, 0, "")
Function_(s, args) == [CssTerm("function", s, 0, "") EXCEPT !.args = args]
Comma(term) == [term EXCEPT !.op = ","]
Decl(name, value) == [name |-> name, value |-> value]

Found(v) == [r |-> "found", v |-> v]
NotFound == [r |-> "not found", v |-> 0]
Inherit == [r |-> "inherit", v |-> 0]
IsIdent(term, s) == term.t = "ident" /\ term.s = s
Clamp(x, lo, hi) == IF x < lo THEN lo ELSE IF x > hi THEN hi ELSE x

---------------------------------------------------------------------------
(* Colours. *)

\* get_color_from_rgba_term(): bytes or percentages, and an alpha of 0 to 1.
\* A component of n / d is scaled to 0..255; alpha is in hundredths.
ColorComponent(n, d) == IF n >= d THEN 255 ELSE IF n <= 0 THEN 0 ELSE (n * 256) \div d
RgbaTerm(term) ==
  LET a == term.args
      ok == /\ Len(a) >= 4
            /\ \A i \in 1..4 : a[i].op = (IF i = 1 THEN "" ELSE ",") /\ a[i].t = "number"
            /\ \A i \in 1..3 : a[i].unit \in {"%", ""}
            /\ a[4].unit = ""
      C(i) == ColorComponent(a[i].n, IF a[i].unit = "%" THEN 100 ELSE 255)
  IN  IF ok THEN Found(<<C(1), C(2), C(3), ColorComponent(a[4].n, 1)>>) ELSE NotFound

\* The factor of a colour function, in hundredths.
Factor(term) == IF term.unit = "%" THEN term.n ELSE term.n * 100
IsFactor(term) == term.t = "number" /\ term.unit \in {"%", ""}
TransparentizeTerm(c, amount) == <<c[1], c[2], c[3], Clamp((c[4] * 100 - Factor(amount) * 255) \div 100, 0, 255)>>
Lerp(a, b, f) == a * 100 + (b - a) * f
MixTerm(c, d, amount) ==
  LET f == 100 - Factor(amount)
      alpha == Clamp(Lerp(c[4], d[4], f) \div 100, 0, 255)
      C(i) == Clamp(Lerp(c[i] * c[4], d[i] * d[4], f) \div (alpha * 100), 0, 255)
  IN  IF alpha = 0 THEN TRANSPARENT ELSE <<C(1), C(2), C(3), alpha>>
LightenTerm(c, amount) == Luminance(c, Factor(amount))
DarkenTerm(c, amount) == Luminance(c, -Factor(amount))

\* cr_rgb_set_from_term(): an rgb() the parser has read, a name, a hash.
RgbSetFromTerm(term) ==
  CASE term.t = "rgb" -> LET C(a) == IF a.unit = "%" THEN (a.n * 255) \div 100 ELSE a.n
                         IN  Found(<<C(term.args[1]), C(term.args[2]), C(term.args[3]), 255>>)
    [] term.t \in {"ident", "hash"} /\ term.s \in DOMAIN NamedColors -> Found(NamedColors[term.s])
    [] OTHER -> NotFound
RECURSIVE ColorFromTerm(_)
ColorFromTerm(term) ==
  LET a == term.args
      colors == IF term.s = "st-mix" THEN 2 ELSE 1
      ok == /\ Len(a) > colors
            /\ \A i \in 1..colors : ColorFromTerm(a[i]).r = "found"
            /\ IsFactor(a[colors + 1])
      C(i) == ColorFromTerm(a[i]).v
  IN  IF term.t = "ident" /\ term.s \in {"inherit", "transparent", "-st-accent-color", "-st-accent-fg-color"}
      THEN CASE term.s = "inherit" -> Inherit
             [] term.s = "transparent" -> Found(TRANSPARENT)
             [] term.s = "-st-accent-color" -> Found(AccentColor)
             [] OTHER -> Found(AccentFgColor)
      ELSE IF term.t # "function" THEN RgbSetFromTerm(term)
      ELSE IF term.s = "rgba" THEN RgbaTerm(term)
      ELSE IF term.s \notin {"st-transparentize", "st-mix", "st-lighten", "st-darken"} \/ ~ok THEN NotFound
      ELSE Found(CASE term.s = "st-transparentize" -> TransparentizeTerm(C(1), a[2])
                   [] term.s = "st-mix" -> MixTerm(C(1), C(2), a[3])
                   [] term.s = "st-lighten" -> LightenTerm(C(1), a[2])
                   [] OTHER -> DarkenTerm(C(1), a[2]))

---------------------------------------------------------------------------
(* Lengths and fonts.  A font size is in thousandths too, of a pixel when  *)
(* it is absolute, of a point otherwise.                                   *)

RECURSIVE GetFont(_, _)
GetParentFont(st, n) == IF n = Root THEN ContextFont ELSE GetFont(st, n - 1)
SizeInPixels(font) == IF font.absolute THEN font.size ELSE (font.size * Resolution) \div 72
PointUnits == [pt |-> Milli, in |-> 72 * Milli, cm |-> 28346, mm |-> 2835, pc |-> 472]
LengthFromTerm(term, fontSize) ==
  CASE term.t # "number" -> NotFound
    [] term.unit = "px" -> Found(term.n * ScaleFactor * Milli)
    [] term.unit \in DOMAIN PointUnits -> Found((term.n * PointUnits[term.unit] * Resolution) \div 72)
    [] term.unit = "em" -> Found(term.n * fontSize)
    [] term.unit = "ex" -> Found((term.n * fontSize) \div 2)
    [] term.unit = "" /\ term.n = 0 -> Found(0)
    [] OTHER -> NotFound
\* get_length_from_term_int(): whole logical pixels; (int) drops the fraction.
WholePixels(l) ==
  IF l.r # "found" THEN l ELSE Found(((2 * l.v + ScaleFactor * Milli) \div (2 * ScaleFactor * Milli)) * ScaleFactor)
LengthFromTermInt(term, fontSize) == WholePixels(LengthFromTerm(term, fontSize))
Or(res, default) == IF res.r = "found" THEN res.v ELSE default

FontSizes == <<6, 8, 10, 12, 16, 20, 24>>
FontSizeNames == <<"xx-small", "x-small", "small", "medium", "large", "x-large", "xx-large">>
FontSizePoints(name, points) ==
  LET below == {i \in 1..7 : FontSizes[i] * Milli < points}
      notAbove == {i \in 1..7 : FontSizes[i] * Milli <= points}
  IN  CASE name = "smaller" -> IF Cardinality(below) = 7 THEN (10 * points + 6) \div 12
                               ELSE FontSizes[Max({1} \cup below)] * Milli
        [] name = "larger" -> FontSizes[Clamp(Cardinality(notAbove) + 1, 2, 7)] * Milli
        [] OTHER -> FontSizes[CHOOSE i \in 1..7 : FontSizeNames[i] = name] * Milli
\* size is the parent's font's, which the units of a font size are of as well.
FontSizeFromTerm(term, size) ==
  IF term.t = "ident"
  THEN IF term.s \in ToSet(FontSizeNames) \cup {"smaller", "larger"}
       THEN Found((FontSizePoints(term.s, (size * 72) \div Resolution) * Resolution) \div 72) ELSE NotFound
  ELSE IF term.t = "number" /\ term.unit = "%" THEN Found((size * term.n) \div 100)
  ELSE LengthFromTerm(term, size)
\* <<weight, absolute>>
FontWeightFromTerm(term) ==
  CASE term.t = "number" /\ term.unit = "" -> Found(<<term.n, TRUE>>)
    [] IsIdent(term, "bold") -> Found(<<700, TRUE>>)
    [] IsIdent(term, "normal") -> Found(<<400, TRUE>>)
    [] IsIdent(term, "bolder") -> Found(<<700, FALSE>>)
    [] IsIdent(term, "lighter") -> Found(<<300, FALSE>>)
    [] OTHER -> NotFound
FontStyleFromTerm(term) ==
  IF term.t = "ident" /\ term.s \in {"normal", "oblique", "italic"} THEN Found(term.s) ELSE NotFound
FontVariantFromTerm(term) ==
  IF term.t = "ident" /\ term.s \in {"normal", "small-caps"} THEN Found(term.s) ELSE NotFound

\* font_family_from_terms(): names, the first of which may be quoted.  The
\* family that was set before is lost when this one cannot be read.
FontFamilyFromTerms(terms, family) ==
  IF terms = <<>> THEN [ok |-> FALSE, family |-> family]
  ELSE LET ok == /\ \A i \in DOMAIN terms : terms[i].t \in {"string", "ident"}
                 /\ terms[1].op = ""
                 /\ \A i \in 2..Len(terms) : terms[i].op \in {",", ""} /\ terms[i].t # "string"
       IN  [ok |-> ok, family |-> IF ok THEN [i \in DOMAIN terms |-> <<terms[i].op, terms[i].s>>] ELSE <<>>]

\* The "font" shorthand: style, variant and weight in any order, then the
\* size, a line height that is ignored, and the family.
RECURSIVE FontPrefix(_, _)
FontPrefix(terms, f) ==
  IF terms = <<>> THEN [rest |-> terms, f |-> f]
  ELSE LET style == FontStyleFromTerm(Head(terms))
           variant == FontVariantFromTerm(Head(terms))
           weight == FontWeightFromTerm(Head(terms))
       IN  CASE style.r = "found" -> FontPrefix(Tail(terms), [f EXCEPT !.style = style.v])
             [] style.r # "found" /\ variant.r = "found" -> FontPrefix(Tail(terms), [f EXCEPT !.variant = variant.v])
             [] style.r # "found" /\ variant.r # "found" /\ weight.r = "found" ->
                  FontPrefix(Tail(terms), [f EXCEPT !.weight = weight.v])
             [] OTHER -> [rest |-> terms, f |-> f]
FontAfterSize(f, read, family) ==
  IF family.ok THEN [read EXCEPT !.family = family.family] ELSE [f EXCEPT !.family = family.family]
AfterLineHeight(terms) == IF terms # <<>> /\ Head(terms).op = "/" THEN Tail(terms) ELSE terms
FontAfterPrefix(f, pre, size) ==
  IF size.r # "found" THEN f
  ELSE FontAfterSize(f, [pre.f EXCEPT !.size = size.v], FontFamilyFromTerms(AfterLineHeight(Tail(pre.rest)), f.family))
SizeOfPrefix(rest, parentSize) ==
  IF rest = <<>> \/ Head(rest).t # "number" THEN NotFound ELSE FontSizeFromTerm(Head(rest), parentSize)
FontShorthand(terms, f, parentSize) ==
  LET pre == FontPrefix(terms, [f EXCEPT !.style = "normal", !.variant = "normal", !.weight = <<400, TRUE>>])
  IN  FontAfterPrefix(f, pre, SizeOfPrefix(pre.rest, parentSize))

\* st_theme_node_get_font()
Unset == "unset"
FontDeclaration(f, decl, parentSize) ==
  LET one == Len(decl.value) = 1
      term == decl.value[1]
      Set(field, res) == IF one /\ res.r = "found" THEN [f EXCEPT ![field] = res.v] ELSE f
  IN  CASE decl.name = "font" -> FontShorthand(decl.value, f, parentSize)
        [] decl.name = "font-family" -> [f EXCEPT !.family = FontFamilyFromTerms(decl.value, f.family).family]
        [] decl.name = "font-weight" -> Set("weight", FontWeightFromTerm(term))
        [] decl.name = "font-style" -> Set("style", FontStyleFromTerm(term))
        [] decl.name = "font-variant" -> Set("variant", FontVariantFromTerm(term))
        [] decl.name = "font-size" -> Set("size", FontSizeFromTerm(term, parentSize))
        [] OTHER -> f
NothingSet == [family |-> <<>>, size |-> -1, weight |-> <<-1, TRUE>>, style |-> Unset, variant |-> Unset]
RelativeWeight(set, parent) == Clamp(IF set.weight[1] = 700 THEN parent.weight + 200 ELSE parent.weight - 200, 100, 900)
FontOver(parent, set) ==
  [family |-> IF set.family = <<>> THEN parent.family ELSE set.family,
   size |-> IF set.size = -1 THEN parent.size ELSE set.size,
   absolute |-> set.size # -1 \/ parent.absolute,
   weight |-> CASE set.weight[1] = -1 -> parent.weight
                [] set.weight[1] # -1 /\ set.weight[2] -> set.weight[1]
                [] OTHER -> RelativeWeight(set, parent),
   style |-> IF set.style = Unset THEN parent.style ELSE set.style,
   variant |-> IF set.variant = Unset THEN parent.variant ELSE set.variant]
FontWithin(st, n, parent) ==
  FontOver(parent, FoldLeft(LAMBDA f, d : FontDeclaration(f, d, SizeInPixels(parent)), NothingSet, st[n]))
GetFont(st, n) == FontWithin(st, n, GetParentFont(st, n))
\* What the lengths of a node are measured by.
FontSize(st, n) == SizeInPixels(GetFont(st, n))

---------------------------------------------------------------------------
(* Geometry: the declarations in order, a later one over an earlier one.   *)

Sides == <<"top", "right", "bottom", "left">>
Corners == <<"topleft", "topright", "bottomright", "bottomleft">>
\* One to four values for the four sides or corners.
ValueFor(k, i) == CASE k = 1 -> 1 [] k = 2 -> 2 - (i % 2) [] k = 3 -> <<1, 2, 3, 2>>[i] [] OTHER -> i
\* Mutant: a value that cannot be read resets what was said before.
FourValuesReset(fontSize, four, decl, base, names) ==
  LET k == Len(decl.value)
      Take(j) == Or(LengthFromTermInt(decl.value[j], fontSize), 0)
  IN  IF decl.name = base THEN IF k \in 1..4 THEN [i \in 1..4 |-> Take(ValueFor(k, i))] ELSE four
      ELSE IF k = 1 THEN [i \in 1..4 |-> IF decl.name = base \o "-" \o names[i] THEN Take(1) ELSE four[i]]
      ELSE four
FourValues(fontSize, four, decl, base, names) ==
  LET k == Len(decl.value)
      Take(i, j) == Or(LengthFromTermInt(decl.value[j], fontSize), four[i])
  IN  IF decl.name = base THEN IF k \in 1..4 THEN [i \in 1..4 |-> Take(i, ValueFor(k, i))] ELSE four
      ELSE IF k = 1 THEN [i \in 1..4 |-> IF decl.name = base \o "-" \o names[i] THEN Take(i, 1) ELSE four[i]]
      ELSE four
DoBorderRadius(fontSize, four, decl) == FourValues(fontSize, four, decl, "border-radius", Corners)
DoPaddingProperty(fontSize, four, decl) == FourValues(fontSize, four, decl, "padding", Sides)
DoMarginProperty(fontSize, four, decl) == FourValues(fontSize, four, decl, "margin", Sides)

\* What a border or outline declaration sets; unset widths are -1.
LineStyles == {"solid", "dotted", "dashed", "double", "groove", "ridge", "inset", "outset"}
NoLine == [width |-> -1, color |-> <<>>]
LineWith(line, term, w, c) ==
  CASE term.t = "ident" /\ term.s \in {"none", "hidden"} -> [line EXCEPT !.width = 0]
    [] term.t = "ident" /\ term.s \in LineStyles -> line
    [] w.r # "not found" -> [line EXCEPT !.width = Or(w, -1)]
    [] w.r = "not found" /\ c.r # "not found" -> [line EXCEPT !.color = Or(c, <<>>)]
    [] OTHER -> line
LineTerm(fontSize, line, term) == LineWith(line, term, LengthFromTermInt(term, fontSize), ColorFromTerm(term))
LineProperty(fontSize, decl, what) ==
  LET one == Len(decl.value) = 1
  IN  CASE what = "" -> FoldLeft(LAMBDA l, t : LineTerm(fontSize, l, t), NoLine, decl.value)
        [] what = "-color" /\ one -> [NoLine EXCEPT !.color = Or(ColorFromTerm(decl.value[1]), <<>>)]
        [] what = "-width" /\ one -> [NoLine EXCEPT !.width = Or(LengthFromTermInt(decl.value[1], fontSize), -1)]
        [] OTHER -> NoLine
Whats == {"", "-color", "-width"}
BorderNames == {"border" \o w : w \in Whats} \cup {"border-" \o s \o w : s \in ToSet(Sides), w \in Whats}
BorderWith(g, name, what, line) ==
  LET On(i) == name \in {"border" \o what, "border-" \o Sides[i] \o what}
  IN  [g EXCEPT !.border_width = [i \in 1..4 |-> IF On(i) /\ line.width # -1 THEN line.width ELSE @[i]],
                !.border_color = [i \in 1..4 |-> IF On(i) /\ line.color # <<>> THEN line.color ELSE @[i]]]
DoBorderProperty(fontSize, g, decl) ==
  LET what == CHOOSE w \in Whats : \E s \in ToSet(Sides) : decl.name \in {"border" \o w, "border-" \o s \o w}
  IN  BorderWith(g, decl.name, what, LineProperty(fontSize, decl, what))
OutlineWith(g, line) ==
  [g EXCEPT !.outline_width = IF line.width # -1 THEN line.width ELSE @,
            !.outline_color = IF line.color # <<>> THEN line.color ELSE @]
DoOutlineProperty(fontSize, g, decl) ==
  OutlineWith(g, LineProperty(fontSize, decl, CHOOSE w \in Whats : decl.name = "outline" \o w))
DoSizeProperty(fontSize, size, term) ==
  IF IsIdent(term, "auto") THEN -1 ELSE Or(LengthFromTermInt(term, fontSize), size)

SizeFields == [x \in {"width", "height", "-st-natural-width", "-st-natural-height", "min-width", "min-height",
                      "max-width", "max-height"} |->
                 CASE x = "width" -> "w" [] x = "height" -> "h" [] x = "-st-natural-width" -> "width"
                   [] x = "-st-natural-height" -> "height" [] x = "min-width" -> "min_width"
                   [] x = "min-height" -> "min_height" [] x = "max-width" -> "max_width" [] OTHER -> "max_height"]
NoGeometry == [border_width |-> <<0, 0, 0, 0>>, border_color |-> [i \in 1..4 |-> TRANSPARENT],
               border_radius |-> <<0, 0, 0, 0>>, outline_width |-> 0, outline_color |-> TRANSPARENT,
               padding |-> <<0, 0, 0, 0>>, margin |-> <<0, 0, 0, 0>>, w |-> -1, h |-> -1,
               width |-> -1, height |-> -1, min_width |-> -1, min_height |-> -1, max_width |-> -1, max_height |-> -1]
GeometryDeclaration(fontSize, g, decl) ==
  CASE decl.name \in {"border-radius"} \cup {"border-radius-" \o c : c \in ToSet(Corners)} ->
         [g EXCEPT !.border_radius = DoBorderRadius(fontSize, @, decl)]
    [] decl.name \in BorderNames -> DoBorderProperty(fontSize, g, decl)
    [] decl.name \in {"outline" \o w : w \in Whats} -> DoOutlineProperty(fontSize, g, decl)
    [] decl.name \in {"padding"} \cup {"padding-" \o s : s \in ToSet(Sides)} ->
         [g EXCEPT !.padding = DoPaddingProperty(fontSize, @, decl)]
    [] decl.name \in {"margin"} \cup {"margin-" \o s : s \in ToSet(Sides)} ->
         [g EXCEPT !.margin = DoMarginProperty(fontSize, @, decl)]
    [] decl.name \in DOMAIN SizeFields ->
         [g EXCEPT ![SizeFields[decl.name]] = DoSizeProperty(fontSize, @, decl.value[1])]
    [] OTHER -> g
\* A width also sets the bounds and the natural width that are not set.
Given(x, size) == IF x = -1 THEN size ELSE x
SizesSettled(g) ==
  LET width == Given(g.width, g.w)
      min_width == Given(g.min_width, g.w)
      height == Given(g.height, g.h)
      min_height == Given(g.min_height, g.h)
  IN  [g EXCEPT !.width = Max({width, min_width}), !.min_width = min_width, !.max_width = Given(@, g.w),
                !.height = Max({height, min_height}), !.min_height = min_height, !.max_height = Given(@, g.h)]
EnsureGeometry(st, n) ==
  SizesSettled(FoldLeft(LAMBDA g, d : GeometryDeclaration(FontSize(st, n), g, d), NoGeometry, st[n]))

---------------------------------------------------------------------------
(* Background and foreground. *)

ResolveUrl(url) == IF url \in Files_ THEN url ELSE ""
NoBackground == [color |-> TRANSPARENT, image |-> "", position |-> <<>>, size |-> "auto", size_wh |-> <<>>,
                 repeat |-> FALSE, gradient |-> "none", gradient_end |-> TRANSPARENT]
RECURSIVE EnsureBackground(_, _)
ParentBackground(st, n) == IF n = Root THEN NoBackground ELSE EnsureBackground(st, n - 1)
InheritBackground(b, parent) == [b EXCEPT !.color = parent.color, !.image = parent.image]
BackgroundTerm(n, parent, b, term, c) ==
  CASE c.r = "found" -> [b EXCEPT !.color = c.v]
    [] c.r = "inherit" -> IF n = Root THEN b ELSE InheritBackground(b, parent)
    [] c.r = "not found" /\ term.t = "uri" -> [b EXCEPT !.image = ResolveUrl(term.s)]
    [] OTHER -> b
\* -1 stands for a size that is not given.
BackgroundSize(b, term, first, second) ==
  CASE IsIdent(term, "contain") \/ IsIdent(term, "cover") -> [b EXCEPT !.size = term.s]
    [] IsIdent(term, "auto") /\ second.r = "found" -> [b EXCEPT !.size = "fixed", !.size_wh = <<-1, second.v>>]
    [] term.t = "number" -> IF first.r = "not found" THEN b
                            ELSE [b EXCEPT !.size = "fixed", !.size_wh = <<first.v, Or(second, -1)>>]
    [] OTHER -> [b EXCEPT !.size = "auto"]
BackgroundPosition(b, x, y) ==
  [b EXCEPT !.position = IF x.r = "not found" \/ y.r = "not found" THEN <<>> ELSE <<x.v, y.v>>]
BackgroundDeclaration(n, fontSize, parent, b, decl, c) ==
  LET term == decl.value[1]
      one == Len(decl.value) = 1
      reset == [b EXCEPT !.color = TRANSPARENT, !.image = "", !.position = <<>>, !.size = "auto"]
      Size(i) == LengthFromTermInt(decl.value[i], fontSize)
  IN  CASE decl.name = "background" ->
             FoldLeft(LAMBDA x, t : BackgroundTerm(n, parent, x, t, ColorFromTerm(t)), reset, decl.value)
        [] decl.name = "background-position" ->
             BackgroundPosition(b, Size(1), Size(2))
        [] decl.name = "background-repeat" -> [b EXCEPT !.repeat = @ \/ IsIdent(term, "repeat")]
        [] decl.name = "background-size" -> BackgroundSize(b, term, Size(1), IF one \/ decl.value[2].t # "number" THEN NotFound ELSE Size(2))
        [] decl.name = "background-color" /\ one ->
             [b EXCEPT !.color = IF c.r = "inherit" /\ n # Root THEN parent.color ELSE Or(c, @)]
        [] decl.name = "background-image" /\ one ->
             [b EXCEPT !.image = CASE term.t = "uri" -> ResolveUrl(term.s)
                                   [] IsIdent(term, "inherit") -> parent.image
                                   [] IsIdent(term, "none") -> ""
                                   [] OTHER -> @]
        [] decl.name = "background-gradient-direction" ->
             IF term.s \in {"vertical", "horizontal", "radial", "none"} THEN [b EXCEPT !.gradient = term.s] ELSE b
        [] decl.name = "background-gradient-start" -> [b EXCEPT !.color = Or(c, @)]
        [] decl.name = "background-gradient-end" -> [b EXCEPT !.gradient_end = Or(c, @)]
        [] OTHER -> b
EnsureBackground(st, n) ==
  FoldLeft(LAMBDA b, d : BackgroundDeclaration(n, FontSize(st, n), ParentBackground(st, n), b, d, ColorFromTerm(d.value[1])),
           NoBackground, st[n])

\* st_theme_node_get_foreground_color()
LastIndex(s, Test(_)) == LET is == {i \in DOMAIN s : Test(s[i])} IN IF is = {} THEN 0 ELSE Max(is)
LastUsable(values) ==
  LET is == {i \in DOMAIN values : values[i].r # "not found"} IN IF is = {} THEN NotFound ELSE values[Max(is)]
ColorHere(decls, name) ==
  LastUsable([i \in DOMAIN decls |-> IF decls[i].name = name THEN ColorFromTerm(decls[i].value[1]) ELSE NotFound])
RECURSIVE ForegroundColor(_, _)
ForegroundColor(st, n) ==
  Or(ColorHere(st[n], "color"), IF n = Root THEN BLACK ELSE ForegroundColor(st, n - 1))

---------------------------------------------------------------------------
(* Shadows, and the lookups of a property by name. *)

\* parse_shadow_property(): offsets, blur and spread by position, a colour
\* and "inset" anywhere; only the offsets heed a minus sign.
NoShadow == [none |-> TRUE, color |-> BLACK, lengths |-> <<>>, inset |-> FALSE]
RECURSIVE ShadowTerms(_, _, _)
ShadowLength(s, term, l) ==
  IF Len(s.lengths) >= 4 THEN s
  ELSE [s EXCEPT !.lengths = Append(@, IF term.neg /\ Len(s.lengths) < 2 THEN -l ELSE l)]
ShadowWith(fontSize, terms, s, l, c) ==
  LET term == Head(terms)
      inset == IsIdent(term, "inset")
  IN  IF IsIdent(term, "none") THEN Found(NoShadow)
      ELSE IF l.r # "found" /\ ~inset /\ c.r = "inherit" THEN IF s.lengths = <<>> THEN Inherit ELSE NotFound
      ELSE ShadowTerms(fontSize, Tail(terms),
                       CASE l.r = "found" -> ShadowLength(s, term, l.v)
                         [] l.r # "found" /\ inset -> [s EXCEPT !.inset = TRUE]
                         [] OTHER -> [s EXCEPT !.color = Or(c, @)])
ShadowTerms(fontSize, terms, s) ==
  IF terms = <<>> THEN IF Len(s.lengths) >= 2 THEN Found(s) ELSE NotFound
  ELSE ShadowWith(fontSize, terms, s, LengthFromTerm(Head(terms), fontSize), ColorFromTerm(Head(terms)))
ParseShadowProperty(fontSize, decl) == ShadowTerms(fontSize, decl.value, [NoShadow EXCEPT !.none = FALSE])

\* What a declaration gives for each kind of lookup.
TimeFromTerm(term) ==
  CASE term.t = "number" /\ term.unit = "s" -> Found(term.n * 1000)
    [] term.t = "number" /\ term.unit = "ms" -> Found(term.n)
    [] OTHER -> NotFound
Value(kind, fontSize, decl) ==
  CASE kind = "color" -> ColorFromTerm(decl.value[1])
    [] kind = "time" -> TimeFromTerm(decl.value[1])
    [] kind = "length" -> LengthFromTerm(decl.value[1], fontSize)
    [] kind = "shadow" -> ParseShadowProperty(fontSize, decl)
\* From the last declaration back, those that cannot be used skipped.  An
\* "inherit" asks the parent, once for colours and shadows, all the way up for
\* lengths.
RECURSIVE Lookup(_, _, _, _, _)
LookupFrom(kind, st, n, name, inherit, v) ==
  LET up == inherit \/ v.r = "inherit"
  IN  IF v.r = "found" THEN v
      ELSE IF up /\ n # Root THEN Lookup(kind, st, n - 1, name, inherit \/ (kind = "length" /\ up))
      ELSE NotFound
Lookup(kind, st, n, name, inherit) ==
  LookupFrom(kind, st, n, name, inherit,
             LastUsable([i \in DOMAIN st[n] |-> IF st[n][i].name = name THEN Value(kind, FontSize(st, n), st[n][i]) ELSE NotFound]))
LookupColor(st, n, name, inherit) == Lookup("color", st, n, name, inherit)
LookupTime(st, n, name, inherit) == Lookup("time", st, n, name, inherit)
LookupLength(st, n, name, inherit) == Lookup("length", st, n, name, inherit)
NotNone(s) == IF s.r = "found" /\ s.v.none THEN NotFound ELSE s
LookupShadow(st, n, name, inherit) == NotNone(Lookup("shadow", st, n, name, inherit))
NotInset(s) == IF s.inset THEN NoShadow ELSE s

GetLength(st, n, name) == Or(LookupLength(st, n, name, FALSE), 0)
LetterSpacing(st, n) == GetLength(st, n, "letter-spacing")
TransitionDuration(st, n, factor) == factor * Or(LookupTime(st, n, "transition-duration", FALSE), 0)
BoxShadow(st, n) == Or(LookupShadow(st, n, "box-shadow", FALSE), NoShadow)
BackgroundImageShadow(st, n) ==
  NotInset(Or(LookupShadow(st, n, "-st-background-image-shadow", FALSE), NoShadow))
RECURSIVE TextShadow(_, _)
TextShadow(st, n) ==
  NotInset(Or(LookupShadow(st, n, "text-shadow", FALSE), IF n = Root THEN NoShadow ELSE TextShadow(st, n - 1)))

\* The words of a declaration up to the first that is not one of `words`.
RECURSIVE IconStyle(_, _)
IconStyle(st, n) ==
  LET Words(d) == {i \in DOMAIN d.value : /\ d.value[i].t = "ident"
                                          /\ d.value[i].s \in {"requested", "regular", "symbolic"}
                                          /\ \A j \in 1..i : d.value[j].t = "ident"}
      i == LastIndex(st[n], LAMBDA d : d.name = "-st-icon-style" /\ Words(d) # {})
  IN  IF i # 0 THEN st[n][i].value[Min(Words(st[n][i]))].s
      ELSE IF n # Root THEN IconStyle(st, n - 1) ELSE "requested"
\* st_theme_node_get_text_decoration(): "none" and "inherit" end a declaration
\* at once; "inherit" at the root is passed over.
Decorations == {"underline", "overline", "line-through", "blink"}
RECURSIVE TextDecoration(_, _)
TextDecoration(st, n) ==
  LET Ends(d) == {i \in DOMAIN d.value : IsIdent(d.value[i], "none") \/ (IsIdent(d.value[i], "inherit") /\ n # Root)}
      Cut(d) == IF Ends(d) = {} THEN Len(d.value) ELSE Min(Ends(d))
      Good(d) == \A i \in 1..Cut(d) : d.value[i].t = "ident" /\ d.value[i].s \in Decorations \cup {"none", "inherit"}
      k == LastIndex(st[n], LAMBDA d : d.name = "text-decoration" /\ Good(d))
      d == st[n][k]
  IN  IF k = 0 THEN {}
      ELSE IF Ends(d) = {} THEN {d.value[i].s : i \in DOMAIN d.value} \cap Decorations
      ELSE IF d.value[Cut(d)].s = "none" THEN {} ELSE TextDecoration(st, n - 1)
RECURSIVE TextAlign(_, _)
TextAlign(st, n) ==
  LET k == LastIndex(st[n], LAMBDA d : /\ d.name = "text-align" /\ Len(d.value) = 1 /\ d.value[1].t = "ident"
                                       /\ d.value[1].s \in {"inherit", "left", "right", "center", "justify"})
      word == st[n][k].value[1].s
  IN  IF k # 0 /\ word # "inherit" THEN word ELSE IF n # Root THEN TextAlign(st, n - 1) ELSE "left"
RECURSIVE FontFeatures(_, _)
FontFeatures(st, n) ==
  LET k == LastIndex(st[n], LAMBDA d : d.name = "font-feature-settings")
      value == st[n][k].value
  IN  IF k # 0 /\ value # <<Ident("inherit")>> THEN IF value = <<Ident("normal")>> THEN <<>> ELSE value
      ELSE IF n = Root THEN <<>> ELSE FontFeatures(st, n - 1)

\* st_theme_node_get_border_image(): [file, the four borders in pixels].
NoImage == [file |-> "", borders |-> <<0, 0, 0, 0>>]
BorderImage(st, n) ==
  LET Usable(d) == \/ d.value = <<Ident("none")>>
                   \/ /\ d.value[1].t = "uri" /\ ResolveUrl(d.value[1].s) # ""
                      /\ \A i \in 2..Min({5, Len(d.value)}) : d.value[i].t = "number" /\ d.value[i].unit = ""
      k == LastIndex(st[n], LAMBDA d : d.name = "border-image" /\ Usable(d))
      d == st[n][k]
      count == Min({4, Len(d.value) - 1})
  IN  IF k = 0 \/ d.value = <<Ident("none")>> THEN NoImage
      ELSE [file |-> d.value[1].s,
            borders |-> [i \in 1..4 |-> IF count = 0 THEN 0 ELSE d.value[1 + ValueFor(count, i)].n * ScaleFactor]]

\* st_theme_node_get_icon_colors(): the parent's, with those that are said here.
IconColorNames == [foreground |-> "color", warning |-> "warning-color", error |-> "error-color",
                   success |-> "success-color"]
DefaultIconColors == [foreground |-> BLACK, warning |-> <<245, 121, 62, 255>>, error |-> <<204, 0, 0, 255>>,
                      success |-> <<78, 154, 6, 255>>]
RECURSIVE IconColors(_, _)
IconColorsOver(st, n, inherited) ==
  [f \in DOMAIN IconColorNames |-> Or(ColorHere(st[n], IconColorNames[f]), inherited[f])]
IconColors(st, n) == IconColorsOver(st, n, IF n = Root THEN DefaultIconColors ELSE IconColors(st, n - 1))

---------------------------------------------------------------------------
(* Sizes and boxes.  Geometry is in whole pixels, shadows in thousandths.  *)

WidthInc(g) == g.border_width[4] + g.padding[4] + g.border_width[2] + g.padding[2]
HeightInc(g) == g.border_width[1] + g.padding[1] + g.border_width[3] + g.padding[3]
\* st_theme_node_adjust_for_width/height(): -1 stands for no constraint.
AdjustForWidth(g, width) == IF width >= 0 THEN Max({0, width - WidthInc(g)}) ELSE width
AdjustForHeight(g, height) == IF height >= 0 THEN Max({0, height - HeightInc(g)}) ELSE height
Adjusted(min, natural, nodeMin, nodeSize, nodeMax, inc) ==
  LET bigger == IF nodeSize # -1 THEN Max({natural, nodeSize}) ELSE natural
  IN  [min |-> (IF nodeMin # -1 THEN nodeMin ELSE min) + inc,
       natural |-> (IF nodeMax # -1 THEN Min({bigger, nodeMax}) ELSE bigger) + inc]
AdjustPreferredWidth(g, min, natural) == Adjusted(min, natural, g.min_width, g.width, g.max_width, WidthInc(g))
AdjustPreferredHeight(g, min, natural) == Adjusted(min, natural, g.min_height, g.height, g.max_height, HeightInc(g))
ContentBox(g, w, h) ==
  LET left == g.border_width[4] + g.padding[4]
      top == g.border_width[1] + g.padding[1]
  IN  [x1 |-> left, y1 |-> top, x2 |-> left + Max({0, w - WidthInc(g)}), y2 |-> top + Max({0, h - HeightInc(g)})]

Box(x1, y1, x2, y2) == [x1 |-> x1, y1 |-> y1, x2 |-> x2, y2 |-> y2]
Length(s, i) == IF Len(s.lengths) >= i THEN s.lengths[i] ELSE 0
\* st_shadow_get_box(): an inset shadow stays inside.
ShadowBox(s, box) ==
  LET grow == Length(s, 3) + Length(s, 4)
  IN  IF s.inset THEN box
      ELSE Box(box.x1 + Length(s, 1) - grow, box.y1 + Length(s, 2) - grow,
               box.x2 + Length(s, 1) + grow, box.y2 + Length(s, 2) + grow)
Around(a, b) == Box(Min({a.x1, b.x1}), Min({a.y1, b.y1}), Max({a.x2, b.x2}), Max({a.y2, b.y2}))
WithShadow(inner, s, box) == IF s.none THEN inner ELSE Around(inner, ShadowBox(s, box))
BackgroundPaintBox(st, n, box) == WithShadow(box, BackgroundImageShadow(st, n), box)
Widened(b, o) == Box(b.x1 - o, b.y1 - o, b.x2 + o, b.y2 + o)
PaintBox(st, n, g, box) ==
  WithShadow(Widened(BackgroundPaintBox(st, n, box), g.outline_width * Milli), BoxShadow(st, n), box)

GeometryEqual(g, h) ==
  /\ g.border_width = h.border_width /\ g.padding = h.padding /\ g.width = h.width /\ g.height = h.height
  /\ g.min_width = h.min_width /\ g.min_height = h.min_height
  /\ g.max_width = h.max_width /\ g.max_height = h.max_height
BackgroundsPaintEqual(b, c) ==
  /\ b.color = c.color /\ b.gradient = c.gradient
  /\ b.gradient # "none" => b.gradient_end = c.gradient_end
  /\ b.image # "" /\ c.image # "" => b.image = c.image
LinesPaintEqual(g, h) ==
  /\ \A i \in 1..4 : /\ g.border_width[i] = h.border_width[i] /\ g.border_radius[i] = h.border_radius[i]
                     /\ g.border_width[i] > 0 => g.border_color[i] = h.border_color[i]
  /\ g.outline_width = h.outline_width
  /\ g.outline_width > 0 => g.outline_color = h.outline_color
\* A node's backgrounds, image and shadows, and its geometry g.
Painting(st, n, g) == [background |-> EnsureBackground(st, n), lines |-> g,
                       rest |-> <<BorderImage(st, n), BoxShadow(st, n), BackgroundImageShadow(st, n)>>]
PaintsEqual(p, q) ==
  BackgroundsPaintEqual(p.background, q.background) /\ LinesPaintEqual(p.lines, q.lines) /\ p.rest = q.rest
PaintEqual(n, m, paintings) == n = m \/ PaintsEqual(paintings[n], paintings[m])

---------------------------------------------------------------------------
(* What CSS says of a side's padding: the last declaration that names it   *)
(* and has a length for it; those that cannot be read do not count.        *)
PaddingTerm(decl, i) ==
  IF decl.name = "padding" THEN decl.value[ValueFor(Len(decl.value), i)] ELSE decl.value[1]
Says(fontSize, decl, i) ==
  /\ \/ decl.name = "padding" /\ Len(decl.value) <= 4
     \/ decl.name = "padding-" \o Sides[i] /\ Len(decl.value) = 1
  /\ LengthFromTermInt(PaddingTerm(decl, i), fontSize).r = "found"
LastSaid(fontSize, decls) ==
  LET Terms(i) == SelectSeq(decls, LAMBDA d : Says(fontSize, d, i))
      Value_(i, said) == IF said = <<>> THEN 0 ELSE LengthFromTermInt(PaddingTerm(said[Len(said)], i), fontSize).v
  IN  [i \in 1..4 |-> Value_(i, Terms(i))]
\* The boxes the node paints: the actor, its outline, its shadows.
PaintedBoxes(st, n, g, box) ==
  {box, Widened(box, g.outline_width * Milli)}
  \cup {ShadowBox(s, box) : s \in {x \in {BoxShadow(st, n), BackgroundImageShadow(st, n)} : ~x.none}}
\* What is answered about colours and about text.
Colors(st, n) == [fg |-> ForegroundColor(st, n), icon |-> IconColors(st, n), bg |-> EnsureBackground(st, n),
                  border |-> BorderImage(st, n)]
Text(st, n) == [font |-> GetFont(st, n), features |-> FontFeatures(st, n), align |-> TextAlign(st, n),
                decoration |-> TextDecoration(st, n), shadow |-> TextShadow(st, n), spacing |-> LetterSpacing(st, n),
                icon |-> IconStyle(st, n), duration |-> TransitionDuration(st, n, 1)]

-----------------------------------------------------------------------------
CONSTANTS
  Depth,         \* how many nodes the tree has, from the root down
  NodeStyles,    \* the styles to look at: node -> its declarations
  Allocations    \* sizes an actor may be given

TreeNodes == 1..Depth

---------------------------------------------------------------------------
(* Questions.  Almost every one computes what it needs first; those about  *)
(* the room for a given height or width take the geometry as it stands.    *)

VARIABLES
  style,      \* the declarations of each node
  geometry,   \* node -> its geometry, all zero until it is computed
  reply       \* the last question and what it was answered
nodeVars == <<style, geometry, reply>>

NoReply == [NoGeometry EXCEPT !.w = 0, !.h = 0, !.width = 0, !.height = 0, !.min_width = 0, !.min_height = 0,
                            !.max_width = 0, !.max_height = 0]
Known(n) == geometry[n] # NoReply
Geometry(n) == IF Known(n) THEN geometry[n] ELSE EnsureGeometry(style, n)
NoAnswer == [q |-> "none", n |-> Root, arg |-> 0, v |-> [none |-> 0]]
Reply(q, n, arg, v) == reply = NoAnswer /\ reply' = [q |-> q, n |-> n, arg |-> arg, v |-> v]
Compute(ns) == geometry' = [n \in TreeNodes |-> IF n \in ns THEN Geometry(n) ELSE geometry[n]]

NodeInit == /\ style \in NodeStyles
            /\ geometry = [n \in TreeNodes |-> NoReply]
            /\ reply = NoAnswer
GetGeometry(n) == /\ Compute({n}) /\ Reply("geometry", n, 0, geometry'[n])
                  /\ UNCHANGED style
AskForWidth(n, w) == /\ Reply("for-width", n, w, [size |-> AdjustForWidth(geometry[n], w)])
                     /\ UNCHANGED <<style, geometry>>
AskForHeight(n, h) == /\ Reply("for-height", n, h, [size |-> AdjustForHeight(geometry[n], h)])
                      /\ UNCHANGED <<style, geometry>>
AskPreferredWidth(n, w) ==
  /\ Compute({n}) /\ Reply("width", n, w, AdjustPreferredWidth(geometry'[n], w, w))
  /\ UNCHANGED style
AskPreferredHeight(n, h) ==
  /\ Compute({n}) /\ Reply("height", n, h, AdjustPreferredHeight(geometry'[n], h, h))
  /\ UNCHANGED style
AskContentBox(n, w) == /\ Compute({n}) /\ Reply("content", n, w, ContentBox(geometry'[n], w, w))
                       /\ UNCHANGED style
AskPaintBox(n, w) ==
  /\ Compute({n}) /\ Reply("paint", n, w, PaintBox(style, n, geometry'[n], Box(0, 0, w * Milli, w * Milli)))
  /\ UNCHANGED style
AskPaintEqual(n, m) ==
  /\ Compute({n, m})
  /\ Reply("paint equal", n, m,
           [equal |-> PaintEqual(n, m, [x \in {n, m} |-> Painting(style, x, geometry'[x])])])
  /\ UNCHANGED style
AskGeometryEqual(n, m) ==
  /\ Compute({n, m})
  /\ Reply("geometry equal", n, m, [equal |-> n = m \/ GeometryEqual(geometry'[n], geometry'[m])])
  /\ UNCHANGED style
\* The style questions that keep nothing of the geometry.
AskColors(n) == Reply("colors", n, 0, Colors(style, n)) /\ UNCHANGED <<style, geometry>>
AskText(n) == Reply("text", n, 0, Text(style, n)) /\ UNCHANGED <<style, geometry>>

\* Whoever asked has taken the answer.
TakeAnswer == reply # NoAnswer /\ reply' = NoAnswer /\ UNCHANGED <<style, geometry>>

NodeNext == TakeAnswer \/ \E n \in TreeNodes :
  \/ GetGeometry(n) \/ AskColors(n) \/ AskText(n)
  \/ \E w \in Allocations : \/ AskForWidth(n, w) \/ AskForHeight(n, w) \/ AskContentBox(n, w)
                            \/ AskPreferredWidth(n, w) \/ AskPreferredHeight(n, w) \/ AskPaintBox(n, w)
  \/ \E m \in TreeNodes : AskPaintEqual(n, m) \/ AskGeometryEqual(n, m)
NodeSpec == NodeInit /\ [][NodeNext]_nodeVars

---------------------------------------------------------------------------
(* Properties. *)

\* The padding of every side is what the last declaration about it says,
\* whichever mix of shorthands and single sides came before.
PaddingIsLastSaid == reply.q = "geometry" => reply.v.padding = LastSaid(FontSize(style, reply.n), style[reply.n])

\* The colour text is painted in is the one symbolic icons are painted in
\* and the one a lookup of "color" gives: three different walks over the
\* declarations.
ForegroundsAgree ==
  reply.q = "colors" => /\ reply.v.fg = reply.v.icon.foreground
                        /\ reply.v.fg = Or(LookupColor(style, reply.n, "color", TRUE), BLACK)

\* Lengths of the geometry are whole logical pixels, so that boxes stay on
\* the pixel grid at every scale factor.
OnTheGrid == \A n \in TreeNodes : \A i \in 1..4 :
               /\ geometry[n].border_width[i] % ScaleFactor = 0 /\ geometry[n].padding[i] % ScaleFactor = 0
               /\ geometry[n].margin[i] % ScaleFactor = 0

\* The room for content that is asked for is the room that is given: a child
\* measured for AdjustForWidth() is allocated a box of that width.  True once
\* the geometry is known.
RoomIsContent ==
  reply.q \in {"for-width", "for-height"} /\ Known(reply.n) /\ reply.arg >= 0 =>
    LET box == ContentBox(geometry[reply.n], reply.arg, reply.arg)
    IN  reply.v.size = IF reply.q = "for-width" THEN box.x2 - box.x1 ELSE box.y2 - box.y1
\* "the minimum width reported by get_preferred_width() is always not greater
\* than the natural width", where no maximum is below the minimum.
MaximumIsRoomy(g, q, w) ==
  IF q = "width" THEN g.max_width = -1 \/ g.max_width >= Max({g.min_width, IF g.min_width = -1 THEN w ELSE 0})
  ELSE g.max_height = -1 \/ g.max_height >= Max({g.min_height, IF g.min_height = -1 THEN w ELSE 0})
MinimumFits == reply.q \in {"width", "height"} /\ MaximumIsRoomy(geometry[reply.n], reply.q, reply.arg)
                 => reply.v.min <= reply.v.natural

\* Nothing is painted outside the paint box: it holds the actor, its outline
\* and both its shadows.
Inside(a, b) == b.x1 <= a.x1 /\ b.y1 <= a.y1 /\ a.x2 <= b.x2 /\ a.y2 <= b.y2
PaintsInside ==
  reply.q = "paint" => \A box \in PaintedBoxes(style, reply.n, geometry[reply.n], Box(0, 0, reply.arg * Milli, reply.arg * Milli)) :
                         Inside(box, reply.v)

\* Whatever a node is asked and in whichever order, its answers fit together.
AnswersAgree ==
  PaddingIsLastSaid /\ ForegroundsAgree /\ OnTheGrid /\ RoomIsContent /\ MinimumFits /\ PaintsInside
=============================================================================
