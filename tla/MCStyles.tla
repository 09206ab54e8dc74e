------------------------------ MODULE MCStyles ------------------------------
(***************************************************************************)
(* The styles of the toolkit in small: texts for the tokenizer, sheets for *)
(* the parser and its document handlers, a theme and its sheets, and the   *)
(* declarations theme nodes read.  MCWidgets runs them with the widgets.   *)
(***************************************************************************)
EXTENDS CssOm, CssTokenizer, StTheme, StThemeNode

K(t) == Mark(t)
I(v) == Tok("IDENT", v)
Sp == Tok("S", " ")
Colon == Char(":")
DeclP == <<I("p"), Colon, Tok("NUM", "1")>>
RuleA == <<I("a"), Sp, K("{")>> \o DeclP \o <<K("}")>>

\* Pieces of style sheets, whole and broken.
Pieces == {
  RuleA,
  \* a, b>c.x:hover { p: 1/f(x,y) !important; q: "s" url(u) }
  <<I("a"), Char(","), Sp, I("b"), Char(">"), I("c"), Char("."), I("x"), Colon, I("hover"), K("{")>>
    \o DeclP \o <<Char("/"), Tok("FUNCTION", "f"), I("x"), Char(","), I("y"), K(")"), K("IMPORTANT"), K(";"),
    I("q"), Colon, Tok("STRING", "s"), Sp, Tok("URI", "u"), K("}")>>,
  \* .x .y { } and a[h=v][k] { p: -1; }
  <<Char("."), I("x"), Sp, Char("."), I("y"), K("{"), K("}")>>,
  <<I("a"), K("["), I("h"), Char("="), I("v"), K("]"), K("["), I("k"), K("]"), K("{"),
    I("p"), Colon, Char("-"), Tok("NUM", "1"), K(";"), K("}")>>,
  \* a { p } and a { p: 1 without an end
  <<I("a"), K("{"), I("p"), K("}")>>,
  <<I("a"), K("{")>> \o DeclP,
  \* @media s, t { rule }, one that breaks and one that breaks off
  <<K("MEDIA"), Sp, I("s"), Char(","), I("t"), K("{")>> \o RuleA \o <<K("}")>>,
  <<K("MEDIA"), Sp, I("s"), K("{")>> \o RuleA \o <<K("DELIM"), K("}")>>,
  <<K("MEDIA"), Sp, I("s"), K("{"), K("}")>>,
  <<K("PAGE"), Sp, I("n"), Colon, I("first"), K("{")>> \o DeclP \o <<K("}")>>,
  <<K("PAGE"), K("{"), K(";")>> \o DeclP \o <<K("}")>>,
  <<K("FONT_FACE"), K("{")>> \o DeclP \o <<K("IMPORTANT"), K("}")>>,
  <<K("FONT_FACE"), K("{"), K("}")>>,
  <<K("IMPORT"), Tok("STRING", "u"), Sp, I("s"), Char(","), I("t"), K(";")>>,
  <<K("IMPORT"), Tok("URI", "u"), K(";")>>,
  <<K("IMPORT"), I("s"), K(";")>>,
  <<K("CHARSET"), Sp, Tok("STRING", "u"), K(";")>>,
  <<K("CHARSET"), K(";")>>,
  <<K("ATKEYWORD"), K("("), I("a"), K(")"), K("{"), I("x"), K("{"), K("}"), K("}")>>,
  <<K("CDO")>>, <<K("COMMENT")>>, <<Sp>>, <<K("}")>> }

MCSheetTexts == Pieces \cup {a \o b : a, b \in Pieces}
                \cup {a \o b \o c : a \in {RuleA, <<K("CDO")>>}, b, c \in Pieces}

---------------------------------------------------------------------------
(* Texts for the tokenizer: up to three fragments in a row. *)
Fragments == {
  <<"u","r","l","(">>, <<"r","g","b","(","1",",","1",",","1">>, <<"\"">>, <<"'">>, <<"\\">>, <<"\\","a">>,
  <<" ">>, <<"\n">>, <<"a">>, <<"1">>, <<".">>, <<"-">>, <<"-","-",">">>, <<"<","!","-","-">>, <<"p","x">>, <<"%">>,
  <<"@","m","e","d","i","a">>, <<"@","a">>, <<"!","i","m","p","o","r","t","a","n","t">>, <<"!">>,
  <<"/","*">>, <<"*","/">>, <<"#">>, <<"(">>, <<")">>, <<"{">>, <<"}">>, <<"[">>, <<"]">>, <<";">>, <<"~","=">>, <<"|","=">>, <<"NA">> }
\* What opens something, another fragment, and what closes it.
Pairs == {<<<<"u","r","l","(">>, <<")">>>>, <<<<"\"">>, <<"\"">>>>, <<<<"\\">>, <<"\"">>>>,
          <<<<"/","*">>, <<"*","/">>>>, <<<<"-">>, <<")">>>>}
MCTexts == Fragments \cup {a \o b : a, b \in Fragments} \cup {p[1] \o b \o p[2] : p \in Pairs, b \in Fragments}

---------------------------------------------------------------------------
(* A theme: three origins, one of which imports a sheet, two sheets to load *)
(* and an unreadable one.                                                  *)
El(types, id, classes, pseudo) == [types |-> types, id |-> id, classes |-> classes, pseudo |-> pseudo]
Sel(comb, name, add) == [name |-> name, comb |-> comb, add |-> add]
Cond(k, name) == [k |-> k, name |-> name, match |-> "", value |-> ""]
Rule(sel, decls) == [k |-> "ruleset", name |-> <<>>, sel |-> sel, decls |-> decls]
Imp(f) == [k |-> "import", name |-> <<f>>, sel |-> <<>>, decls |-> <<>>]
Gives(n, imp) == [name |-> n, important |-> imp]
MCFiles == {"ua", "th", "app", "x1", "x2", "imp", "bad"}
A == <<Sel("", "A", <<>>)>>
MCBaseFiles == <<"ua", "th", "app">>
MCContent == [f \in MCFiles |->
  CASE f = "ua" -> <<Rule(<<A>>, <<Gives("p", TRUE)>>), Rule(<<<<Sel("", "*", <<>>), Sel(" ", "A", <<Cond("id", "i")>>)>>>>, <<Gives("p", FALSE)>>)>>
    [] f = "app" -> <<Imp("imp"), Rule(<<<<Sel("", "A", <<>>), Sel(" ", "B", <<>>), Sel(">", "A", <<>>)>>, <<Sel("", "B", <<Cond("class", "c")>>)>>>>, <<Gives("p", FALSE), Gives("q", FALSE)>>), Imp("bad")>>
    [] f = "imp" -> <<Rule(<<<<Sel("", "", <<Cond("pseudo", "hover")>>)>>>>, <<Gives("p", FALSE)>>)>>
    [] f = "x1" -> <<Rule(<<<<Sel("", "A", <<>>), Sel(">", "B", <<>>)>>, A>>, <<Gives("p", FALSE)>>)>>
    [] f = "x2" -> <<Imp("imp"), Rule(<<<<Sel("", "A", <<>>), Sel(" ", "B", <<>>), Sel(" ", "", <<Cond("class", "c")>>)>>, A>>, <<Gives("p", FALSE)>>)>>
    [] OTHER -> NoContent]
ElA == El({"A", "W"}, "", {"c"}, {})
ElB == El({"B", "W"}, "", {}, {})
ElAB == El({"A", "B", "W"}, "i", {}, {"hover"})
MCNodes == {<<ElA>>, <<ElA, ElB>>, <<ElAB, ElA>>, <<ElA, ElB, ElA>>, <<ElB, ElAB, ElAB>>, <<ElAB, ElAB, ElA>>}

---------------------------------------------------------------------------
(* Declarations a theme node reads. *)
Px(n) == Number(n, "px")
MCFont == [family |-> <<<<"", "Sans">>>>, size |-> 11000, absolute |-> FALSE, weight |-> 400, style |-> "normal", variant |-> "normal"]
MCNamedColors == [red |-> <<255, 0, 0, 255>>, gray |-> <<128, 128, 128, 255>>, fff |-> <<255, 255, 255, 255>>]
MCAccent == <<53, 132, 228, 255>>
MCAccentFg == <<255, 255, 255, 255>>
MCLuminance(c, d) == [i \in 1..4 |-> IF i = 4 THEN c[4] ELSE Clamp(c[i] + (d * 255) \div 100, 0, 255)]
Rgba(a, b, c, d) == Function_("rgba", <<Number(a, ""), Comma(Number(b, "")), Comma(Number(c, "")), Comma(Number(d, ""))>>)
Neg(t) == [t EXCEPT !.neg = TRUE]
\* Declarations in groups that speak of the same things.
BoxDecls == {Decl("padding", <<Px(1), Px(2)>>), Decl("padding", <<Px(3), Ident("x"), Number(1, "em")>>),
             Decl("padding-left", <<Number(2, "pt")>>), Decl("padding", <<Px(1), Px(2), Px(3), Px(4)>>),
             Decl("margin", <<Px(2), Px(1), Px(0)>>), Decl("margin-top", <<Number(1, "ex")>>),
             Decl("border", <<Px(1), Ident("solid"), Ident("red")>>), Decl("border-left", <<Ident("none"), Ident("inherit")>>),
             Decl("border-top-width", <<Number(3, "mm")>>), Decl("border-color", <<Ident("-st-accent-color")>>),
             Decl("border-radius", <<Px(4), Number(0, "")>>), Decl("border-radius-topleft", <<Px(1)>>),
             Decl("outline", <<Px(2), Ident("dashed"), Rgba(255, 0, 0, 1)>>), Decl("outline-width", <<Number(5, "%")>>),
             Decl("outline-color", <<Function_("st-mix", <<Ident("red"), Comma(Ident("transparent")), Comma(Number(50, "%"))>>)>>)}
SizeDecls == {Decl("width", <<Px(10)>>), Decl("height", <<Px(3)>>), Decl("min-width", <<Px(20)>>), Decl("min-height", <<Ident("auto")>>),
              Decl("max-width", <<Px(15)>>), Decl("max-height", <<Px(5)>>), Decl("-st-natural-width", <<Px(12)>>), Decl("-st-natural-height", <<Px(4)>>),
              Decl("padding-right", <<Px(1)>>)}
ColorDecls == {Decl("color", <<Ident("red")>>), Decl("color", <<Ident("inherit")>>), Decl("color", <<Px(1)>>),
               Decl("warning-color", <<Function_("st-darken", <<Ident("gray"), Comma(Number(10, "%"))>>)>>),
               Decl("error-color", <<Function_("st-transparentize", <<Ident("-st-accent-fg-color"), Comma(Number(40, "%"))>>)>>),
               Decl("success-color", <<Function_("st-lighten", <<CssTerm("hash", "fff", 0, ""), Comma(Number(0, ""))>>)>>),
               Decl("background", <<Uri("f"), Ident("gray")>>), Decl("background", <<Ident("inherit")>>), Decl("background-color", <<Ident("inherit")>>),
               Decl("background-color", <<[CssTerm("rgb", "", 0, "") EXCEPT !.args = <<Number(50, "%"), Number(0, "%"), Number(100, "%")>>]>>),
               Decl("background-image", <<Uri("g")>>), Decl("background-image", <<Ident("inherit")>>), Decl("background-image", <<Ident("none")>>),
               Decl("background-size", <<Ident("auto"), Px(3)>>), Decl("background-size", <<Px(3), Ident("auto")>>), Decl("background-size", <<Ident("cover")>>),
               Decl("background-position", <<Px(1), Px(2)>>), Decl("background-repeat", <<Ident("repeat")>>),
               Decl("background-gradient-direction", <<Ident("radial")>>), Decl("background-gradient-start", <<Ident("red")>>), Decl("background-gradient-end", <<Ident("gray")>>),
               Decl("border-image", <<Uri("f"), Number(1, ""), Number(2, "")>>), Decl("border-image", <<Ident("none")>>)}
ShadowDecls == {Decl("box-shadow", <<Px(1), Neg(Px(2)), Px(3)>>), Decl("box-shadow", <<Ident("inset"), Px(1), Px(1), Ident("red")>>), Decl("box-shadow", <<Ident("none")>>),
                Decl("-st-background-image-shadow", <<Neg(Px(5)), Px(0), Px(1), Px(2), Px(3)>>), Decl("box-shadow", <<Ident("inherit")>>), Decl("outline", <<Px(1)>>),
                Decl("text-shadow", <<Px(1), Px(1)>>), Decl("text-shadow", <<Ident("none")>>), Decl("text-shadow", <<Px(1), Ident("inherit")>>)}
TextDecls == {Decl("font", <<Ident("italic"), Ident("bold"), Px(9), [Ident("Mono") EXCEPT !.op = ""]>>), Decl("font-size", <<Ident("smaller")>>), Decl("font-size", <<Ident("x-large")>>), Decl("font-size", <<Ident("larger")>>),
              Decl("font-size", <<Number(150, "%")>>), Decl("font-weight", <<Ident("bolder")>>), Decl("font-weight", <<Ident("lighter")>>), Decl("font-weight", <<Number(300, "")>>),
              Decl("font-family", <<Ident("Cantarell"), Comma(Ident("Mono"))>>), Decl("font-family", <<Px(1)>>), Decl("font-style", <<Ident("oblique")>>), Decl("font-variant", <<Ident("small-caps")>>),
              Decl("font-feature-settings", <<CssTerm("string", "tnum", 0, "")>>), Decl("font-feature-settings", <<Ident("inherit")>>),
              Decl("text-align", <<Ident("center")>>), Decl("text-align", <<Ident("inherit")>>), Decl("text-decoration", <<Ident("underline"), Ident("blink")>>), Decl("text-decoration", <<Ident("inherit")>>),
              Decl("letter-spacing", <<Number(1, "em")>>), Decl("transition-duration", <<Number(2, "s")>>), Decl("transition-duration", <<Number(7, "ms")>>), Decl("-st-icon-style", <<Ident("regular")>>)}
\* Every declaration alone, after another one, and under a parent.
Alone(D, first) == {<<<<d>>, <<>>>> : d \in D} \cup {<<<<d, e>>, <<>>>> : d \in first, e \in D}
Under(D, parents) == {<<<<d>>, <<e>>>> : d \in parents, e \in D}
Named(D, names) == {d \in D : d.name \in names}
Undeclared == <<<<>>, <<>>>>
MCNodeStyles ==
  {Undeclared} \cup Alone(BoxDecls, Named(BoxDecls, {"padding"})) \cup Alone(SizeDecls, Named(SizeDecls, {"width", "min-width", "min-height"}))
  \cup Alone(ColorDecls, Named(ColorDecls, {"color"})) \cup Under(ColorDecls, Named(ColorDecls, {"color", "background"}))
  \cup Alone(ShadowDecls, {}) \cup Under(ShadowDecls, Named(ShadowDecls, {"box-shadow"}))
  \cup Under(TextDecls, Named(TextDecls, {"font"}))
=============================================================================
