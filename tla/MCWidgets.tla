----------------------------- MODULE MCWidgets ------------------------------
(***************************************************************************)
(* The toolkit in small: the style sheets and theme nodes of MCStyles, and *)
(* widgets with their style and transitions, keyboard focus, buttons,      *)
(* painting, scrolling, and where their icons and textures come from.  The *)
(* parts have no variable in common, so a behaviour is one of one part,    *)
(* chosen at the start among those a run is about.                         *)
(***************************************************************************)
EXTENDS TLC, MCStyles, StWidget, StFocus, StButton, StPaint, Scrolling, IconLookup, StIconTheme, StTextureCache, StIcon

(* Widgets: nothing yet, and a widget in another one.  "slow" has a         *)
(* transition, and focus does not change how a widget looks.                *)
CONSTANTS w1, w2
MCDuration(n) == IF n[Len(n)].class = "slow" THEN 1 ELSE 0
MCLooks(n) ==
  IF Len(n) = 1 THEN <<>>
  ELSE <<n[1], n[2].class, n[Len(n)].class, {n[Len(n)].pseudo[i] : i \in DOMAIN n[Len(n)].pseudo} \ {"focus"}>>
Slow(s, x) == [s EXCEPT !.w[x].class = "slow", !.w[x].reactive = TRUE, !.w[x].track = TRUE, !.w[x].pseudo = <<>>]
MCStarts == {Bare, DoAddChild(DoAddChild(Slow(Bare, w2), Stage, w1, FALSE), w1, w2, FALSE)}

(* A focus group of three columns, the middle one with two rows. *)
MCKids == [x \in Actors |-> CASE x = "g" -> <<"a", "b", "c">> [] x = "b" -> <<"d", "e">> [] OTHER -> <<>>]
At(x, y, w, h) == [x1 |-> x, y1 |-> y, x2 |-> x + w, y2 |-> y + h]
MCActorBox == [x \in Actors |->
  CASE x = "g" -> At(0, 0, 30, 20) [] x = "a" -> At(0, 0, 10, 10) [] x = "b" -> At(10, 0, 10, 20)
    [] x = "c" -> At(20, 0, 10, 10) [] x = "d" -> At(10, 0, 10, 10) [] OTHER -> At(10, 10, 10, 10)]

(* What is painted: two nodes that paint alike, one with an image, one with *)
(* a gradient, which is drawn beforehand.                                   *)
Painted(gradient, border, background) ==
  [shadow |-> TRUE, min |-> 3, gradient |-> gradient, large |-> {}, border |-> border, background |-> background]
MCStyle == [n \in PaintNodes |->
  CASE n = "plain" -> Painted(FALSE, NoPicture, "f") [] n = "same" -> Painted(FALSE, NoPicture, NoPicture)
    [] n = "image" -> Painted(FALSE, "f", NoPicture) [] n = "grad" -> Painted(TRUE, NoPicture, NoPicture)]
MCAlike == {{"plain", "same"}}

(* A scroll view, wide or tall, and content that fits it or does not. *)
MCViewSizes == {<<8, 12>>, <<12, 8>>}
MCContents == {[wide |-> 6, flat |-> 7, tall |-> 16], [wide |-> 10, flat |-> 4, tall |-> 10], [wide |-> 2, flat |-> 11, tall |-> 11]}
MCPolicyPairs == {<<"never", "automatic">>, <<"automatic", "automatic">>, <<"always", "automatic">>,
                  <<"automatic", "never">>, <<"external", "never">>, <<"always", "always">>}

(* Icons: names with generic parts, in directories of every type. *)
MCIconFiles == {<<<<"a">>, "png">>, <<<<"a">>, "svg">>, <<<<"a", "symbolic">>, "symbolic.png">>, <<<<"a", "b">>, "xpm">>}
Group(t, s, min, max, sc) == [type |-> t, size |-> s, min |-> min, max |-> max, threshold |-> 2, scale |-> sc]
MCGroups == {Group("threshold", 6, 6, 6, 1), Group("scalable", 8, 4, 16, 1), Group("fixed", 4, 4, 4, 2)}
MCAsked == {<<<<"a">>>>, <<<<"a", "symbolic">>>>, <<<<"a", "b">>, <<"a">>>>, GenericNames(<<"a", "b", "symbolic">>)}
MCInherits == [n \in ThemeNames |-> IF n = "own" THEN <<"base">> ELSE <<>>]
MCKeepers == <<"x", "y">>
MCEmblems == [k \in InfoKeys |-> IF k = "e" THEN "good" ELSE "none"]
MCImageSize == [f \in ImageFiles |-> <<8, 4>>]
MCRoomSizes == {<<4, -1>>}
MCThemeGicons == ("x" :> {"a", "missing"}) @@ ("y" :> {})
MCPropSizes == {-1, 2}
MCStartStyles == {[size |-> z, colors |-> "c", shadow |-> "s"] : z \in StyleIconSizes}

---------------------------------------------------------------------------
CONSTANT Parts   \* the parts a run is about
VARIABLE part    \* the part a behaviour is about
styleVars == <<tkVars, omVars, themeVars, nodeVars>>
widgetsVars == <<widgetVars, focusVars, buttonVars, paintVars, borderVars,
                 scrollVars, lookupVars, iconThemeVars, infoVars, textureVars, iconVars>>
parts == <<styleVars, widgetsVars>>

\* The parts a behaviour is not about stay in one of their initial states.
PartsInit ==
  /\ part \in Parts
  /\ TkInit /\ (part # "tokenizer" => text = <<"a">>)
  /\ OmInit /\ (part # "sheet" => css = RuleA)
  /\ ThemeInit
  /\ NodeInit /\ (part # "node" => style = Undeclared)
  /\ WidgetInit /\ (part # "widget" => st = Bare)
  /\ FocusInit /\ (part # "focus" => canFocus = {} /\ hidden = {})
  /\ ButtonInit
  /\ PaintInit /\ (part # "paint" => theme = [p \in Painters |-> "plain"] /\ scale = [p \in Painters |-> 1])
  /\ BorderInit /\ (part # "border" => shape.width = 4 /\ shape.height = 4)
  /\ ScrollInit /\ (part # "scroll" => view.size = <<8, 12>>)
  /\ LookupInit
  /\ IconThemeInit /\ (part # "icon theme" => mtimeOf = [q \in Places |-> 1])
  /\ InfoInit
  /\ TextureInit
  /\ IconInit /\ iconPlace.theme = "x" /\ iconPlace.style \in MCStartStyles /\ (part # "icon" => ~iconPlace.styled)

PartsNext ==
  \/ part = "tokenizer" /\ TkNext /\ UNCHANGED <<part, omVars, themeVars, nodeVars, widgetsVars>>
  \/ part = "sheet" /\ OmNext /\ UNCHANGED <<part, tkVars, themeVars, nodeVars, widgetsVars>>
  \/ part = "theme" /\ ThemeNext /\ UNCHANGED <<part, tkVars, omVars, nodeVars, widgetsVars>>
  \/ part = "node" /\ NodeNext /\ UNCHANGED <<part, tkVars, omVars, themeVars, widgetsVars>>
  \/ part = "widget" /\ WidgetNext
     /\ UNCHANGED <<part, styleVars, focusVars, buttonVars, paintVars, borderVars, scrollVars, lookupVars, iconThemeVars, infoVars, textureVars, iconVars>>
  \/ part = "focus" /\ FocusNext
     /\ UNCHANGED <<part, styleVars, widgetVars, buttonVars, paintVars, borderVars, scrollVars, lookupVars, iconThemeVars, infoVars, textureVars, iconVars>>
  \/ part = "button" /\ ButtonNext
     /\ UNCHANGED <<part, styleVars, widgetVars, focusVars, paintVars, borderVars, scrollVars, lookupVars, iconThemeVars, infoVars, textureVars, iconVars>>
  \/ part = "paint" /\ PaintNext
     /\ UNCHANGED <<part, styleVars, widgetVars, focusVars, buttonVars, borderVars, scrollVars, lookupVars, iconThemeVars, infoVars, textureVars, iconVars>>
  \/ part = "border" /\ BorderNext
     /\ UNCHANGED <<part, styleVars, widgetVars, focusVars, buttonVars, paintVars, scrollVars, lookupVars, iconThemeVars, infoVars, textureVars, iconVars>>
  \/ part = "scroll" /\ ScrollNext
     /\ UNCHANGED <<part, styleVars, widgetVars, focusVars, buttonVars, paintVars, borderVars, lookupVars, iconThemeVars, infoVars, textureVars, iconVars>>
  \/ part = "lookup" /\ LookupNext
     /\ UNCHANGED <<part, styleVars, widgetVars, focusVars, buttonVars, paintVars, borderVars, scrollVars, iconThemeVars, infoVars, textureVars, iconVars>>
  \/ part = "icon theme" /\ IconThemeNext
     /\ UNCHANGED <<part, styleVars, widgetVars, focusVars, buttonVars, paintVars, borderVars, scrollVars, lookupVars, infoVars, textureVars, iconVars>>
  \/ part = "info" /\ InfoNext
     /\ UNCHANGED <<part, styleVars, widgetVars, focusVars, buttonVars, paintVars, borderVars, scrollVars, lookupVars, iconThemeVars, textureVars, iconVars>>
  \/ part = "texture" /\ TextureNext
     /\ UNCHANGED <<part, styleVars, widgetVars, focusVars, buttonVars, paintVars, borderVars, scrollVars, lookupVars, iconThemeVars, infoVars, iconVars>>
  \/ part = "icon" /\ IconNext
     /\ UNCHANGED <<part, styleVars, widgetVars, focusVars, buttonVars, paintVars, borderVars, scrollVars, lookupVars, iconThemeVars, infoVars, textureVars>>

PartsSpec == PartsInit /\ [][PartsNext]_<<part, parts>>

\* What widgets hold of icons is of the themes and files of now, or they are
\* about to be told: the icon theme tells of every change and caches nothing
\* older (st-icon-theme.c), its infos live as long as they are used, and the
\* texture cache serves whoever waits and follows the files it read
\* (st-texture-cache.c), and an icon on the stage shows what it was asked to,
\* as its style, scale and theme are now (st-icon.c).
IconsAreCurrent ==
  /\ StaleKeepersAreTold /\ AnswersAreOfTheThemes /\ ChangesAreNoticed
  /\ CachedInfosLive /\ LoadedInfosAreReady
  /\ WaitersAreServed /\ FilesFollowDisk
  /\ IconShowsWhatIsAsked
=============================================================================
