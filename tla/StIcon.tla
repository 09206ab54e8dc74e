------------------------------- MODULE StIcon -------------------------------
(***************************************************************************)
(* An icon on the stage (src/st/st-icon.c): which texture it shows and     *)
(* which one it waits for, while icons, sizes, styles, scales and the icon *)
(* theme change under it.  The texture cache is external: it has a texture *)
(* for an icon or not, ready or still to be loaded, and a load that fails  *)
(* never ends.  The widget's style comes from StWidget: the theme node     *)
(* goes when the style changes while the icon is not mapped.               *)
(***************************************************************************)
EXTENDS Integers

CONSTANTS
  Gicons,          \* the icons that may be asked for
  ThemedGicons,    \* icons found by name in the icon theme
  SymbolicGicons,
  DefaultGicon,    \* image-missing
  ThemeGicons,     \* per icon theme, the icons it has
  PropSizes,       \* what the "icon-size" property is set to; -1 for unset
  StyleIconSizes,  \* what the style says, in logical pixels; 0 for nothing
  StyleIconColors, StyleIconShadows,
  IconScales,      \* scale factors, and resource scales
  MaxIconOps       \* bound on the changes of a behaviour

DefaultIconSize == 48
NoGicon == "no icon"
NoIconTexture == [gicon |-> NoGicon]
NoIconShadow == "no shadow"
Inset == "inset"

VARIABLES
  icon,       \* the fields of the icon; asOf is history: the icon theme of the last load
  iconPlace   \* where it is: on the stage, with a theme node, its style, the scales, the icon theme
iconVars == <<icon, iconPlace>>

---------------------------------------------------------------------------
\* load_gicon(), and the order st_icon_update() tries icons in
CacheHas(g, t) == g # NoGicon /\ (g \in ThemedGicons => g \in ThemeGicons[t])
Chosen(i, t) ==
  CASE CacheHas(i.gicon, t) -> i.gicon [] CacheHas(i.fallback, t) -> i.fallback
    [] CacheHas(DefaultGicon, t) -> DefaultGicon [] OTHER -> NoGicon
IconTexture(g, i, p, ready) ==
  [gicon |-> g, size |-> i.size \div p.scale, scale |-> p.scale, resource |-> p.resource,
   colors |-> p.style.colors, theme |-> p.theme, loaded |-> ready]

UpdateIsSymbolic(i) == [i EXCEPT !.symbolic = i.shown.loaded /\ i.shown.gicon \in SymbolicGicons]
ClearShadowPipeline(i) == [i EXCEPT !.pipeline = NoIconTexture]
FinishIconUpdate(i) == UpdateIsSymbolic(ClearShadowPipeline([i EXCEPT !.shown = i.pending, !.pending = NoIconTexture]))

\* st_icon_update()
Update(i, p, ready) ==
  LET g == Chosen(i, p.theme)
      dropped == [i EXCEPT !.pending = NoIconTexture]
      tried == [dropped EXCEPT !.needs = FALSE, !.themed = g \in ThemedGicons, !.asOf = p.theme]
      next == [tried EXCEPT !.pending = IconTexture(g, i, p, ready)]
  IN CASE i.gicon = NoGicon /\ i.fallback = NoGicon -> [dropped EXCEPT !.shown = NoIconTexture]
       [] (i.gicon # NoGicon \/ i.fallback # NoGicon) /\ (~p.styled \/ i.size <= 0) -> [dropped EXCEPT !.needs = TRUE]
       [] OTHER -> IF g = NoGicon THEN [tried EXCEPT !.shown = NoIconTexture]
                   ELSE IF ready \/ i.shown = NoIconTexture THEN FinishIconUpdate(next) ELSE next

\* st_icon_update_icon_size()
IconSizeNow(i, p) ==
  LET sc == IF p.onStage THEN p.scale ELSE 1
  IN IF i.prop > 0 THEN i.prop * sc ELSE IF i.themeSize > 0 THEN i.themeSize ELSE DefaultIconSize * sc
Resized(i, p) == [i EXCEPT !.size = IconSizeNow(i, p)]

\* st_icon_style_changed(), in a place with the new theme node
Restyled(i, p, ready) ==
  LET spec == IF p.style.shadow = Inset THEN NoIconShadow ELSE p.style.shadow
      styled == [IF spec = i.spec THEN i ELSE ClearShadowPipeline(i)
                  EXCEPT !.spec = spec, !.colors = p.style.colors, !.themeSize = p.style.size * p.scale]
      sized == Resized(styled, p)
  IN IF i.needs \/ spec # i.spec \/ p.style.colors # i.colors \/ sized.size # i.size
     THEN Update(sized, p, ready) ELSE sized

---------------------------------------------------------------------------
IconOp(p) == iconPlace.ops < MaxIconOps /\ iconPlace' = [p EXCEPT !.ops = @ + 1]

SetGicon(g, ready) ==
  /\ g # icon.gicon /\ IconOp(iconPlace)
  /\ icon' = Update([icon EXCEPT !.gicon = g], iconPlace, ready)
SetFallbackGicon(g, ready) ==
  /\ g # icon.fallback /\ IconOp(iconPlace)
  /\ icon' = Update([icon EXCEPT !.fallback = g], iconPlace, ready)
SetIconSize(s, ready) ==
  LET sized == Resized([icon EXCEPT !.prop = s], iconPlace)
  IN /\ s # icon.prop /\ IconOp(iconPlace)
     /\ icon' = IF sized.size # icon.size THEN Update(sized, iconPlace, ready) ELSE sized

\* The style is computed, which needs the icon to be mapped.
IconStyleChanged(style, ready) ==
  LET p == [iconPlace EXCEPT !.style = style, !.styled = TRUE]
  IN iconPlace.onStage /\ IconOp(p) /\ icon' = Restyled(icon, p, ready)
\* The style changes while the icon is not mapped, or it leaves the stage.
IconStyleDropped(onStage) ==
  /\ IconOp([iconPlace EXCEPT !.styled = FALSE, !.onStage = onStage])
  /\ UNCHANGED icon
\* The theme context tells every widget on its stage.
IconScaleFactorChanged(sc, ready) ==
  LET p == [iconPlace EXCEPT !.scale = sc]
  IN /\ sc # iconPlace.scale /\ IconOp(p)
     /\ icon' = IF p.styled THEN Restyled(icon, p, ready) ELSE icon
IconResourceScaleChanged(r, ready) ==
  LET p == [iconPlace EXCEPT !.resource = r]
  IN iconPlace.onStage /\ r # iconPlace.resource /\ IconOp(p) /\ icon' = Update(icon, p, ready)
\* on_icon_theme_changed() of the icon
IconThemeReplaced(t, ready) ==
  LET p == [iconPlace EXCEPT !.theme = t]
  IN t # iconPlace.theme /\ IconOp(p) /\ icon' = IF icon.themed THEN Update(icon, p, ready) ELSE icon

\* The cache sets the content and the opacity: opacity_changed_cb() for the
\* texture that is waited for, on_content_changed() for the one shown.
PendingLoaded ==
  /\ icon.pending # NoIconTexture
  /\ icon' = FinishIconUpdate([icon EXCEPT !.pending.loaded = TRUE])
  /\ UNCHANGED iconPlace
ShownLoaded ==
  /\ icon.shown # NoIconTexture /\ ~icon.shown.loaded
  /\ icon' = UpdateIsSymbolic(ClearShadowPipeline([icon EXCEPT !.shown.loaded = TRUE]))
  /\ UNCHANGED iconPlace

\* st_icon_paint_node() and st_icon_update_shadow_pipeline(); the allocation
\* is the texture's.
PaintIcon ==
  /\ iconPlace.styled /\ icon.shown # NoIconTexture /\ icon.spec # NoIconShadow /\ icon.pipeline = NoIconTexture
  /\ icon' = [icon EXCEPT !.pipeline = [of |-> icon.shown, spec |-> icon.spec]]
  /\ UNCHANGED iconPlace

---------------------------------------------------------------------------
IconStyles == [size : StyleIconSizes, colors : StyleIconColors, shadow : StyleIconShadows]
Fresh ==
  [gicon |-> NoGicon, fallback |-> NoGicon, prop |-> -1, themeSize |-> 0, size |-> -1, shown |-> NoIconTexture,
   pending |-> NoIconTexture, needs |-> FALSE, themed |-> FALSE, symbolic |-> FALSE, colors |-> "unset",
   spec |-> NoIconShadow, pipeline |-> NoIconTexture, asOf |-> CHOOSE t \in DOMAIN ThemeGicons : TRUE]
\* An icon is new, or has been given an icon and a style.
IconInit ==
  /\ iconPlace \in [onStage : {TRUE}, styled : BOOLEAN, style : IconStyles, scale : {1}, resource : {1},
                    theme : DOMAIN ThemeGicons, ops : {0}]
  /\ icon = IF iconPlace.styled THEN Restyled([Fresh EXCEPT !.gicon = CHOOSE g \in Gicons : g \in ThemedGicons], iconPlace, TRUE)
            ELSE Fresh
  /\ iconPlace.styled \/ iconPlace.style = CHOOSE s \in IconStyles : TRUE
IconNext ==
  \/ \E ready \in BOOLEAN :
       \/ \E g \in Gicons \cup {NoGicon} : SetGicon(g, ready) \/ SetFallbackGicon(g, ready)
       \/ \E s \in PropSizes : SetIconSize(s, ready)
       \/ \E style \in IconStyles : IconStyleChanged(style, ready)
       \/ \E s \in IconScales : IconScaleFactorChanged(s, ready) \/ IconResourceScaleChanged(s, ready)
       \/ \E t \in DOMAIN ThemeGicons : IconThemeReplaced(t, ready)
  \/ \E onStage \in BOOLEAN : IconStyleDropped(onStage)
  \/ PendingLoaded \/ ShownLoaded \/ PaintIcon
IconSpec == IconInit /\ [][IconNext]_iconVars

---------------------------------------------------------------------------
\* Once there is a style, the texture shown, or the one waited for, is of the
\* icon, size, scales and colours of now, and of the icon theme of now unless
\* the icon was not found in it; nothing else is outstanding.  The shadow is
\* that of the texture shown, and what "is-symbolic" says is true of it
\* (st_icon_update(), st_icon_style_changed(), st_icon_finish_update()).
IconShowsWhatIsAsked ==
  LET asked == icon.gicon # NoGicon \/ icon.fallback # NoGicon
      goal == IF icon.pending # NoIconTexture THEN icon.pending ELSE icon.shown
  IN /\ asked /\ iconPlace.styled =>
          /\ ~icon.needs
          /\ goal.gicon = Chosen(icon, icon.asOf)
          /\ icon.asOf = iconPlace.theme \/ ~icon.themed
          /\ goal # NoIconTexture =>
               /\ goal.size = IconSizeNow(icon, iconPlace) \div goal.scale
               /\ goal.resource = iconPlace.resource /\ goal.colors = iconPlace.style.colors
     /\ ~asked => goal = NoIconTexture
     /\ icon.shown # NoIconTexture =>
          /\ icon.symbolic = (icon.shown.loaded /\ icon.shown.gicon \in SymbolicGicons)
          /\ icon.pipeline # NoIconTexture => icon.pipeline.of = icon.shown /\ icon.pipeline.spec = icon.spec
=============================================================================
