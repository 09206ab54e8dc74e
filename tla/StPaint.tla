------------------------------ MODULE StPaint -------------------------------
(***************************************************************************)
(* The textures a widget paints its background with: the paint states of   *)
(* st-theme-node-drawing.c and the ring of two in st-widget.c.             *)
(*                                                                         *)
(* A paint state belongs to a widget, remembers the theme node, size and   *)
(* scale its textures were made for, and is brought up to date by the next *)
(* paint.  Theme nodes are shared by widgets and keep one paint state for  *)
(* all of them (cached_state) and the images of their style.  Only one     *)
(* dimension of the size is kept; allocation of textures never fails.      *)
(*                                                                         *)
(* Then the rectangles a theme node paints when no texture is drawn        *)
(* beforehand: borders, rounded corners, background, border image, outline *)
(* and sliced shadow.  A rectangle is <<x1, y1, x2, y2>>, a pixel the      *)
(* square at its upper left corner.                                        *)
(***************************************************************************)
EXTENDS Integers, FiniteSets

CONSTANTS
  Painters,     \* the widgets
  PaintNodes,   \* theme nodes
  Style,        \* what the style of a node says, below
  Alike,        \* pairs of different nodes that paint the same
  Sizes,        \* sizes of an allocation
  Scales,       \* resource scales
  PaintFiles,   \* image files
  NoPicture, NoNodeYet,
  MaxVersion,   \* bound on changes of a file
  MaxPaintSteps \* bound on the steps of a behaviour

\* shadow: an outer box shadow of which min is the smallest size that can be
\* sliced; gradient: the background is always drawn beforehand; large: the
\* sizes at which a corner is more than half of the box.
ASSUME StyleIsTyped ==
  Style \in [PaintNodes -> [shadow : BOOLEAN, min : Nat, gradient : BOOLEAN, large : SUBSET Sizes,
                       border : PaintFiles \cup {NoPicture}, background : PaintFiles \cup {NoPicture}]]
ASSUME PaintAssumption == Sizes \subseteq Nat /\ Scales \subseteq Nat /\ NoNodeYet \notin PaintNodes

VARIABLES
  theme,     \* the theme node of each widget
  ring,      \* its paint states
  current,   \* which of them paints
  scale,     \* its resource scale
  node,      \* what each theme node keeps
  version,   \* of each image file
  steps      \* taken so far
paintVars == <<theme, ring, current, scale, node, version, steps>>

NoTexture == [of |-> "none", size |-> 0, scale |-> 0]
\* st_theme_node_paint_state_init()
NoState == [node |-> NoNodeYet, size |-> 0, scale |-> -1, shadow |-> NoTexture, pre |-> NoTexture, corners |-> NoTexture]
FreshNode == [once |-> FALSE, min |-> 0, cached |-> NoState, border |-> 0, background |-> 0]

PaintInit ==
  /\ theme \in [Painters -> PaintNodes]
  /\ ring = [p \in Painters |-> [i \in 0 .. 1 |-> NoState]]
  /\ current = [p \in Painters |-> 0]
  /\ scale \in [Painters -> Scales]
  /\ node = [n \in PaintNodes |-> FreshNode]
  /\ version = [f \in PaintFiles |-> 1]
  /\ steps = 0

---------------------------------------------------------------------------
SamePaint(m, n) == m = n \/ {m, n} \in Alike

\* st_theme_node_maybe_prerender_background(): which nodes draw beforehand.
Prerenders(n, size) == Style[n].gradient \/ size \in Style[n].large
Prerender(n, size, sc) ==
  IF Prerenders(n, size) THEN [of |-> "background", size |-> size, scale |-> sc] ELSE NoTexture
CornerTextures(n, size, sc) == [of |-> "corners", size |-> size, scale |-> sc]
\* st_theme_node_load_border_image(): loaded once, whatever the scale.
LoadedBorder(n) ==
  IF Style[n].border = NoPicture THEN 0
  ELSE IF node[n].border # 0 THEN node[n].border ELSE version[Style[n].border]
LoadedBackground(n) ==
  IF Style[n].background = NoPicture THEN 0
  ELSE IF node[n].background # 0 THEN node[n].background ELSE version[Style[n].background]

\* st_theme_node_compute_maximum_borders() with st_theme_node_prerender_shadow()
OwnShadow(n, size, sc) ==
  [of |-> "outline", size |-> IF size < Style[n].min THEN size ELSE Style[n].min, scale |-> sc]
Shadow(n, size, sc) ==
  IF ~Style[n].shadow THEN NoTexture
  ELSE IF Style[n].border # NoPicture THEN [of |-> "border", size |-> 0, scale |-> sc]
  ELSE IF Prerenders(n, size) THEN [of |-> "background", size |-> size, scale |-> sc]
  ELSE OwnShadow(n, size, sc)

\* st_theme_node_render_resources(): everything anew.
Rendered(n, size, sc) ==
  [node |-> n, size |-> size, scale |-> sc, shadow |-> Shadow(n, size, sc),
   pre |-> Prerender(n, size, sc), corners |-> CornerTextures(n, size, sc)]
MinSize(n) == IF Style[n].shadow THEN Style[n].min ELSE node[n].min
\* ... and what the node keeps of it: the first state without a background
\* drawn beforehand.
NodeAfterRender(n, made) ==
  [node[n] EXCEPT !.once = TRUE, !.min = MinSize(n),
                  !.border = IF Style[n].shadow THEN LoadedBorder(n) ELSE @,
                  !.cached = IF @ = NoState /\ made.pre = NoTexture /\ made.size >= MinSize(n) THEN made ELSE @]

\* st_theme_node_update_resources(): another size, the shadow is kept unless
\* it was made of the background; without one it is lost.
Updated(n, state, size, sc) ==
  LET drop == state.pre # NoTexture /\ node[n].border = 0 /\ state.shadow # NoTexture
      pre == Prerender(n, size, sc)
  IN [node |-> n, size |-> size, scale |-> sc, pre |-> pre, corners |-> CornerTextures(n, size, sc),
      shadow |-> IF ~drop THEN state.shadow
                 ELSE IF pre = NoTexture THEN NoTexture ELSE [of |-> "background", size |-> size, scale |-> sc]]

\* Mutant: an allocation that outgrows the smallest shadow keeps its texture.
NeedsNewOnlyWhenSmaller(n, state, size, sc) ==
  \/ ~node[n].once
  \/ state.scale # sc
  \/ state.size # size /\ node[n].min # 0 /\ size < node[n].min
\* st_theme_node_needs_new_box_shadow_for_size()
NeedsNewBoxShadow(n, state, size, sc) ==
  \/ ~node[n].once
  \/ state.scale # sc
  \/ /\ state.size # size
     /\ node[n].min # 0
     /\ size < node[n].min \/ state.size < node[n].min

\* st_theme_node_paint(), the part that prepares the textures.
CanCopy(n, state, size, sc) ==
  node[n].once /\ node[n].cached # NoState /\ size >= node[n].min /\ sc = state.scale
Prepared(n, state, size, sc) ==
  IF state.node # n \/ NeedsNewBoxShadow(n, state, size, sc)
  THEN IF CanCopy(n, state, size, sc) THEN node[n].cached ELSE Rendered(n, size, sc)
  ELSE IF state.size # size THEN Updated(n, state, size, sc) ELSE state
Renders(n, state, size, sc) ==
  (state.node # n \/ NeedsNewBoxShadow(n, state, size, sc)) /\ ~CanCopy(n, state, size, sc)
\* The images are loaded by the painting itself: the border image unless the
\* background is drawn beforehand, the background image likewise.
NodeAfterPaint(n, kept, prepared) ==
  IF prepared.pre # NoTexture THEN kept
  ELSE [kept EXCEPT !.border = LoadedBorder(n), !.background = LoadedBackground(n)]

Paint(p, size) ==
  LET n == theme[p]
      state == ring[p][current[p]]
      prepared == Prepared(n, state, size, scale[p])
      kept == IF Renders(n, state, size, scale[p]) THEN NodeAfterRender(n, prepared) ELSE node[n]
  IN /\ ring' = [ring EXCEPT ![p][current[p]] = prepared]
     /\ node' = [node EXCEPT ![n] = NodeAfterPaint(n, kept, prepared)]
     /\ UNCHANGED <<theme, current, scale, version>>

\* st_theme_node_paint_state_invalidate(): the textures stay, size and scale
\* are forgotten.
Invalidated(state) == [state EXCEPT !.size = 0, !.scale = -1]

\* st_widget_recompute_style(): the other paint state takes over, and keeps
\* its textures when it last painted a node that looks the same.
ChangeStyle(p, n) ==
  /\ n # theme[p]
  /\ theme' = [theme EXCEPT ![p] = n]
  /\ IF SamePaint(theme[p], n) THEN UNCHANGED <<ring, current>>
     ELSE LET next == (current[p] + 1) % 2
              last == ring[p][next].node
          IN /\ current' = [current EXCEPT ![p] = next]
             /\ ring' = IF last # NoNodeYet /\ SamePaint(n, last) THEN ring
                        ELSE [ring EXCEPT ![p][next] = Invalidated(@)]
  /\ UNCHANGED <<scale, node, version>>

\* st_widget_resource_scale_changed()
ChangeScale(p, sc) ==
  /\ sc # scale[p]
  /\ scale' = [scale EXCEPT ![p] = sc]
  /\ ring' = [ring EXCEPT ![p] = [i \in 0 .. 1 |-> Invalidated(@[i])]]
  /\ UNCHANGED <<theme, current, node, version>>

Uses(n, f) == Style[n].border = f \/ Style[n].background = f
Dropped(n, f) ==
  [node[n] EXCEPT !.border = IF Style[n].border = f THEN 0 ELSE @,
                  !.background = IF Style[n].background = f THEN 0 ELSE @]
\* st_widget_texture_cache_changed() on every widget: a node loses its image
\* when some paint state is for it.
FileChanged(f) ==
  /\ version[f] < MaxVersion
  /\ version' = [version EXCEPT ![f] = @ + 1]
  /\ node' = [n \in PaintNodes |->
       IF \E p \in Painters, i \in 0 .. 1 : ring[p][i].node = n THEN Dropped(n, f) ELSE node[n]]
  /\ ring' = [p \in Painters |-> [i \in 0 .. 1 |->
       IF ring[p][i].node # NoNodeYet /\ Uses(ring[p][i].node, f) THEN Invalidated(ring[p][i]) ELSE ring[p][i]]]
  /\ UNCHANGED <<theme, current, scale>>

\* The theme node is not used any more and is finalized: the paint states
\* made for it start over.  A node of the same style may be made again.
NodeFreed(n) ==
  /\ \A p \in Painters : theme[p] # n
  /\ node[n] # FreshNode
  /\ node' = [node EXCEPT ![n] = FreshNode]
  /\ ring' = [p \in Painters |-> [i \in 0 .. 1 |-> IF ring[p][i].node = n THEN NoState ELSE ring[p][i]]]
  /\ UNCHANGED <<theme, current, scale, version>>

PaintNext ==
  /\ steps < MaxPaintSteps
  /\ steps' = steps + 1
  /\ \/ \E p \in Painters, size \in Sizes : Paint(p, size)
     \/ \E p \in Painters, n \in PaintNodes : ChangeStyle(p, n)
     \/ \E p \in Painters, sc \in Scales : ChangeScale(p, sc)
     \/ \E f \in PaintFiles : FileChanged(f)
     \/ \E n \in PaintNodes : NodeFreed(n)
PaintSpec == PaintInit /\ [][PaintNext]_paintVars

---------------------------------------------------------------------------
\* The next paint of the widget at this size uses the textures as they are.
Settled(p, size) ==
  LET state == ring[p][current[p]] IN state.node = theme[p] /\ Prepared(theme[p], state, size, scale[p]) = state
\* Whether a node draws its background beforehand does not change with size.
Steady(n) == \A a, b \in Sizes : Prerenders(n, a) = Prerenders(n, b)

\* Textures that a paint takes as they are, are the ones a widget that never
\* painted before would make: st_theme_node_paint() notices every change of
\* node, size and scale, whoever made the copies it shares through the node.
SettledPaintIsFresh ==
  \A p \in Painters, size \in Sizes :
    Settled(p, size) /\ Steady(theme[p]) => ring[p][current[p]] = Rendered(theme[p], size, scale[p])

-----------------------------------------------------------------------------
CONSTANTS
  Widths,    \* border widths
  Radii,     \* border radii
  Lengths,   \* widths and heights of an allocation
  Blurs,     \* blur radii of a box shadow
  Spreads    \* its spread

Corners4 == {"topleft", "topright", "bottomright", "bottomleft"}
Sides4 == {"top", "right", "bottom", "left"}

VARIABLES shape    \* a style and the allocation it is painted in
borderVars == <<shape>>

Larger(a, b) == IF a > b THEN a ELSE b
LargestOf(S) == CHOOSE x \in S : \A y \in S : x >= y

---------------------------------------------------------------------------
\* st_theme_node_get_corner_border_widths(): the sides that meet in a corner.
Meeting(c) ==
  CASE c = "topleft" -> {"top", "left"} [] c = "topright" -> {"top", "right"}
    [] c = "bottomright" -> {"bottom", "right"} [] c = "bottomleft" -> {"bottom", "left"}

\* st_theme_node_reduce_border_radius(): all radii shrink by the ratio of the
\* side that overflows most.  The ratios are <<length, sum of radii>>.
Along(s, side) == IF side \in {"top", "bottom"} THEN s.width ELSE s.height
SumOn(s, side) == LET ends == {c \in Corners4 : side \in Meeting(c)} IN
  LET a == CHOOSE c \in ends : TRUE
      b == CHOOSE c \in ends \ {a} : TRUE
  IN s.radius[a] + s.radius[b]
Ratios(s) == {<<1, 1>>} \cup {<<Along(s, side), SumOn(s, side)>> : side \in {x \in Sides4 : SumOn(s, x) > 0}}
TightestRatio(s) == CHOOSE r \in Ratios(s) : \A q \in Ratios(s) : r[1] * q[2] <= q[1] * r[2]
\* Mutant: only the horizontal sides are looked at.
ReduceHorizontally(s) ==
  LET r == CHOOSE x \in Ratios([s EXCEPT !.height = 1000]) : \A q \in Ratios([s EXCEPT !.height = 1000]) : x[1] * q[2] <= q[1] * x[2]
  IN [c \in Corners4 |-> (s.radius[c] * r[1]) \div r[2]]
ReduceBorderRadius(s) ==
  LET r == TightestRatio(s) IN [c \in Corners4 |-> (s.radius[c] * r[1]) \div r[2]]

\* A corner larger than half of the box: the background is drawn beforehand.
HasLargeCorners(s) ==
  \E c \in Corners4 : 2 * ReduceBorderRadius(s)[c] > s.width \/ 2 * ReduceBorderRadius(s)[c] > s.height

---------------------------------------------------------------------------
(* st_theme_node_paint_borders(); r are the reduced radii, m the largest of *)
(* them, e the extent of each corner square.                                *)
MaxWidthRadius(s, r) ==
  [c \in Corners4 |-> LargestOf({r[c]} \cup {s.border[side] : side \in Meeting(c)})]
BorderRects(s, r, e) ==
  LET skip(c, yes, no) == IF r[c] > 0 THEN yes ELSE no IN
  IF \A side \in Sides4 : s.border[side] = 0 THEN {}
  ELSE {<<skip("topleft", e["topleft"], 0), 0,
          skip("topright", s.width - e["topright"], s.width), s.border["top"]>>,
        <<s.width - s.border["right"], skip("topright", e["topright"], s.border["top"]),
          s.width, skip("bottomright", s.height - e["bottomright"], s.height - s.border["bottom"])>>,
        <<skip("bottomleft", e["bottomleft"], 0), s.height - s.border["bottom"],
          skip("bottomright", s.width - e["bottomright"], s.width), s.height>>,
        <<0, skip("topleft", e["topleft"], s.border["top"]),
          s.border["left"], skip("bottomleft", s.height - e["bottomleft"], s.height - s.border["bottom"])>>}
CornerRects(s, r, e) ==
  LET square(c) ==
        CASE c = "topleft" -> <<0, 0, e[c], e[c]>>
          [] c = "topright" -> <<s.width - e[c], 0, s.width, e[c]>>
          [] c = "bottomright" -> <<s.width - e[c], s.height - e[c], s.width, s.height>>
          [] c = "bottomleft" -> <<0, s.height - e[c], e[c], s.height>>
  IN {square(c) : c \in {d \in Corners4 : r[d] > 0}}
\* The part of the largest corner's square that a smaller corner leaves free:
\* below or above it, and when it is round beside it too.
FillRects(s, r, m, c) ==
  LET left == s.border["left"]
      top == s.border["top"]
      right == s.width - s.border["right"]
      bottom == s.height - s.border["bottom"]
      x1 == Larger(r[c], left)
      y1 == Larger(r[c], top)
      x2 == s.width - Larger(r[c], s.border["right"])
      y2 == s.height - Larger(r[c], s.border["bottom"])
      below == CASE c = "topleft" -> <<left, y1, m, m>>
                 [] c = "topright" -> <<s.width - m, y1, right, m>>
                 [] c = "bottomright" -> <<s.width - m, s.height - m, right, y2>>
                 [] c = "bottomleft" -> <<left, s.height - m, m, y2>>
      beside == CASE c = "topleft" -> <<x1, top, m, y1>>
                  [] c = "topright" -> <<s.width - m, top, x2, y1>>
                  [] c = "bottomright" -> <<s.width - m, y2, x2, bottom>>
                  [] c = "bottomleft" -> <<x1, y2, m, bottom>>
  IN IF m = r[c] THEN {} ELSE IF r[c] = 0 THEN {below} ELSE {below, beside}
MiddleRects(s, m) ==
  LET x1 == Larger(m, s.border["left"])
      x2 == s.width - Larger(m, s.border["right"])
  IN (IF m > s.border["top"] THEN {<<x1, s.border["top"], x2, m>>} ELSE {})
     \cup (IF m > s.border["bottom"] THEN {<<x1, s.height - m, x2, s.height - s.border["bottom"]>>} ELSE {})
     \cup {<<s.border["left"], Larger(s.border["top"], m), s.width - s.border["right"],
             s.height - Larger(s.border["bottom"], m)>>}
BackgroundRects(s, r, m) == UNION {FillRects(s, r, m, c) : c \in Corners4} \cup MiddleRects(s, m)
\* What is painted: borders, corners, background.
RectsWith(s, r, e) ==
  <<BorderRects(s, r, e), CornerRects(s, r, e), BackgroundRects(s, r, LargestOf({r[c] : c \in Corners4}))>>
PaintBorders(s, r) == RectsWith(s, r, MaxWidthRadius(s, r))

---------------------------------------------------------------------------
\* st_theme_node_paint_outline(): a ring around the allocation.
Outline(s, w) ==
  IF w = 0 THEN {}
  ELSE {<<-w, -w, s.width + w, 0>>, <<s.width, 0, s.width + w, s.height>>,
        <<-w, s.height, s.width + w, s.height + w>>, <<-w, 0, 0, s.height>>}

\* st_theme_node_paint_sliced_border_image(): nine slices whose ends are ex, ey.
SliceEnd(length, border) == IF length - border < 0 THEN border ELSE length - border
SlicedBorderImage(s) ==
  LET xs == <<0, s.border["left"], SliceEnd(s.width, s.border["right"]), s.width>>
      ys == <<0, s.border["top"], SliceEnd(s.height, s.border["bottom"]), s.height>>
  IN {<<xs[i], ys[j], xs[i + 1], ys[j + 1]>> : i, j \in 1 .. 3}

\* st_theme_node_paint_sliced_shadow(), one dimension: where the slices of the
\* shadow end on screen (times the width, to stay whole) and in the texture.
Ceiling(a, b) == (a + b - 1) \div b
BlurExtent(blur) == Ceiling(3 * blur, 4) * 2
MinShadowWidth(s) ==
  Larger(s.radius["topleft"], s.radius["bottomleft"]) + Larger(s.radius["topright"], s.radius["bottomright"])
    + (IF s.blur > 0 THEN 2 * s.blur + 1 ELSE 1)
ShadowSlices(s) ==
  LET extent == BlurExtent(s.blur)
      near == extent + s.blur + Larger(s.radius["topleft"], s.radius["bottomleft"])
      far == extent + s.blur + Larger(s.radius["topright"], s.radius["bottomright"])
      width == s.width + 2 * extent
      spread == width + 2 * s.spread
  IN [screen |-> <<0, near * spread, spread * width - far * spread, spread * width>>,
      texture |-> <<0, near, MinShadowWidth(s) + 2 * extent - far, MinShadowWidth(s) + 2 * extent>>]

---------------------------------------------------------------------------
(* The style arrives a side and a corner at a time, then the allocation.   *)
BorderInit ==
  shape \in [width : Lengths, height : Lengths, blur : {0}, spread : {0},
             border : {[x \in Sides4 |-> 0]}, radius : {[c \in Corners4 |-> 0]}]
SetBorder(side, w) == shape.border[side] = 0 /\ w > 0 /\ shape' = [shape EXCEPT !.border[side] = w]
SetRadius(c, r) == shape.radius[c] = 0 /\ r > 0 /\ shape' = [shape EXCEPT !.radius[c] = r]
SetShadow(blur, spread) == shape.blur = 0 /\ blur > 0 /\ shape' = [shape EXCEPT !.blur = blur, !.spread = spread]
Allocate(w, h) == shape.blur > 0 /\ shape' = [shape EXCEPT !.width = w, !.height = h]
BorderNext ==
  \/ \E side \in Sides4, w \in Widths : SetBorder(side, w)
  \/ \E c \in Corners4, r \in Radii : SetRadius(c, r)
  \/ \E blur \in Blurs, spread \in Spreads : SetShadow(blur, spread)
  \/ \E w, h \in Lengths : Allocate(w, h)
BorderSpec == BorderInit /\ [][BorderNext]_borderVars

---------------------------------------------------------------------------
Covers(q, x, y) == q[1] <= x /\ x < q[3] /\ q[2] <= y /\ y < q[4]
Pixels(s) == (0 .. s.width - 1) \X (0 .. s.height - 1)
TimesPainted(layer, p) == Cardinality({q \in layer : Covers(q, p[1], p[2])})
TileOnce(layers, pixels) ==
  \A p \in pixels : TimesPainted(layers[1], p) + TimesPainted(layers[2], p) + TimesPainted(layers[3], p) = 1
\* The borders have room in the allocation, and the squares of the corners,
\* which are as large as the widest border that meets in them.
CornersFit(s, e) ==
  /\ s.border["left"] + s.border["right"] <= s.width /\ s.border["top"] + s.border["bottom"] <= s.height
  /\ \A side \in Sides4 : LET ends == {c \in Corners4 : side \in Meeting(c)} IN
       \A c, d \in ends : c # d => e[c] + e[d] <= Along(s, side)
ExtentsFit(s, r) == CornersFit(s, MaxWidthRadius(s, r))

\* Borders, corners and background are painted with blending, so a pixel
\* painted twice or not at all shows: without large corners the rectangles of
\* st_theme_node_paint_borders() cover every pixel of the box exactly once.
BordersTile ==
  /\ \E side \in Sides4 : shape.border[side] > 0
  /\ ~HasLargeCorners(shape) /\ ExtentsFit(shape, ReduceBorderRadius(shape))
  => TileOnce(PaintBorders(shape, ReduceBorderRadius(shape)), Pixels(shape))
\* So do the nine slices of a border image that has room, and the outline
\* covers the ring around the box and nothing of the box.
SlicesTile ==
  CornersFit(shape, [c \in Corners4 |-> 0]) =>
    TileOnce(<<SlicedBorderImage(shape), {}, {}>>, Pixels(shape))
OutlineSurrounds ==
  \A w \in Widths :
    TileOnce(<<Outline(shape, w), {<<0, 0, shape.width, shape.height>>}, {}>>,
             (-w .. shape.width + w - 1) \X (-w .. shape.height + w - 1))
\* The reduced radii of a side never add up to more than the side.
RadiiFit ==
  LET reduced == ReduceBorderRadius(shape) IN
  \A c, d \in Corners4 : \A side \in Meeting(c) \cap Meeting(d) :
    c # d => reduced[c] + reduced[d] <= Along(shape, side)
\* From box_shadow_min_width on the nine slices of the shadow are in order on
\* screen and in the texture, whose middle slice is a single pixel.
ShadowSlicesInOrder ==
  shape.blur > 0 /\ shape.width >= MinShadowWidth(shape) =>
    LET z == ShadowSlices(shape) IN
    /\ \A i \in 1 .. 3 : z.screen[i] <= z.screen[i + 1]
    /\ z.texture[3] - z.texture[2] = 1

\* Corners, borders and the slices of a shadow of a framed box fit the box and
\* each other (st-theme-node-drawing.c).
Framed ==
  shape.blur > 0 \/ (\E side \in Sides4 : shape.border[side] > 0) \/ (\E c \in Corners4 : shape.radius[c] > 0)
FramesAreSound == Framed => RadiiFit /\ BordersTile /\ SlicesTile /\ OutlineSurrounds /\ ShadowSlicesInOrder
=============================================================================
