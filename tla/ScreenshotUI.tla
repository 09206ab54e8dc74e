---------------------------- MODULE ScreenshotUI ----------------------------
(***************************************************************************)
(* The interactive screenshot dialog of js/ui/screenshot.js: it opens once *)
(* the stage has been grabbed into a texture (shell-screenshot.c), saves   *)
(* what the user selects, and answers the InteractiveScreenshot calls that *)
(* asked for it when a picture is stored or the dialog closes.  Grabs,     *)
(* saves and fades end whenever they like, also after the dialog went.     *)
(***************************************************************************)
EXTENDS Integers, Sequences

CONSTANTS
  UiWayland,     \* meta_is_wayland_compositor ()
  MaxAsked       \* bound on the interactive calls, and on key shots and saves

VARIABLES
  ui,      \* the dialog
  uiAsked  \* the interactive calls: [answers, casting]
uiVars == <<ui, uiAsked>>
UI == [dialog |-> ui, uiAsked |-> uiAsked]
UiBecomes(s) == ui' = s.dialog /\ uiAsked' = s.uiAsked

---------------------------------------------------------------------------
\* 'screenshot-taken' and 'closed' answer every call that is connected
TellCaller(s, answer) ==
  [s EXCEPT !.uiAsked = [n \in DOMAIN @ |->
    IF @[n].answers = <<>> THEN [@[n] EXCEPT !.answers = <<answer>>] ELSE @[n]]]

FinishClosing(s) ==
  TellCaller([s EXCEPT !.dialog.shown = FALSE, !.dialog.picture = FALSE], FALSE)

\* close().  Dropping the grab calls close() again, whose fade Clutter may
\* keep (keeps) when the dialog is hidden at once.
Close(s, instantly, keeps) ==
  CASE instantly ->
         [FinishClosing(s) EXCEPT !.dialog.grabbed = FALSE,
            !.dialog.fading = keeps /\ (@ \/ s.dialog.grabbed)]
    [] ~instantly /\ s.dialog.shown ->
         [s EXCEPT !.dialog.grabbed = FALSE, !.dialog.fading = TRUE]
    [] OTHER -> [FinishClosing(s) EXCEPT !.dialog.grabbed = FALSE, !.dialog.fading = FALSE]

\* the part of open() after the stage was grabbed
Raise(s, grabs, keeps) ==
  IF grabs \/ s.dialog.grabbed
  THEN [s EXCEPT !.dialog.grabbed = TRUE, !.dialog.shown = TRUE, !.dialog.fading = FALSE]
  ELSE Close(s, TRUE, keeps)

\* grab_screenshot_content(): a texture or an error, delivered later
Grabbed(paints) == IF paints THEN "texture" ELSE "error"
StageToContent(s, paints) ==
  IF UiWayland THEN [s EXCEPT !.dialog.opening = Grabbed(paints)]
  ELSE [s EXCEPT !.dialog.opening = "painting", !.dialog.unredirect = @ + 1]

Open(s, castable, paints, grabs, keeps) ==
  IF s.dialog.opening # "no" \/ s.dialog.cast THEN s
  ELSE LET moded == [s EXCEPT !.dialog.castable = castable]
       IN IF s.dialog.shown THEN Raise(moded, grabs, keeps) ELSE StageToContent(moded, paints)

---------------------------------------------------------------------------
\* InteractiveScreenshotAsync() of an allowed sender
InteractiveScreenshot(paints, grabs, keeps) ==
  /\ Len(uiAsked) < MaxAsked
  /\ UiBecomes(Open([UI EXCEPT !.uiAsked = Append(@, [answers |-> <<>>, casting |-> ui.cast])],
                    FALSE, paints, grabs, keeps))
ShowScreenshotUI(paints, grabs, keeps) == UiBecomes(Open(UI, TRUE, paints, grabs, keeps))

\* screenshot_stage_to_content_on_after_paint()
ContentAfterPaint(paints) ==
  /\ ui.opening = "painting"
  /\ UiBecomes([UI EXCEPT !.dialog.opening = Grabbed(paints), !.dialog.unredirect = @ - 1])
\* the coroutine of open() goes on, with or without a picture of the stage
ContentFinish(grabs, keeps) ==
  /\ ui.opening \in {"texture", "error"}
  /\ UiBecomes(Raise([UI EXCEPT !.dialog.picture = ui.opening = "texture", !.dialog.opening = "no"],
                     grabs, keeps))

\* the key that takes a screenshot without the dialog
ScreenshotKey ==
  /\ ui.keyShots < MaxAsked /\ ~UiWayland
  /\ UiBecomes([UI EXCEPT !.dialog.keyShots = @ + 1, !.dialog.unredirect = @ + 1])
KeyShotAfterPaint ==
  /\ ui.keyShots > 0
  /\ UiBecomes([UI EXCEPT !.dialog.keyShots = @ - 1, !.dialog.unredirect = @ - 1])

\* the capture button: of the stage, or of a window that has a picture.
\* Without a picture there is nothing to save and the dialog closes.
CaptureClicked(window) ==
  /\ ui.shown /\ ui.saving < MaxAsked
  /\ UiBecomes(IF ui.picture \/ window THEN [UI EXCEPT !.dialog.saving = @ + 1]
               ELSE Close(UI, FALSE, FALSE))
\* composite_to_stream() ends and _storeScreenshot() may fail to save a file
CompositeSaved(stored) ==
  /\ ui.saving > 0
  /\ LET saved == [UI EXCEPT !.dialog.saving = @ - 1]
     IN UiBecomes(Close(IF stored THEN TellCaller(saved, TRUE) ELSE saved, FALSE, FALSE))

\* Escape and the close button; the fade ends; the session mode or the
\* monitors change
CloseClicked == ui.shown /\ UiBecomes(Close(UI, FALSE, FALSE))
FadeEnds == ui.fading /\ UiBecomes(FinishClosing([UI EXCEPT !.dialog.fading = FALSE]))
SessionUpdated(keeps) == UiBecomes(Close(UI, TRUE, keeps))

StartScreencast(keeps) ==
  /\ ui.shown /\ ui.castable
  /\ UiBecomes([Close(UI, TRUE, keeps) EXCEPT !.dialog.cast = TRUE])
\* the recording stops or fails, or its service crashed and is tried again
EndScreencast(retry, keeps) ==
  /\ ui.cast
  /\ UiBecomes(IF retry THEN Close(UI, TRUE, keeps) ELSE [UI EXCEPT !.dialog.cast = FALSE])

---------------------------------------------------------------------------
UiInit ==
  /\ ui = [shown |-> FALSE, grabbed |-> FALSE, fading |-> FALSE, opening |-> "no", picture |-> FALSE,
           castable |-> FALSE, cast |-> FALSE, saving |-> 0, keyShots |-> 0, unredirect |-> 0]
  /\ uiAsked = <<>>
UiNext ==
  \/ \E paints, grabs, keeps \in BOOLEAN : InteractiveScreenshot(paints, grabs, keeps)
  \/ \E paints, grabs, keeps \in BOOLEAN : ShowScreenshotUI(paints, grabs, keeps)
  \/ \E paints \in BOOLEAN : ContentAfterPaint(paints)
  \/ \E grabs, keeps \in BOOLEAN : ContentFinish(grabs, keeps)
  \/ ScreenshotKey
  \/ KeyShotAfterPaint
  \/ \E window \in BOOLEAN : CaptureClicked(window)
  \/ \E stored \in BOOLEAN : CompositeSaved(stored)
  \/ CloseClicked
  \/ FadeEnds
  \/ \E keeps \in BOOLEAN : SessionUpdated(keeps)
  \/ \E keeps \in BOOLEAN : StartScreencast(keeps)
  \/ \E retry, keeps \in BOOLEAN : EndScreencast(retry, keeps)
UiSpec == UiInit /\ [][UiNext]_uiVars

---------------------------------------------------------------------------
(* Once the dialog is gone and is not on its way, every interactive call   *)
(* that could open it has its answer (the handlers InteractiveScreenshot-  *)
(* Async() connects), and unredirection is disabled only for grabs that    *)
(* still wait for a paint.  A call made while a screencast is recorded is  *)
(* left out: open() returns at once and nothing answers it.                *)
GoneDialogOwesNothing ==
  /\ ~ui.shown /\ ui.opening = "no" =>
       \A n \in DOMAIN uiAsked : uiAsked[n].casting \/ uiAsked[n].answers # <<>>
  /\ ui.unredirect = ui.keyShots + (IF ui.opening = "painting" THEN 1 ELSE 0)

---------------------------------------------------------------------------
(***************************************************************************)
(* What is saved.  shell-screenshot.c turns a Cairo surface, whose colours *)
(* are premultiplied by alpha, into the straight colours of a GdkPixbuf    *)
(* (util_pixbuf_from_surface()).  A surface is a format, and a function    *)
(* from columns and rows to pixels of one colour channel and an alpha.     *)
(***************************************************************************)
CONSTANTS
  Alphas,       \* the alphas that pixels have, in 0 .. 255
  Span          \* surfaces are Span by Span pixels
ASSUME PixelsAssumption == Alphas \subseteq 0 .. 255 /\ Span \in Nat

Opaque == 255
Formats == {"argb32", "rgb24", "window"}   \* "window": an image elsewhere, with alpha
HasAlpha(format) == format # "rgb24"
Coords == 0 .. Span - 1

VARIABLES surface, offset, pixbuf
pixelVars == <<surface, offset, pixbuf>>
NoPixbuf == <<>>

---------------------------------------------------------------------------
\* util_cairo_format_for_content() of the content with colours
FormatForContent(format) == IF HasAlpha(format) THEN "argb32" ELSE "rgb24"

\* util_cairo_surface_coerce_to_image(): paints the part that is wanted
\* into a new image; what lies outside of the surface is transparent
Beyond == [alpha |-> 0, color |-> 0]
PixelAt(s, x, y) == IF x \in Coords /\ y \in Coords THEN s.pixels[<<x, y>>] ELSE Beyond
CoerceToImage(s, dx, dy) ==
  [format |-> FormatForContent(s.format),
   pixels |-> [c \in Coords \X Coords |-> PixelAt(s, c[1] + dx, c[2] + dy)]]

\* Mutant: the division rounds down.
StraightDown(p) == IF p.alpha = 0 THEN 0 ELSE (p.color * 255) \div p.alpha
\* convert_alpha() of a pixel, rounded to the nearest straight colour
Straight(p) == IF p.alpha = 0 THEN 0 ELSE (p.color * 255 + p.alpha \div 2) \div p.alpha
ConvertAlpha(s, x, y) == [alpha |-> PixelAt(s, x, y).alpha, color |-> Straight(PixelAt(s, x, y))]
ConvertNoAlpha(s, x, y) == [alpha |-> Opaque, color |-> PixelAt(s, x, y).color]

\* the pixels of the rest of the surface from (dx, dy) on
PixbufOf(image, hasAlpha, dx, dy) ==
  [c \in (0 .. Span - 1 - offset[1]) \X (0 .. Span - 1 - offset[2]) |->
     IF hasAlpha THEN ConvertAlpha(image, c[1] + dx, c[2] + dy)
     ELSE ConvertNoAlpha(image, c[1] + dx, c[2] + dy)]
PixbufFromSurface(s, dx, dy) ==
  IF s.format = FormatForContent(s.format) THEN PixbufOf(s, HasAlpha(s.format), dx, dy)
  ELSE PixbufOf(CoerceToImage(s, dx, dy), HasAlpha(s.format), 0, 0)

---------------------------------------------------------------------------
\* a premultiplied colour is at most its alpha.  Pixels outside of the
\* diagonal are opaque, so that the surfaces stay few.
Pixels == UNION {{[alpha |-> a, color |-> c] : c \in 0 .. a} : a \in Alphas}
SurfaceOf(format, p) ==
  [format |-> format,
   pixels |-> [c \in Coords \X Coords |->
     IF c[1] = c[2] /\ HasAlpha(format) THEN p ELSE [alpha |-> Opaque, color |-> (7 * c[1] + c[2]) % 256]]]
Fresh == SurfaceOf("rgb24", Beyond)
PixelInit == surface = Fresh /\ offset = <<0, 0>> /\ pixbuf = NoPixbuf
\* a screenshot of a surface
Convert(format, p, dx, dy) ==
  /\ surface = Fresh /\ pixbuf = NoPixbuf
  /\ surface' = SurfaceOf(format, p) /\ offset' = <<dx, dy>>
  /\ UNCHANGED pixbuf
Save ==
  /\ pixbuf = NoPixbuf
  /\ pixbuf' = PixbufFromSurface(surface, offset[1], offset[2])
  /\ UNCHANGED <<surface, offset>>
PixelNext ==
  \/ \E format \in Formats, p \in Pixels, dx, dy \in Coords : Convert(format, p, dx, dy)
  \/ Save
PixelSpec == PixelInit /\ [][PixelNext]_pixelVars

---------------------------------------------------------------------------
\* Cairo's multiplication of a straight colour by alpha, to the nearest
Premultiplied(q) == (q.color * q.alpha + 127) \div 255

(* No colour is lost: a pixel of the pixbuf, premultiplied again, is the   *)
(* pixel of the surface at its place, of whatever format the surface is    *)
(* and wherever the part begins that is saved (convert_alpha(),            *)
(* convert_no_alpha() and the offsets of util_pixbuf_from_surface()).      *)
PixelsAreKept ==
  pixbuf # NoPixbuf =>
    \A c \in DOMAIN pixbuf :
      LET from == surface.pixels[<<c[1] + offset[1], c[2] + offset[2]>>]
      IN pixbuf[c].alpha = from.alpha /\ pixbuf[c].color \in 0 .. 255 /\ Premultiplied(pixbuf[c]) = from.color

=============================================================================
