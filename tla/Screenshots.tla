----------------------------- MODULE Screenshots ----------------------------
(***************************************************************************)
(* The screenshot service of js/ui/screenshot.js and the ShellScreenshot   *)
(* objects it takes pictures with (shell-screenshot.c).  A call of the     *)
(* service waits for the check of its sender, makes an object and a        *)
(* stream, grabs the image, lets a thread write it, waits for the flash    *)
(* and is answered.  Under X11 the image is grabbed after the next paint.  *)
(***************************************************************************)
EXTENDS Integers, Sequences, FiniteSets

CONSTANTS
  Callers,       \* D-Bus senders
  Wayland,       \* meta_is_wayland_compositor ()
  MaxCalls       \* bound on the calls of a behaviour

VARIABLES
  calls,       \* the calls so far: [caller, kind, flash, phase, wrote, answers]
  shooter,     \* _screenShooter: the call each caller's object is for, or none
  checker,     \* whether the sender checker knows all its names
  unredirect,  \* how often unredirection is disabled
  threw        \* a missing image was used
screenshotVars == <<calls, shooter, checker, unredirect, threw>>

NoShooter == 0
Kinds == {"screen", "area", "window", "pick"}
Picture(kind) == kind # "pick"
State == [calls |-> calls, shooter |-> shooter, unredirect |-> unredirect, threw |-> threw]
CallBecomes(s) == /\ calls' = s.calls /\ shooter' = s.shooter
              /\ unredirect' = s.unredirect /\ threw' = s.threw

---------------------------------------------------------------------------
RemoveShooterForSender(s, n) == [s EXCEPT !.shooter[s.calls[n].caller] = NoShooter]
Reply(s, n, answer) ==
  [s EXCEPT !.calls[n].answers = Append(@, answer), !.calls[n].phase = "done"]
\* the finally of the calls' handlers
ReplyAndRemove(s, n, answer) == RemoveShooterForSender(Reply(s, n, answer), n)

\* do_grab_screenshot(): nobody looks whether there is an image, which the
\* thread that writes it then reads
DoGrab(s, n, paints) ==
  IF paints THEN [s EXCEPT !.calls[n].phase = "writing"] ELSE [s EXCEPT !.threw = TRUE]
\* "screenshot-taken" starts the flash
ShotTaken(s, n) == [s EXCEPT !.calls[n].flash = IF @ = "wanted" THEN "running" ELSE @]
GrabScreenshot(s, n, paints) == ShotTaken(DoGrab(s, n, paints), n)

\* a window without an image is an error of the inner task, dropped by
\* on_screenshot_written()
GrabWindow(s, n, captures) ==
  IF captures THEN ShotTaken([s EXCEPT !.calls[n].phase = "writing"], n)
  ELSE [s EXCEPT !.calls[n].phase = "written"]

ShootWindow(s, n, focus, captures) ==
  IF focus THEN GrabWindow(s, n, captures) ELSE ReplyAndRemove(s, n, "failure")
ShootStage(s, n, paints) ==
  IF Wayland THEN GrabScreenshot(s, n, paints)
  ELSE [s EXCEPT !.calls[n].phase = "painting", !.unredirect = @ + 1]

\* Mutant: an error of the stream leaves the caller's object behind.
StreamFailsReplyOnly(s, n) == Reply(s, n, "error")
StreamFails(s, n) == ReplyAndRemove(s, n, "error")

\* what the world does to a call that is let in: whether its stream can be
\* made, whether a window has the focus, whether the grab succeeds
Outcomes == [stream : BOOLEAN, focus : BOOLEAN, grabs : BOOLEAN]
Proceed(s, n, o) ==
  CASE s.calls[n].kind = "pick" -> [s EXCEPT !.calls[n].phase = "picking"]
    [] Picture(s.calls[n].kind) /\ ~o.stream -> StreamFails(s, n)
    [] s.calls[n].kind = "window" /\ o.stream -> ShootWindow(s, n, o.focus, o.grabs)
    [] OTHER -> ShootStage(s, n, o.grabs)
CreateScreenshot(s, n, o) == Proceed([s EXCEPT !.shooter[s.calls[n].caller] = n], n, o)

\* the part of _createScreenshot() before it waits, or for PickColor all of it
Enter(s, n, lockedDown, allowed, o) ==
  CASE s.shooter[s.calls[n].caller] # NoShooter -> Reply(s, n, "busy")
    [] s.shooter[s.calls[n].caller] = NoShooter /\ lockedDown /\ Picture(s.calls[n].kind) -> Reply(s, n, "denied")
    [] OTHER -> IF ~Picture(s.calls[n].kind) THEN CreateScreenshot(s, n, o)
                ELSE IF ~checker THEN s
                ELSE IF allowed THEN CreateScreenshot(s, n, o) ELSE Reply(s, n, "denied")

---------------------------------------------------------------------------
(* The steps.  The calls that waited for the checker go on in their order  *)
(* before anything else happens.                                           *)

Waiting == {n \in DOMAIN calls : calls[n].phase = "checking"}
Runs == ~threw /\ (checker => Waiting = {})

NewCall(caller, kind, flash) ==
  [caller |-> caller, kind |-> kind, flash |-> IF flash THEN "wanted" ELSE "none",
   phase |-> "checking", wrote |-> FALSE, answers |-> <<>>]
MakeCall(caller, kind, flash, lockedDown, allowed, o) ==
  /\ Runs /\ Len(calls) < MaxCalls
  /\ CallBecomes(Enter([State EXCEPT !.calls = Append(@, NewCall(caller, kind, flash))],
                   Len(calls) + 1, lockedDown, allowed, o))
  /\ UNCHANGED checker
\* the parameters of an area are looked at before anything else
BadArea(caller) ==
  /\ Runs /\ Len(calls) < MaxCalls
  /\ calls' = Append(calls, [NewCall(caller, "area", FALSE) EXCEPT !.phase = "done", !.answers = <<"error">>])
  /\ UNCHANGED <<shooter, checker, unredirect, threw>>

CheckAndResolveInitialized ==
  /\ ~checker /\ ~threw
  /\ checker' = TRUE
  /\ UNCHANGED <<calls, shooter, unredirect, threw>>
CheckInvocation(n, allowed, o) ==
  /\ checker /\ ~threw
  /\ n \in Waiting /\ \A m \in Waiting : n <= m
  /\ CallBecomes(IF allowed THEN CreateScreenshot(State, n, o) ELSE Reply(State, n, "denied"))
  /\ UNCHANGED checker

\* on_after_paint()
AfterPaintOf(s, n, paints) == [GrabScreenshot(s, n, paints) EXCEPT !.unredirect = @ - 1]
AfterPaint(n, paints) ==
  /\ Runs /\ n \in DOMAIN calls /\ calls[n].phase = "painting"
  /\ CallBecomes(AfterPaintOf(State, n, paints))
  /\ UNCHANGED checker

\* write_screenshot_thread(), and on_screenshot_written() when it ends
Written(n, ok) ==
  /\ Runs /\ n \in DOMAIN calls /\ calls[n].phase = "writing"
  /\ calls' = [calls EXCEPT ![n].phase = "written", ![n].wrote = ok]
  /\ UNCHANGED <<shooter, checker, unredirect, threw>>
FlashFired(n) ==
  /\ Runs /\ n \in DOMAIN calls /\ calls[n].flash = "running"
  /\ calls' = [calls EXCEPT ![n].flash = "none"]
  /\ UNCHANGED <<shooter, checker, unredirect, threw>>
\* the boolean the operation returns is not looked at, only its error; the stream
\* may fail to close
OnScreenshotComplete(n, closes) ==
  /\ Runs /\ n \in DOMAIN calls
  /\ calls[n].phase = "written" /\ calls[n].flash = "none"
  /\ CallBecomes(ReplyAndRemove(State, n, IF closes THEN "success" ELSE "failure"))
  /\ UNCHANGED checker

\* PickPixel: the pointer moves, the user clicks on a pixel or gives up
PickColor(n, paints) ==
  /\ Runs /\ n \in DOMAIN calls /\ calls[n].phase = "picking"
  /\ CallBecomes([State EXCEPT !.threw = ~paints])
  /\ UNCHANGED checker
PickDone(n, picked) ==
  /\ Runs /\ n \in DOMAIN calls /\ calls[n].phase = "picking"
  /\ CallBecomes(ReplyAndRemove(State, n, IF picked THEN "color" ELSE "failure"))
  /\ UNCHANGED checker

OnNameVanished(caller) ==
  /\ Runs /\ shooter[caller] # NoShooter
  /\ shooter' = [shooter EXCEPT ![caller] = NoShooter]
  /\ UNCHANGED <<calls, checker, unredirect, threw>>

---------------------------------------------------------------------------
ScreenshotInit ==
  /\ calls = <<>>
  /\ shooter = [c \in Callers |-> NoShooter]
  /\ checker = FALSE /\ unredirect = 0 /\ threw = FALSE
ScreenshotNext ==
  \/ \E c \in Callers, kind \in Kinds, flash, lockedDown, allowed \in BOOLEAN, o \in Outcomes :
       MakeCall(c, kind, flash, lockedDown, allowed, o)
  \/ \E c \in Callers : BadArea(c)
  \/ CheckAndResolveInitialized
  \/ \E n \in 1 .. MaxCalls, allowed \in BOOLEAN, o \in Outcomes : CheckInvocation(n, allowed, o)
  \/ \E n \in 1 .. MaxCalls, paints \in BOOLEAN : AfterPaint(n, paints)
  \/ \E n \in 1 .. MaxCalls, ok \in BOOLEAN : Written(n, ok)
  \/ \E n \in 1 .. MaxCalls : FlashFired(n)
  \/ \E n \in 1 .. MaxCalls, closes \in BOOLEAN : OnScreenshotComplete(n, closes)
  \/ \E n \in 1 .. MaxCalls, paints \in BOOLEAN : PickColor(n, paints)
  \/ \E n \in 1 .. MaxCalls, picked \in BOOLEAN : PickDone(n, picked)
  \/ \E c \in Callers : OnNameVanished(c)
ScreenshotSpec == ScreenshotInit /\ [][ScreenshotNext]_screenshotVars

---------------------------------------------------------------------------
(* A screenshot leaves nothing behind, however it ends: the object of a    *)
(* caller, for which further calls of it are told to be busy, belongs to a *)
(* call that is still under way, and unredirection is disabled for as many *)
(* grabs as wait for a paint, so that it comes back in the end             *)
(* (_removeShooterForSender() and on_after_paint()).                       *)
ScreenshotsCleanUp ==
  ~threw =>
    /\ \A c \in Callers : shooter[c] # NoShooter => calls[shooter[c]].phase # "done"
    /\ unredirect = Cardinality({n \in DOMAIN calls : calls[n].phase = "painting"})

(* A call that is answered with success has saved a picture: the operation *)
(* "returns a boolean indicating whether the operation was successful or   *)
(* not" (data/dbus-interfaces/org.gnome.Shell.Screenshot.xml).             *)
SuccessIsSaved ==
  \A n \in DOMAIN calls : calls[n].answers = <<"success">> => calls[n].wrote

=============================================================================
