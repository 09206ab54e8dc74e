------------------------------ MODULE AppMirror ------------------------------
(***************************************************************************)
(* What ShellAppCache promises ShellAppSystem: a copy of what is installed *)
(* that lags behind, and never goes back to something older.               *)
(***************************************************************************)
EXTENDS Integers

VARIABLES installed, copy   \* number of the last change, and the one copied

MirrorInit == installed = 0 /\ copy = 0

Install == installed' = installed + 1 /\ UNCHANGED copy

Publish ==
  /\ copy' \in copy..installed
  /\ UNCHANGED installed

MirrorNext == Install \/ Publish
MirrorSpec == MirrorInit /\ [][MirrorNext]_<<installed, copy>>
=============================================================================
