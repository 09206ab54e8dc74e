---------------------------- MODULE MCTimeLimits ----------------------------
(***************************************************************************)
(* TimeLimits for TLC: days of a few seconds, so that the shell runs over  *)
(* the turn of a day, and steps of the clock both ways.                    *)
(***************************************************************************)
EXTENDS TimeLimits

CONSTANT MaxLosses

\* The behaviour is followed until history has been lost in more ways than this:
\* the properties say little beyond that.  A timer that is armed wrongly loses none.
WithinLosses == Cardinality(losses \ {"timer"}) <= MaxLosses

MCClockSteps == {-1, 2}

MCStartSettings == {[history |-> TRUE, limitOn |-> TRUE, limit |-> 2]}
=============================================================================
