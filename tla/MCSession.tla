------------------------------ MODULE MCSession -----------------------------
(***************************************************************************)
(* Two machines of a user's session in small: the break reminders and the  *)
(* stack of modal actors.  They have no variable in common, so a behaviour *)
(* is one of one of them, chosen at the start.                             *)
(***************************************************************************)
EXTENDS BreakManager, ModalStack

\* A short frequent break, and one that is as frequent or rarer but longer.
MCTypeSettings ==
  [eyesight |-> {[duration |-> 1, interval |-> 2, delay |-> 1]},
   movement |-> {[duration |-> 3, interval |-> 2, delay |-> 2],
                 [duration |-> 3, interval |-> 4, delay |-> 2]}]

MCClockSteps == {-2, 3}

CONSTANT Machines   \* the machines a run is about
VARIABLE machine    \* the machine a behaviour is about

SessionInit ==
  /\ machine \in Machines
  /\ Init /\ (machine # "breaks" => conf = [b \in BreakTypes |-> CHOOSE r \in TypeSettings[b] : TRUE])
  /\ ModalInit

SessionNext ==
  \/ machine = "breaks" /\ Next /\ UNCHANGED <<machine, modalVars>>
  \/ machine = "modals" /\ ModalNext /\ UNCHANGED <<machine, vars>>

SessionSpec == SessionInit /\ [][SessionNext]_<<machine, vars, modalVars>>
=============================================================================
