------------------------- MODULE MCExtensionManager -------------------------
(* Small instances of ExtensionManager for TLC.                            *)
EXTENDS ExtensionManager

CONSTANTS A, B, C, t1, t2

\* B also runs in the lock screen; it sorts before the others.
MCThree == <<B, A, C>>
MCModes == {"user", "unlock-dialog"}
MCModesOfThree == [u \in {A, B, C} |-> IF u = B THEN MCModes ELSE {"user"}]
MCModeExtensionsOfThree == [m \in MCModes |-> IF m = "user" THEN {C} ELSE {B}]
MCTwo == <<B, A>>
MCModesOfTwo == [u \in {A, B} |-> IF u = B THEN MCModes ELSE {"user"}]
MCModeExtensionsOfTwo == [m \in MCModes |-> IF m = "user" THEN {A} ELSE {}]

=============================================================================
