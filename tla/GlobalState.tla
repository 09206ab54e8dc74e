----------------------------- MODULE GlobalState ----------------------------
(***************************************************************************)
(* Two services of src/shell-global.c: state that is saved to a file by    *)
(* worker threads, a newer save cancelling an older one, and functions     *)
(* that are run when the shell has no work.                                *)
(***************************************************************************)
EXTENDS Integers, Sequences, FiniteSets

CONSTANTS
  MaxSaves,          \* bound on the saves of a behaviour
  LeisureFunctions,  \* functions for shell_global_run_at_leisure(), each given once
  MaxWork            \* bound on the work under way at once

NoState == 0         \* no file; otherwise the file holds the number of the save

VARIABLES
  stateSaves,       \* every save: its value, whether it is cancelled, and how far it is
  saveOp,      \* save_ops: the save whose cancellable is kept for the file, or 0
  stateFile,   \* the file
  unstopped,   \* history: saves that were not stopped when a newer one came
  workCount, leisureIdle, leisureClosures,
  ran,         \* how often each function was run
  bunched      \* history: functions that waited in the list with others
globalVars == <<stateSaves, saveOp, stateFile, unstopped, workCount, leisureIdle, leisureClosures, ran, bunched>>
saveVars == <<stateSaves, saveOp, stateFile, unstopped>>
leisureVars == <<workCount, leisureIdle, leisureClosures, ran, bunched>>

---------------------------------------------------------------------------
Unfinished == {n \in DOMAIN stateSaves : stateSaves[n].state \in {"queued", "sure"}}

\* save_variant(): a value to write, or none, to delete the file
SaveVariant(delete) ==
  LET n == Len(stateSaves) + 1
      stopped == [m \in DOMAIN stateSaves |-> IF m = saveOp THEN [stateSaves[m] EXCEPT !.cancelled = TRUE] ELSE stateSaves[m]]
  IN /\ n <= MaxSaves
     /\ stateSaves' = Append(stopped, [value |-> IF delete THEN NoState ELSE n, cancelled |-> FALSE, state |-> "queued", failed |-> FALSE])
     /\ saveOp' = n
     /\ unstopped' = unstopped \cup {m \in Unfinished : ~stopped[m].cancelled \/ stateSaves[m].state = "sure"}
     /\ UNCHANGED <<stateFile, leisureVars>>

\* replace_contents_worker() or the deletion, in a thread: it looks whether
\* it is cancelled, and then replaces or deletes the file at once or fails.
WorkerChecks(n) ==
  /\ n \in DOMAIN stateSaves /\ stateSaves[n].state = "queued"
  /\ stateSaves' = [stateSaves EXCEPT ![n].state = IF stateSaves[n].cancelled THEN "returned" ELSE "sure"]
  /\ UNCHANGED <<saveOp, stateFile, unstopped, leisureVars>>
WorkerReplaces(n, ok) ==
  /\ n \in DOMAIN stateSaves /\ stateSaves[n].state = "sure"
  /\ stateFile' = IF ok THEN stateSaves[n].value ELSE stateFile
  /\ stateSaves' = [stateSaves EXCEPT ![n].state = "returned", ![n].failed = ~ok]
  /\ UNCHANGED <<saveOp, unstopped, leisureVars>>
\* replace_variant_cb(), delete_variant_cb(): out goes whatever cancellable
\* is kept for the file, a newer save's too.
SaveReturns(n) ==
  /\ n \in DOMAIN stateSaves /\ stateSaves[n].state = "returned"
  /\ stateSaves' = [stateSaves EXCEPT ![n].state = "over"] /\ saveOp' = 0
  /\ UNCHANGED <<stateFile, unstopped, leisureVars>>

---------------------------------------------------------------------------
BeginWork ==
  workCount < MaxWork /\ workCount' = workCount + 1 /\ UNCHANGED <<saveVars, leisureIdle, leisureClosures, ran, bunched>>
\* shell_global_end_work() and schedule_leisure_functions()
EndWork ==
  /\ workCount > 0 /\ workCount' = workCount - 1
  /\ leisureIdle' = (leisureIdle \/ workCount' = 0)
  /\ UNCHANGED <<saveVars, leisureClosures, ran, bunched>>
RunAtLeisure(f) ==
  /\ ran[f] = 0 /\ f \notin bunched /\ \A i \in DOMAIN leisureClosures : leisureClosures[i] # f
  /\ leisureClosures' = Append(leisureClosures, f)
  /\ leisureIdle' = (leisureIdle \/ workCount = 0)
  /\ UNCHANGED <<saveVars, workCount, ran, bunched>>
\* run_leisure_functions(): every round takes the first closure of the list,
\* which the first round has freed.  Whatever is in its place is called:
\* nothing (the process goes on by chance), or the first function again.
RunLeisureFunctions(again) ==
  LET n == Len(leisureClosures)
      runs == workCount = 0 /\ n > 0
  IN /\ leisureIdle /\ leisureIdle' = FALSE /\ again \in 0 .. (IF n > 1 THEN n - 1 ELSE 0)
     /\ ran' = IF runs THEN [ran EXCEPT ![Head(leisureClosures)] = @ + 1 + again] ELSE ran
     /\ bunched' = IF runs /\ n > 1 THEN bunched \cup {leisureClosures[i] : i \in 1 .. n} ELSE bunched
     /\ leisureClosures' = IF runs THEN <<>> ELSE leisureClosures
     /\ UNCHANGED <<saveVars, workCount>>

---------------------------------------------------------------------------
GlobalInit ==
  /\ stateSaves = <<>> /\ saveOp = 0 /\ stateFile = NoState /\ unstopped = {}
  /\ workCount = 0 /\ leisureIdle = FALSE /\ leisureClosures = <<>>
  /\ ran = [f \in LeisureFunctions |-> 0] /\ bunched = {}
SaveNext ==
  \/ \E delete \in BOOLEAN : SaveVariant(delete)
  \/ \E n \in 1 .. MaxSaves : WorkerChecks(n) \/ SaveReturns(n) \/ \E ok \in BOOLEAN : WorkerReplaces(n, ok)
LeisureNext ==
  \/ BeginWork \/ EndWork
  \/ \E f \in LeisureFunctions : RunAtLeisure(f)
  \/ \E again \in 0 .. Cardinality(LeisureFunctions) : RunLeisureFunctions(again)
GlobalNext == SaveNext \/ LeisureNext
GlobalSpec == GlobalInit /\ [][GlobalNext]_globalVars

---------------------------------------------------------------------------
\* When all saves are over the file holds what was saved last, unless that
\* failed or a save could not be stopped in time: it was past its last look
\* at its cancellable, or its cancellable had gone with an older save
\* (save_variant(), replace_variant_cb()).  Functions that wait are run when
\* there is no work, and one that waits alone is run exactly once
\* (run_leisure_functions(), shell_global_end_work()).
StateAndLeisure ==
  /\ stateSaves # <<>> /\ (\A n \in DOMAIN stateSaves : stateSaves[n].state = "over") =>
       stateFile = stateSaves[Len(stateSaves)].value \/ stateSaves[Len(stateSaves)].failed \/ unstopped # {}
  /\ leisureClosures # <<>> /\ workCount = 0 => leisureIdle
  /\ \A f \in LeisureFunctions : f \notin bunched => ran[f] <= 1
  /\ \A f \in LeisureFunctions : ran[f] > 0 => \A i \in DOMAIN leisureClosures : leisureClosures[i] # f
=============================================================================
