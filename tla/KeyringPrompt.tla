--------------------------- MODULE KeyringPrompt ---------------------------
(* src/shell-keyring-prompt.c with the dialog of js/ui/components/keyring.js: *)
(* the daemon asks for a password or a confirmation, one at a time, and is  *)
(* answered when the user is done.  The answer is handed over while the     *)
(* function that answers still runs: the daemon's callback may ask for the  *)
(* next prompt before it returns.  A password is the sequence of the        *)
(* classes of its characters.                                               *)
EXTENDS Integers, Sequences, FiniteSets

CONSTANTS
  Passwords,       \* the passwords that are typed
  Paranoid,        \* GNOME_KEYRING_PARANOID is set
  MaxPrompts

ASSUME PromptAssumption == MaxPrompts \in Nat

Modes == {"password", "confirm"}

VARIABLES
  prompt,      \* mode, the prompt its task is for, shown, warning, password_new, strength
  typed,       \* the text of the two entries
  handing,     \* the answer that is being handed over, or none
  answers,     \* the answers of every prompt
  prompts

promptVars == <<prompt, typed, handing, answers, prompts>>

NoTask == 0
NotHanding == <<>>

---------------------------------------------------------------------------
\* calculate_password_strength()
Capped(n, most) == IF n > most THEN most ELSE n
Count(password, class) == Cardinality({i \in DOMAIN password : password[i] = class})
PasswordStrength(password) ==
  LET points == 2 * (Capped(Len(password), 5) - 2) + 2 * Capped(Count(password, "digit"), 3)
                + 3 * Capped(Count(password, "misc"), 3) + 2 * Capped(Count(password, "upper"), 3)
  IN IF password = <<>> THEN 0 ELSE Capped(IF points < 2 THEN 2 ELSE points, 20) \div 2

\* gcr_prompt_close() with shell_keyring_prompt_close(), when it is shown.
Closed(p) == [p EXCEPT !.shown = FALSE]
\* The task is taken and the mode reset before the task returns.
Taken(p) == [p EXCEPT !.task = NoTask, !.mode = "none"]

AnswerPrompt(n, answer) == [answers EXCEPT ![n] = Append(@, answer)]

---------------------------------------------------------------------------
\* shell_keyring_prompt_password_async(), shell_keyring_prompt_confirm_async():
\* a second prompt is refused and changes nothing; a dialog that does not open cancels at once.
AskedFor(p, mode, new) == [p EXCEPT !.mode = mode, !.task = prompts + 1, !.shown = TRUE, !.new = new]
PromptAsync(mode, new, opens) ==
  /\ prompts < MaxPrompts /\ prompt.task = NoTask
  /\ prompts' = prompts + 1
  /\ IF opens
     THEN /\ prompt' = AskedFor(prompt, mode, new)
          /\ typed' = IF mode = "password" THEN [typed EXCEPT !.password = <<>>] ELSE [typed EXCEPT !.confirm = <<>>]
          /\ UNCHANGED answers
     ELSE /\ prompt' = Taken(AskedFor(prompt, mode, new))
          /\ answers' = AnswerPrompt(prompts + 1, "cancel")
          /\ UNCHANGED typed
  /\ UNCHANGED handing

\* The user types; on_password_changed().
Type(entry, password) ==
  /\ prompt.mode = "password" /\ typed[entry] # password
  /\ typed' = [typed EXCEPT ![entry] = password]
  /\ prompt' = IF entry = "password" THEN [prompt EXCEPT !.strength = PasswordStrength(password)] ELSE prompt
  /\ UNCHANGED <<handing, answers, prompts>>

\* shell_keyring_prompt_complete()
Refused == prompt.mode = "password" /\ prompt.new /\ (typed.password # typed.confirm \/ Paranoid)
CompletePrompt ==
  /\ handing = NotHanding /\ prompt.mode # "none" /\ prompt.task # NoTask
  /\ IF Refused
     THEN /\ prompt' = [prompt EXCEPT !.warning = IF typed.password # typed.confirm THEN "mismatch" ELSE "blank"]
          /\ UNCHANGED handing
     ELSE /\ prompt' = Taken(prompt)
          /\ handing' = <<prompt.task, "continue">>
  /\ UNCHANGED <<typed, answers, prompts>>

\* shell_keyring_prompt_cancel()
CancelPrompt ==
  /\ handing = NotHanding
  /\ IF prompt.mode = "none"
     THEN /\ prompt.shown /\ prompt' = Closed(prompt)
          /\ UNCHANGED handing
     ELSE /\ prompt.task # NoTask /\ prompt' = Taken(prompt)
          /\ handing' = <<prompt.task, "cancel">>
  /\ UNCHANGED <<typed, answers, prompts>>

\* g_task_return_*() calls back; what the callback asks for comes in between.
HandOver ==
  /\ handing # NotHanding
  /\ answers' = AnswerPrompt(handing[1], handing[2])
  /\ handing' = NotHanding
  /\ UNCHANGED <<prompt, typed, prompts>>

\* The daemon closes the prompt.
ClosePrompt ==
  /\ handing = NotHanding /\ prompt.shown
  /\ prompt' = Closed(prompt)
  /\ UNCHANGED <<typed, handing, answers, prompts>>

\* shell_keyring_prompt_dispose(): the task it cancels is handed over too.
DisposePrompt ==
  /\ handing = NotHanding /\ prompt.task # NoTask
  /\ prompt' = Taken(Closed(prompt))
  /\ handing' = <<prompt.task, "cancel">>
  /\ UNCHANGED <<typed, answers, prompts>>

PromptInit ==
  /\ prompt = [mode |-> "none", task |-> NoTask, shown |-> FALSE, warning |-> "none", new |-> FALSE, strength |-> 0]
  /\ typed = [password |-> <<>>, confirm |-> <<>>]
  /\ handing = NotHanding /\ answers = [n \in 1 .. MaxPrompts |-> <<>>] /\ prompts = 0
PromptNext ==
  \/ \E mode \in Modes, new, opens \in BOOLEAN : PromptAsync(mode, new, opens)
  \/ \E entry \in {"password", "confirm"}, password \in Passwords : Type(entry, password)
  \/ CompletePrompt \/ CancelPrompt \/ HandOver \/ ClosePrompt \/ DisposePrompt
PromptSpec == PromptInit /\ [][PromptNext]_promptVars

---------------------------------------------------------------------------
(* Properties *)

\* Every prompt that was taken is answered once, also when the next one comes
\* in the middle of its answer, and none is kept that neither completing nor
\* cancelling would end: the assertion of shell_keyring_prompt_dispose().
PromptsAnsweredOnce ==
  /\ (prompt.task = NoTask) = (prompt.mode = "none")
  /\ \A n \in 1 .. prompts :
       Len(answers[n]) = (IF prompt.task = n \/ (handing # NotHanding /\ handing[1] = n) THEN 0 ELSE 1)
=============================================================================
