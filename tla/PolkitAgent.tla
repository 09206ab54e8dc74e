---------------------------- MODULE PolkitAgent ----------------------------
(* src/shell-polkit-authentication-agent.c with the AuthenticationAgent of  *)
(* js/ui/components/polkitAgent.js: authentication requests are shown one   *)
(* at a time and answered once.  polkit may cancel a request at any time,   *)
(* which is handled in an idle that holds the request itself, not a         *)
(* reference to it: what the idle does after the request was freed is       *)
(* undefined, and the model takes it for the end of the program.            *)
EXTENDS Naturals, Sequences, SequencesExt

CONSTANTS
  AuthRequests,    \* the requests of polkit
  MaxLocks         \* how often the session mode is updated

NoAuth == "nobody"
ASSUME PolkitAssumption == NoAuth \notin AuthRequests

VARIABLES
  auth,        \* scheduled, current, the state and the number of answers of each request,
               \* the dialogs that are open, the one the agent knows, the dialogs
               \* whose "done" is gone, and the initiations that wait for "updated"
  idles,       \* the requests that idles hold
  registered,
  locked,
  locks,
  crashed      \* an idle used a request that was freed

polkitVars == <<auth, idles, registered, locked, locks, crashed>>

---------------------------------------------------------------------------
\* _onInitiate(): a dialog, or in a locked session an "updated" handler.  A
\* dialog that fails to open while it is made emits "done" before the agent
\* listens to it.
OnInitiate(s, r, isLocked, opens) ==
  IF isLocked THEN [s EXCEPT !.waiting = Append(@, r)]
  ELSE [s EXCEPT !.known = r, !.open = @ \cup {r}, !.done = IF opens THEN @ \ {r} ELSE @ \cup {r}]

\* maybe_process_next_request() with auth_request_initiate().
MaybeProcessNextRequest(s, isLocked, opens) ==
  IF s.current # NoAuth \/ s.scheduled = <<>> THEN s
  ELSE OnInitiate([s EXCEPT !.current = Head(s.scheduled), !.scheduled = Tail(@),
                            !.state[Head(s.scheduled)] = "current"], Head(s.scheduled), isLocked, opens)

\* g_list_remove() of a request, which a list holds once if at all.
ListRemove(list, r) ==
  LET places == {i \in DOMAIN list : list[i] = r}
  IN IF places = {} THEN list ELSE RemoveAt(list, CHOOSE i \in places : TRUE)

\* auth_request_complete(): the request is answered and freed.
Answered(s, r) ==
  [s EXCEPT !.scheduled = ListRemove(@, r), !.state[r] = "freed", !.answers[r] = @ + 1]
AuthRequestComplete(s, r, isLocked, opens) ==
  IF s.current # r THEN Answered(s, r)
  ELSE MaybeProcessNextRequest([Answered(s, r) EXCEPT !.current = NoAuth], isLocked, opens)

\* shell_polkit_authentication_agent_complete() does nothing without a
\* current request.
Complete(s, isLocked, opens) ==
  IF s.current = NoAuth THEN s ELSE AuthRequestComplete(s, s.current, isLocked, opens)
\* _completeRequest(): closes the dialog the agent knows, and throws when it
\* knows none.
CompleteRequest(s, isLocked, opens) ==
  IF s.known = NoAuth THEN s
  ELSE Complete([s EXCEPT !.open = @ \ {s.known}, !.known = NoAuth, !.waiting = <<>>], isLocked, opens)

---------------------------------------------------------------------------
AgentUp == ~crashed
\* initiate_authentication()
InitiateAuthentication(r, opens) ==
  /\ AgentUp /\ registered /\ auth.state[r] = "new"
  /\ auth' = MaybeProcessNextRequest([auth EXCEPT !.scheduled = Append(@, r), !.state[r] = "scheduled"], locked, opens)
  /\ UNCHANGED <<idles, registered, locked, locks, crashed>>

\* The 'done' of a dialog, dismissed or not.
DialogDone(r, opens) ==
  /\ AgentUp /\ r \in auth.open \ auth.done
  /\ auth' = CompleteRequest([auth EXCEPT !.done = @ \cup {r}], locked, opens)
  /\ UNCHANGED <<idles, registered, locked, locks, crashed>>

\* on_request_cancelled()
OnRequestCancelled(r) ==
  /\ AgentUp /\ auth.state[r] \in {"scheduled", "current"} /\ r \notin idles
  /\ idles' = idles \cup {r}
  /\ UNCHANGED <<auth, registered, locked, locks, crashed>>

\* handle_cancelled_in_idle()
HandleCancelledInIdle(r, opens) ==
  /\ AgentUp /\ r \in idles
  /\ idles' = idles \ {r}
  /\ crashed' = (auth.state[r] = "freed")
  /\ auth' = IF auth.state[r] = "freed" THEN auth
             ELSE IF auth.current = r THEN CompleteRequest(auth, locked, opens)
             ELSE AuthRequestComplete(auth, r, locked, opens)
  /\ UNCHANGED <<registered, locked, locks>>

\* shell_polkit_authentication_agent_unregister(): everything is dismissed; the
\* dialogs of the agent are left as they are.
Unregister ==
  /\ AgentUp /\ registered /\ registered' = FALSE
  /\ LET waited == {auth.scheduled[i] : i \in DOMAIN auth.scheduled}
         dismissed == [auth EXCEPT !.scheduled = <<>>,
                         !.state = [r \in AuthRequests |-> IF r \in waited THEN "freed" ELSE @[r]],
                         !.answers = [r \in AuthRequests |-> IF r \in waited THEN @[r] + 1 ELSE @[r]]]
     IN auth' = IF dismissed.current = NoAuth THEN dismissed
                ELSE AuthRequestComplete(dismissed, dismissed.current, locked, TRUE)
  /\ UNCHANGED <<idles, locked, locks, crashed>>
Register ==
  /\ AgentUp /\ ~registered /\ registered' = TRUE
  /\ UNCHANGED <<auth, idles, locked, locks, crashed>>

\* The "updated" of the session mode: the first handler that waits disconnects
\* them all and initiates again.
ShieldChanges(isLocked, opens) ==
  /\ AgentUp /\ locks < MaxLocks /\ locks' = locks + 1
  /\ locked' = isLocked
  /\ auth' = IF auth.waiting = <<>> THEN auth
             ELSE OnInitiate([auth EXCEPT !.waiting = <<>>], Head(auth.waiting), isLocked, opens)
  /\ UNCHANGED <<idles, registered, crashed>>

PolkitInit ==
  /\ auth = [scheduled |-> <<>>, current |-> NoAuth, state |-> [r \in AuthRequests |-> "new"],
             answers |-> [r \in AuthRequests |-> 0], open |-> {}, known |-> NoAuth, done |-> {}, waiting |-> <<>>]
  /\ idles = {} /\ registered = TRUE /\ locked = FALSE /\ locks = 0 /\ crashed = FALSE
PolkitNext ==
  \/ \E r \in AuthRequests, opens \in BOOLEAN :
       InitiateAuthentication(r, opens) \/ DialogDone(r, opens) \/ HandleCancelledInIdle(r, opens)
  \/ \E r \in AuthRequests : OnRequestCancelled(r)
  \/ Unregister \/ Register
  \/ \E isLocked, opens \in BOOLEAN : ShieldChanges(isLocked, opens)
PolkitSpec == PolkitInit /\ [][PolkitNext]_polkitVars

---------------------------------------------------------------------------
(* Properties *)

\* Whatever is cancelled, answered or dismissed in whatever order, polkit has
\* one answer to every request that left the agent and none to the others, and
\* a request waits in the queue only behind a current one: whoever completes that
\* takes the next.  Whether a dialog shows the current request is not said: one that
\* failed to open, or waits for an unlocked session, is current all the same
\* (auth_request_complete() and maybe_process_next_request()).
RequestsTakeTurns ==
  /\ \A r \in AuthRequests : auth.answers[r] = (IF auth.state[r] = "freed" THEN 1 ELSE 0)
  /\ auth.scheduled # <<>> => auth.current # NoAuth
=============================================================================
