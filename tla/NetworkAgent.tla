---------------------------- MODULE NetworkAgent ----------------------------
(* src/shell-network-agent.c with the dialogs and notifications of          *)
(* js/ui/components/networkAgent.js: NetworkManager asks for the secrets of *)
(* a setting; the keyring is searched, or the user is asked, and            *)
(* NetworkManager is answered.  A second request of the same connection and *)
(* setting takes the place of the first.  A request is made with a serial   *)
(* number here, so that it can be told apart from one that took its place.  *)
EXTENDS Naturals, Sequences, FiniteSets

CONSTANTS
  RequestIds,      \* a connection path and a setting name
  VpnIds,          \* those whose setting is "vpn"
  AlwaysAsk,       \* those with a secret that is not saved
  MaxAgentRequests,  \* how often NetworkManager asks
  MaxStores        \* how many secrets of a connection are the agent's to save

ASSUME AgentAssumption == MaxAgentRequests \in Nat

Flags == SUBSET {"interaction", "request-new", "user"}
Serials == 1 .. MaxAgentRequests
NoCall == 0

VARIABLES
  agentRequests, \* agentRequests[id]: the serial number of what is in the table, or none
  call,        \* call[s]: what was asked for and how often it was answered
  searches,    \* the keyring searches that are under way, by serial number
  screen,      \* what the user is shown: notifications and dialogs, each for an id
  saves,       \* saves[s]: the stores that are left when the secrets are saved
  gotAsked

agentVars == <<agentRequests, call, searches, screen, saves, gotAsked>>

NotAsked == [id |-> "none", flags |-> {}, entries |-> FALSE, cancelled |-> FALSE, answers |-> 0]
Shows(kind, id) == [kind |-> kind, id |-> id]

---------------------------------------------------------------------------
\* The whole state of the agent, as its functions pass it on.
Agent == [agentRequests |-> agentRequests, call |-> call, searches |-> searches, screen |-> screen, saves |-> saves]
LiveRequests(a, id) == a.agentRequests[id] # NoCall

\* The callback of a request, and g_hash_table_remove() with
\* shell_agent_request_free(), which cancels what is under way.
AnswerRequest(a, s) == [a EXCEPT !.call[s].answers = @ + 1]
RemoveRequest(a, s) == [a EXCEPT !.agentRequests[a.call[s].id] = NoCall, !.call[s].cancelled = TRUE]
Finish(a, s) == RemoveRequest(AnswerRequest(a, s), s)

\* _cancelRequest(): the dialog of the request goes, a notification stays.
CancelShown(a, id) == [a EXCEPT !.screen = @ \ {Shows("dialog", id)}]
\* shell_agent_request_cancel()
RequestCancel(a, s) == RemoveRequest(CancelShown(AnswerRequest(a, s), a.call[s].id), s)

\* _handleRequest(): a dialog, or for a VPN the search for its plugin first.
Handled(id) == Shows(IF id \in VpnIds THEN "plugin" ELSE "dialog", id)
\* request_secrets_from_ui() with _newRequest(): a request that the user did
\* not make himself is announced first.
RequestSecretsFromUi(a, s) ==
  LET id == a.call[s].id
  IN [a EXCEPT !.call[s].entries = TRUE,
               !.screen = @ \cup {IF "user" \in a.call[s].flags THEN Handled(id) ELSE Shows("notification", id)}]

\* is_connection_always_ask(), has_always_ask(), and the flags that ask at once.
AsksUser(id, flags, force) ==
  "request-new" \in flags \/ ("interaction" \in flags /\ (force \/ id \in AlwaysAsk))

\* nm_secret_agent_old_save_secrets(): shell_network_agent_save_secrets()
\* deletes what is stored first.
SaveSecrets(a, s) == [a EXCEPT !.saves[s].phase = "deleting"]

\* shell_network_agent_respond() for what is in the table under the id.
Respond(a, id, confirmed) ==
  IF ~LiveRequests(a, id) THEN a
  ELSE LET s == a.agentRequests[id]
           saved == a.call[s].flags \cap {"interaction", "request-new"} # {}
       IN Finish(IF confirmed /\ saved THEN SaveSecrets(a, s) ELSE a, s)

---------------------------------------------------------------------------
AgentBecomes(a) ==
  /\ agentRequests' = a.agentRequests /\ call' = a.call /\ searches' = a.searches
  /\ screen' = a.screen /\ saves' = a.saves

\* shell_network_agent_get_secrets()
Made(id, flags) == [NotAsked EXCEPT !.id = id, !.flags = flags]
GetSecrets(id, flags, force) ==
  /\ gotAsked < MaxAgentRequests
  /\ gotAsked' = gotAsked + 1
  /\ LET before == IF LiveRequests(Agent, id) THEN RequestCancel(Agent, agentRequests[id]) ELSE Agent
         made == [before EXCEPT !.agentRequests[id] = gotAsked', !.call[gotAsked'] = Made(id, flags)]
     IN AgentBecomes(IF AsksUser(id, flags, force) THEN RequestSecretsFromUi(made, gotAsked')
                 ELSE [made EXCEPT !.searches = @ \cup {gotAsked'}])

\* shell_network_agent_cancel_get_secrets()
CancelGetSecrets(id) ==
  /\ LiveRequests(Agent, id)
  /\ AgentBecomes(RequestCancel(Agent, agentRequests[id]))
  /\ UNCHANGED gotAsked

\* Mutant: the callback goes on when the search was cancelled.
UsesResultAlways(s) == TRUE
\* get_secrets_keyring_cb(): nothing of the request is touched when the search
\* was cancelled.
UsesResult(s) == ~call[s].cancelled
KeyringCb(s, outcome) ==
  LET found == [Agent EXCEPT !.searches = @ \ {s}]
      asksUser == call[s].id \in VpnIds \/ (outcome = "nothing" /\ "interaction" \in call[s].flags)
  IN /\ s \in searches
     /\ AgentBecomes(IF ~UsesResult(s) THEN found
                 ELSE IF outcome # "failed" /\ asksUser THEN RequestSecretsFromUi(found, s)
                 ELSE Finish(found, s))
     /\ UNCHANGED gotAsked

\* The notification is activated, or goes without an answer: its 'destroy'
\* handler responds for whatever has the id then.
ActivateNotification(id) ==
  /\ Shows("notification", id) \in screen
  /\ AgentBecomes([Agent EXCEPT !.screen = (@ \ {Shows("notification", id)}) \cup {Handled(id)}])
  /\ UNCHANGED gotAsked
DismissNotification(id) ==
  /\ Shows("notification", id) \in screen
  /\ AgentBecomes(Respond([Agent EXCEPT !.screen = @ \ {Shows("notification", id)}], id, FALSE))
  /\ UNCHANGED gotAsked

\* shell_network_agent_search_vpn_plugin(): the helper of the plugin is run, or
\* there is none.
VpnPluginSearched(id, found) ==
  LET searched == [Agent EXCEPT !.screen = @ \ {Shows("plugin", id)}]
  IN /\ Shows("plugin", id) \in screen
     /\ AgentBecomes(IF found THEN [searched EXCEPT !.screen = @ \cup {Shows("dialog", id)}]
                 ELSE Respond(searched, id, FALSE))
     /\ UNCHANGED gotAsked
\* A dialog, or the helper of a VPN, is done.
DialogResponds(id, confirmed) ==
  /\ Shows("dialog", id) \in screen
  /\ AgentBecomes(Respond([Agent EXCEPT !.screen = @ \ {Shows("dialog", id)}], id, confirmed))
  /\ UNCHANGED gotAsked

\* disable(): every dialog and notification is cancelled.
Disable ==
  /\ screen # {}
  /\ LET ids == {w.id : w \in {v \in screen : v.kind # "plugin"}}
         answered == {agentRequests[id] : id \in ids} \ {NoCall}
     IN AgentBecomes([Agent EXCEPT
          !.screen = {v \in screen : v.kind = "plugin"},
          !.agentRequests = [id \in RequestIds |-> IF id \in ids THEN NoCall ELSE agentRequests[id]],
          !.call = [s \in Serials |-> IF s \in answered
                      THEN [call[s] EXCEPT !.answers = @ + 1, !.cancelled = TRUE] ELSE call[s]]])
  /\ UNCHANGED gotAsked

\* save_delete_cb(), write_one_secret_to_keyring(), save_one_secret(): a store
\* for each secret that the agent owns, and the answer at once if there is none.
SaveDeleteCb(s, n) ==
  /\ saves[s].phase = "deleting"
  /\ saves' = [saves EXCEPT ![s] = [phase |-> IF n = 0 THEN "saved" ELSE "storing", left |-> n]]
  /\ UNCHANGED <<agentRequests, call, searches, screen, gotAsked>>
\* save_secret_cb(): the last store answers.
SaveSecretCb(s) ==
  /\ saves[s].phase = "storing"
  /\ saves' = [saves EXCEPT ![s] = [phase |-> IF @.left = 1 THEN "saved" ELSE "storing", left |-> @.left - 1]]
  /\ UNCHANGED <<agentRequests, call, searches, screen, gotAsked>>

AgentInit ==
  /\ agentRequests = [id \in RequestIds |-> NoCall] /\ call = [s \in Serials |-> NotAsked]
  /\ searches = {} /\ screen = {} /\ saves = [s \in Serials |-> [phase |-> "none", left |-> 0]] /\ gotAsked = 0
AgentNext ==
  \/ \E id \in RequestIds, flags \in Flags, force \in BOOLEAN : GetSecrets(id, flags, force)
  \/ \E id \in RequestIds : CancelGetSecrets(id) \/ ActivateNotification(id) \/ DismissNotification(id)
  \/ \E id \in RequestIds, confirmed \in BOOLEAN :
       DialogResponds(id, confirmed) \/ VpnPluginSearched(id, confirmed)
  \/ \E s \in Serials, outcome \in {"found", "nothing", "failed"} : KeyringCb(s, outcome)
  \/ Disable
  \/ \E s \in Serials : SaveSecretCb(s) \/ \E n \in 0 .. MaxStores : SaveDeleteCb(s, n)
AgentSpec == AgentInit /\ [][AgentNext]_agentVars

---------------------------------------------------------------------------
(* Properties *)

\* NetworkManager has exactly one answer to every request that is not in the
\* table any more and none to one that is, however the keyring's result, the
\* user's answer, a cancellation and a request in its place cross
\* (get_secrets_keyring_cb(), shell_agent_request_cancel() and
\* shell_network_agent_respond() each answer and remove).
RequestsAnsweredOnce ==
  \A s \in 1 .. gotAsked : call[s].answers = (IF agentRequests[call[s].id] = s THEN 0 ELSE 1)
=============================================================================
