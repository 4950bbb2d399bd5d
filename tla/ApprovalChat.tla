---------------------------- MODULE ApprovalChat ----------------------------
(***************************************************************************)
(* The chat's side of an approval: CopilotWorkflowHandler intercepts the   *)
(* commands /confirm-action and /cancel-action, calls business-service     *)
(* through BusinessServiceClient and shows one card for each command.      *)
(***************************************************************************)
EXTENDS ActionApproval

VARIABLE card       \* the card of the command each request slot runs

chatVars == <<vars, card>>

Card == {"waiting", "executed", "cancelled", "notExecuted"}

ChatTypeOK == TypeOK /\ card \in [Requests -> Card]

ChatInit == Init /\ card = [r \in Requests |-> "waiting"]

\* The user presses a button of the approval card, perhaps once more or in a
\* second tab.
Command(r) ==
    /\ req[r] # Idle => card[r] # "waiting"
    /\ CallAny(r)
    /\ card' = [card EXCEPT ![r] = "waiting"]

\* try_handle gets the response; every exception gives the same card.
Deliver_RawStatus(r) ==
    /\ req[r].pc \in Done
    /\ card[r] = "waiting"
    /\ card' = [card EXCEPT ![r] = req[r].pc]
    /\ UNCHANGED vars
Deliver(r) ==
    /\ req[r].pc \in Done
    /\ card[r] = "waiting"
    /\ card' = [card EXCEPT ![r] =
                  IF ~At(r, "answered") THEN "notExecuted"
                  ELSE IF req[r].verb = "confirm" THEN "executed" ELSE "cancelled"]
    /\ UNCHANGED vars

\* The 10 s timeout of the HTTP client; the server goes on with the request.
ClientTimeout(r) ==
    /\ InFlight(r)
    /\ card[r] = "waiting"
    /\ card' = [card EXCEPT ![r] = "notExecuted"]
    /\ UNCHANGED vars

ChatNext ==
    \/ \E r \in Requests : Command(r) \/ Deliver(r) \/ ClientTimeout(r)
    \/ ServerNext /\ UNCHANGED card

ChatSpec == ChatInit /\ [][ChatNext]_chatVars

\* The server is fair as it is by itself; nobody promises that the chat goes on.
FairChatSpec == ChatSpec /\ Fairness

\* Of several commands for one action (a double click, a second tab, a retry
\* after a timeout) at most one is answered with the card "executed", and none
\* when another one was answered with "cancelled".
OneDecisionCard ==
    \A r, s \in Requests :
        /\ card[r] = "executed" /\ card[s] \in {"executed", "cancelled"}
        /\ req[r].action = req[s].action
        => r = s

\* A card that reports a decision reports what the tables hold, from then on
\* and for ever: the action is in the state the card names.
CardsHold ==
    \A r \in Requests :
        /\ card[r] = "executed"  => actions[req[r].action].status = "CONFIRMED"
        /\ card[r] = "cancelled" => actions[req[r].action].status = "CANCELLED"
=============================================================================
