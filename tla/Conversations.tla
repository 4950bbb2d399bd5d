---------------------------- MODULE Conversations ----------------------------
(***************************************************************************)
(* One conversation of one user: the requests that load it, append to a    *)
(* copy and save it back whole (state/conversation_store.py and the        *)
(* conversation rows of state/repositories.py), the compaction of its      *)
(* early turns (state/context.py, context_v2), and its deletion.           *)
(*                                                                         *)
(* Saves do not merge.  What keeps them apart is the admission of runs:    *)
(* one active run per conversation.  A run that is cancelled or pauses for *)
(* a clarification frees the conversation while its task may go on.        *)
(***************************************************************************)
EXTENDS Naturals, Sequences, FiniteSets

CONSTANTS
    Requests,       \* requests on the conversation
    UserTurns,      \* user turns a prompt keeps in full
    MaxRounds,      \* bound: LLM calls of a request
    Modes,          \* context_harness modes the requests may have
    NoRequest

ASSUME ConversationsAssumption ==
    /\ UserTurns \in Nat \ {0} /\ MaxRounds \in Nat
    /\ Modes \subseteq {"off", "shadow", "enforce"} /\ NoRequest \notin Requests

VARIABLES
    stored,     \* is the conversation stored, and its messages
    states,     \* conversation_states: versions and the messages they cover
    slot,       \* the request whose run is active
    doing,      \* the requests
    early       \* observer: a run was closed while its task went on

conversationVars == <<stored, states, slot, doing, early>>

\* A message is known by its request and role.
Message == Requests \X {"user", "assistant"}
IsUser(m) == m[2] = "user"
UserMessages(doc) == Len(SelectSeq(doc, IsUser))

\* The messages before the user turns that a prompt keeps: those with that
\* many turns after them.
Older(doc) ==
    SubSeq(doc, 1, Cardinality({i \in 1..Len(doc) :
        UserMessages(SubSeq(doc, i + 1, Len(doc))) >= UserTurns}))

Waiting == [at |-> "new", mode |-> "off", doc |-> <<>>, fresh |-> FALSE,
            rounds |-> 0, known |-> 0]
Ended == [Waiting EXCEPT !.at = "done"]
Working(r) == doing[r].at \in {"load", "add", "filter", "compact", "llm", "save"}

ConversationsTypeOK ==
    /\ stored \in [there : BOOLEAN, doc : Seq(Message)]
    /\ states \subseteq [version : Nat \ {0}, source : Seq(Message)]
    /\ slot \in Requests \cup {NoRequest}
    /\ doing \in [Requests -> [at : {"new", "load", "add", "filter", "compact", "llm", "save", "done"},
                               mode : {"off", "shadow", "enforce"}, doc : Seq(Message),
                               fresh : BOOLEAN, rounds : Nat, known : Nat]]
    /\ early \in BOOLEAN

ConversationsInit ==
    /\ stored = [there |-> FALSE, doc |-> <<>>]
    /\ states = {}
    /\ slot = NoRequest
    /\ doing = [r \in Requests |-> Waiting]
    /\ early = FALSE

-----------------------------------------------------------------------------
Step(r, at) == doing' = [doing EXCEPT ![r].at = at]

\* The end of a request frees the conversation if its run still holds it.
End(r) ==
    /\ doing' = [doing EXCEPT ![r] = Ended]
    /\ slot' = IF slot = r THEN NoRequest ELSE slot

\* save_conversation: the row is written or written anew, and every message
\* replaced by those of the request's copy.
SaveConversation(doc) == stored' = [there |-> TRUE, doc |-> doc]

Start_Fault(r) ==
    /\ doing[r].at = "new"
    /\ slot' = r
    /\ \E mode \in Modes : doing' = [doing EXCEPT ![r].at = "load", ![r].mode = mode]
    /\ UNCHANGED <<stored, states, early>>

\* The run is admitted; the mode is that of its rollout decision.
Start(r) ==
    /\ doing[r].at = "new" /\ slot = NoRequest
    /\ slot' = r
    /\ \E mode \in Modes : doing' = [doing EXCEPT ![r].at = "load", ![r].mode = mode]
    /\ UNCHANGED <<stored, states, early>>

\* get_conversation, or a new one that exists in the request only.
GetConversation(r) ==
    /\ doing[r].at = "load"
    /\ doing' = [doing EXCEPT ![r].at = "add", ![r].doc = stored.doc,
                              ![r].fresh = ~stored.there]
    /\ UNCHANGED <<stored, states, slot, early>>

\* A button or a memory request is answered by the workflow handler: the
\* conversation is saved as it was loaded.
SkipLlm(r) ==
    /\ doing[r].at = "add"
    /\ SaveConversation(doing[r].doc)
    /\ End(r)
    /\ UNCHANGED <<states, early>>

\* The user's message; a new conversation is saved at once.
AddUserMessage(r) ==
    /\ doing[r].at = "add"
    /\ LET doc == Append(doing[r].doc, <<r, "user">>) IN
         /\ doing' = [doing EXCEPT ![r].at = "filter", ![r].doc = doc]
         /\ IF doing[r].fresh THEN SaveConversation(doc) ELSE UNCHANGED stored
    /\ UNCHANGED <<states, slot, early>>

\* filter_messages: a short conversation and the legacy filter need no state;
\* otherwise the states are counted.
FilterMessages(r) ==
    /\ doing[r].at = "filter"
    /\ IF doing[r].mode = "off" \/ UserMessages(doing[r].doc) <= UserTurns
         THEN Step(r, "llm")
         ELSE doing' = [doing EXCEPT ![r].at = "compact", ![r].known = Cardinality(states)]
    /\ UNCHANGED <<stored, states, slot, early>>

Compacted_Fault(r) == [version |-> doing[r].known, source |-> Older(doing[r].doc)]
\* compact: the early turns, as the version after those counted.
Compacted(r) == [version |-> doing[r].known + 1, source |-> Older(doing[r].doc)]

\* save_conversation_state drops a state whose version exists.
StoreState(s) ==
    states' = IF \E t \in states : t.version = s.version THEN states ELSE states \cup {s}

\* The foreign key refuses the state when the conversation is gone: then
\* enforce fails and shadow uses the legacy filter.
SaveState(r) ==
    /\ doing[r].at = "compact"
    /\ IF stored.there THEN StoreState(Compacted(r)) ELSE UNCHANGED states
    /\ IF ~stored.there /\ doing[r].mode = "enforce" THEN End(r)
       ELSE Step(r, "llm") /\ UNCHANGED slot
    /\ UNCHANGED <<stored, early>>

\* The model answers; a tool call leads to another round with a new prompt.
Llm(r) ==
    /\ doing[r].at = "llm"
    /\ \E at \in {"filter", "save"} :
         /\ at = "filter" => doing[r].rounds < MaxRounds
         /\ doing' = [doing EXCEPT ![r].at = at,
                                   ![r].doc = Append(@, <<r, "assistant">>),
                                   ![r].rounds = @ + 1]
    /\ UNCHANGED <<stored, states, slot, early>>

UpdateConversation(r) ==
    /\ doing[r].at = "save"
    /\ SaveConversation(doing[r].doc)
    /\ End(r)
    /\ UNCHANGED <<states, early>>

-----------------------------------------------------------------------------
(* What may happen to a request, and to the conversation under it.         *)

\* A timeout, a disconnect or a failure: the generator is closed, unsaved.
Stop(r) ==
    /\ Working(r)
    /\ End(r)
    /\ UNCHANGED <<stored, states, early>>

\* The run is cancelled, or paused for a clarification; its task goes on.
CloseEarly(r) ==
    /\ slot = r
    /\ slot' = NoRequest /\ early' = TRUE
    /\ UNCHANGED <<stored, states, doing>>

\* The user deletes the conversation; its states go with it.
DeleteConversation ==
    /\ stored.there
    /\ stored' = [there |-> FALSE, doc |-> <<>>]
    /\ states' = {}
    /\ UNCHANGED <<slot, doing, early>>

\* A restart ends every request and run; what outlived the retention is deleted.
Restart(expired) ==
    /\ \E r \in Requests : Working(r)
    /\ doing' = [r \in Requests |-> IF Working(r) THEN Ended ELSE doing[r]]
    /\ slot' = NoRequest
    /\ IF expired THEN stored' = [there |-> FALSE, doc |-> <<>>] /\ states' = {}
       ELSE UNCHANGED <<stored, states>>
    /\ UNCHANGED early

ConversationsNext ==
    \/ \E r \in Requests :
         \/ Start(r) \/ GetConversation(r) \/ SkipLlm(r) \/ AddUserMessage(r)
         \/ FilterMessages(r) \/ SaveState(r) \/ Llm(r) \/ UpdateConversation(r)
         \/ Stop(r) \/ CloseEarly(r)
    \/ DeleteConversation
    \/ \E expired \in BOOLEAN : Restart(expired)

ConversationsSpec == ConversationsInit /\ [][ConversationsNext]_conversationVars

-----------------------------------------------------------------------------
(* Properties.                                                             *)

\* The admission of runs is what keeps saves apart: a request works only
\* while its run holds the conversation, unless a run was closed early.
WorkersHoldTheSlot == ~early => \A r \in Requests : Working(r) => slot = r

Extends(d, e) == Len(d) <= Len(e) /\ SubSeq(e, 1, Len(d)) = d

\* Unless a run was closed early, no save loses a message that was stored:
\* it extends the conversation, whatever requests were stopped, restarted or
\* skipped the LLM before.
SavesExtend ==
    [][~early /\ stored.there /\ stored'.there => Extends(stored.doc, stored'.doc)]_conversationVars

\* What a request has loaded still has all that is stored.
CopiesExtend ==
    ~early /\ stored.there => \A r \in Requests :
      doing[r].at \in {"add", "filter", "compact", "llm", "save"} => Extends(stored.doc, doing[r].doc)

\* Unless a run was closed early, a compaction that is shown to the model as
\* version v is the state stored as version v, and versions have no gaps.
ShownStateIsStored ==
    [][~early => \A r \in Requests :
         doing[r].at = "compact" /\ doing'[r].at = "llm" /\ stored.there =>
           /\ [version |-> doing[r].known + 1, source |-> Older(doing[r].doc)] \in states'
           /\ {s.version : s \in states'} = 1..(doing[r].known + 1)]_conversationVars
=============================================================================
