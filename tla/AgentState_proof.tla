------------------------- MODULE AgentState_proof -------------------------
(***************************************************************************)
(* Proofs about the saves and the compactions of a conversation and the    *)
(* compilation of a prompt, and of the invariants of their composition     *)
(* with the memories: for every set of requests, memories and items, every *)
(* number of rounds, every mode, every size and every budget.              *)
(***************************************************************************)
EXTENDS MCAgentState, MemoryLifecycle_proof, SequenceTheorems, FiniteSetTheorems, TLAPS

-----------------------------------------------------------------------------
(***************************************************************************)
(* One sequence extends another.                                           *)
(***************************************************************************)
LEMMA ExtendsItems ==
    ASSUME NEW S, NEW d \in Seq(S), NEW e \in Seq(S)
    PROVE  Extends(d, e) <=> Len(d) <= Len(e) /\ \A i \in 1..Len(d) : e[i] = d[i]
<1>1. ASSUME Len(d) <= Len(e)
      PROVE  SubSeq(e, 1, Len(d)) = d <=> \A i \in 1..Len(d) : e[i] = d[i]
  <2>1. Len(d) \in Nat /\ Len(e) \in Nat
    OBVIOUS
  <2>2. /\ SubSeq(e, 1, Len(d)) \in Seq(S)
        /\ Len(SubSeq(e, 1, Len(d))) = Len(d)
        /\ \A i \in 1..Len(d) : SubSeq(e, 1, Len(d))[i] = e[i]
    BY <1>1, <2>1
  <2>3. SubSeq(e, 1, Len(d)) = d <=>
          Len(SubSeq(e, 1, Len(d))) = Len(d) /\ \A i \in 1..Len(d) : SubSeq(e, 1, Len(d))[i] = d[i]
    BY <2>2, SeqEqual
  <2> QED
    BY <2>2, <2>3
<1> QED
  BY <1>1 DEF Extends

LEMMA ExtendsItself ==
    ASSUME NEW S, NEW d \in Seq(S)
    PROVE  Extends(d, d)
BY ExtendsItems

LEMMA AppendExtends ==
    ASSUME NEW S, NEW d \in Seq(S), NEW e \in Seq(S), NEW x \in S, Extends(d, e)
    PROVE  Extends(d, Append(e, x))
<1>1. Append(e, x) \in Seq(S) /\ Len(Append(e, x)) = Len(e) + 1
  OBVIOUS
<1>2. \A i \in 1..Len(e) : Append(e, x)[i] = e[i]
  OBVIOUS
<1>3. Len(d) \in Nat /\ Len(e) \in Nat /\ Len(d) <= Len(e)
  BY ExtendsItems
<1>4. Len(d) <= Len(Append(e, x))
  BY <1>1, <1>3
<1>5. \A i \in 1..Len(d) : Append(e, x)[i] = d[i]
  <2>1. \A i \in 1..Len(d) : i \in 1..Len(e) /\ e[i] = d[i]
    BY <1>3, ExtendsItems
  <2> QED
    BY <1>2, <2>1
<1> HIDE DEF Extends
<1> QED
  BY <1>1, <1>4, <1>5, ExtendsItems, Zenon

-----------------------------------------------------------------------------
(***************************************************************************)
(* The part of the types these proofs need.                                *)
(***************************************************************************)
Where == {"new", "load", "add", "filter", "compact", "llm", "save", "done"}
RequestRecord ==
    [at : Where, mode : {"off", "shadow", "enforce"}, doc : Seq(Message),
     fresh : BOOLEAN, rounds : Nat, known : Nat]
Loaded == {"add", "filter", "compact", "llm", "save"}

DocTypes ==
    /\ stored \in [there : BOOLEAN, doc : Seq(Message)]
    /\ doing \in [Requests -> RequestRecord]

ConversationInv == DocTypes /\ IsFiniteSet(states) /\ WorkersHoldTheSlot /\ CopiesExtend

LEMMA EndedTypes == Ended \in RequestRecord /\ Ended.at = "done"
<1>1. Waiting \in RequestRecord
  BY DEF Waiting, RequestRecord, Where
<1> QED
  BY <1>1 DEF Ended, RequestRecord, Where

LEMMA SavedTypes ==
    ASSUME NEW d \in Seq(Message)
    PROVE  /\ [there |-> TRUE, doc |-> d] \in [there : BOOLEAN, doc : Seq(Message)]
           /\ [there |-> TRUE, doc |-> d].doc = d
OBVIOUS

\* Of one request's record, the others stay.
Moves(r) ==
    /\ doing' \in [Requests -> RequestRecord]
    /\ \A q \in Requests \ {r} : doing'[q] = doing[q]

LEMMA EndMoves ==
    ASSUME DocTypes, NEW r \in Requests, End(r)
    PROVE  Moves(r) /\ doing'[r].at = "done"
BY EndedTypes DEF End, DocTypes, Moves

\* A request that ends, and leaves what is stored or saves its copy.
LEMMA EndKeeps ==
    ASSUME ConversationInv, NEW r \in Requests, Working(r), End(r), UNCHANGED early, IsFiniteSet(states'),
           UNCHANGED stored \/ (doing[r].at \in Loaded /\ SaveConversation(doing[r].doc))
    PROVE  ConversationInv'
<1>1. Moves(r) /\ doing'[r].at = "done"
  BY EndMoves DEF ConversationInv
<1>2. stored' \in [there : BOOLEAN, doc : Seq(Message)]
  <2>1. doing[r].doc \in Seq(Message)
    BY DEF ConversationInv, DocTypes, RequestRecord
  <2> QED
    BY <2>1, SavedTypes DEF SaveConversation, ConversationInv, DocTypes
<1>3. WorkersHoldTheSlot'
  BY <1>1 DEF ConversationInv, WorkersHoldTheSlot, Working, Moves, End
<1>4. CopiesExtend'
  <2> SUFFICES ASSUME ~early, stored'.there, NEW q \in Requests, doing'[q].at \in Loaded
               PROVE  Extends(stored'.doc, doing'[q].doc)
    BY DEF CopiesExtend, Loaded
  <2>1. q # r /\ doing'[q] = doing[q] /\ Working(q)
    BY <1>1 DEF Loaded, Moves, Working
  <2>2. slot = r /\ slot = q
    BY <2>1 DEF ConversationInv, WorkersHoldTheSlot
  <2> QED
    BY <2>1, <2>2
<1> QED
  BY <1>1, <1>2, <1>3, <1>4 DEF ConversationInv, DocTypes, Moves

\* A request that goes on with the copy it has, or with one message more, and
\* leaves what is stored or saves the copy it goes on with.
LEMMA StepKeeps ==
    ASSUME ConversationInv, NEW r \in Requests, Moves(r), UNCHANGED <<early, slot>>, IsFiniteSet(states'),
           doing[r].at \in Loaded, doing'[r].at \in Loaded,
           \/ doing'[r].doc = doing[r].doc
           \/ \E x \in Message : doing'[r].doc = Append(doing[r].doc, x),
           UNCHANGED stored \/ stored' = [there |-> TRUE, doc |-> doing'[r].doc]
    PROVE  ConversationInv'
<1>1. doing[r].doc \in Seq(Message) /\ doing'[r].doc \in Seq(Message)
  BY DEF ConversationInv, DocTypes, Moves, RequestRecord
<1>2. stored' \in [there : BOOLEAN, doc : Seq(Message)]
  BY <1>1, SavedTypes DEF ConversationInv, DocTypes
<1>3. WorkersHoldTheSlot'
  BY DEF ConversationInv, WorkersHoldTheSlot, Working, Moves, Loaded
<1>4. CopiesExtend'
  <2> SUFFICES ASSUME ~early, stored'.there, NEW q \in Requests, doing'[q].at \in Loaded
               PROVE  Extends(stored'.doc, doing'[q].doc)
    BY DEF CopiesExtend, Loaded
  <2>1. q = r
    BY DEF ConversationInv, WorkersHoldTheSlot, Working, Moves, Loaded
  <2>2. CASE stored' = [there |-> TRUE, doc |-> doing'[r].doc]
    BY <1>1, <2>1, <2>2, ExtendsItself
  <2>3. CASE UNCHANGED stored
    <3>1. Extends(stored.doc, doing[r].doc) /\ stored.doc \in Seq(Message)
      BY <2>3 DEF ConversationInv, DocTypes, CopiesExtend, Loaded
    <3>2. Extends(stored.doc, doing'[r].doc)
      BY <1>1, <3>1, AppendExtends
    <3> QED
      BY <2>1, <2>3, <3>2
  <2> QED
    BY <2>2, <2>3
<1> QED
  BY <1>2, <1>3, <1>4 DEF ConversationInv, DocTypes, Moves

-----------------------------------------------------------------------------
(***************************************************************************)
(* The steps of a request.                                                 *)
(***************************************************************************)
LEMMA StepMoves ==
    ASSUME DocTypes, NEW r \in Requests, NEW l \in Where, Step(r, l)
    PROVE  Moves(r) /\ doing'[r].at = l /\ doing'[r].doc = doing[r].doc
<1>1. doing' = [doing EXCEPT ![r] = [doing[r] EXCEPT !.at = l]]
  BY DEF Step
<1>2. [doing[r] EXCEPT !.at = l] \in RequestRecord
  BY DEF DocTypes, RequestRecord
<1>3. [doing[r] EXCEPT !.at = l].at = l /\ [doing[r] EXCEPT !.at = l].doc = doing[r].doc
  BY DEF DocTypes, RequestRecord
<1> QED
  BY <1>1, <1>2, <1>3 DEF Moves, DocTypes

LEMMA GetConversationStep ==
    ASSUME ConversationInv, NEW r \in Requests, GetConversation(r)
    PROVE  ConversationInv'
<1> DEFINE new == [doing[r] EXCEPT !.at = "add", !.doc = stored.doc, !.fresh = ~stored.there]
<1>1. doing' = [doing EXCEPT ![r] = new] /\ UNCHANGED <<stored, states, slot, early>> /\ doing[r].at = "load"
  BY DEF GetConversation
<1>2. new \in RequestRecord /\ new.at = "add" /\ new.doc = stored.doc
  BY DEF ConversationInv, DocTypes, RequestRecord, Where
<1>3. Moves(r) /\ doing'[r].at = "add" /\ doing'[r].doc = stored.doc
  <2> HIDE DEF new
  <2> QED
    BY <1>1, <1>2 DEF Moves, ConversationInv, DocTypes
<1>4. WorkersHoldTheSlot'
  BY <1>1, <1>3 DEF ConversationInv, WorkersHoldTheSlot, Working, Moves
<1>5. CopiesExtend'
  <2> SUFFICES ASSUME ~early, stored.there, NEW q \in Requests, doing'[q].at \in Loaded
               PROVE  Extends(stored.doc, doing'[q].doc)
    BY <1>1 DEF CopiesExtend, Loaded
  <2>1. q = r
    BY <1>1, <1>3 DEF ConversationInv, WorkersHoldTheSlot, Working, Moves, Loaded
  <2>2. stored.doc \in Seq(Message)
    BY DEF ConversationInv, DocTypes
  <2> QED
    BY <1>3, <2>1, <2>2, ExtendsItself
<1> QED
  BY <1>1, <1>3, <1>4, <1>5 DEF ConversationInv, DocTypes, Moves

LEMMA AddUserMessageStep ==
    ASSUME ConversationInv, NEW r \in Requests, AddUserMessage(r)
    PROVE  ConversationInv'
<1> DEFINE grown == Append(doing[r].doc, <<r, "user">>)
           new == [doing[r] EXCEPT !.at = "filter", !.doc = grown]
<1>1. /\ doing' = [doing EXCEPT ![r] = new] /\ UNCHANGED <<slot, early>> /\ doing[r].at = "add"
      /\ UNCHANGED stored \/ stored' = [there |-> TRUE, doc |-> grown]
  BY DEF AddUserMessage, SaveConversation
<1>2. <<r, "user">> \in Message
  BY DEF Message
<1>3. new \in RequestRecord /\ new.at = "filter" /\ new.doc = grown
  <2>1. doing[r].doc \in Seq(Message)
    BY DEF ConversationInv, DocTypes, RequestRecord
  <2>2. grown \in Seq(Message)
    BY <1>2, <2>1
  <2>3. doing[r] \in RequestRecord
    BY DEF ConversationInv, DocTypes
  <2> HIDE DEF grown
  <2> QED
    BY <2>2, <2>3 DEF RequestRecord, Where
<1>4. Moves(r) /\ doing'[r].at = "filter" /\ doing'[r].doc = grown
  <2> HIDE DEF new
  <2> QED
    BY <1>1, <1>3 DEF Moves, ConversationInv, DocTypes
<1>5. IsFiniteSet(states')
  BY DEF AddUserMessage, ConversationInv
<1> QED
  BY <1>1, <1>2, <1>4, <1>5, StepKeeps DEF Loaded

LEMMA LlmStep ==
    ASSUME ConversationInv, NEW r \in Requests, Llm(r)
    PROVE  ConversationInv'
<1> DEFINE grown == Append(doing[r].doc, <<r, "assistant">>)
<1>1. PICK l \in {"filter", "save"} :
        doing' = [doing EXCEPT ![r] =
          [doing[r] EXCEPT !.at = l, !.doc = grown, !.rounds = @ + 1]]
  BY DEF Llm
<1> DEFINE new == [doing[r] EXCEPT !.at = l, !.doc = grown, !.rounds = @ + 1]
<1>2. UNCHANGED <<stored, slot, early>> /\ doing[r].at = "llm"
  BY DEF Llm
<1>3. <<r, "assistant">> \in Message
  BY DEF Message
<1>4. new \in RequestRecord /\ new.at = l /\ new.doc = grown
  <2>1. doing[r].doc \in Seq(Message)
    BY DEF ConversationInv, DocTypes, RequestRecord
  <2>2. grown \in Seq(Message)
    BY <1>3, <2>1
  <2>3. doing[r] \in RequestRecord
    BY DEF ConversationInv, DocTypes
  <2>4. l \in Where /\ doing[r].rounds + 1 \in Nat
    BY <2>3 DEF RequestRecord, Where
  <2> HIDE DEF grown
  <2> QED
    BY <2>2, <2>3, <2>4 DEF RequestRecord
<1>5. Moves(r) /\ doing'[r].at = l /\ doing'[r].doc = grown
  <2>1. doing' = [doing EXCEPT ![r] = new]
    BY <1>1
  <2> HIDE DEF new
  <2> QED
    BY <2>1, <1>4 DEF Moves, ConversationInv, DocTypes
<1>6. IsFiniteSet(states')
  BY DEF Llm, ConversationInv
<1> QED
  BY <1>2, <1>3, <1>5, <1>6, StepKeeps DEF Loaded

LEMMA FilterMessagesStep ==
    ASSUME ConversationInv, NEW r \in Requests, FilterMessages(r)
    PROVE  ConversationInv'
<1>1. doing[r].at = "filter" /\ UNCHANGED <<stored, slot, early>>
  BY DEF FilterMessages
<1>2. Moves(r) /\ doing'[r].at \in Loaded /\ doing'[r].doc = doing[r].doc
  <2>1. CASE Step(r, "llm")
    BY <2>1, StepMoves DEF ConversationInv, Where, Loaded
  <2>2. CASE ~Step(r, "llm")
    <3> DEFINE new == [doing[r] EXCEPT !.at = "compact", !.known = Cardinality(states)]
    <3>1. doing' = [doing EXCEPT ![r] = new]
      BY <2>2 DEF FilterMessages
    <3>2. Cardinality(states) \in Nat
      BY FS_CardinalityType DEF ConversationInv
    <3>3. new \in RequestRecord /\ new.at = "compact" /\ new.doc = doing[r].doc
      BY <3>2 DEF ConversationInv, DocTypes, RequestRecord, Where
    <3> HIDE DEF new
    <3> QED
      BY <3>1, <3>3 DEF Moves, ConversationInv, DocTypes, Loaded
  <2> QED
    BY <2>1, <2>2
<1>3. IsFiniteSet(states')
  BY DEF FilterMessages, ConversationInv
<1> QED
  BY <1>1, <1>2, <1>3, StepKeeps DEF Loaded

\* What is left of a request's steps.
LEMMA RequestSteps ==
    ASSUME ConversationInv, NEW r \in Requests,
           \/ Start(r) \/ GetConversation(r) \/ SkipLlm(r) \/ AddUserMessage(r) \/ FilterMessages(r)
           \/ SaveState(r) \/ Llm(r) \/ UpdateConversation(r) \/ Stop(r) \/ CloseEarly(r)
    PROVE  ConversationInv'
<1>1. CASE Start(r)
  <2>1. PICK how \in Modes : doing' = [doing EXCEPT ![r] = [doing[r] EXCEPT !.at = "load", !.mode = how]]
    BY <1>1 DEF Start
  <2> DEFINE new == [doing[r] EXCEPT !.at = "load", !.mode = how]
  <2>2. /\ doing[r].at = "new" /\ slot = NoRequest /\ slot' = r
        /\ UNCHANGED <<stored, states, early>>
    BY <1>1 DEF Start
  <2>3. new \in RequestRecord /\ new.at = "load"
    <3>1. doing[r] \in RequestRecord
      BY DEF ConversationInv, DocTypes
    <3> QED
      BY <3>1, ConversationsAssumption DEF RequestRecord, Where
  <2>4. Moves(r) /\ doing'[r].at = "load"
    <3>1. doing' = [doing EXCEPT ![r] = new]
      BY <2>1
    <3> HIDE DEF new
    <3> QED
      BY <2>3, <3>1 DEF Moves, ConversationInv, DocTypes
  <2>5. WorkersHoldTheSlot'
    BY <2>2, <2>4, ConversationsAssumption DEF ConversationInv, WorkersHoldTheSlot, Working, Moves
  <2>6. CopiesExtend'
    BY <2>2, <2>4 DEF ConversationInv, CopiesExtend, Moves
  <2> QED
    BY <2>2, <2>4, <2>5, <2>6 DEF ConversationInv, DocTypes, Moves
<1>2. CASE SkipLlm(r) \/ UpdateConversation(r)
  <2>1. /\ doing[r].at \in Loaded /\ End(r) /\ SaveConversation(doing[r].doc)
        /\ UNCHANGED <<states, early>>
    BY <1>2 DEF SkipLlm, UpdateConversation, Loaded
  <2> QED
    BY <2>1, EndKeeps DEF Loaded, Working, ConversationInv
<1>3. CASE SaveState(r)
  <2>1. doing[r].at = "compact" /\ UNCHANGED <<stored, early>>
    BY <1>3 DEF SaveState
  <2>2. IsFiniteSet(states')
    <3>1. states' = states \/ states' = states \cup {Compacted(r)}
      BY <1>3 DEF SaveState, StoreState
    <3> QED
      BY <3>1, FS_AddElement DEF ConversationInv
  <2>3. CASE End(r)
    BY <2>1, <2>2, <2>3, EndKeeps DEF Working
  <2>4. CASE Step(r, "llm") /\ UNCHANGED slot
    <3>1. Moves(r) /\ doing'[r].at = "llm" /\ doing'[r].doc = doing[r].doc
      BY <2>4, StepMoves DEF ConversationInv, Where
    <3> QED
      BY <2>1, <2>2, <2>4, <3>1, StepKeeps DEF Loaded
  <2> QED
    BY <1>3, <2>3, <2>4 DEF SaveState
<1>4. CASE Stop(r)
  BY <1>4, EndKeeps DEF Stop, ConversationInv
<1>5. CASE CloseEarly(r)
  BY <1>5 DEF CloseEarly, ConversationInv, DocTypes, WorkersHoldTheSlot, CopiesExtend
<1> QED
  BY <1>1, <1>2, <1>3, <1>4, <1>5, GetConversationStep, AddUserMessageStep, FilterMessagesStep, LlmStep

LEMMA OtherSteps ==
    ASSUME ConversationInv, DeleteConversation \/ \E expired \in BOOLEAN : Restart(expired)
    PROVE  ConversationInv'
<1> DEFINE gone == [there |-> FALSE, doc |-> <<>>]
<1>1. gone \in [there : BOOLEAN, doc : Seq(Message)] /\ ~gone.there
  OBVIOUS
<1>2. IsFiniteSet({})
  BY FS_EmptySet
<1>3. CASE DeleteConversation
  <2>1. stored' = gone /\ states' = {} /\ UNCHANGED <<slot, doing, early>>
    BY <1>3 DEF DeleteConversation
  <2> HIDE DEF gone
  <2> QED
    BY <1>1, <1>2, <2>1 DEF ConversationInv, DocTypes, WorkersHoldTheSlot, Working, CopiesExtend
<1>4. ASSUME NEW expired \in BOOLEAN, Restart(expired)
      PROVE  ConversationInv'
  <2>1. /\ doing' = [r \in Requests |-> IF Working(r) THEN Ended ELSE doing[r]]
        /\ UNCHANGED early
        /\ (stored' = gone /\ states' = {}) \/ UNCHANGED <<stored, states>>
    BY <1>4 DEF Restart
  <2>2. doing' \in [Requests -> RequestRecord]
    BY <2>1, EndedTypes DEF ConversationInv, DocTypes
  <2>3. \A r \in Requests : ~Working(r)'
    BY <2>1, EndedTypes DEF Working
  <2>4. \A r \in Requests : doing'[r].at \notin Loaded
    BY <2>3 DEF Working, Loaded
  <2>5. stored' \in [there : BOOLEAN, doc : Seq(Message)] /\ IsFiniteSet(states')
    <3> HIDE DEF gone
    <3> QED
      BY <1>1, <1>2, <2>1 DEF ConversationInv, DocTypes
  <2> QED
    BY <2>2, <2>3, <2>4, <2>5 DEF ConversationInv, DocTypes, WorkersHoldTheSlot, CopiesExtend, Loaded
<1> QED
  BY <1>3, <1>4

LEMMA ConversationInvHolds == ConversationsSpec => []ConversationInv
<1>1. ConversationsInit => ConversationInv
  <2> SUFFICES ASSUME ConversationsInit PROVE ConversationInv
    OBVIOUS
  <2>1. Waiting \in RequestRecord /\ Waiting.at = "new"
    BY DEF Waiting, RequestRecord, Where
  <2>2. doing \in [Requests -> RequestRecord] /\ \A r \in Requests : doing[r].at = "new"
    BY <2>1 DEF ConversationsInit
  <2>3. stored \in [there : BOOLEAN, doc : Seq(Message)] /\ IsFiniteSet(states)
    BY FS_EmptySet DEF ConversationsInit
  <2> QED
    BY <2>2, <2>3 DEF ConversationInv, DocTypes, WorkersHoldTheSlot, Working, CopiesExtend
<1>2. ConversationInv /\ [ConversationsNext]_conversationVars => ConversationInv'
  <2>1. ConversationInv /\ UNCHANGED conversationVars => ConversationInv'
    BY DEF ConversationInv, DocTypes, WorkersHoldTheSlot, Working, CopiesExtend, conversationVars
  <2> QED
    BY <2>1, RequestSteps, OtherSteps DEF ConversationsNext
<1> QED
  BY <1>1, <1>2, PTL DEF ConversationsSpec

-----------------------------------------------------------------------------
\* A request works only while its run holds the conversation.
THEOREM WorkersHold == ConversationsSpec => []WorkersHoldTheSlot
<1>1. ConversationInv => WorkersHoldTheSlot
  BY DEF ConversationInv
<1> QED
  BY <1>1, ConversationInvHolds, PTL

\* Unless a run was closed early, no save loses a message that was stored.
THEOREM NoSaveLosesMessages == ConversationsSpec => SavesExtend
<1>1. ASSUME ConversationInv, [ConversationsNext]_conversationVars
      PROVE  [~early /\ stored.there /\ stored'.there => Extends(stored.doc, stored'.doc)]_conversationVars
  <2> SUFFICES ASSUME ~early, stored.there, stored'.there
               PROVE  Extends(stored.doc, stored'.doc)
    OBVIOUS
  <2>1. stored.doc \in Seq(Message)
    BY <1>1 DEF ConversationInv, DocTypes
  <2>2. CASE UNCHANGED stored
    BY <2>1, <2>2, ExtendsItself
  <2>3. ASSUME NEW r \in Requests, SkipLlm(r) \/ UpdateConversation(r)
        PROVE  Extends(stored.doc, stored'.doc)
    <3>1. stored'.doc = doing[r].doc /\ doing[r].at \in Loaded
      BY <2>3 DEF SkipLlm, UpdateConversation, SaveConversation, Loaded
    <3> QED
      BY <1>1, <3>1 DEF ConversationInv, CopiesExtend, Loaded
  <2>4. ASSUME NEW r \in Requests, AddUserMessage(r)
        PROVE  Extends(stored.doc, stored'.doc)
    <3>1. CASE UNCHANGED stored
      BY <2>2, <3>1
    <3>2. CASE ~UNCHANGED stored
      <4>1. stored'.doc = Append(doing[r].doc, <<r, "user">>) /\ doing[r].at = "add"
        BY <2>4, <3>2 DEF AddUserMessage, SaveConversation
      <4>2. Extends(stored.doc, doing[r].doc)
        BY <1>1, <4>1 DEF ConversationInv, CopiesExtend
      <4>3. doing[r].doc \in Seq(Message) /\ <<r, "user">> \in Message
        BY <1>1 DEF ConversationInv, DocTypes, RequestRecord, Message
      <4> QED
        BY <2>1, <4>1, <4>2, <4>3, AppendExtends
    <3> QED
      BY <3>1, <3>2
  <2>5. CASE UNCHANGED conversationVars
    BY <2>2, <2>5 DEF conversationVars
  <2>6. ASSUME NEW r \in Requests,
               Start(r) \/ GetConversation(r) \/ FilterMessages(r) \/ SaveState(r) \/ Llm(r) \/ Stop(r) \/ CloseEarly(r)
        PROVE  UNCHANGED stored
    BY <2>6 DEF Start, GetConversation, FilterMessages, SaveState, Llm, Stop, CloseEarly
  <2>7. ASSUME NEW expired \in BOOLEAN, DeleteConversation \/ Restart(expired)
        PROVE  UNCHANGED stored
    BY <2>7 DEF DeleteConversation, Restart
  <2> QED
    BY <1>1, <2>2, <2>3, <2>4, <2>5, <2>6, <2>7 DEF ConversationsNext
<1> QED
  BY <1>1, ConversationInvHolds, PTL DEF ConversationsSpec, SavesExtend

-----------------------------------------------------------------------------
(***************************************************************************)
(* The compactions: versions without gaps, and a count that is not stale.  *)
(***************************************************************************)
Versions == {s.version : s \in states}
StatesInv ==
    ~early =>
      /\ Versions = 1..Cardinality(states)
      /\ \A r \in Requests :
           doing[r].at = "compact" /\ stored.there => doing[r].known = Cardinality(states)

LEMMA OneWorks ==
    ASSUME ConversationInv, ~early, NEW q \in Requests, NEW r \in Requests, Working(q), Working(r)
    PROVE  q = r
BY DEF ConversationInv, WorkersHoldTheSlot

\* One request's step, but the storing of a state.
RequestStep(r) ==
    \/ Start(r) \/ GetConversation(r) \/ SkipLlm(r) \/ AddUserMessage(r) \/ FilterMessages(r)
    \/ Llm(r) \/ UpdateConversation(r) \/ Stop(r)

LEMMA RequestStepMoves ==
    ASSUME DocTypes, NEW r \in Requests, RequestStep(r) \/ SaveState(r)
    PROVE  /\ \A q \in Requests \ {r} : doing'[q] = doing[q]
           /\ doing[r].at \in Where \ {"done"} /\ doing'[r].at # doing[r].at
           /\ Working(r) \/ (Start(r) /\ doing[r].at = "new")
           /\ RequestStep(r) => UNCHANGED states
<1>1. doing \in [Requests -> RequestRecord]
  BY DEF DocTypes
<1>2. ASSUME NEW e, NEW l, e.at = l, doing' = [doing EXCEPT ![r] = e]
      PROVE  (\A q \in Requests \ {r} : doing'[q] = doing[q]) /\ doing'[r].at = l
  BY <1>1, <1>2
<1>3. CASE Start(r)
  <2>1. PICK how \in Modes : doing' = [doing EXCEPT ![r] = [doing[r] EXCEPT !.at = "load", !.mode = how]]
    BY <1>3 DEF Start
  <2>2. [doing[r] EXCEPT !.at = "load", !.mode = how].at = "load"
    BY <1>1 DEF RequestRecord
  <2> QED
    BY <1>2, <1>3, <2>1, <2>2 DEF Start, RequestStep, Where, SaveState
<1>4. CASE GetConversation(r)
  <2> DEFINE new == [doing[r] EXCEPT !.at = "add", !.doc = stored.doc, !.fresh = ~stored.there]
  <2>1. doing' = [doing EXCEPT ![r] = new]
    BY <1>4 DEF GetConversation
  <2>2. new.at = "add"
    BY <1>1 DEF RequestRecord
  <2> HIDE DEF new
  <2> QED
    BY <1>2, <1>4, <2>1, <2>2 DEF GetConversation, Working, Where
<1>5. CASE SkipLlm(r) \/ UpdateConversation(r) \/ Stop(r)
  BY <1>2, <1>5, EndedTypes DEF SkipLlm, UpdateConversation, Stop, End, Working, Where
<1>6. CASE AddUserMessage(r)
  <2> DEFINE new == [doing[r] EXCEPT !.at = "filter", !.doc = Append(doing[r].doc, <<r, "user">>)]
  <2>1. doing' = [doing EXCEPT ![r] = new]
    BY <1>6 DEF AddUserMessage
  <2>2. new.at = "filter"
    BY <1>1 DEF RequestRecord
  <2> HIDE DEF new
  <2> QED
    BY <1>2, <1>6, <2>1, <2>2 DEF AddUserMessage, Working, Where
<1>7. ASSUME NEW l, Step(r, l)
      PROVE  (\A q \in Requests \ {r} : doing'[q] = doing[q]) /\ doing'[r].at = l
  <2>1. doing' = [doing EXCEPT ![r] = [doing[r] EXCEPT !.at = l]]
    BY <1>7 DEF Step
  <2>2. [doing[r] EXCEPT !.at = l].at = l
    BY <1>1 DEF RequestRecord
  <2> QED
    BY <1>2, <2>1, <2>2
<1>8. CASE FilterMessages(r)
  <2> DEFINE new == [doing[r] EXCEPT !.at = "compact", !.known = Cardinality(states)]
  <2>1. Step(r, "llm") \/ doing' = [doing EXCEPT ![r] = new]
    BY <1>8 DEF FilterMessages
  <2>2. new.at = "compact"
    BY <1>1 DEF RequestRecord
  <2> HIDE DEF new
  <2>3. (\A q \in Requests \ {r} : doing'[q] = doing[q]) /\ doing'[r].at \in {"llm", "compact"}
    BY <1>2, <1>7, <2>1, <2>2
  <2> QED
    BY <1>8, <2>3 DEF FilterMessages, Working, Where
<1>9. CASE Llm(r)
  <2>1. PICK l \in {"filter", "save"} :
          doing' = [doing EXCEPT ![r] =
            [doing[r] EXCEPT !.at = l, !.doc = Append(@, <<r, "assistant">>), !.rounds = @ + 1]]
    BY <1>9 DEF Llm
  <2>2. [doing[r] EXCEPT !.at = l, !.doc = Append(@, <<r, "assistant">>), !.rounds = @ + 1].at = l
    BY <1>1 DEF RequestRecord
  <2>3. (\A q \in Requests \ {r} : doing'[q] = doing[q]) /\ doing'[r].at = l
    BY <1>2, <2>1, <2>2
  <2> QED
    BY <1>9, <2>3 DEF Llm, Working, Where
<1>10. CASE SaveState(r)
  <2>1. End(r) \/ Step(r, "llm")
    BY <1>10 DEF SaveState
  <2>2. (\A q \in Requests \ {r} : doing'[q] = doing[q]) /\ doing'[r].at \in {"done", "llm"}
    BY <1>2, <1>7, <2>1, EndedTypes DEF End
  <2> QED
    BY <1>10, <2>2 DEF SaveState, Working, Where, RequestStep, Start, GetConversation, SkipLlm, AddUserMessage, FilterMessages, Llm, UpdateConversation, Stop
<1> QED
  BY <1>3, <1>4, <1>5, <1>6, <1>8, <1>9, <1>10 DEF RequestStep

\* The state that is stored is the one that was shown, and it is the next version.
LEMMA StoresNext ==
    ASSUME ConversationInv, StatesInv, ~early, NEW r \in Requests, SaveState(r), stored.there
    PROVE  /\ states' = states \cup {Compacted(r)} /\ IsFiniteSet(states')
           /\ Cardinality(states') = doing[r].known + 1
           /\ {s.version : s \in states'} = 1..(doing[r].known + 1)
<1> DEFINE n == Cardinality(states)
<1>1. doing[r].at = "compact" /\ StoreState(Compacted(r))
  BY DEF SaveState
<1>2. doing[r].known = n /\ Versions = 1..n
  BY <1>1 DEF StatesInv
<1>3. n \in Nat /\ IsFiniteSet(states)
  BY FS_CardinalityType DEF ConversationInv
<1>4. Compacted(r).version = n + 1
  BY <1>2 DEF Compacted
<1> HIDE DEF n
<1>5. \A t \in states : t.version # n + 1
  <2>1. \A t \in states : t.version \in Versions
    BY DEF Versions
  <2> QED
    BY <1>2, <1>3, <2>1
<1>6. states' = states \cup {Compacted(r)} /\ Compacted(r) \notin states
  BY <1>1, <1>4, <1>5 DEF StoreState
<1>7. IsFiniteSet(states') /\ Cardinality(states') = n + 1
  BY <1>3, <1>6, FS_AddElement DEF n
<1>8. {s.version : s \in states'} = Versions \cup {n + 1}
  BY <1>4, <1>6 DEF Versions
<1>9. Versions \cup {n + 1} = 1..(n + 1)
  BY <1>2, <1>3
<1> QED
  BY <1>2, <1>6, <1>7, <1>8, <1>9

LEMMA StepStates ==
    ASSUME ConversationInv, StatesInv, ConversationsNext
    PROVE  StatesInv'
<1> SUFFICES ASSUME ~early'
             PROVE  /\ Versions' = 1..Cardinality(states')
                    /\ \A q \in Requests :
                         doing'[q].at = "compact" /\ stored'.there => doing'[q].known = Cardinality(states')
  BY DEF StatesInv
<1>1. ~early
  BY DEF ConversationsNext, Start, GetConversation, SkipLlm, AddUserMessage, FilterMessages, SaveState,
         Llm, UpdateConversation, Stop, CloseEarly, DeleteConversation, Restart
<1>2. Versions = 1..Cardinality(states)
  BY <1>1 DEF StatesInv
<1>3. DocTypes
  BY DEF ConversationInv
<1>4. ASSUME NEW r \in Requests, RequestStep(r)
      PROVE  /\ Versions' = 1..Cardinality(states')
             /\ \A q \in Requests :
                  doing'[q].at = "compact" /\ stored'.there => doing'[q].known = Cardinality(states')
  <2>1. UNCHANGED states
    BY <1>3, <1>4, RequestStepMoves
  <2>2. ASSUME NEW q \in Requests, doing'[q].at = "compact", stored'.there
        PROVE  doing'[q].known = Cardinality(states)
    <3>1. CASE q = r
      <4>1. FilterMessages(r)
        <5>1. CASE Start(r)
          <6>1. PICK how \in Modes : doing' = [doing EXCEPT ![r] = [doing[r] EXCEPT !.at = "load", !.mode = how]]
            BY <5>1 DEF Start
          <6> QED
            BY <1>3, <2>2, <3>1, <6>1 DEF DocTypes, RequestRecord
        <5>2. CASE GetConversation(r)
          BY <1>3, <2>2, <3>1, <5>2 DEF GetConversation, DocTypes, RequestRecord
        <5>3. CASE SkipLlm(r) \/ UpdateConversation(r) \/ Stop(r)
          BY <1>3, <2>2, <3>1, <5>3, EndedTypes DEF SkipLlm, UpdateConversation, Stop, End, DocTypes
        <5>4. CASE AddUserMessage(r)
          BY <1>3, <2>2, <3>1, <5>4 DEF AddUserMessage, DocTypes, RequestRecord
        <5>5. CASE Llm(r)
          BY <1>3, <2>2, <3>1, <5>5 DEF Llm, DocTypes, RequestRecord
        <5> QED
          BY <1>4, <5>1, <5>2, <5>3, <5>4, <5>5 DEF RequestStep
      <4>2. ~Step(r, "llm")
        BY <1>3, <2>2, <3>1, StepMoves DEF Where
      <4>3. doing' = [doing EXCEPT ![r] = [doing[r] EXCEPT !.at = "compact", !.known = Cardinality(states)]]
        BY <4>1, <4>2 DEF FilterMessages
      <4> QED
        BY <1>3, <3>1, <4>3 DEF DocTypes, RequestRecord
    <3>2. CASE q # r
      <4>1. doing'[q] = doing[q] /\ Working(q)
        BY <1>3, <1>4, <2>2, <3>2, RequestStepMoves DEF Working
      <4>2. ~Working(r)
        BY <1>1, <3>2, <4>1, OneWorks
      <4>3. Start(r)
        BY <1>3, <1>4, <4>2, RequestStepMoves
      <4>4. UNCHANGED stored
        BY <4>3 DEF Start
      <4> QED
        BY <1>1, <2>2, <4>1, <4>4 DEF StatesInv
    <3> QED
      BY <3>1, <3>2
  <2> QED
    BY <1>2, <2>1, <2>2 DEF Versions
<1>5. ASSUME NEW r \in Requests, SaveState(r)
      PROVE  /\ Versions' = 1..Cardinality(states')
             /\ \A q \in Requests :
                  doing'[q].at = "compact" /\ stored'.there => doing'[q].known = Cardinality(states')
  <2>1. \A q \in Requests : doing'[q].at # "compact"
    <3>1. doing[r].at = "compact" /\ doing'[r].at # "compact"
      BY <1>3, <1>5, RequestStepMoves DEF SaveState
    <3> SUFFICES ASSUME NEW q \in Requests \ {r} PROVE doing'[q].at # "compact"
      BY <3>1
    <3>2. doing'[q] = doing[q]
      BY <1>3, <1>5, RequestStepMoves
    <3> QED
      BY <1>1, <3>1, <3>2, OneWorks DEF Working
  <2>2. CASE stored.there
    BY <1>1, <1>5, <2>1, <2>2, StoresNext DEF Versions
  <2>3. CASE ~stored.there
    BY <1>2, <1>5, <2>1, <2>3 DEF SaveState, Versions
  <2> QED
    BY <2>2, <2>3
<1>6. ASSUME NEW r \in Requests, CloseEarly(r)
      PROVE  FALSE
  BY <1>6 DEF CloseEarly
<1>7. CASE DeleteConversation
  <2>1. stored'.there = FALSE /\ states' = {}
    BY <1>7 DEF DeleteConversation
  <2> QED
    BY <2>1, FS_EmptySet DEF Versions
<1>8. ASSUME NEW expired \in BOOLEAN, Restart(expired)
      PROVE  /\ Versions' = 1..Cardinality(states')
             /\ \A q \in Requests :
                  doing'[q].at = "compact" /\ stored'.there => doing'[q].known = Cardinality(states')
  <2>1. \A q \in Requests : doing'[q].at # "compact"
    BY <1>8, EndedTypes DEF Restart, Working
  <2>2. CASE states' = states
    BY <1>2, <2>1, <2>2 DEF Versions
  <2>3. CASE states' = {}
    <3>1. Cardinality(states') = 0
      BY <2>3, FS_EmptySet
    <3>2. Versions' = {}
      BY <2>3 DEF Versions
    <3> QED
      BY <2>1, <3>1, <3>2
  <2>4. states' = states \/ states' = {}
    BY <1>8 DEF Restart
  <2> QED
    BY <2>2, <2>3, <2>4
<1> QED
  BY <1>4, <1>5, <1>6, <1>7, <1>8 DEF ConversationsNext, RequestStep

LEMMA StatesInvHolds == ConversationsSpec => []StatesInv
<1>1. ConversationsInit => StatesInv
  <2> SUFFICES ASSUME ConversationsInit PROVE StatesInv
    OBVIOUS
  <2>1. states = {} /\ \A r \in Requests : doing[r].at = "new"
    BY DEF ConversationsInit, Waiting
  <2> QED
    BY <2>1, FS_EmptySet DEF StatesInv, Versions
<1>2. ConversationInv /\ StatesInv /\ [ConversationsNext]_conversationVars => StatesInv'
  <2>1. StatesInv /\ UNCHANGED conversationVars => StatesInv'
    BY DEF StatesInv, Versions, conversationVars
  <2> QED
    BY <2>1, StepStates
<1> QED
  BY <1>1, <1>2, ConversationInvHolds, PTL DEF ConversationsSpec

\* A compaction that is shown as version v is the state that is stored as
\* version v, and the versions have no gaps, unless a run was closed early.
THEOREM ShownIsStored == ConversationsSpec => ShownStateIsStored
<1> DEFINE AsStored ==
      ~early => \A r \in Requests :
         doing[r].at = "compact" /\ doing'[r].at = "llm" /\ stored.there =>
           /\ [version |-> doing[r].known + 1, source |-> Older(doing[r].doc)] \in states'
           /\ {s.version : s \in states'} = 1..(doing[r].known + 1)
<1>1. ASSUME ConversationInv, StatesInv, ConversationsNext
      PROVE  AsStored
  <2> SUFFICES ASSUME ~early, NEW r \in Requests,
                      doing[r].at = "compact", doing'[r].at = "llm", stored.there
               PROVE  /\ Compacted(r) \in states'
                      /\ {s.version : s \in states'} = 1..(doing[r].known + 1)
    BY DEF Compacted
  <2>1. DocTypes
    BY <1>1 DEF ConversationInv
  <2>2. SaveState(r)
    <3>1. ASSUME NEW q \in Requests, RequestStep(q) \/ SaveState(q)
          PROVE  q = r
      BY <2>1, <3>1, RequestStepMoves
    <3>2. ~RequestStep(r)
      <4>1. ~Stop(r)
        BY <2>1, EndMoves DEF Stop
      <4> QED
        BY <4>1 DEF RequestStep, Start, GetConversation, SkipLlm, AddUserMessage, FilterMessages,
                    Llm, UpdateConversation
    <3>3. ASSUME NEW expired \in BOOLEAN, Restart(expired)
          PROVE  FALSE
      BY <3>3, EndedTypes DEF Restart, Working
    <3>4. ASSUME NEW q \in Requests, CloseEarly(q) \/ DeleteConversation
          PROVE  FALSE
      BY <3>4 DEF CloseEarly, DeleteConversation
    <3> QED
      BY <1>1, <3>1, <3>2, <3>3, <3>4 DEF ConversationsNext, RequestStep
  <2> QED
    BY <1>1, <2>2, StoresNext
<1>2. UNCHANGED conversationVars => AsStored
  BY DEF conversationVars
<1>3. ConversationInv /\ StatesInv /\ [ConversationsNext]_conversationVars
        => [AsStored]_conversationVars
  <2> HIDE DEF AsStored
  <2> QED
    BY <1>1, <1>2
<1> QED
  BY <1>3, ConversationInvHolds, StatesInvHolds, PTL DEF ConversationsSpec, ShownStateIsStored

-----------------------------------------------------------------------------
(***************************************************************************)
(* The compilation of a prompt.                                            *)
(***************************************************************************)
LEMMA ItemParts ==
    ASSUME CompilerTypeOK, NEW i \in Items
    PROVE  item[i].shape.partition \in Partition /\ item[i].tokens \in Nat
<1>1. item[i].shape \in ItemShapes /\ item[i].tokens \in Tokens
  BY DEF CompilerTypeOK, ItemRecord
<1>2. \A s \in ItemShapes : s.partition \in Partition
  BY DEF ItemShapes, FixedShapes, ResumeShape, MemoryShapes, MessageShapes, Shape, Partition
<1> QED
  BY <1>1, <1>2, CompilerAssumption

\* What admitting or pruning one item does.
LEMMA AdmitDoes ==
    ASSUME CompilerTypeOK, NEW i \in Items, Admit(i)
    PROVE  /\ usage' \in [Partition -> Nat] /\ total' \in Nat
           /\ \A p \in Partition : usage'[p] >= usage[p]
           /\ total' >= total
           /\ \/ pruned' = pruned \cup {i} /\ (ExceedsPartition(i) \/ ExceedsTotal(i))
              \/ pruned' = pruned
           /\ UNCHANGED <<item, mode, at, prompt>>
<1>1. item[i].shape.partition \in Partition /\ item[i].tokens \in Nat
  BY ItemParts
<1>2. usage \in [Partition -> Nat] /\ total \in Nat
  BY DEF CompilerTypeOK
<1>3. CASE ~Mandatory(i) /\ (ExceedsPartition(i) \/ ExceedsTotal(i))
  BY <1>2, <1>3 DEF Admit
<1>4. CASE ~(~Mandatory(i) /\ (ExceedsPartition(i) \/ ExceedsTotal(i)))
  <2>1. /\ usage' = [usage EXCEPT ![item[i].shape.partition] = @ + item[i].tokens]
        /\ total' = total + item[i].tokens /\ UNCHANGED pruned
        /\ UNCHANGED <<item, mode, at, prompt>>
    BY <1>4 DEF Admit
  <2> QED
    BY <1>1, <1>2, <2>1
<1> QED
  BY <1>3, <1>4

LEMMA CompilerStepTypes ==
    ASSUME CompilerTypeOK, CompilerNext
    PROVE  CompilerTypeOK'
<1>1. CASE CheckItems
  BY <1>1 DEF CheckItems, CompilerTypeOK, Valid
<1>2. CASE RefuseItems
  BY <1>2 DEF RefuseItems, Fails, CompilerTypeOK
<1>3. ASSUME NEW i \in Items, Admit(i)
      PROVE  CompilerTypeOK'
  <2>1. pending' \subseteq Items /\ included' \subseteq Items
    BY <1>3 DEF Admit, CompilerTypeOK
  <2>2. pruned' \subseteq Items
    BY <1>3, AdmitDoes DEF CompilerTypeOK
  <2> QED
    BY <1>3, <2>1, <2>2, AdmitDoes DEF CompilerTypeOK
<1>4. CASE Finish
  BY <1>4 DEF Finish, CompilerTypeOK
<1>5. CASE SaveManifest
  BY <1>5 DEF SaveManifest, CompilerTypeOK, Shown, Fixed
<1>6. CASE SaveFails
  BY <1>6 DEF SaveFails, Fails, CompilerTypeOK, Shown, Fixed
<1> QED
  BY <1>1, <1>2, <1>3, <1>4, <1>5, <1>6 DEF CompilerNext

LEMMA CompilerStepPrunes ==
    ASSUME CompilerTypeOK, PruningIsNeeded, CompilerNext
    PROVE  PruningIsNeeded'
<1> USE DEF PruningIsNeeded, Valid, ExceedsPartition, ExceedsTotal
<1>1. CASE CheckItems
  BY <1>1 DEF CheckItems
<1>2. CASE RefuseItems
  BY <1>2 DEF RefuseItems, Fails
<1>3. ASSUME NEW i \in Items, Admit(i)
      PROVE  PruningIsNeeded'
  <2>1. usage \in [Partition -> Nat] /\ total \in Nat
    BY DEF CompilerTypeOK
  <2>2. PartitionBudget \in [Partition -> Nat] /\ TotalBudget \in Nat
    BY CompilerAssumption
  <2>3. at = "admit" /\ \A j \in pruned \cap Valid : ExceedsPartition(j) \/ ExceedsTotal(j)
    BY <1>3 DEF Admit
  <2>4. \A j \in pruned' \cap Valid : ExceedsPartition(j) \/ ExceedsTotal(j)
    <3>1. \/ pruned' = pruned \cup {i} /\ (ExceedsPartition(i) \/ ExceedsTotal(i))
          \/ pruned' = pruned
      BY <1>3, AdmitDoes
    <3> HIDE DEF Valid, ExceedsPartition, ExceedsTotal
    <3> QED
      BY <2>3, <3>1
  <2>5. UNCHANGED item
    BY <1>3, AdmitDoes
  <2>6. ASSUME NEW j \in Items, ExceedsPartition(j) \/ ExceedsTotal(j)
        PROVE  (ExceedsPartition(j) \/ ExceedsTotal(j))'
    <3>1. item[j].shape.partition \in Partition /\ item[j].tokens \in Nat
      BY ItemParts
    <3>2. /\ usage' \in [Partition -> Nat] /\ total' \in Nat /\ total' >= total
          /\ usage'[item[j].shape.partition] >= usage[item[j].shape.partition]
      BY <1>3, <3>1, AdmitDoes
    <3> QED
      BY <2>1, <2>2, <2>5, <2>6, <3>1, <3>2
  <2>7. pruned' \subseteq Items
    BY <1>3, AdmitDoes DEF CompilerTypeOK
  <2>8. Valid' = Valid
    BY <2>5
  <2> HIDE DEF Valid, ExceedsPartition, ExceedsTotal
  <2> QED
    BY <2>4, <2>6, <2>7, <2>8
<1>4. CASE Finish
  BY <1>4 DEF Finish
<1>5. CASE SaveManifest
  BY <1>5 DEF SaveManifest
<1>6. CASE SaveFails
  BY <1>6 DEF SaveFails, Fails
<1> QED
  BY <1>1, <1>2, <1>3, <1>4, <1>5, <1>6 DEF CompilerNext

\* The compilation keeps the types of its state.
THEOREM CompilerTypesCorrect == CompilerSpec => []CompilerTypeOK
<1>1. CompilerInit => CompilerTypeOK
  BY DEF CompilerInit, CompilerTypeOK
<1>2. CompilerTypeOK /\ [CompilerNext]_compilerVars => CompilerTypeOK'
  <2>1. CompilerTypeOK /\ UNCHANGED compilerVars => CompilerTypeOK'
    BY DEF CompilerTypeOK, compilerVars
  <2> QED
    BY <2>1, CompilerStepTypes
<1> QED
  BY <1>1, <1>2, PTL DEF CompilerSpec

\* Whatever the budgets, what was left out for them would not fit afterwards.
THEOREM PruningIsNeededHolds == CompilerSpec => []PruningIsNeeded
<1>1. CompilerInit => PruningIsNeeded
  BY DEF CompilerInit, PruningIsNeeded
<1>2. CompilerTypeOK /\ PruningIsNeeded /\ [CompilerNext]_compilerVars => PruningIsNeeded'
  <2>1. PruningIsNeeded /\ UNCHANGED compilerVars => PruningIsNeeded'
    BY DEF PruningIsNeeded, Valid, ExceedsPartition, ExceedsTotal, compilerVars
  <2> QED
    BY <2>1, CompilerStepPrunes
<1> QED
  BY <1>1, <1>2, CompilerTypesCorrect, PTL DEF CompilerSpec

-----------------------------------------------------------------------------
(***************************************************************************)
(* The tokens of a set of items.                                           *)
(***************************************************************************)
\* The numbered tokens of one item.
LEMMA ItemTokens ==
    ASSUME NEW i, NEW n \in Nat
    PROVE  IsFiniteSet({i} \X (1..n)) /\ Cardinality({i} \X (1..n)) = n
<1>1. IsFiniteSet({i}) /\ Cardinality({i}) = 1
  BY FS_Singleton, Zenon
<1>2. IsFiniteSet(1..n) /\ Cardinality(1..n) = n
  BY FS_Interval
<1>3. IsFiniteSet({i} \X (1..n)) /\ Cardinality({i} \X (1..n)) = Cardinality({i}) * Cardinality(1..n)
  BY <1>1, <1>2, FS_Product, Zenon
<1> QED
  BY <1>1, <1>2, <1>3

LEMMA TokensFinite ==
    ASSUME CompilerTypeOK, NEW S \in SUBSET Items
    PROVE  IsFiniteSet(TokensOf(S))
<1> DEFINE f == [i \in S |-> {i} \X (1..item[i].tokens)]
           T == {{i} \X (1..item[i].tokens) : i \in S}
<1>1. IsFiniteSet(S)
  BY FS_Subset, CompilerAssumption
<1>2. f \in Surjection(S, T)
  BY DEF Surjection
<1>3. IsFiniteSet(T)
  <2> HIDE DEF f, T
  <2> QED
    BY <1>1, <1>2, FS_Surjection
<1>4. \A i \in S : IsFiniteSet({i} \X (1..item[i].tokens))
  BY ItemParts, ItemTokens
<1>5. IsFiniteSet(UNION T)
  <2>1. \A t \in T : IsFiniteSet(t)
    BY <1>4
  <2> HIDE DEF T
  <2> QED
    BY <1>3, <2>1, FS_UNION
<1> QED
  BY <1>5 DEF TokensOf

LEMMA SumTokensType ==
    ASSUME CompilerTypeOK, NEW S \in SUBSET Items
    PROVE  SumTokens(S) \in Nat
BY TokensFinite, FS_CardinalityType DEF SumTokens

LEMMA NoTokens == SumTokens({}) = 0
<1>1. TokensOf({}) = {}
  BY DEF TokensOf
<1> QED
  BY <1>1, FS_EmptySet DEF SumTokens

LEMMA MoreTokens ==
    ASSUME CompilerTypeOK, NEW S \in SUBSET Items, NEW R \in SUBSET S
    PROVE  SumTokens(R) <= SumTokens(S)
<1>1. TokensOf(R) \subseteq TokensOf(S)
  BY DEF TokensOf
<1> QED
  BY <1>1, TokensFinite, FS_Subset DEF SumTokens

LEMMA OneMoreItem ==
    ASSUME CompilerTypeOK, NEW S \in SUBSET Items, NEW i \in Items \ S
    PROVE  SumTokens(S \cup {i}) = SumTokens(S) + item[i].tokens
<1> DEFINE own == {i} \X (1..item[i].tokens)
<1>1. TokensOf(S \cup {i}) = TokensOf(S) \cup own
  BY DEF TokensOf
<1>2. TokensOf(S) \cap own = {}
  BY DEF TokensOf
<1>3. IsFiniteSet(own) /\ Cardinality(own) = item[i].tokens
  BY ItemParts, ItemTokens
<1>4. IsFiniteSet(TokensOf(S)) /\ Cardinality(TokensOf(S)) \in Nat
  BY TokensFinite, FS_CardinalityType
<1>5. Cardinality(TokensOf(S) \cup own) = Cardinality(TokensOf(S)) + Cardinality(own) - Cardinality({})
  <2> HIDE DEF own
  <2> QED
    BY <1>2, <1>3, <1>4, FS_Union
<1>6. item[i].tokens \in Nat
  BY ItemParts
<1>7. Cardinality({}) = 0
  BY FS_EmptySet
<1>8. SumTokens(S \cup {i}) = Cardinality(TokensOf(S) \cup own) /\ SumTokens(S) = Cardinality(TokensOf(S))
  BY <1>1 DEF SumTokens
<1> HIDE DEF own
<1> QED
  BY <1>3, <1>4, <1>5, <1>6, <1>7, <1>8

-----------------------------------------------------------------------------
(***************************************************************************)
(* Admission: mandatory items come first, and together they fit.           *)
(***************************************************************************)
LEMMA SameItems ==
    ASSUME UNCHANGED item
    PROVE  /\ Valid' = Valid /\ Reserved' = Reserved /\ Overfull' = Overfull /\ Unproven' = Unproven
           /\ SumTokens(included)' = SumTokens(included') /\ SumTokens(prompt)' = SumTokens(prompt')
BY DEF Valid, Reserved, Overfull, Unproven, Mandatory, SumTokens, TokensOf

\* A step that decides one item, in enforce mode.
LEMMA AdmitKeeps ==
    ASSUME CompilerTypeOK, AdmissionInv, mode = "enforce", NEW i \in Items, Admit(i)
    PROVE  AdmissionInv'
<1>1. /\ at = "admit" /\ i \in pending /\ pending' = pending \ {i}
      /\ \A j \in pending \ {i} : AdmittedBefore(i, j)
      /\ UNCHANGED <<item, mode, at>>
  BY DEF Admit
<1>2. /\ pending \cup included \subseteq Valid /\ pending \cap included = {}
      /\ Reserved \subseteq pending \cup included /\ ~Overfull /\ ~Unproven
      /\ pending \cap Reserved # {} => included \subseteq Reserved
      /\ total = SumTokens(included) /\ total <= TotalBudget
  BY <1>1 DEF AdmissionInv
<1>3. included \in SUBSET Items /\ i \in Items \ included /\ Reserved \in SUBSET Items
  BY <1>1, <1>2 DEF CompilerTypeOK, Reserved, Valid
<1>4. i \notin Reserved => (pending \ {i}) \cap Reserved = {} /\ ~Mandatory(i)
  BY <1>1, <1>2 DEF Reserved, AdmittedBefore
<1>5. /\ pending' \cup included' \subseteq Valid /\ pending' \cap included' = {}
      /\ included' \subseteq included \cup {i}
  BY <1>1, <1>2 DEF Admit
<1>6. Reserved \subseteq pending' \cup included'
  <2>1. i \in Reserved => included' = included \cup {i}
    BY DEF Admit, Reserved
  <2> QED
    BY <1>1, <1>2, <1>5, <2>1 DEF Admit
<1>7. pending' \cap Reserved # {} => included' \subseteq Reserved
  BY <1>1, <1>2, <1>4, <1>5
<1>8. total' = SumTokens(included') /\ total' <= TotalBudget
  <2>1. CASE included' = included /\ total' = total
    BY <1>2, <2>1
  <2>2. CASE included' = included \cup {i} /\ total' = total + item[i].tokens
    <3>1. total' = SumTokens(included')
      BY <1>2, <1>3, <2>2, OneMoreItem
    <3>2. CASE i \in Reserved
      <4>1. included' \in SUBSET Reserved
        BY <1>1, <1>2, <2>2, <3>2
      <4>2. SumTokens(included') <= SumTokens(Reserved)
        BY <1>3, <4>1, MoreTokens
      <4>3. SumTokens(Reserved) <= TotalBudget
        BY <1>2, <1>3, SumTokensType, CompilerAssumption DEF Overfull
      <4>4. SumTokens(included') \in Nat /\ SumTokens(Reserved) \in Nat
        BY <1>3, <4>1, SumTokensType
      <4> QED
        BY <3>1, <4>2, <4>3, <4>4, CompilerAssumption
    <3>3. CASE i \notin Reserved
      <4>1. ~ExceedsTotal(i)
        <5>1. i \notin included
          BY <1>3
        <5>2. included' # included
          BY <2>2, <5>1
        <5> QED
          BY <1>4, <3>3, <5>2 DEF Admit
      <4>2. total \in Nat /\ item[i].tokens \in Nat
        BY ItemParts DEF CompilerTypeOK
      <4> QED
        BY <2>2, <3>1, <4>1, <4>2, CompilerAssumption DEF ExceedsTotal
    <3> QED
      BY <3>2, <3>3
  <2> QED
    BY <2>1, <2>2 DEF Admit
<1> QED
  BY <1>1, <1>2, <1>5, <1>6, <1>7, <1>8, SameItems DEF AdmissionInv

LEMMA StepAdmission ==
    ASSUME CompilerTypeOK, PromptInv, CompilerNext
    PROVE  PromptInv'
<1> SUFFICES ASSUME mode = "enforce" PROVE PromptInv'
  <2>1. UNCHANGED mode
    BY DEF CompilerNext, CheckItems, RefuseItems, Fails, Admit, Finish, SaveManifest, SaveFails
  <2> QED
    BY <2>1 DEF PromptInv, AdmissionInv, EnforcedPrompt
<1>1. UNCHANGED <<item, mode>>
  BY DEF CompilerNext, CheckItems, RefuseItems, Fails, Admit, Finish, SaveManifest, SaveFails
<1>2. AdmissionInv
  BY DEF PromptInv
<1>3. CASE CheckItems
  <2>1. /\ at' = "admit" /\ pending' = Valid /\ included' = {} /\ total' = 0
        /\ ~Overfull /\ ~Unproven
    BY <1>2, <1>3 DEF CheckItems, AdmissionInv
  <2>2. Reserved \subseteq Valid
    BY DEF Reserved
  <2>3. total' = SumTokens(included') /\ total' <= TotalBudget
    BY <2>1, NoTokens, CompilerAssumption
  <2> QED
    BY <1>1, <2>1, <2>2, <2>3, SameItems DEF PromptInv, AdmissionInv, EnforcedPrompt
<1>4. CASE RefuseItems \/ (SaveFails /\ Fails)
  BY <1>4 DEF RefuseItems, Fails, PromptInv, AdmissionInv, EnforcedPrompt
<1>5. ASSUME NEW i \in Items, Admit(i)
      PROVE  PromptInv'
  <2>1. AdmissionInv' /\ at' = "admit"
    BY <1>2, <1>5, AdmitKeeps DEF Admit
  <2> QED
    BY <2>1, <1>1 DEF PromptInv, AdmissionInv, EnforcedPrompt
<1>6. CASE Finish
  <2>1. /\ at = "admit" /\ at' = "save" /\ pending = {}
        /\ UNCHANGED <<item, mode, pending, included, total>>
    BY <1>6 DEF Finish
  <2> QED
    BY <1>2, <2>1, SameItems DEF PromptInv, AdmissionInv, EnforcedPrompt
<1>7. CASE SaveManifest
  <2>1. at = "save" /\ at' = "done" /\ prompt' = Shown(included)
    BY <1>7 DEF SaveManifest
  <2>2. /\ Reserved \subseteq included /\ ~Unproven
        /\ total = SumTokens(included) /\ total <= TotalBudget
    BY <1>2, <2>1 DEF AdmissionInv
  <2> DEFINE Wanted == {i \in Items : Mandatory(i) /\ item[i].flaw # "expired"}
  <2>3. Wanted \subseteq included
    <3>1. \A i \in Items : item[i].flaw \in {"none", "missing_provenance", "expired"}
      BY DEF CompilerTypeOK, ItemRecord
    <3> QED
      BY <2>2, <3>1 DEF Unproven, Reserved, Valid
  <2>4. UNCHANGED <<Wanted, Unplaced>>
    BY <1>1 DEF Mandatory, Unplaced
  <2>5. SumTokens(prompt)' <= TotalBudget
    <3>1. prompt' \subseteq included
      <4>1. \A i \in Fixed : Mandatory(i) /\ item[i].flaw = "none"
        BY DEF CompilerTypeOK, ItemRecord, Fixed, FixedShapes, Shape, Mandatory
      <4>2. Fixed \subseteq included
        BY <2>2, <4>1 DEF Reserved, Valid, Fixed
      <4> QED
        BY <2>1, <4>2 DEF Shown
    <3>2. included \subseteq Items
      BY DEF CompilerTypeOK
    <3>3. SumTokens(prompt') <= SumTokens(included)
      BY <3>1, <3>2, MoreTokens
    <3>4. SumTokens(prompt') \in Nat /\ SumTokens(included) \in Nat
      BY <3>1, <3>2, SumTokensType
    <3>5. TotalBudget \in Nat
      BY CompilerAssumption
    <3> QED
      BY <1>1, <2>2, <3>3, <3>4, <3>5, SameItems
  <2>6. AdmissionInv'
    BY <2>1 DEF AdmissionInv
  <2>7. (Wanted \ Unplaced \subseteq prompt)'
    BY <2>1, <2>3, <2>4 DEF Shown
  <2> QED
    BY <2>1, <2>5, <2>6, <2>7 DEF PromptInv, EnforcedPrompt
<1> QED
  BY <1>3, <1>4, <1>5, <1>6, <1>7 DEF CompilerNext, SaveFails

LEMMA PromptInvHolds == CompilerSpec => []PromptInv
<1>1. CompilerInit => PromptInv
  BY DEF CompilerInit, PromptInv, AdmissionInv, EnforcedPrompt
<1>2. CompilerTypeOK /\ PromptInv /\ [CompilerNext]_compilerVars => PromptInv'
  <2>1. ASSUME PromptInv, UNCHANGED compilerVars PROVE PromptInv'
    <3>1. UNCHANGED <<item, mode, at, pending, included, total, prompt>>
      BY <2>1 DEF compilerVars
    <3>2. ({i \in Items : Mandatory(i) /\ item[i].flaw # "expired"} \ Unplaced)' =
          {i \in Items : Mandatory(i) /\ item[i].flaw # "expired"} \ Unplaced
      BY <3>1 DEF Mandatory, Unplaced
    <3> QED
      BY <2>1, <3>1, <3>2, SameItems DEF PromptInv, AdmissionInv, EnforcedPrompt
  <2> QED
    BY <2>1, StepAdmission
<1> QED
  BY <1>1, <1>2, CompilerTypesCorrect, PTL DEF CompilerSpec

\* In enforce mode the loop keeps to the budget, and what the model is shown
\* keeps to it and has every mandatory item but expired ones and the evidence
\* of a resumed run, which no message carries.
THEOREM EnforcedPromptHolds == CompilerSpec => []EnforcedPrompt
<1>1. PromptInv => EnforcedPrompt
  BY DEF PromptInv
<1> QED
  BY <1>1, PromptInvHolds, PTL

-----------------------------------------------------------------------------
(***************************************************************************)
(* The types of a conversation.                                            *)
(***************************************************************************)
LEMMA OlderType ==
    ASSUME NEW doc \in Seq(Message)
    PROVE  Older(doc) \in Seq(Message)
<1> DEFINE early_turns == {i \in 1..Len(doc) : UserMessages(SubSeq(doc, i + 1, Len(doc))) >= UserTurns}
           n == Cardinality(early_turns)
<1>1. Len(doc) \in Nat
  OBVIOUS
<1>2. IsFiniteSet(1..Len(doc)) /\ Cardinality(1..Len(doc)) = Len(doc)
  BY <1>1, FS_Interval
<1>3. early_turns \in SUBSET (1..Len(doc))
  OBVIOUS
<1> HIDE DEF early_turns
<1>4. n \in Nat /\ n <= Len(doc)
  BY <1>2, <1>3, FS_Subset, FS_CardinalityType
<1> HIDE DEF n
<1>5. SubSeq(doc, 1, n) \in Seq(Message)
  BY <1>1, <1>4
<1> QED
  BY <1>5 DEF Older, n, early_turns

StateRecord == [version : Nat \ {0}, source : Seq(Message)]

LEMMA StepStateTypes ==
    ASSUME ConversationInv, ConversationsTypeOK, ConversationsNext
    PROVE  states' \subseteq StateRecord /\ slot' \in Requests \cup {NoRequest} /\ early' \in BOOLEAN
<1>1. states \subseteq StateRecord /\ slot \in Requests \cup {NoRequest} /\ early \in BOOLEAN
  BY DEF ConversationsTypeOK, StateRecord
<1>2. DocTypes
  BY DEF ConversationInv
<1>3. ASSUME NEW r \in Requests, RequestStep(r)
      PROVE  states' \subseteq StateRecord
  BY <1>1, <1>2, <1>3, RequestStepMoves
<1>4. ASSUME NEW r \in Requests, RequestStep(r)
      PROVE  slot' \in Requests \cup {NoRequest} /\ early' \in BOOLEAN
  BY <1>1, <1>4 DEF RequestStep, Start, GetConversation, SkipLlm, AddUserMessage, FilterMessages,
                    Llm, UpdateConversation, Stop, End
<1>5. ASSUME NEW r \in Requests, SaveState(r)
      PROVE  states' \subseteq StateRecord /\ slot' \in Requests \cup {NoRequest} /\ early' \in BOOLEAN
  <2>1. doing[r].known \in Nat /\ doing[r].doc \in Seq(Message)
    BY <1>2 DEF DocTypes, RequestRecord
  <2>2. Compacted(r) \in StateRecord
    BY <2>1, OlderType DEF Compacted, StateRecord
  <2>3. states' = states \/ states' = states \cup {Compacted(r)}
    BY <1>5 DEF SaveState, StoreState
  <2> QED
    BY <1>1, <1>5, <2>2, <2>3 DEF SaveState, End
<1>6. ASSUME NEW r \in Requests, CloseEarly(r)
      PROVE  states' \subseteq StateRecord /\ slot' \in Requests \cup {NoRequest} /\ early' \in BOOLEAN
  BY <1>1, <1>6 DEF CloseEarly
<1>7. CASE DeleteConversation
  BY <1>1, <1>7 DEF DeleteConversation
<1>8. ASSUME NEW expired \in BOOLEAN, Restart(expired)
      PROVE  states' \subseteq StateRecord /\ slot' \in Requests \cup {NoRequest} /\ early' \in BOOLEAN
  BY <1>1, <1>8 DEF Restart
<1> QED
  BY <1>3, <1>4, <1>5, <1>6, <1>7, <1>8 DEF ConversationsNext, RequestStep

LEMMA ConversationsTypes == ConversationsSpec => []ConversationsTypeOK
<1>1. DocTypes /\ states \subseteq StateRecord /\ slot \in Requests \cup {NoRequest} /\ early \in BOOLEAN
        <=> ConversationsTypeOK
  BY DEF ConversationsTypeOK, DocTypes, RequestRecord, Where, StateRecord
<1>2. ConversationsInit /\ ConversationInv => ConversationsTypeOK
  BY <1>1 DEF ConversationsInit, ConversationInv
<1>3. ConversationInv /\ ConversationInv' /\ ConversationsTypeOK /\ [ConversationsNext]_conversationVars
        => ConversationsTypeOK'
  <2>1. ConversationsTypeOK /\ UNCHANGED conversationVars => ConversationsTypeOK'
    BY DEF ConversationsTypeOK, conversationVars
  <2>2. ASSUME ConversationInv, ConversationInv', ConversationsTypeOK, ConversationsNext
        PROVE  ConversationsTypeOK'
    <3>1. states' \subseteq StateRecord /\ slot' \in Requests \cup {NoRequest} /\ early' \in BOOLEAN
      BY <2>2, StepStateTypes
    <3>2. DocTypes'
      BY <2>2 DEF ConversationInv
    <3> QED
      BY <3>1, <3>2 DEF ConversationsTypeOK, DocTypes, RequestRecord, Where, StateRecord
  <2> QED
    BY <2>1, <2>2
<1> QED
  BY <1>2, <1>3, ConversationInvHolds, PTL DEF ConversationsSpec

-----------------------------------------------------------------------------
(***************************************************************************)
(* The three parts together.                                               *)
(***************************************************************************)
\* Each part, explored while the others rest, behaves by itself.
THEOREM PartsOfTheState ==
    AgentStateSpec => MemSpec /\ ConversationsSpec /\ CompilerSpec
<1>1. AgentStateInit => MemInit /\ ConversationsInit /\ CompilerInit
  BY DEF AgentStateInit
<1>2. [AgentStateNext]_<<part, mvars, conversationVars, compilerVars>>
        => [MemNext]_mvars /\ [ConversationsNext]_conversationVars /\ [CompilerNext]_compilerVars
  BY DEF AgentStateNext
<1> QED
  BY <1>1, <1>2, PTL DEF AgentStateSpec, MemSpec, ConversationsSpec, CompilerSpec

\* For every set of memories, calls, requests and items: memories, conversations
\* and compilations keep what their steps rely on.
THEOREM AgentStateInvHolds == AgentStateSpec => []AgentStateInv
<1>1. MemTypeOK /\ ConversationsTypeOK /\ CompilerTypeOK /\ MemInv /\ NewestInv /\ ConversationInv /\ PromptInv
        => AgentStateInv
  BY DEF AgentStateInv, ConversationInv, PromptInv
<1> QED
  BY <1>1, PartsOfTheState, MemTypesCorrect, ConversationsTypes, CompilerTypesCorrect,
     MemInvHolds, NewestInvHolds, ConversationInvHolds, PromptInvHolds, PTL
=============================================================================
