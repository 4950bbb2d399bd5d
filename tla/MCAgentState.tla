---------------------------- MODULE MCAgentState ----------------------------
(***************************************************************************)
(* Three parts of the agent's state that share no variable - the memories  *)
(* of a user, a conversation, the compilation of a prompt - each explored  *)
(* in full while the two others stay at an initial state.                  *)
(***************************************************************************)
EXTENDS MemoryLifecycle, Conversations, ContextCompiler, TLC

CONSTANTS m1, m2, m3, k1

VARIABLE part   \* the part that is explored

MCKeyOf == (m1 :> k1) @@ (m2 :> k1) @@ (m3 :> NoKey)
MCPartitionBudget ==
    [p \in Partition |-> IF p \in {"memory", "conversation"} THEN 3 ELSE 1]

\* m1 and m2 differ in nothing.
MCSymmetry == Permutations(Calls) \cup Permutations({m1, m2}) \cup Permutations(Requests)

AgentStateInit ==
    /\ part \in {"memories", "conversation", "compiler"}
    /\ MemInit /\ (part # "memories" => repo = "memory")
    /\ ConversationsInit
    /\ IF part = "compiler" THEN CompilerInit
       ELSE CompilerInit /\ mode = "shadow"
              /\ item = [i \in Items |-> CHOOSE r \in ItemRecord : TRUE]

AgentStateNext ==
    /\ UNCHANGED part
    /\ \/ part = "memories" /\ MemNext /\ UNCHANGED <<conversationVars, compilerVars>>
       \/ part = "conversation" /\ ConversationsNext /\ UNCHANGED <<mvars, compilerVars>>
       \/ part = "compiler" /\ CompilerNext /\ UNCHANGED <<mvars, conversationVars>>

AgentStateSpec ==
    AgentStateInit /\ [][AgentStateNext]_<<part, mvars, conversationVars, compilerVars>>

\* The memories alone.
MemoriesSpec == AgentStateInit /\ part = "memories" /\ [][AgentStateNext]_<<part, mvars, conversationVars, compilerVars>>

\* What the steps of each part rely on of those before them.  Memories: the lock
\* of a key is held from before the rivals are read until the commit, so what is
\* about to be superseded is what is in force (MemInv, NewestInv).  Conversations:
\* a request works only while it holds the conversation, on a copy that has all
\* that is stored.  Compiler: mandatory items are admitted first and fit together.
AgentStateInv ==
    /\ MemTypeOK /\ ConversationsTypeOK /\ CompilerTypeOK
    /\ MemInv /\ NewestInv
    /\ WorkersHoldTheSlot /\ CopiesExtend
    /\ AdmissionInv
=============================================================================
