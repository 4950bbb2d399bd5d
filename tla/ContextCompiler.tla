--------------------------- MODULE ContextCompiler ---------------------------
(***************************************************************************)
(* What of the evidence reaches the model (context_v2/compiler.py, and     *)
(* ContextV2Enhancer in state/context.py which feeds it): the items of a   *)
(* prompt are checked, admitted one by one against a budget of tokens per  *)
(* partition and in all, and recorded in a manifest of the run.            *)
(*                                                                         *)
(* In enforce mode the prompt holds what was admitted and any error fails  *)
(* the request; in shadow mode errors are swallowed and the prompt stays   *)
(* what it was.  The evidence a user chose for a resumed run is admitted   *)
(* and recorded like the rest, but no message carries it.  Tokens are      *)
(* counted by an estimator: here, a number.                                *)
(***************************************************************************)
EXTENDS Naturals, FiniteSets

CONSTANTS
    Items,              \* item ids, a set of naturals: the order of equal priorities
    Tokens,             \* sizes an item may have
    MemoryPriorities,   \* priorities a memory may have: its similarity in percent
    TotalBudget,        \* total_token_budget
    PartitionBudget     \* the share of each partition, rounded down

Partition == {"safety", "request", "evidence", "memory", "conversation"}

ASSUME CompilerAssumption ==
    /\ Items \subseteq Nat /\ IsFiniteSet(Items)
    /\ Tokens \subseteq Nat \ {0} /\ MemoryPriorities \subseteq Nat
    /\ TotalBudget \in Nat \ {0}
    /\ PartitionBudget \in [Partition -> Nat]

VARIABLES
    item,       \* the items to compile
    mode,       \* shadow or enforce
    at,         \* where the compilation is
    pending,    \* valid items not decided yet
    included, pruned,
    usage, total,
    prompt      \* items the model is shown

compilerVars == <<item, mode, at, pending, included, pruned, usage, total, prompt>>

\* PARTITION_ORDER, of the partitions that are used.
Rank(p) == CASE p = "safety" -> 1 [] p = "request" -> 2 [] p = "evidence" -> 3
             [] p = "memory" -> 4 [] p = "conversation" -> 5

Shape(partition, priority, mandatory) ==
    [partition |-> partition, priority |-> priority, mandatory |-> mandatory]

\* enhance_system_prompt: the policy and the request, which are messages of
\* their own already, the evidence of a resumed run, and memories.
FixedShapes == {Shape("safety", 100, TRUE), Shape("request", 100, TRUE)}
ResumeShape == Shape("evidence", 95, TRUE)
MemoryShapes == {Shape("memory", p, FALSE) : p \in MemoryPriorities}

\* enhance_user_messages: tool calls and their results are kept together by
\* being mandatory; other messages are not.
MessageShapes ==
    {Shape("conversation", 90, TRUE), Shape("evidence", 90, TRUE), Shape("conversation", 30, FALSE)}

ItemShapes == FixedShapes \cup {ResumeShape} \cup MemoryShapes \cup MessageShapes

\* The policy and the request come with their source and never expire.
ItemRecord ==
    {i \in [shape : ItemShapes, tokens : Tokens, flaw : {"none", "missing_provenance", "expired"}] :
       i.shape \in FixedShapes => i.flaw = "none"}

CompilerTypeOK ==
    /\ item \in [Items -> ItemRecord]
    /\ mode \in {"shadow", "enforce"}
    /\ at \in {"check", "admit", "finish", "save", "done", "failed"}
    /\ pending \subseteq Items /\ included \subseteq Items /\ pruned \subseteq Items
    /\ usage \in [Partition -> Nat] /\ total \in Nat
    /\ prompt \subseteq Items

CompilerInit ==
    /\ item \in [Items -> ItemRecord]
    /\ mode \in {"shadow", "enforce"}
    /\ at = "check"
    /\ pending = {} /\ included = {} /\ pruned = {}
    /\ usage = [p \in Partition |-> 0] /\ total = 0
    /\ prompt = {}

-----------------------------------------------------------------------------
Mandatory(i) == item[i].shape.mandatory
Valid == {i \in Items : item[i].flaw = "none"}
\* The tokens of a set of items: each item's are numbered.
TokensOf(S) == UNION {{i} \X (1..item[i].tokens) : i \in S}
SumTokens(S) == Cardinality(TokensOf(S))

\* ordered: by partition, then descending priority, then id.
Before(i, j) ==
    LET a == item[i].shape  b == item[j].shape IN
    \/ Rank(a.partition) < Rank(b.partition)
    \/ a.partition = b.partition /\ (a.priority > b.priority \/ (a.priority = b.priority /\ i < j))

AdmittedBefore_Fault(i, j) == Before(i, j)
\* admission_order: all mandatory items first.
AdmittedBefore(i, j) ==
    \/ Mandatory(i) /\ ~Mandatory(j)
    \/ Mandatory(i) = Mandatory(j) /\ Before(i, j)

Fails ==
    /\ at' = "failed"
    /\ UNCHANGED <<item, mode, pending, included, pruned, usage, total, prompt>>

\* The checks before anything is admitted.
Reserved == {i \in Valid : Mandatory(i)}
Overfull == SumTokens(Reserved) > TotalBudget
Unproven == \E i \in Items : Mandatory(i) /\ item[i].flaw = "missing_provenance"

CheckItems ==
    /\ at = "check"
    /\ ~(mode = "enforce" /\ (Overfull \/ Unproven))
    /\ pending' = Valid /\ pruned' = Items \ Valid
    /\ at' = "admit"
    /\ UNCHANGED <<item, mode, included, usage, total, prompt>>

RefuseItems ==
    /\ at = "check"
    /\ mode = "enforce" /\ (Overfull \/ Unproven)
    /\ Fails

ExceedsPartition(i) ==
    LET p == item[i].shape.partition IN usage[p] + item[i].tokens > PartitionBudget[p]
ExceedsTotal(i) == total + item[i].tokens > TotalBudget

Admit_Fault(i) ==
    /\ at = "admit" /\ i \in pending
    /\ \A j \in pending \ {i} : AdmittedBefore(i, j)
    /\ pending' = pending \ {i}
    /\ IF ~Mandatory(i) /\ (pruned # {} \/ ExceedsPartition(i) \/ ExceedsTotal(i))
         THEN pruned' = pruned \cup {i} /\ UNCHANGED <<included, usage, total>>
         ELSE /\ included' = included \cup {i}
              /\ usage' = [usage EXCEPT ![item[i].shape.partition] = @ + item[i].tokens]
              /\ total' = total + item[i].tokens
              /\ UNCHANGED pruned
    /\ UNCHANGED <<item, mode, at, prompt>>

\* One turn of the loop over admission_order.
Admit(i) ==
    /\ at = "admit" /\ i \in pending
    /\ \A j \in pending \ {i} : AdmittedBefore(i, j)
    /\ pending' = pending \ {i}
    /\ IF ~Mandatory(i) /\ (ExceedsPartition(i) \/ ExceedsTotal(i))
         THEN /\ pruned' = pruned \cup {i}
              /\ UNCHANGED <<included, usage, total>>
         ELSE /\ included' = included \cup {i}
              /\ usage' = [usage EXCEPT ![item[i].shape.partition] = @ + item[i].tokens]
              /\ total' = total + item[i].tokens
              /\ UNCHANGED pruned
    /\ UNCHANGED <<item, mode, at, prompt>>

\* The check after the loop.
Finish ==
    /\ at = "admit" /\ pending = {}
    /\ ~(mode = "enforce" /\ total > TotalBudget)
    /\ at' = "save"
    /\ UNCHANGED <<item, mode, pending, included, pruned, usage, total, prompt>>

\* The messages: the system prompt and the request are left as they are, other
\* messages and memories are filtered, and nothing else is put in a message.
Fixed == {i \in Items : item[i].shape \in FixedShapes}
Unplaced == {i \in Items : item[i].shape = ResumeShape}
Shown(S) == (Fixed \cup S) \ Unplaced

\* save_manifest, then the prompt is built.
SaveManifest ==
    /\ at = "save"
    /\ at' = "done"
    /\ prompt' = Shown(IF mode = "enforce" THEN included ELSE Items)
    /\ UNCHANGED <<item, mode, pending, included, pruned, usage, total>>

\* The manifest cannot be saved: shadow falls back to the prompt as it was.
SaveFails ==
    /\ at = "save"
    /\ IF mode = "enforce" THEN Fails
       ELSE /\ at' = "done" /\ prompt' = Shown(Items)
            /\ UNCHANGED <<item, mode, pending, included, pruned, usage, total>>

CompilerNext ==
    \/ CheckItems \/ RefuseItems
    \/ \E i \in Items : Admit(i)
    \/ Finish \/ SaveManifest \/ SaveFails

CompilerSpec == CompilerInit /\ [][CompilerNext]_compilerVars

-----------------------------------------------------------------------------
(* Properties.                                                             *)

\* In enforce mode, reserving the mandatory items works: once the first checks
\* have passed the loop never runs over the budget, so that no prompt is lost
\* to the check after it; and the model is shown a prompt within the budget
\* with every mandatory item but expired ones and the evidence of a resumed
\* run, so that tool calls are not separated from their results.
EnforcedPrompt ==
    mode = "enforce" =>
      /\ at = "admit" /\ pending = {} => total <= TotalBudget
      /\ at = "done" =>
           /\ SumTokens(prompt) <= TotalBudget
           /\ {i \in Items : Mandatory(i) /\ item[i].flaw # "expired"} \ Unplaced \subseteq prompt

\* What was left out for the budget would still not fit when all is admitted.
PruningIsNeeded ==
    at \in {"admit", "save", "done"} => \A i \in pruned \cap Valid : ExceedsPartition(i) \/ ExceedsTotal(i)

\* Why the loop keeps to the budget: mandatory items come first, and together
\* they fit.
AdmissionInv ==
    mode = "enforce" =>
      /\ at = "check" => included = {} /\ total = 0
      /\ at \in {"admit", "save"} =>
           /\ pending \cup included \subseteq Valid /\ pending \cap included = {}
           /\ Reserved \subseteq pending \cup included
           /\ ~Overfull /\ ~Unproven
           /\ pending \cap Reserved # {} => included \subseteq Reserved
           /\ total = SumTokens(included) /\ total <= TotalBudget
      /\ at = "save" => pending = {}
PromptInv == AdmissionInv /\ EnforcedPrompt
=============================================================================
