--------------------------- MODULE MemoryLifecycle ---------------------------
(***************************************************************************)
(* Memories of one user (state/memory_service.py over the memory rows of   *)
(* state/repositories.py): candidates, their confirmation, rejection and   *)
(* deletion, and what a prompt recalls.                                    *)
(*                                                                         *)
(* A row is identified by its unique (type, normalized content) pair, which *)
(* is the model's Memories.  In PostgreSQL every step of a call below is a *)
(* transaction of its own, except that a confirmation is one transaction   *)
(* of several statements which holds the locks it took until it commits.   *)
(* The in-memory repository never suspends, so there a call runs alone.    *)
(***************************************************************************)
EXTENDS Naturals, FiniteSets

CONSTANTS
    Memories,       \* (type, normalized content) pairs; each is stored at most once
    Keys,           \* conflict keys
    KeyOf,          \* the conflict key a memory is created with, or NoKey
    Calls,          \* concurrent calls of the service
    MaxActive,      \* max_active_per_user
    MemoryStores,   \* the repositories to explore
    NoKey, NoMemory, NoCall

ASSUME KeyOfAssumption ==
    /\ KeyOf \in [Memories -> Keys \cup {NoKey}]
    /\ NoKey \notin Keys /\ NoMemory \notin Memories /\ NoCall \notin Calls
ASSUME MaxActiveAssumption == MaxActive \in Nat
ASSUME MemoryStoresAssumption == MemoryStores \subseteq {"postgres", "memory"}

VARIABLES
    repo,       \* "postgres" or "memory"
    row,        \* agent_state.memories
    keyLock,    \* holders of the advisory locks
    rowLock,    \* holders of the row locks
    call,       \* the calls under way
    newest,     \* observer: the memory last confirmed for a key
    confirms    \* observer: how often a memory was confirmed for its key, up to 2

mvars == <<repo, row, keyLock, rowLock, call, newest, confirms>>

Statuses == {"none", "candidate", "confirmed", "rejected", "deleted"}
Idle == [at |-> "idle", op |-> "none", mem |-> NoMemory, old |-> {}]

MemTypeOK ==
    /\ repo \in {"postgres", "memory"}
    /\ row \in [Memories -> [status : Statuses, active : BOOLEAN, expired : BOOLEAN]]
    /\ keyLock \in [Keys -> Calls \cup {NoCall}]
    /\ rowLock \in [Memories -> Calls \cup {NoCall}]
    /\ call \in [Calls -> [at : {"idle", "insert", "event", "delete",
                                 "keyed", "locked", "target", "write"},
                           op : {"none", "create", "confirm", "reject", "delete"},
                           mem : Memories \cup {NoMemory}, old : SUBSET Memories]]
    /\ newest \in [Keys -> Memories \cup {NoMemory}]
    /\ confirms \in [Memories -> 0..2]

MemInit ==
    /\ repo \in MemoryStores
    /\ row = [m \in Memories |-> [status |-> "none", active |-> FALSE, expired |-> FALSE]]
    /\ keyLock = [k \in Keys |-> NoCall]
    /\ rowLock = [m \in Memories |-> NoCall]
    /\ call = [c \in Calls |-> Idle]
    /\ newest = [k \in Keys |-> NoMemory]
    /\ confirms = [m \in Memories |-> 0]

-----------------------------------------------------------------------------
(* Rows, locks and calls.                                                  *)

Stored(m) == row[m].status \notin {"none", "deleted"}

\* list_memories: what a user has that has not expired.
Listed == {m \in Memories : Stored(m) /\ ~row[m].expired}

\* search_confirmed: what may reach a prompt.
Recalled == {m \in Listed : row[m].status = "confirmed" /\ row[m].active}

\* The rows a confirmation of m supersedes.
Rivals(m) == {o \in Memories \ {m} :
    KeyOf[m] # NoKey /\ KeyOf[o] = KeyOf[m] /\ row[o].status = "confirmed" /\ row[o].active}

Turn(c) == repo = "memory" => \A d \in Calls \ {c} : call[d].at = "idle"
MayWrite(c, m) == rowLock[m] \in {c, NoCall}

Goto(c, at) == call' = [call EXCEPT ![c].at = at]
Begin(c, op, m, at) ==
    call' = [call EXCEPT ![c] = [at |-> at, op |-> op, mem |-> m, old |-> {}]]
Return(c) == call' = [call EXCEPT ![c] = Idle]
SetMemoryStatus(m, s) == row' = [row EXCEPT ![m].status = s]

locks == <<keyLock, rowLock>>
observers == <<newest, confirms>>

-----------------------------------------------------------------------------
(* create_candidate: list, insert and log in three transactions.           *)

ListForCreate(c, m) ==
    /\ call[c].at = "idle" /\ Turn(c) /\ row[m].status # "deleted"
    /\ m \in Listed \/ Cardinality({o \in Listed : row[o].status # "rejected"}) < MaxActive
    /\ Begin(c, "create", m, "insert")
    /\ UNCHANGED <<repo, row, locks, observers>>

\* ON CONFLICT DO UPDATE touches updated_at only: an existing row keeps its
\* status, validity and expiry.
UpsertMemory(c) ==
    LET m == call[c].mem IN
    /\ call[c].at = "insert" /\ MayWrite(c, m) /\ row[m].status # "deleted"
    /\ row' = IF Stored(m) THEN row
              ELSE [row EXCEPT ![m] = [status |-> "candidate", active |-> TRUE, expired |-> FALSE]]
    /\ Goto(c, "event")
    /\ UNCHANGED <<repo, locks, observers>>

\* add_memory_event: the last step but for a delete; the foreign key refuses
\* the event of a row that is gone, and the call fails.
AddMemoryEvent(c) ==
    LET m == call[c].mem IN
    /\ call[c].at = "event"
    /\ rowLock[m] = NoCall
    /\ IF call[c].op = "delete" /\ Stored(m) THEN Goto(c, "delete") ELSE Return(c)
    /\ UNCHANGED <<repo, row, locks, observers>>

Expire(m) ==
    /\ Stored(m) /\ ~row[m].expired
    /\ row' = [row EXCEPT ![m].expired = TRUE]
    /\ UNCHANGED <<repo, locks, call, observers>>

-----------------------------------------------------------------------------
(* reject and delete.  A missing memory is answered with 404.              *)

Reject(c, m) ==
    /\ call[c].at = "idle" /\ Turn(c) /\ MayWrite(c, m)
    /\ Stored(m)
    /\ SetMemoryStatus(m, "rejected")
    /\ Begin(c, "reject", m, "event")
    /\ UNCHANGED <<repo, locks, observers>>

GetForDelete(c, m) ==
    /\ call[c].at = "idle" /\ Turn(c)
    /\ Stored(m)
    /\ Begin(c, "delete", m, "event")
    /\ UNCHANGED <<repo, row, locks, observers>>

DeleteMemory(c) ==
    LET m == call[c].mem IN
    /\ call[c].at = "delete" /\ MayWrite(c, m)
    /\ IF Stored(m) THEN SetMemoryStatus(m, "deleted") ELSE UNCHANGED row
    /\ Return(c)
    /\ UNCHANGED <<repo, locks, observers>>

-----------------------------------------------------------------------------
(* confirm.                                                                *)

\* What the observers see of a confirmation under the lock of its key.
Observe(m, keyed) ==
    IF keyed THEN /\ confirms' = [confirms EXCEPT ![m] = IF @ < 2 THEN @ + 1 ELSE @]
                  /\ newest' = [newest EXCEPT ![KeyOf[m]] = m]
    ELSE UNCHANGED <<newest, confirms>>

\* confirm_memory_atomic reads its target without a lock ...
ConfirmRead(c, m) ==
    /\ repo = "postgres" /\ call[c].at = "idle"
    /\ Stored(m)
    /\ Begin(c, "confirm", m, IF KeyOf[m] # NoKey /\ row[m].active THEN "keyed" ELSE "write")
    /\ UNCHANGED <<repo, row, locks, observers>>

LockKey_Fault(c) ==
    /\ call[c].at = "keyed"
    /\ keyLock' = [keyLock EXCEPT ![KeyOf[call[c].mem]] = c]
    /\ Goto(c, "locked")
    /\ UNCHANGED <<repo, row, rowLock, observers>>

\* ... takes the advisory lock of its key ...
LockKey(c) ==
    LET k == KeyOf[call[c].mem] IN
    /\ call[c].at = "keyed" /\ keyLock[k] = NoCall
    /\ keyLock' = [keyLock EXCEPT ![k] = c]
    /\ Goto(c, "locked")
    /\ UNCHANGED <<repo, row, rowLock, observers>>

\* ... reads the target again FOR UPDATE, but uses the first reading ...
LockTarget(c) ==
    LET m == call[c].mem IN
    /\ call[c].at = "locked" /\ rowLock[m] = NoCall
    /\ rowLock' = IF Stored(m) THEN [rowLock EXCEPT ![m] = c] ELSE rowLock
    /\ Goto(c, "target")
    /\ UNCHANGED <<repo, row, keyLock, observers>>

Supersede_Fault(c) ==
    LET old == Rivals(call[c].mem) IN
    /\ call[c].at = "target"
    /\ \A o \in old : rowLock[o] = NoCall
    /\ rowLock' = [o \in Memories |-> IF o \in old THEN c ELSE rowLock[o]]
    /\ call' = [call EXCEPT ![c].at = "write", ![c].old = old]
    /\ keyLock' = [k \in Keys |-> IF keyLock[k] = c THEN NoCall ELSE keyLock[k]]
    /\ UNCHANGED <<repo, row, observers>>

\* ... updates the other confirmed rows of the key, unseen until the commit ...
Supersede(c) ==
    LET old == Rivals(call[c].mem) IN
    /\ call[c].at = "target"
    /\ \A o \in old : rowLock[o] = NoCall
    /\ rowLock' = [o \in Memories |-> IF o \in old THEN c ELSE rowLock[o]]
    /\ call' = [call EXCEPT ![c].at = "write", ![c].old = old]
    /\ UNCHANGED <<repo, row, keyLock, observers>>

Released(c) ==
    /\ keyLock' = [k \in Keys |-> IF keyLock[k] = c THEN NoCall ELSE keyLock[k]]
    /\ rowLock' = [m \in Memories |-> IF rowLock[m] = c THEN NoCall ELSE rowLock[m]]

\* uq_memories_one_active_conflict: would confirming c's target break it?
BreaksIndex(c) ==
    LET m == call[c].mem IN
    Stored(m) /\ row[m].active /\ Rivals(m) \ call[c].old # {}

\* ... and confirms the target and commits.  A target deleted meanwhile (its
\* event breaks the foreign key) and a broken index roll everything back.
ConfirmWrite(c) ==
    LET m == call[c].mem IN
    /\ call[c].at = "write" /\ MayWrite(c, m)
    /\ IF Stored(m) /\ ~BreaksIndex(c)
         THEN /\ row' = [o \in Memories |->
                   IF o = m THEN [row[o] EXCEPT !.status = "confirmed"]
                   ELSE [row[o] EXCEPT !.active = @ /\ o \notin call[c].old]]
              /\ Observe(m, KeyOf[m] # NoKey /\ keyLock[KeyOf[m]] = c)
         ELSE UNCHANGED <<row, observers>>
    /\ Released(c) /\ Return(c)
    /\ UNCHANGED repo

\* A call that ends early, with its connection: its transaction is undone.
Abandon(c) ==
    /\ repo = "postgres" /\ call[c].at # "idle"
    /\ Released(c) /\ Return(c)
    /\ UNCHANGED <<repo, row, observers>>

ConfirmInMemory_Fault(c, m) ==
    /\ repo = "memory" /\ call[c].at = "idle" /\ Turn(c)
    /\ Stored(m)
    /\ row' = [o \in Memories |->
           IF o = m THEN [row[o] EXCEPT !.status = "confirmed"]
           ELSE [row[o] EXCEPT !.active = @ /\ ~(o \in Rivals(m) /\ ~row[o].expired)]]
    /\ Observe(m, KeyOf[m] # NoKey)
    /\ UNCHANGED <<repo, locks, call>>

\* Without PostgreSQL the service sets the status, then supersedes one by one,
\* and nothing runs in between.
ConfirmInMemory(c, m) ==
    /\ repo = "memory" /\ call[c].at = "idle" /\ Turn(c)
    /\ Stored(m)
    /\ LET old == IF row[m].active THEN {o \in Rivals(m) : ~row[o].expired} ELSE {} IN
         row' = [o \in Memories |->
           IF o = m THEN [row[o] EXCEPT !.status = "confirmed"]
           ELSE [row[o] EXCEPT !.active = @ /\ o \notin old]]
    /\ Observe(m, KeyOf[m] # NoKey /\ row[m].active)
    /\ UNCHANGED <<repo, locks, call>>

-----------------------------------------------------------------------------
MemNext ==
    \/ \E c \in Calls, m \in Memories :
         \/ ListForCreate(c, m) \/ Reject(c, m) \/ GetForDelete(c, m)
         \/ ConfirmRead(c, m) \/ ConfirmInMemory(c, m)
    \/ \E c \in Calls :
         \/ UpsertMemory(c) \/ AddMemoryEvent(c) \/ DeleteMemory(c)
         \/ LockKey(c) \/ LockTarget(c) \/ Supersede(c) \/ ConfirmWrite(c) \/ Abandon(c)
    \/ \E m \in Memories : Expire(m)

MemSpec == MemInit /\ [][MemNext]_mvars

-----------------------------------------------------------------------------
(* Properties.                                                             *)

\* At most one memory of a key is recalled, and it is never the unique index
\* that keeps it so: no confirmation, however it interleaves with others, with
\* rejections or with deletions, is refused by the index.
OneActivePerKey ==
    /\ \A m \in Recalled : Rivals(m) \cap Recalled = {}
    /\ \A c \in Calls : call[c].at = "write" => ~BreaksIndex(c)

\* The memory a user confirmed last for a key is the one that is recalled,
\* until it is rejected, deleted or expires.  In PostgreSQL this needs that it
\* was not confirmed twice: a second confirmation may have read it as active
\* before another one superseded it, and then supersedes that one as well.
NewestIsActive ==
    \A k \in Keys :
      LET m == newest[k] IN
      m # NoMemory /\ row[m].status = "confirmed" /\ (repo = "memory" \/ confirms[m] < 2)
        => row[m].active

\* HARNESS_AND_MEMORY.md: a user has at most max_active_per_user memories in
\* force.  The limit is tested only when a candidate is created.
MemoryLimitHolds == Cardinality(Recalled) <= MaxActive

\* What makes OneActivePerKey inductive.  The advisory lock of a key is held by
\* the one confirmation that is between the lock and its commit ...
KeyLockDiscipline ==
    /\ \A k \in Keys : keyLock[k] # NoCall =>
         /\ call[keyLock[k]].at \in {"locked", "target", "write"}
         /\ KeyOf[call[keyLock[k]].mem] = k
    /\ \A c \in Calls :
         /\ call[c].at # "idle" => call[c].mem \in Memories
         /\ call[c].at \in {"keyed", "locked", "target"} => KeyOf[call[c].mem] # NoKey
         /\ call[c].at \in {"locked", "target"} => keyLock[KeyOf[call[c].mem]] = c
         /\ call[c].at \in {"keyed", "locked", "target", "write"} =>
              repo = "postgres" /\ row[call[c].mem].status # "none"

\* ... a confirmation without a lock makes nothing active ...
UnlockedIsInactive ==
    \A c \in Calls :
      LET m == call[c].mem IN
      call[c].at = "write" /\ KeyOf[m] # NoKey /\ keyLock[KeyOf[m]] # c =>
        row[m].status # "none" /\ ~row[m].active

\* ... and an expired memory still counts in PostgreSQL.
OneConfirmedPerKey ==
    repo = "postgres" => \A m \in Memories : row[m].status = "confirmed" /\ row[m].active => Rivals(m) = {}

MemInv == KeyLockDiscipline /\ UnlockedIsInactive /\ OneConfirmedPerKey /\ OneActivePerKey

\* What makes NewestIsActive inductive.  A memory never confirmed for its key
\* is not in force under it and was not superseded either ...
ForceIsCounted ==
    \A m \in Memories : KeyOf[m] # NoKey /\ confirms[m] = 0 =>
        row[m].status = "none" \/ (row[m].active /\ row[m].status # "confirmed")

\* ... what a confirmation is about to supersede was confirmed for the key
\* whose lock it holds ...
SupersedesItsKey ==
    \A c \in Calls : \A o \in call[c].old :
        /\ call[c].at = "write" /\ keyLock[KeyOf[call[c].mem]] = c
        /\ KeyOf[o] = KeyOf[call[c].mem] /\ KeyOf[o] # NoKey
        /\ o # call[c].mem /\ confirms[o] > 0

\* ... and the memory confirmed last stays active in every status.
NewestStaysActive ==
    \A k \in Keys :
      LET m == newest[k] IN
      m # NoMemory =>
        /\ KeyOf[m] = k /\ row[m].status # "none"
        /\ (repo = "memory" \/ confirms[m] < 2) => row[m].active

NewestInv == ForceIsCounted /\ SupersedesItsKey /\ NewestStaysActive
=============================================================================
