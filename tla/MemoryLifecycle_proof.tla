------------------------ MODULE MemoryLifecycle_proof ------------------------
(***************************************************************************)
(* Proofs about the memories of a user, for every set of memories, keys    *)
(* and concurrent calls, every limit and both repositories.                *)
(***************************************************************************)
EXTENDS MemoryLifecycle, TLAPS

Rows == [status : Statuses, active : BOOLEAN, expired : BOOLEAN]
Confirming == {"keyed", "locked", "target", "write"}
CallRecord ==
    [at : {"idle", "insert", "event", "delete"} \cup Confirming,
     op : {"none", "create", "confirm", "reject", "delete"},
     mem : Memories \cup {NoMemory}, old : SUBSET Memories]

LEMMA TypeParts ==
    ASSUME MemTypeOK
    PROVE  /\ row \in [Memories -> Rows]
           /\ call \in [Calls -> CallRecord]
BY DEF MemTypeOK, Rows, CallRecord, Confirming

-----------------------------------------------------------------------------
(***************************************************************************)
(* What the updates of one field do.                                       *)
(***************************************************************************)
LEMMA GotoMoves ==
    ASSUME call \in [Calls -> CallRecord], NEW c \in Calls, NEW l, Goto(c, l),
           l \in {"idle", "insert", "event", "delete"} \cup Confirming
    PROVE  /\ call' \in [Calls -> CallRecord]
           /\ \A d \in Calls \ {c} : call'[d] = call[d]
           /\ call'[c] = [call[c] EXCEPT !.at = l]
<1>1. call' = [call EXCEPT ![c] = [call[c] EXCEPT !.at = l]]
  BY DEF Goto
<1>2. [call[c] EXCEPT !.at = l] \in CallRecord
  BY DEF CallRecord
<1> QED
  BY <1>1, <1>2

LEMMA BeginMoves ==
    ASSUME call \in [Calls -> CallRecord], NEW c \in Calls, NEW m \in Memories, NEW l, NEW o, Begin(c, o, m, l),
           l \in {"idle", "insert", "event", "delete"} \cup Confirming,
           o \in {"create", "confirm", "reject", "delete"}
    PROVE  /\ call' \in [Calls -> CallRecord]
           /\ \A d \in Calls \ {c} : call'[d] = call[d]
           /\ call'[c] = [at |-> l, op |-> o, mem |-> m, old |-> {}]
BY DEF Begin, CallRecord

LEMMA ReturnMoves ==
    ASSUME call \in [Calls -> CallRecord], NEW c \in Calls, Return(c)
    PROVE  /\ call' \in [Calls -> CallRecord]
           /\ \A d \in Calls \ {c} : call'[d] = call[d]
           /\ call'[c] = Idle
BY DEF Return, CallRecord, Idle

LEMMA StatusSets ==
    ASSUME row \in [Memories -> Rows], NEW m \in Memories, NEW s \in Statuses, SetMemoryStatus(m, s)
    PROVE  /\ row' \in [Memories -> Rows]
           /\ \A o \in Memories \ {m} : row'[o] = row[o]
           /\ row'[m] = [row[m] EXCEPT !.status = s]
<1>1. row' = [row EXCEPT ![m] = [row[m] EXCEPT !.status = s]]
  BY DEF SetMemoryStatus
<1>2. [row[m] EXCEPT !.status = s] \in Rows
  BY DEF Rows
<1> QED
  BY <1>1, <1>2

\* A memory once stored is never stored anew, active or in force again, and
\* calls that are not confirmations do not confirm.
RowsFade ==
    \A o \in Memories :
      /\ row'[o].status = "confirmed" /\ row'[o].active => row[o].status = "confirmed" /\ row[o].active
      /\ row[o].status # "none" =>
           /\ row'[o].status # "none"
           /\ row'[o].active => row[o].active
           /\ ~row'[o].expired => ~row[o].expired
           /\ row'[o].status # "deleted" => row[o].status # "deleted"
      /\ row'[o].status = "confirmed" => row[o].status # "none"
OthersAct ==
    \A c \in Calls :
      \/ call'[c] = call[c]
      \/ /\ call[c].at \notin Confirming /\ call'[c].at \notin Confirming
         /\ call'[c].at # "idle" => call'[c].mem \in Memories

LEMMA FadingKeepsInv ==
    ASSUME MemTypeOK, MemInv, RowsFade, OthersAct, UNCHANGED <<repo, keyLock>>
    PROVE  MemInv'
<1> USE KeyOfAssumption
<1>1. \A m \in Memories : Rivals(m)' \subseteq Rivals(m)
  BY DEF Rivals, RowsFade
<1>2. Recalled' \subseteq Recalled
  BY DEF Recalled, Listed, Stored, RowsFade
<1>3. KeyLockDiscipline'
  <2>1. ASSUME NEW k \in Keys, keyLock'[k] # NoCall
        PROVE  call'[keyLock'[k]].at \in {"locked", "target", "write"} /\ KeyOf[call'[keyLock'[k]].mem] = k
    <3>1. keyLock[k] \in Calls /\ keyLock'[k] = keyLock[k]
      BY <2>1 DEF MemTypeOK
    <3>2. call[keyLock[k]].at \in {"locked", "target", "write"} /\ KeyOf[call[keyLock[k]].mem] = k
      BY <2>1, <3>1 DEF MemInv, KeyLockDiscipline
    <3>3. call'[keyLock[k]] = call[keyLock[k]]
      BY <3>1, <3>2 DEF OthersAct, Confirming
    <3> QED
      BY <3>1, <3>2, <3>3
  <2>2. ASSUME NEW c \in Calls
        PROVE  /\ call'[c].at # "idle" => call'[c].mem \in Memories
               /\ call'[c].at \in {"keyed", "locked", "target"} => KeyOf[call'[c].mem] # NoKey
               /\ call'[c].at \in {"locked", "target"} => keyLock'[KeyOf[call'[c].mem]] = c
               /\ call'[c].at \in {"keyed", "locked", "target", "write"} =>
                    repo' = "postgres" /\ row'[call'[c].mem].status # "none"
    <3>1. CASE call'[c] = call[c]
      BY <3>1 DEF MemInv, KeyLockDiscipline, RowsFade
    <3>2. CASE call'[c].at \notin Confirming /\ (call'[c].at # "idle" => call'[c].mem \in Memories)
      BY <3>2 DEF Confirming
    <3> QED
      BY <3>1, <3>2 DEF OthersAct
  <2> QED
    BY <2>1, <2>2 DEF KeyLockDiscipline
<1>4. UnlockedIsInactive'
  <2> SUFFICES ASSUME NEW c \in Calls, call'[c].at = "write",
                      KeyOf[call'[c].mem] # NoKey, keyLock'[KeyOf[call'[c].mem]] # c
               PROVE  row'[call'[c].mem].status # "none" /\ ~row'[call'[c].mem].active
    BY DEF UnlockedIsInactive
  <2>1. call'[c] = call[c] /\ call[c].mem \in Memories
    BY DEF OthersAct, Confirming, MemInv, KeyLockDiscipline
  <2> QED
    BY <2>1 DEF MemInv, UnlockedIsInactive, RowsFade
<1>5. OneConfirmedPerKey'
  BY <1>1 DEF MemInv, OneConfirmedPerKey, RowsFade
<1>6. OneActivePerKey'
  <2>1. \A m \in Recalled' : Rivals(m)' \cap Recalled' = {}
    BY <1>1, <1>2 DEF MemInv, OneActivePerKey, Recalled, Listed
  <2>2. ASSUME NEW c \in Calls, call'[c].at = "write"
        PROVE  ~BreaksIndex(c)'
    <3>1. call'[c] = call[c] /\ call[c].mem \in Memories /\ row[call[c].mem].status # "none"
      BY <2>2 DEF OthersAct, Confirming, MemInv, KeyLockDiscipline
    <3>2. ~BreaksIndex(c)
      BY <2>2, <3>1 DEF MemInv, OneActivePerKey
    <3>3. Rivals(call[c].mem)' \subseteq Rivals(call[c].mem)
      BY <1>1, <3>1
    <3> QED
      BY <3>1, <3>2, <3>3 DEF BreaksIndex, RowsFade, Stored
  <2> QED
    BY <2>1, <2>2 DEF OneActivePerKey
<1> QED
  BY <1>3, <1>4, <1>5, <1>6 DEF MemInv

-----------------------------------------------------------------------------
(***************************************************************************)
(* Types.                                                                  *)
(***************************************************************************)
LEMMA TypeFrom ==
    ASSUME repo' \in {"postgres", "memory"}, row' \in [Memories -> Rows], call' \in [Calls -> CallRecord],
           keyLock' \in [Keys -> Calls \cup {NoCall}], rowLock' \in [Memories -> Calls \cup {NoCall}],
           newest' \in [Keys -> Memories \cup {NoMemory}], confirms' \in [Memories -> 0..2]
    PROVE  MemTypeOK'
BY DEF MemTypeOK, Rows, CallRecord, Confirming

LEMMA ReleasedTypes ==
    ASSUME MemTypeOK, NEW c \in Calls, Released(c)
    PROVE  /\ keyLock' \in [Keys -> Calls \cup {NoCall}]
           /\ rowLock' \in [Memories -> Calls \cup {NoCall}]
BY DEF Released, MemTypeOK

LEMMA ObserveTypes ==
    ASSUME MemTypeOK, NEW m \in Memories, NEW b \in BOOLEAN, b => KeyOf[m] \in Keys, Observe(m, b)
    PROVE  /\ newest' \in [Keys -> Memories \cup {NoMemory}]
           /\ confirms' \in [Memories -> 0..2]
<1>1. CASE b
  <2>1. newest' = [newest EXCEPT ![KeyOf[m]] = m]
    BY <1>1 DEF Observe
  <2>2. confirms' = [confirms EXCEPT ![m] = IF @ < 2 THEN @ + 1 ELSE @]
    BY <1>1 DEF Observe
  <2>3. \A n \in 0..2 : (IF n < 2 THEN n + 1 ELSE n) \in 0..2
    OBVIOUS
  <2> QED
    BY <2>1, <2>2, <2>3 DEF MemTypeOK
<1>2. CASE ~b
  BY <1>2 DEF Observe, MemTypeOK
<1> QED
  BY <1>1, <1>2

LEMMA SupersedeMoves ==
    ASSUME MemTypeOK, NEW c \in Calls, Supersede(c)
    PROVE  /\ call' \in [Calls -> CallRecord]
           /\ \A d \in Calls \ {c} : call'[d] = call[d]
           /\ call'[c].at = "write" /\ call'[c].mem = call[c].mem
           /\ call'[c].old = Rivals(call[c].mem)
<1>1. call' = [call EXCEPT ![c] = [call[c] EXCEPT !.at = "write", !.old = Rivals(call[c].mem)]]
  BY DEF Supersede
<1>2. Rivals(call[c].mem) \subseteq Memories
  BY DEF Rivals
<1>3. call \in [Calls -> CallRecord]
  BY TypeParts
<1>4. [call[c] EXCEPT !.at = "write", !.old = Rivals(call[c].mem)] \in CallRecord
  BY <1>2, <1>3 DEF CallRecord, Confirming
<1> QED
  BY <1>1, <1>3, <1>4

\* A confirmation that commits: the target is confirmed, what it supersedes
\* is no longer active.
Confirmed(m, old) ==
    row' = [o \in Memories |-> IF o = m THEN [row[o] EXCEPT !.status = "confirmed"]
                               ELSE [row[o] EXCEPT !.active = @ /\ o \notin old]]
LEMMA RowFields ==
    ASSUME NEW s \in Statuses, NEW a \in BOOLEAN, NEW e \in BOOLEAN, NEW r,
           r = [status |-> s, active |-> a, expired |-> e]
    PROVE  r \in Rows /\ r.status = s /\ r.active = a /\ r.expired = e
BY DEF Rows

LEMMA ConfirmedRows ==
    ASSUME row \in [Memories -> Rows], NEW m \in Memories, NEW old \in SUBSET Memories, Confirmed(m, old)
    PROVE  /\ row' \in [Memories -> Rows]
           /\ row'[m].status = "confirmed" /\ row'[m].active = row[m].active
           /\ row'[m].expired = row[m].expired
           /\ \A o \in Memories \ {m} :
                /\ row'[o].status = row[o].status /\ row'[o].expired = row[o].expired
                /\ row'[o].active = (row[o].active /\ o \notin old)
<1>1. \A o \in Memories : row'[o] = IF o = m THEN [row[o] EXCEPT !.status = "confirmed"]
                               ELSE [row[o] EXCEPT !.active = @ /\ o \notin old]
  BY Zenon DEF Confirmed
<1>2. \A o \in Memories : row[o].status \in Statuses /\ row[o].active \in BOOLEAN /\ row[o].expired \in BOOLEAN
  BY DEF Rows
<1>3. ASSUME NEW o \in Memories \ {m}
      PROVE  /\ row'[o] \in Rows
             /\ row'[o].status = row[o].status /\ row'[o].expired = row[o].expired
             /\ row'[o].active = (row[o].active /\ o \notin old)
  <2> DEFINE a == row[o].active /\ o \notin old
  <2>1. a \in BOOLEAN
    OBVIOUS
  <2>2. row'[o] = [row[o] EXCEPT !.active = a]
    BY <1>1, Zenon
  <2> HIDE DEF a
  <2>3. [row[o] EXCEPT !.active = a] = [status |-> row[o].status, active |-> a, expired |-> row[o].expired]
    BY DEF Rows
  <2>4. row'[o] = [status |-> row[o].status, active |-> a, expired |-> row[o].expired]
    BY <2>2, <2>3, Zenon
  <2>5. row[o].status \in Statuses /\ row[o].expired \in BOOLEAN
    BY <1>2
  <2>6. /\ row'[o] \in Rows
        /\ row'[o].status = row[o].status /\ row'[o].expired = row[o].expired /\ row'[o].active = a
    BY <2>1, <2>4, <2>5, RowFields
  <2> QED
    BY <2>6 DEF a
<1>4. /\ row'[m] \in Rows
      /\ row'[m].status = "confirmed" /\ row'[m].active = row[m].active /\ row'[m].expired = row[m].expired
  <2>1. row'[m] = [row[m] EXCEPT !.status = "confirmed"]
    BY <1>1, Zenon
  <2>2. [row[m] EXCEPT !.status = "confirmed"] =
        [status |-> "confirmed", active |-> row[m].active, expired |-> row[m].expired]
    BY DEF Rows
  <2>3. "confirmed" \in Statuses
    BY DEF Statuses
  <2>4. row'[m] = [status |-> "confirmed", active |-> row[m].active, expired |-> row[m].expired]
    BY <2>1, <2>2, Zenon
  <2>5. row[m].active \in BOOLEAN /\ row[m].expired \in BOOLEAN
    BY <1>2
  <2> QED
    BY <2>3, <2>4, <2>5, RowFields
<1>5. row' \in [Memories -> Rows]
  <2>1. row' = [o \in Memories |-> row'[o]]
    BY DEF Confirmed
  <2>2. \A o \in Memories : row'[o] \in Rows
    BY <1>3, <1>4
  <2> QED
    BY <2>1, <2>2
<1> QED
  BY <1>3, <1>4, <1>5

LEMMA UpsertMoves ==
    ASSUME row \in [Memories -> Rows], NEW c \in Calls, call[c].mem \in Memories, UpsertMemory(c)
    PROVE  /\ row' \in [Memories -> Rows]
           /\ \A o \in Memories : row'[o] = row[o] \/ (row[o].status = "none" /\ row'[o].status = "candidate")
           /\ Goto(c, "event")
<1> DEFINE new == [status |-> "candidate", active |-> TRUE, expired |-> FALSE]
<1>1. new \in Rows /\ new.status = "candidate"
  BY DEF Rows, Statuses
<1>2. CASE Stored(call[c].mem)
  BY <1>2 DEF UpsertMemory
<1>3. CASE ~Stored(call[c].mem)
  <2>1. row' = [row EXCEPT ![call[c].mem] = new] /\ row[call[c].mem].status = "none"
    BY <1>3 DEF UpsertMemory, Stored
  <2> HIDE DEF new
  <2> QED
    BY <1>1, <2>1 DEF UpsertMemory
<1> QED
  BY <1>2, <1>3

LEMMA ExpireMoves ==
    ASSUME row \in [Memories -> Rows], NEW m \in Memories, Expire(m)
    PROVE  /\ row' \in [Memories -> Rows]
           /\ \A o \in Memories \ {m} : row'[o] = row[o]
           /\ row'[m] = [row[m] EXCEPT !.expired = TRUE]
<1>1. row' = [row EXCEPT ![m] = [row[m] EXCEPT !.expired = TRUE]]
  BY DEF Expire
<1>2. [row[m] EXCEPT !.expired = TRUE] \in Rows
  BY DEF Rows
<1> QED
  BY <1>1, <1>2

\* Where a call is, its memory is one.
MemoriesNamed == \A c \in Calls : call[c].at # "idle" => call[c].mem \in Memories

LEMMA StepTypes ==
    ASSUME MemTypeOK, MemoriesNamed, MemNext
    PROVE  MemTypeOK'
<1> USE KeyOfAssumption
<1>1. /\ row \in [Memories -> Rows] /\ call \in [Calls -> CallRecord]
      /\ repo \in {"postgres", "memory"}
      /\ keyLock \in [Keys -> Calls \cup {NoCall}] /\ rowLock \in [Memories -> Calls \cup {NoCall}]
      /\ newest \in [Keys -> Memories \cup {NoMemory}] /\ confirms \in [Memories -> 0..2]
  BY TypeParts DEF MemTypeOK
<1>2. ASSUME NEW c \in Calls, NEW m \in Memories, ListForCreate(c, m) \/ GetForDelete(c, m)
      PROVE  MemTypeOK'
  <2>1. call' \in [Calls -> CallRecord]
    BY <1>1, <1>2, BeginMoves DEF ListForCreate, GetForDelete
  <2> QED
    BY <1>1, <1>2, <2>1, TypeFrom DEF ListForCreate, GetForDelete, locks, observers
<1>3. ASSUME NEW c \in Calls, NEW m \in Memories, ConfirmRead(c, m)
      PROVE  MemTypeOK'
  <2>1. call' \in [Calls -> CallRecord]
    BY <1>1, <1>3, BeginMoves DEF ConfirmRead, Confirming
  <2> QED
    BY <1>1, <1>3, <2>1, TypeFrom DEF ConfirmRead, locks, observers
<1>4. ASSUME NEW c \in Calls, NEW m \in Memories, Reject(c, m)
      PROVE  MemTypeOK'
  <2>1. call' \in [Calls -> CallRecord]
    BY <1>1, <1>4, BeginMoves DEF Reject
  <2>2. row' \in [Memories -> Rows]
    BY <1>1, <1>4, StatusSets DEF Reject, Statuses
  <2> QED
    BY <1>1, <1>4, <2>1, <2>2, TypeFrom DEF Reject, locks, observers
<1>5. ASSUME NEW c \in Calls, UpsertMemory(c)
      PROVE  MemTypeOK'
  <2>1. call[c].mem \in Memories
    BY <1>5 DEF UpsertMemory, MemoriesNamed
  <2>2. row' \in [Memories -> Rows] /\ Goto(c, "event")
    BY <1>1, <1>5, <2>1, UpsertMoves
  <2>3. call' \in [Calls -> CallRecord]
    BY <1>1, <2>2, GotoMoves
  <2> QED
    BY <1>1, <1>5, <2>2, <2>3, TypeFrom DEF UpsertMemory, locks, observers
<1>6. ASSUME NEW c \in Calls, AddMemoryEvent(c)
      PROVE  MemTypeOK'
  <2>1. call' \in [Calls -> CallRecord]
    BY <1>1, <1>6, GotoMoves, ReturnMoves DEF AddMemoryEvent
  <2> QED
    BY <1>1, <1>6, <2>1, TypeFrom DEF AddMemoryEvent, locks, observers
<1>7. ASSUME NEW c \in Calls, DeleteMemory(c)
      PROVE  MemTypeOK'
  <2>1. call' \in [Calls -> CallRecord]
    BY <1>1, <1>7, ReturnMoves DEF DeleteMemory
  <2>2. call[c].mem \in Memories
    BY <1>7 DEF DeleteMemory, MemoriesNamed
  <2>3. row' \in [Memories -> Rows]
    BY <1>1, <1>7, <2>2, StatusSets DEF DeleteMemory, Statuses
  <2> QED
    BY <1>1, <1>7, <2>1, <2>3, TypeFrom DEF DeleteMemory, locks, observers
<1>8. ASSUME NEW c \in Calls, LockKey(c) \/ LockTarget(c)
      PROVE  MemTypeOK'
  <2>1. call' \in [Calls -> CallRecord]
    BY <1>1, <1>8, GotoMoves DEF LockKey, LockTarget, Confirming
  <2>2. /\ keyLock' \in [Keys -> Calls \cup {NoCall}] /\ rowLock' \in [Memories -> Calls \cup {NoCall}]
        /\ UNCHANGED <<repo, row, newest, confirms>>
    BY <1>1, <1>8 DEF LockKey, LockTarget, observers
  <2> QED
    BY <1>1, <2>1, <2>2, TypeFrom
<1>9. ASSUME NEW c \in Calls, Supersede(c)
      PROVE  MemTypeOK'
  <2>1. call' \in [Calls -> CallRecord]
    BY <1>9, SupersedeMoves
  <2>2. rowLock' \in [Memories -> Calls \cup {NoCall}] /\ UNCHANGED <<repo, row, keyLock, newest, confirms>>
    BY <1>1, <1>9 DEF Supersede, observers
  <2> QED
    BY <1>1, <2>1, <2>2, TypeFrom
<1>10. ASSUME NEW c \in Calls, ConfirmWrite(c)
       PROVE  MemTypeOK'
  <2> DEFINE m == call[c].mem
  <2>1. m \in Memories /\ call[c].old \in SUBSET Memories
    BY <1>1, <1>10 DEF ConfirmWrite, MemoriesNamed, CallRecord
  <2>2. call' \in [Calls -> CallRecord]
    BY <1>1, <1>10, ReturnMoves DEF ConfirmWrite
  <2>3. keyLock' \in [Keys -> Calls \cup {NoCall}] /\ rowLock' \in [Memories -> Calls \cup {NoCall}]
    BY <1>10, ReleasedTypes DEF ConfirmWrite
  <2>4. /\ row' \in [Memories -> Rows]
        /\ newest' \in [Keys -> Memories \cup {NoMemory}] /\ confirms' \in [Memories -> 0..2]
    <3>1. CASE Stored(m) /\ ~BreaksIndex(c)
      <4>1. Confirmed(m, call[c].old) /\ Observe(m, KeyOf[m] # NoKey /\ keyLock[KeyOf[m]] = c)
        BY <1>10, <3>1 DEF ConfirmWrite, Confirmed
      <4>2. (KeyOf[m] # NoKey /\ keyLock[KeyOf[m]] = c) => KeyOf[m] \in Keys
        BY <2>1
      <4> QED
        BY <1>1, <2>1, <4>1, <4>2, ConfirmedRows, ObserveTypes
    <3>2. CASE ~(Stored(m) /\ ~BreaksIndex(c))
      BY <1>1, <1>10, <3>2 DEF ConfirmWrite, observers
    <3> QED
      BY <3>1, <3>2
  <2> QED
    BY <1>1, <1>10, <2>2, <2>3, <2>4, TypeFrom DEF ConfirmWrite
<1>11. ASSUME NEW c \in Calls, Abandon(c)
       PROVE  MemTypeOK'
  <2>1. call' \in [Calls -> CallRecord]
    BY <1>1, <1>11, ReturnMoves DEF Abandon
  <2>2. keyLock' \in [Keys -> Calls \cup {NoCall}] /\ rowLock' \in [Memories -> Calls \cup {NoCall}]
    BY <1>11, ReleasedTypes DEF Abandon
  <2> QED
    BY <1>1, <1>11, <2>1, <2>2, TypeFrom DEF Abandon, observers
<1>12. ASSUME NEW c \in Calls, NEW m \in Memories, ConfirmInMemory(c, m)
       PROVE  MemTypeOK'
  <2> DEFINE old == IF row[m].active THEN {o \in Rivals(m) : ~row[o].expired} ELSE {}
  <2>1. old \in SUBSET Memories
    BY DEF Rivals
  <2>2. Confirmed(m, old) /\ Observe(m, KeyOf[m] # NoKey /\ row[m].active)
    BY <1>12 DEF ConfirmInMemory, Confirmed
  <2>3. (KeyOf[m] # NoKey /\ row[m].active) => KeyOf[m] \in Keys
    OBVIOUS
  <2> HIDE DEF old
  <2>4. /\ row' \in [Memories -> Rows]
        /\ newest' \in [Keys -> Memories \cup {NoMemory}] /\ confirms' \in [Memories -> 0..2]
    BY <1>1, <2>1, <2>2, <2>3, ConfirmedRows, ObserveTypes
  <2> QED
    BY <1>1, <1>12, <2>4, TypeFrom DEF ConfirmInMemory, locks
<1>13. ASSUME NEW m \in Memories, Expire(m)
       PROVE  MemTypeOK'
  <2>1. row' \in [Memories -> Rows]
    BY <1>1, <1>13, ExpireMoves
  <2> QED
    BY <1>1, <1>13, <2>1, TypeFrom DEF Expire, locks, observers
<1> QED
  BY <1>2, <1>3, <1>4, <1>5, <1>6, <1>7, <1>8, <1>9, <1>10, <1>11, <1>12, <1>13 DEF MemNext

-----------------------------------------------------------------------------
(***************************************************************************)
(* The invariant, step by step.                                            *)
(***************************************************************************)
LEMMA InitKeepsInv == MemInit => MemTypeOK /\ MemInv
<1> SUFFICES ASSUME MemInit PROVE MemTypeOK /\ MemInv
  OBVIOUS
<1> USE KeyOfAssumption
<1>1. MemTypeOK
  <2> DEFINE new == [status |-> "none", active |-> FALSE, expired |-> FALSE]
  <2>1. new \in Rows /\ Idle \in CallRecord
    BY DEF Rows, Statuses, Idle, CallRecord
  <2>2. row = [m \in Memories |-> new] /\ repo \in MemoryStores
    BY DEF MemInit
  <2> HIDE DEF new
  <2>3. row \in [Memories -> Rows] /\ call \in [Calls -> CallRecord]
    BY <2>1, <2>2 DEF MemInit
  <2>4. repo \in {"postgres", "memory"}
    BY <2>2, MemoryStoresAssumption
  <2> QED
    BY <2>3, <2>4 DEF MemInit, MemTypeOK, Rows, CallRecord, Confirming
<1>2. /\ \A m \in Memories : row[m].status = "none"
      /\ \A c \in Calls : call[c].at = "idle"
      /\ \A k \in Keys : keyLock[k] = NoCall
  BY DEF MemInit, Idle
<1> QED
  BY <1>1, <1>2 DEF MemInv, KeyLockDiscipline, UnlockedIsInactive, OneConfirmedPerKey, OneActivePerKey, Recalled, Listed

\* The calls that are not confirmations, and time.
LEMMA PlainSteps ==
    ASSUME MemTypeOK, MemInv,
           \/ \E c \in Calls, m \in Memories : ListForCreate(c, m) \/ Reject(c, m) \/ GetForDelete(c, m)
           \/ \E c \in Calls : UpsertMemory(c) \/ AddMemoryEvent(c) \/ DeleteMemory(c)
           \/ \E m \in Memories : Expire(m)
    PROVE  MemInv'
<1>1. row \in [Memories -> Rows] /\ call \in [Calls -> CallRecord]
  BY TypeParts
<1>2. \A c \in Calls : call[c].at # "idle" => call[c].mem \in Memories
  BY DEF MemInv, KeyLockDiscipline
<1> USE DEF Confirming
<1>3. ASSUME NEW c \in Calls, NEW m \in Memories, ListForCreate(c, m) \/ GetForDelete(c, m)
      PROVE  MemInv'
  <2>1. OthersAct
    <3>1. \A d \in Calls \ {c} : call'[d] = call[d]
      BY <1>1, <1>3, BeginMoves DEF ListForCreate, GetForDelete
    <3>2. call'[c].at \in {"insert", "event"} /\ call'[c].mem = m
      <4>1. \E l \in {"insert", "event"}, o \in {"create", "reject", "delete"} :
              call'[c] = [at |-> l, op |-> o, mem |-> m, old |-> {}]
        BY <1>1, <1>3, BeginMoves DEF ListForCreate, GetForDelete
      <4> QED
        BY <4>1
    <3>3. call[c].at = "idle"
      BY <1>3 DEF ListForCreate, GetForDelete
    <3> QED
      BY <3>1, <3>2, <3>3 DEF OthersAct
  <2>2. RowsFade /\ UNCHANGED <<repo, keyLock>>
    BY <1>3 DEF ListForCreate, GetForDelete, RowsFade, locks
  <2> QED
    BY <2>1, <2>2, FadingKeepsInv
<1>4. ASSUME NEW c \in Calls, NEW m \in Memories, Reject(c, m)
      PROVE  MemInv'
  <2>1. OthersAct
    <3>1. \A d \in Calls \ {c} : call'[d] = call[d]
      BY <1>1, <1>4, BeginMoves DEF Reject
    <3>2. call'[c].at \in {"insert", "event"} /\ call'[c].mem = m
      <4>1. \E l \in {"insert", "event"}, o \in {"create", "reject", "delete"} :
              call'[c] = [at |-> l, op |-> o, mem |-> m, old |-> {}]
        BY <1>1, <1>4, BeginMoves DEF Reject
      <4> QED
        BY <4>1
    <3>3. call[c].at = "idle"
      BY <1>4 DEF Reject
    <3> QED
      BY <3>1, <3>2, <3>3 DEF OthersAct
  <2>2. /\ \A o \in Memories \ {m} : row'[o] = row[o]
        /\ row'[m] = [row[m] EXCEPT !.status = "rejected"]
    BY <1>1, <1>4, StatusSets DEF Reject, Statuses
  <2>3. row[m].status \notin {"none", "deleted"}
    BY <1>4 DEF Reject, Stored
  <2>4. /\ row'[m].status = "rejected" /\ row'[m].active = row[m].active
        /\ row'[m].expired = row[m].expired
    BY <1>1, <2>2 DEF Rows
  <2>5. RowsFade
    BY <2>2, <2>3, <2>4 DEF RowsFade
  <2> QED
    BY <1>4, <2>1, <2>5, FadingKeepsInv DEF Reject, locks
<1>5. ASSUME NEW c \in Calls, UpsertMemory(c)
      PROVE  MemInv'
  <2>1. call[c].mem \in Memories /\ call[c].at = "insert"
    BY <1>2, <1>5 DEF UpsertMemory
  <2>2. /\ \A o \in Memories : row'[o] = row[o] \/ (row[o].status = "none" /\ row'[o].status = "candidate")
        /\ Goto(c, "event")
    BY <1>1, <1>5, <2>1, UpsertMoves
  <2>3. OthersAct
    <3>1. /\ \A d \in Calls \ {c} : call'[d] = call[d]
          /\ call'[c] = [call[c] EXCEPT !.at = "event"]
      BY <1>1, <2>2, GotoMoves
    <3>2. call'[c].at = "event" /\ call'[c].mem = call[c].mem
      BY <1>1, <3>1 DEF CallRecord
    <3> QED
      BY <2>1, <3>1, <3>2 DEF OthersAct
  <2>4. RowsFade
    BY <2>2 DEF RowsFade
  <2> QED
    BY <1>5, <2>3, <2>4, FadingKeepsInv DEF UpsertMemory, locks
<1>6. ASSUME NEW c \in Calls, AddMemoryEvent(c)
      PROVE  MemInv'
  <2>1. call[c].mem \in Memories /\ call[c].at = "event"
    BY <1>2, <1>6 DEF AddMemoryEvent
  <2>2. /\ \A d \in Calls \ {c} : call'[d] = call[d]
        /\ call'[c] = [call[c] EXCEPT !.at = "delete"] \/ call'[c] = Idle
    BY <1>1, <1>6, GotoMoves, ReturnMoves DEF AddMemoryEvent
  <2>3. (call'[c].at = "delete" /\ call'[c].mem = call[c].mem) \/ call'[c].at = "idle"
    BY <1>1, <2>2 DEF CallRecord, Idle
  <2>4. OthersAct
    BY <2>1, <2>2, <2>3 DEF OthersAct
  <2>5. RowsFade
    BY <1>6 DEF AddMemoryEvent, RowsFade
  <2> QED
    BY <1>6, <2>4, <2>5, FadingKeepsInv DEF AddMemoryEvent, locks
<1>7. ASSUME NEW c \in Calls, DeleteMemory(c)
      PROVE  MemInv'
  <2> DEFINE m == call[c].mem
  <2>1. m \in Memories /\ call[c].at = "delete"
    BY <1>2, <1>7 DEF DeleteMemory
  <2>2. OthersAct
    BY <1>1, <1>7, <2>1, ReturnMoves DEF DeleteMemory, OthersAct, Idle
  <2>3. RowsFade
    <3>1. CASE ~Stored(m)
      BY <1>7, <3>1 DEF DeleteMemory, RowsFade
    <3>2. CASE Stored(m)
      <4>1. /\ \A o \in Memories \ {m} : row'[o] = row[o]
            /\ row'[m] = [row[m] EXCEPT !.status = "deleted"]
        BY <1>1, <1>7, <2>1, <3>2, StatusSets DEF DeleteMemory, Statuses
      <4>2. /\ row'[m].status = "deleted" /\ row'[m].active = row[m].active
            /\ row'[m].expired = row[m].expired
        BY <1>1, <2>1, <4>1 DEF Rows
      <4> QED
        BY <4>1, <4>2, <2>1 DEF RowsFade
    <3> QED
      BY <3>1, <3>2
  <2> QED
    BY <1>7, <2>2, <2>3, FadingKeepsInv DEF DeleteMemory, locks
<1>8. ASSUME NEW m \in Memories, Expire(m)
      PROVE  MemInv'
  <2>1. /\ \A o \in Memories \ {m} : row'[o] = row[o]
        /\ row'[m] = [row[m] EXCEPT !.expired = TRUE]
    BY <1>1, <1>8, ExpireMoves
  <2>2. row'[m].status = row[m].status /\ row'[m].active = row[m].active /\ row'[m].expired = TRUE
    BY <1>1, <2>1 DEF Rows
  <2>3. RowsFade
    BY <2>1, <2>2 DEF RowsFade
  <2>4. OthersAct
    BY <1>8 DEF Expire, OthersAct
  <2> QED
    BY <1>8, <2>3, <2>4, FadingKeepsInv DEF Expire, locks
<1> QED
  BY <1>3, <1>4, <1>5, <1>6, <1>7, <1>8

\* A step of a call that leaves the rows alone.
LEMMA RowsStay ==
    ASSUME MemInv, UNCHANGED <<repo, row>>, KeyLockDiscipline', UnlockedIsInactive',
           \A d \in Calls : call'[d].at = "write" => ~BreaksIndex(d)'
    PROVE  MemInv'
<1>1. \A m \in Memories : Rivals(m)' = Rivals(m)
  BY DEF Rivals
<1>2. Recalled' = Recalled
  BY DEF Recalled, Listed, Stored
<1>3. OneConfirmedPerKey'
  BY <1>1 DEF MemInv, OneConfirmedPerKey
<1>4. OneActivePerKey'
  BY <1>1, <1>2 DEF MemInv, OneActivePerKey, Recalled, Listed
<1> QED
  BY <1>3, <1>4 DEF MemInv

\* BreaksIndex of a call that does not move, where the rows stay.
LEMMA SameBreaksIndex ==
    ASSUME NEW d \in Calls, UNCHANGED row, call'[d] = call[d], ~BreaksIndex(d)
    PROVE  ~BreaksIndex(d)'
BY DEF BreaksIndex, Rivals, Stored

\* The end of a confirmation: its locks are free.
LEMMA ReleaseKeeps ==
    ASSUME MemTypeOK, MemInv, NEW c \in Calls, Released(c), Return(c), UNCHANGED repo,
           \A o \in Memories : row[o].status # "none" =>
             row'[o].status # "none" /\ (row'[o].active => row[o].active)
    PROVE  KeyLockDiscipline' /\ UnlockedIsInactive'
<1> USE KeyOfAssumption
<1>1. /\ \A d \in Calls \ {c} : call'[d] = call[d]
      /\ call'[c].at = "idle"
  BY TypeParts, ReturnMoves DEF Idle
<1>2. \A k \in Keys : keyLock'[k] = IF keyLock[k] = c THEN NoCall ELSE keyLock[k]
  BY DEF Released
<1>3. KeyLockDiscipline'
  <2>1. ASSUME NEW k \in Keys, keyLock'[k] # NoCall
        PROVE  call'[keyLock'[k]].at \in {"locked", "target", "write"} /\ KeyOf[call'[keyLock'[k]].mem] = k
    <3>1. keyLock'[k] = keyLock[k] /\ keyLock[k] # c /\ keyLock[k] \in Calls
      BY <1>2, <2>1 DEF MemTypeOK
    <3> QED
      BY <1>1, <2>1, <3>1 DEF MemInv, KeyLockDiscipline
  <2>2. ASSUME NEW d \in Calls
        PROVE  /\ call'[d].at # "idle" => call'[d].mem \in Memories
               /\ call'[d].at \in {"keyed", "locked", "target"} => KeyOf[call'[d].mem] # NoKey
               /\ call'[d].at \in {"locked", "target"} => keyLock'[KeyOf[call'[d].mem]] = d
               /\ call'[d].at \in {"keyed", "locked", "target", "write"} =>
                    repo' = "postgres" /\ row'[call'[d].mem].status # "none"
    <3>1. CASE d = c
      BY <1>1, <3>1
    <3>2. CASE d # c
      <4>1. call'[d] = call[d]
        BY <1>1, <3>2
      <4>2. call[d].at \in {"locked", "target"} => keyLock'[KeyOf[call[d].mem]] = d
        BY <1>2, <3>2 DEF MemInv, KeyLockDiscipline
      <4> QED
        BY <4>1, <4>2 DEF MemInv, KeyLockDiscipline
    <3> QED
      BY <3>1, <3>2
  <2> QED
    BY <2>1, <2>2 DEF KeyLockDiscipline
<1>4. UnlockedIsInactive'
  <2> SUFFICES ASSUME NEW d \in Calls, call'[d].at = "write",
                      KeyOf[call'[d].mem] # NoKey, keyLock'[KeyOf[call'[d].mem]] # d
               PROVE  row'[call'[d].mem].status # "none" /\ ~row'[call'[d].mem].active
    BY DEF UnlockedIsInactive
  <2>1. d # c /\ call'[d] = call[d] /\ call[d].mem \in Memories
    BY <1>1 DEF MemInv, KeyLockDiscipline
  <2>2. keyLock[KeyOf[call[d].mem]] # d
    BY <1>2, <2>1
  <2> QED
    BY <2>1, <2>2 DEF MemInv, UnlockedIsInactive
<1> QED
  BY <1>3, <1>4

LEMMA ConfirmReadStep ==
    ASSUME MemTypeOK, MemInv, NEW c \in Calls, NEW m \in Memories, ConfirmRead(c, m)
    PROVE  MemInv'
<1> USE KeyOfAssumption
<1>1. /\ call[c].at = "idle" /\ repo = "postgres"
      /\ Stored(m) /\ UNCHANGED <<repo, row, keyLock>>
  BY DEF ConfirmRead, locks
<1>2. /\ \A d \in Calls \ {c} : call'[d] = call[d]
      /\ call'[c].mem = m
      /\ call'[c].at = IF KeyOf[m] # NoKey /\ row[m].active THEN "keyed" ELSE "write"
  <2> DEFINE l == IF KeyOf[m] # NoKey /\ row[m].active THEN "keyed" ELSE "write"
  <2>1. Begin(c, "confirm", m, l) /\ l \in Confirming
    BY DEF ConfirmRead, Confirming
  <2>2. /\ \A d \in Calls \ {c} : call'[d] = call[d]
        /\ call'[c] = [at |-> l, op |-> "confirm", mem |-> m, old |-> {}]
    BY <2>1, TypeParts, BeginMoves
  <2> HIDE DEF l
  <2>3. call'[c].mem = m /\ call'[c].at = l
    BY <2>2
  <2> QED
    BY <2>2, <2>3 DEF l
<1>3. row[m].status # "none"
  BY <1>1 DEF Stored
<1>4. KeyLockDiscipline'
  <2>1. ASSUME NEW k \in Keys, keyLock'[k] # NoCall
        PROVE  call'[keyLock'[k]].at \in {"locked", "target", "write"} /\ KeyOf[call'[keyLock'[k]].mem] = k
    <3>1. keyLock'[k] = keyLock[k] /\ keyLock[k] # c /\ keyLock[k] \in Calls
      BY <1>1, <2>1 DEF MemTypeOK, MemInv, KeyLockDiscipline
    <3> QED
      BY <1>2, <2>1, <3>1 DEF MemInv, KeyLockDiscipline
  <2>2. ASSUME NEW d \in Calls
        PROVE  /\ call'[d].at # "idle" => call'[d].mem \in Memories
               /\ call'[d].at \in {"keyed", "locked", "target"} => KeyOf[call'[d].mem] # NoKey
               /\ call'[d].at \in {"locked", "target"} => keyLock'[KeyOf[call'[d].mem]] = d
               /\ call'[d].at \in {"keyed", "locked", "target", "write"} =>
                    repo' = "postgres" /\ row'[call'[d].mem].status # "none"
    <3>1. CASE d = c
      BY <1>1, <1>2, <1>3, <3>1
    <3>2. CASE d # c
      BY <1>1, <1>2, <3>2 DEF MemInv, KeyLockDiscipline
    <3> QED
      BY <3>1, <3>2
  <2> QED
    BY <2>1, <2>2 DEF KeyLockDiscipline
<1>5. UnlockedIsInactive'
  <2> SUFFICES ASSUME NEW d \in Calls, call'[d].at = "write",
                      KeyOf[call'[d].mem] # NoKey, keyLock'[KeyOf[call'[d].mem]] # d
               PROVE  row'[call'[d].mem].status # "none" /\ ~row'[call'[d].mem].active
    BY DEF UnlockedIsInactive
  <2>1. CASE d = c
    BY <1>1, <1>2, <1>3, <2>1
  <2>2. CASE d # c
    BY <1>1, <1>2, <2>2 DEF MemInv, UnlockedIsInactive
  <2> QED
    BY <2>1, <2>2
<1>6. ASSUME NEW d \in Calls, call'[d].at = "write"
      PROVE  ~BreaksIndex(d)'
  <2>1. CASE d = c
    <3>1. KeyOf[m] = NoKey \/ ~row[m].active
      BY <1>2, <1>6, <2>1
    <3> QED
      BY <1>1, <1>2, <2>1, <3>1 DEF BreaksIndex, Rivals
  <2>2. CASE d # c
    BY <1>1, <1>2, <1>6, <2>2, SameBreaksIndex DEF MemInv, OneActivePerKey
  <2> QED
    BY <2>1, <2>2
<1> QED
  BY <1>1, <1>4, <1>5, <1>6, RowsStay

\* A confirmation that takes its key or holds it.
LEMMA LockedStep ==
    ASSUME MemTypeOK, MemInv, NEW c \in Calls, UNCHANGED <<repo, row>>,
           call[c].at \in {"keyed", "locked", "target"},
           call'[c].at \in {"locked", "target", "write"}, call'[c].mem = call[c].mem,
           call'[c].at = "write" => call'[c].old = Rivals(call[c].mem),
           \A d \in Calls \ {c} : call'[d] = call[d],
           keyLock'[KeyOf[call[c].mem]] = c,
           \A k \in Keys : keyLock'[k] = keyLock[k] \/ (keyLock[k] = NoCall /\ k = KeyOf[call[c].mem])
    PROVE  MemInv'
<1> USE KeyOfAssumption
<1>1. call[c].mem \in Memories /\ KeyOf[call[c].mem] \in Keys
  BY DEF MemInv, KeyLockDiscipline
<1>2. KeyLockDiscipline'
  <2>1. ASSUME NEW k \in Keys, keyLock'[k] # NoCall
        PROVE  call'[keyLock'[k]].at \in {"locked", "target", "write"} /\ KeyOf[call'[keyLock'[k]].mem] = k
    <3>1. CASE keyLock'[k] = c
      BY <1>1, <2>1, <3>1 DEF MemInv, KeyLockDiscipline
    <3>2. CASE keyLock'[k] # c
      <4>1. keyLock'[k] = keyLock[k] /\ keyLock[k] \in Calls \ {c}
        BY <2>1, <3>2 DEF MemTypeOK
      <4> QED
        BY <2>1, <4>1 DEF MemInv, KeyLockDiscipline
    <3> QED
      BY <3>1, <3>2
  <2>2. ASSUME NEW d \in Calls
        PROVE  /\ call'[d].at # "idle" => call'[d].mem \in Memories
               /\ call'[d].at \in {"keyed", "locked", "target"} => KeyOf[call'[d].mem] # NoKey
               /\ call'[d].at \in {"locked", "target"} => keyLock'[KeyOf[call'[d].mem]] = d
               /\ call'[d].at \in {"keyed", "locked", "target", "write"} =>
                    repo' = "postgres" /\ row'[call'[d].mem].status # "none"
    <3>1. CASE d = c
      BY <1>1, <3>1 DEF MemInv, KeyLockDiscipline
    <3>2. CASE d # c
      <4>1. call'[d] = call[d]
        BY <3>2
      <4>2. call[d].at \in {"locked", "target"} => keyLock'[KeyOf[call[d].mem]] = d
        BY DEF MemInv, KeyLockDiscipline
      <4> QED
        BY <4>1, <4>2 DEF MemInv, KeyLockDiscipline
    <3> QED
      BY <3>1, <3>2
  <2> QED
    BY <2>1, <2>2 DEF KeyLockDiscipline
<1>3. UnlockedIsInactive'
  <2> SUFFICES ASSUME NEW d \in Calls, call'[d].at = "write",
                      KeyOf[call'[d].mem] # NoKey, keyLock'[KeyOf[call'[d].mem]] # d
               PROVE  row'[call'[d].mem].status # "none" /\ ~row'[call'[d].mem].active
    BY DEF UnlockedIsInactive
  <2>1. d # c /\ call'[d] = call[d]
    OBVIOUS
  <2>2. call[d].mem \in Memories /\ KeyOf[call[d].mem] \in Keys
    BY <2>1 DEF MemInv, KeyLockDiscipline
  <2>3. keyLock[KeyOf[call[d].mem]] # d
    BY <2>1, <2>2
  <2> QED
    BY <2>1, <2>3 DEF MemInv, UnlockedIsInactive
<1>4. ASSUME NEW d \in Calls, call'[d].at = "write"
      PROVE  ~BreaksIndex(d)'
  <2>1. CASE d = c
    BY <1>4, <2>1 DEF BreaksIndex, Rivals
  <2>2. CASE d # c
    BY <1>4, <2>2, SameBreaksIndex DEF MemInv, OneActivePerKey
  <2> QED
    BY <2>1, <2>2
<1> QED
  BY <1>2, <1>3, <1>4, RowsStay

LEMMA LockSteps ==
    ASSUME MemTypeOK, MemInv, NEW c \in Calls, LockKey(c) \/ LockTarget(c) \/ Supersede(c)
    PROVE  MemInv'
<1> USE KeyOfAssumption
<1>1. call \in [Calls -> CallRecord]
  BY TypeParts
<1>2. ASSUME NEW l \in {"locked", "target"}, Goto(c, l)
      PROVE  /\ \A d \in Calls \ {c} : call'[d] = call[d]
             /\ call'[c].at = l /\ call'[c].mem = call[c].mem
  <2>1. /\ \A d \in Calls \ {c} : call'[d] = call[d]
        /\ call'[c] = [call[c] EXCEPT !.at = l]
    BY <1>1, <1>2, GotoMoves DEF Confirming
  <2> QED
    BY <1>1, <2>1 DEF CallRecord
<1>3. CASE LockKey(c)
  <2>1. call[c].at = "keyed" /\ KeyOf[call[c].mem] \in Keys
    BY <1>3 DEF LockKey, MemInv, KeyLockDiscipline
  <2>2. /\ keyLock' = [keyLock EXCEPT ![KeyOf[call[c].mem]] = c]
        /\ keyLock[KeyOf[call[c].mem]] = NoCall
        /\ Goto(c, "locked") /\ UNCHANGED <<repo, row>>
    BY <1>3 DEF LockKey
  <2>3. /\ keyLock'[KeyOf[call[c].mem]] = c
        /\ \A k \in Keys : keyLock'[k] = keyLock[k] \/ (keyLock[k] = NoCall /\ k = KeyOf[call[c].mem])
    BY <2>1, <2>2 DEF MemTypeOK
  <2> QED
    BY <1>2, <2>1, <2>2, <2>3, LockedStep
<1>4. CASE LockTarget(c)
  <2>1. /\ call[c].at = "locked" /\ Goto(c, "target") /\ UNCHANGED <<repo, row, keyLock>>
        /\ keyLock[KeyOf[call[c].mem]] = c
    BY <1>4 DEF LockTarget, MemInv, KeyLockDiscipline
  <2> QED
    BY <1>2, <2>1, LockedStep
<1>5. CASE Supersede(c)
  <2>1. /\ call[c].at = "target" /\ UNCHANGED <<repo, row, keyLock>>
        /\ keyLock[KeyOf[call[c].mem]] = c
    BY <1>5 DEF Supersede, MemInv, KeyLockDiscipline
  <2> QED
    BY <1>5, <2>1, SupersedeMoves, LockedStep
<1> QED
  BY <1>3, <1>4, <1>5

LEMMA AbandonStep ==
    ASSUME MemTypeOK, MemInv, NEW c \in Calls, Released(c), Return(c), UNCHANGED <<repo, row>>
    PROVE  MemInv'
<1>1. /\ \A d \in Calls \ {c} : call'[d] = call[d]
      /\ call'[c].at = "idle"
  BY TypeParts, ReturnMoves DEF Idle
<1>2. KeyLockDiscipline' /\ UnlockedIsInactive'
  BY ReleaseKeeps
<1>3. ASSUME NEW d \in Calls, call'[d].at = "write"
      PROVE  ~BreaksIndex(d)'
  BY <1>1, <1>3, SameBreaksIndex DEF MemInv, OneActivePerKey
<1> QED
  BY <1>2, <1>3, RowsStay

\* A confirmation that commits what it was about to write.
LEMMA CommitStep ==
    ASSUME MemTypeOK, MemInv, NEW c \in Calls, ConfirmWrite(c), Stored(call[c].mem), ~BreaksIndex(c)
    PROVE  MemInv'
<1> USE KeyOfAssumption
<1> DEFINE m == call[c].mem
           old == call[c].old
<1>1. /\ call[c].at = "write" /\ repo = "postgres" /\ UNCHANGED repo
      /\ m \in Memories /\ old \in SUBSET Memories
      /\ Released(c) /\ Return(c) /\ Confirmed(m, old)
  BY TypeParts DEF ConfirmWrite, MemInv, KeyLockDiscipline, CallRecord, Confirmed
<1>2. /\ row'[m].status = "confirmed" /\ row'[m].active = row[m].active
      /\ row'[m].expired = row[m].expired
      /\ \A o \in Memories \ {m} :
           /\ row'[o].status = row[o].status /\ row'[o].expired = row[o].expired
           /\ row'[o].active = (row[o].active /\ o \notin old)
  BY <1>1, TypeParts, ConfirmedRows
<1>3. /\ \A d \in Calls \ {c} : call'[d] = call[d]
      /\ call'[c].at = "idle"
  BY <1>1, TypeParts, ReturnMoves DEF Idle
<1>4. row[m].active => Rivals(m) \subseteq old
  BY DEF BreaksIndex
<1>5. row[m].active /\ KeyOf[m] # NoKey => keyLock[KeyOf[m]] = c
  BY <1>1 DEF MemInv, UnlockedIsInactive
<1> HIDE DEF m, old
<1>6. \A o \in Memories : row[o].status # "none" =>
        row'[o].status # "none" /\ (row'[o].active => row[o].active)
  BY <1>1, <1>2
<1>7. KeyLockDiscipline' /\ UnlockedIsInactive'
  BY <1>1, <1>6, ReleaseKeeps
<1>8. OneConfirmedPerKey'
  <2> SUFFICES ASSUME NEW p \in Memories, row'[p].status = "confirmed", row'[p].active,
                      NEW o \in Memories, o # p, KeyOf[p] # NoKey, KeyOf[o] = KeyOf[p],
                      row'[o].status = "confirmed", row'[o].active
               PROVE  FALSE
    BY DEF OneConfirmedPerKey, Rivals
  <2>1. CASE p = m
    <3>1. row[m].active /\ o \in Rivals(m) /\ o \notin old
      BY <1>2, <2>1 DEF Rivals
    <3> QED
      BY <1>4, <3>1
  <2>2. CASE o = m
    <3>1. row[m].active /\ p \in Rivals(m) /\ p \notin old
      BY <1>2, <2>2 DEF Rivals
    <3> QED
      BY <1>4, <3>1
  <2>3. CASE p # m /\ o # m
    <3>1. row[p].status = "confirmed" /\ row[p].active /\ o \in Rivals(p)
      BY <1>2, <2>3 DEF Rivals
    <3> QED
      BY <1>1, <3>1 DEF MemInv, OneConfirmedPerKey
  <2> QED
    BY <2>1, <2>2, <2>3
<1>9. ASSUME NEW d \in Calls, call'[d].at = "write"
      PROVE  ~BreaksIndex(d)'
  <2> DEFINE n == call[d].mem
  <2>1. d # c /\ call'[d] = call[d] /\ call[d].at = "write"
    BY <1>3, <1>9
  <2>2. n \in Memories /\ ~BreaksIndex(d)
    BY <2>1 DEF MemInv, KeyLockDiscipline, OneActivePerKey
  <2> SUFFICES ASSUME row'[n].status \notin {"none", "deleted"}, row'[n].active,
                      NEW o \in Rivals(n)', o \notin call[d].old
               PROVE  FALSE
    BY <2>1 DEF BreaksIndex, Stored
  <2>3. Stored(n) /\ row[n].active
    <3>1. CASE n = m
      BY <1>2, <3>1 DEF m
    <3>2. CASE n # m
      BY <1>2, <2>2, <3>2 DEF Stored
    <3> QED
      BY <3>1, <3>2
  <2>4. /\ o \in Memories \ {n} /\ KeyOf[n] # NoKey /\ KeyOf[o] = KeyOf[n]
        /\ row'[o].status = "confirmed" /\ row'[o].active
    BY <2>1 DEF Rivals
  <2>5. CASE o # m
    <3>1. o \in Rivals(n)
      BY <1>2, <2>4, <2>5 DEF Rivals
    <3> QED
      BY <2>2, <2>3, <3>1 DEF BreaksIndex
  <2>6. CASE o = m
    <3>1. keyLock[KeyOf[n]] = c
      BY <1>2, <1>5, <2>4, <2>6
    <3>2. keyLock[KeyOf[n]] = d
      BY <2>1, <2>3, <2>4 DEF MemInv, UnlockedIsInactive
    <3> QED
      BY <2>1, <3>1, <3>2
  <2> QED
    BY <2>5, <2>6
<1>10. OneActivePerKey'
  <2>1. \A p \in Recalled' : Rivals(p)' \cap Recalled' = {}
    <3>1. \A p \in Recalled' : p \in Memories /\ row'[p].status = "confirmed" /\ row'[p].active
      BY DEF Recalled, Listed
    <3>2. \A p \in Recalled' : Rivals(p)' = {}
      BY <1>1, <1>8, <3>1 DEF OneConfirmedPerKey
    <3> QED
      BY <3>2
  <2> QED
    BY <1>9, <2>1 DEF OneActivePerKey
<1> QED
  BY <1>7, <1>8, <1>10 DEF MemInv

\* Without PostgreSQL: nothing else is under way, and what is superseded is
\* what is recalled.
LEMMA InMemoryStep ==
    ASSUME MemTypeOK, MemInv, NEW c \in Calls, NEW m \in Memories, ConfirmInMemory(c, m)
    PROVE  MemInv'
<1> USE KeyOfAssumption
<1> DEFINE old == IF row[m].active THEN {o \in Rivals(m) : ~row[o].expired} ELSE {}
<1>1. /\ repo = "memory" /\ Stored(m) /\ UNCHANGED <<repo, keyLock, call>>
      /\ old \in SUBSET Memories /\ Confirmed(m, old)
  BY DEF ConfirmInMemory, Confirmed, Rivals, locks
<1>2. /\ row'[m].status = "confirmed" /\ row'[m].active = row[m].active
      /\ row'[m].expired = row[m].expired
      /\ \A o \in Memories \ {m} :
           /\ row'[o].status = row[o].status /\ row'[o].expired = row[o].expired
           /\ row'[o].active = (row[o].active /\ o \notin old)
  <2> HIDE DEF old
  <2> QED
    BY <1>1, TypeParts, ConfirmedRows
<1>3. \A d \in Calls : call[d].at \notin {"keyed", "locked", "target", "write"}
  BY <1>1 DEF MemInv, KeyLockDiscipline
<1>4. KeyLockDiscipline' /\ UnlockedIsInactive' /\ OneConfirmedPerKey'
  BY <1>1, <1>3 DEF MemInv, KeyLockDiscipline, UnlockedIsInactive, OneConfirmedPerKey
<1>5. OneActivePerKey'
  <2> SUFFICES ASSUME NEW p \in Recalled', NEW o \in Recalled', o # p,
                      KeyOf[p] # NoKey, KeyOf[o] = KeyOf[p]
               PROVE  FALSE
    BY <1>1, <1>3 DEF OneActivePerKey, Rivals
  <2>1. \A q \in Recalled' :
          /\ q \in Memories /\ row'[q].status = "confirmed" /\ row'[q].active /\ ~row'[q].expired
    BY DEF Recalled, Listed
  <2>2. \A q \in Recalled' \ {m} : q \in Recalled /\ q \notin old
    BY <1>2, <2>1 DEF Recalled, Listed, Stored
  <2>3. \A q \in Recalled' \ {m} : KeyOf[m] # NoKey /\ KeyOf[q] = KeyOf[m] => q \in Rivals(m)
    BY <2>2 DEF Recalled, Listed, Rivals
  <2>4. \A q \in Recalled' \ {m} : ~row[q].expired
    BY <2>2 DEF Recalled, Listed
  <2>5. CASE p = m \/ o = m
    <3>1. row[m].active
      BY <1>2, <2>1, <2>5
    <3> QED
      BY <2>2, <2>3, <2>4, <2>5, <3>1
  <2>6. CASE p # m /\ o # m
    <3>1. p \in Recalled /\ o \in Recalled
      BY <2>2, <2>6
    <3>2. o \in Rivals(p)
      BY <3>1 DEF Recalled, Listed, Rivals
    <3> QED
      BY <3>1, <3>2 DEF MemInv, OneActivePerKey
  <2> QED
    BY <2>5, <2>6
<1> QED
  BY <1>4, <1>5 DEF MemInv

LEMMA StepKeepsInv ==
    ASSUME MemTypeOK, MemInv, MemNext
    PROVE  MemInv'
<1>1. ASSUME NEW c \in Calls, ConfirmWrite(c)
      PROVE  MemInv'
  <2>1. CASE Stored(call[c].mem) /\ ~BreaksIndex(c)
    BY <1>1, <2>1, CommitStep
  <2>2. CASE ~(Stored(call[c].mem) /\ ~BreaksIndex(c))
    BY <1>1, <2>2, AbandonStep DEF ConfirmWrite
  <2> QED
    BY <2>1, <2>2
<1>2. ASSUME NEW c \in Calls, Abandon(c)
      PROVE  MemInv'
  BY <1>2, AbandonStep DEF Abandon
<1> QED
  BY <1>1, <1>2, PlainSteps, ConfirmReadStep, InMemoryStep, LockSteps DEF MemNext

\* The state of the memories keeps its types.
THEOREM MemTypesCorrect == MemSpec => []MemTypeOK
<1>1. MemTypeOK /\ MemInv /\ [MemNext]_mvars => MemTypeOK' /\ MemInv'
  <2>1. ASSUME MemTypeOK, MemInv, MemNext
        PROVE  MemTypeOK' /\ MemInv'
    <3>1. MemoriesNamed
      BY <2>1 DEF MemInv, KeyLockDiscipline, MemoriesNamed
    <3> QED
      BY <2>1, <3>1, StepTypes, StepKeepsInv
  <2>2. ASSUME MemTypeOK, MemInv, UNCHANGED mvars
        PROVE  MemTypeOK' /\ MemInv'
    <3>1. UNCHANGED <<repo, row, keyLock, rowLock, call, newest, confirms>>
      BY <2>2 DEF mvars
    <3>2. MemTypeOK'
      BY <2>2, <3>1 DEF MemTypeOK
    <3>3. RowsFade /\ OthersAct
      BY <3>1 DEF RowsFade, OthersAct
    <3> QED
      BY <2>2, <3>1, <3>2, <3>3, FadingKeepsInv
  <2> QED
    BY <2>1, <2>2
<1> QED
  BY <1>1, InitKeepsInv, PTL DEF MemSpec

LEMMA MemInvHolds == MemSpec => []MemInv
<1>1. MemTypeOK /\ MemTypeOK' /\ MemInv /\ [MemNext]_mvars => MemInv'
  <2>1. ASSUME MemTypeOK, MemInv, UNCHANGED mvars
        PROVE  MemInv'
    <3>1. UNCHANGED <<repo, row, keyLock, call>> /\ RowsFade /\ OthersAct
      BY <2>1 DEF mvars, RowsFade, OthersAct
    <3> QED
      BY <2>1, <3>1, FadingKeepsInv
  <2> QED
    BY <2>1, StepKeepsInv
<1> QED
  BY <1>1, InitKeepsInv, MemTypesCorrect, PTL DEF MemSpec

\* Of a key at most one memory is recalled, and no confirmation needs the
\* unique index to keep it so.
THEOREM OneActivePerKeyHolds == MemSpec => []OneActivePerKey
<1>1. MemInv => OneActivePerKey
  BY DEF MemInv
<1> QED
  BY <1>1, MemInvHolds, PTL

-----------------------------------------------------------------------------
(***************************************************************************)
(* The memory confirmed last.  Only a confirmation touches what NewestInv  *)
(* speaks of; every other step keeps the validity of what is stored, and   *)
(* the locks of those that are about to supersede.                         *)
(***************************************************************************)
RowsKeepForce ==
    \A m \in Memories :
      /\ row[m].status # "none" =>
           /\ row'[m].status # "none" /\ row'[m].active = row[m].active
           /\ row'[m].status = "confirmed" => row[m].status = "confirmed"
      /\ row[m].status = "none" =>
           row'[m].status = "none" \/ (row'[m].active /\ row'[m].status = "candidate")

SupersedersStay ==
    \A c \in Calls : call'[c].old # {} =>
        /\ call'[c] = call[c]
        /\ keyLock[KeyOf[call[c].mem]] = c => keyLock'[KeyOf[call[c].mem]] = c

LEMMA NewestKept ==
    ASSUME MemTypeOK, NewestInv, UNCHANGED <<repo, newest, confirms>>,
           RowsKeepForce, SupersedersStay
    PROVE  NewestInv'
<1>1. ForceIsCounted'
  BY DEF NewestInv, ForceIsCounted, RowsKeepForce
<1>2. SupersedesItsKey'
  BY DEF NewestInv, SupersedesItsKey, SupersedersStay
<1>3. NewestStaysActive'
  BY DEF NewestInv, NewestStaysActive, RowsKeepForce, MemTypeOK
<1> QED
  BY <1>1, <1>2, <1>3 DEF NewestInv

LEMMA SameRowsKeepForce ==
    ASSUME row' = row
    PROVE  RowsKeepForce
BY DEF RowsKeepForce

LEMMA ClosedRowsKeepForce ==
    ASSUME row \in [Memories -> Rows], NEW m \in Memories, NEW s \in {"rejected", "deleted"},
           Stored(m), SetMemoryStatus(m, s)
    PROVE  RowsKeepForce
<1>1. /\ \A o \in Memories \ {m} : row'[o] = row[o]
      /\ row'[m] = [row[m] EXCEPT !.status = s]
  BY StatusSets DEF Statuses
<1>2. row'[m].status = s /\ row'[m].active = row[m].active
  BY <1>1 DEF Rows
<1> QED
  BY <1>1, <1>2 DEF RowsKeepForce, Stored

\* A call that begins, returns or goes on has nothing to supersede.
LEMMA PlainCallsStay ==
    ASSUME MemTypeOK, NewestInv, NEW c \in Calls,
           \/ Return(c)
           \/ \E o \in {"create", "confirm", "reject", "delete"}, m \in Memories,
                 l \in {"insert", "event", "delete"} \cup Confirming : Begin(c, o, m, l)
           \/ /\ call[c].at # "write"
              /\ \E l \in {"insert", "event", "delete"} \cup Confirming : Goto(c, l)
    PROVE  /\ call'[c].old = {}
           /\ \A d \in Calls \ {c} : call'[d] = call[d]
<1>1. call \in [Calls -> CallRecord]
  BY TypeParts
<1>2. CASE Return(c)
  BY <1>1, <1>2, ReturnMoves DEF Idle
<1>3. ASSUME NEW o \in {"create", "confirm", "reject", "delete"}, NEW m \in Memories,
             NEW l \in {"insert", "event", "delete"} \cup Confirming, Begin(c, o, m, l)
      PROVE  /\ call'[c].old = {}
             /\ \A d \in Calls \ {c} : call'[d] = call[d]
  <2>1. /\ call'[c] = [at |-> l, op |-> o, mem |-> m, old |-> {}]
        /\ \A d \in Calls \ {c} : call'[d] = call[d]
    BY <1>1, <1>3, BeginMoves
  <2> QED
    BY <2>1
<1>4. ASSUME call[c].at # "write",
             NEW l \in {"insert", "event", "delete"} \cup Confirming, Goto(c, l)
      PROVE  /\ call'[c].old = {}
             /\ \A d \in Calls \ {c} : call'[d] = call[d]
  <2>1. call[c].old = {}
    BY <1>4 DEF NewestInv, SupersedesItsKey
  <2>2. call'[c] = [call[c] EXCEPT !.at = l] /\ \A d \in Calls \ {c} : call'[d] = call[d]
    BY <1>1, <1>4, GotoMoves
  <2>3. call'[c].old = call[c].old
    BY <1>1, <2>2 DEF CallRecord
  <2> QED
    BY <2>1, <2>2, <2>3
<1> QED
  BY <1>2, <1>3, <1>4

LEMMA NewestPlain ==
    ASSUME MemTypeOK, MemInv, NewestInv,
           \/ \E c \in Calls, m \in Memories :
                \/ ListForCreate(c, m) \/ Reject(c, m) \/ GetForDelete(c, m)
                \/ ConfirmRead(c, m)
           \/ \E c \in Calls :
                \/ UpsertMemory(c) \/ AddMemoryEvent(c) \/ DeleteMemory(c)
                \/ LockKey(c) \/ LockTarget(c) \/ Abandon(c)
           \/ \E m \in Memories : Expire(m)
    PROVE  NewestInv'
<1> USE DEF locks, observers, Confirming
<1>0. row \in [Memories -> Rows] /\ call \in [Calls -> CallRecord]
  BY TypeParts
<1>1. ASSUME NEW c \in Calls, NEW m \in Memories,
             ListForCreate(c, m) \/ GetForDelete(c, m) \/ ConfirmRead(c, m)
      PROVE  NewestInv'
  <2>1. UNCHANGED <<repo, row, keyLock, newest, confirms>>
    BY <1>1 DEF ListForCreate, GetForDelete, ConfirmRead
  <2>2. call'[c].old = {} /\ \A d \in Calls \ {c} : call'[d] = call[d]
    BY <1>1, PlainCallsStay DEF ListForCreate, GetForDelete, ConfirmRead
  <2> QED
    BY <2>1, <2>2, NewestKept, SameRowsKeepForce DEF SupersedersStay
<1>2. ASSUME NEW c \in Calls, NEW m \in Memories, Reject(c, m)
      PROVE  NewestInv'
  <2>1. UNCHANGED <<repo, keyLock, newest, confirms>>
    BY <1>2 DEF Reject
  <2>2. call'[c].old = {} /\ \A d \in Calls \ {c} : call'[d] = call[d]
    BY <1>2, PlainCallsStay DEF Reject
  <2>3. RowsKeepForce
    BY <1>0, <1>2, ClosedRowsKeepForce DEF Reject
  <2> QED
    BY <2>1, <2>2, <2>3, NewestKept DEF SupersedersStay
<1>3. ASSUME NEW c \in Calls, UpsertMemory(c)
      PROVE  NewestInv'
  <2>0. call[c].at = "insert" /\ call[c].mem \in Memories
    BY <1>3 DEF UpsertMemory, MemInv, KeyLockDiscipline
  <2>1. UNCHANGED <<repo, keyLock, newest, confirms>>
    BY <1>3 DEF UpsertMemory
  <2>2. call'[c].old = {} /\ \A d \in Calls \ {c} : call'[d] = call[d]
    BY <1>3, <2>0, PlainCallsStay DEF UpsertMemory
  <2>3. RowsKeepForce
    <3>1. CASE Stored(call[c].mem)
      BY <1>3, <3>1, SameRowsKeepForce DEF UpsertMemory
    <3>2. CASE ~Stored(call[c].mem)
      <4> DEFINE new == [status |-> "candidate", active |-> TRUE, expired |-> FALSE]
      <4>1. new.status = "candidate" /\ new.active
        OBVIOUS
      <4>2. row' = [row EXCEPT ![call[c].mem] = new] /\ row[call[c].mem].status = "none"
        BY <1>3, <3>2 DEF UpsertMemory, Stored
      <4> HIDE DEF new
      <4> QED
        BY <1>0, <2>0, <4>1, <4>2 DEF RowsKeepForce
    <3> QED
      BY <3>1, <3>2
  <2> QED
    BY <2>1, <2>2, <2>3, NewestKept DEF SupersedersStay
<1>4. ASSUME NEW c \in Calls, AddMemoryEvent(c)
      PROVE  NewestInv'
  <2>1. UNCHANGED <<repo, row, keyLock, newest, confirms>>
    BY <1>4 DEF AddMemoryEvent
  <2>2. call'[c].old = {} /\ \A d \in Calls \ {c} : call'[d] = call[d]
    BY <1>4, PlainCallsStay DEF AddMemoryEvent
  <2> QED
    BY <2>1, <2>2, NewestKept, SameRowsKeepForce DEF SupersedersStay
<1>5. ASSUME NEW c \in Calls, DeleteMemory(c)
      PROVE  NewestInv'
  <2>1. UNCHANGED <<repo, keyLock, newest, confirms>> /\ call[c].mem \in Memories
    BY <1>5 DEF DeleteMemory, MemInv, KeyLockDiscipline
  <2>2. call'[c].old = {} /\ \A d \in Calls \ {c} : call'[d] = call[d]
    BY <1>5, PlainCallsStay DEF DeleteMemory
  <2>3. RowsKeepForce
    <3>1. CASE Stored(call[c].mem)
      BY <1>0, <1>5, <2>1, <3>1, ClosedRowsKeepForce DEF DeleteMemory
    <3>2. CASE ~Stored(call[c].mem)
      BY <1>5, <3>2, SameRowsKeepForce DEF DeleteMemory
    <3> QED
      BY <3>1, <3>2
  <2> QED
    BY <2>1, <2>2, <2>3, NewestKept DEF SupersedersStay
<1>6. ASSUME NEW c \in Calls, LockKey(c)
      PROVE  NewestInv'
  <2>1. UNCHANGED <<repo, row, newest, confirms>>
    BY <1>6 DEF LockKey
  <2>2. call'[c].old = {} /\ \A d \in Calls \ {c} : call'[d] = call[d]
    BY <1>6, PlainCallsStay DEF LockKey
  <2>3. \A k, d : d \in Calls \ {c} /\ keyLock[k] = d => keyLock'[k] = d
    BY <1>6, KeyOfAssumption DEF LockKey, MemTypeOK
  <2> QED
    BY <2>1, <2>2, <2>3, NewestKept, SameRowsKeepForce DEF SupersedersStay
<1>7. ASSUME NEW c \in Calls, LockTarget(c)
      PROVE  NewestInv'
  <2>1. UNCHANGED <<repo, row, keyLock, newest, confirms>>
    BY <1>7 DEF LockTarget
  <2>2. call'[c].old = {} /\ \A d \in Calls \ {c} : call'[d] = call[d]
    BY <1>7, PlainCallsStay DEF LockTarget
  <2> QED
    BY <2>1, <2>2, NewestKept, SameRowsKeepForce DEF SupersedersStay
<1>8. ASSUME NEW c \in Calls, Abandon(c)
      PROVE  NewestInv'
  <2>1. UNCHANGED <<repo, row, newest, confirms>> /\ Released(c) /\ Return(c)
    BY <1>8 DEF Abandon
  <2>2. call'[c].old = {} /\ \A d \in Calls \ {c} : call'[d] = call[d]
    BY <2>1, PlainCallsStay
  <2>3. \A d \in Calls \ {c} : call[d].old # {} /\ keyLock[KeyOf[call[d].mem]] = d =>
                                 keyLock'[KeyOf[call[d].mem]] = d
    BY <2>1, KeyOfAssumption DEF Released, NewestInv, SupersedesItsKey, MemTypeOK
  <2> QED
    BY <2>1, <2>2, <2>3, NewestKept, SameRowsKeepForce DEF SupersedersStay
<1>9. ASSUME NEW m \in Memories, Expire(m)
      PROVE  NewestInv'
  <2>1. UNCHANGED <<repo, keyLock, call, newest, confirms>>
    BY <1>9 DEF Expire
  <2>2. RowsKeepForce
    <3>1. row[m] \in Rows /\ row'[m] = [row[m] EXCEPT !.expired = TRUE]
      BY <1>0, <1>9, ExpireMoves
    <3>2. row'[m].status = row[m].status /\ row'[m].active = row[m].active
      BY <3>1 DEF Rows
    <3>3. \A o \in Memories \ {m} : row'[o] = row[o]
      BY <1>0, <1>9, ExpireMoves
    <3>4. row[m].status # "none"
      BY <1>9 DEF Expire, Stored
    <3> QED
      BY <3>2, <3>3, <3>4 DEF RowsKeepForce
  <2> QED
    BY <2>1, <2>2, NewestKept DEF SupersedersStay
<1> QED
  BY <1>1, <1>2, <1>3, <1>4, <1>5, <1>6, <1>7, <1>8, <1>9

\* What is superseded was in force, so it was confirmed for its key.
LEMMA NewestSupersede ==
    ASSUME MemTypeOK, MemInv, NewestInv, NEW c \in Calls, Supersede(c)
    PROVE  NewestInv'
<1>1. UNCHANGED <<repo, row, keyLock, newest, confirms>>
  BY DEF Supersede, observers
<1>2. /\ \A d \in Calls \ {c} : call'[d] = call[d]
      /\ call'[c].at = "write" /\ call'[c].mem = call[c].mem
      /\ call'[c].old = Rivals(call[c].mem)
  BY SupersedeMoves
<1>3. keyLock[KeyOf[call[c].mem]] = c
  BY DEF Supersede, MemInv, KeyLockDiscipline
<1>4. \A o \in Rivals(call[c].mem) :
        /\ KeyOf[o] = KeyOf[call[c].mem] /\ KeyOf[o] # NoKey
        /\ o # call[c].mem /\ confirms[o] > 0
  BY DEF Rivals, NewestInv, ForceIsCounted, MemTypeOK
<1>5. SupersedesItsKey'
  BY <1>1, <1>2, <1>3, <1>4 DEF NewestInv, SupersedesItsKey
<1> QED
  BY <1>1, <1>5 DEF NewestInv, ForceIsCounted, NewestStaysActive

\* A confirmation makes its target the newest of its key, and counts it, or
\* leaves everything as it was when no key is at stake.
LEMMA NewestConfirmed ==
    ASSUME MemTypeOK, NewestInv, NEW m \in Memories, NEW old \in SUBSET Memories,
           NEW keyed \in BOOLEAN, repo' = repo,
           Confirmed(m, old), Observe(m, keyed), row[m].status # "none",
           keyed => KeyOf[m] # NoKey /\ (repo = "memory" => row[m].active),
           ~keyed => old = {} /\ (KeyOf[m] = NoKey \/ ~row[m].active),
           \A o \in old : KeyOf[o] = KeyOf[m] /\ KeyOf[o] # NoKey /\ o # m /\ confirms[o] > 0
    PROVE  /\ ForceIsCounted' /\ NewestStaysActive'
           /\ \A o \in Memories : confirms[o] > 0 => confirms'[o] > 0
<1>0. /\ row'[m].status = "confirmed" /\ row'[m].active = row[m].active
      /\ \A o \in Memories \ {m} :
           /\ row'[o].status = row[o].status
           /\ row'[o].active = (row[o].active /\ o \notin old)
  BY TypeParts, ConfirmedRows
<1>1. confirms \in [Memories -> 0..2] /\ newest \in [Keys -> Memories \cup {NoMemory}]
  BY DEF MemTypeOK
<1>2. /\ \A o \in Memories \ {m} : confirms'[o] = confirms[o]
      /\ keyed => confirms'[m] = IF confirms[m] < 2 THEN confirms[m] + 1 ELSE confirms[m]
      /\ ~keyed => confirms'[m] = confirms[m]
  BY <1>1 DEF Observe
<1>3. /\ keyed => newest' = [newest EXCEPT ![KeyOf[m]] = m]
      /\ ~keyed => newest' = newest
  BY DEF Observe
<1>a. \A o \in Memories : confirms[o] > 0 => confirms'[o] > 0
  BY <1>1, <1>2
<1>4. ForceIsCounted'
  <2> SUFFICES ASSUME NEW o \in Memories, KeyOf[o] # NoKey, confirms'[o] = 0
               PROVE  row'[o].status = "none" \/ (row'[o].active /\ row'[o].status # "confirmed")
    BY DEF ForceIsCounted
  <2>1. confirms[o] = 0
    BY <1>1, <1>a
  <2>2. row[o].status = "none" \/ (row[o].active /\ row[o].status # "confirmed")
    BY <2>1 DEF NewestInv, ForceIsCounted
  <2>3. CASE o = m
    BY <1>1, <1>2, <2>2, <2>3
  <2>4. CASE o # m
    <3>1. o \notin old
      BY <2>1
    <3> QED
      BY <1>0, <2>2, <2>4, <3>1
  <2> QED
    BY <2>3, <2>4
<1>5. NewestStaysActive'
  <2> SUFFICES ASSUME NEW k \in Keys, newest'[k] # NoMemory
               PROVE  /\ KeyOf[newest'[k]] = k /\ row'[newest'[k]].status # "none"
                      /\ (repo = "memory" \/ confirms'[newest'[k]] < 2) => row'[newest'[k]].active
    BY DEF NewestStaysActive
  <2>1. CASE keyed /\ k = KeyOf[m]
    <3>1. newest'[k] = m
      BY <1>1, <1>3, <2>1
    <3>2. confirms'[m] < 2 => confirms[m] = 0
      BY <1>1, <1>2, <2>1
    <3>3. (repo = "memory" \/ confirms'[m] < 2) => row[m].active
      BY <2>1, <3>2 DEF NewestInv, ForceIsCounted
    <3> QED
      BY <1>0, <2>1, <3>1, <3>3
  <2>2. CASE ~(keyed /\ k = KeyOf[m])
    <3> DEFINE n == newest[k]
    <3>1. newest'[k] = n /\ n \in Memories
      BY <1>1, <1>3, <2>2
    <3>2. /\ KeyOf[n] = k /\ row[n].status # "none"
          /\ (repo = "memory" \/ confirms[n] < 2) => row[n].active
      BY <3>1 DEF NewestInv, NewestStaysActive
    <3>3. n \notin old
      BY <2>2, <3>2
    <3>4. row'[n].status # "none" /\ row'[n].active = row[n].active
      BY <1>0, <3>1, <3>2, <3>3 DEF MemTypeOK
    <3>5. confirms'[n] < 2 => confirms[n] < 2
      BY <1>1, <1>2, <3>1
    <3> QED
      BY <3>1, <3>2, <3>4, <3>5
  <2> QED
    BY <2>1, <2>2
<1> QED
  BY <1>a, <1>4, <1>5

LEMMA NewestCommit ==
    ASSUME MemTypeOK, MemInv, NewestInv, NEW c \in Calls, ConfirmWrite(c)
    PROVE  NewestInv'
<1> DEFINE m == call[c].mem
           keyed == KeyOf[m] # NoKey /\ keyLock[KeyOf[m]] = c
<1>0. /\ call[c].at = "write" /\ m \in Memories /\ repo' = repo /\ repo = "postgres"
      /\ Released(c) /\ Return(c) /\ call[c].old \in SUBSET Memories
  BY TypeParts DEF ConfirmWrite, MemInv, KeyLockDiscipline, CallRecord
<1>1. call'[c].old = {} /\ \A d \in Calls \ {c} : call'[d] = call[d]
  BY <1>0, PlainCallsStay
<1>2. \A d \in Calls \ {c} : call[d].old # {} /\ keyLock[KeyOf[call[d].mem]] = d =>
                               keyLock'[KeyOf[call[d].mem]] = d
  BY <1>0, KeyOfAssumption DEF Released, NewestInv, SupersedesItsKey, MemTypeOK
<1>3. CASE Stored(m) /\ ~BreaksIndex(c)
  <2>1. Confirmed(m, call[c].old) /\ Observe(m, keyed) /\ row[m].status # "none"
    BY <1>3 DEF ConfirmWrite, Confirmed, Stored
  <2>2. \A o \in call[c].old :
          /\ keyed
          /\ KeyOf[o] = KeyOf[m] /\ KeyOf[o] # NoKey /\ o # m /\ confirms[o] > 0
    BY DEF NewestInv, SupersedesItsKey
  <2>3. ~keyed => KeyOf[m] = NoKey \/ ~row[m].active
    BY <1>0 DEF MemInv, UnlockedIsInactive
  <2>4. /\ ForceIsCounted' /\ NewestStaysActive'
        /\ \A o \in Memories : confirms[o] > 0 => confirms'[o] > 0
    <3>1. ~keyed => call[c].old = {}
      BY <2>2
    <3>2. keyed \in BOOLEAN /\ (keyed => KeyOf[m] # NoKey) /\ repo # "memory"
      BY <1>0
    <3> HIDE DEF keyed, m
    <3> QED
      BY <1>0, <2>1, <2>2, <2>3, <3>1, <3>2, NewestConfirmed
  <2>5. SupersedesItsKey'
    BY <1>1, <1>2, <2>4, TypeParts DEF NewestInv, SupersedesItsKey, CallRecord
  <2> QED
    BY <2>4, <2>5 DEF NewestInv
<1>4. CASE ~(Stored(m) /\ ~BreaksIndex(c))
  <2>1. UNCHANGED <<row, newest, confirms>>
    BY <1>4 DEF ConfirmWrite, observers
  <2> QED
    BY <1>0, <1>1, <1>2, <2>1, NewestKept, SameRowsKeepForce DEF SupersedersStay
<1> QED
  BY <1>3, <1>4

LEMMA NewestInMemory ==
    ASSUME MemTypeOK, MemInv, NewestInv, NEW c \in Calls, NEW m \in Memories, ConfirmInMemory(c, m)
    PROVE  NewestInv'
<1> DEFINE old == IF row[m].active THEN {o \in Rivals(m) : ~row[o].expired} ELSE {}
           keyed == KeyOf[m] # NoKey /\ row[m].active
<1>1. /\ repo = "memory" /\ row[m].status # "none" /\ UNCHANGED <<repo, keyLock, call>>
      /\ old \in SUBSET Memories /\ Confirmed(m, old) /\ Observe(m, keyed)
  BY DEF ConfirmInMemory, Confirmed, Rivals, locks, Stored
<1>2. \A o \in old : KeyOf[o] = KeyOf[m] /\ KeyOf[o] # NoKey /\ o # m /\ confirms[o] > 0
  BY DEF Rivals, NewestInv, ForceIsCounted, MemTypeOK
<1>3. ~keyed => old = {} /\ (KeyOf[m] = NoKey \/ ~row[m].active)
  BY DEF Rivals
<1>4. keyed \in BOOLEAN /\ (keyed => KeyOf[m] # NoKey /\ row[m].active)
  BY DEF MemTypeOK
<1>5. /\ ForceIsCounted' /\ NewestStaysActive'
      /\ \A o \in Memories : confirms[o] > 0 => confirms'[o] > 0
  <2> HIDE DEF old, keyed
  <2> QED
    BY <1>1, <1>2, <1>3, <1>4, NewestConfirmed
<1>6. SupersedesItsKey'
  BY <1>1, <1>5, TypeParts DEF NewestInv, SupersedesItsKey, CallRecord
<1> QED
  BY <1>5, <1>6 DEF NewestInv

LEMMA InitNewest ==
    ASSUME MemInit
    PROVE  NewestInv
BY DEF MemInit, NewestInv, ForceIsCounted, SupersedesItsKey, NewestStaysActive, Idle

LEMMA NextNewest ==
    ASSUME MemTypeOK, MemInv, NewestInv, [MemNext]_mvars
    PROVE  NewestInv'
<1>1. CASE UNCHANGED mvars
  BY <1>1, NewestKept, SameRowsKeepForce DEF mvars, SupersedersStay
<1>2. CASE MemNext
  BY <1>2, NewestPlain, NewestSupersede, NewestCommit, NewestInMemory DEF MemNext
<1> QED
  BY <1>1, <1>2

LEMMA NewestInvHolds == MemSpec => []NewestInv
<1>1. MemTypeOK /\ MemInv /\ NewestInv /\ [MemNext]_mvars => NewestInv'
  BY NextNewest
<1>2. MemInit => NewestInv
  BY InitNewest
<1> QED
  BY <1>1, <1>2, MemTypesCorrect, MemInvHolds, PTL DEF MemSpec

\* The memory a user confirmed last for a key is in force until it is
\* rejected, deleted or expires, for every interleaving of the calls.
THEOREM NewestIsActiveHolds == MemSpec => []NewestIsActive
<1>1. NewestInv => NewestIsActive
  BY DEF NewestInv, NewestStaysActive, NewestIsActive
<1> QED
  BY <1>1, NewestInvHolds, PTL
=============================================================================
