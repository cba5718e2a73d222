-------------------------- MODULE FileSessionStore --------------------------
(***************************************************************************)
(* FileSessionStore (crates/agent-core/session/src): one file per record,  *)
(* replaced by a rename, and an index of summaries that is dropped before  *)
(* a record changes and written again after it.  A task of some process    *)
(* holds the lock of the store, a mutex of its process and a lock on a     *)
(* file, during each operation; the files are written step by step, and    *)
(* each step may fail, the process may die and the power may be lost.      *)
(*                                                                         *)
(* As in SessionStore a record is a revision and the saves it carries.     *)
(* The directory has two views: what the processes see, and what survives  *)
(* a loss of power, which sync_directory brings up to date.                *)
(***************************************************************************)
EXTENDS Naturals, FiniteSets, TLC

CONSTANTS
    Task,               \* tasks that use the store, each in its own process
    Id,                 \* ids of sessions
    None,
    MaxSaves,           \* bounds of the model: saves,
    MaxFaults           \* and errors and crashes, before one loss of power

ASSUME StoreAssumption ==
    None \notin Task \cup Id /\ MaxSaves \in Nat /\ MaxFaults \in Nat

VARIABLES
    files, onDisk,      \* the records: as they are seen, as they are synced
    index, indexOnDisk, \* the index: valid and what it lists, missing, invalid
    lock,               \* the task that holds the lock
    pc,                 \* where each task is
    op,                 \* its operation
    mine,               \* the records it works with
    sums,               \* the summaries it holds
    stray,              \* renames that go on although their future was dropped
    saves,              \* how many saves were begun
    acked,              \* saves that returned Ok
    born,               \* ids that were ever used
    faults,
    loose,              \* a change was left unsynced by an operation that ended early
    doubted             \* ... and the power was lost then

dir  == <<files, onDisk, index, indexOnDisk>>
book == <<saves, acked, born>>
fault == <<faults, loose, doubted>>
vars == <<dir, lock, pc, op, mine, sums, stray, book, fault>>

Save == 1..MaxSaves
Absent == [rev |-> 0, saves |-> {}]
NoOp == [kind |-> "none", id |-> None, n |-> 0]

\* A summary is as much of a record as a list shows: its revision.
Summaries(f) == [id \in Id |-> f[id].rev]
Valid(s) == [state |-> "valid", sums |-> s]
Missing == [state |-> "missing", sums |-> Summaries([id \in Id |-> Absent])]
Invalid == [Missing EXCEPT !.state = "invalid"]

Init ==
    /\ files = [id \in Id |-> Absent] /\ onDisk = files
    \* an index may be left over that an older schema has written
    /\ index \in {Missing, Invalid} /\ indexOnDisk = index
    /\ lock = None
    /\ pc = [t \in Task |-> "idle"] /\ op = [t \in Task |-> NoOp]
    /\ mine = [t \in Task |-> [id \in Id |-> Absent]]
    /\ sums = [t \in Task |-> Summaries(files)]
    /\ stray = {}
    /\ saves = 0 /\ acked = {} /\ born = {}
    /\ faults = 0 /\ loose = FALSE /\ doubted = FALSE

Goto(t, at) == pc' = [pc EXCEPT ![t] = at]

\* The record that a save of t is to write: its own with one more save in it.
Prepared(t) == LET r == mine[t][op[t].id]
               IN  [rev |-> r.rev + 1, saves |-> r.saves \cup {op[t].n}]
NewRecord(t) == IF op[t].kind = "save" THEN Prepared(t) ELSE Absent
-----------------------------------------------------------------------------
(* Callers.  A new record has an id of its own, drawn by                   *)
(* SessionId::generate; an old one is updated from what the task has.      *)

CallSave(t, id) ==
    /\ pc[t] = "idle" /\ saves < MaxSaves
    /\ mine[t][id] = Absent => id \notin born
    /\ saves' = saves + 1 /\ born' = born \cup {id}
    /\ op' = [op EXCEPT ![t] = [kind |-> "save", id |-> id, n |-> saves + 1]]
    /\ Goto(t, "wait")
    /\ UNCHANGED <<dir, lock, mine, sums, stray, acked, fault>>

CallOther(t, kind, id) ==
    /\ pc[t] = "idle"
    /\ kind = "delete" => mine[t][id] # Absent
    /\ kind = "list" => index.state # "valid"
    /\ kind = "load" => mine[t][id] # files[id]
    /\ op' = [op EXCEPT ![t] = [kind |-> kind, id |-> id, n |-> 0]]
    /\ Goto(t, "wait")
    /\ UNCHANGED <<dir, lock, mine, sums, stray, book, fault>>

\* acquire_operation_lock
LockFree_Always == TRUE                                                \* mutant
LockFree == lock = None
Acquire(t) ==
    /\ pc[t] = "wait" /\ LockFree
    /\ lock' = t
    /\ Goto(t, "locked")
    /\ UNCHANGED <<dir, op, mine, sums, stray, book, fault>>

Unlock(t) == lock' = IF lock = t THEN None ELSE lock
Return(t) == /\ Unlock(t)
             /\ Goto(t, "idle")
             /\ op' = [op EXCEPT ![t] = NoOp]
-----------------------------------------------------------------------------
(* The operations, under the lock                                          *)

Load(t) ==
    /\ pc[t] = "locked" /\ op[t].kind = "load"
    /\ mine' = [mine EXCEPT ![t][op[t].id] = files[op[t].id]]
    /\ Return(t)
    /\ UNCHANGED <<dir, sums, stray, book, fault>>

\* load_unlocked and verify_revision
Matches_Older(t) == mine[t][op[t].id].rev <= files[op[t].id].rev       \* mutant
Matches(t) == mine[t][op[t].id].rev = files[op[t].id].rev

Conflict(t) ==
    /\ pc[t] = "locked" /\ op[t].kind \in {"save", "delete"} /\ ~Matches(t)
    /\ Return(t)
    /\ UNCHANGED <<dir, mine, sums, stray, book, fault>>

\* load_summary_index_for_update: the index when it is valid, else a new one
\* from the files.  It goes before the record does.
Drops_Never(i) == FALSE                                                \* mutant
Drops(i) == i.state = "valid"
ReadIndex(t) ==
    /\ pc[t] = "locked"
    /\ op[t].kind \in {"save", "delete"} => Matches(t)
    /\ op[t].kind # "load"
    /\ sums' = [sums EXCEPT ![t] = IF index.state = "valid" THEN index.sums
                                   ELSE Summaries(files)]
    /\ IF op[t].kind = "list" /\ index.state = "valid" THEN Return(t)
       ELSE /\ Goto(t, CASE index.state = "invalid" \/ Drops(index) -> "drop index"
                         [] op[t].kind = "list" -> "put index"
                         [] OTHER -> "write")
            /\ UNCHANGED <<lock, op>>
    /\ UNCHANGED <<dir, mine, stray, book, fault>>

DropIndex(t) ==
    /\ pc[t] = "drop index"
    /\ index' = Missing
    /\ Goto(t, "sync drop")
    /\ UNCHANGED <<files, onDisk, indexOnDisk, lock, op, mine, sums, stray, book,
                   fault>>

\* sync_directory
Synced(t, next) ==
    /\ onDisk' = files /\ indexOnDisk' = index
    /\ loose' = FALSE
    /\ Goto(t, next)
Unsynced(t, next) ==                                                   \* mutant
    Goto(t, next) /\ UNCHANGED <<onDisk, indexOnDisk, loose>>
SyncsDrop(t, next) == Synced(t, next)
SyncDrop(t) ==
    /\ pc[t] = "sync drop"
    /\ SyncsDrop(t, IF op[t].kind = "list" THEN "put index" ELSE "write")
    /\ UNCHANGED <<files, index, lock, op, mine, sums, stray, book, faults, doubted>>

\* The rename of the written and synced temporary file, or the removal.
WriteRecord(t) ==
    /\ pc[t] = "write"
    /\ files' = [files EXCEPT ![op[t].id] = NewRecord(t)]
    \* what was acknowledged goes with a record that is deleted
    /\ acked' = IF op[t].kind = "save" THEN acked
                ELSE acked \ files[op[t].id].saves
    /\ Goto(t, "sync write")
    /\ UNCHANGED <<onDisk, index, indexOnDisk, lock, op, mine, sums, stray, saves,
                   born, fault>>

SyncWrite(t) ==
    /\ pc[t] = "sync write"
    /\ Synced(t, "put index")
    /\ sums' = [sums EXCEPT ![t][op[t].id] = NewRecord(t).rev]
    /\ UNCHANGED <<files, index, lock, op, mine, stray, book, faults, doubted>>

PutIndex(t) ==
    /\ pc[t] = "put index"
    /\ index' = Valid(sums[t])
    /\ Goto(t, "sync index")
    /\ UNCHANGED <<files, onDisk, indexOnDisk, lock, op, mine, sums, stray, book,
                   fault>>

SyncIndex(t) ==
    /\ pc[t] = "sync index"
    /\ onDisk' = files /\ indexOnDisk' = index /\ loose' = FALSE
    /\ IF op[t].kind = "save"
       THEN /\ acked' = acked \cup {op[t].n}
            /\ mine' = [mine EXCEPT ![t][op[t].id] = Prepared(t)]
       ELSE UNCHANGED <<acked, mine>>
    /\ Return(t)
    /\ UNCHANGED <<files, index, sums, stray, saves, born, faults, doubted>>
-----------------------------------------------------------------------------
(* Faults                                                                  *)

Fault == faults < MaxFaults /\ faults' = faults + 1

Left(t) == /\ loose' = (loose \/ pc[t] \in {"sync drop", "sync write", "sync index"})
           /\ UNCHANGED doubted

\* Any step may return an error, which ends the operation with it; of a step of
\* two parts, a rename and a sync, the first may have been done.
Error(t) ==
    /\ pc[t] \notin {"idle", "wait"} /\ Fault
    /\ Left(t)
    /\ Return(t)
    /\ UNCHANGED <<dir, mine, sums, stray, book>>

\* The process dies; the operating system releases its lock.
Crash(t) ==
    /\ pc[t] # "idle" /\ Fault /\ Left(t)
    /\ mine' = [mine EXCEPT ![t] = [id \in Id |-> Absent]]
    /\ Return(t)
    /\ UNCHANGED <<dir, sums, stray, book>>

\* Every process dies, and each entry of the directory that was not synced is
\* found in its old or its new state.
PowerLoss ==
    /\ faults <= MaxFaults /\ faults' = MaxFaults + 1      \* the last fault
    /\ doubted' = (doubted \/ loose) /\ loose' = FALSE
    /\ files' \in {f \in [Id -> {files[id] : id \in Id} \cup {onDisk[id] : id \in Id}] :
                       \A id \in Id : f[id] \in {files[id], onDisk[id]}}
    /\ index' \in {index, indexOnDisk}
    /\ onDisk' = files' /\ indexOnDisk' = index'
    /\ lock' = None
    /\ pc' = [t \in Task |-> "idle"] /\ op' = [t \in Task |-> NoOp]
    /\ mine' = [t \in Task |-> [id \in Id |-> Absent]]
    /\ UNCHANGED <<sums, stray, book>>

\* The future of a save is dropped while its rename is with the pool of blocking
\* threads: the lock goes at once, the rename is still carried out.
DropFuture(t) ==
    /\ pc[t] = "write" /\ op[t].kind = "save" /\ Fault
    /\ stray' = stray \cup {[id |-> op[t].id, record |-> Prepared(t)]}
    /\ Return(t)
    /\ UNCHANGED <<dir, mine, sums, book, loose, doubted>>

StrayRename(r) ==
    /\ r \in stray
    /\ files' = [files EXCEPT ![r.id] = r.record]
    /\ stray' = stray \ {r}
    /\ UNCHANGED <<onDisk, index, indexOnDisk, lock, pc, op, mine, sums, book,
                   fault>>
-----------------------------------------------------------------------------
Call(t) == \/ \E id \in Id : CallSave(t, id)
           \/ \E id \in Id, kind \in {"load", "delete", "list"} : CallOther(t, kind, id)
Operate(t) == \/ Load(t) \/ Conflict(t) \/ ReadIndex(t) \/ DropIndex(t) \/ SyncDrop(t)
              \/ WriteRecord(t) \/ SyncWrite(t) \/ PutIndex(t) \/ SyncIndex(t)

Next == \/ \E t \in Task : Call(t) \/ Acquire(t) \/ Operate(t)
        \/ \E t \in Task : Error(t) \/ Crash(t)
        \/ PowerLoss

Spec == Init /\ [][Next]_vars

\* The same with callers that drop the futures of their saves.
Dropped == \/ \E t \in Task : DropFuture(t)
           \/ \E r \in stray : StrayRename(r)
DroppingSpec == Init /\ [][Next \/ Dropped]_vars
-----------------------------------------------------------------------------
Locked == {t \in Task : pc[t] \notin {"idle", "wait"}}

TypeOK ==
    /\ \A id \in Id : files[id].rev \in Nat /\ files[id].saves \subseteq Save
    /\ \A i \in {index, indexOnDisk} : /\ i.state \in {"valid", "missing", "invalid"}
                                       /\ i.sums \in [Id -> Nat]
    /\ lock \in Task \cup {None}
    /\ acked \subseteq Save /\ born \subseteq Id
    /\ saves \in 0..MaxSaves /\ faults \in 0..MaxFaults + 1
    /\ loose \in BOOLEAN /\ doubted \in BOOLEAN
    \* one operation at a time, whichever process it belongs to
    /\ Locked = {lock} \ {None}

\* A save that was acknowledged is in the record for as long as there is the
\* record: no other save overwrites it, no failure loses it, power included.
NoLostSave ==
    \A n \in acked : \E id \in Id : n \in files[id].saves

\* An index that a process would believe lists the records that there are:
\* at each moment in which the lock is free, whatever failed before, unless the
\* power was lost before a change was synced that a failed operation had left.
IndexAgrees ==
    lock = None /\ ~doubted /\ index.state = "valid" => index.sums = Summaries(files)

\* The store implements the compare-and-swap that its trait promises.
Abstract == INSTANCE SessionStore WITH store <- files
Implements == Abstract!Spec

\* For TLC: neither the tasks nor the ids are told apart.
Symmetry == Permutations(Task) \cup Permutations(Id)
=============================================================================
