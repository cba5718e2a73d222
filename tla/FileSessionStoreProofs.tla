----------------------- MODULE FileSessionStoreProofs -----------------------
(***************************************************************************)
(* Theorems about FileSessionStore, for any processes, sessions and number *)
(* of saves and faults: no acknowledged save is lost, the index lists the  *)
(* records there are, and the store is the compare-and-swap of             *)
(* SessionStore.                                                           *)
(***************************************************************************)
EXTENDS FileSessionStore, TLAPS

Record == [rev : Nat, saves : SUBSET Save]
Index == [state : {"valid", "missing", "invalid"}, sums : [Id -> Nat]]
Point == {"idle", "wait", "locked", "drop index", "sync drop", "write", "sync write",
          "put index", "sync index"}
Op == {NoOp} \cup [kind : {"save"}, id : Id, n : Save]
             \cup [kind : {"load", "delete", "list"}, id : Id, n : {0}]

Types ==
    /\ files \in [Id -> Record] /\ onDisk \in [Id -> Record]
    /\ index \in Index /\ indexOnDisk \in Index
    /\ lock \in Task \cup {None}
    /\ pc \in [Task -> Point] /\ op \in [Task -> Op]
    /\ mine \in [Task -> [Id -> Record]] /\ sums \in [Task -> [Id -> Nat]]
    /\ saves \in 0..MaxSaves /\ acked \subseteq Save /\ born \subseteq Id
    /\ faults \in 0..MaxFaults + 1 /\ loose \in BOOLEAN /\ doubted \in BOOLEAN

(* The lock belongs to the one task that is past waiting for it.            *)
OneHolder ==
    /\ \A t \in Task : pc[t] \notin {"idle", "wait"} <=> lock = t
    /\ \A t \in Task : pc[t] = "idle" <=> op[t].kind = "none"
    /\ \A t \in Task :
          /\ pc[t] \in {"drop index", "sync drop", "write", "sync write", "put index", "sync index"}
                => op[t].kind \in {"save", "delete", "list"}
          /\ pc[t] \in {"write", "sync write"} => op[t].kind \in {"save", "delete"}

(* Where a save or a delete has not written yet, and where it has.          *)
Writes(t) == op[t].kind \in {"save", "delete"}
Before(t) == pc[t] \in {"drop index", "sync drop", "write"}
After(t) == pc[t] \in {"sync write", "put index", "sync index"}

(* A revision stands for one record: whoever has a record of the revision   *)
(* that is stored has that record, and nobody is ahead of what is stored.   *)
RevisionsTell ==
    /\ \A id \in Id : files[id].rev = 0 => files[id] = Absent
    /\ \A id \in Id : onDisk[id].rev = 0 => onDisk[id] = Absent
    /\ \A t \in Task, id \in Id : mine[t][id].rev = 0 => mine[t][id] = Absent
    /\ \A t \in Task, id \in Id : files[id] = Absent \/ mine[t][id].rev <= files[id].rev
    /\ \A t \in Task, id \in Id : mine[t][id].rev = files[id].rev => mine[t][id] = files[id]

(* An id is used for one new record only, by the task that drew it.         *)
IdsDrawnOnce ==
    /\ \A id \in Id : files[id] # Absent \/ onDisk[id] # Absent => id \in born
    /\ \A t \in Task, id \in Id : mine[t][id] # Absent => id \in born
    /\ \A t \in Task : op[t].kind = "save" => op[t].id \in born
    /\ \A t \in Task : op[t].kind = "delete" => mine[t][op[t].id] # Absent
    /\ \A t \in Task :
          op[t].kind = "save" /\ mine[t][op[t].id] = Absent /\ ~After(t) =>
              /\ files[op[t].id] = Absent /\ onDisk[op[t].id] = Absent
              /\ \A u \in Task : mine[u][op[t].id] = Absent
              /\ \A u \in Task \ {t} : op[u].kind = "save" => op[u].id # op[t].id

(* Under the lock the record is the one that was compared, and then the new.*)
UnderLock ==
    \A t \in Task :
        /\ Before(t) /\ Writes(t) => mine[t][op[t].id] = files[op[t].id]
        /\ After(t) /\ Writes(t) => files[op[t].id] = NewRecord(t)

(* A save has a number of its own, which is nowhere before it is written.   *)
NumbersNew ==
    /\ \A id \in Id : files[id].saves \subseteq 1..saves /\ onDisk[id].saves \subseteq 1..saves
    /\ \A t \in Task, id \in Id : mine[t][id].saves \subseteq 1..saves
    /\ \A t \in Task : op[t].kind = "save" =>
          /\ op[t].n \in 1..saves
          /\ \A u \in Task \ {t} : op[u].kind = "save" => op[u].n # op[t].n
          /\ ~After(t) =>
                /\ \A id \in Id : op[t].n \notin files[id].saves \cup onDisk[id].saves
                /\ \A u \in Task, id \in Id : op[t].n \notin mine[u][id].saves

(* What was acknowledged is seen and synced; a loss of power takes nothing  *)
(* of a record that is not in the record on disk.                           *)
AckedOnDisk ==
    /\ \A n \in acked : \E id \in Id : n \in files[id].saves /\ n \in onDisk[id].saves
    /\ \A id \in Id : files[id] = Absent \/ onDisk[id].saves \subseteq files[id].saves

RInv == Types /\ OneHolder /\ RevisionsTell /\ IdsDrawnOnce /\ UnderLock /\ NumbersNew
        /\ AckedOnDisk

------------------------------------------------------------------------------
(* The index is gone while a record changes, and what a task writes into it *)
(* is what the records say.                                                 *)
IndexGone ==
    \A t \in Task : pc[t] \in {"sync drop", "write", "sync write", "put index"}
        => index.state # "valid"
IndexTrue == ~doubted /\ index.state = "valid" => index.sums = Summaries(files)
SumsTrue ==
    ~doubted =>
        \A t \in Task :
            /\ Before(t) \/ pc[t] \in {"put index", "sync index"} => sums[t] = Summaries(files)
            /\ pc[t] = "sync write" => \A id \in Id \ {op[t].id} : sums[t][id] = files[id].rev

(* Unless an operation that failed has left something unsynced, what is not *)
(* on disk is the last change, and the index there agrees with the records. *)
Differs(at) == \E t \in Task : pc[t] \in at
OnDisk ==
    ~loose =>
        /\ onDisk = files \/ Differs({"sync write"})
        /\ indexOnDisk = index \/ Differs({"sync drop", "sync index"})
        /\ ~doubted /\ Differs({"sync drop", "sync index"}) /\ indexOnDisk.state = "valid"
              => indexOnDisk.sums = Summaries(files)

------------------------------------------------------------------------------
LEMMA PreparedType ==
    ASSUME Types, NEW t \in Task, op[t].kind = "save" PROVE Prepared(t) \in Record
<1>1. op[t] \in [kind : {"save"}, id : Id, n : Save]
  <2>1. op[t] \in Op
    BY DEF Types
  <2>2. op[t] # NoOp
    BY DEF NoOp
  <2> QED
    BY <2>1, <2>2 DEF Op
<1>2. mine[t][op[t].id] \in Record
  BY <1>1 DEF Types
<1> QED
  BY <1>1, <1>2 DEF Prepared, Record

LEMMA SummariesType == ASSUME NEW f \in [Id -> Record] PROVE Summaries(f) \in [Id -> Nat]
BY DEF Summaries, Record

LEMMA AbsentType == Absent \in Record /\ Missing \in Index
<1>1. Absent \in Record
  BY DEF Absent, Record
<1> QED
  BY <1>1 DEF Missing, Index, Summaries, Record

LEMMA TypesInit == Init => Types
<1> SUFFICES ASSUME Init PROVE Types
  OBVIOUS
<1>1. files \in [Id -> Record] /\ onDisk \in [Id -> Record] /\ mine \in [Task -> [Id -> Record]]
  BY AbsentType DEF Init
<1>2. index \in Index /\ indexOnDisk \in Index
  BY AbsentType DEF Init, Invalid, Index
<1>3. sums \in [Task -> [Id -> Nat]]
  BY <1>1, SummariesType DEF Init
<1>4. pc \in [Task -> Point] /\ op \in [Task -> Op]
  BY DEF Init, Point, Op
<1>5. loose \in BOOLEAN /\ doubted \in BOOLEAN
  BY DEF Init
<1>6. saves \in 0..MaxSaves /\ faults \in 0..MaxFaults + 1
  BY StoreAssumption DEF Init
<1> QED
  BY <1>1, <1>2, <1>3, <1>4, <1>5, <1>6 DEF Init, Types

LEMMA TypesStep == ASSUME Types, [Next]_vars PROVE Types'
<1> USE DEF Types
<1>1. CASE UNCHANGED vars
  BY <1>1 DEF vars, dir, book, fault
<1>2. ASSUME NEW t \in Task, NEW id \in Id, CallSave(t, id) PROVE Types'
  <2>1. [kind |-> "save", id |-> id, n |-> saves + 1] \in Op /\ saves + 1 \in 0..MaxSaves
    BY <1>2, StoreAssumption DEF CallSave, Op, Save
  <2> QED
    BY <1>2, <2>1 DEF CallSave, Goto, dir, fault, Point
<1>3. ASSUME NEW t \in Task, NEW id \in Id, NEW kind \in {"load", "delete", "list"},
             CallOther(t, kind, id) PROVE Types'
  <2>1. [kind |-> kind, id |-> id, n |-> 0] \in Op
    BY DEF Op
  <2> QED
    BY <1>3, <2>1 DEF CallOther, Goto, dir, book, fault, Point
<1>4. ASSUME NEW t \in Task, Acquire(t) PROVE Types'
  BY <1>4 DEF Acquire, Goto, dir, book, fault, Point
<1>5. ASSUME NEW t \in Task PROVE NoOp \in Op /\ (op[t].kind # "none" => op[t].id \in Id)
  BY DEF Op, NoOp
<1>6. ASSUME NEW t \in Task, Load(t) PROVE Types'
  <2>1. op[t].id \in Id
    BY <1>5, <1>6 DEF Load
  <2> QED
    BY <1>5, <1>6, <2>1 DEF Load, Return, Unlock, Goto, dir, book, fault, Point
<1>7. ASSUME NEW t \in Task, Conflict(t) PROVE Types'
  BY <1>5, <1>7 DEF Conflict, Return, Unlock, Goto, dir, book, fault, Point
<1>8. ASSUME NEW t \in Task, ReadIndex(t) PROVE Types'
  <2>1. sums' \in [Task -> [Id -> Nat]]
    BY <1>8, SummariesType DEF ReadIndex, Index
  <2>2. lock' \in Task \cup {None} /\ op' \in [Task -> Op] /\ pc' \in [Task -> Point]
    BY <1>5, <1>8 DEF ReadIndex, Return, Unlock, Goto, Point
  <2> QED
    BY <1>8, <2>1, <2>2 DEF ReadIndex, dir, book, fault
<1>9. ASSUME NEW t \in Task, DropIndex(t) PROVE Types'
  BY <1>9, AbsentType DEF DropIndex, Goto, book, fault, Point
<1>10. ASSUME NEW t \in Task, SyncDrop(t) PROVE Types'
  BY <1>10 DEF SyncDrop, SyncsDrop, Synced, Goto, book, fault, Point
<1>11. ASSUME NEW t \in Task, WriteRecord(t) PROVE Types'
  <2>1. NewRecord(t) \in Record
    BY AbsentType, PreparedType DEF NewRecord
  <2>2. files' \in [Id -> Record]
    BY <1>11, <2>1 DEF WriteRecord
  <2> QED
    BY <1>11, <2>2 DEF WriteRecord, Goto, fault, Point
<1>12. ASSUME NEW t \in Task, SyncWrite(t) PROVE Types'
  <2>1. NewRecord(t).rev \in Nat
    BY AbsentType, PreparedType DEF NewRecord, Record
  <2> QED
    BY <1>12, <2>1 DEF SyncWrite, Synced, Goto, book, Point
<1>13. ASSUME NEW t \in Task, PutIndex(t) PROVE Types'
  BY <1>13 DEF PutIndex, Valid, Index, Goto, book, fault, Point
<1>14. ASSUME NEW t \in Task, SyncIndex(t) PROVE Types'
  <2>1. acked' \subseteq Save /\ mine' \in [Task -> [Id -> Record]]
    <3>1. CASE op[t].kind = "save"
      <4>1. op[t].n \in Save /\ op[t].id \in Id
        BY <3>1 DEF Op, NoOp
      <4>2. mine' = [mine EXCEPT ![t][op[t].id] = Prepared(t)]
        BY <1>14, <3>1 DEF SyncIndex
      <4>3. mine' \in [Task -> [Id -> Record]]
        BY <3>1, <4>1, <4>2, PreparedType
      <4> QED
        BY <1>14, <3>1, <4>1, <4>3 DEF SyncIndex
    <3> QED
      BY <1>14, <3>1 DEF SyncIndex
  <2> QED
    BY <1>5, <1>14, <2>1 DEF SyncIndex, Return, Unlock, Goto, Point
<1>15. ASSUME NEW t \in Task, Error(t) PROVE Types'
  <2>1. loose' \in BOOLEAN /\ doubted' \in BOOLEAN
    BY <1>15 DEF Error, Left
  <2>2. faults' \in 0..MaxFaults + 1
    BY <1>15, StoreAssumption DEF Error, Fault
  <2> QED
    BY <1>5, <1>15, <2>1, <2>2 DEF Error, Return, Unlock, Goto, dir, book, Point
<1>16. ASSUME NEW t \in Task, Crash(t) PROVE Types'
  <2>1. loose' \in BOOLEAN /\ doubted' \in BOOLEAN
    BY <1>16 DEF Crash, Left
  <2>2. faults' \in 0..MaxFaults + 1
    BY <1>16, StoreAssumption DEF Crash, Fault
  <2>3. mine' \in [Task -> [Id -> Record]]
    BY <1>16, AbsentType DEF Crash
  <2> QED
    BY <1>5, <1>16, <2>1, <2>2, <2>3 DEF Crash, Return, Unlock, Goto, dir, book, Point
<1>17. CASE PowerLoss
  <2>1. files' \in [Id -> Record]
    BY <1>17 DEF PowerLoss
  <2>2. loose' \in BOOLEAN /\ doubted' \in BOOLEAN
    BY <1>17 DEF PowerLoss
  <2>3. faults' \in 0..MaxFaults + 1
    BY <1>17, StoreAssumption DEF PowerLoss
  <2>4. mine' \in [Task -> [Id -> Record]]
    BY <1>17, AbsentType DEF PowerLoss
  <2> QED
    BY <1>17, <2>1, <2>2, <2>3, <2>4 DEF PowerLoss, book, Op, Point
<1> QED
  BY <1>1, <1>2, <1>3, <1>4, <1>6, <1>7, <1>8, <1>9, <1>10, <1>11, <1>12, <1>13, <1>14, <1>15,
     <1>16, <1>17 DEF Next, Call, Operate

------------------------------------------------------------------------------
(* The lock                                                                 *)

LEMMA HolderInit == Init => OneHolder
BY StoreAssumption DEF Init, OneHolder, NoOp

\* A task that returns gives the lock back, and nobody else has it.
LEMMA HolderReturns ==
    ASSUME Types, OneHolder, NEW t \in Task, pc[t] # "idle", Return(t) PROVE OneHolder'
BY StoreAssumption DEF Types, OneHolder, Return, Unlock, Goto, NoOp

LEMMA OpKinds ==
    ASSUME Types, NEW t \in Task
    PROVE  /\ op[t].kind \in {"none", "save", "load", "delete", "list"}
           /\ op[t].kind # "none" => op[t].id \in Id
           /\ op[t].kind = "save" => op[t].n \in Save
<1>1. op[t] \in Op
  BY DEF Types
<1> QED
  BY <1>1 DEF Op, NoOp

LEMMA HolderStep == ASSUME Types, OneHolder, [Next]_vars PROVE OneHolder'
<1> USE StoreAssumption DEF Types, OneHolder
<1>1. CASE UNCHANGED vars
  BY <1>1 DEF vars
<1>2. ASSUME NEW t \in Task, NEW id \in Id, CallSave(t, id) PROVE OneHolder'
  BY <1>2 DEF CallSave, Goto
<1>3. ASSUME NEW t \in Task, NEW id \in Id, NEW kind \in {"load", "delete", "list"},
             CallOther(t, kind, id) PROVE OneHolder'
  BY <1>3 DEF CallOther, Goto
<1>4. ASSUME NEW t \in Task, Acquire(t) PROVE OneHolder'
  BY <1>4 DEF Acquire, LockFree, Goto
<1>5. ASSUME NEW t \in Task, Load(t) \/ Conflict(t) \/ SyncIndex(t) \/ Error(t) \/ Crash(t)
      PROVE OneHolder'
  BY <1>5, HolderReturns DEF Load, Conflict, SyncIndex, Error, Crash
<1>6. ASSUME NEW t \in Task, ReadIndex(t) PROVE OneHolder'
  <2>1. CASE op[t].kind = "list" /\ index.state = "valid"
    BY <1>6, <2>1, HolderReturns DEF ReadIndex
  <2>2. CASE ~(op[t].kind = "list" /\ index.state = "valid")
    <3>1. op[t].kind \in {"save", "delete", "list"}
      BY <1>6, OpKinds DEF ReadIndex
    <3> QED
      BY <1>6, <2>2, <3>1 DEF ReadIndex, Goto
  <2> QED
    BY <2>1, <2>2
<1>7. ASSUME NEW t \in Task, DropIndex(t) \/ WriteRecord(t) \/ PutIndex(t) PROVE OneHolder'
  <2>1. CASE DropIndex(t)
    BY <2>1 DEF DropIndex, Goto
  <2>2. CASE WriteRecord(t)
    BY <2>2 DEF WriteRecord, Goto
  <2>3. CASE PutIndex(t)
    BY <2>3 DEF PutIndex, Goto
  <2> QED
    BY <1>7, <2>1, <2>2, <2>3
<1>8. ASSUME NEW t \in Task, SyncDrop(t) PROVE OneHolder'
  BY <1>8 DEF SyncDrop, SyncsDrop, Synced, Goto
<1>9. ASSUME NEW t \in Task, SyncWrite(t) PROVE OneHolder'
  BY <1>9 DEF SyncWrite, Synced, Goto
<1>10. CASE PowerLoss
  <2>1. \A t \in Task : pc'[t] = "idle" /\ op'[t].kind = "none" /\ lock' # t
    BY <1>10 DEF PowerLoss, NoOp
  <2> QED
    BY <2>1
<1> HIDE DEF Types, OneHolder
<1> QED
  BY <1>1, <1>2, <1>3, <1>4, <1>5, <1>6, <1>7, <1>8, <1>9, <1>10 DEF Next, Call, Operate

------------------------------------------------------------------------------
(* The records.  What is kept of them does not depend on the index, and of  *)
(* the place of a task only on whether it has written.                      *)
RParts == RevisionsTell /\ IdsDrawnOnce /\ UnderLock /\ NumbersNew /\ AckedOnDisk

LEMMA RecordsInit == Init => RParts
BY DEF Init, RParts, RevisionsTell, IdsDrawnOnce, UnderLock, NumbersNew, AckedOnDisk, Absent,
   NoOp, Before, After, Writes

LEMMA AbsentFields == Absent \in Record /\ Absent.rev = 0 /\ Absent.saves = {}
BY DEF Absent, Record

LEMMA RecordFields ==
    ASSUME Types, NEW id \in Id
    PROVE  /\ files[id] \in Record /\ onDisk[id] \in Record
           /\ files[id].rev \in Nat /\ onDisk[id].rev \in Nat
           /\ \A t \in Task : mine[t][id] \in Record /\ mine[t][id].rev \in Nat
BY DEF Types, Record

\* A task goes on without writing.
LEMMA RecordsStay ==
    ASSUME RInv, NEW t \in Task, NEW at \in Point, Goto(t, at),
           \/ at = "locked" /\ pc[t] = "wait"
           \/ at \in {"drop index", "sync drop", "write"} /\ Before(t)
           \/ at \in {"sync write", "put index", "sync index"} /\ (After(t) \/ ~Writes(t)),
           UNCHANGED <<files, op, mine, saves, acked, born>>, onDisk' \in {onDisk, files}
    PROVE  RParts'
<1>0. Types /\ RevisionsTell /\ IdsDrawnOnce /\ UnderLock /\ NumbersNew /\ AckedOnDisk
  BY DEF RInv
<1>1. pc'[t] = at /\ \A u \in Task : u # t => pc'[u] = pc[u]
  BY <1>0 DEF Goto, Types
<1>2. \A u \in Task : u # t => (After(u)' <=> After(u)) /\ (Before(u)' <=> Before(u))
  BY <1>1 DEF Before, After
<1>3. (Before(t)' => Before(t)) /\ (~After(t)' => ~After(t))
  BY <1>1 DEF Before, After
<1>4. After(t)' /\ Writes(t) => After(t)
  BY <1>1 DEF Before, After
<1>5. RevisionsTell'
  BY <1>0 DEF RevisionsTell
<1>6. IdsDrawnOnce'
  BY <1>0, <1>2, <1>3 DEF IdsDrawnOnce
<1>7. UnderLock'
  BY <1>0, <1>2, <1>3, <1>4 DEF UnderLock, NewRecord, Prepared, Writes
<1>8. NumbersNew'
  BY <1>0, <1>2, <1>3 DEF NumbersNew
<1>9. AckedOnDisk'
  BY <1>0 DEF AckedOnDisk
<1> QED
  BY <1>5, <1>6, <1>7, <1>8, <1>9 DEF RParts

\* A task returns: what it has of the records is as before, gone, or what is stored.
LEMMA RecordsReturn ==
    ASSUME RInv, NEW t \in Task, pc[t] # "idle", Return(t),
           UNCHANGED <<files, saves, born>>, onDisk' \in {onDisk, files},
           \A u \in Task, id \in Id : \/ mine'[u][id] = mine[u][id]
                                      \/ u = t /\ mine'[u][id] \in {Absent, files[id]},
           \/ acked' = acked
           \/ /\ After(t) /\ op[t].kind = "save" /\ onDisk' = files
              /\ acked' = acked \cup {op[t].n}
    PROVE  RParts'
<1>0. Types /\ RevisionsTell /\ IdsDrawnOnce /\ UnderLock /\ NumbersNew /\ AckedOnDisk
  BY DEF RInv
<1>1. /\ \A u \in Task : u # t => op'[u] = op[u] /\ pc'[u] = pc[u]
      /\ op'[t] = NoOp /\ pc'[t] = "idle"
  BY <1>0 DEF Return, Goto, Types
<1>2. \A u \in Task : u # t => (After(u)' <=> After(u)) /\ (Before(u)' <=> Before(u))
  BY <1>1 DEF Before, After
<1>3. ~After(t)' /\ ~Before(t)' /\ op'[t].kind = "none"
  <2>1. NoOp.kind = "none"
    BY DEF NoOp
  <2> QED
    BY <1>1, <2>1 DEF Before, After
<1>4. RevisionsTell'
  BY <1>0, AbsentFields, RecordFields DEF RevisionsTell
<1>5. IdsDrawnOnce'
  <2>1. \A id \in Id : files[id] # Absent \/ onDisk[id] # Absent => id \in born
    BY <1>0 DEF IdsDrawnOnce
  <2>2. \A u \in Task, id \in Id : mine'[u][id] # Absent => id \in born
    BY <1>0, <2>1 DEF IdsDrawnOnce
  <2>3. ASSUME NEW u \in Task, op'[u].kind = "save" PROVE u # t /\ op'[u] = op[u] /\ op[u].id \in Id
    BY <2>3, <1>0, <1>1, <1>3, OpKinds
  <2>4. ASSUME NEW u \in Task, op'[u].kind = "delete"
        PROVE  u # t /\ op'[u] = op[u] /\ op[u].id \in Id /\ mine'[u][op[u].id] # Absent
    BY <2>4, <1>0, <1>1, <1>3, OpKinds DEF IdsDrawnOnce
  <2>5. ASSUME NEW u \in Task, op'[u].kind = "save", mine'[u][op'[u].id] = Absent, ~After(u)'
        PROVE  /\ files[op[u].id] = Absent /\ onDisk'[op[u].id] = Absent
               /\ \A v \in Task : mine'[v][op[u].id] = Absent
               /\ \A v \in Task \ {u} : op'[v].kind = "save" => op'[v].id # op[u].id
               /\ op'[u].id = op[u].id
    BY <2>5, <2>3, <1>0, <1>1, <1>2 DEF IdsDrawnOnce
  <2> QED
    <3>1. \A u \in Task : op'[u].kind = "save" => op'[u].id \in born
      BY <1>0, <2>3 DEF IdsDrawnOnce
    <3> QED
      BY <2>1, <2>2, <2>4, <2>5, <3>1 DEF IdsDrawnOnce
<1>6. UnderLock'
  BY <1>0, <1>1, <1>2, <1>3, OpKinds DEF UnderLock, NewRecord, Prepared, Writes
<1>7. NumbersNew'
  <2>1. \A id \in Id : files[id].saves \subseteq 1..saves /\ onDisk'[id].saves \subseteq 1..saves
    BY <1>0 DEF NumbersNew
  <2>2. \A u \in Task, id \in Id : mine'[u][id].saves \subseteq 1..saves
    BY <1>0, AbsentFields DEF NumbersNew
  <2>3. ASSUME NEW u \in Task, op'[u].kind = "save"
        PROVE  /\ op'[u].n \in 1..saves
               /\ \A v \in Task \ {u} : op'[v].kind = "save" => op'[v].n # op'[u].n
    BY <2>3, <1>0, <1>1, <1>3 DEF NumbersNew
  <2>4. ASSUME NEW u \in Task, op'[u].kind = "save", ~After(u)'
        PROVE  /\ \A id \in Id : op'[u].n \notin files[id].saves \cup onDisk'[id].saves
               /\ \A v \in Task, id \in Id : op'[u].n \notin mine'[v][id].saves
    BY <2>4, <1>0, <1>1, <1>2, <1>3, AbsentFields DEF NumbersNew
  <2> QED
    BY <2>1, <2>2, <2>3, <2>4 DEF NumbersNew
<1>8. AckedOnDisk'
  <2>1. \A id \in Id : files[id] = Absent \/ onDisk'[id].saves \subseteq files[id].saves
    BY <1>0 DEF AckedOnDisk
  <2>2. ASSUME NEW n \in acked'
        PROVE  \E id \in Id : n \in files[id].saves /\ n \in onDisk'[id].saves
    <3>1. CASE n \in acked
      BY <1>0, <3>1 DEF AckedOnDisk
    <3>2. CASE n \notin acked
      <4>1. After(t) /\ op[t].kind = "save" /\ onDisk' = files /\ n = op[t].n
        BY <3>2
      <4>2. files[op[t].id] = Prepared(t) /\ op[t].id \in Id
        BY <1>0, <4>1, OpKinds DEF UnderLock, NewRecord, Writes
      <4>3. n \in files[op[t].id].saves
        BY <4>1, <4>2 DEF Prepared
      <4> QED
        BY <4>1, <4>2, <4>3
    <3> QED
      BY <3>1, <3>2
  <2> QED
    BY <2>1, <2>2 DEF AckedOnDisk
<1> QED
  BY <1>4, <1>5, <1>6, <1>7, <1>8 DEF RParts

\* A save is called for a record the task has, or with an id that nobody ever had.
LEMMA RecordsCallSave ==
    ASSUME RInv, NEW t \in Task, NEW i \in Id, CallSave(t, i) PROVE RParts'
<1>0. Types /\ RevisionsTell /\ IdsDrawnOnce /\ UnderLock /\ NumbersNew /\ AckedOnDisk
  BY DEF RInv
<1>1. /\ \A u \in Task : u # t => op'[u] = op[u] /\ pc'[u] = pc[u]
      /\ op'[t].kind = "save" /\ op'[t].id = i /\ op'[t].n = saves + 1 /\ pc'[t] = "wait"
      /\ born' = born \cup {i} /\ saves' = saves + 1 /\ saves \in Nat
      /\ mine[t][i] = Absent => i \notin born
      /\ UNCHANGED <<files, onDisk, mine, acked>>
  BY <1>0 DEF CallSave, Goto, Types, dir
<1>2. \A u \in Task : u # t => (After(u)' <=> After(u)) /\ (Before(u)' <=> Before(u))
  BY <1>1 DEF Before, After
<1>3. ~After(t)' /\ ~Before(t)'
  BY <1>1 DEF Before, After
<1>4. RevisionsTell'
  BY <1>0, <1>1 DEF RevisionsTell
<1>5. IdsDrawnOnce'
  <2>1. /\ \A id \in Id : files[id] # Absent \/ onDisk[id] # Absent => id \in born'
        /\ \A u \in Task, id \in Id : mine[u][id] # Absent => id \in born'
        /\ \A u \in Task : op'[u].kind = "save" => op'[u].id \in born'
        /\ \A u \in Task : op'[u].kind = "delete" => mine[u][op'[u].id] # Absent
    BY <1>0, <1>1 DEF IdsDrawnOnce
  <2>2. ASSUME NEW u \in Task, op'[u].kind = "save", mine[u][op'[u].id] = Absent, ~After(u)'
        PROVE  /\ files[op'[u].id] = Absent /\ onDisk[op'[u].id] = Absent
               /\ \A v \in Task : mine[v][op'[u].id] = Absent
               /\ \A v \in Task \ {u} : op'[v].kind = "save" => op'[v].id # op'[u].id
    <3>1. CASE u = t
      BY <3>1, <2>2, <1>0, <1>1 DEF IdsDrawnOnce
    <3>2. CASE u # t
      <4>1. op'[u] = op[u] /\ op[u].id \in born /\ ~After(u)
        BY <3>2, <2>2, <1>0, <1>1, <1>2 DEF IdsDrawnOnce
      <4>2. mine[t][op[u].id] = Absent
        BY <4>1, <2>2, <1>0 DEF IdsDrawnOnce
      <4>3. op[u].id # i
        BY <4>1, <4>2, <1>1
      <4> QED
        BY <3>2, <4>1, <4>3, <2>2, <1>0, <1>1 DEF IdsDrawnOnce
    <3> QED
      BY <3>1, <3>2
  <2> QED
    BY <2>1, <2>2, <1>1 DEF IdsDrawnOnce
<1>6. UnderLock'
  BY <1>0, <1>1, <1>2, <1>3, OpKinds DEF UnderLock, NewRecord, Prepared, Writes
<1>7. NumbersNew'
  <2>1. /\ \A id \in Id : files[id].saves \subseteq 1..saves' /\ onDisk[id].saves \subseteq 1..saves'
        /\ \A u \in Task, id \in Id : mine[u][id].saves \subseteq 1..saves'
    BY <1>0, <1>1 DEF NumbersNew
  <2>2. \A u \in Task : u # t /\ op[u].kind = "save" => op[u].n \in 1..saves
    BY <1>0 DEF NumbersNew
  <2>3. \A id \in Id : /\ saves + 1 \notin files[id].saves \cup onDisk[id].saves
                       /\ \A u \in Task : saves + 1 \notin mine[u][id].saves
    BY <1>0, <1>1 DEF NumbersNew
  <2>4. ASSUME NEW u \in Task, op'[u].kind = "save"
        PROVE  /\ op'[u].n \in 1..saves'
               /\ \A v \in Task \ {u} : op'[v].kind = "save" => op'[v].n # op'[u].n
               /\ ~After(u)' => /\ \A id \in Id : op'[u].n \notin files[id].saves \cup onDisk[id].saves
                                /\ \A v \in Task, id \in Id : op'[u].n \notin mine[v][id].saves
    <3>1. CASE u = t
      BY <3>1, <2>2, <2>3, <1>1
    <3>2. CASE u # t
      BY <3>2, <2>2, <2>4, <1>0, <1>1, <1>2 DEF NumbersNew
    <3> QED
      BY <3>1, <3>2
  <2> QED
    BY <2>1, <2>4, <1>1 DEF NumbersNew
<1>8. AckedOnDisk'
  BY <1>0, <1>1 DEF AckedOnDisk
<1> QED
  BY <1>4, <1>5, <1>6, <1>7, <1>8 DEF RParts

LEMMA RecordsCallOther ==
    ASSUME RInv, NEW t \in Task, NEW i \in Id, NEW kind \in {"load", "delete", "list"},
           CallOther(t, kind, i)
    PROVE  RParts'
<1>0. Types /\ RevisionsTell /\ IdsDrawnOnce /\ UnderLock /\ NumbersNew /\ AckedOnDisk
  BY DEF RInv
<1>1. /\ \A u \in Task : u # t => op'[u] = op[u] /\ pc'[u] = pc[u]
      /\ op'[t].kind = kind /\ op'[t].id = i /\ pc'[t] = "wait"
      /\ kind = "delete" => mine[t][i] # Absent
      /\ UNCHANGED <<files, onDisk, mine, acked, born, saves>>
  BY <1>0 DEF CallOther, Goto, Types, dir, book
<1>2. \A u \in Task : u # t => (After(u)' <=> After(u)) /\ (Before(u)' <=> Before(u))
  BY <1>1 DEF Before, After
<1>3. ~After(t)' /\ ~Before(t)' /\ op'[t].kind # "save"
  BY <1>1 DEF Before, After
<1>4. RevisionsTell'
  BY <1>0, <1>1 DEF RevisionsTell
<1>5. IdsDrawnOnce'
  BY <1>0, <1>1, <1>2, <1>3 DEF IdsDrawnOnce
<1>6. UnderLock'
  BY <1>0, <1>1, <1>2, <1>3, OpKinds DEF UnderLock, NewRecord, Prepared, Writes
<1>7. NumbersNew'
  BY <1>0, <1>1, <1>2, <1>3 DEF NumbersNew
<1>8. AckedOnDisk'
  BY <1>0, <1>1 DEF AckedOnDisk
<1> QED
  BY <1>4, <1>5, <1>6, <1>7, <1>8 DEF RParts

\* What the lock and the comparison are worth: the record that is replaced is the one the
\* new record was made of.
LEMMA WritesOnWhatWas ==
    ASSUME RInv, NEW t \in Task, WriteRecord(t)
    PROVE  /\ op[t].id \in Id /\ mine[t][op[t].id] = files[op[t].id]
           /\ files' = [files EXCEPT ![op[t].id] = NewRecord(t)]
           /\ \/ /\ op[t].kind = "save" /\ NewRecord(t).rev = files[op[t].id].rev + 1
                 /\ NewRecord(t).saves = files[op[t].id].saves \cup {op[t].n}
                 /\ op[t].n \in Save /\ acked' = acked
              \/ /\ op[t].kind = "delete" /\ NewRecord(t) = Absent
                 /\ files[op[t].id] # Absent /\ acked' = acked \ files[op[t].id].saves
<1>0. Types /\ OneHolder /\ UnderLock /\ IdsDrawnOnce
  BY DEF RInv
<1>1. op[t].kind \in {"save", "delete"} /\ Before(t) /\ Writes(t)
  BY <1>0 DEF WriteRecord, OneHolder, Before, Writes
<1>2. op[t].id \in Id /\ (op[t].kind = "save" => op[t].n \in Save)
  BY <1>0, <1>1, OpKinds
<1>3. mine[t][op[t].id] = files[op[t].id]
  BY <1>0, <1>1 DEF UnderLock
<1> QED
  BY <1>0, <1>1, <1>2, <1>3 DEF WriteRecord, NewRecord, Prepared, IdsDrawnOnce

LEMMA RecordsWrite == ASSUME RInv, NEW t \in Task, WriteRecord(t) PROVE RParts'
<1>0. Types /\ OneHolder /\ RevisionsTell /\ IdsDrawnOnce /\ UnderLock /\ NumbersNew /\ AckedOnDisk
  BY DEF RInv
<1> DEFINE i == op[t].id
           r == NewRecord(t)
<1>1. /\ i \in Id /\ mine[t][i] = files[i]
      /\ \A id \in Id : files'[id] = IF id = i THEN r ELSE files[id]
      /\ UNCHANGED <<onDisk, op, mine, saves, born>>
      /\ \A u \in Task : u # t => pc'[u] = pc[u]
      /\ pc[t] = "write" /\ pc'[t] = "sync write"
  BY <1>0, WritesOnWhatWas DEF WriteRecord, Goto, Types
<1>2. /\ \A u \in Task : u # t => (After(u)' <=> After(u)) /\ (Before(u)' <=> Before(u))
      /\ \A u \in Task : u # t => ~After(u) /\ ~Before(u)
      /\ ~After(t) /\ After(t)' /\ ~Before(t)'
  <2>1. lock = t /\ \A u \in Task : u # t => pc[u] \in {"idle", "wait"}
    <3>1. lock = t
      BY <1>0, <1>1 DEF OneHolder
    <3>2. \A u \in Task : u # t => lock # u
      BY <3>1
    <3> QED
      BY <3>1, <3>2, <1>0 DEF OneHolder
  <2>2. \A u \in Task : u # t => (After(u)' <=> After(u)) /\ (Before(u)' <=> Before(u))
    BY <1>1 DEF Before, After
  <2>3. \A u \in Task : u # t => ~After(u) /\ ~Before(u)
    BY <2>1 DEF Before, After
  <2>4. ~After(t) /\ After(t)' /\ ~Before(t)'
    BY <1>1 DEF Before, After
  <2> QED
    BY <2>2, <2>3, <2>4
<1>r. files[i].rev \in Nat /\ \A u \in Task : mine[u][i].rev \in Nat
  <2> HIDE DEF i
  <2> QED
    BY <1>0, <1>1, RecordFields
<1>3. \/ /\ op[t].kind = "save" /\ r.rev = files[i].rev + 1 /\ r.saves = files[i].saves \cup {op[t].n}
         /\ op[t].n \in 1..saves /\ acked' = acked
      \/ /\ op[t].kind = "delete" /\ r = Absent /\ acked' = acked \ files[i].saves
  BY <1>0, WritesOnWhatWas DEF NumbersNew
<1> HIDE DEF r
<1>4. RevisionsTell'
  <2>1. \A id \in Id : onDisk[id].rev = 0 => onDisk[id] = Absent
    BY <1>0 DEF RevisionsTell
  <2>2. \A u \in Task, id \in Id : mine[u][id].rev = 0 => mine[u][id] = Absent
    BY <1>0 DEF RevisionsTell
  <2>3. r.rev = 0 => r = Absent
    BY <1>3, <1>r
  <2>4. ASSUME NEW u \in Task
        PROVE  (r = Absent \/ mine[u][i].rev <= r.rev) /\ (mine[u][i].rev = r.rev => mine[u][i] = r)
    <3>1. CASE op[t].kind = "save"
      <4>1. mine[u][i].rev <= files[i].rev
        <5>1. CASE files[i] = Absent
          <6>1. mine[u][i] = Absent
            BY <5>1, <3>1, <1>0, <1>1, <1>2 DEF IdsDrawnOnce
          <6>2. mine[u][i].rev = 0 /\ files[i].rev = 0
            BY <5>1, <6>1, AbsentFields
          <6> QED
            BY <6>2
        <5>2. CASE files[i] # Absent
          BY <5>2, <1>0, <1>1 DEF RevisionsTell
        <5> QED
          BY <5>1, <5>2
      <4>2. r.rev = files[i].rev + 1
        BY <3>1, <1>3
      <4> HIDE DEF i
      <4> QED
        BY <4>1, <4>2, <1>r
    <3>2. CASE op[t].kind = "delete"
      BY <3>2, <2>2, <1>1, <1>3, AbsentFields
    <3> QED
      BY <3>1, <3>2, <1>3
  <2>5. \A id \in Id : files[id].rev = 0 => files[id] = Absent
    BY <1>0 DEF RevisionsTell
  <2>6. \A u \in Task, id \in Id :
           /\ files[id] = Absent \/ mine[u][id].rev <= files[id].rev
           /\ mine[u][id].rev = files[id].rev => mine[u][id] = files[id]
    BY <1>0 DEF RevisionsTell
  <2> HIDE DEF i
  <2>7. \A u \in Task, id \in Id :
           /\ files'[id] = Absent \/ mine[u][id].rev <= files'[id].rev
           /\ mine[u][id].rev = files'[id].rev => mine[u][id] = files'[id]
    BY <2>4, <2>6, <1>1
  <2>8. \A id \in Id : files'[id].rev = 0 => files'[id] = Absent
    BY <2>3, <2>5, <1>1
  <2> QED
    BY <2>1, <2>2, <2>7, <2>8, <1>1 DEF RevisionsTell
<1>5. IdsDrawnOnce'
  <2>1. i \in born
    BY <1>0, <1>1, <1>3 DEF IdsDrawnOnce
  <2>2. \A id \in Id : files'[id] # Absent \/ onDisk[id] # Absent => id \in born
    BY <2>1, <1>0, <1>1 DEF IdsDrawnOnce
  <2>3. ASSUME NEW u \in Task, op[u].kind = "save", mine[u][op[u].id] = Absent, ~After(u)'
        PROVE  /\ files'[op[u].id] = Absent /\ onDisk[op[u].id] = Absent
               /\ \A v \in Task : mine[v][op[u].id] = Absent
               /\ \A v \in Task \ {u} : op[v].kind = "save" => op[v].id # op[u].id
    <3>1. u # t /\ ~After(u) /\ op[u].id \in Id
      BY <2>3, <1>0, <1>2, OpKinds
    <3>2. op[u].id = i => r = Absent
      BY <3>1, <2>3, <1>0, <1>3 DEF IdsDrawnOnce
    <3> QED
      BY <3>1, <3>2, <2>3, <1>0, <1>1 DEF IdsDrawnOnce
  <2> QED
    BY <2>2, <2>3, <1>0, <1>1 DEF IdsDrawnOnce
<1>6. UnderLock'
  <2>1. files'[i] = NewRecord(t)'
    BY <1>1 DEF r, NewRecord, Prepared
  <2> QED
    BY <2>1, <1>0, <1>1, <1>2 DEF UnderLock, Writes
<1>7. NumbersNew'
  <2>1. \A id \in Id : files'[id].saves \subseteq 1..saves
    <3>1. r.saves \subseteq 1..saves
      <4>1. files[i].saves \subseteq 1..saves
        BY <1>0, <1>1 DEF NumbersNew
      <4> HIDE DEF i
      <4> QED
        BY <4>1, <1>3, AbsentFields
    <3>2. \A id \in Id : files[id].saves \subseteq 1..saves
      BY <1>0 DEF NumbersNew
    <3> HIDE DEF i
    <3> QED
      BY <3>1, <3>2, <1>1
  <2>2. ASSUME NEW u \in Task, op[u].kind = "save", ~After(u)'
        PROVE  \A id \in Id : op[u].n \notin files'[id].saves
    <3>1. u # t /\ ~After(u)
      BY <2>2, <1>2
    <3>2. op[u].n \notin r.saves
      <4>1. op[u].n \notin files[i].saves /\ (op[t].kind = "save" => op[u].n # op[t].n)
        BY <3>1, <2>2, <1>0, <1>1 DEF NumbersNew
      <4> QED
        BY <4>1, <1>3, AbsentFields
    <3> QED
      BY <3>1, <3>2, <2>2, <1>0, <1>1 DEF NumbersNew
  <2> QED
    BY <2>1, <2>2, <1>0, <1>1, <1>2 DEF NumbersNew
<1>8. AckedOnDisk'
  <2>1. ASSUME NEW n \in acked'
        PROVE  \E id \in Id : n \in files'[id].saves /\ n \in onDisk[id].saves
    <3>1. n \in acked /\ (op[t].kind = "delete" => n \notin files[i].saves)
      BY <2>1, <1>3
    <3>2. PICK id \in Id : n \in files[id].saves /\ n \in onDisk[id].saves
      BY <3>1, <1>0 DEF AckedOnDisk
    <3>3. n \in files'[id].saves
      BY <3>1, <3>2, <1>1, <1>3
    <3> QED
      BY <3>2, <3>3
  <2>2. files'[i] = Absent \/ onDisk[i].saves \subseteq files'[i].saves
    <3>1. CASE op[t].kind = "delete"
      BY <3>1, <1>1, <1>3
    <3>2. CASE op[t].kind = "save" /\ files[i] = Absent
      <4>1. onDisk[i] = Absent
        BY <3>2, <1>0, <1>1, <1>2 DEF IdsDrawnOnce
      <4> QED
        BY <4>1, AbsentFields
    <3>3. CASE op[t].kind = "save" /\ files[i] # Absent
      BY <3>3, <1>0, <1>1, <1>3 DEF AckedOnDisk
    <3> QED
      BY <3>1, <3>2, <3>3, <1>3
  <2> QED
    BY <2>1, <2>2, <1>0, <1>1 DEF AckedOnDisk
<1> QED
  BY <1>4, <1>5, <1>6, <1>7, <1>8 DEF RParts

\* A loss of power leaves of each record what is seen or what is on disk.
LEMMA RecordsPowerLoss == ASSUME RInv, PowerLoss PROVE RParts'
<1>0. Types /\ RevisionsTell /\ IdsDrawnOnce /\ NumbersNew /\ AckedOnDisk
  BY DEF RInv
<1>1. /\ \A id \in Id : files'[id] \in {files[id], onDisk[id]}
      /\ onDisk' = files'
      /\ \A u \in Task, id \in Id : mine'[u][id] = Absent
      /\ \A u \in Task : op'[u].kind = "none" /\ ~Before(u)' /\ ~After(u)'
      /\ UNCHANGED <<saves, acked, born>>
  BY <1>0 DEF PowerLoss, NoOp, Before, After, book
<1>2. RevisionsTell'
  BY <1>0, <1>1, AbsentFields, RecordFields DEF RevisionsTell
<1>3. IdsDrawnOnce'
  BY <1>0, <1>1 DEF IdsDrawnOnce
<1>4. UnderLock'
  BY <1>1 DEF UnderLock
<1>5. NumbersNew'
  BY <1>0, <1>1, AbsentFields DEF NumbersNew
<1>6. AckedOnDisk'
  BY <1>0, <1>1 DEF AckedOnDisk
<1> QED
  BY <1>2, <1>3, <1>4, <1>5, <1>6 DEF RParts

\* The comparison of the revisions is one of the records.
LEMMA RecordsMatched ==
    ASSUME RInv, NEW t \in Task, pc[t] = "locked",
           op[t].kind \in {"save", "delete"} => Matches(t),
           NEW at \in {"drop index", "write", "put index"}, at = "put index" => ~Writes(t),
           Goto(t, at), UNCHANGED <<files, onDisk, op, mine, saves, acked, born>>
    PROVE  RParts'
<1>0. Types /\ RevisionsTell /\ IdsDrawnOnce /\ UnderLock /\ NumbersNew /\ AckedOnDisk
  BY DEF RInv
<1>1. /\ \A u \in Task : u # t => pc'[u] = pc[u]
      /\ pc'[t] = at
  BY <1>0 DEF Goto, Types
<1>2. /\ \A u \in Task : u # t => (After(u)' <=> After(u)) /\ (Before(u)' <=> Before(u))
      /\ ~After(t) /\ (Writes(t) => ~After(t)')
  BY <1>1 DEF Before, After
<1>3. Writes(t) => mine[t][op[t].id] = files[op[t].id]
  BY <1>0, OpKinds DEF Matches, RevisionsTell, Writes
<1>4. RevisionsTell'
  BY <1>0 DEF RevisionsTell
<1>5. IdsDrawnOnce'
  BY <1>0, <1>2 DEF IdsDrawnOnce, Writes
<1>6. UnderLock'
  BY <1>0, <1>2, <1>3 DEF UnderLock, NewRecord, Prepared, Writes
<1>7. NumbersNew'
  BY <1>0, <1>2 DEF NumbersNew, Writes
<1>8. AckedOnDisk'
  BY <1>0 DEF AckedOnDisk
<1> QED
  BY <1>4, <1>5, <1>6, <1>7, <1>8 DEF RParts

\* Every step: the record of a task is what was stored when it compared revisions.
LEMMA RecordsStep == ASSUME RInv, [Next]_vars PROVE RParts'
<1>0. Types /\ OneHolder /\ RevisionsTell /\ IdsDrawnOnce /\ UnderLock /\ NumbersNew /\ AckedOnDisk
  BY DEF RInv
<1>1. CASE UNCHANGED vars
  <2>1. UNCHANGED <<files, onDisk, pc, op, mine, saves, acked, born>>
    BY <1>1 DEF vars, dir, book
  <2>2. RevisionsTell'
    BY <1>0, <2>1 DEF RevisionsTell
  <2>3. IdsDrawnOnce'
    BY <1>0, <2>1 DEF IdsDrawnOnce, After
  <2>4. UnderLock'
    BY <1>0, <2>1 DEF UnderLock, NewRecord, Prepared, Before, After, Writes
  <2>5. NumbersNew'
    BY <1>0, <2>1 DEF NumbersNew, After
  <2>6. AckedOnDisk'
    BY <1>0, <2>1 DEF AckedOnDisk
  <2> QED
    BY <2>2, <2>3, <2>4, <2>5, <2>6 DEF RParts
<1>2. ASSUME NEW t \in Task, Acquire(t) PROVE RParts'
  <2>1. Goto(t, "locked") /\ pc[t] = "wait"
    BY <1>2 DEF Acquire
  <2>2. UNCHANGED <<files, onDisk, op, mine, saves, acked, born>>
    BY <1>2 DEF Acquire, dir, book
  <2> DEFINE at == "locked"
  <2>3. at \in Point /\ at = "locked" /\ Goto(t, at)
    BY <2>1 DEF Point
  <2> HIDE DEF at
  <2> QED
    BY <2>1, <2>2, <2>3, RecordsStay
<1>3. ASSUME NEW t \in Task, Load(t) PROVE RParts'
  <2>1. op[t].id \in Id /\ pc[t] # "idle"
    BY <1>0, <1>3, OpKinds DEF Load
  <2>2. mine' = [mine EXCEPT ![t][op[t].id] = files[op[t].id]]
    BY <1>3 DEF Load
  <2>3. \A u \in Task, id \in Id :
           mine'[u][id] = IF u = t /\ id = op[t].id THEN files[id] ELSE mine[u][id]
    BY <1>0, <2>1, <2>2 DEF Types
  <2>4. Return(t) /\ UNCHANGED <<files, onDisk, saves, acked, born>>
    BY <1>3 DEF Load, dir, book
  <2> QED
    BY <2>1, <2>3, <2>4, RecordsReturn
<1>4. ASSUME NEW t \in Task, Conflict(t) \/ Error(t) PROVE RParts'
  BY <1>4, RecordsReturn DEF Conflict, Error, dir, book
<1>5. ASSUME NEW t \in Task, Crash(t) PROVE RParts'
  <2>1. mine' = [mine EXCEPT ![t] = [id \in Id |-> Absent]] /\ pc[t] # "idle"
    BY <1>5 DEF Crash
  <2>2. \A u \in Task, id \in Id : mine'[u][id] = IF u = t THEN Absent ELSE mine[u][id]
    BY <1>0, <2>1 DEF Types
  <2>3. Return(t) /\ UNCHANGED <<files, onDisk, saves, acked, born>>
    BY <1>5 DEF Crash, dir, book
  <2> QED
    BY <2>1, <2>2, <2>3, RecordsReturn
<1>6. ASSUME NEW t \in Task, ReadIndex(t) PROVE RParts'
  <2>0. pc[t] = "locked" /\ UNCHANGED <<files, onDisk, mine, saves, acked, born>>
    BY <1>6 DEF ReadIndex, dir, book
  <2>1. CASE op[t].kind = "list" /\ index.state = "valid"
    <3>1. Return(t)
      BY <1>6, <2>1 DEF ReadIndex
    <3> QED
      BY <2>0, <3>1, RecordsReturn
  <2>2. CASE ~(op[t].kind = "list" /\ index.state = "valid")
    <3>1. PICK at \in {"drop index", "write", "put index"} :
             Goto(t, at) /\ (at = "put index" => op[t].kind = "list")
      BY <1>6, <2>2 DEF ReadIndex
    <3>2. at = "put index" => ~Writes(t)
      BY <3>1 DEF Writes
    <3>3. op' = op /\ (op[t].kind \in {"save", "delete"} => Matches(t))
      BY <1>6, <2>2 DEF ReadIndex
    <3> QED
      BY <2>0, <3>1, <3>2, <3>3, RecordsMatched
  <2> QED
    BY <2>1, <2>2
<1>7. ASSUME NEW t \in Task, DropIndex(t) PROVE RParts'
  <2>1. Goto(t, "sync drop") /\ Before(t) /\ UNCHANGED <<files, onDisk, op, mine, saves, acked, born>>
    BY <1>7 DEF DropIndex, Before, book
  <2> QED
    BY <2>1, RecordsStay DEF Point
<1>8. ASSUME NEW t \in Task, SyncDrop(t) PROVE RParts'
  <2>1. /\ onDisk' = files /\ Before(t)
        /\ UNCHANGED <<files, op, mine, saves, acked, born>>
    BY <1>8 DEF SyncDrop, SyncsDrop, Synced, Before, book
  <2>2. CASE op[t].kind = "list"
    <3>1. Goto(t, "put index") /\ ~Writes(t)
      BY <1>8, <2>2 DEF SyncDrop, SyncsDrop, Synced, Writes
    <3> QED
      BY <2>1, <3>1, RecordsStay DEF Point
  <2>3. CASE op[t].kind # "list"
    <3>1. Goto(t, "write")
      BY <1>8, <2>3 DEF SyncDrop, SyncsDrop, Synced
    <3> QED
      BY <2>1, <3>1, RecordsStay DEF Point
  <2> QED
    BY <2>2, <2>3
<1>9. ASSUME NEW t \in Task, SyncWrite(t) \/ PutIndex(t) PROVE RParts'
  BY <1>9, RecordsStay DEF SyncWrite, PutIndex, Synced, book, Point, After
<1>10. ASSUME NEW t \in Task, SyncIndex(t) PROVE RParts'
  <2>0. /\ pc[t] = "sync index" /\ pc[t] # "idle" /\ Return(t) /\ onDisk' = files
        /\ UNCHANGED <<files, saves, born>>
    BY <1>10 DEF SyncIndex
  <2>1. CASE op[t].kind = "save"
    <3>1. After(t) /\ Writes(t) /\ op[t].id \in Id
      BY <1>0, <2>0, <2>1, OpKinds DEF After, Writes
    <3>2. files[op[t].id] = Prepared(t)
      BY <1>0, <3>1, <2>1 DEF UnderLock, NewRecord
    <3>3. /\ mine' = [mine EXCEPT ![t][op[t].id] = Prepared(t)]
          /\ acked' = acked \cup {op[t].n}
      BY <1>10, <2>1 DEF SyncIndex
    <3>4. \A u \in Task, id \in Id :
             mine'[u][id] = IF u = t /\ id = op[t].id THEN files[id] ELSE mine[u][id]
      BY <1>0, <3>1, <3>2, <3>3 DEF Types
    <3>5. \A u \in Task, id \in Id : mine'[u][id] = mine[u][id] \/ (u = t /\ mine'[u][id] \in {Absent, files[id]})
      BY <3>4
    <3> QED
      BY <2>0, <2>1, <3>1, <3>3, <3>5, RecordsReturn
  <2>2. CASE op[t].kind # "save"
    <3>1. UNCHANGED <<mine, acked>>
      BY <1>10, <2>2 DEF SyncIndex
    <3> QED
      BY <2>0, <3>1, RecordsReturn
  <2> QED
    BY <2>1, <2>2
<1> QED
  BY <1>1, <1>2, <1>3, <1>4, <1>5, <1>6, <1>7, <1>8, <1>9, <1>10, RecordsCallSave,
     RecordsCallOther, RecordsWrite, RecordsPowerLoss DEF Next, Call, Operate

(* What the records are is kept.                                            *)
THEOREM RecordsInductive == Spec => []RInv
<1>1. Init => RInv
  BY TypesInit, HolderInit, RecordsInit DEF RInv, RParts
<1>2. RInv /\ [Next]_vars => RInv'
  <2> SUFFICES ASSUME RInv, [Next]_vars PROVE RInv'
    OBVIOUS
  <2>1. Types' /\ OneHolder'
    BY TypesStep, HolderStep DEF RInv
  <2>2. RParts'
    BY RecordsStep
  <2> QED
    BY <2>1, <2>2 DEF RInv, RParts
<1> QED
  BY <1>1, <1>2, PTL DEF Spec

(* No save that was acknowledged is lost: not by another process that saves *)
(* from an older record, not by an error or a crash between any two steps,  *)
(* not by a loss of power.                                                  *)
THEOREM SavesKept == Spec => []NoLostSave
<1>1. RInv => NoLostSave
  BY DEF RInv, AckedOnDisk, NoLostSave
<1> QED
  BY <1>1, RecordsInductive, PTL

------------------------------------------------------------------------------
(* The index                                                                *)
IParts == IndexGone /\ IndexTrue /\ SumsTrue /\ OnDisk
Syncing == {"sync drop", "sync write", "sync index"}
Quiet == {"idle", "wait", "locked"}

\* While one task has the lock the others are idle or wait for it.
LEMMA OthersWait ==
    ASSUME Types, OneHolder, NEW t \in Task, pc[t] \notin {"idle", "wait"}
    PROVE  \A u \in Task : u # t => pc[u] \in {"idle", "wait"}
<1>1. \A u \in Task : pc[u] \notin {"idle", "wait"} <=> lock = u
  BY DEF OneHolder
<1> QED
  BY <1>1

LEMMA SummariesAt == ASSUME NEW f, NEW id \in Id PROVE Summaries(f)[id] = f[id].rev
BY DEF Summaries

LEMMA MissingState == Missing.state = "missing" /\ Invalid.state = "invalid"
BY DEF Missing, Invalid

LEMMA IndexInit == Init => IParts
<1> SUFFICES ASSUME Init PROVE IParts
  OBVIOUS
<1>1. index.state # "valid" /\ indexOnDisk = index /\ onDisk = files
  BY MissingState DEF Init
<1>2. \A t \in Task : pc[t] = "idle"
  BY DEF Init
<1> QED
  BY <1>1, <1>2 DEF IParts, IndexGone, IndexTrue, SumsTrue, OnDisk, Differs, Before

\* A step that touches neither the directory nor what somebody at work holds.
LEMMA IndexQuiet ==
    ASSUME Types, IParts, NEW t \in Task,
           UNCHANGED <<files, onDisk, index, indexOnDisk, doubted>>,
           \A u \in Task : u # t => pc'[u] = pc[u] /\ op'[u] = op[u] /\ sums'[u] = sums[u],
           pc'[t] \in Quiet, ~loose' => ~loose /\ pc[t] \notin Syncing
    PROVE  IParts'
<1>0. IndexGone /\ IndexTrue /\ SumsTrue /\ OnDisk
  BY DEF IParts
<1>1. IndexGone'
  BY <1>0 DEF IndexGone, Quiet
<1>2. IndexTrue'
  BY <1>0 DEF IndexTrue, Summaries
<1>3. SumsTrue'
  <2>1. Summaries(files)' = Summaries(files)
    BY DEF Summaries
  <2>2. pc'[t] \notin {"drop index", "sync drop", "write", "put index", "sync index", "sync write"}
    BY DEF Quiet
  <2>3. SUFFICES ASSUME ~doubted', NEW u \in Task, u # t
                 PROVE  /\ Before(u)' \/ pc'[u] \in {"put index", "sync index"}
                              => sums'[u] = Summaries(files)
                        /\ pc'[u] = "sync write" =>
                              \A id \in Id \ {op'[u].id} : sums'[u][id] = files'[id].rev
    BY <2>1, <2>2 DEF SumsTrue, Before
  <2>4. ~doubted /\ pc'[u] = pc[u] /\ op'[u] = op[u] /\ sums'[u] = sums[u] /\ files' = files
    BY <2>3
  <2>5. Before(u)' => Before(u)
    BY <2>4 DEF Before
  <2>6. /\ Before(u) \/ pc[u] \in {"put index", "sync index"} => sums[u] = Summaries(files)
        /\ pc[u] = "sync write" => \A id \in Id \ {op[u].id} : sums[u][id] = files[id].rev
    BY <1>0, <2>4 DEF SumsTrue
  <2>7. Before(u)' \/ pc'[u] \in {"put index", "sync index"} => sums'[u] = Summaries(files)
    BY <2>4, <2>5, <2>6
  <2> QED
    BY <2>4, <2>6, <2>7
<1>4. OnDisk'
  <2>1. ~loose' => /\ Differs({"sync write"})' <=> Differs({"sync write"})
                   /\ Differs({"sync drop", "sync index"})' <=> Differs({"sync drop", "sync index"})
    BY DEF Differs, Quiet, Syncing
  <2> QED
    BY <1>0, <2>1 DEF OnDisk, Summaries
<1> QED
  BY <1>1, <1>2, <1>3, <1>4 DEF IParts

\* A directory that was synced.
LEMMA IndexSynced ==
    ASSUME Types, NEW t \in Task, onDisk' = files', indexOnDisk' = index',
           \A u \in Task : pc'[u] \notin Syncing
    PROVE  OnDisk'
BY DEF OnDisk, Differs, Syncing

\* The power is lost: what is found of the index lists what is found of the records.
LEMMA IndexPowerLoss == ASSUME Types, OneHolder, IParts, PowerLoss PROVE IParts'
<1>0. IndexGone /\ IndexTrue /\ OnDisk
  BY DEF IParts
<1>1. /\ \A id \in Id : files'[id] \in {files[id], onDisk[id]}
      /\ index' \in {index, indexOnDisk} /\ onDisk' = files' /\ indexOnDisk' = index'
      /\ \A u \in Task : pc'[u] = "idle"
      /\ ~doubted' => ~doubted /\ ~loose
  BY DEF PowerLoss
<1>2. IndexGone' /\ SumsTrue' /\ OnDisk'
  BY <1>1 DEF IndexGone, SumsTrue, OnDisk, Before, Differs
<1>3. ASSUME ~doubted', index'.state = "valid" PROVE index'.sums = Summaries(files)'
  <2>1. ~doubted /\ ~loose
    BY <1>1, <1>3
  <2>2. onDisk = files => \A id \in Id : files'[id] = files[id]
    BY <1>1
  <2>3. onDisk = files => Summaries(files)' = Summaries(files)
    BY <2>2 DEF Summaries
  <2>4. CASE Differs({"sync write"})
    <3>1. PICK t \in Task : pc[t] = "sync write"
      BY <2>4 DEF Differs
    <3>2. index.state # "valid" /\ \A u \in Task : u # t => pc[u] \in {"idle", "wait"}
      BY <1>0, <3>1, OthersWait DEF IndexGone
    <3>3. ~Differs({"sync drop", "sync index"})
      BY <3>1, <3>2 DEF Differs
    <3>4. indexOnDisk = index
      BY <1>0, <2>1, <3>3 DEF OnDisk
    <3> QED
      BY <1>1, <1>3, <3>2, <3>4
  <2>5. CASE ~Differs({"sync write"})
    <3>1. onDisk = files
      BY <1>0, <2>1, <2>5 DEF OnDisk
    <3>2. index.state = "valid" => index.sums = Summaries(files)
      BY <1>0, <2>1 DEF IndexTrue
    <3>3. indexOnDisk.state = "valid" => indexOnDisk.sums = Summaries(files)
      BY <1>0, <2>1, <3>2 DEF OnDisk
    <3> QED
      BY <1>1, <1>3, <2>3, <3>1, <3>2, <3>3
  <2> QED
    BY <2>4, <2>5
<1> QED
  BY <1>2, <1>3 DEF IParts, IndexTrue

\* Every step keeps the index true to the records.
LEMMA IndexStep == ASSUME RInv, IParts, [Next]_vars PROVE IParts'
<1>0. /\ Types /\ OneHolder /\ UnderLock
      /\ IndexGone /\ IndexTrue /\ SumsTrue /\ OnDisk
  BY DEF RInv, IParts
<1>1. CASE UNCHANGED vars
  <2>1. UNCHANGED <<files, onDisk, index, indexOnDisk, pc, op, sums, loose, doubted>>
    BY <1>1 DEF vars, dir, fault
  <2>2. IndexGone' /\ IndexTrue'
    BY <1>0, <2>1 DEF IndexGone, IndexTrue, Summaries
  <2>3. SumsTrue'
    BY <1>0, <2>1 DEF SumsTrue, Summaries, Before
  <2>4. OnDisk'
    BY <1>0, <2>1 DEF OnDisk, Summaries, Differs
  <2> QED
    BY <2>2, <2>3, <2>4 DEF IParts
<1>2. ASSUME NEW t \in Task, Call(t) \/ Acquire(t) PROVE IParts'
  <2>1. pc'[t] \in Quiet /\ pc[t] \notin Syncing /\ loose' = loose
    BY <1>0, <1>2 DEF Call, CallSave, CallOther, Acquire, Goto, Types, Quiet, Syncing, fault
  <2>2. \A u \in Task : u # t => pc'[u] = pc[u] /\ op'[u] = op[u] /\ sums'[u] = sums[u]
    BY <1>0, <1>2 DEF Call, CallSave, CallOther, Acquire, Goto, Types
  <2>3. UNCHANGED <<files, onDisk, index, indexOnDisk, doubted>>
    BY <1>2 DEF Call, CallSave, CallOther, Acquire, dir, fault
  <2> QED
    BY <1>0, <2>1, <2>2, <2>3, IndexQuiet
<1>3. ASSUME NEW t \in Task, Return(t)
      PROVE  /\ pc'[t] \in Quiet
             /\ \A u \in Task : u # t => pc'[u] = pc[u] /\ op'[u] = op[u]
  BY <1>0, <1>3 DEF Return, Goto, Types, Quiet
<1>4. ASSUME NEW t \in Task, Load(t) \/ Conflict(t) PROVE IParts'
  <2>1. Return(t) /\ pc[t] \notin Syncing /\ UNCHANGED <<files, onDisk, index, indexOnDisk, sums, loose, doubted>>
    BY <1>4 DEF Load, Conflict, Syncing, dir, fault
  <2> QED
    BY <1>0, <1>3, <2>1, IndexQuiet
<1>5. ASSUME NEW t \in Task, Error(t) \/ Crash(t) PROVE IParts'
  <2>1. Return(t) /\ Left(t) /\ UNCHANGED <<files, onDisk, index, indexOnDisk, sums>>
    BY <1>5 DEF Error, Crash, dir
  <2>2. doubted' = doubted /\ (~loose' => ~loose /\ pc[t] \notin Syncing)
    BY <2>1 DEF Left, Syncing
  <2> QED
    BY <1>0, <1>3, <2>1, <2>2, IndexQuiet
<1>6. ASSUME NEW t \in Task, ReadIndex(t) PROVE IParts'
  <2>0. /\ pc[t] = "locked"
        /\ UNCHANGED <<files, onDisk, index, indexOnDisk, loose, doubted>>
        /\ sums'[t] = IF index.state = "valid" THEN index.sums ELSE Summaries(files)
        /\ \A u \in Task : u # t => sums'[u] = sums[u]
    BY <1>0, <1>6 DEF ReadIndex, dir, fault, Types
  <2>1. CASE op[t].kind = "list" /\ index.state = "valid"
    <3>1. Return(t) /\ pc[t] \notin Syncing
      BY <1>6, <2>0, <2>1 DEF ReadIndex, Syncing
    <3> QED
      BY <1>0, <1>3, <2>0, <3>1, IndexQuiet
  <2>2. CASE ~(op[t].kind = "list" /\ index.state = "valid")
    <3>1. /\ pc'[t] \in {"drop index", "write", "put index"} /\ op' = op
          /\ pc'[t] = "drop index" \/ index.state # "valid"
          /\ \A u \in Task : u # t => pc'[u] = pc[u]
      BY <1>0, <1>6, <2>2 DEF ReadIndex, Goto, Types, Drops
    <3>2. \A u \in Task : u # t => pc[u] \in {"idle", "wait"}
      BY <1>0, <2>0, OthersWait
    <3>3. IndexGone'
      BY <2>0, <3>1, <3>2 DEF IndexGone
    <3>4. IndexTrue' /\ Summaries(files)' = Summaries(files)
      BY <1>0, <2>0 DEF IndexTrue, Summaries
    <3>5. SumsTrue'
      <4>1. ~doubted' => sums'[t] = Summaries(files)
        BY <1>0, <2>0 DEF IndexTrue
      <4>2. \A u \in Task : u # t => ~Before(u)' /\ pc'[u] \notin {"put index", "sync index", "sync write"}
        BY <3>1, <3>2 DEF Before
      <4> QED
        BY <3>1, <3>4, <4>1, <4>2 DEF SumsTrue
    <3>6. OnDisk'
      <4>1. ~Differs({"sync write"}) /\ ~Differs({"sync drop", "sync index"})
        BY <2>0, <3>2 DEF Differs
      <4> QED
        BY <1>0, <2>0, <4>1, <3>1, <3>2 DEF OnDisk, Differs
    <3> QED
      BY <3>3, <3>4, <3>5, <3>6 DEF IParts
  <2> QED
    BY <2>1, <2>2
<1>7. ASSUME NEW t \in Task, DropIndex(t) PROVE IParts'
  <2>0. /\ pc[t] = "drop index" /\ pc'[t] = "sync drop" /\ index' = Missing
        /\ UNCHANGED <<files, onDisk, indexOnDisk, op, sums, loose, doubted>>
        /\ \A u \in Task : u # t => pc'[u] = pc[u]
    BY <1>0, <1>7 DEF DropIndex, Goto, fault, Types
  <2>1. \A u \in Task : u # t => pc[u] \in {"idle", "wait"}
    BY <1>0, <2>0, OthersWait
  <2>2. IndexGone' /\ IndexTrue' /\ Summaries(files)' = Summaries(files)
    BY <2>0, MissingState DEF IndexGone, IndexTrue, Summaries
  <2>3. SumsTrue'
    BY <1>0, <2>0, <2>1, <2>2 DEF SumsTrue, Before
  <2>4. OnDisk'
    <3>1. ~Differs({"sync write"}) /\ ~Differs({"sync drop", "sync index"})
      BY <2>0, <2>1 DEF Differs
    <3>2. Differs({"sync drop", "sync index"})'
      BY <2>0 DEF Differs
    <3>3. ~loose => onDisk = files /\ indexOnDisk = index
      BY <1>0, <3>1 DEF OnDisk
    <3>4. ~loose /\ ~doubted /\ indexOnDisk.state = "valid" => indexOnDisk.sums = Summaries(files)
      BY <1>0, <3>3 DEF IndexTrue
    <3> QED
      BY <2>0, <2>2, <3>2, <3>3, <3>4 DEF OnDisk
  <2> QED
    BY <2>2, <2>3, <2>4 DEF IParts
<1>8. ASSUME NEW t \in Task, SyncDrop(t) PROVE IParts'
  <2>0. /\ pc[t] = "sync drop" /\ pc'[t] \in {"put index", "write"}
        /\ onDisk' = files /\ indexOnDisk' = index
        /\ UNCHANGED <<files, index, op, sums, doubted>>
        /\ \A u \in Task : u # t => pc'[u] = pc[u]
    BY <1>0, <1>8 DEF SyncDrop, SyncsDrop, Synced, Goto, Types
  <2>1. \A u \in Task : u # t => pc[u] \in {"idle", "wait"}
    BY <1>0, <2>0, OthersWait
  <2>2. IndexGone'
    BY <1>0, <2>0, <2>1 DEF IndexGone
  <2>3. IndexTrue' /\ Summaries(files)' = Summaries(files)
    BY <1>0, <2>0 DEF IndexTrue, Summaries
  <2>4. SumsTrue'
    BY <1>0, <2>0, <2>1, <2>3 DEF SumsTrue, Before
  <2>5. OnDisk'
    BY <1>0, <2>0, <2>1, IndexSynced DEF Syncing
  <2> QED
    BY <2>2, <2>3, <2>4, <2>5 DEF IParts
<1>9. ASSUME NEW t \in Task, WriteRecord(t) PROVE IParts'
  <2>0. /\ pc[t] = "write" /\ pc'[t] = "sync write"
        /\ UNCHANGED <<onDisk, index, indexOnDisk, op, sums, loose, doubted>>
        /\ \A u \in Task : u # t => pc'[u] = pc[u]
        /\ \A id \in Id : id # op[t].id => files'[id] = files[id]
    BY <1>0, <1>9 DEF WriteRecord, Goto, Types, fault
  <2>1. \A u \in Task : u # t => pc[u] \in {"idle", "wait"}
    BY <1>0, <2>0, OthersWait
  <2>2. index.state # "valid"
    BY <1>0, <2>0 DEF IndexGone
  <2>3. IndexGone' /\ IndexTrue'
    BY <2>0, <2>2 DEF IndexGone, IndexTrue
  <2>4. SumsTrue'
    <3>1. ~doubted => \A id \in Id : sums[t][id] = files[id].rev
      <4>1. Before(t)
        BY <2>0 DEF Before
      <4>2. ~doubted => sums[t] = Summaries(files)
        BY <4>1, <1>0 DEF SumsTrue
      <4> QED
        BY <4>2, SummariesAt
    <3>2. \A u \in Task : u # t => ~Before(u)' /\ pc'[u] \notin {"put index", "sync index", "sync write"}
      BY <2>0, <2>1 DEF Before
    <3>3. ~Before(t)' /\ pc'[t] \notin {"put index", "sync index"}
      BY <2>0 DEF Before
    <3> QED
      BY <2>0, <3>1, <3>2, <3>3 DEF SumsTrue
  <2>5. OnDisk'
    <3>1. ~Differs({"sync drop", "sync index"}) /\ ~Differs({"sync drop", "sync index"})' /\ Differs({"sync write"})'
      BY <2>0, <2>1 DEF Differs
    <3> QED
      BY <1>0, <2>0, <3>1 DEF OnDisk
  <2> QED
    BY <2>3, <2>4, <2>5 DEF IParts
<1>10. ASSUME NEW t \in Task, SyncWrite(t) PROVE IParts'
  <2>0. /\ pc[t] = "sync write" /\ pc'[t] = "put index"
        /\ onDisk' = files /\ indexOnDisk' = index
        /\ UNCHANGED <<files, index, op, doubted>>
        /\ \A u \in Task : u # t => pc'[u] = pc[u]
        /\ sums' = [sums EXCEPT ![t][op[t].id] = NewRecord(t).rev]
    BY <1>0, <1>10 DEF SyncWrite, Synced, Goto, Types
  <2>1. \A u \in Task : u # t => pc[u] \in {"idle", "wait"}
    BY <1>0, <2>0, OthersWait
  <2>2. IndexGone'
    BY <1>0, <2>0, <2>1 DEF IndexGone
  <2>3. IndexTrue' /\ Summaries(files)' = Summaries(files)
    BY <1>0, <2>0 DEF IndexTrue, Summaries
  <2>4. SumsTrue'
    <3>1. op[t].id \in Id /\ files[op[t].id] = NewRecord(t)
      <4>1. op[t].kind \in {"save", "delete"}
        BY <1>0, <2>0 DEF OneHolder
      <4>2. After(t) /\ Writes(t)
        BY <2>0, <4>1 DEF After, Writes
      <4> QED
        BY <1>0, <4>1, <4>2, OpKinds DEF UnderLock
    <3>2. ~doubted => \A id \in Id : sums'[t][id] = files[id].rev
      BY <1>0, <2>0, <3>1 DEF SumsTrue, Types
    <3>3. sums'[t] \in [Id -> Nat]
      BY <2>0, <1>0, TypesStep DEF Types
    <3>4. ~doubted => sums'[t] = Summaries(files)
      BY <3>2, <3>3 DEF Summaries
    <3>5. \A u \in Task : u # t => ~Before(u)' /\ pc'[u] \notin {"put index", "sync index", "sync write"}
      BY <2>0, <2>1 DEF Before
    <3> QED
      BY <2>0, <2>3, <3>4, <3>5 DEF SumsTrue
  <2>5. OnDisk'
    BY <1>0, <2>0, <2>1, IndexSynced DEF Syncing
  <2> QED
    BY <2>2, <2>3, <2>4, <2>5 DEF IParts
<1>11. ASSUME NEW t \in Task, PutIndex(t) PROVE IParts'
  <2>0. /\ pc[t] = "put index" /\ pc'[t] = "sync index"
        /\ index'.state = "valid" /\ index'.sums = sums[t]
        /\ UNCHANGED <<files, onDisk, indexOnDisk, op, sums, loose, doubted>>
        /\ \A u \in Task : u # t => pc'[u] = pc[u]
    BY <1>0, <1>11 DEF PutIndex, Valid, Goto, fault, Types
  <2>1. \A u \in Task : u # t => pc[u] \in {"idle", "wait"}
    BY <1>0, <2>0, OthersWait
  <2>2. IndexGone'
    BY <2>0, <2>1 DEF IndexGone
  <2>3. ~doubted => sums[t] = Summaries(files)
    BY <1>0, <2>0 DEF SumsTrue
  <2>4. IndexTrue' /\ Summaries(files)' = Summaries(files)
    BY <2>0, <2>3 DEF IndexTrue, Summaries
  <2>5. SumsTrue'
    BY <1>0, <2>0, <2>1, <2>4 DEF SumsTrue, Before
  <2>6. OnDisk'
    <3>1. ~Differs({"sync write"}) /\ ~Differs({"sync drop", "sync index"})
      BY <2>0, <2>1 DEF Differs
    <3>2. Differs({"sync drop", "sync index"})'
      BY <2>0 DEF Differs
    <3>3. ~loose => onDisk = files /\ indexOnDisk.state # "valid"
      BY <1>0, <2>0, <3>1 DEF OnDisk, IndexGone
    <3> QED
      BY <2>0, <3>2, <3>3 DEF OnDisk
  <2> QED
    BY <2>2, <2>4, <2>5, <2>6 DEF IParts
<1>12. ASSUME NEW t \in Task, SyncIndex(t) PROVE IParts'
  <2>0. /\ pc[t] = "sync index" /\ Return(t)
        /\ onDisk' = files /\ indexOnDisk' = index
        /\ UNCHANGED <<files, index, sums, doubted>>
    BY <1>12 DEF SyncIndex
  <2>1. \A u \in Task : u # t => pc[u] \in {"idle", "wait"}
    BY <1>0, <2>0, OthersWait
  <2>2. \A u \in Task : pc'[u] \in {"idle", "wait"}
    BY <1>0, <2>0, <2>1 DEF Return, Goto, Types
  <2>3. IndexGone' /\ IndexTrue' /\ SumsTrue'
    BY <1>0, <2>0, <2>2 DEF IndexGone, IndexTrue, SumsTrue, Before, Summaries
  <2>4. OnDisk'
    BY <1>0, <2>0, <2>2, IndexSynced DEF Syncing
  <2> QED
    BY <2>3, <2>4 DEF IParts
<1> QED
  BY <1>0, <1>1, <1>2, <1>4, <1>5, <1>6, <1>7, <1>8, <1>9, <1>10, <1>11, <1>12, IndexPowerLoss
     DEF Next, Operate

(* An index that a process believes lists the records that there are,       *)
(* whatever failed between two steps.                                       *)
THEOREM IndexCorrect == Spec => []IndexAgrees
<1>1. Init => RInv /\ IParts
  BY TypesInit, HolderInit, RecordsInit, IndexInit DEF RInv, RParts
<1>2. RInv /\ IParts /\ [Next]_vars => IParts'
  BY IndexStep
<1>3. IParts => IndexAgrees
  BY DEF IParts, IndexTrue, IndexAgrees
<1> QED
  BY <1>1, <1>2, <1>3, RecordsInductive, PTL DEF Spec

------------------------------------------------------------------------------
(* The compare-and-swap                                                     *)

\* The rename of a save is the swap, and the removal is the delete.
LEMMA WriteIsAtomic ==
    ASSUME RInv, NEW t \in Task, WriteRecord(t) PROVE Abstract!Next
<1>0. Types /\ OneHolder /\ NumbersNew
  BY DEF RInv
<1>1. /\ op[t].id \in Id /\ mine[t][op[t].id] = files[op[t].id]
      /\ files' = [files EXCEPT ![op[t].id] = NewRecord(t)]
  BY WritesOnWhatWas
<1>2. CASE op[t].kind = "save"
  <2>1. op[t].n \in Save /\ acked' = acked
    BY <1>2, WritesOnWhatWas
  <2>2. ~After(t)
    BY DEF WriteRecord, After
  <2>3. \A i \in Id : op[t].n \notin files[i].saves
    BY <1>0, <1>2, <2>2 DEF NumbersNew
  <2>4. NewRecord(t) = [rev   |-> files[op[t].id].rev + 1,
                        saves |-> files[op[t].id].saves \cup {op[t].n}]
    BY <1>1, <1>2 DEF NewRecord, Prepared
  <2>5. Abstract!Swap(op[t].id, op[t].n)
    BY <1>1, <2>1, <2>3, <2>4 DEF Abstract!Swap
  <2> QED
    BY <1>1, <2>1, <2>5 DEF Abstract!Next
<1>3. CASE op[t].kind = "delete"
  <2>1. /\ NewRecord(t) = Absent /\ files[op[t].id] # Absent
        /\ acked' = acked \ files[op[t].id].saves
    BY <1>3, WritesOnWhatWas
  <2>2. Abstract!Delete(op[t].id)
    BY <1>1, <2>1 DEF Abstract!Delete, Abstract!Absent, Absent
  <2> QED
    BY <1>1, <2>2 DEF Abstract!Next
<1> QED
  BY <1>2, <1>3, WritesOnWhatWas

\* A step of the store is a step of the compare-and-swap, or one it does not see.
LEMMA StoreSimulates ==
    ASSUME RInv, RInv', [Next]_vars PROVE [Abstract!Next]_<<files, acked>>
<1>0. Types /\ OneHolder /\ UnderLock /\ AckedOnDisk /\ Types' /\ AckedOnDisk'
  BY DEF RInv
<1>1. CASE UNCHANGED vars
  BY <1>1 DEF vars, dir, book
<1>2. ASSUME NEW t \in Task, Call(t) \/ Acquire(t) \/ Error(t) \/ Crash(t)
      PROVE  UNCHANGED <<files, acked>>
  BY <1>2 DEF Call, CallSave, CallOther, Acquire, Error, Crash, dir, book
<1>3. ASSUME NEW t \in Task, Load(t) \/ Conflict(t) \/ ReadIndex(t) \/ DropIndex(t)
             \/ SyncDrop(t) \/ SyncWrite(t) \/ PutIndex(t)
      PROVE  UNCHANGED <<files, acked>>
  BY <1>3 DEF Load, Conflict, ReadIndex, DropIndex, SyncDrop, SyncWrite, PutIndex, dir, book
<1>4. ASSUME NEW t \in Task, SyncIndex(t) PROVE [Abstract!Next]_<<files, acked>>
  <2>1. CASE op[t].kind = "save"
    <3>1. After(t) /\ Writes(t) /\ op[t].id \in Id /\ op[t].n \in Save
      BY <1>0, <1>4, <2>1, OpKinds DEF SyncIndex, After, Writes
    <3>2. op[t].n \in files[op[t].id].saves
      <4>1. files[op[t].id] = Prepared(t)
        BY <1>0, <2>1, <3>1 DEF UnderLock, NewRecord
      <4> QED
        BY <4>1 DEF Prepared
    <3>3. Abstract!Acknowledge(op[t].n)
      BY <1>4, <2>1, <3>1, <3>2 DEF SyncIndex, Abstract!Acknowledge
    <3> QED
      BY <3>1, <3>3 DEF Abstract!Next
  <2>2. CASE op[t].kind # "save"
    BY <1>4, <2>2 DEF SyncIndex
  <2> QED
    BY <2>1, <2>2
<1>5. CASE PowerLoss
  <2>1. acked' = acked /\ \A id \in Id : files'[id] \in {files[id], onDisk[id]}
    BY <1>5 DEF PowerLoss, book
  <2>2. files' \in [Id -> Abstract!Record]
    BY <1>0 DEF Types, Record, Abstract!Record
  <2>3. \A n \in acked : \E id \in Id : n \in files'[id].saves
    BY <1>0, <2>1 DEF AckedOnDisk
  <2>4. \A id \in Id : files'[id].saves \subseteq files[id].saves \/ files[id] = Abstract!Absent
    BY <1>0, <2>1 DEF AckedOnDisk, Absent, Abstract!Absent
  <2>5. Abstract!PowerLoss
    BY <2>1, <2>2, <2>3, <2>4 DEF Abstract!PowerLoss
  <2> QED
    BY <2>5 DEF Abstract!Next
<1> QED
  BY <1>1, <1>2, <1>3, <1>4, <1>5, WriteIsAtomic DEF Next, Operate

(* The files, the index, the lock and the syncs together are the one atomic *)
(* compare-and-swap that the trait of the store promises.                   *)
THEOREM StoreImplements == Spec => Implements
<1>1. Init => Abstract!Init
  BY DEF Init, Abstract!Init, Absent, Abstract!Absent
<1>2. RInv /\ RInv' /\ [Next]_vars => [Abstract!Next]_<<files, acked>>
  BY StoreSimulates
<1> QED
  BY <1>1, <1>2, RecordsInductive, PTL DEF Spec, Implements, Abstract!Spec
=============================================================================
