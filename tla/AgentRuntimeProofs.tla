------------------------- MODULE AgentRuntimeProofs -------------------------
(* Proofs about AgentRuntime, for every number of agents, principals and   *)
(* every value of the limits.                                              *)
EXTENDS AgentRuntime, FiniteSetTheorems, TLAPS

(* Type correctness of the registry and of the supervision tasks.          *)
LEMMA InitTypeOK == Init => TypeOK
  BY IdentityAssumption, LimitsAssumption
     DEF Init, TypeOK, Status, Phase, Result

LEMMA TypeStep == TypeOK /\ ResultsReady /\ LedgerExact /\ [Next]_vars => TypeOK'
<1> SUFFICES ASSUME TypeOK, ResultsReady, LedgerExact, [Next]_vars PROVE TypeOK'
    OBVIOUS
<1> USE IdentityAssumption, LimitsAssumption
    DEF TypeOK, entryVars, runVars, revokeVars, taskUnchanged, Status, Phase,
        Result, Execution, Terminal, Holding
<1>1. ASSUME NEW p \in Principal, NEW a \in Agent, AttachRoot(p, a)
      PROVE  TypeOK'
  BY <1>1 DEF AttachRoot, Register
<1>2. ASSUME NEW p \in Principal, NEW c \in registered, NEW a \in Agent,
             Spawn(p, c, a)
      PROVE  TypeOK'
  BY <1>2 DEF Spawn, Register, ReserveChild
<1>3. ASSUME NEW p \in Principal, NEW c \in registered, NEW t \in registered,
             NEW a \in Agent, Continue(p, c, t, a)
      PROVE  TypeOK'
  BY <1>3 DEF Continue, Register
<1>4. ASSUME NEW p \in Principal, NEW c \in registered, NEW t \in registered,
             Collect(p, c, t)
      PROVE  TypeOK'
  <2>1. ledger' \in [Principal -> Nat]
    <3>1. CASE owner[t] \notin Principal
      BY <1>4, <3>1 DEF Collect
    <3>2. CASE owner[t] \in Principal
      <4>1. t \in Owned(owner[t]) \ collected
        BY <1>4 DEF Collect, Collectable, Owned
      <4>2. IsFiniteSet(Owned(owner[t]) \ collected)
        BY FS_Subset DEF Owned
      <4>3. ledger[owner[t]] # 0
        BY <3>2, <4>1, <4>2, FS_EmptySet DEF LedgerExact
      <4> QED BY <1>4, <3>2, <4>3 DEF Collect
    <3> QED BY <3>1, <3>2
  <2> QED BY <1>4, <2>1 DEF Collect
<1>5. ASSUME NEW p \in Principal, NEW c \in registered, NEW t \in registered,
             CancelTree(p, c, t)
      PROVE  TypeOK'
  BY <1>5 DEF CancelTree, Descendants
<1>6. CASE CancelActiveRuns
  BY <1>6 DEF CancelActiveRuns
<1>7. ASSUME NEW p \in Principal, Revoke(p) PROVE TypeOK'
  BY <1>7 DEF Revoke, Owned
<1>8. ASSUME NEW a \in Agent, CancelEntry(a) PROVE TypeOK'
  BY <1>8 DEF CancelEntry, CancelsTask
<1>9. CASE ReleaseLifecycle
  BY <1>9 DEF ReleaseLifecycle
<1>10. ASSUME NEW p \in Principal, NEW a \in Agent, AwaitRevoked(p, a)
       PROVE  TypeOK'
  BY <1>10 DEF AwaitRevoked
<1>11. ASSUME NEW a \in Agent, Task(a) PROVE TypeOK'
  <2>1. CASE TaskCancelledInQueue(a)
    BY <2>1 DEF TaskCancelledInQueue, Return
  <2>2. CASE TaskAcquire(a)
    BY <2>2 DEF TaskAcquire
  <2>3. CASE TaskMarkRunning(a)
    BY <2>3 DEF TaskMarkRunning
  <2>4. CASE TaskCheckCancel(a)
    BY <2>4 DEF TaskCheckCancel, Return
  <2>5. CASE TaskStartCore(a)
    BY <2>5 DEF TaskStartCore
  <2>6. CASE TaskPrepareFails(a)
    BY <2>6 DEF TaskPrepareFails, Return
  <2>7. CASE TaskCancelCore(a)
    BY <2>7 DEF TaskCancelCore
  <2>8. CASE TaskCoreReturns(a)
    BY <2>8 DEF TaskCoreReturns, Execute
  <2>9. CASE TaskCancelEnds(a)
    BY <2>9 DEF TaskCancelEnds, Execute
  <2>10. CASE TaskFinalize(a)
    BY <2>10 DEF TaskFinalize, Completion
  <2>11. CASE TaskFinish(a)
    BY <2>11 DEF TaskFinish, ResultsReady
  <2> QED BY <1>11, <2>1, <2>2, <2>3, <2>4, <2>5, <2>6, <2>7, <2>8, <2>9,
             <2>10, <2>11 DEF Task
<1>12. CASE UNCHANGED vars
  BY <1>12 DEF vars
<1> QED
  BY <1>1, <1>2, <1>3, <1>4, <1>5, <1>6, <1>7, <1>8, <1>9, <1>10, <1>11, <1>12
     DEF Next, Call

(***************************************************************************)
(* The inductive invariant.  The ledger is a natural number only because   *)
(* it counts entries, and it counts them only because a new identity is in *)
(* none of the sets it is made from, so these go together.                 *)
(***************************************************************************)
RInv == /\ TypeOK
        /\ FreshIdentities
        /\ RegisteredUntilRevoked
        /\ ResultsReady
        /\ LedgerExact

LEMMA InitRInv == Init => RInv
<1> SUFFICES ASSUME Init PROVE RInv
    OBVIOUS
<1>1. TypeOK
  BY InitTypeOK
<1>2. FreshIdentities /\ RegisteredUntilRevoked /\ ResultsReady
  BY IdentityAssumption
     DEF Init, FreshIdentities, RegisteredUntilRevoked, ResultsReady
<1>3. LedgerExact
  <2>1. \A p \in Principal : Owned(p) \ collected = {}
    BY DEF Init, Owned
  <2>2. Cardinality({}) = 0
    BY FS_EmptySet
  <2>3. \A p \in Principal : ledger[p] = 0
    BY DEF Init
  <2>4. 0 <= MaxPerPrincipal
    BY LimitsAssumption
  <2> QED BY <2>1, <2>2, <2>3, <2>4 DEF LedgerExact
<1> QED BY <1>1, <1>2, <1>3 DEF RInv

LEMMA FreshStep == RInv /\ [Next]_vars => FreshIdentities'
<1> SUFFICES ASSUME RInv, [Next]_vars PROVE FreshIdentities'
    OBVIOUS
<1> USE IdentityAssumption
    DEF RInv, TypeOK, FreshIdentities, entryVars, runVars, revokeVars,
        taskUnchanged, Status, Terminal
<1>1. ASSUME NEW p \in Principal, NEW a \in Agent, AttachRoot(p, a)
      PROVE  FreshIdentities'
  BY <1>1 DEF AttachRoot, Register
<1>2. ASSUME NEW p \in Principal, NEW c \in registered, NEW a \in Agent,
             Spawn(p, c, a)
      PROVE  FreshIdentities'
  BY <1>2 DEF Spawn, Register, ReserveChild
<1>3. ASSUME NEW p \in Principal, NEW c \in registered, NEW t \in registered,
             NEW a \in Agent, Continue(p, c, t, a)
      PROVE  FreshIdentities'
  BY <1>3 DEF Continue, Register
<1>4. ASSUME NEW p \in Principal, NEW c \in registered, NEW t \in registered,
             Collect(p, c, t)
      PROVE  FreshIdentities'
  BY <1>4 DEF Collect
<1>5. ASSUME NEW p \in Principal, NEW c \in registered, NEW t \in registered,
             CancelTree(p, c, t)
      PROVE  FreshIdentities'
  BY <1>5 DEF CancelTree
<1>6. CASE CancelActiveRuns
  BY <1>6 DEF CancelActiveRuns
<1>7. ASSUME NEW p \in Principal, Revoke(p) PROVE FreshIdentities'
  BY <1>7 DEF Revoke
<1>8. ASSUME NEW a \in Agent, CancelEntry(a) PROVE FreshIdentities'
  BY <1>8 DEF CancelEntry, CancelsTask, CancelsAtOnce
<1>9. CASE ReleaseLifecycle
  BY <1>9 DEF ReleaseLifecycle
<1>10. ASSUME NEW p \in Principal, NEW a \in Agent, AwaitRevoked(p, a)
       PROVE  FreshIdentities'
  BY <1>10 DEF AwaitRevoked
<1>11. ASSUME NEW a \in Agent, Task(a) PROVE FreshIdentities'
  <2>1. CASE TaskFinish(a)
    BY <2>1 DEF TaskFinish, ResultsReady
  <2>2. CASE TaskMarkRunning(a)
    BY <2>2 DEF TaskMarkRunning
  <2>3. ASSUME ~TaskFinish(a), ~TaskMarkRunning(a)
        PROVE  /\ task[a] # "none"
               /\ \E ph : task' = [task EXCEPT ![a] = ph]
               /\ UNCHANGED <<taskUnchanged, status, hasSession>>
    BY <1>11, <2>3
       DEF Task, TaskCancelledInQueue, TaskAcquire, TaskCheckCancel,
           TaskStartCore, TaskPrepareFails, TaskCancelCore, TaskCoreReturns,
           TaskCancelEnds, TaskFinalize, Return, Execute
  <2>4. ASSUME ~TaskFinish(a), ~TaskMarkRunning(a)
        PROVE  FreshIdentities'
    BY <2>3, <2>4
  <2> QED BY <2>1, <2>2, <2>4
<1>12. CASE UNCHANGED vars
  BY <1>12 DEF vars
<1> QED
  BY <1>1, <1>2, <1>3, <1>4, <1>5, <1>6, <1>7, <1>8, <1>9, <1>10, <1>11, <1>12
     DEF Next, Call

LEMMA RegisteredStep == RInv /\ [Next]_vars => RegisteredUntilRevoked'
<1> SUFFICES ASSUME RInv, [Next]_vars PROVE RegisteredUntilRevoked'
    OBVIOUS
<1> USE IdentityAssumption
    DEF RInv, TypeOK, RegisteredUntilRevoked, entryVars, runVars, revokeVars,
        taskUnchanged
<1>1. ASSUME NEW p \in Principal, NEW a \in Agent, AttachRoot(p, a)
      PROVE  RegisteredUntilRevoked'
  BY <1>1 DEF AttachRoot, Register, FreshIdentities
<1>2. ASSUME NEW p \in Principal, NEW c \in registered, NEW a \in Agent,
             Spawn(p, c, a)
      PROVE  RegisteredUntilRevoked'
  BY <1>2 DEF Spawn, Register, Bound, FreshIdentities
<1>3. ASSUME NEW p \in Principal, NEW c \in registered, NEW t \in registered,
             NEW a \in Agent, Continue(p, c, t, a)
      PROVE  RegisteredUntilRevoked'
  BY <1>3 DEF Continue, Register, Bound, FreshIdentities
<1>4. ASSUME NEW p \in Principal, NEW c \in registered, NEW t \in registered,
             Collect(p, c, t)
      PROVE  RegisteredUntilRevoked'
  BY <1>4 DEF Collect
<1>5. ASSUME NEW p \in Principal, NEW c \in registered, NEW t \in registered,
             CancelTree(p, c, t)
      PROVE  RegisteredUntilRevoked'
  BY <1>5 DEF CancelTree
<1>6. CASE CancelActiveRuns
  BY <1>6 DEF CancelActiveRuns
<1>7. ASSUME NEW p \in Principal, Revoke(p) PROVE RegisteredUntilRevoked'
  BY <1>7 DEF Revoke, Owned
<1>8. ASSUME NEW a \in Agent, CancelEntry(a) PROVE RegisteredUntilRevoked'
  BY <1>8 DEF CancelEntry, CancelsAtOnce
<1>9. CASE ReleaseLifecycle
  BY <1>9 DEF ReleaseLifecycle
<1>10. ASSUME NEW p \in Principal, NEW a \in Agent, AwaitRevoked(p, a)
       PROVE  RegisteredUntilRevoked'
  BY <1>10 DEF AwaitRevoked
<1>11. ASSUME NEW a \in Agent, Task(a) PROVE RegisteredUntilRevoked'
  <2>1. CASE TaskFinish(a)
    <3>1. status[a] # "Unborn"
      BY <2>1 DEF TaskFinish, FreshIdentities
    <3> QED BY <2>1, <3>1 DEF TaskFinish
  <2>2. CASE TaskMarkRunning(a)
    BY <2>2 DEF TaskMarkRunning
  <2>3. CASE ~TaskFinish(a) /\ ~TaskMarkRunning(a)
    <3>1. UNCHANGED <<taskUnchanged, status>>
      BY <1>11, <2>3
         DEF Task, TaskCancelledInQueue, TaskAcquire, TaskCheckCancel,
             TaskStartCore, TaskPrepareFails, TaskCancelCore, TaskCoreReturns,
             TaskCancelEnds, TaskFinalize
    <3> QED BY <3>1
  <2> QED BY <2>1, <2>2, <2>3
<1>12. CASE UNCHANGED vars
  BY <1>12 DEF vars
<1> QED
  BY <1>1, <1>2, <1>3, <1>4, <1>5, <1>6, <1>7, <1>8, <1>9, <1>10, <1>11, <1>12
     DEF Next, Call

(* Only the supervision task moves its own phase, its result and the       *)
(* permits; creating an entry starts one.                                  *)
LEMMA TaskVariables ==
    ASSUME TypeOK, [Next]_vars
    PROVE  \/ UNCHANGED <<task, result, permits>>
           \/ \E a \in Agent : /\ status[a] = "Unborn"
                              /\ task' = [task EXCEPT ![a] = "queued"]
                              /\ status' = [status EXCEPT ![a] = "Queued"]
                              /\ UNCHANGED <<result, permits>>
           \/ \E a \in Agent : Task(a)
<1> USE DEF runVars
<1>1. ASSUME NEW p \in Principal, NEW a \in Agent, AttachRoot(p, a)
      PROVE  UNCHANGED <<task, result, permits>>
  BY <1>1 DEF AttachRoot
<1>2. ASSUME NEW p \in Principal, NEW c \in registered, NEW a \in Agent,
             Spawn(p, c, a)
      PROVE  /\ status[a] = "Unborn"
             /\ task' = [task EXCEPT ![a] = "queued"]
             /\ status' = [status EXCEPT ![a] = "Queued"]
             /\ UNCHANGED <<result, permits>>
  BY <1>2 DEF Spawn, Register
<1>3. ASSUME NEW p \in Principal, NEW c \in registered, NEW t \in registered,
             NEW a \in Agent, Continue(p, c, t, a)
      PROVE  /\ status[a] = "Unborn"
             /\ task' = [task EXCEPT ![a] = "queued"]
             /\ status' = [status EXCEPT ![a] = "Queued"]
             /\ UNCHANGED <<result, permits>>
  BY <1>3 DEF Continue, Register
<1>4. ASSUME NEW p \in Principal, NEW c \in registered, NEW t \in registered,
             Collect(p, c, t) \/ CancelTree(p, c, t)
      PROVE  UNCHANGED <<task, result, permits>>
  BY <1>4 DEF Collect, CancelTree
<1>5. ASSUME NEW p \in Principal, Revoke(p) PROVE UNCHANGED <<task, result, permits>>
  BY <1>5 DEF Revoke
<1>6. ASSUME NEW a \in Agent, CancelEntry(a) PROVE UNCHANGED <<task, result, permits>>
  BY <1>6 DEF CancelEntry
<1>7. ASSUME NEW p \in Principal, NEW a \in Agent, AwaitRevoked(p, a)
      PROVE  UNCHANGED <<task, result, permits>>
  BY <1>7 DEF AwaitRevoked
<1>8. CASE CancelActiveRuns \/ ReleaseLifecycle \/ UNCHANGED vars
  BY <1>8 DEF CancelActiveRuns, ReleaseLifecycle, vars
<1> QED
  BY <1>1, <1>2, <1>3, <1>4, <1>5, <1>6, <1>7, <1>8 DEF Next, Call

LEMMA ResultsStep == RInv /\ [Next]_vars => ResultsReady'
<1> SUFFICES ASSUME RInv, [Next]_vars PROVE ResultsReady'
    OBVIOUS
<1> USE DEF RInv, TypeOK, ResultsReady, entryVars, runVars, revokeVars,
            taskUnchanged
<1>1. CASE UNCHANGED <<task, result, permits>>
  <2>1. ASSUME NEW a \in Agent, status[a] = "Queued" PROVE status'[a] = "Queued"
    <3>1. ASSUME NEW p \in Principal, NEW b \in Agent, AttachRoot(p, b)
          PROVE  status'[a] = "Queued"
      BY <2>1, <3>1 DEF AttachRoot, Register
    <3>2. ASSUME NEW p \in Principal, NEW c \in registered, NEW b \in Agent,
                 Spawn(p, c, b)
          PROVE  status'[a] = "Queued"
      BY <2>1, <3>2 DEF Spawn, Register
    <3>3. ASSUME NEW p \in Principal, NEW c \in registered, NEW t \in registered,
                 NEW b \in Agent, Continue(p, c, t, b)
          PROVE  status'[a] = "Queued"
      BY <2>1, <3>3 DEF Continue, Register
    <3>4. ASSUME NEW p \in Principal, NEW c \in registered, NEW t \in registered,
                 Collect(p, c, t) \/ CancelTree(p, c, t)
          PROVE  status'[a] = "Queued"
      BY <2>1, <3>4 DEF Collect, CancelTree
    <3>5. ASSUME NEW b \in Agent, CancelEntry(b) PROVE status'[a] = "Queued"
      BY <2>1, <3>5 DEF CancelEntry, CancelsAtOnce
    <3>6. ASSUME NEW p \in Principal, Revoke(p) PROVE status'[a] = "Queued"
      BY <2>1, <3>6 DEF Revoke
    <3>7. ASSUME NEW p \in Principal, NEW b \in Agent, AwaitRevoked(p, b)
          PROVE  status'[a] = "Queued"
      BY <2>1, <3>7 DEF AwaitRevoked
    <3>8. CASE CancelActiveRuns \/ ReleaseLifecycle \/ UNCHANGED vars
      BY <2>1, <3>8 DEF CancelActiveRuns, ReleaseLifecycle, vars
    <3>9. ASSUME NEW b \in Agent, Task(b) PROVE FALSE
      BY <1>1, <3>9
         DEF Task, TaskCancelledInQueue, TaskAcquire, TaskMarkRunning,
             TaskCheckCancel, TaskStartCore, TaskPrepareFails, TaskCancelCore,
             TaskCoreReturns, TaskCancelEnds, TaskFinalize, TaskFinish, Return,
             Execute
    <3> QED
      BY <3>1, <3>2, <3>3, <3>4, <3>5, <3>6, <3>7, <3>8, <3>9 DEF Next, Call
  <2> QED BY <1>1, <2>1
<1>2. ASSUME NEW a \in Agent, status[a] = "Unborn",
             task' = [task EXCEPT ![a] = "queued"],
             status' = [status EXCEPT ![a] = "Queued"], UNCHANGED <<result, permits>>
      PROVE  ResultsReady'
  BY <1>2
<1>3. ASSUME NEW a \in Agent, Task(a) PROVE ResultsReady'
  <2> USE DEF Execution, Terminal, Status
  <2>1. CASE TaskCancelledInQueue(a)
    BY <2>1 DEF TaskCancelledInQueue, Return
  <2>2. CASE TaskAcquire(a)
    BY <2>2 DEF TaskAcquire
  <2>3. CASE TaskMarkRunning(a)
    BY <2>3 DEF TaskMarkRunning
  <2>4. CASE TaskCheckCancel(a)
    BY <2>4 DEF TaskCheckCancel, Return
  <2>5. CASE TaskStartCore(a)
    BY <2>5 DEF TaskStartCore
  <2>6. CASE TaskPrepareFails(a)
    BY <2>6 DEF TaskPrepareFails, Return
  <2>7. CASE TaskCancelCore(a)
    BY <2>7 DEF TaskCancelCore
  <2>8. CASE TaskCoreReturns(a)
    BY <2>8 DEF TaskCoreReturns, Execute
  <2>9. CASE TaskCancelEnds(a)
    BY <2>9 DEF TaskCancelEnds, Execute
  <2>10. CASE TaskFinalize(a)
    BY <2>10 DEF TaskFinalize, Completion
  <2>11. CASE TaskFinish(a)
    BY <2>11 DEF TaskFinish
  <2> QED BY <1>3, <2>1, <2>2, <2>3, <2>4, <2>5, <2>6, <2>7, <2>8, <2>9,
             <2>10, <2>11 DEF Task
<1> QED BY <1>1, <1>2, <1>3, TaskVariables

(* What every other step than the five of the registry leaves alone.       *)
LEMMA RegistryVariables ==
    ASSUME [Next]_vars
    PROVE  \/ UNCHANGED <<registered, owner, parent, depth, childCount,
                          collected, ledger, revoked>>
           \/ \E p \in Principal, a \in Agent : AttachRoot(p, a)
           \/ \E p \in Principal, c \in registered, a \in Agent : Spawn(p, c, a)
           \/ \E p \in Principal, c \in registered, t \in registered, a \in Agent :
                  Continue(p, c, t, a)
           \/ \E p \in Principal, c \in registered, t \in registered :
                  Collect(p, c, t)
           \/ \E p \in Principal : Revoke(p)
<1> USE DEF entryVars, runVars, revokeVars, taskUnchanged
<1> DEFINE Same == UNCHANGED <<registered, owner, parent, depth, childCount,
                               collected, ledger, revoked>>
<1>1. ASSUME NEW p \in Principal, NEW c \in registered, NEW t \in registered,
             CancelTree(p, c, t)
      PROVE  Same
  BY <1>1 DEF CancelTree
<1>2. ASSUME NEW a \in Agent, CancelEntry(a) PROVE Same
  BY <1>2 DEF CancelEntry
<1>3. ASSUME NEW p \in Principal, NEW a \in Agent, AwaitRevoked(p, a) PROVE Same
  BY <1>3 DEF AwaitRevoked
<1>4. CASE CancelActiveRuns \/ ReleaseLifecycle \/ UNCHANGED vars
  BY <1>4 DEF CancelActiveRuns, ReleaseLifecycle, vars
<1>5. ASSUME NEW a \in Agent, Task(a) PROVE Same
  BY <1>5
     DEF Task, TaskCancelledInQueue, TaskAcquire, TaskMarkRunning,
         TaskCheckCancel, TaskStartCore, TaskPrepareFails, TaskCancelCore,
         TaskCoreReturns, TaskCancelEnds, TaskFinalize, TaskFinish
<1> QED BY <1>1, <1>2, <1>3, <1>4, <1>5 DEF Next, Call

LEMMA RegisterLedger ==
    ASSUME RInv, NEW p \in Principal, NEW a \in Agent, NEW par, NEW d, NEW st,
           Register(a, p, par, d, st), UNCHANGED collected
    PROVE  LedgerExact'
<1> USE IdentityAssumption DEF RInv, TypeOK
<1>1. a \notin registered /\ a \notin collected
  BY DEF Register, FreshIdentities
<1>2. ASSUME NEW q \in Principal, q # p
      PROVE  (Owned(q) \ collected)' = Owned(q) \ collected
  BY <1>1, <1>2 DEF Register, Owned
<1>3. (Owned(p) \ collected)' = (Owned(p) \ collected) \cup {a}
  BY <1>1 DEF Register, Owned
<1>4. Cardinality((Owned(p) \ collected) \cup {a}) = Cardinality(Owned(p) \ collected) + 1
  <2>1. IsFiniteSet(Owned(p) \ collected) /\ a \notin Owned(p) \ collected
    BY <1>1, FS_Subset DEF Owned
  <2> QED BY <2>1, FS_AddElement
<1>5. ASSUME NEW q \in Principal
      PROVE  /\ ledger'[q] = Cardinality((Owned(q) \ collected)')
             /\ ledger'[q] <= MaxPerPrincipal
  <2>1. ledger[q] = Cardinality(Owned(q) \ collected) /\ ledger[q] <= MaxPerPrincipal
    BY DEF LedgerExact
  <2>2. CASE q = p
    <3>1. ledger'[q] = ledger[q] + 1 /\ ledger[q] + 1 <= MaxPerPrincipal
      BY <2>2, LimitsAssumption DEF Register
    <3> QED BY <1>3, <1>4, <2>1, <2>2, <3>1
  <2>3. CASE q # p
    <3>1. (Owned(q) \ collected)' = Owned(q) \ collected
      BY <1>2, <2>3
    <3>2. ledger'[q] = ledger[q]
      BY <2>3 DEF Register
    <3> QED BY <2>1, <3>1, <3>2
  <2> QED BY <2>2, <2>3
<1> QED BY <1>5 DEF LedgerExact

LEMMA LedgerStep == RInv /\ [Next]_vars => LedgerExact'
<1> SUFFICES ASSUME RInv, [Next]_vars PROVE LedgerExact'
    OBVIOUS
<1> USE DEF RInv
<1>1. CASE UNCHANGED <<registered, owner, parent, depth, childCount, collected,
                       ledger, revoked>>
  BY <1>1 DEF LedgerExact, Owned
<1>2. ASSUME NEW p \in Principal, NEW a \in Agent, AttachRoot(p, a)
      PROVE  LedgerExact'
  BY <1>2, RegisterLedger DEF AttachRoot
<1>3. ASSUME NEW p \in Principal, NEW c \in registered, NEW a \in Agent,
             Spawn(p, c, a)
      PROVE  LedgerExact'
  BY <1>3, RegisterLedger DEF Spawn
<1>4. ASSUME NEW p \in Principal, NEW c \in registered, NEW t \in registered,
             NEW a \in Agent, Continue(p, c, t, a)
      PROVE  LedgerExact'
  BY <1>4, RegisterLedger DEF Continue
<1>5. ASSUME NEW p \in Principal, NEW c \in registered, NEW t \in registered,
             Collect(p, c, t)
      PROVE  LedgerExact'
  <2>1. ASSUME NEW q \in Principal, q # owner[t]
        PROVE  (Owned(q) \ collected)' = Owned(q) \ collected
    BY <1>5, <2>1 DEF Collect, Owned
  <2>2. ASSUME NEW o \in Principal, o = owner[t] PROVE LedgerExact'
    <3>1. t \in Owned(o) \ collected
      BY <1>5, <2>2 DEF Collect, Collectable, Owned
    <3>2. (Owned(o) \ collected)' = (Owned(o) \ collected) \ {t}
      BY <1>5 DEF Collect, Owned
    <3>3. IsFiniteSet(Owned(o) \ collected)
      BY FS_Subset, IdentityAssumption DEF Owned, TypeOK
    <3>4. Cardinality((Owned(o) \ collected) \ {t}) = Cardinality(Owned(o) \ collected) - 1
      BY <3>1, <3>3, FS_RemoveElement
    <3>5. ASSUME NEW q \in Principal
          PROVE  /\ ledger'[q] = Cardinality((Owned(q) \ collected)')
                 /\ ledger'[q] <= MaxPerPrincipal
      <4>1. ledger[q] = Cardinality(Owned(q) \ collected) /\ ledger[q] <= MaxPerPrincipal
        BY DEF LedgerExact
      <4>2. CASE q = o
        <5>1. ledger'[q] = ledger[q] - 1 /\ ledger[q] - 1 <= MaxPerPrincipal
          BY <1>5, <2>2, <4>1, <4>2, LimitsAssumption DEF Collect, TypeOK
        <5> QED BY <3>2, <3>4, <4>1, <4>2, <5>1
      <4>3. CASE q # o
        <5>1. (Owned(q) \ collected)' = Owned(q) \ collected
          BY <2>1, <2>2, <4>3
        <5>2. ledger'[q] = ledger[q]
          BY <1>5, <2>2, <4>3 DEF Collect, TypeOK
        <5> QED BY <4>1, <5>1, <5>2
      <4> QED BY <4>2, <4>3
    <3> QED BY <3>5 DEF LedgerExact
  <2>3. CASE owner[t] \notin Principal
    <3>1. ASSUME NEW q \in Principal
          PROVE  /\ ledger'[q] = Cardinality((Owned(q) \ collected)')
                 /\ ledger'[q] <= MaxPerPrincipal
      <4>1. (Owned(q) \ collected)' = Owned(q) \ collected
        BY <2>1, <2>3
      <4>2. ledger'[q] = ledger[q]
        BY <1>5, <2>3 DEF Collect, TypeOK
      <4> QED BY <4>1, <4>2 DEF LedgerExact
    <3> QED BY <3>1 DEF LedgerExact
  <2> QED BY <2>2, <2>3
<1>6. ASSUME NEW p \in Principal, Revoke(p) PROVE LedgerExact'
  <2>1. (Owned(p) \ collected)' = {}
    BY <1>6 DEF Revoke, Owned
  <2>2. ASSUME NEW q \in Principal, q # p
        PROVE  (Owned(q) \ collected)' = Owned(q) \ collected
    BY <1>6, <2>2 DEF Revoke, Owned
  <2>3. ASSUME NEW q \in Principal
        PROVE  /\ ledger'[q] = Cardinality((Owned(q) \ collected)')
               /\ ledger'[q] <= MaxPerPrincipal
    <3>1. ledger[q] = Cardinality(Owned(q) \ collected) /\ ledger[q] <= MaxPerPrincipal
      BY DEF LedgerExact
    <3>2. CASE q = p
      <4>1. ledger'[q] = 0
        BY <1>6, <3>2 DEF Revoke, TypeOK
      <4>2. Cardinality((Owned(q) \ collected)') = 0
        BY <2>1, <3>2, FS_EmptySet
      <4> QED BY <4>1, <4>2, LimitsAssumption
    <3>3. CASE q # p
      <4>1. (Owned(q) \ collected)' = Owned(q) \ collected
        BY <2>2, <3>3
      <4>2. ledger'[q] = ledger[q]
        BY <1>6, <3>3 DEF Revoke, TypeOK
      <4> QED BY <3>1, <4>1, <4>2
    <3> QED BY <3>2, <3>3
  <2> QED BY <2>3 DEF LedgerExact
<1> QED BY <1>1, <1>2, <1>3, <1>4, <1>5, <1>6, RegistryVariables

(* The registry is type correct ...                                        *)
THEOREM RuntimeInductive == Spec => []RInv
<1>1. RInv /\ [Next]_vars => RInv'
  BY TypeStep, FreshStep, RegisteredStep, ResultsStep, LedgerStep DEF RInv
<1> QED BY InitRInv, <1>1, PTL DEF Spec

THEOREM TypeCorrect == Spec => []TypeOK
<1>1. RInv => TypeOK
  BY DEF RInv
<1> QED BY <1>1, RuntimeInductive, PTL

(* ... and the ledger of every principal counts its uncollected entries    *)
(* and stays within the limit, however the calls mix.                      *)
THEOREM LedgerCorrect == Spec => []LedgerExact
<1>1. RInv => LedgerExact
  BY DEF RInv
<1> QED BY <1>1, RuntimeInductive, PTL

-----------------------------------------------------------------------------
(* Lineage.  The walk of ensure_manageable cannot leave the entries of the *)
(* caller's principal: they are closed under children.                     *)
LEMMA DescendantsOwned ==
    ASSUME RInv, LineageClosed, NEW p \in Principal, NEW c \in Owned(p),
           NEW t \in Descendants(c)
    PROVE  t \in Owned(p)
<1>1. ClosedUnderChildren(Owned(p))
  BY IdentityAssumption
     DEF ClosedUnderChildren, Owned, LineageClosed, RInv, TypeOK
<1>2. Owned(p) \in SUBSET registered
  BY DEF Owned
<1> QED BY <1>1, <1>2 DEF Descendants

LEMMA LineageStep == RInv /\ LineageClosed /\ [Next]_vars => LineageClosed'
<1> SUFFICES ASSUME RInv, LineageClosed, [Next]_vars PROVE LineageClosed'
    OBVIOUS
<1> USE IdentityAssumption DEF LineageClosed, RInv, TypeOK
<1>1. CASE UNCHANGED <<registered, owner, parent, depth, childCount, collected,
                       ledger, revoked>>
  BY <1>1
<1>2. ASSUME NEW p \in Principal, NEW a \in Agent, NEW par \in registered \cup {NoAgent},
             NEW d, NEW st, Register(a, p, par, d, st), par # NoAgent => owner[par] = p
      PROVE  LineageClosed'
  <2>1. a \notin registered
    BY <1>2 DEF Register, FreshIdentities
  <2> QED BY <1>2, <2>1 DEF Register
<1>3. ASSUME NEW p \in Principal, NEW a \in Agent, AttachRoot(p, a)
      PROVE  LineageClosed'
  BY <1>2, <1>3 DEF AttachRoot
<1>4. ASSUME NEW p \in Principal, NEW c \in registered, NEW a \in Agent,
             Spawn(p, c, a)
      PROVE  LineageClosed'
  BY <1>2, <1>4 DEF Spawn, Bound, Owned
<1>5. ASSUME NEW p \in Principal, NEW c \in registered, NEW t \in registered,
             NEW a \in Agent, Continue(p, c, t, a)
      PROVE  LineageClosed'
  <2>1. owner[t] = p
    BY <1>5, DescendantsOwned DEF Continue, Bound, Owned
  <2> QED BY <1>2, <1>5, <2>1 DEF Continue
<1>6. ASSUME NEW p \in Principal, NEW c \in registered, NEW t \in registered,
             Collect(p, c, t)
      PROVE  LineageClosed'
  BY <1>6 DEF Collect
<1>7. ASSUME NEW p \in Principal, Revoke(p) PROVE LineageClosed'
  BY <1>7 DEF Revoke, Owned
<1> QED BY <1>1, <1>3, <1>4, <1>5, <1>6, <1>7, RegistryVariables

(* Every registered entry hangs below registered entries of its own        *)
(* principal, so a revocation that goes by owner alone leaves no orphan.   *)
THEOREM LineageCorrect == Spec => []LineageClosed
<1>1. Init => LineageClosed
  BY DEF Init, LineageClosed
<1> QED BY <1>1, LineageStep, RuntimeInductive, PTL DEF Spec
-----------------------------------------------------------------------------
(* Permits.  A task that enters or leaves the holding phases changes the   *)
(* number of holders by one.                                               *)
LEMMA HoldersMove ==
    ASSUME TypeOK, NEW a \in Agent, NEW ph, task' = [task EXCEPT ![a] = ph]
    PROVE  /\ Cardinality(Holders) \in Nat
           /\ task[a] \in Holding /\ ph \notin Holding
                => Cardinality(Holders') = Cardinality(Holders) - 1
           /\ task[a] \notin Holding /\ ph \in Holding
                => Cardinality(Holders') = Cardinality(Holders) + 1
           /\ (task[a] \in Holding <=> ph \in Holding) => Holders' = Holders
<1>1. IsFiniteSet(Holders)
  BY FS_Subset, IdentityAssumption DEF Holders
<1>2. Cardinality(Holders) \in Nat
  BY <1>1, FS_CardinalityType
<1>3. CASE task[a] \in Holding /\ ph \notin Holding
  <2>1. a \in Holders /\ Holders' = Holders \ {a}
    BY <1>3 DEF Holders, TypeOK
  <2>2. Cardinality(Holders \ {a}) = Cardinality(Holders) - 1
    BY <1>1, <2>1, FS_RemoveElement
  <2> QED BY <1>2, <1>3, <2>1, <2>2
<1>4. CASE task[a] \notin Holding /\ ph \in Holding
  <2>1. a \notin Holders /\ Holders' = Holders \cup {a}
    BY <1>4 DEF Holders, TypeOK
  <2>2. Cardinality(Holders \cup {a}) = Cardinality(Holders) + 1
    BY <1>1, <2>1, FS_AddElement
  <2> QED BY <1>2, <1>4, <2>1, <2>2
<1>5. CASE task[a] \in Holding <=> ph \in Holding
  <2>1. Holders' = Holders
    BY <1>5 DEF Holders, TypeOK
  <2> QED BY <1>2, <1>5, <2>1
<1> QED BY <1>3, <1>4, <1>5

LEMMA PermitsStep == RInv /\ PermitsBalanced /\ [Next]_vars => PermitsBalanced'
<1> SUFFICES ASSUME RInv, PermitsBalanced, [Next]_vars PROVE PermitsBalanced'
    OBVIOUS
<1> USE DEF RInv
<1>0. permits \in Nat /\ MaxConcurrent \in Nat
  BY LimitsAssumption DEF TypeOK
<1>1. CASE UNCHANGED <<task, result, permits>>
  BY <1>1 DEF PermitsBalanced, Holders
<1>2. ASSUME NEW a \in Agent, status[a] = "Unborn",
             task' = [task EXCEPT ![a] = "queued"], UNCHANGED permits
      PROVE  PermitsBalanced'
  <2>1. task[a] \notin Holding /\ "queued" \notin Holding
    BY <1>2 DEF FreshIdentities, Holding
  <2> QED BY <1>2, <2>1, HoldersMove DEF PermitsBalanced
<1>3. ASSUME NEW a \in Agent, Task(a) PROVE PermitsBalanced'
  <2> DEFINE Kept == \E ph \in Holding : /\ task[a] \in Holding
                                         /\ task' = [task EXCEPT ![a] = ph]
                                         /\ permits' = permits
             Taken == \E ph \in Holding : /\ task[a] \notin Holding
                                          /\ task' = [task EXCEPT ![a] = ph]
                                          /\ permits' = permits - 1
             Given == \E ph \in Phase \ Holding : /\ task[a] \in Holding
                                                  /\ task' = [task EXCEPT ![a] = ph]
                                                  /\ permits' = permits + 1
             None == \E ph \in Phase \ Holding : /\ task[a] \notin Holding
                                                 /\ task' = [task EXCEPT ![a] = ph]
                                                 /\ permits' = permits
  <2>1. Kept \/ Taken \/ Given \/ None
    BY <1>3
       DEF Task, TaskCancelledInQueue, TaskAcquire, TaskMarkRunning,
           TaskCheckCancel, TaskStartCore, TaskPrepareFails, TaskCancelCore,
           TaskCoreReturns, TaskCancelEnds, TaskFinalize, TaskFinish, Return,
           Execute, Holding, Phase
  <2>2. CASE Kept
    BY <2>2, HoldersMove DEF PermitsBalanced
  <2>3. CASE Taken
    <3>1. /\ Cardinality(Holders) \in Nat
          /\ Cardinality(Holders') = Cardinality(Holders) + 1
      BY <2>3, HoldersMove
    <3> QED BY <1>0, <2>3, <3>1 DEF PermitsBalanced
  <2>4. CASE Given
    <3>1. /\ Cardinality(Holders) \in Nat
          /\ Cardinality(Holders') = Cardinality(Holders) - 1
      BY <2>4, HoldersMove
    <3> QED BY <1>0, <2>4, <3>1 DEF PermitsBalanced
  <2>5. CASE None
    BY <2>5, HoldersMove DEF PermitsBalanced
  <2> QED BY <2>1, <2>2, <2>3, <2>4, <2>5
<1> QED BY <1>1, <1>2, <1>3, TaskVariables

(* No path through a supervision task loses a permit or makes one up, so   *)
(* never more than MaxConcurrent cores run.                                *)
THEOREM PermitsCorrect == Spec => []PermitsBalanced
<1>1. Init => PermitsBalanced
  <2> SUFFICES ASSUME Init PROVE PermitsBalanced
      OBVIOUS
  <2>1. Holders = {}
    BY DEF Init, Holders, Holding
  <2> QED BY <2>1, FS_EmptySet, LimitsAssumption DEF Init, PermitsBalanced
<1> QED BY <1>1, PermitsStep, RuntimeInductive, PTL DEF Spec

-----------------------------------------------------------------------------
(* Statuses.  The four ways a status changes.                              *)
LEMMA StatusSteps ==
    ASSUME RInv, [Next]_vars
    PROVE  \/ UNCHANGED <<status, hasSession, collected>>
           \/ \E a \in Agent, st \in {"Ready", "Queued"} :
                 /\ status[a] = "Unborn" /\ status' = [status EXCEPT ![a] = st]
                 /\ UNCHANGED <<hasSession, collected>>
           \/ \E a \in Agent :
                 /\ status[a] = "Ready"
                 /\ status' = [status EXCEPT ![a] = "Cancelled"]
                 /\ UNCHANGED <<task, hasSession, collected>>
           \/ \E a \in Agent : /\ TaskMarkRunning(a) \/ TaskFinish(a)
                               /\ UNCHANGED collected
           \/ \E a \in Agent : /\ status[a] \in Terminal
                               /\ collected' = collected \cup {a}
                               /\ hasSession' = hasSession \ {a}
                               /\ UNCHANGED <<status, task>>
<1> USE DEF entryVars, runVars, revokeVars, taskUnchanged
<1> DEFINE Same == UNCHANGED <<status, hasSession, collected>>
           Born == \E a \in Agent, st \in {"Ready", "Queued"} :
                      /\ status[a] = "Unborn" /\ status' = [status EXCEPT ![a] = st]
                      /\ UNCHANGED <<hasSession, collected>>
<1>1. ASSUME NEW p \in Principal, NEW a \in Agent, AttachRoot(p, a) PROVE Born
  BY <1>1 DEF AttachRoot, Register
<1>2. ASSUME NEW p \in Principal, NEW c \in registered, NEW a \in Agent,
             Spawn(p, c, a)
      PROVE  Born
  BY <1>2 DEF Spawn, Register
<1>3. ASSUME NEW p \in Principal, NEW c \in registered, NEW t \in registered,
             NEW a \in Agent, Continue(p, c, t, a)
      PROVE  Born
  BY <1>3 DEF Continue, Register
<1>4. ASSUME NEW p \in Principal, NEW c \in registered, NEW t \in registered,
             Collect(p, c, t)
      PROVE  /\ status[t] \in Terminal
             /\ collected' = collected \cup {t}
             /\ hasSession' = hasSession \ {t}
             /\ UNCHANGED <<status, task>>
  BY <1>4 DEF Collect, Collectable
<1>5. ASSUME NEW p \in Principal, NEW c \in registered, NEW t \in registered,
             CancelTree(p, c, t)
      PROVE  Same
  BY <1>5 DEF CancelTree
<1>6. ASSUME NEW p \in Principal, Revoke(p) PROVE Same
  BY <1>6 DEF Revoke
<1>7. ASSUME NEW a \in Agent, CancelEntry(a)
      PROVE  Same \/ /\ status[a] = "Ready"
                     /\ status' = [status EXCEPT ![a] = "Cancelled"]
                     /\ UNCHANGED <<task, hasSession, collected>>
  BY <1>7 DEF CancelEntry, CancelsAtOnce
<1>8. ASSUME NEW p \in Principal, NEW a \in Agent, AwaitRevoked(p, a) PROVE Same
  BY <1>8 DEF AwaitRevoked
<1>9. CASE CancelActiveRuns \/ ReleaseLifecycle \/ UNCHANGED vars
  BY <1>9 DEF CancelActiveRuns, ReleaseLifecycle, vars
<1>10. ASSUME NEW a \in Agent, Task(a)
       PROVE  Same \/ /\ TaskMarkRunning(a) \/ TaskFinish(a)
                      /\ UNCHANGED collected
  BY <1>10
     DEF Task, TaskCancelledInQueue, TaskAcquire, TaskMarkRunning,
         TaskCheckCancel, TaskStartCore, TaskPrepareFails, TaskCancelCore,
         TaskCoreReturns, TaskCancelEnds, TaskFinalize, TaskFinish
<1>11. (\E t \in registered : /\ status[t] \in Terminal
                              /\ collected' = collected \cup {t}
                              /\ hasSession' = hasSession \ {t}
                              /\ UNCHANGED <<status, task>>)
       => \E a \in Agent : /\ status[a] \in Terminal
                           /\ collected' = collected \cup {a}
                           /\ hasSession' = hasSession \ {a}
                           /\ UNCHANGED <<status, task>>
  BY DEF RInv, TypeOK
<1> QED
  BY <1>1, <1>2, <1>3, <1>4, <1>5, <1>6, <1>7, <1>8, <1>9, <1>10, <1>11
     DEF Next, Call

LEMMA FlagsStay == [Next]_vars => cancelRequested \subseteq cancelRequested'
<1> SUFFICES ASSUME [Next]_vars PROVE cancelRequested \subseteq cancelRequested'
    OBVIOUS
<1> USE DEF entryVars, runVars, revokeVars, taskUnchanged
<1>1. ASSUME NEW p \in Principal, Call(p) PROVE UNCHANGED cancelRequested
  BY <1>1 DEF Call, AttachRoot, Spawn, Continue, Collect, CancelTree, Revoke
<1>2. ASSUME NEW a \in Agent, CancelEntry(a)
      PROVE  cancelRequested \subseteq cancelRequested'
  BY <1>2 DEF CancelEntry
<1>3. ASSUME NEW p \in Principal, NEW a \in Agent, AwaitRevoked(p, a)
      PROVE  UNCHANGED cancelRequested
  BY <1>3 DEF AwaitRevoked
<1>4. CASE CancelActiveRuns \/ ReleaseLifecycle \/ UNCHANGED vars
  BY <1>4 DEF CancelActiveRuns, ReleaseLifecycle, vars
<1>5. ASSUME NEW a \in Agent, Task(a) PROVE UNCHANGED cancelRequested
  BY <1>5
     DEF Task, TaskCancelledInQueue, TaskAcquire, TaskMarkRunning,
         TaskCheckCancel, TaskStartCore, TaskPrepareFails, TaskCancelCore,
         TaskCoreReturns, TaskCancelEnds, TaskFinalize, TaskFinish
<1> QED BY <1>1, <1>2, <1>3, <1>4, <1>5 DEF Next

(* A terminal status is never overwritten, a collected entry never comes   *)
(* back and a cancellation is never withdrawn.                             *)
THEOREM OutcomesFinal == Spec => OutcomesAreFinal
<1> DEFINE Final == /\ \A a \in Agent : status[a] \in Terminal => status'[a] = status[a]
                    /\ collected \subseteq collected'
                    /\ cancelRequested \subseteq cancelRequested'
<1>1. RInv /\ [Next]_vars => [Final]_vars
  <2> SUFFICES ASSUME RInv, [Next]_vars PROVE Final
      OBVIOUS
  <2> USE DEF Terminal, RInv, TypeOK
  <2>1. ASSUME NEW a \in Agent, status[a] \in Terminal PROVE status'[a] = status[a]
    BY <2>1, StatusSteps DEF TaskMarkRunning, TaskFinish
  <2>2. collected \subseteq collected'
    BY StatusSteps DEF TaskMarkRunning, TaskFinish
  <2> QED BY <2>1, <2>2, FlagsStay
<1> QED BY <1>1, RuntimeInductive, PTL DEF Spec, OutcomesAreFinal
-----------------------------------------------------------------------------
LEMMA LiveStep == RInv /\ LiveIsSupervised /\ [Next]_vars => LiveIsSupervised'
<1> SUFFICES ASSUME RInv, LiveIsSupervised, [Next]_vars PROVE LiveIsSupervised'
    OBVIOUS
<1> USE DEF RInv, TypeOK, LiveIsSupervised, Status, Terminal
<1>1. ASSUME NEW a \in Agent, Task(a) PROVE LiveIsSupervised'
  <2>1. CASE TaskFinish(a)
    BY <2>1 DEF TaskFinish, ResultsReady
  <2>2. CASE TaskMarkRunning(a)
    BY <2>2 DEF TaskMarkRunning
  <2>3. CASE ~TaskFinish(a) /\ ~TaskMarkRunning(a)
    <3>1. /\ task[a] \notin {"none", "done"} /\ UNCHANGED status
          /\ \E ph \in Phase \ {"none", "done"} : task' = [task EXCEPT ![a] = ph]
      BY <1>1, <2>3
         DEF Task, TaskCancelledInQueue, TaskAcquire, TaskCheckCancel,
             TaskStartCore, TaskPrepareFails, TaskCancelCore, TaskCoreReturns,
             TaskCancelEnds, TaskFinalize, Return, Execute, Phase, Holding
    <3> QED BY <3>1
  <2> QED BY <2>1, <2>2, <2>3
<1>2. ASSUME NEW a \in Agent, status[a] = "Unborn",
             task' = [task EXCEPT ![a] = "queued"],
             status' = [status EXCEPT ![a] = "Queued"]
      PROVE  LiveIsSupervised'
  BY <1>2
<1>3. CASE UNCHANGED <<task, result, permits>>
  <2>1. CASE UNCHANGED status
    BY <1>3, <2>1
  <2>2. ASSUME NEW a \in Agent, status[a] = "Unborn" \/ status[a] = "Ready",
               \E st \in {"Ready", "Cancelled"} : status' = [status EXCEPT ![a] = st]
        PROVE  LiveIsSupervised'
    BY <1>3, <2>2
  <2>4. ASSUME NEW p \in Principal, NEW a \in Agent, AttachRoot(p, a)
        PROVE  LiveIsSupervised'
    BY <2>2, <2>4 DEF AttachRoot, Register
  <2>5. ASSUME NEW p \in Principal, NEW c \in registered, NEW a \in Agent,
               Spawn(p, c, a)
        PROVE  FALSE
    BY <1>3, <2>5 DEF Spawn, Register, FreshIdentities
  <2>6. ASSUME NEW p \in Principal, NEW c \in registered, NEW t \in registered,
               NEW a \in Agent, Continue(p, c, t, a)
        PROVE  FALSE
    BY <1>3, <2>6 DEF Continue, Register, FreshIdentities
  <2>7. ASSUME NEW p \in Principal, NEW c \in registered, NEW t \in registered,
               Collect(p, c, t) \/ CancelTree(p, c, t)
        PROVE  UNCHANGED status
    BY <2>7 DEF Collect, CancelTree, runVars
  <2>8. ASSUME NEW p \in Principal, Revoke(p) PROVE UNCHANGED status
    BY <2>8 DEF Revoke, runVars
  <2>9. ASSUME NEW a \in Agent, CancelEntry(a) PROVE LiveIsSupervised'
    BY <2>1, <2>2, <2>9 DEF CancelEntry, CancelsAtOnce
  <2>10. ASSUME NEW p \in Principal, NEW a \in Agent, AwaitRevoked(p, a)
         PROVE  UNCHANGED status
    BY <2>10 DEF AwaitRevoked, runVars
  <2>11. CASE CancelActiveRuns \/ ReleaseLifecycle \/ UNCHANGED vars
    BY <2>1, <2>11 DEF CancelActiveRuns, ReleaseLifecycle, vars, runVars
  <2> QED
    BY <1>1, <2>1, <2>4, <2>5, <2>6, <2>7, <2>8, <2>9, <2>10, <2>11
       DEF Next, Call
<1> QED BY <1>1, <1>2, <1>3, TaskVariables

(* An entry is Queued or Running exactly while its supervision task goes   *)
(* on: nobody waits for a task that is gone.                               *)
THEOREM LiveSupervised == Spec => []LiveIsSupervised
<1>1. Init => LiveIsSupervised
  BY DEF Init, LiveIsSupervised
<1> QED BY <1>1, LiveStep, RuntimeInductive, PTL DEF Spec

-----------------------------------------------------------------------------
(* Sessions.  Nothing is collected before it has an outcome, and that      *)
(* outcome stays, so a session is never put back into a collected entry.   *)
SessionInv ==
    /\ \A a \in collected : status[a] \in Terminal
    /\ SessionsOfSuccesses

LEMMA SessionStep == RInv /\ SessionInv /\ [Next]_vars => SessionInv'
<1> SUFFICES ASSUME RInv, SessionInv, [Next]_vars PROVE SessionInv'
    OBVIOUS
<1> USE DEF RInv, TypeOK, Status, Terminal
<1>1. ASSUME NEW a \in Agent, status[a] \in Terminal PROVE status'[a] = status[a]
  BY <1>1, StatusSteps DEF TaskMarkRunning, TaskFinish
<1>2. \A a \in collected' : status'[a] \in Terminal
  BY <1>1, StatusSteps DEF SessionInv, TaskMarkRunning, TaskFinish, taskUnchanged
<1>3. \A a \in hasSession' : status'[a] = "Succeeded" /\ a \notin collected'
  BY <1>1, StatusSteps
     DEF SessionInv, SessionsOfSuccesses, TaskMarkRunning, TaskFinish
<1>4. ASSUME NEW a \in Agent, parent'[a] # NoAgent, depth'[a] = depth'[parent'[a]]
      PROVE  status'[parent'[a]] = "Succeeded"
  <2> USE IdentityAssumption DEF SessionInv, SessionsOfSuccesses
  <2>1. CASE UNCHANGED <<registered, owner, parent, depth, childCount, collected,
                         ledger, revoked>>
    BY <1>1, <1>4, <2>1
  <2>2. ASSUME NEW p \in Principal, NEW b \in Agent, AttachRoot(p, b)
        PROVE  status'[parent'[a]] = "Succeeded"
    BY <1>1, <1>4, <2>2 DEF AttachRoot, Register, FreshIdentities
  <2>3. ASSUME NEW p \in Principal, NEW c \in registered, NEW b \in Agent,
               Spawn(p, c, b)
        PROVE  status'[parent'[a]] = "Succeeded"
    BY <1>1, <1>4, <2>3 DEF Spawn, Register, FreshIdentities
  <2>4. ASSUME NEW p \in Principal, NEW c \in registered, NEW t \in registered,
               NEW b \in Agent, Continue(p, c, t, b)
        PROVE  status'[parent'[a]] = "Succeeded"
    BY <1>1, <1>4, <2>4 DEF Continue, Continuable, Register, FreshIdentities
  <2>5. ASSUME NEW p \in Principal, NEW c \in registered, NEW t \in registered,
               Collect(p, c, t)
        PROVE  status'[parent'[a]] = "Succeeded"
    BY <1>1, <1>4, <2>5 DEF Collect
  <2>6. ASSUME NEW p \in Principal, Revoke(p)
        PROVE  status'[parent'[a]] = "Succeeded"
    BY <1>1, <1>4, <2>6 DEF Revoke, runVars
  <2> QED BY <2>1, <2>2, <2>3, <2>4, <2>5, <2>6, RegistryVariables
<1> QED BY <1>2, <1>3, <1>4 DEF SessionInv, SessionsOfSuccesses

(* Only a successful, uncollected run leaves a session, and a continuation *)
(* always continues a run that succeeded.                                  *)
THEOREM SessionsCorrect == Spec => []SessionsOfSuccesses
<1>1. Init => SessionInv
  BY DEF Init, SessionInv, SessionsOfSuccesses
<1>2. SessionInv => SessionsOfSuccesses
  BY DEF SessionInv
<1> QED BY <1>1, <1>2, SessionStep, RuntimeInductive, PTL DEF Spec
-----------------------------------------------------------------------------
(* Quotas of children and depth.                                           *)
Children(a) == {b \in Agent : parent[b] = a /\ depth[b] = depth[a] + 1}

LEMMA QuotaStep == RInv /\ SpawnQuota /\ [Next]_vars => SpawnQuota'
<1> SUFFICES ASSUME RInv, SpawnQuota, [Next]_vars PROVE SpawnQuota'
    OBVIOUS
<1> USE IdentityAssumption, LimitsAssumption DEF RInv, TypeOK
<1>1. ASSUME UNCHANGED <<parent, depth, childCount>> PROVE SpawnQuota'
  <2>1. ASSUME NEW x \in Agent PROVE Children(x)' = Children(x)
    BY <1>1 DEF Children
  <2>2. ASSUME NEW x \in Agent
        PROVE  /\ childCount'[x] = Cardinality(Children(x)')
               /\ childCount'[x] <= MaxChildren
               /\ depth'[x] <= MaxDepth
    <3>1. /\ childCount[x] = Cardinality(Children(x))
          /\ childCount[x] <= MaxChildren /\ depth[x] <= MaxDepth
      BY DEF SpawnQuota, Children
    <3> QED BY <1>1, <2>1, <3>1
  <2> QED BY <2>2 DEF SpawnQuota, Children
<1>2. ASSUME NEW p \in Principal, NEW b \in Agent, AttachRoot(p, b)
      PROVE  SpawnQuota'
  <2>1. /\ status[b] = "Unborn" /\ UNCHANGED childCount
        /\ parent' = [parent EXCEPT ![b] = NoAgent] /\ depth' = [depth EXCEPT ![b] = 0]
    BY <1>2 DEF AttachRoot, Register
  <2>2. parent' = parent /\ depth' = depth
    BY <2>1 DEF FreshIdentities
  <2> QED BY <1>1, <2>1, <2>2
<1>3. ASSUME NEW p \in Principal, NEW c \in registered, NEW b \in Agent,
             Spawn(p, c, b)
      PROVE  SpawnQuota'
  <2>1. /\ status[b] = "Unborn" /\ b # c
        /\ parent' = [parent EXCEPT ![b] = c]
        /\ depth' = [depth EXCEPT ![b] = depth[c] + 1]
        /\ childCount' = [childCount EXCEPT ![c] = @ + 1]
        /\ childCount[c] < MaxChildren /\ depth[c] + 1 <= MaxDepth
    BY <1>3 DEF Spawn, Register, ReserveChild, FreshIdentities
  <2>2. parent[b] = NoAgent /\ \A x \in Agent : parent[x] # b
    BY <2>1 DEF FreshIdentities
  <2>3. ASSUME NEW x \in Agent, x # c PROVE Children(x)' = Children(x)
    BY <2>1, <2>2, <2>3 DEF Children
  <2>4. Children(c)' = Children(c) \cup {b} /\ b \notin Children(c)
    BY <2>1, <2>2 DEF Children
  <2>5. IsFiniteSet(Children(c))
    BY FS_Subset DEF Children
  <2>6. Cardinality(Children(c) \cup {b}) = Cardinality(Children(c)) + 1
    BY <2>4, <2>5, FS_AddElement
  <2>7. ASSUME NEW x \in Agent
        PROVE  /\ childCount'[x] = Cardinality(Children(x)')
               /\ childCount'[x] <= MaxChildren
               /\ depth'[x] <= MaxDepth
    <3>1. /\ childCount[x] = Cardinality(Children(x))
          /\ childCount[x] <= MaxChildren /\ depth[x] <= MaxDepth
      BY DEF SpawnQuota, Children
    <3>2. depth'[x] <= MaxDepth
      BY <2>1, <3>1
    <3>3. CASE x = c
      <4>1. Cardinality(Children(x)') = Cardinality(Children(x)) + 1
        BY <2>4, <2>6, <3>3
      <4>2. childCount'[x] = childCount[x] + 1 /\ childCount[x] + 1 <= MaxChildren
        BY <2>1, <3>3
      <4> QED BY <3>1, <3>2, <4>1, <4>2
    <3>4. CASE x # c
      <4>1. Children(x)' = Children(x)
        BY <2>3, <3>4
      <4>2. childCount'[x] = childCount[x]
        BY <2>1, <3>4
      <4> QED BY <3>1, <3>2, <4>1, <4>2
    <3> QED BY <3>3, <3>4
  <2> QED BY <2>7 DEF SpawnQuota, Children
<1>4. ASSUME NEW p \in Principal, NEW c \in registered, NEW t \in registered,
             NEW b \in Agent, Continue(p, c, t, b)
      PROVE  SpawnQuota'
  <2>1. /\ status[b] = "Unborn" /\ b # t /\ UNCHANGED childCount
        /\ parent' = [parent EXCEPT ![b] = t]
        /\ depth' = [depth EXCEPT ![b] = depth[t]]
    BY <1>4 DEF Continue, Register, FreshIdentities
  <2>2. parent[b] = NoAgent /\ \A x \in Agent : parent[x] # b
    BY <2>1 DEF FreshIdentities
  <2>3. ASSUME NEW x \in Agent PROVE Children(x)' = Children(x)
    BY <2>1, <2>2 DEF Children
  <2>4. ASSUME NEW x \in Agent
        PROVE  /\ childCount'[x] = Cardinality(Children(x)')
               /\ childCount'[x] <= MaxChildren
               /\ depth'[x] <= MaxDepth
    <3>1. /\ childCount[x] = Cardinality(Children(x))
          /\ childCount[x] <= MaxChildren /\ depth[x] <= MaxDepth
      BY DEF SpawnQuota, Children
    <3>2. depth'[x] <= MaxDepth
      BY <2>1 DEF SpawnQuota
    <3> QED BY <2>1, <2>3, <3>1, <3>2
  <2> QED BY <2>4 DEF SpawnQuota, Children
<1>5. ASSUME NEW p \in Principal, NEW c \in registered, NEW t \in registered,
             Collect(p, c, t)
      PROVE  SpawnQuota'
  BY <1>1, <1>5 DEF Collect
<1>6. ASSUME NEW p \in Principal, Revoke(p) PROVE SpawnQuota'
  BY <1>1, <1>6 DEF Revoke
<1> QED BY <1>1, <1>2, <1>3, <1>4, <1>5, <1>6, RegistryVariables

(* child_count counts the spawned children within their quota, and nothing *)
(* is deeper than the limit: continuations use neither.                    *)
THEOREM QuotaCorrect == Spec => []SpawnQuota
<1>1. Init => SpawnQuota
  <2> SUFFICES ASSUME Init, NEW a \in Agent
               PROVE  /\ childCount[a] = Cardinality(Children(a))
                      /\ childCount[a] <= MaxChildren /\ depth[a] <= MaxDepth
      BY DEF SpawnQuota, Children
  <2>1. Children(a) = {}
    BY IdentityAssumption DEF Init, Children
  <2> QED BY <2>1, FS_EmptySet, LimitsAssumption DEF Init
<1> QED BY <1>1, QuotaStep, RuntimeInductive, PTL DEF Spec
-----------------------------------------------------------------------------
(* Revocation.  Until its loop is over, an entry that is not yet asked to  *)
(* stop is still in the batch, and the batch belongs to the revocation.    *)
RevokeInv ==
    \A p \in revoked :
        /\ Owned(p) = {}
        /\ \A a \in Agent : owner[a] = p /\ status[a] \notin Terminal =>
               a \in cancelRequested \/ (revoker = p /\ a \in cancelBatch)

LEMMA RevokeStep == RInv /\ RevokeInv /\ [Next]_vars => RevokeInv'
<1> SUFFICES ASSUME RInv, RevokeInv, [Next]_vars PROVE RevokeInv'
    OBVIOUS
<1> USE IdentityAssumption
    DEF RInv, TypeOK, RevokeInv, Terminal, Status, entryVars, runVars,
        revokeVars, taskUnchanged, LifecycleFree, Bound, Owned
<1>1. ASSUME NEW p \in Principal, NEW a \in Agent, AttachRoot(p, a)
      PROVE  RevokeInv'
  BY <1>1 DEF AttachRoot, Register, FreshIdentities
<1>2. ASSUME NEW p \in Principal, NEW c \in registered, NEW a \in Agent,
             Spawn(p, c, a)
      PROVE  RevokeInv'
  BY <1>2 DEF Spawn, Register, FreshIdentities
<1>3. ASSUME NEW p \in Principal, NEW c \in registered, NEW t \in registered,
             NEW a \in Agent, Continue(p, c, t, a)
      PROVE  RevokeInv'
  BY <1>3 DEF Continue, Register, FreshIdentities
<1>4. ASSUME NEW p \in Principal, NEW c \in registered, NEW t \in registered,
             Collect(p, c, t)
      PROVE  RevokeInv'
  BY <1>4 DEF Collect
<1>5. ASSUME NEW p \in Principal, NEW c \in registered, NEW t \in registered,
             CancelTree(p, c, t)
      PROVE  RevokeInv'
  BY <1>5 DEF CancelTree
<1>6. CASE CancelActiveRuns
  BY <1>6 DEF CancelActiveRuns
<1>7. ASSUME NEW p \in Principal, Revoke(p) PROVE RevokeInv'
  BY <1>7 DEF Revoke, RegisteredUntilRevoked, FreshIdentities
<1>8. ASSUME NEW a \in Agent, CancelEntry(a) PROVE RevokeInv'
  BY <1>8 DEF CancelEntry, CancelsTask, CancelsAtOnce, FreshIdentities
<1>9. CASE ReleaseLifecycle
  BY <1>9 DEF ReleaseLifecycle
<1>10. ASSUME NEW p \in Principal, NEW a \in Agent, AwaitRevoked(p, a)
       PROVE  RevokeInv'
  BY <1>10 DEF AwaitRevoked
<1>11. ASSUME NEW a \in Agent, Task(a) PROVE RevokeInv'
  <2>1. UNCHANGED taskUnchanged
    BY <1>11
       DEF Task, TaskCancelledInQueue, TaskAcquire, TaskMarkRunning,
           TaskCheckCancel, TaskStartCore, TaskPrepareFails, TaskCancelCore,
           TaskCoreReturns, TaskCancelEnds, TaskFinalize, TaskFinish
  <2>2. \A b \in Agent : status[b] \in Terminal => status'[b] \in Terminal
    BY StatusSteps DEF TaskMarkRunning, TaskFinish
  <2> QED BY <2>1, <2>2
<1>12. CASE UNCHANGED vars
  BY <1>12 DEF vars
<1> QED
  BY <1>1, <1>2, <1>3, <1>4, <1>5, <1>6, <1>7, <1>8, <1>9, <1>10, <1>11, <1>12
     DEF Next, Call

(* Once a revocation has gone through its entries, each of them has its    *)
(* outcome or its cancellation, and the principal registers nothing again. *)
THEOREM RevocationCorrect == Spec => []RevokedAreCancelled
<1>1. Init => RevokeInv
  BY DEF Init, RevokeInv
<1>2. RevokeInv => RevokedAreCancelled
  BY DEF RevokeInv, RevokedAreCancelled
<1> QED BY <1>1, <1>2, RevokeStep, RuntimeInductive, PTL DEF Spec

(* The tree of agents: lineage, quotas and continuations together.         *)
THEOREM TreeCorrect == Spec => []TreeInOrder
BY LineageCorrect, QuotaCorrect, SessionsCorrect, PTL DEF TreeInOrder

(* The permits and the tasks that hold them.                               *)
THEOREM TasksCorrect == Spec => []TasksAccounted
BY PermitsCorrect, LiveSupervised, PTL DEF TasksAccounted
==============================================================================
