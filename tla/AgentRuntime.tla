---------------------------- MODULE AgentRuntime ----------------------------
(***************************************************************************)
(* The registry of crates/agent-core/runtime: roots are attached for a     *)
(* principal, agents are spawned and continued below them, every spawned   *)
(* or continued agent has one supervision task (run_agent_task), and the   *)
(* owner cancels, collects or revokes.                                     *)
(*                                                                         *)
(* Operations that change the registry hold the `lifecycle` mutex, so they *)
(* are atomic with respect to each other; the supervision tasks do not     *)
(* hold it and run in between.  A cancellation walks over several entries  *)
(* while the tasks go on, so it is one step per entry: `cancelBatch` holds *)
(* the entries that the holder of the mutex has still to visit.            *)
(***************************************************************************)
EXTENDS Integers, FiniteSets, TLC

CONSTANTS
    Agent,              \* the identities AgentId::new() can return
    Principal,          \* the trusted owners, the host among them
    NoAgent,            \* "no parent"
    NoPrincipal,        \* no revocation holds the mutex
    MaxDepth,           \* RuntimeLimits.max_depth
    MaxChildren,        \* RuntimeLimits.max_children_per_agent
    MaxPerPrincipal,    \* RuntimeLimits.max_agents_per_principal
    MaxConcurrent       \* RuntimeLimits.max_concurrent_agents

ASSUME IdentityAssumption == /\ NoAgent \notin Agent
                             /\ NoPrincipal \notin Principal
                             /\ IsFiniteSet(Agent)

\* RuntimeLimits::validate: the depth may be zero, the three others may not.
ASSUME LimitsAssumption == /\ MaxDepth \in Nat
                           /\ MaxChildren \in Nat \ {0}
                           /\ MaxPerPrincipal \in Nat \ {0}
                           /\ MaxConcurrent \in Nat \ {0}

VARIABLES
    registered,         \* the keys of RuntimeInner.agents
    owner,              \* AgentEntry.owner
    parent,             \* AgentEntry.lineage.parent
    depth,              \* AgentEntry.lineage.depth
    status,             \* AgentEntry.status, "Unborn" before the entry exists
    hasSession,         \* entries whose private session is kept
    childCount,         \* AgentEntry.child_count
    cancelRequested,    \* entries whose cancel_requested flag is set
    collected,          \* entries whose collected flag is set
    ledger,             \* PrincipalUsage.registered_agents
    revoked,            \* RuntimeInner.revoked_principals
    permits,            \* permits left in RuntimeInner.semaphore
    task,               \* where the supervision task of an entry is
    result,             \* what that task has computed so far
    cancelBatch,        \* entries the holder of `lifecycle` must still cancel
    revoker,            \* the principal whose revocation holds `lifecycle`
    awaited             \* entries a revocation waits for, per principal

entryVars == <<registered, owner, parent, depth, childCount, collected>>
runVars   == <<status, hasSession, permits, task, result>>
revokeVars == <<revoked, revoker, awaited>>
vars == <<registered, owner, parent, depth, status, hasSession, childCount,
          cancelRequested, collected, ledger, revoked, permits, task, result,
          cancelBatch, revoker, awaited>>

Terminal == {"Succeeded", "Failed", "Cancelled"}
Status   == {"Unborn", "Ready", "Queued", "Running"} \cup Terminal

\* The phases of run_agent_task.  From "acquired" to "cancelling" the task
\* holds a permit of the semaphore.
Holding == {"acquired", "starting", "preparing", "core", "cancelling"}
Phase   == {"none", "queued", "finalizing", "completing", "done"} \cup Holding

\* RuntimeCoreCompletion, split by run.cancelled and by the presence of an
\* error, and the outcome it becomes.
Execution == {"Finished", "FinishedCancelled", "FinishedError",
              "CancelledClean", "CancelledError"}
Result    == {"none"} \cup Execution \cup Terminal

Holders == {a \in Agent : task[a] \in Holding}

Owned(p) == {a \in registered : owner[a] = p}

\* The entries that ensure_manageable lets `c` manage and that
\* descendants_including collects: those whose chain of parents reaches `c`.
ClosedUnderChildren(S) == \A a \in registered : parent[a] \in S => a \in S
Descendants_AnyEntry(c) == registered          \* mutant: no walk up the lineage
Descendants(c) ==
    {a \in registered : \A S \in SUBSET registered :
                            c \in S /\ ClosedUnderChildren(S) => a \in S}

LifecycleFree_NoMutex == TRUE                  \* mutant: the mutex is not taken
LifecycleFree == cancelBatch = {} /\ revoker = NoPrincipal

\* BoundAgentRuntime: principal p calls through the identity c it owns.
Bound(p, c) == p \notin revoked /\ c \in Owned(p)
-----------------------------------------------------------------------------
Init ==
    /\ registered = {}
    /\ owner = [a \in Agent |-> NoPrincipal]
    /\ parent = [a \in Agent |-> NoAgent]
    /\ depth = [a \in Agent |-> 0]
    /\ status = [a \in Agent |-> "Unborn"]
    /\ hasSession = {}
    /\ childCount = [a \in Agent |-> 0]
    /\ cancelRequested = {}
    /\ collected = {}
    /\ ledger = [p \in Principal |-> 0]
    /\ revoked = {}
    /\ permits = MaxConcurrent
    /\ task = [a \in Agent |-> "none"]
    /\ result = [a \in Agent |-> "none"]
    /\ cancelBatch = {}
    /\ revoker = NoPrincipal
    /\ awaited = [p \in Principal |-> {}]

\* AgentEntry::new and its insertion, with the reservation in the ledger that
\* goes before it (reserve_principal_agent).
Register(a, p, par, d, st) ==
    /\ status[a] = "Unborn"
    /\ ledger[p] < MaxPerPrincipal
    /\ ledger' = [ledger EXCEPT ![p] = @ + 1]
    /\ registered' = registered \cup {a}
    /\ owner' = [owner EXCEPT ![a] = p]
    /\ parent' = [parent EXCEPT ![a] = par]
    /\ depth' = [depth EXCEPT ![a] = d]
    /\ status' = [status EXCEPT ![a] = st]

\* attach_root_for
AttachRoot(p, a) ==
    /\ LifecycleFree
    /\ p \notin revoked
    /\ Register(a, p, NoAgent, 0, "Ready")
    /\ UNCHANGED <<hasSession, childCount, cancelRequested, collected, revoked,
                   permits, task, result, cancelBatch, revoker, awaited>>

\* AgentEntry::reserve_child
ReserveChild_OffByOne(c) == /\ childCount[c] <= MaxChildren          \* mutant
                            /\ childCount' = [childCount EXCEPT ![c] = @ + 1]
ReserveChild(c) == /\ childCount[c] < MaxChildren
                   /\ childCount' = [childCount EXCEPT ![c] = @ + 1]

\* spawn_from: the reservation of a child is rolled back with the one in the
\* ledger when the parent has no child left, so the two go together.  The
\* parent is checked for the last time under the registry's write lock.
Spawn(p, c, a) ==
    /\ LifecycleFree
    /\ Bound(p, c)
    /\ status[c] \notin Terminal
    /\ depth[c] + 1 <= MaxDepth
    /\ ReserveChild(c)
    /\ Register(a, p, c, depth[c] + 1, "Queued")
    /\ task' = [task EXCEPT ![a] = "queued"]
    /\ UNCHANGED <<hasSession, cancelRequested, collected, revoked, permits,
                   result, cancelBatch, revoker, awaited>>

\* continuation_session
Continuable_Ended(t) == status[t] \in Terminal                         \* mutant
Continuable(t) == status[t] = "Succeeded" /\ t \in hasSession

\* continue_from: the new entry keeps the depth of the one it continues and
\* takes no child of its parent's quota.
Continue(p, c, t, a) ==
    /\ LifecycleFree
    /\ Bound(p, c)
    /\ t \in Descendants(c)
    /\ Continuable(t)
    /\ Register(a, p, t, depth[t], "Queued")
    /\ task' = [task EXCEPT ![a] = "queued"]
    /\ UNCHANGED <<hasSession, childCount, cancelRequested, collected, revoked,
                   permits, result, cancelBatch, revoker, awaited>>

\* collect_for with collect_resources: only the first collection counts.
Collectable_Again(t) == status[t] \in Terminal                         \* mutant
Collectable(t) == status[t] \in Terminal /\ t \notin collected

Collect(p, c, t) ==
    /\ LifecycleFree
    /\ Bound(p, c)
    /\ t \in Descendants(c)
    /\ Collectable(t)
    /\ collected' = collected \cup {t}
    /\ hasSession' = hasSession \ {t}
    /\ ledger' = [ledger EXCEPT ![owner[t]] = @ - 1]
    /\ UNCHANGED <<registered, owner, parent, depth, status, childCount,
                   cancelRequested, revoked, permits, task, result,
                   cancelBatch, revoker, awaited>>
-----------------------------------------------------------------------------
\* cancel_for: snapshot of the descendants, to be visited one by one.
CancelTree(p, c, t) ==
    /\ LifecycleFree
    /\ Bound(p, c)
    /\ t \in Descendants(c)
    /\ cancelBatch' = Descendants(t)
    /\ UNCHANGED <<entryVars, runVars, revokeVars, cancelRequested, ledger>>

\* cancel_active_runs: every entry, whatever its owner, that is queued or
\* running when it is visited; a Ready controller is left alone.
CancelActiveRuns ==
    /\ LifecycleFree
    /\ cancelBatch' = {a \in registered : status[a] \in {"Queued", "Running"}}
    /\ cancelBatch' # {}
    /\ UNCHANGED <<entryVars, runVars, revokeVars, cancelRequested, ledger>>

\* revoke_principal up to the loop: the principal is marked, its ledger is
\* dropped and its entries leave the registry.
Revoke(p) ==
    /\ LifecycleFree
    /\ p \notin revoked
    /\ revoked' = revoked \cup {p}
    /\ revoker' = p
    /\ ledger' = [ledger EXCEPT ![p] = 0]
    /\ registered' = registered \ Owned(p)
    /\ cancelBatch' = Owned(p)
    /\ UNCHANGED <<owner, parent, depth, childCount, collected, runVars,
                   cancelRequested, awaited>>

\* request_cancel on one entry of the batch.  A Ready entry has no task and
\* becomes Cancelled at once; a live one is flagged once; the rest is left.
\* revoke_principal remembers the entries for which it returned true.
CancelsAtOnce_NotYetCancelled(a) == status[a] # "Cancelled"            \* mutant
CancelsAtOnce_NotRunning(a) == status[a] \in {"Ready", "Queued"}       \* mutant
CancelsAtOnce(a) == status[a] = "Ready"
CancelsTask(a) == status[a] \in {"Queued", "Running"} /\ a \notin cancelRequested

CancelEntry(a) ==
    /\ a \in cancelBatch
    /\ cancelBatch' = cancelBatch \ {a}
    /\ status' = IF CancelsAtOnce(a) THEN [status EXCEPT ![a] = "Cancelled"]
                                     ELSE status
    /\ cancelRequested' = cancelRequested \cup {b \in {a} : CancelsTask(b)}
    /\ awaited' = IF revoker # NoPrincipal /\ (CancelsAtOnce(a) \/ CancelsTask(a))
                  THEN [awaited EXCEPT ![revoker] = @ \cup {a}] ELSE awaited
    /\ UNCHANGED <<entryVars, hasSession, permits, task, result, ledger,
                   revoked, revoker>>

\* drop(_lifecycle): the revocation goes on to wait without the mutex.
ReleaseLifecycle ==
    /\ cancelBatch = {} /\ revoker # NoPrincipal
    /\ revoker' = NoPrincipal
    /\ UNCHANGED <<entryVars, runVars, cancelRequested, ledger, revoked,
                   cancelBatch, awaited>>

\* mutant: the entry is looked up in the registry again
AwaitRevoked_Lookup(p, a) ==
    /\ revoker # p
    /\ a \in awaited[p] \cap registered
    /\ status[a] \in Terminal
    /\ awaited' = [awaited EXCEPT ![p] = @ \ {a}]
    /\ UNCHANGED <<entryVars, runVars, cancelRequested, ledger, revoked,
                   revoker, cancelBatch>>

\* wait_until_finished for one of the entries the revocation cancelled.  The
\* principal is revoked, so nobody can collect the outcome it looks at.
AwaitRevoked(p, a) ==
    /\ revoker # p
    /\ a \in awaited[p]
    /\ status[a] \in Terminal
    /\ awaited' = [awaited EXCEPT ![p] = @ \ {a}]
    /\ UNCHANGED <<entryVars, runVars, cancelRequested, ledger, revoked,
                   revoker, cancelBatch>>
-----------------------------------------------------------------------------
(* The supervision task: run_agent_task and the finish_with_session after  *)
(* it.  A panic anywhere is caught and finishes the entry as Failed.       *)

taskUnchanged == <<entryVars, revokeVars, cancelRequested, ledger, cancelBatch>>

\* mutant: the early returns keep their permit
Return_KeepsPermit(a, res) ==
    /\ result' = [result EXCEPT ![a] = res]
    /\ task' = [task EXCEPT ![a] = "completing"]
    /\ UNCHANGED permits

\* A return from run_agent_task: the permit, if any, is dropped with it.
Return(a, res) ==
    /\ result' = [result EXCEPT ![a] = res]
    /\ task' = [task EXCEPT ![a] = "completing"]
    /\ permits' = IF task[a] \in Holding THEN permits + 1 ELSE permits

\* The biased select: the cancellation wins over the permit.
TaskCancelledInQueue(a) ==
    /\ task[a] = "queued" /\ a \in cancelRequested
    /\ Return(a, "Cancelled")
    /\ UNCHANGED <<taskUnchanged, status, hasSession>>

TaskAcquire(a) ==
    /\ task[a] = "queued" /\ a \notin cancelRequested
    /\ permits > 0
    /\ permits' = permits - 1
    /\ task' = [task EXCEPT ![a] = "acquired"]
    /\ UNCHANGED <<taskUnchanged, status, hasSession, result>>

\* mark_running
TaskMarkRunning(a) ==
    /\ task[a] = "acquired" /\ status[a] = "Queued"
    /\ status' = [status EXCEPT ![a] = "Running"]
    /\ task' = [task EXCEPT ![a] = "starting"]
    /\ UNCHANGED <<taskUnchanged, hasSession, permits, result>>

\* The flag is read again: it may have been set since the select.
TaskCheckCancel(a) ==
    /\ task[a] = "starting"
    /\ IF a \in cancelRequested
       THEN Return(a, "Cancelled")
       ELSE /\ task' = [task EXCEPT ![a] = "preparing"]
            /\ UNCHANGED <<permits, result>>
    /\ UNCHANGED <<taskUnchanged, status, hasSession>>

\* instantiate and observer.begin succeed and the core future exists ...
TaskStartCore(a) ==
    /\ task[a] = "preparing"
    /\ task' = [task EXCEPT ![a] = "core"]
    /\ UNCHANGED <<taskUnchanged, status, hasSession, permits, result>>

\* ... or one of them fails.
TaskPrepareFails(a) ==
    /\ task[a] = "preparing"
    /\ Return(a, "Failed")
    /\ UNCHANGED <<taskUnchanged, status, hasSession>>

\* mutant: the cancellation is seen only while the entry is registered
TaskCancelCore_IfRegistered(a) ==
    /\ task[a] = "core" /\ a \in cancelRequested \cap registered
    /\ task' = [task EXCEPT ![a] = "cancelling"]
    /\ UNCHANGED <<taskUnchanged, status, hasSession, permits, result>>

\* core_control.cancel() and the grace period begin.
TaskCancelCore(a) ==
    /\ task[a] = "core" /\ a \in cancelRequested
    /\ task' = [task EXCEPT ![a] = "cancelling"]
    /\ UNCHANGED <<taskUnchanged, status, hasSession, permits, result>>

\* drop(permit), then the observation is finalized.
Execute(a, exec) ==
    /\ result' = [result EXCEPT ![a] = exec]
    /\ task' = [task EXCEPT ![a] = "finalizing"]
    /\ permits' = permits + 1

\* The core future returned first.  A flag set meanwhile turns a return, but
\* not a panic, into a cancellation.
TaskCoreReturns(a) ==
    /\ task[a] = "core"
    /\ IF a \in cancelRequested
       THEN \E exec \in {"CancelledClean", "CancelledError", "FinishedError"} :
                Execute(a, exec)
       ELSE \E exec \in {"Finished", "FinishedCancelled", "FinishedError"} :
                Execute(a, exec)
    /\ UNCHANGED <<taskUnchanged, status, hasSession>>

\* Within the grace period or after it the cancelled core is gone, with or
\* without an error of its own or of cleanup_aborted_run.
TaskCancelEnds(a) ==
    /\ task[a] = "cancelling"
    /\ \E exec \in {"CancelledClean", "CancelledError"} : Execute(a, exec)
    /\ UNCHANGED <<taskUnchanged, status, hasSession>>

\* finalizer.finish and the final match: an observation error turns every
\* execution into a failure.
Completion(exec) ==
    CASE exec = "Finished" -> "Succeeded"
      [] exec \in {"FinishedCancelled", "CancelledClean"} -> "Cancelled"
      [] OTHER -> "Failed"

TaskFinalize(a) ==
    /\ task[a] = "finalizing"
    /\ \E observationFails \in BOOLEAN :
           result' = [result EXCEPT ![a] = IF observationFails THEN "Failed"
                                           ELSE Completion(@)]
    /\ task' = [task EXCEPT ![a] = "completing"]
    /\ UNCHANGED <<taskUnchanged, status, hasSession, permits>>

\* finish_with_session
TaskFinish(a) ==
    /\ task[a] = "completing"
    /\ status[a] \notin Terminal
    /\ status' = [status EXCEPT ![a] = result[a]]
    /\ hasSession' = IF result[a] = "Succeeded" THEN hasSession \cup {a}
                                                ELSE hasSession \ {a}
    /\ task' = [task EXCEPT ![a] = "done"]
    /\ UNCHANGED <<taskUnchanged, permits, result>>

Task(a) == \/ TaskCancelledInQueue(a) \/ TaskAcquire(a) \/ TaskMarkRunning(a)
           \/ TaskCheckCancel(a) \/ TaskStartCore(a) \/ TaskPrepareFails(a)
           \/ TaskCancelCore(a) \/ TaskCoreReturns(a) \/ TaskCancelEnds(a)
           \/ TaskFinalize(a) \/ TaskFinish(a)
-----------------------------------------------------------------------------
Call(p) == \/ \E a \in Agent : AttachRoot(p, a)
           \/ \E c \in registered, a \in Agent : Spawn(p, c, a)
           \/ \E c, t \in registered, a \in Agent : Continue(p, c, t, a)
           \/ \E c, t \in registered : Collect(p, c, t)
           \/ \E c, t \in registered : CancelTree(p, c, t)
           \/ Revoke(p)

Next == \/ \E p \in Principal : Call(p)
        \/ CancelActiveRuns
        \/ \E a \in Agent : CancelEntry(a)
        \/ ReleaseLifecycle
        \/ \E p \in Principal, a \in Agent : AwaitRevoked(p, a)
        \/ \E a \in Agent : Task(a)

Spec == Init /\ [][Next]_vars

\* Fairness.  The tokio runtime polls every supervision task and every caller
\* that is ready.  A core future that was not cancelled may run for ever (a
\* model, a tool or an approval it waits for), so TaskCoreReturns gets none:
\* the cancellation of a running core does, because the select is biased and
\* the grace period is bounded.
TaskProgress(a) ==
    \/ TaskCancelledInQueue(a) \/ TaskMarkRunning(a) \/ TaskCheckCancel(a)
    \/ TaskStartCore(a) \/ TaskCancelCore(a) \/ TaskCancelEnds(a)
    \/ TaskFinalize(a) \/ TaskFinish(a)

Fairness == /\ \A a \in Agent : WF_vars(TaskProgress(a))
            /\ \A a \in Agent : WF_vars(CancelEntry(a))
            /\ WF_vars(ReleaseLifecycle)
            /\ \A p \in Principal, a \in Agent : WF_vars(AwaitRevoked(p, a))

FairSpec == Spec /\ Fairness
-----------------------------------------------------------------------------
TypeOK ==
    /\ registered \subseteq Agent
    /\ owner \in [Agent -> Principal \cup {NoPrincipal}]
    /\ parent \in [Agent -> Agent \cup {NoAgent}]
    /\ depth \in [Agent -> Nat]
    /\ status \in [Agent -> Status]
    /\ hasSession \subseteq Agent
    /\ childCount \in [Agent -> Nat]
    /\ cancelRequested \subseteq Agent
    /\ collected \subseteq Agent
    /\ ledger \in [Principal -> Nat]
    /\ revoked \subseteq Principal
    /\ permits \in Nat
    /\ task \in [Agent -> Phase]
    /\ result \in [Agent -> Result]
    /\ cancelBatch \subseteq Agent
    /\ revoker \in Principal \cup {NoPrincipal}
    /\ awaited \in [Principal -> SUBSET Agent]

\* What the other invariants rest on.  An identity that was not handed out yet
\* leaves no trace; an entry leaves the registry only when its principal is
\* revoked; a task that is finalizing or completing has its result.
FreshIdentities ==
    \A a \in Agent : status[a] = "Unborn" =>
        /\ a \notin registered \cup hasSession \cup cancelRequested \cup collected
        /\ owner[a] = NoPrincipal /\ parent[a] = NoAgent /\ childCount[a] = 0
        /\ depth[a] = 0 /\ task[a] = "none"
        /\ \A b \in Agent : parent[b] # a

RegisteredUntilRevoked ==
    /\ \A a \in Agent : status[a] # "Unborn" =>
           owner[a] \in Principal /\ (owner[a] \notin revoked <=> a \in registered)
    /\ revoker # NoPrincipal => revoker \in revoked

ResultsReady ==
    \A a \in Agent : /\ task[a] = "finalizing" => result[a] \in Execution
                     /\ task[a] = "completing" => result[a] \in Terminal
                     /\ task[a] \in {"queued", "acquired"} => status[a] = "Queued"

\* The ledger of a principal counts exactly its entries that are registered
\* and not collected, whatever mix of attach, spawn, continue, collect and
\* revoke led there, and it never passes the limit (reserve_principal_agent,
\* release_principal_agent_reservation, whose checked_sub would panic).
LedgerExact ==
    \A p \in Principal :
        /\ ledger[p] = Cardinality(Owned(p) \ collected)
        /\ ledger[p] <= MaxPerPrincipal

\* Every registered entry but a root hangs below a registered entry of the
\* same principal.  ensure_manageable walks the parents and compares only the
\* caller's owner, and revoke_principal removes entries by owner alone: both
\* are right only because of this.
LineageClosed ==
    \A a \in registered :
        parent[a] # NoAgent => /\ parent[a] \in registered
                               /\ owner[parent[a]] = owner[a]

\* The permits are never lost and never made up: each is either in the
\* semaphore or held by one task before its drop(permit), on every path out of
\* run_agent_task.  Hence at most MaxConcurrent cores run.
PermitsBalanced ==
    permits + Cardinality(Holders) = MaxConcurrent

\* child_count counts the spawned children, continuations excluded, and stays
\* within its quota; spawns go one level down, continuations none, and no
\* entry is deeper than the limit.
SpawnQuota ==
    \A a \in Agent :
        /\ childCount[a] =
             Cardinality({b \in Agent : parent[b] = a /\ depth[b] = depth[a] + 1})
        /\ childCount[a] <= MaxChildren
        /\ depth[a] <= MaxDepth

\* An entry is Queued or Running exactly while its supervision task goes on:
\* no entry waits for a task that is gone, and no task works for an entry that
\* has its outcome.
LiveIsSupervised ==
    \A a \in Agent :
        status[a] \in {"Queued", "Running"} <=> task[a] \notin {"none", "done"}

\* Only a successful run that nobody collected leaves a session to continue,
\* and a continuation always hangs below a run that succeeded
\* (finish_with_session, continuation_session, collect_resources).
SessionsOfSuccesses ==
    /\ \A a \in hasSession : status[a] = "Succeeded" /\ a \notin collected
    /\ \A a \in Agent : parent[a] # NoAgent /\ depth[a] = depth[parent[a]]
                           => status[parent[a]] = "Succeeded"

\* The tree of agents is in order: who hangs below whom, how many and how deep,
\* and what a continuation continues.
TreeInOrder == LineageClosed /\ SpawnQuota /\ SessionsOfSuccesses

\* No task works unseen and no permit is out without a task.
TasksAccounted == PermitsBalanced /\ LiveIsSupervised

\* When revoke_principal has gone through its entries, none of them is left
\* to run on unasked: each has its outcome or its cancellation, and no entry
\* of that principal is registered ever again.
RevokedAreCancelled ==
    \A p \in revoked : revoker # p =>
        /\ Owned(p) = {}
        /\ \A a \in Agent : owner[a] = p /\ status[a] \notin Terminal
                               => a \in cancelRequested

\* A terminal status is never overwritten, a collected entry stays collected
\* and a cancellation is never withdrawn (docs/agent/agent-runtime.md,
\* finish_with_session).
OutcomesAreFinal ==
    [][/\ \A a \in Agent : status[a] \in Terminal => status'[a] = status[a]
       /\ collected \subseteq collected'
       /\ cancelRequested \subseteq cancelRequested']_vars

\* Whoever was asked to stop stops: a flagged entry reaches a terminal status,
\* from the queue, from the preparation or from the middle of its core run.
CancelConverges ==
    \A a \in Agent : a \in cancelRequested ~> status[a] \in Terminal

\* revoke_principal returns.
RevokeReturns ==
    \A p \in Principal : p \in revoked ~> (revoker # p /\ awaited[p] = {})

\* What the documentation says of cancel: cancelling a parent cancels its
\* descendants.  While an agent is on its way to Cancelled none of its
\* descendants would then go on unasked.
CancelCascades ==
    \A a \in registered :
        LifecycleFree /\ a \in cancelRequested /\ status[a] \notin Terminal =>
            \A b \in Descendants(a) : b \in cancelRequested \/ status[b] \in Terminal

\* For TLC: identities are interchangeable, and so are principals.
Symmetry == Permutations(Agent) \cup Permutations(Principal)
=============================================================================
