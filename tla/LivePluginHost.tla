---------------------------- MODULE LivePluginHost ----------------------------
(***************************************************************************)
(* LivePluginHost (crates/agent-plugins/host/src/live.rs): the loader      *)
(* publishes plugins one by one while runs of the kernel go on.  A run     *)
(* works with the plugins that were there when it began; the host takes    *)
(* its events from the bus, one listener per event and priority, and       *)
(* hands each to the plugins of the run's snapshot.  The snapshot goes     *)
(* when finish_run has made sure that they know of the end of the run.     *)
(*                                                                         *)
(* A run dispatches three kinds of events: its records, of which           *)
(* RunStarted and RunFinished matter here, the admission of a tool call,   *)
(* and at last the notice core.run.finish.  Every plugin subscribes to all *)
(* of them, at the priority it declares.                                   *)
(***************************************************************************)
EXTENDS Naturals, FiniteSets, SequencesExt

CONSTANTS
    Plugins,            \* how many plugins there are, in the order of the plan
    Owner,              \* the owner of the tool policy; 0 when there is none
    Declared,           \* the priority that a plugin's manifest declares
    Run,
    MaxCalls,           \* bound of the model: tool calls of a run
    MaxAttempts         \* MAX_RUN_CLEANUP_ATTEMPTS

Plugin == 1..Plugins

\* ListenerPriority, without Low
Lowest == 0
Normal == 1
High == 2
Highest == 3
Monitor == 4
Priority == Lowest..Monitor

ASSUME HostAssumption ==
    /\ Plugins \in Nat /\ Owner \in 0..Plugins
    /\ Declared \in [Plugin -> Priority]
    /\ MaxCalls \in Nat /\ MaxAttempts \in Nat \ {0}

VARIABLES
    planned,            \* capability_plan_ready
    current,            \* the published plugins
    publishing,         \* the one publish() is busy with, or 0
    registered,         \* registrations: pairs of an event and a priority
    at,                 \* where each run is
    todo,               \* priorities whose listener is still to be called
    calls,              \* tool calls so far, bounded
    verdicts,           \* the plugins that let the present call pass, in order
    entry,              \* active_runs: the state of the snapshot, if any
    snap,               \* ... and the snapshot
    missed,             \* finish_delivery_failed
    cleanup,            \* a finish_run that is under way
    finished, noticed, aborted, \* who received RunFinished, core.run.finish, a cleanup
    delivered,          \* RunFinished was delivered to all
    late,               \* plugins whose publish() had not returned
    dropped,            \* the Runtime has dropped the run's future
    result              \* what the last finish_run returned

loader == <<planned, current, publishing, registered>>
record == <<entry, snap, missed>>
told   == <<finished, noticed, aborted, delivered, late>>
ended  == <<cleanup, dropped, result>>
vars   == <<loader, at, todo, calls, verdicts, record, told, ended>>

Nothing == [hosts |-> {}, planned |-> FALSE]
NoCleanup == [drain |-> FALSE, attempt |-> 0, left |-> {}, failed |-> FALSE]

Init ==
    /\ planned = FALSE /\ current = {} /\ publishing = 0
    \* attach_bus comes before the loader: the host's own listeners are there
    /\ registered = {<<"record", Lowest>>, <<"record", Monitor>>, <<"call", Lowest>>}
    /\ at = [r \in Run |-> "idle"] /\ todo = [r \in Run |-> {}]
    /\ calls = [r \in Run |-> 0] /\ verdicts = [r \in Run |-> <<>>]
    /\ entry = [r \in Run |-> "none"] /\ snap = [r \in Run |-> Nothing]
    /\ missed = [r \in Run |-> FALSE]
    /\ cleanup = [r \in Run |-> NoCleanup]
    /\ finished = [r \in Run |-> {}] /\ noticed = finished /\ aborted = finished
    /\ delivered = [r \in Run |-> FALSE] /\ late = finished
    /\ dropped = delivered /\ result = [r \in Run |-> "none"]

Go(r, where) == at' = [at EXCEPT ![r] = where]
-----------------------------------------------------------------------------
(* The loader                                                              *)

\* effective_priority
Effective_AsDeclared(p, event) == Declared[p]                          \* mutant
Effective(p, event) ==
    IF event # "call" THEN Declared[p]
    ELSE IF p = Owner THEN Highest
    ELSE IF Declared[p] > High THEN High ELSE Declared[p]

\* sync_subscriptions; the host's own listeners are registered always.
Desired_OnDemand(hosts) ==                                             \* mutant
    {<<"record", Lowest>>, <<"record", Monitor>>}
        \cup {<<event, Effective(p, event)>> : event \in {"record", "call", "notice"},
                                               p \in hosts}
Desired(hosts) ==
    {<<"record", Lowest>>, <<"record", Monitor>>, <<"call", Lowest>>}
        \cup {<<event, Effective(p, event)>> : event \in {"record", "call", "notice"},
                                               p \in hosts}

\* set_capability_owner and finish_capability_planning
Plan ==
    /\ ~planned
    /\ planned' = TRUE
    /\ UNCHANGED <<current, publishing, registered, at, todo, calls, verdicts,
                   record, told, ended>>

\* publish: the plugin is there before its subscriptions are.
Publish(p) ==
    /\ planned /\ publishing = 0 /\ p \notin current
    /\ current' = current \cup {p}
    /\ publishing' = p
    /\ UNCHANGED <<planned, registered, at, todo, calls, verdicts, record,
                   told, ended>>

Subscribe ==
    /\ publishing # 0
    /\ registered' = Desired(current)
    /\ publishing' = 0
    /\ UNCHANGED <<planned, current, at, todo, calls, verdicts, record,
                   told, ended>>
-----------------------------------------------------------------------------
(* Dispatch: EventBus::dispatch_data collects the listeners and calls them *)
(* one after the other, PluginFanout::handle serves the snapshot's plugins *)

Collect(r, event) ==
    /\ todo' = [todo EXCEPT ![r] = {g \in Priority : <<event, g>> \in registered}]
    /\ late' = [late EXCEPT ![r] = (IF event = "notice" THEN @ ELSE {})
                                      \cup ({publishing} \ {0})]

NextGroup_Reversed(r) == CHOOSE g \in todo[r] : \A h \in todo[r] : h <= g   \* mutant
NextGroup(r) == CHOOSE g \in todo[r] : \A h \in todo[r] : g <= h
Handled(r) == todo' = [todo EXCEPT ![r] = @ \ {NextGroup(r)}]

Members(r, event) ==
    {p \in snap[r].hosts : Effective(p, event) = NextGroup(r)}

\* emit(RunStarted)
Start(r) ==
    /\ at[r] = "idle"
    /\ Collect(r, "record")
    /\ Go(r, "started")
    /\ UNCHANGED <<loader, calls, verdicts, record, finished, noticed, aborted,
                   delivered, ended>>

\* The first listener opens the snapshot, unless a plugin cannot list its tools
\* or prompts; what the plugins make of RunStarted is theirs.
OpenSnapshot(r) ==
    /\ at[r] = "started" /\ todo[r] # {}
    /\ Handled(r)
    /\ IF NextGroup(r) = Lowest
       THEN \/ /\ entry' = [entry EXCEPT ![r] = "active"]
               /\ snap' = [snap EXCEPT ![r] = [hosts |-> current, planned |-> planned]]
            \/ UNCHANGED <<entry, snap>>
       ELSE UNCHANGED <<entry, snap>>
    /\ UNCHANGED <<loader, at, calls, verdicts, missed, told, ended>>

\* flush_extension_events asks for the snapshot.
Started(r) ==
    /\ at[r] = "started" /\ todo[r] = {}
    /\ Go(r, IF entry[r] = "active" THEN "running" ELSE "closing")
    /\ UNCHANGED <<loader, todo, calls, verdicts, record, told, ended>>

\* The admission of a tool call.
CallTool(r) ==
    /\ at[r] = "running" /\ calls[r] < MaxCalls
    /\ calls' = [calls EXCEPT ![r] = @ + 1]
    /\ verdicts' = [verdicts EXCEPT ![r] = <<>>]
    /\ Collect(r, "call")
    /\ Go(r, "calling")
    /\ UNCHANGED <<loader, record, finished, noticed, aborted,
                   delivered, ended>>

\* tool_admission_block_reason
Blocked(r) == \/ ~snap[r].planned
              \/ Owner # 0 /\ Owner \notin snap[r].hosts

\* The listeners of an event that was cancelled may still be called; nothing
\* they do lets the call pass again, so the model goes on at once.
Refuse(r) == Go(r, "running") /\ todo' = [todo EXCEPT ![r] = {}]

GuardRefuses(r) ==
    /\ at[r] = "calling" /\ todo[r] # {} /\ NextGroup(r) = Lowest
    /\ Blocked(r)
    /\ Refuse(r)
    /\ UNCHANGED <<loader, calls, verdicts, record, told, ended>>

\* A plugin that cancels the call, or fails: the listener is fail-closed.
PluginRefuses(r) ==
    /\ at[r] = "calling" /\ todo[r] # {}
    /\ NextGroup(r) = Lowest => ~Blocked(r)
    /\ Members(r, "call") # {}
    /\ Refuse(r)
    /\ UNCHANGED <<loader, calls, verdicts, record, told, ended>>

\* The plugins are numbered in the order of the plan.
InPlanOrder(hosts) ==
    LET places == 1..Cardinality(hosts)
    IN  CHOOSE s \in [places -> hosts] : \A i, j \in places : i < j => s[i] < s[j]

\* In the order of the plan the plugins of the group let the call pass.
GroupPasses(r) ==
    /\ at[r] = "calling" /\ todo[r] # {}
    /\ NextGroup(r) = Lowest => ~Blocked(r)
    /\ verdicts' = [verdicts EXCEPT ![r] = @ \o InPlanOrder(Members(r, "call"))]
    /\ Handled(r)
    /\ UNCHANGED <<loader, at, calls, record, told, ended>>

Admit(r) ==
    /\ at[r] = "calling" /\ todo[r] = {}
    /\ Go(r, "admitted")
    /\ UNCHANGED <<loader, todo, calls, verdicts, record, told, ended>>

Execute(r) ==
    /\ at[r] = "admitted"
    /\ Go(r, "running")
    /\ UNCHANGED <<loader, todo, calls, verdicts, record, told, ended>>

-----------------------------------------------------------------------------
(* The end of a run                                                        *)

\* emit(RunFinished)
Finish(r) ==
    /\ at[r] = "running"
    /\ Collect(r, "record")
    /\ Go(r, "finished")
    /\ UNCHANGED <<loader, calls, verdicts, record, finished, noticed, aborted,
                   delivered, ended>>

\* run_snapshot_for_fanout
Routed(r, event) == entry[r] \in IF event = "record" THEN {"active", "delivered"}
                                                    ELSE {"active"}

\* mark_finish_delivery_failed: a failure is not forgotten.
Missed_LastGroup(r, failed) == failed # {}                             \* mutant
Missed(r, failed) == missed[r] \/ failed # {}

\* Each plugin of the group hears of the end or fails; mark_finish_delivered
FinishGroup(r) ==
    /\ at[r] = "finished" /\ todo[r] # {}
    /\ \E failed \in SUBSET Members(r, "record") :
           LET all == /\ NextGroup(r) = Monitor /\ ~Missed(r, failed)
                      /\ entry[r] = "active"
           IN  /\ finished' = [finished EXCEPT ![r] = @ \cup (Members(r, "record") \ failed)]
               /\ missed' = [missed EXCEPT ![r] = Missed(r, failed)]
               /\ entry' = [entry EXCEPT ![r] = IF all THEN "delivered" ELSE @]
               /\ delivered' = [delivered EXCEPT ![r] = @ \/ all]
    /\ Handled(r)
    /\ UNCHANGED <<loader, at, calls, verdicts, snap, noticed, aborted, late, ended>>

\* drain_events_for_run, as flush_extension_events calls it; then notify
Drain(r) ==
    /\ at[r] = "finished" /\ todo[r] = {}
    /\ Routed(r, "record")
    /\ entry' = [entry EXCEPT ![r] = IF @ = "delivered" THEN "completed" ELSE @]
    /\ Collect(r, "notice")
    /\ Go(r, "noticing")
    /\ UNCHANGED <<loader, calls, verdicts, snap, missed, finished, noticed,
                   aborted, delivered, ended>>

NoticeGroup(r) ==
    /\ at[r] = "noticing" /\ todo[r] # {}
    /\ noticed' = [noticed EXCEPT ![r] =
                       IF Routed(r, "notice") THEN @ \cup Members(r, "notice") ELSE @]
    /\ Handled(r)
    /\ UNCHANGED <<loader, at, calls, verdicts, record, finished, aborted,
                   delivered, late, ended>>

Noticed(r) ==
    /\ at[r] = "noticing" /\ todo[r] = {}
    /\ Go(r, "noticed")
    /\ UNCHANGED <<loader, todo, calls, verdicts, record, told, ended>>

Return(r) ==
    /\ at[r] = "noticed"
    /\ Go(r, "closing")
    /\ UNCHANGED <<loader, todo, calls, verdicts, record, told, ended>>

\* An error of the sink or of a drain, or the limit of the wall clock.
InRun == {"started", "running", "calling", "admitted", "finished", "noticing"}
Fail(r) ==
    /\ at[r] \in InRun
    /\ Go(r, "closing")
    /\ todo' = [todo EXCEPT ![r] = {}]
    /\ UNCHANGED <<loader, calls, verdicts, record, told, ended>>
-----------------------------------------------------------------------------
(* finish_run, called by the core and, when that was dropped, by the Runtime *)

Over(r, what) == Go(r, "over") /\ result' = [result EXCEPT ![r] = what]

Attempt(r, drain, n) ==
    [drain |-> drain, attempt |-> n, left |-> snap[r].hosts, failed |-> FALSE]

BeginNothing(r) ==
    /\ at[r] = "closing"
    /\ entry[r] \in {"none", "completed", "cleaning"}
    /\ entry' = [entry EXCEPT ![r] = IF @ = "completed" THEN "none" ELSE @]
    /\ Over(r, IF entry[r] = "cleaning" THEN "error" ELSE "ok")
    /\ UNCHANGED <<loader, todo, calls, verdicts, snap, missed, told, cleanup, dropped>>

BeginCleanup(r) ==
    /\ at[r] = "closing"
    /\ entry[r] \in {"active", "pending", "delivered"}
    /\ entry' = [entry EXCEPT ![r] = "cleaning"]
    /\ cleanup' = [cleanup EXCEPT ![r] = Attempt(r, entry[r] = "delivered", 1)]
    /\ Go(r, "cleaning")
    /\ UNCHANGED <<loader, todo, calls, verdicts, snap, missed, told, dropped, result>>

MayRetry_AtLimit(r) == cleanup[r].attempt <= MaxAttempts                \* mutant
MayRetry(r) == cleanup[r].attempt < MaxAttempts

\* The next attempt, or the last one has failed.
AttemptFails(r) ==
    IF MayRetry(r)
    THEN /\ cleanup' = [cleanup EXCEPT ![r] = Attempt(r, @.drain, @.attempt + 1)]
         /\ UNCHANGED <<at, entry, result>>
    ELSE /\ entry' = [entry EXCEPT ![r] = "none"]
         /\ cleanup' = [cleanup EXCEPT ![r] = NoCleanup]
         /\ Over(r, "error")

\* CompositePluginHost: one plugin after the other; a cleanup goes on after an
\* error of one of them, a drain does not.
Visit(r, p, fails) ==
    /\ aborted' = [aborted EXCEPT ![r] = IF cleanup[r].drain THEN @ ELSE @ \cup {p}]
    /\ IF cleanup[r].drain /\ fails THEN AttemptFails(r)
       ELSE /\ cleanup' = [cleanup EXCEPT ![r].left = @ \ {p}, ![r].failed = @ \/ fails]
            /\ UNCHANGED <<at, entry, result>>

NextHost(r) == CHOOSE p \in cleanup[r].left : \A q \in cleanup[r].left : p <= q

CleanOne(r) ==
    /\ at[r] = "cleaning" /\ cleanup[r].left # {}
    /\ \E fails \in BOOLEAN : Visit(r, NextHost(r), fails)
    /\ UNCHANGED <<loader, todo, calls, verdicts, snap, missed, finished, noticed,
                   delivered, late, dropped>>

\* RUN_CLEANUP_ATTEMPT_TIMEOUT
CleanTimeout(r) ==
    /\ at[r] = "cleaning"
    /\ AttemptFails(r)
    /\ UNCHANGED <<loader, todo, calls, verdicts, snap, missed, told, dropped>>

CleanDone(r) ==
    /\ at[r] = "cleaning" /\ cleanup[r].left = {}
    /\ IF cleanup[r].failed THEN AttemptFails(r)
       ELSE /\ entry' = [entry EXCEPT ![r] = "none"]
            /\ cleanup' = [cleanup EXCEPT ![r] = NoCleanup]
            /\ Over(r, "ok")
    /\ UNCHANGED <<loader, todo, calls, verdicts, snap, missed, told, dropped>>

\* PluginRunCleanupLease::drop
RolledBack_Pending(r) == IF entry[r] = "cleaning" THEN "pending" ELSE entry[r]  \* mutant
RolledBack_Never(r) == entry[r]                                        \* mutant
RolledBack(r) ==
    IF entry[r] # "cleaning" THEN entry[r]
    ELSE IF cleanup[r].drain THEN "delivered" ELSE "pending"

\* The Runtime drops the core's future, whose grace period is over or which
\* panicked, and calls finish_run itself: cleanup_aborted_run.  Its own limit
\* is longer than all attempts together.
ForceDrop(r) ==
    /\ at[r] \in InRun \cup {"noticed", "closing", "cleaning"} /\ ~dropped[r]
    /\ dropped' = [dropped EXCEPT ![r] = TRUE]
    /\ entry' = [entry EXCEPT ![r] = RolledBack(r)]
    /\ cleanup' = [cleanup EXCEPT ![r] = NoCleanup]
    /\ todo' = [todo EXCEPT ![r] = {}]
    /\ Go(r, "closing")
    /\ UNCHANGED <<loader, calls, verdicts, snap, missed, told, result>>
-----------------------------------------------------------------------------
Load == Plan \/ (\E p \in Plugin : Publish(p)) \/ Subscribe

FinishRun(r) == BeginNothing(r) \/ BeginCleanup(r) \/ CleanOne(r) \/ CleanTimeout(r)
                    \/ CleanDone(r)

Core(r) == \/ Start(r) \/ OpenSnapshot(r) \/ Started(r)
           \/ CallTool(r) \/ GuardRefuses(r) \/ PluginRefuses(r) \/ GroupPasses(r)
           \/ Admit(r) \/ Execute(r)
           \/ Finish(r) \/ FinishGroup(r) \/ Drain(r) \/ NoticeGroup(r)
           \/ Noticed(r) \/ Return(r) \/ Fail(r) \/ ForceDrop(r)

Next == Load \/ \E r \in Run : Core(r) \/ FinishRun(r)

Spec == Init /\ [][Next]_vars

\* Tokio polls a finish_run whose timer is set until it returns.
FairSpec == Spec /\ \A r \in Run : WF_vars(FinishRun(r))
-----------------------------------------------------------------------------
(* The type invariant: only plugins of the snapshot are spoken to, and a    *)
(* cleanup makes no more attempts than MAX_RUN_CLEANUP_ATTEMPTS.            *)
TypeOK ==
    /\ planned \in BOOLEAN /\ current \subseteq Plugin
    /\ publishing \in current \cup {0}
    /\ registered \subseteq {"record", "call", "notice"} \X Priority
    /\ at \in [Run -> {"idle", "noticed", "closing", "cleaning", "over"} \cup InRun]
    /\ todo \in [Run -> SUBSET Priority] /\ calls \in [Run -> 0..MaxCalls]
    /\ entry \in [Run -> {"none", "active", "delivered", "completed", "pending", "cleaning"}]
    /\ \A r \in Run :
           /\ snap[r].hosts \subseteq current
           /\ finished[r] \cup noticed[r] \cup aborted[r] \subseteq snap[r].hosts
           /\ Range(verdicts[r]) \subseteq snap[r].hosts
           /\ cleanup[r].attempt \in 0..MaxAttempts

(* A tool call that was admitted has passed every plugin of the run's       *)
(* snapshot that was subscribed by then, the owner of the tool policy is    *)
(* one of the snapshot, and its verdict came last: the guard of             *)
(* tool_admission_block_reason and the priorities of effective_priority     *)
(* leave no gap, whenever plugins are published.                            *)
AdmittedByAll ==
    \A r \in Run : at[r] = "admitted" =>
        /\ snap[r].planned
        /\ snap[r].hosts \ late[r] \subseteq Range(verdicts[r])
        /\ Owner # 0 =>
               /\ Owner \in snap[r].hosts
               /\ Owner \notin late[r] => Last(verdicts[r]) = Owner

(* When finish_run succeeds, every plugin of the snapshot that was          *)
(* subscribed has heard of the end of the run: by RunFinished or by the     *)
(* cleanup that makes up for it.                                            *)
EndReaches ==
    \A r \in Run : result[r] = "ok" =>
        snap[r].hosts \subseteq finished[r] \cup aborted[r] \cup late[r]

(* When RunFinished was delivered to all plugins, no cleanup tells them     *)
(* again, even if the core is dropped during the drain and finish_run is    *)
(* called anew (PluginRunCleanupAction::Drain).                             *)
NotToldTwice ==
    [][\A r \in Run : aborted'[r] # aborted[r] => ~delivered[r]]_vars

(* Once a run closes, its snapshot goes and finish_run returns, although    *)
(* plugins fail or hang and the core may be dropped in the middle of it.    *)
SnapshotReleased ==
    \A r \in Run : at[r] = "closing" ~> at[r] = "over" /\ entry[r] = "none"

(* A run that got as far as to announce its end has handed core.run.finish  *)
(* to every plugin of its snapshot: docs/plugin/tui.md calls it the only    *)
(* reliable moment at which a plugin drops the state of a session.          *)
RunFinishHeard ==
    \A r \in Run : at[r] = "noticed" => snap[r].hosts \ late[r] \subseteq noticed[r]

(* For TLC: three plugins, of which one is called first and one declares the *)
(* read-only priority.                                                       *)
ThreePriorities == <<Lowest, Normal, Monitor>>
=============================================================================
