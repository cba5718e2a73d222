----------------------------- MODULE GuestCalls -----------------------------
(***************************************************************************)
(* One plugin in its Store (host/src/wasm/mod.rs): its loading, the calls  *)
(* of its exports, what the guest does to the host during them             *)
(* (capability/mod.rs, wasm/linker.rs), and its end.                       *)
(*                                                                         *)
(* An export runs in a task of its own and under the run it was called     *)
(* for.  The caller may leave, the task goes on: the run may be over when  *)
(* the guest queues its next event.  A refused capability is remembered in *)
(* the Store until the call of a tool consumes it.                         *)
(***************************************************************************)
EXTENDS Naturals, Sequences, Filters

CONSTANTS Run, NoRun,       \* NoRun: the start, a service, the user interface
          Nothing,
          MaxProcesses,     \* MAX_PLUGIN_PROCESSES, or what the policy leaves of it
          MaxEvents,        \* MAX_EVENTS
          MaxCalls          \* bound of the model: calls in one behaviour

VARIABLES phase,        \* how far the loading is
          store,        \* "none", "idle", "busy" or, for good, "gone"
          principal,    \* of the Agent Runtime: "none", "live", "leaving", "gone"
          listed,       \* whether the directory of services has the plugin
          processes,    \* the children of the guest that are alive
          waiting,      \* the calls that wait for the Store, in order
          running,      \* the call that has it
          active,       \* active_run_id
          latch,        \* plugin_failure: whether a refusal is remembered
          queued,       \* the events that wait to be drained
          ended,        \* run -> how the host ended it
          answer,       \* what the last call of a tool came to
          calls

guestVars == <<phase, store, principal, listed, processes, waiting, running, active,
               latch, queued, ended, answer, calls>>
life  == <<phase, store, principal, listed, processes>>
work  == <<waiting, running, active, latch>>
kept  == <<queued, ended, answer>>

Call(kind, r) ==
    [kind |-> kind, run |-> r, before |-> NoRun, left |-> FALSE, refused |-> FALSE]
Loading == phase \in {"known", "granted", "bound"}
InGuest == phase = "bound" \/ running # Nothing

Init ==
    /\ phase = "new" /\ store = "none" /\ principal = "none" /\ listed = FALSE /\ processes = 0
    /\ waiting = <<>> /\ running = Nothing /\ active = NoRun /\ latch = FALSE
    /\ queued = <<>> /\ ended = [r \in Run |-> "open"] /\ answer = Nothing
    /\ calls = 0

-----------------------------------------------------------------------------
(* load_with_limits_in_dir.  The identity is known before any guest code.   *)
Register ==
    /\ phase = "new"
    /\ phase' = "known" /\ listed' = TRUE
    /\ UNCHANGED <<store, principal, processes, work, kept, calls>>

(* provision_agent_runtime: the grant, and then the controller.             *)
Grant ==
    /\ phase = "known"
    /\ phase' = "granted" /\ principal' \in {"none", "live"}
    /\ UNCHANGED <<store, listed, processes, work, kept, calls>>

(* The Store is made and the guest runs: list-tools, activate, describe-ui. *)
Instantiate ==
    /\ phase = "granted"
    /\ phase' = "bound"
    /\ UNCHANGED <<store, principal, listed, processes, work, kept, calls>>

Loaded ==
    /\ phase = "bound"
    /\ phase' = "ready" /\ store' = "idle"
    /\ UNCHANGED <<principal, listed, processes, work, kept, calls>>

Leaving(p) == IF p = "live" THEN "leaving" ELSE p

(* A step of the loading fails, or its future is dropped: the Store with    *)
(* its children, the identity and, once it is bound, the principal go.      *)
LoadFails_Registered(dropped) ==                                   \* mutant
    /\ Loading
    /\ phase' = "failed" /\ processes' = 0 /\ listed' = (phase = "bound")
    /\ principal' = IF dropped /\ phase = "granted" THEN principal ELSE Leaving(principal)
    /\ UNCHANGED <<store, work, kept, calls>>
LoadFails(dropped) ==
    /\ Loading
    /\ phase' = "failed" /\ processes' = 0 /\ listed' = FALSE
    /\ principal' = IF dropped /\ phase = "granted" THEN principal ELSE Leaving(principal)
    /\ UNCHANGED <<store, work, kept, calls>>

(* The task that revokes: nobody can cancel it.                             *)
Revoked ==
    /\ principal = "leaving"
    /\ principal' = "gone"
    /\ UNCHANGED <<phase, store, listed, processes, work, kept, calls>>

-----------------------------------------------------------------------------
Request(kind, r) ==
    /\ phase = "ready" /\ calls < MaxCalls
    /\ r # NoRun => ended[r] = "open"
    /\ waiting' = Append(waiting, Call(kind, r))
    /\ calls' = calls + 1
    /\ UNCHANGED <<life, running, active, latch, kept>>

(* call_tool, dispatch_event and load_context are called for a run, a       *)
(* service and the user interface for none.                                 *)
CallTool(r) == Request("tool", r)
DispatchEvent(r) == Request("work", r)
LoadContext(r) == Request("work", r)
HandleService == Request("work", NoRun)
RenderUi == Request("view", NoRun)
OnUiInput == Request("view", NoRun)
Deactivate ==
    /\ listed /\ \A i \in DOMAIN waiting : waiting[i].kind # "deactivate"
    /\ Request("deactivate", NoRun)

(* A caller is gone: what waits is forgotten, what runs goes on unheard.  A *)
(* deactivation is a task that nobody drops; at its deadline the directory  *)
(* and the Runtime forget the plugin all the same.                          *)
Leave(i) ==
    /\ i \in DOMAIN waiting /\ waiting[i].kind # "finish"
    /\ waiting' = WithoutAt(waiting, i)
    /\ IF waiting[i].kind = "deactivate"
       THEN listed' = FALSE /\ principal' = Leaving(principal)
       ELSE UNCHANGED <<listed, principal>>
    /\ UNCHANGED <<phase, store, processes, running, active, latch, kept, calls>>
Abandon ==
    /\ running # Nothing /\ running.kind \notin {"deactivate", "finish"} /\ ~running.left
    /\ running' = [running EXCEPT !.left = TRUE]
    /\ UNCHANGED <<life, waiting, active, latch, kept, calls>>

Fresh_Latched(kind) == latch                                       \* mutant
(* A refusal of an earlier call is not one of this tool.                    *)
Fresh(kind) == IF kind = "tool" THEN FALSE ELSE latch

(* complete_component_call: the lock is fair; enter_active_run_scope.       *)
Acquire ==
    LET c == Head(waiting)
    IN  /\ waiting # <<>> /\ store = "idle"
        /\ store' = "busy" /\ waiting' = Tail(waiting)
        /\ running' = [c EXCEPT !.before = active]
        /\ active' = c.run /\ latch' = Fresh(c.kind)
        /\ UNCHANGED <<phase, principal, listed, processes, kept, calls>>

(* There is no Store any more: an error.                                    *)
Isolated ==
    /\ waiting # <<>> /\ store = "gone" /\ Head(waiting).kind # "finish"
    /\ Leave(1)

-----------------------------------------------------------------------------
(* What the guest may do while it runs.  emit_event: for the active run.    *)
Emit ==
    /\ InGuest /\ Len(queued) < MaxEvents
    /\ queued' = Append(queued,
           [run  |-> active,
            of   |-> IF running = Nothing THEN NoRun ELSE running.run,
            late |-> running # Nothing /\ running.left])
    /\ UNCHANGED <<life, work, ended, answer, calls>>

(* encode_host_response_with_failure: refused by the manifest or the policy.*)
Refuse ==
    /\ InGuest /\ ~latch
    /\ latch' = TRUE
    /\ running' = IF running = Nothing THEN Nothing ELSE [running EXCEPT !.refused = TRUE]
    /\ UNCHANGED <<life, waiting, active, kept, calls>>

(* spawn_process, kill_process.                                             *)
Spawn ==
    /\ InGuest /\ processes < MaxProcesses
    /\ processes' = processes + 1
    /\ UNCHANGED <<phase, store, principal, listed, work, kept, calls>>
Kill ==
    /\ InGuest /\ processes > 0
    /\ processes' = processes - 1
    /\ UNCHANGED <<phase, store, principal, listed, work, kept, calls>>

-----------------------------------------------------------------------------
Restored_Run == running.run                                        \* mutant
(* The scope is dropped with the future of the export, however that ends.   *)
Restored == running.before

Said_Guest(outcome) == outcome                                     \* mutant
(* What the host observed stands above what the guest says.                 *)
Said(outcome) == IF latch THEN "capability_denied" ELSE outcome

Drained(r) == Among(queued, {i \in DOMAIN queued : queued[i].run # r})

(* The last call: the Store is not put back.                                *)
Retired ==
    /\ store' = "gone" /\ processes' = 0 /\ listed' = FALSE
    /\ principal' = Leaving(principal)

(* The export returns, or traps.  finish_run then drains what the run has   *)
(* left, whatever came of the call.                                         *)
Return(outcome) ==
    /\ running # Nothing
    /\ running' = Nothing /\ active' = Restored
    /\ IF running.kind = "deactivate" THEN Retired
       ELSE store' = "idle" /\ UNCHANGED <<listed, principal, processes>>
    /\ IF running.kind = "tool"
       THEN /\ answer' = [refused |-> running.refused, said |-> Said(outcome)]
            /\ latch' = FALSE
       ELSE UNCHANGED <<answer, latch>>
    /\ IF running.kind = "finish" /\ ~running.left
       THEN /\ queued' = Drained(running.run)
            /\ ended' = [ended EXCEPT ![running.run] = "cleaned"]
       ELSE UNCHANGED <<queued, ended>>
    /\ UNCHANGED <<phase, waiting, calls>>

Cut_Kept == UNCHANGED <<listed, principal, processes>> /\ store' = "gone" \* mutant
(* The deadline of the call: its Store is destroyed with all it held.       *)
Cut == Retired

Deadline ==
    /\ running # Nothing
    /\ Cut
    /\ running' = Nothing /\ active' = Restored
    /\ IF running.kind = "finish" /\ ~running.left
       THEN /\ queued' = Drained(running.run)
            /\ ended' = [ended EXCEPT ![running.run] = "cleaned"]
       ELSE UNCHANGED <<queued, ended>>
    /\ UNCHANGED <<phase, waiting, latch, answer, calls>>

-----------------------------------------------------------------------------
Unheard(r) ==
    /\ \A i \in DOMAIN waiting : waiting[i].run # r
    /\ running # Nothing /\ running.run = r => running.left

(* drain_events, drain_events_for_run.                                      *)
Drain(r) ==
    /\ r # NoRun => ended[r] = "open"
    /\ queued' = Drained(r) /\ queued' # queued
    /\ UNCHANGED <<life, work, ended, answer, calls>>

(* The run has told the guest of its end itself: the last drain.            *)
Close(r) ==
    /\ phase = "ready" /\ ended[r] = "open" /\ Unheard(r)
    /\ queued' = Drained(r)
    /\ ended' = [ended EXCEPT ![r] = "drained"]
    /\ UNCHANGED <<life, work, answer, calls>>

(* finish_run: the guest is told in the run's name; it waits its turn.      *)
Finish(r) ==
    /\ phase = "ready" /\ ended[r] \in {"open", "cut"} /\ Unheard(r) /\ calls < MaxCalls
    /\ IF store = "gone"
       THEN queued' = Drained(r) /\ ended' = [ended EXCEPT ![r] = "cleaned"] /\ UNCHANGED waiting
       ELSE /\ waiting' = Append(waiting, Call("finish", r))
            /\ ended' = [ended EXCEPT ![r] = "closing"] /\ UNCHANGED queued
    /\ calls' = calls + 1
    /\ UNCHANGED <<life, running, active, latch, answer>>

(* RUN_CLEANUP_ATTEMPT_TIMEOUT passes in the live host, whatever finish_run *)
(* was waiting for: nothing is drained.                                     *)
FinishCut(r) ==
    \/ \E i \in DOMAIN waiting :
          /\ waiting[i].kind = "finish" /\ waiting[i].run = r
          /\ waiting' = WithoutAt(waiting, i)
          /\ ended' = [ended EXCEPT ![r] = "cut"]
          /\ UNCHANGED <<life, running, active, latch, queued, answer, calls>>
    \/ /\ running # Nothing /\ running.kind = "finish" /\ running.run = r /\ ~running.left
       /\ running' = [running EXCEPT !.left = TRUE]
       /\ ended' = [ended EXCEPT ![r] = "cut"]
       /\ UNCHANGED <<life, waiting, active, latch, queued, answer, calls>>

Next ==
    \/ Register \/ Grant \/ Instantiate \/ Loaded \/ Revoked
    \/ \E dropped \in BOOLEAN : LoadFails(dropped)
    \/ \E r \in Run : CallTool(r) \/ DispatchEvent(r) \/ LoadContext(r)
    \/ HandleService \/ RenderUi \/ OnUiInput \/ Deactivate
    \/ \E i \in DOMAIN waiting : Leave(i)
    \/ Abandon \/ Acquire \/ Emit \/ Refuse \/ Spawn \/ Kill
    \/ \E outcome \in {"ok", "trap"} : Return(outcome)
    \/ Deadline
    \/ \E r \in Run \cup {NoRun} : Drain(r)
    \/ \E r \in Run : Close(r) \/ Finish(r) \/ FinishCut(r)

Spec == Init /\ [][Next]_guestVars

-----------------------------------------------------------------------------
(* Outside of a call no run is active, and every event is queued for the    *)
(* run whose call has emitted it: ActiveRunScope, over every way an export  *)
(* can end.                                                                 *)
EventsOfTheirRun ==
    /\ ~InGuest => active = NoRun
    /\ \A i \in DOMAIN queued : queued[i].run = queued[i].of

(* A run that finish_run has ended leaves no event behind: its abandoned    *)
(* calls had the Store before it.  After a mere drain only they can.        *)
NothingLeftBehind ==
    \A i \in DOMAIN queued : queued[i].run # NoRun =>
        /\ ended[queued[i].run] # "cleaned"
        /\ ended[queued[i].run] = "drained" => queued[i].late

(* A tool fails for a refused capability if and only if one was refused     *)
(* during that very call, whatever the guest has made of it.                *)
AnswerOfOwnCall ==
    answer # Nothing => (answer.said = "capability_denied" <=> answer.refused)

(* A plugin whose Store is gone, or was never finished, has no process and  *)
(* no service, and its principal goes; as long as the Store is there for    *)
(* calls, it keeps them until it is deactivated.                            *)
NothingOutlivesStore ==
    /\ phase = "failed" \/ store = "gone" => ~listed /\ processes = 0
    /\ store = "gone" => principal \in {"none", "leaving", "gone"}
    /\ store \in {"idle", "busy"} /\ listed => principal \in {"none", "live"}

-----------------------------------------------------------------------------
(* What makes them inductive.                                              *)
Kind == {"tool", "work", "view", "deactivate", "finish"}
Runs == Run \cup {NoRun}
Calls == [kind : Kind, run : Runs, before : Runs, left : BOOLEAN, refused : BOOLEAN]
Event == [run : Runs, of : Runs, late : BOOLEAN]

GuestTypes ==
    /\ phase \in {"new", "known", "granted", "bound", "ready", "failed"}
    /\ store \in {"none", "idle", "busy", "gone"} /\ processes \in Nat
    /\ principal \in {"none", "live", "leaving", "gone"} /\ listed \in BOOLEAN
    /\ waiting \in Seq(Calls) /\ running \in Calls \cup {Nothing}
    /\ active \in Runs /\ latch \in BOOLEAN /\ queued \in Seq(Event)
    /\ ended \in [Run -> {"open", "drained", "closing", "cut", "cleaned"}]
    /\ calls \in Nat

\* The Store is there once the loading is done, which the principal stays for, and calls
\* wait for it only then.  It is busy while a call has it; that call has the active run,
\* and the one before it was none.
StoreHeld ==
    /\ phase = "ready" <=> store # "none"
    /\ waiting # <<>> => phase = "ready"
    /\ phase = "new" \/ Loading => principal \in {"none", "live"}
    /\ store = "busy" <=> running # Nothing
    /\ running = Nothing => active = NoRun
    /\ running # Nothing => active = running.run /\ running.before = NoRun
    /\ running # Nothing /\ running.kind = "tool" => (latch <=> running.refused)

\* What waits for the Store is fresh, and for a run that is open; or it is the one end of
\* a run that is closing, and nothing else is for that run.
WaitingFresh ==
    \A i \in DOMAIN waiting :
        /\ ~waiting[i].left /\ ~waiting[i].refused
        /\ waiting[i].kind = "finish" => waiting[i].run \in Run
        /\ waiting[i].run \in Run =>
              ended[waiting[i].run] = IF waiting[i].kind = "finish" THEN "closing" ELSE "open"
        /\ \A j \in DOMAIN waiting :
              waiting[i].kind = "finish" /\ waiting[j].run = waiting[i].run => j = i

\* The same of the call that has the Store, as long as somebody waits for it; an
\* abandoned one may be of a run that is over, but not yet of one that is cleaned.
RunningHeard ==
    running # Nothing =>
        /\ running.kind = "finish" => running.run \in Run
        /\ running.run \in Run => ended[running.run] # "cleaned"
        /\ running.run \in Run /\ ~running.left =>
              ended[running.run] = IF running.kind = "finish" THEN "closing" ELSE "open"
        /\ running.kind = "finish" /\ ~running.left =>
              \A i \in DOMAIN waiting : waiting[i].run # running.run

GuestInv ==
    /\ GuestTypes /\ StoreHeld /\ WaitingFresh /\ RunningHeard
    /\ EventsOfTheirRun /\ NothingLeftBehind /\ AnswerOfOwnCall /\ NothingOutlivesStore
==============================================================================
