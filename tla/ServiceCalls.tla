---------------------------- MODULE ServiceCalls ----------------------------
(***************************************************************************)
(* Calls between plugins: the directory of services (host/src/service.rs)  *)
(* and the lock, the lease and the deadline of the one Store each plugin   *)
(* has (host/src/wasm/mod.rs).                                             *)
(*                                                                         *)
(* A call is a frame.  It first waits for the plugin's Store inside the    *)
(* future of its caller; once it has the Store it runs in a task of its    *)
(* own, which no cancellation of the caller stops, until it returns or its *)
(* deadline passes.  The chain of plugins a task is inside of travels with *)
(* the task.  Time is a clock; every call has the same budget of ticks.    *)
(***************************************************************************)
EXTENDS Naturals, FiniteSets, Sequences, SequencesExt

CONSTANTS Component,    \* the plugins
          Frame, NoFrame,
          Budget,       \* how long a call may wait, and then run
          MaxTime       \* bound of the model: ticks of the clock

VARIABLES dependencies, \* plugin -> the plugins its manifest names
          listed,       \* the plugins with an identity, a handler and services
          slot,         \* plugin -> "full", or "empty" when its Store is out
          broken,       \* the plugins one of whose calls was cut off
          frames,       \* frame -> the call it stands for
          clock

callVars == <<dependencies, listed, slot, broken, frames, clock>>

Free == [state |-> "free", plugin |-> NoFrame, chain |-> <<>>, caller |-> NoFrame,
         retire |-> FALSE, orphan |-> FALSE, until |-> 0]

Waiting == {f \in Frame : frames[f].state = "waiting"}
Running == {f \in Frame : frames[f].state = "running"}
Calls(f) == {g \in Frame : frames[g].state # "free" /\ frames[g].caller = f}

(* resolve_plugin_load_order: an order with every dependency first exists. *)
Ordered(graph) ==
    \E order \in SetToSeqs(Component) :
        \A i, j \in 1..Len(order) : order[j] \in graph[order[i]] => j < i

(* Any graph: resilient_dependency_plan drops an optional dependency that   *)
(* would close a cycle from its order, the manifest still names it.         *)
CallsInit ==
    /\ dependencies \in {g \in [Component -> SUBSET Component] : \A p \in Component : p \notin g[p]}
    /\ listed = Component
    /\ slot = [p \in Component |-> "full"]
    /\ broken = {}
    /\ frames = [f \in Frame |-> Free]
    /\ clock = 0

-----------------------------------------------------------------------------
Declared_Listed(p, q) == p \in listed                              \* mutant
(* What a call of a service has to pass.                                    *)
Declared(p, q) == p \in listed /\ (p = q \/ q \in dependencies[p])

Chain(f) == IF frames[f].chain = <<>> THEN <<frames[f].plugin>> ELSE frames[f].chain

Until_Own(caller) == clock + Budget                                \* mutant
(* component_deadline: the budget from now on, never past the caller's.     *)
Until(caller) ==
    IF caller # NoFrame /\ frames[caller].until < clock + Budget
    THEN frames[caller].until ELSE clock + Budget

Enter(f, p, chain, caller, retire) ==
    /\ frames[f].state = "free"
    /\ frames' = [frames EXCEPT ![f] =
           [state |-> "waiting", plugin |-> p, chain |-> chain, caller |-> caller,
            retire |-> retire, orphan |-> FALSE, until |-> Until(caller)]]

(* The host calls an export: a tool, an event, a view.  No chain is set.    *)
Export(f, p) ==
    /\ Enter(f, p, <<>>, NoFrame, FALSE)
    /\ UNCHANGED <<dependencies, listed, slot, broken, clock>>

(* The application calls a service: the chain starts with the provider.     *)
AppCall(f, p) ==
    /\ p \in listed
    /\ Enter(f, p, <<p>>, NoFrame, FALSE)
    /\ UNCHANGED <<dependencies, listed, slot, broken, clock>>

(* The guest of a running call calls a service of a plugin and waits.  The  *)
(* chain it is refused by is the one its own task carries.                  *)
GuestCall(f, caller, q) ==
    /\ caller \in Running /\ Calls(caller) = {}
    /\ Declared(frames[caller].plugin, q)
    /\ q \in listed
    /\ q \notin ToSet(Chain(caller))
    /\ Enter(f, q, Append(Chain(caller), q), caller, FALSE)
    /\ UNCHANGED <<dependencies, listed, slot, broken, clock>>

(* deactivate: the last call of a Store, then the directory forgets it.     *)
Deactivate(f, p) ==
    /\ p \in listed
    /\ \A g \in Frame : ~(frames[g].retire /\ frames[g].plugin = p)
    /\ Enter(f, p, <<>>, NoFrame, TRUE)
    /\ UNCHANGED <<dependencies, listed, slot, broken, clock>>

-----------------------------------------------------------------------------
(* The lock is free: the Store leaves its slot and the call runs in a task  *)
(* of its own, with its caller's deadline if that is nearer.                *)
Acquire(f) ==
    LET c == frames[f]
    IN  /\ f \in Waiting
        /\ \A g \in Running : frames[g].plugin # c.plugin
        /\ slot[c.plugin] = "full"
        /\ slot' = [slot EXCEPT ![c.plugin] = "empty"]
        /\ frames' = [frames EXCEPT ![f] = [c EXCEPT !.state = "running", !.until = Until(c.caller)]]
        /\ UNCHANGED <<dependencies, listed, broken, clock>>

(* A wait ends without the Store: the deadline, a caller that is gone, or a *)
(* slot with nothing in it.  Nothing happens to the Store; a deactivation   *)
(* unregisters its plugin all the same.                                     *)
GiveUp(f) ==
    LET c == frames[f]
    IN  /\ f \in Waiting
        /\ \/ c.until <= clock
           \/ c.caller = NoFrame /\ ~c.retire
           \/ slot[c.plugin] = "empty" /\ \A g \in Running : frames[g].plugin # c.plugin
        /\ frames' = [frames EXCEPT ![f] = Free]
        /\ listed' = IF c.retire THEN listed \ {c.plugin} ELSE listed
        /\ UNCHANGED <<dependencies, slot, broken, clock>>

Forgotten_Never(p) == listed                                       \* mutant
(* Drop of ComponentCallLease: the Store is gone and so are its services.   *)
Forgotten(p) == listed \ {p}

(* The guest returned, or trapped, in time: the Store goes back unless this *)
(* was its deactivation.                                                    *)
Return(f) ==
    LET c == frames[f]
    IN  /\ f \in Running /\ Calls(f) = {}
        /\ frames' = [frames EXCEPT ![f] = Free]
        /\ IF c.retire THEN slot' = slot /\ listed' = Forgotten(c.plugin)
           ELSE slot' = [slot EXCEPT ![c.plugin] = "full"] /\ listed' = listed
        /\ UNCHANGED <<dependencies, broken, clock>>

Restored_Anyway(p) == [slot EXCEPT ![p] = "full"]                  \* mutant
Restored(p) == slot

(* The deadline passed first.  The wait of a nested call goes with the      *)
(* future it lives in; a nested call that already runs goes on alone.       *)
Expire(f) ==
    LET c == frames[f]
    IN  /\ f \in Running
        /\ c.until <= clock
        /\ frames' = [g \in Frame |->
                IF g = f \/ (g \in Waiting /\ frames[g].caller = f) THEN Free
                ELSE IF g \in Running /\ frames[g].caller = f
                     THEN [frames[g] EXCEPT !.caller = NoFrame, !.orphan = TRUE]
                     ELSE frames[g]]
        /\ slot' = Restored(c.plugin)
        /\ broken' = broken \union {c.plugin}
        /\ listed' = Forgotten(c.plugin)
        /\ UNCHANGED <<dependencies, clock>>

(* Time passes while no call is past its deadline.                          *)
Tick ==
    /\ clock < MaxTime
    /\ \A f \in Waiting \union Running : frames[f].until > clock
    /\ clock' = clock + 1
    /\ UNCHANGED <<dependencies, listed, slot, broken, frames>>

CallsNext ==
    \/ \E f \in Frame, p \in Component :
          \/ Export(f, p)
          \/ AppCall(f, p)
          \/ Deactivate(f, p)
          \/ \E caller \in Frame : GuestCall(f, caller, p)
    \/ \E f \in Frame : Acquire(f) \/ GiveUp(f) \/ Return(f) \/ Expire(f)
    \/ Tick

CallsSpec == CallsInit /\ [][CallsNext]_callVars

-----------------------------------------------------------------------------
(* The frame that keeps frame f from going on: the call it waits for, or    *)
(* the call that has the Store it needs.                                    *)
Blocks(f) == Calls(f) \union
             (IF f \in Waiting THEN {g \in Running : frames[g].plugin = frames[f].plugin} ELSE {})

(* Calls of plugins never wait for each other in a circle: starting from    *)
(* any call, following what it waits for reaches a call that can go on.     *)
(* The chain a task carries sees its own calls only, so two tasks are kept  *)
(* apart by the order of the dependencies alone (call_inner, invoke_service,*)
(* resolve_plugin_load_order).                                              *)
Uncircled == \A S \in SUBSET Frame : S # {} => \E f \in S : Blocks(f) \intersect S = {}
NoWaitCycle == Ordered(dependencies) => Uncircled

(* The same without the order, as the documentation has it: "Host 会阻止    *)
(* 同步自调用和循环重入" (docs/plugin/dependencies-services.md).              *)
ReentryAlwaysRefused == Uncircled

(* A Store that no call has is in its slot, and then no call of it was ever *)
(* cut off, or it is lost, and then the directory no longer offers its      *)
(* services (complete_component_call, ComponentCallLease::drop).            *)
StoresAccounted ==
    \A p \in Component : (\A f \in Running : frames[f].plugin # p) =>
        IF slot[p] = "full" THEN p \notin broken ELSE p \notin listed

(* A nested call whose caller was cut off is itself at its deadline: no     *)
(* task of its own lengthens the window of the export it serves             *)
(* (COMPONENT_DEADLINE).                                                    *)
NoOrphanLingers ==
    \A f \in Running : frames[f].orphan => frames[f].until <= clock

(* Calls between plugins neither block each other for ever, nor lose a      *)
(* Store unnoticed, nor leave work behind that nobody waits for.            *)
CallsSound == StoresAccounted /\ NoOrphanLingers /\ NoWaitCycle

(* What is assumed of the constants.                                        *)
CallsAssumption == NoFrame \notin Frame /\ IsFiniteSet(Component) /\ Budget \in Nat
=============================================================================
