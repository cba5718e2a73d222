---------------------------- MODULE ToolAdmission ---------------------------
(***************************************************************************)
(* Which tools an agent may use, and how the calls of one response of the  *)
(* model are admitted and run: permissions.rs of agent-runtime, policy.rs  *)
(* of agent-tool, admit_tool and its callers in agent/run.rs of the        *)
(* kernel.  An agent's access is what its parent may use, narrowed by what *)
(* was asked for it.  Every agent is built from the template of its        *)
(* profile, so that its bus is a child of the template's and not of its    *)
(* parent's: the parent's own gate is not asked.                           *)
(*                                                                         *)
(* The access of an agent never changes, so agents do not disturb each     *)
(* other here and one turn at a time stands for all.  Listeners may cancel *)
(* a call, cancel the run, and rewrite the call before and after the       *)
(* gate of the access: another listener of the highest priority that       *)
(* subscribed later comes after the gate.                                  *)
(***************************************************************************)
EXTENDS Naturals, Sequences, FiniteSets

CONSTANTS
    Agent,
    Root,
    Tool,
    Process,     \* the tools that start processes
    Read,        \* the tools whose permission scope is Read
    All,         \* ToolAccess::All
    NoAgent,
    NoAccess,
    MaxCalls     \* bound: the calls of one response

(* What the proofs ask of the constants. *)
Distinct ==
    /\ Root \in Agent /\ NoAgent \notin Agent
    /\ Process \subseteq Tool /\ Read \subseteq Tool
    /\ NoAccess # All /\ \A tools \in SUBSET Tool : All # tools /\ NoAccess # tools
    /\ MaxCalls \in Nat

Access == {All} \cup SUBSET Tool

VARIABLES
    access,      \* of each agent there is; NoAccess for the others
    above,       \* the agents it descends from
    policy,      \* the execution policy of the template
    turn,        \* the response being carried out
    cancelled

admissionVars == <<access, above, policy, turn, cancelled>>

------------------------------------------------------------------------------
(* ToolAccess *)
Permits(scope, t) == t \in (IF scope = All THEN Tool ELSE scope)
Restrict_Asked(scope, requested) == requested                               \* mutant
Restrict(scope, requested) ==
    IF scope = All THEN requested
    ELSE IF requested = All THEN scope ELSE scope \cap requested

(* ExecutionPolicy: the profile, the wish and the limit of processes agree. *)
Policies == [tools : Access, processes : BOOLEAN]
PolicyPermits(t) == Permits(policy.tools, t) /\ (t \in Process => policy.processes)

There(a) == access[a] # NoAccess
(* What the model of an agent sees: the registry's subset and the plugins'. *)
Exposed(a) == {t \in Tool : Permits(access[a], t) /\ PolicyPermits(t)}

Idle == [agent |-> NoAgent, calls |-> <<>>, state |-> <<>>, tool |-> <<>>, from |-> 1, upto |-> 0]
Waiting == "waiting"      \* not yet looked at
Ready == "ready"          \* admitted
Running == "running"
Settled == {"denied", "interrupted", "skipped", "unknown", "done"}
States == {Waiting, Ready, Running} \cup Settled

AdmissionInit ==
    /\ access = [a \in Agent |-> IF a = Root THEN All ELSE NoAccess]
    /\ above = [a \in Agent |-> {}]
    /\ policy \in Policies
    /\ turn = Idle
    /\ cancelled = FALSE

------------------------------------------------------------------------------
(* spawn_from *)
Spawn(parent, child, requested) ==
    /\ There(parent) /\ ~There(child)
    /\ access' = [access EXCEPT ![child] = Restrict(access[parent], requested)]
    /\ above' = [above EXCEPT ![child] = above[parent] \cup {parent}]
    /\ UNCHANGED <<policy, turn, cancelled>>

(* continue_from: a later run of the same agent, under a new identity. *)
Continue(source, child) ==
    /\ There(source) /\ ~There(child)
    /\ access' = [access EXCEPT ![child] = access[source]]
    /\ above' = [above EXCEPT ![child] = above[source] \cup {source}]
    /\ UNCHANGED <<policy, turn, cancelled>>

(* The model answers with calls, of tools it was shown or not. *)
Respond(a, calls) ==
    /\ There(a) /\ turn.agent = NoAgent
    /\ turn' = [agent |-> a, calls |-> calls, state |-> [i \in DOMAIN calls |-> Waiting],
                tool |-> calls, from |-> 1, upto |-> 0]
    /\ cancelled' = FALSE
    /\ UNCHANGED <<access, above, policy>>

InTurn == turn.agent # NoAgent
Last == Len(turn.calls)

(* read_only_batch_end: the consecutive calls of scope Read, or one call. A *)
(* scope is that of a tool the model was shown.                             *)
ReadOnly_Any(i) == TRUE                                                     \* mutant
ReadOnly(i) == turn.calls[i] \in Read \cap Exposed(turn.agent)
EndsBatch(e) ==
    IF ReadOnly(turn.from)
    THEN (\A i \in turn.from..e : ReadOnly(i)) /\ (e < Last => ~ReadOnly(e + 1))
    ELSE e = turn.from

(* Before each batch the cancellation is looked at. *)
TakeBatch ==
    /\ InTurn /\ turn.from <= Last /\ turn.upto < turn.from /\ ~cancelled
    /\ \E e \in turn.from..Last : EndsBatch(e) /\ turn' = [turn EXCEPT !.upto = e]
    /\ UNCHANGED <<access, above, policy, cancelled>>

Skip == turn' = [turn EXCEPT !.from = Last + 1,
                !.state = [i \in DOMAIN @ |-> IF i >= turn.from THEN "skipped" ELSE @[i]]]
SkipRest ==
    /\ InTurn /\ turn.from <= Last /\ turn.upto < turn.from /\ cancelled
    /\ Skip
    /\ UNCHANGED <<access, above, policy, cancelled>>

(* admit_tool looks at the calls of a batch one after the other. *)
InBatch == turn.from..turn.upto
Admits(i) ==
    /\ InTurn /\ i \in InBatch /\ turn.state[i] = Waiting
    /\ \A j \in turn.from..(i - 1) : turn.state[j] # Waiting
Becomes(i, s, t) == turn' = [turn EXCEPT !.state[i] = s, !.tool[i] = t]

(* The policy is asked before any listener sees the call. *)
DeniedByPolicy(i) ==
    /\ Admits(i) /\ ~PolicyPermits(turn.calls[i])
    /\ Becomes(i, "denied", turn.calls[i])
    /\ UNCHANGED <<access, above, policy, cancelled>>

Interrupted(i) ==
    /\ Admits(i) /\ PolicyPermits(turn.calls[i]) /\ cancelled
    /\ Becomes(i, "interrupted", turn.calls[i])
    /\ UNCHANGED <<access, above, policy, cancelled>>

(* A listener refuses the call, or the whole run with it. *)
Refused(i, run) ==
    /\ Admits(i) /\ PolicyPermits(turn.calls[i]) /\ ~cancelled
    /\ Becomes(i, IF run THEN "interrupted" ELSE "denied", turn.calls[i])
    /\ cancelled' = run
    /\ UNCHANGED <<access, above, policy>>

(* The listeners agree: those before the gate of the access leave the call   *)
(* at t, those after it at u; what is left must please the policy once more. *)
Admitted_Once(i, t, u) == IF Permits(access[turn.agent], t) THEN Ready ELSE "denied"   \* mutant
Admitted(i, t, u) ==
    IF Permits(access[turn.agent], t) /\ PolicyPermits(u) THEN Ready ELSE "denied"
Agreed(i, t, u) ==
    /\ Admits(i) /\ PolicyPermits(turn.calls[i]) /\ ~cancelled
    /\ Becomes(i, Admitted(i, t, u), u)
    /\ UNCHANGED <<access, above, policy, cancelled>>

Looked == \A j \in InBatch : turn.state[j] # Waiting

(* run_admitted_call: what was admitted starts together.  A tool that the    *)
(* subset of the registry lacks goes to the plugins, whose access is looked  *)
(* at again.                                                                 *)
Known_Any(t) == TRUE                                                        \* mutant
Known(t) == Permits(access[turn.agent], t)
Launch ==
    /\ InTurn /\ turn.upto >= turn.from /\ Looked
    /\ \E i \in InBatch : turn.state[i] = Ready
    /\ turn' = [turn EXCEPT !.state = [i \in DOMAIN @ |->
                   IF @[i] # Ready THEN @[i]
                   ELSE IF Known(turn.tool[i]) THEN Running ELSE "unknown"]]
    /\ UNCHANGED <<access, above, policy, cancelled>>

Returns(i) ==
    /\ InTurn /\ i \in InBatch /\ turn.state[i] = Running
    /\ turn' = [turn EXCEPT !.state[i] = "done"]
    /\ UNCHANGED <<access, above, policy, cancelled>>

(* Agent::cancel: a running tool is interrupted and leaves a result. *)
Cancel ==
    /\ InTurn /\ ~cancelled
    /\ cancelled' = TRUE
    /\ UNCHANGED <<access, above, policy, turn>>

(* A steering message that the listeners let in calls the later batches off. *)
Steered ==
    /\ InTurn /\ turn.from > 1 /\ turn.from <= Last /\ turn.upto < turn.from /\ ~cancelled
    /\ Skip
    /\ UNCHANGED <<access, above, policy, cancelled>>

BatchDone ==
    /\ InTurn /\ turn.upto >= turn.from
    /\ \A i \in InBatch : turn.state[i] \in Settled
    /\ turn' = [turn EXCEPT !.from = turn.upto + 1]
    /\ UNCHANGED <<access, above, policy, cancelled>>

EndTurn ==
    /\ InTurn /\ turn.from > Last
    /\ turn' = Idle
    /\ UNCHANGED <<access, above, policy, cancelled>>

Responses == UNION {[1..n -> Tool] : n \in 1..MaxCalls}
AdmissionNext ==
    \/ \E a, b \in Agent : Continue(a, b) \/ \E scope \in Access : Spawn(a, b, scope)
    \/ \E a \in Agent, calls \in Responses : Respond(a, calls)
    \/ TakeBatch \/ SkipRest \/ Steered \/ Launch \/ Cancel \/ BatchDone \/ EndTurn
    \/ \E i \in 1..MaxCalls :
          \/ DeniedByPolicy(i) \/ Interrupted(i) \/ Returns(i)
          \/ \E run \in BOOLEAN : Refused(i, run)
          \/ \E t, u \in Tool : Agreed(i, t, u)

AdmissionSpec == AdmissionInit /\ [][AdmissionNext]_admissionVars

------------------------------------------------------------------------------
(* "子节点请求 All 也不会恢复父节点已移除的工具", and RestrictedExtension and  *)
(* the policy behind it: no tool runs for an agent, whatever its model asked *)
(* for and the listeners made of it, that the policy or one of the agents it *)
(* descends from may not use, though none of those is asked.                 *)
NothingBeyondAncestors ==
    \A i \in DOMAIN turn.state : turn.state[i] = Running =>
        /\ PolicyPermits(turn.tool[i])
        /\ \A a \in {turn.agent} \cup above[turn.agent] : Permits(access[a], turn.tool[i])

(* "只有 Read 的调用可以并发 … 批必须是连续的": a call that is not a Read is alone  *)
(* from its admission to its result, and all before it have theirs.          *)
Open(i) == turn.state[i] \in {Ready, Running}
WritesAlone ==
    \A i, j \in DOMAIN turn.state : i < j /\ turn.state[j] # Waiting
        /\ ~(turn.calls[i] \in Read /\ turn.calls[j] \in Read) => ~Open(i) /\ turn.state[i] # Waiting

(* Both: what a round of tools does is what the agent may do, in the order   *)
(* that keeps its writes apart (admit_tool, run_read_only_batch).            *)
RoundsSound == NothingBeyondAncestors /\ WritesAlone
==============================================================================
