----------------------------- MODULE PluginLoad -----------------------------
(***************************************************************************)
(* The progressive loading of plugins (host/src/wasm/loader.rs): a plan    *)
(* that puts providers first and sets aside the plugins that cannot load,  *)
(* then a loop that loads up to MaxLoading plugins at a time in the order  *)
(* of the plan and publishes each one that is ready.                       *)
(*                                                                         *)
(* A plugin is its place in the configuration.  unfit are the plugins with *)
(* a required dependency that is not installed or an installed one of the  *)
(* wrong version; whether loading then succeeds is any choice.             *)
(***************************************************************************)
EXTENDS Naturals, FiniteSets, Sequences, SequencesExt

CONSTANTS N,            \* how many plugins are configured
          MaxLoading,   \* MAX_PROGRESSIVE_LOAD_CONCURRENCY
          NoOwner

VARIABLES required,     \* plugin -> the plugins it cannot do without
          optional,     \* plugin -> the ones it can
          unfit,
          policyOwner,  \* who decides on tools: nothing loads before it
          order,        \* the plan
          pending, loading,
          published,    \* the plugins the host was given, in that order
          lost,         \* the plugins that failed or were skipped
          crashed,      \* those among them whose own loading failed
          aborted       \* the host refused a plugin, and the whole loading ended

loadVars == <<required, optional, unfit, policyOwner, order, pending, loading,
              published, lost, crashed, aborted>>

Index == 1..N
Least(S) == CHOOSE x \in S : \A y \in S : x <= y
Place(s, p) == CHOOSE i \in 1..Len(s) : s[i] = p

(* Which of these are reached from p along the edges of a graph.            *)
Reach(graph, p) ==
    LET step[n \in 0..N] ==
            IF n = 0 THEN graph[p]
            ELSE step[n - 1] \union UNION {graph[q] : q \in step[n - 1]}
    IN  step[N]

(* topological_order: again and again the first plugin whose edges are met. *)
Topological(graph, nodes) ==
    LET prefix[n \in 0..N] ==
            IF n = 0 THEN <<>>
            ELSE LET done == ToSet(prefix[n - 1])
                     ready == {p \in nodes \ done : graph[p] \intersect nodes \subseteq done}
                 IN  IF ready = {} THEN prefix[n - 1]
                     ELSE Append(prefix[n - 1], Least(ready))
    IN  prefix[N]

(* The plugins that fail before anything loads: the unfit, those that need  *)
(* one that fails, then those no order of the required edges reaches.       *)
PlanFailures(needs, bad) ==
    LET spread == {p \in Index : p \in bad \/ Reach(needs, p) \intersect bad # {}}
        ordered == ToSet(Topological(needs, Index \ spread))
    IN  Index \ ordered

(* An optional edge joins the plan when it closes no circle (path_exists).  *)
PlanEdges(needs, likes, eligible) ==
    LET pairs == SetToSortSeq({<<p, q>> \in eligible \X eligible : q \in likes[p]},
                     LAMBDA a, b : a[1] < b[1] \/ (a[1] = b[1] /\ a[2] < b[2]))
        edges[n \in 0..Len(pairs)] ==
            IF n = 0 THEN [p \in Index |-> needs[p] \intersect eligible]
            ELSE LET p == pairs[n][1]
                     q == pairs[n][2]
                 IN  IF p = q \/ p \in Reach(edges[n - 1], q) THEN edges[n - 1]
                     ELSE [edges[n - 1] EXCEPT ![p] = @ \union {q}]
    IN  edges[Len(pairs)]

(* prioritize_progressive_order: the owner of the policy, after everything  *)
(* it depends on that the plan has before it, comes first.                  *)
RECURSIVE Emit(_, _, _, _)
Emit(p, base, graph, out) ==
    IF p \in ToSet(out) THEN out
    ELSE LET before == SetToSortSeq({q \in graph[p] \intersect ToSet(base) :
                                        Place(base, q) < Place(base, p)},
                           LAMBDA a, b : Place(base, a) < Place(base, b))
             emitted[n \in 0..Len(before)] ==
                 IF n = 0 THEN out ELSE Emit(before[n], base, graph, emitted[n - 1])
         IN  Append(emitted[Len(before)], p)

Prioritized_First(base, graph, owner) == IF owner = NoOwner THEN base ELSE <<owner>> \o Remove(base, owner)  \* mutant
Prioritized(base, graph, owner) ==
    LET goals == IF owner = NoOwner THEN base ELSE <<owner>> \o base
        out[n \in 0..Len(goals)] ==
            IF n = 0 THEN <<>>
            ELSE IF goals[n] \in ToSet(out[n - 1]) THEN out[n - 1]
            ELSE Emit(goals[n], base, graph, out[n - 1])
    IN  out[Len(goals)]

Plan(needs, likes, bad, owner) ==
    LET eligible == Index \ PlanFailures(needs, bad)
        base == Topological(PlanEdges(needs, likes, eligible), eligible)
    IN  Prioritized(base, [p \in Index |-> needs[p] \union likes[p]], owner)

Init ==
    /\ required \in {g \in [Index -> SUBSET Index] : \A p \in Index : p \notin g[p]}
    /\ optional \in {g \in [Index -> SUBSET Index] :
                       \A p \in Index : p \notin g[p] /\ g[p] \intersect required[p] = {}}
    /\ unfit \in {S \in SUBSET Index : Cardinality(S) <= 1}
    /\ policyOwner \in (Index \ PlanFailures(required, unfit)) \union {NoOwner}
    /\ order = Plan(required, optional, unfit, policyOwner)
    /\ pending = ToSet(order)
    /\ loading = {}
    /\ published = <<>>
    /\ lost = Index \ ToSet(order)
    /\ crashed = {} /\ aborted = FALSE

-----------------------------------------------------------------------------
Completed == ToSet(published) \union lost

(* progressive_dependencies_settled: what the plan has before it is done.   *)
Settled_All(p) == \A q \in required[p] \union optional[p] : q \in Completed  \* mutant
Settled(p) ==
    \A q \in required[p] \union optional[p] :
        q \in ToSet(order) /\ Place(order, q) < Place(order, p) => q \in Completed

(* The policy gate: until its owner is done, nothing after it in the plan.  *)
Admitted_Always(p) == TRUE                                         \* mutant
Admitted(p) ==
    policyOwner = NoOwner \/ policyOwner \in Completed
        \/ Place(order, p) <= Place(order, policyOwner)

Startable == {p \in pending : Admitted(p) /\ Settled(p)}
Candidate == order[Least({Place(order, p) : p \in Startable})]
CanStart == ~aborted /\ Startable # {} /\ Cardinality(loading) < MaxLoading

(* failed_required_dependencies.                                            *)
Blocked_Any(p) == (required[p] \union optional[p]) \intersect lost # {}  \* mutant
Blocked(p) == required[p] \intersect lost # {}

Skip ==
    /\ CanStart /\ Blocked(Candidate)
    /\ pending' = pending \ {Candidate}
    /\ lost' = lost \union {Candidate}
    /\ UNCHANGED <<required, optional, unfit, policyOwner, order, loading, published, crashed,
                   aborted>>

Start ==
    /\ CanStart /\ ~Blocked(Candidate)
    /\ pending' = pending \ {Candidate}
    /\ loading' = loading \union {Candidate}
    /\ UNCHANGED <<required, optional, unfit, policyOwner, order, published, lost, crashed,
                   aborted>>

(* The loop fills its places before it looks at a result.                   *)
Publish(p) ==
    /\ ~CanStart /\ p \in loading
    /\ loading' = loading \ {p}
    /\ published' = Append(published, p)
    /\ UNCHANGED <<required, optional, unfit, policyOwner, order, pending, lost, crashed,
                   aborted>>

Fail(p) ==
    /\ ~CanStart /\ p \in loading
    /\ loading' = loading \ {p}
    /\ lost' = lost \union {p}
    /\ crashed' = crashed \union {p}
    /\ UNCHANGED <<required, optional, unfit, policyOwner, order, pending, published,
                   aborted>>

(* publish returns an error (before the plugin is in the list, or while the *)
(* subscriptions are brought in step): the loading ends with it, and what   *)
(* still loads is dropped.                                                  *)
PublishFails(p) ==
    /\ ~CanStart /\ p \in loading
    /\ published' \in {published, Append(published, p)}
    /\ loading' = {} /\ aborted' = TRUE
    /\ UNCHANGED <<required, optional, unfit, policyOwner, order, pending, lost, crashed>>

Next == Skip \/ Start \/ (\E p \in Index : Publish(p) \/ Fail(p) \/ PublishFails(p))

Spec == Init /\ [][Next]_loadVars

-----------------------------------------------------------------------------
(* The loop never stands with plugins left and nothing to wait for (its     *)
(* error "渐进插件加载计划无法继续推进"), whatever the dependencies: an       *)
(* optional circle included; only an error of the host ends it before.      *)
NeverStalls == pending = {} \/ loading # {} \/ CanStart \/ aborted

(* A plugin is given to the host after every plugin it requires: the moving *)
(* of the policy's owner to the front and the parallel loading keep it so.  *)
RequiredFirst ==
    \A i \in 1..Len(published) :
        required[published[i]] \subseteq {published[j] : j \in 1..(i - 1)}

(* Before the policy's owner is done, what loads is what its own loading    *)
(* may wait for: no tool of another plugin is there without the policy.     *)
NothingBeforePolicy ==
    policyOwner \in Index \ Completed =>
        LET graph == [p \in Index |-> required[p] \union optional[p]]
        IN  loading \union ToSet(published)
                \subseteq Reach(graph, policyOwner) \union {policyOwner}

(* In the end every plugin is published, unless it is unfit, failed, stands *)
(* in a circle of required dependencies, or requires such a plugin, unless  *)
(* the host refuses one: a plugin that fails never takes more with it       *)
(* ("可选依赖方和无关插件继续加载").                                         *)
OthersLoad ==
    LET guilty == unfit \union crashed \union {p \in Index : p \in Reach(required, p)}
    IN  ~aborted /\ pending \union loading = {} =>
            ToSet(published) =
                {p \in Index : ({p} \union Reach(required, p)) \intersect guilty = {}}
=============================================================================
