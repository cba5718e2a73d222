-------------------------- MODULE ContextCompaction --------------------------
(***************************************************************************)
(* The native context loader (agent-core/context/src/lib.rs): what a model *)
(* request is given of a run's history.  Below the window's mark it is the *)
(* history itself; above, old results of tools are elided, and if that is  *)
(* not enough the older rounds give way to a summary.  The outcome is      *)
(* cached and the next load only appends to it what the history has grown  *)
(* by.                                                                     *)
(*                                                                         *)
(* One loader serves several runs at once (the team's members share one)   *)
(* while the user may change the model.  The lock of the cache is held     *)
(* neither while a load counts and hashes nor while a model writes the     *)
(* summary.  A message is its kind, an identity for its text, and its form *)
(* ("raw", "capped", "cleared"); a summary is the identities it covers.    *)
(***************************************************************************)
EXTENDS Naturals, Sequences, SequencesExt

CONSTANTS Run,
          NoCache, NoLoad,
          Mark,         \* compact: the tokens from which a context is reduced
          RecentTarget, \* recent_target: the tokens a summary leaves alone
          KeepRecent,   \* RECENT_TOOL_RESULTS_TO_KEEP
          Batch,        \* MICRO_COMPACT_CLEAR_BATCH
          MaxLength,    \* bounds of the model: MaxLength[r] messages
          MaxRevisions, MaxRoutes

VARIABLES history,      \* run -> its messages
          revisions,    \* how many texts were replaced: prompts change
          route,        \* the model's route and window, as the loader has it
          cache,
          load,         \* run -> the load under way
          given         \* run -> what its last load returned, until it goes on

contextVars == <<history, revisions, route, cache, load, given>>

Message(kind, id) == [kind |-> kind, text |-> <<id>>, form |-> "raw"]

Init ==
    /\ history = [r \in Run |-> <<Message("user", <<r, 1, 0>>)>>]
    /\ revisions = 0
    /\ route = 1
    /\ cache = NoCache
    /\ load = [r \in Run |-> NoLoad]
    /\ given = [r \in Run |-> <<>>]

-----------------------------------------------------------------------------
(* The algorithm.                                                          *)

IsResult(m) == m.kind \in {"result", "failed"}

(* A raw result is the large thing in a history; every other message is one.*)
Tokens(ms) ==
    FoldLeft(LAMBDA n, m : n + (IF ~IsResult(m) THEN 1
                                ELSE CASE m.form = "raw" -> 4 [] m.form = "capped" -> 2
                                       [] m.form = "cleared" -> 1), 0, ms)

(* cap_tool_results: the middle of a long result goes.                      *)
Capped(ms) ==
    [i \in DOMAIN ms |-> IF IsResult(ms[i]) /\ ms[i].form = "raw"
                         THEN [ms[i] EXCEPT !.form = "capped"] ELSE ms[i]]

(* compactable_tool_result_count: the results of calls that succeeded.      *)
Results(ms) == SelectSeq([i \in DOMAIN ms |-> i], LAMBDA i : ms[i].kind = "result")

Clearable_All(ms) == Len(Results(ms))  \* mutant
(* micro_clear_target: how many of them, from the start, are to be cleared. *)
(* The boundary moves by batches, so that the prefix mostly stays the same. *)
Clearable(ms) == IF Len(Results(ms)) > KeepRecent THEN Len(Results(ms)) - KeepRecent ELSE 0
ClearTarget(ms, floor, manual) ==
    LET kept == IF floor < Clearable(ms) THEN floor ELSE Clearable(ms)
    IN  IF manual \/ kept = 0 \/ Clearable(ms) >= kept + Batch THEN Clearable(ms) ELSE kept

(* micro_compact_tool_results, then cap_tool_results on all of it.          *)
Cleared(ms, target) ==
    LET first == ToSet(SubSeq(Results(ms), 1, target))
    IN  [i \in DOMAIN ms |-> IF i \in first THEN [ms[i] EXCEPT !.form = "cleared"] ELSE ms[i]]
Micro(ms, floor, manual) == Capped(Cleared(ms, ClearTarget(ms, floor, manual)))

GroupStarts_Every(ms) == [i \in DOMAIN ms |-> i]  \* mutant
(* api_round_group_starts: a round begins where the model spoke.            *)
GroupStarts(ms) ==
    SelectSeq([i \in DOMAIN ms |-> i], LAMBDA i : i = 1 \/ ms[i].kind = "assistant")

(* recent_tail_start: the rounds, from the last one back, that fit.         *)
TailStart(ms, manual) ==
    LET starts == GroupStarts(ms)
        Kept(g) == Tokens(SubSeq(ms, starts[g], Len(ms)))
        fits == {g \in 1..Len(starts) : Kept(g) <= RecentTarget}
    IN  IF manual \/ fits = {} THEN starts[Len(starts)]
        ELSE starts[CHOOSE g \in fits : \A h \in fits : g <= h]

(* compact_messages: the summary of all before the tail, then the tail.     *)
Splits(ms, manual) ==
    Len(GroupStarts(ms)) >= 2 /\ TailStart(ms, manual) > 1
Texts(ms) == FoldLeft(LAMBDA s, m : s \o m.text, <<>>, ms)
Summarized(ms, manual) ==
    LET k == TailStart(ms, manual)
    IN  <<[kind |-> "summary", text |-> Texts(SubSeq(ms, 1, k - 1)), form |-> "raw"]>>
        \o Capped(SubSeq(ms, k, Len(ms)))

(* compress_context_with_tokens: which of the two, if any.                  *)
Full(ms, floor, manual) ==
    /\ manual \/ (Tokens(ms) >= Mark /\ Tokens(Micro(ms, floor, manual)) >= Mark)
    /\ Splits(ms, manual)
Outcome(ms, floor, manual) ==
    IF Full(ms, floor, manual)
    THEN [messages |-> Summarized(ms, manual), changed |-> TRUE, cleared |-> 0]
    ELSE IF ~manual /\ Tokens(ms) < Mark
    THEN [messages |-> ms, changed |-> FALSE, cleared |-> floor]
    ELSE LET micro == Micro(ms, floor, manual)
         IN  [messages |-> micro, changed |-> micro # ms,
              cleared |-> IF manual /\ micro = ms THEN 0 ELSE ClearTarget(ms, floor, manual)]

-----------------------------------------------------------------------------
(* A load.                                                                 *)

(* The run asks.  With no cache and little to say the answer is the history.*)
Ask(r, manual) ==
    /\ load[r] = NoLoad /\ given[r] = <<>>
    /\ IF ~manual /\ cache = NoCache /\ Tokens(history[r]) < Mark
       THEN given' = [given EXCEPT ![r] = history[r]] /\ UNCHANGED load
       ELSE load' = [load EXCEPT ![r] = [stage |-> "encoded", manual |-> manual]] /\ UNCHANGED given
    /\ UNCHANGED <<history, revisions, route, cache>>

Same_Length(c, ms) == TRUE  \* mutant
(* prepare_request: is the cache a prefix of what this run asks about?  The *)
(* digest of the first messages tells whether they are still the same.      *)
Same(c, ms) == SubSeq(ms, 1, Len(c.source)) = c.source
Hit(r) ==
    /\ cache # NoCache
    /\ cache.run = r
    /\ Len(history[r]) >= Len(cache.source)
    /\ Same(cache, history[r])

Prepare(r) ==
    /\ load[r] # NoLoad /\ load[r].stage = "encoded"
    /\ LET manual == load[r].manual
           hit == ~manual /\ Hit(r)
           grown == SubSeq(history[r], Len(cache.source) + 1, Len(history[r]))
       IN  /\ load' = [load EXCEPT ![r] =
                  [stage |-> "prepared", manual |-> manual, route |-> route, hit |-> hit,
                   floor |-> IF hit THEN cache.cleared ELSE 0,
                   messages |-> IF hit THEN cache.messages \o grown ELSE history[r]]]
           /\ cache' = IF manual THEN NoCache ELSE cache
    /\ UNCHANGED <<history, revisions, route, given>>

Fresh_Any(l) == TRUE  \* mutant
(* commit_cache_messages: the outcome of an older route is not kept.        *)
Fresh(l) == l.route = route

(* The outcome is there, the model's summary perhaps with it.  When there is *)
(* an event to record and that fails, so does the request, its cache kept.  *)
Finish(r) ==
    LET l == load[r]
        outcome == Outcome(l.messages, l.floor, l.manual)
    IN  /\ l # NoLoad /\ l.stage = "prepared"
        /\ load' = [load EXCEPT ![r] = NoLoad]
        /\ \/ given' = [given EXCEPT ![r] = outcome.messages]
           \/ (outcome.changed \/ l.manual) /\ UNCHANGED given
        /\ cache' = IF ~Fresh(l) THEN cache
                    ELSE IF l.manual \/ ~(l.hit \/ outcome.changed) THEN NoCache
                    ELSE [run |-> r, source |-> history[r], route |-> l.route,
                          cleared |-> outcome.cleared, messages |-> outcome.messages]
        /\ UNCHANGED <<history, revisions, route>>

(* The summary could not be had: the request fails, the cache stays.        *)
Fail(r) ==
    /\ load[r] # NoLoad /\ load[r].stage = "prepared"
    /\ Full(load[r].messages, load[r].floor, load[r].manual)
    /\ load' = [load EXCEPT ![r] = NoLoad]
    /\ UNCHANGED <<history, revisions, route, cache, given>>

-----------------------------------------------------------------------------
(* Around it.                                                              *)

(* The run goes on from what it was given: the model calls a tool, or       *)
(* answers and the user speaks again.                                       *)
Grow(r, kind) ==
    LET n == Len(history[r])
        New(k, i) == Message(k, <<r, n + i, 0>>)
    IN  /\ given[r] # <<>>
        /\ n + 2 <= MaxLength[r]
        /\ history' = [history EXCEPT ![r] = @ \o <<New("assistant", 1), New(kind, 2)>>]
        /\ given' = [given EXCEPT ![r] = <<>>]
        /\ UNCHANGED <<revisions, route, cache, load>>

(* What a plugin says in front of the history is not what it said before.   *)
Revise(r) ==
    /\ given[r] # <<>>
    /\ revisions < MaxRevisions
    /\ revisions' = revisions + 1
    /\ history' = [history EXCEPT ![r][1].text = <<<<r, 1, revisions + 1>>>>]
    /\ given' = [given EXCEPT ![r] = <<>>]
    /\ UNCHANGED <<route, cache, load>>

(* update_model_route.                                                      *)
UpdateRoute ==
    /\ route < MaxRoutes
    /\ route' = route + 1
    /\ cache' = NoCache
    /\ UNCHANGED <<history, revisions, load, given>>

Next ==
    \/ \E r \in Run : (\E manual \in BOOLEAN : Ask(r, manual)) \/ Prepare(r) \/ Finish(r) \/ Fail(r) \/ Revise(r)
    \/ \E r \in Run, kind \in {"result", "failed", "user"} : Grow(r, kind)
    \/ UpdateRoute

Spec == Init /\ [][Next]_contextVars

-----------------------------------------------------------------------------
(* A model is told of every message of its own history as it is now, once   *)
(* and in order, in full, shortened or in the summary: whatever the cache   *)
(* held, whoever filled it, and however often a summary was summarised      *)
(* (prepare_request, commit_cache_messages, compact_messages).              *)
NothingLost == \A r \in Run : given[r] # <<>> => Texts(given[r]) = Texts(history[r])

(* A result is never given without the call it answers: the tail a summary  *)
(* leaves starts a round, in a cached context too (api_round_group_starts). *)
PairsKept ==
    \A r \in Run : \A i \in 1..Len(given[r]) :
        IsResult(given[r][i]) => i > 1 /\ given[r][i - 1].kind = "assistant"

(* What is elided is old and succeeded: the KeepRecent last successful      *)
(* results still say something, and so does every failure                   *)
(* (micro_clear_target, micro_compact_tool_results).                        *)
RecentSpeaks ==
    \A r \in Run :
        LET results == Results(given[r])
        IN  \A i \in 1..Len(given[r]) :
                given[r][i].form = "cleared" =>
                    \E k \in 1..Len(results) : results[k] = i /\ k + KeepRecent <= Len(results)

(* The cache is of the route in force: a load that began before the user    *)
(* changed the model does not fill the new one's cache (update_model_route).*)
CacheOfRoute == cache # NoCache => cache.route = route
=============================================================================
