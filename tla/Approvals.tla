------------------------------ MODULE Approvals ------------------------------
(***************************************************************************)
(* The permission plugin (examples/plugins/permission-plugin/src/lib.rs)   *)
(* decides which calls of tools may run.  Several runs ask at a time, each *)
(* for one call after the other.  The event core.tool.call is delivered    *)
(* again and again while the plugin answers "pending" (host/src/wasm/      *)
(* mod.rs deliver_event), until it decides or the host gives up waiting.   *)
(* The user answers the first card of the queue; the mode can be changed   *)
(* only while the queue is empty.                                          *)
(*                                                                         *)
(* The ids of the calls of a run differ, those of two runs may be equal.   *)
(* The classification of a call is its kind: "control", "blocked" by the   *)
(* path policy, "read" of a directory or "write"; the texts, the state of  *)
(* the panel and the stored copy of the mode are left out.                 *)
(***************************************************************************)
EXTENDS Naturals, Sequences, FiniteSets, Filters

CONSTANTS
    Run, Call, Directory,
    NoCall, NoDirectory,
    MaxCalls, MaxModes  \* bounds of the model: calls of all runs, changes of the mode

VARIABLES
    mode,
    pending,            \* the cards
    resolutions,        \* answers not yet fetched
    allowed_similar,    \* rules given for the rest of a run
    asks,               \* what each run asks for
    verdict,            \* how its last call came out
    used,               \* the ids each run has used
    ended,              \* runs that are over
    modes,              \* how often the mode was set
    answered            \* every answer of the user or of the model that reviews

approvalVars == <<mode, pending, resolutions, allowed_similar, asks, verdict, used, ended,
                  modes, answered>>

Mode == {"manual", "model_review", "allow_all"}
Asked == [call : Call, kind : {"control", "blocked", "write"}, dir : {NoDirectory}]
         \cup [call : Call, kind : {"read"}, dir : Directory]

Init ==
    /\ mode \in Mode /\ pending = <<>> /\ resolutions = {} /\ allowed_similar = {}
    /\ asks = [r \in Run |-> NoCall] /\ verdict = [r \in Run |-> "none"]
    /\ used = [r \in Run |-> {}] /\ ended = {} /\ modes = 0 /\ answered = {}

-----------------------------------------------------------------------------
\* ApprovalKey, ScopedApprovalRule
Key(r) == [run |-> r, call |-> asks[r].call]
Rule_AnyRun(r) == [run |-> CHOOSE x \in Run : TRUE, dir |-> asks[r].dir]  \* mutant
Rule(r) == [run |-> r, dir |-> asks[r].dir]
Card(r) == [key |-> Key(r), rule |-> Rule(r)]
Answer(card, what) == [key |-> card.key, rule |-> card.rule, what |-> what, at |-> modes]

Queued_Always(r) == Append(pending, Card(r))  \* mutant
\* one card for a call, however often it is delivered
Queued(r) == IF \E i \in DOMAIN pending : pending[i].key = Key(r)
             THEN pending ELSE Append(pending, Card(r))
Without(key) == Among(pending, {i \in DOMAIN pending : pending[i].key # key})

\* A run asks for a call.
Ask(r) ==
    /\ r \notin ended /\ asks[r] = NoCall 
    /\ Cardinality({k \in Run \X Call : k[2] \in used[k[1]]}) < MaxCalls
    /\ \E a \in Asked : /\ a.call \notin used[r]
                        /\ asks' = [asks EXCEPT ![r] = a]
                        /\ used' = [used EXCEPT ![r] = @ \cup {a.call}]
    /\ verdict' = [verdict EXCEPT ![r] = "none"]
    /\ UNCHANGED <<mode, pending, resolutions, allowed_similar, ended, modes, answered>>

Decide(r, v) ==
    /\ asks' = [asks EXCEPT ![r] = NoCall] /\ verdict' = [verdict EXCEPT ![r] = v]
    /\ UNCHANGED <<mode, allowed_similar, used, ended, modes>>

Resolved(r) == {x \in resolutions : x.key = Key(r)}
Free(r) == \/ asks[r].kind = "control"
           \/ asks[r].kind # "blocked" /\ (mode = "allow_all" \/ Rule(r) \in allowed_similar)

\* admit_tool: an answer that waits is taken once; then the path policy, then what needs no
\* approval.
Fetch(r) ==
    /\ asks[r] # NoCall
    /\ \E x \in Resolved(r) : /\ resolutions' = resolutions \ {x}
                              /\ Decide(r, IF x.allow THEN "ran" ELSE "refused")
    /\ UNCHANGED <<pending, answered>>
Refuse(r) ==
    /\ asks[r] # NoCall /\ Resolved(r) = {} /\ asks[r].kind = "blocked"
    /\ Decide(r, "refused") /\ UNCHANGED <<pending, resolutions, answered>>
Pass(r) ==
    /\ asks[r] # NoCall /\ Resolved(r) = {} /\ Free(r)
    /\ Decide(r, "ran") /\ UNCHANGED <<pending, resolutions, answered>>

Unsettled(r) == /\ asks[r] # NoCall /\ Resolved(r) = {} /\ asks[r].kind # "blocked"
                /\ ~Free(r)

\* A card for the user.  In review mode it stays behind when the review is interrupted.
Enqueue(r) ==
    /\ Unsettled(r) /\ pending' = Queued(r)
    /\ UNCHANGED <<mode, resolutions, allowed_similar, asks, verdict, used, ended, modes,
                   answered>>

\* review_with_key: the model allows or denies, or does neither, which denies
Review(r) ==
    /\ Unsettled(r) /\ mode = "model_review"
    /\ \E v \in {"ran", "refused"} :
         Decide(r, v) /\ answered' = answered \cup {Answer(Card(r), v)}
    /\ pending' = Without(Key(r)) /\ UNCHANGED resolutions

-----------------------------------------------------------------------------
\* resolve_current: only the read of a directory can be allowed for the run
Press(what) ==
    /\ pending # <<>>
    /\ LET card == Head(pending)
       IN /\ what = "similar" => card.rule.dir # NoDirectory
          /\ pending' = Tail(pending)
          /\ resolutions' = {x \in resolutions : x.key # card.key}
                            \cup {[key |-> card.key, allow |-> what # "refused"]}
          /\ allowed_similar' = IF what = "similar" THEN allowed_similar \cup {card.rule}
                                ELSE allowed_similar
          /\ answered' = answered \cup {Answer(card, what)}
    /\ UNCHANGED <<mode, asks, verdict, used, ended, modes>>

\* set_mode clears the rules
SetMode(m) ==
    /\ pending = <<>> /\ modes < MaxModes
    /\ mode' = m /\ modes' = modes + 1 /\ allowed_similar' = {}
    /\ UNCHANGED <<pending, resolutions, asks, verdict, used, ended, answered>>

\* deliver_event gives up after MAX_EVENT_PENDING_TOTAL_MS; the card stays.
TimeOut(r) ==
    /\ asks[r] # NoCall /\ \E i \in DOMAIN pending : pending[i].key = Key(r)
    /\ Decide(r, "refused") /\ UNCHANGED <<pending, resolutions, answered>>

\* The run ends, cancelled or not; the plugin may not be told (core.run.finish).
Finish(r) ==
    /\ r \notin ended /\ ended' = ended \cup {r}
    /\ asks' = [asks EXCEPT ![r] = NoCall]
    /\ \/ UNCHANGED <<pending, resolutions, allowed_similar>>
       \/ /\ pending' = Among(pending, {i \in DOMAIN pending : pending[i].key.run # r})
          /\ resolutions' = {x \in resolutions : x.key.run # r}
          /\ allowed_similar' = {x \in allowed_similar : x.run # r}
    /\ UNCHANGED <<mode, verdict, used, modes, answered>>

-----------------------------------------------------------------------------
Next ==
    \/ \E r \in Run : Ask(r) \/ Fetch(r) \/ Refuse(r) \/ Pass(r) \/ Enqueue(r) \/ Review(r)
                      \/ TimeOut(r) \/ Finish(r)
    \/ \E what \in {"once", "similar", "refused"} : Press(what)
    \/ \E m \in Mode : SetMode(m)

Spec == Init /\ [][Next]_approvalVars

-----------------------------------------------------------------------------
\* A call that needs approval runs only if all calls are allowed, if this very call was
\* allowed, or if the user allowed the reads of its directory to this run and the mode
\* was not set since; an answer meant for another run is none.
NeverUnasked ==
    \A r \in Run : asks[r] # NoCall /\ verdict'[r] = "ran" /\ asks'[r] = NoCall =>
          \/ asks[r].kind = "control"
          \/ /\ asks[r].kind # "blocked"
             /\ \/ mode = "allow_all"
                \/ \E a \in answered' :
                      \/ a.key = Key(r) /\ a.what # "refused"
                      \/ /\ a.what = "similar" /\ a.key.run = r /\ a.at = modes
                         /\ a.rule.dir = asks[r].dir

\* The user is asked about a call once: there is one card or one answer, also when the
\* call is delivered again, the answer is under way or another run ends.
AskedOnce ==
    /\ \A i, j \in DOMAIN pending : pending[i].key = pending[j].key => i = j
    /\ \A a, b \in answered : a.key = b.key => a = b
    /\ \A a \in answered, i \in DOMAIN pending : a.key # pending[i].key

-----------------------------------------------------------------------------
(* What makes both inductive.                                              *)
Keys == [run : Run, call : Call]
Rules == [run : Run, dir : Directory \cup {NoDirectory}]
Cards == [key : Keys, rule : Rules]
Answers == [key : Keys, rule : Rules, what : {"once", "similar", "refused", "ran"}, at : Nat]

ApprovalTypes ==
    /\ pending \in Seq(Cards) /\ resolutions \subseteq [key : Keys, allow : BOOLEAN]
    /\ allowed_similar \subseteq Rules /\ asks \in [Run -> Asked \cup {NoCall}]
    /\ verdict \in [Run -> {"none", "ran", "refused"}] /\ used \in [Run -> SUBSET Call]
    /\ modes \in Nat /\ answered \subseteq Answers

\* What a run asks for is new to it; whatever was asked before has a call it has used, and
\* who asks has no verdict yet.
AskedAnew ==
    /\ \A r \in Run : asks[r] # NoCall => asks[r].call \in used[r] /\ verdict[r] = "none"
    /\ \A i \in DOMAIN pending : pending[i].key.call \in used[pending[i].key.run]
    /\ \A a \in answered : a.key.call \in used[a.key.run]

\* An answer waits until the call it is for has fetched it, and was given for that call;
\* a path that is blocked gets no card and so no answer.
AnswerWaits ==
    /\ \A a \in answered : asks[a.key.run] # NoCall /\ asks[a.key.run].call = a.key.call =>
          \E x \in resolutions : x.key = a.key
    /\ \A x \in resolutions : /\ \E a \in answered : a.key = x.key
                                                     /\ (x.allow => a.what # "refused")
    /\ \A r \in Run : asks[r] # NoCall /\ asks[r].kind = "blocked" =>
          /\ \A i \in DOMAIN pending : pending[i].key # Key(r)
          /\ \A x \in resolutions : x.key # Key(r)

\* A rule was given by the user, to its run and under the mode that still holds.
RulesGiven ==
    /\ \A i \in DOMAIN pending : pending[i].rule.run = pending[i].key.run
    /\ \A x \in allowed_similar : \E a \in answered :
          a.what = "similar" /\ a.key.run = x.run /\ a.at = modes /\ a.rule.dir = x.dir

ApprovalInv == ApprovalTypes /\ AskedOnce /\ AskedAnew /\ AnswerWaits /\ RulesGiven
=============================================================================
