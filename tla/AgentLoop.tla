------------------------------ MODULE AgentLoop ------------------------------
(***************************************************************************)
(* The ReAct loop of the kernel, Agent::run_session_with_id and            *)
(* run_session_inner (crates/agent-core/kernel/src/agent/run.rs): requests *)
(* to the model with retries behind a request gate, tool calls in batches, *)
(* steering and follow-up messages, the step limit, and the session and    *)
(* the snapshot of it that the loop builds.                                *)
(*                                                                         *)
(* The session is a sequence of messages.  Their text is left out; a       *)
(* message that holds tool calls, or their results, lists their ids.  The  *)
(* flag of a cancellation is a Boolean that the checkpoints take; how a    *)
(* cancellation wakes what the run waits on is the matter of AgentCancel.  *)
(***************************************************************************)
EXTENDS Integers, Sequences, FiniteSets, SequencesExt

CONSTANTS
    Call,               \* ids that tool calls can have
    ReadOnly,           \* calls of tools whose permission scope is Read
    Configured,         \* AgentOptions.max_steps; 0 stands for no limit
    PolicyLimit,        \* ExecutionPolicy.limits.max_steps, or NoLimit
    NoLimit,
    MaxRetries,         \* AgentOptions.max_retries
    QueueLimit,         \* the limit given to try_steer_with_limit
    MaxRuns, MaxInput   \* bounds of the model: runs, queued messages in all

ASSUME LoopAssumption ==
    /\ IsFiniteSet(Call) /\ ReadOnly \subseteq Call
    /\ Configured \in Nat /\ MaxRetries \in Nat /\ QueueLimit \in Nat
    /\ NoLimit \notin Nat /\ PolicyLimit \in Nat \cup {NoLimit}

VARIABLES
    pc,                 \* where the loop is
    phase,              \* AgentState.phase
    base,               \* the session the run was started from
    session,            \* the session the loop works on
    shown,              \* AgentState.session
    sinceInput,         \* steps_since_user_input
    recovering,         \* recovering_empty_response
    retries,            \* of the request under way
    streamed,           \* AgentState.streamed_text is not empty
    used,               \* used_tool_call_ids
    calls, index,       \* the calls of the response; the next one
    results,            \* of the calls, in order
    ending,             \* what follows the calls or ends the run
    flag,               \* the cancellation flag
    steering, followUps,        \* how many messages the queues hold
    guard,              \* the ModelRequestSettlement: none, open or settled
    reserved,           \* reservations the gate has granted and not settled
    runs, input         \* counted against the bounds

model == <<recovering, retries, streamed>>
tools == <<used, calls, index, results>>
gate  == <<guard, reserved>>
queue == <<steering, followUps, input>>
vars  == <<pc, phase, base, session, shown, sinceInput, model, tools, ending, flag,
           queue, gate, runs>>

Message(kind, ids) == [kind |-> kind, ids |-> ids]

Init ==
    /\ pc = "idle" /\ phase = "idle"
    /\ base = <<>> /\ session = <<>> /\ shown = <<>>
    /\ sinceInput = 0 /\ recovering = FALSE /\ retries = 0 /\ streamed = FALSE
    /\ used = {} /\ calls = <<>> /\ index = 1 /\ results = <<>>
    /\ ending = "none"
    /\ flag = FALSE /\ steering = 0 /\ followUps = 0
    /\ guard = "none" /\ reserved = 0
    /\ runs = 0 /\ input = 0

Running == phase \in {"preparing", "requesting", "streaming", "executing"}

\* effective_max_steps: the tighter of what the caller and the policy allow; the
\* caller's 0 is no limit, the policy's 0 is one.
StepLimit == IF PolicyLimit = NoLimit
             THEN IF Configured = 0 THEN NoLimit ELSE Configured
             ELSE IF Configured = 0 \/ PolicyLimit < Configured
                  THEN PolicyLimit ELSE Configured

Confirm(s) == session' = s /\ shown' = s
-----------------------------------------------------------------------------
(* The gate of model requests                                              *)

Reserve == guard' = "open" /\ reserved' = reserved + 1

\* ModelRequestSettlement::drop, which settles what has not been settled.
DropGuard == /\ guard' = "none"
             /\ reserved' = IF guard = "open" THEN reserved - 1 ELSE reserved

\* settle with the usage of the response, once, and the drop that follows.
Settle == DropGuard
-----------------------------------------------------------------------------
(* Beginning and ending a run                                              *)

\* The callers prepare the session by appending the user's message, and go on
\* from the last session that was returned to them.  A Core that is running
\* refuses.  The flag an earlier run has left is reset here; its queues are not.
Begin ==
    /\ pc = "idle" /\ ~Running /\ runs < MaxRuns
    /\ LET s == Append(session, Message("user", <<>>)) IN
           /\ Confirm(s) /\ base' = s
           /\ used' = UNION {ToSet(s[i].ids) : i \in DOMAIN s}
    /\ flag' = FALSE
    /\ pc' = "start" /\ phase' = "preparing" /\ ending' = "none"
    /\ sinceInput' = 0 /\ recovering' = FALSE
    /\ retries' = 0 /\ streamed' = FALSE
    /\ calls' = <<>> /\ index' = 1 /\ results' = <<>>
    /\ runs' = runs + 1
    /\ UNCHANGED <<queue, gate>>

Close(how) == pc' = "closing" /\ ending' = how

\* finish_cancelled or the end of the run, and finish_state; the guard of a
\* request that was called off is dropped last.
Finish ==
    /\ pc = "closing"
    /\ pc' = "idle"
    /\ phase' = IF ending = "cancelled" THEN "cancelled" ELSE "succeeded"
    /\ shown' = session /\ streamed' = FALSE
    /\ DropGuard
    /\ UNCHANGED <<base, session, sinceInput, recovering, retries, tools, ending,
                   flag, queue, runs>>

\* An error of the provider, the gate, a tool, a sink or an extension, and the
\* wall clock's limit, anywhere: the guard goes with the loop and fail_state
\* leaves the snapshot as it is.  The caller keeps the session it started from.
Abort ==
    /\ pc' = "idle" /\ phase' = "failed" /\ ending' = "failed"
    /\ session' = base
    /\ DropGuard
    /\ UNCHANGED <<base, shown, sinceInput, model, tools, flag, queue, runs>>
Fail == Running /\ pc # "idle" /\ Abort
-----------------------------------------------------------------------------
(* The requests to the model                                               *)

\* RunStarted and the admission of the run.
Start ==
    /\ pc = "start"
    /\ pc' \in {"top", "closing"}
    /\ ending' = IF pc' = "closing" THEN "cancelled" ELSE "none"
    /\ UNCHANGED <<phase, base, session, shown, sinceInput, model, tools, flag,
                   queue, gate, runs>>

MayStep_AtLimit == StepLimit # NoLimit => sinceInput <= StepLimit      \* mutant
MayStep == StepLimit # NoLimit => sinceInput < StepLimit

\* The top of the loop, with its checkpoint and the admission of the turn.
Top ==
    /\ pc = "top" /\ MayStep
    /\ phase' = "preparing" /\ streamed' = FALSE /\ retries' = 0
    /\ flag' = FALSE
    /\ \/ Close("cancelled")
       \/ ~flag /\ pc' = "request" /\ UNCHANGED ending
    /\ UNCHANGED <<base, session, shown, sinceInput, recovering, tools, queue,
                   gate, runs>>

StepLimitReached == pc = "top" /\ ~MayStep /\ Abort

\* One attempt: the checkpoints, the delay of a retry, the admission of the
\* request, and then the gate.
Request ==
    /\ pc = "request"
    /\ phase' = "requesting"
    /\ flag' = FALSE
    /\ \/ Close("cancelled") /\ UNCHANGED gate
       \/ ~flag /\ pc' = "answer" /\ Reserve /\ UNCHANGED ending
    /\ UNCHANGED <<base, session, shown, sinceInput, model, tools, queue, runs>>

\* Connected, and text arrives.
Stream ==
    /\ pc = "answer"
    /\ phase' = "streaming"
    /\ streamed' \in {streamed, TRUE}
    /\ UNCHANGED <<pc, base, session, shown, sinceInput, recovering, retries, tools,
                   ending, flag, queue, gate, runs>>

\* A cancellation while the run connects or streams keeps the text so far.
StreamCancelled ==
    /\ pc = "answer" /\ flag
    /\ flag' = FALSE
    /\ IF streamed THEN Confirm(Append(session, Message("text", <<>>)))
       ELSE UNCHANGED <<session, shown>>
    /\ streamed' = FALSE
    /\ Close("cancelled")
    /\ UNCHANGED <<phase, base, sinceInput, recovering, retries, tools, queue,
                   gate, runs>>

\* A retryable error, as often as the options allow; the attempt is settled.
Retry_KeepsGuard == UNCHANGED gate                                     \* mutant
RetrySettles == DropGuard
MayRetry_AtLimit == retries <= MaxRetries                              \* mutant
MayRetry == retries < MaxRetries
Retry ==
    /\ pc = "answer" /\ MayRetry
    /\ RetrySettles
    /\ retries' = retries + 1 /\ streamed' = FALSE
    /\ pc' = "request"
    /\ UNCHANGED <<phase, base, session, shown, sinceInput, recovering, tools,
                   ending, flag, queue, runs>>

\* The response is empty: once it is tried again with a hint, twice is an error.
Recover_Again == recovering' = recovering                              \* mutant
Recover == ~recovering /\ recovering' = TRUE
AnswerEmpty ==
    /\ pc = "answer"
    /\ Settle
    /\ Recover
    /\ streamed' = FALSE /\ calls' = <<>> /\ pc' = "top"
    /\ UNCHANGED <<phase, base, session, shown, sinceInput, retries, used, index,
                   results, ending, flag, queue, runs>>

AnswerText ==
    /\ pc = "answer"
    /\ Settle
    /\ Confirm(Append(session, Message("text", <<>>)))
    /\ recovering' = FALSE /\ streamed' = FALSE /\ calls' = <<>> /\ pc' = "final"
    /\ UNCHANGED <<phase, base, sinceInput, retries, used, index, results,
                   ending, flag, queue, runs>>

\* ensure_unique_tool_call_ids: an id that the response holds twice, or that the
\* session already knows, is an error, which is one of Fail.
Fresh_InResponse(response) == IsInjective(response)                    \* mutant
Fresh(response) == IsInjective(response) /\ ToSet(response) \cap used = {}

\* The calls come in any order; a longer response would hold an id twice.
Responses == UNION {[1..n -> Call] : n \in 1..Cardinality(Call)}

AnswerCalls ==
    /\ pc = "answer"
    /\ Settle
    /\ \E response \in Responses :
           /\ Fresh(response)
           /\ calls' = response
           /\ used' = used \cup ToSet(response)
           /\ Confirm(Append(session, Message("calls", response)))
    /\ index' = 1 /\ results' = <<>>
    /\ recovering' = FALSE /\ streamed' = FALSE
    /\ phase' = "executing" /\ pc' = "batch"
    /\ UNCHANGED <<base, sinceInput, retries, ending, flag, queue, runs>>
-----------------------------------------------------------------------------
(* The tools of a response                                                 *)

\* read_only_batch_end: where the calls that only read end, or the next one.
BatchEnd ==
    LET stops == {i \in index..Len(calls) : calls[i] \notin ReadOnly}
    IN  IF stops = {} THEN Len(calls) ELSE Max({index, Min(stops) - 1})

\* Every call from i on gets a result that says it was skipped.
SkipFrom_Next(i) == results' = results \o SubSeq(calls, i + 1, Len(calls))  \* mutant
SkipFrom(i) == results' = results \o SubSeq(calls, i, Len(calls))

\* The checkpoint before a batch, or the batch is executed.  Each of its calls
\* has a result afterwards, refused, interrupted or not.
BatchCancelled ==
    /\ pc = "batch" /\ index <= Len(calls) /\ flag
    /\ flag' = FALSE
    /\ SkipFrom(index)
    /\ pc' = "push" /\ ending' = "cancelled"
    /\ UNCHANGED <<phase, base, session, shown, sinceInput, model, used, calls,
                   index, queue, gate, runs>>

BatchRuns ==
    /\ pc = "batch" /\ index <= Len(calls) /\ ~flag
    /\ results' = results \o SubSeq(calls, index, BatchEnd)
    /\ index' = BatchEnd
    /\ pc' = "after"
    /\ UNCHANGED <<phase, base, session, shown, sinceInput, model, used, calls,
                   ending, flag, queue, gate, runs>>

BatchesDone ==
    /\ pc = "batch" /\ index > Len(calls)
    /\ pc' = "push"
    /\ UNCHANGED <<phase, base, session, shown, sinceInput, model, tools, ending,
                   flag, queue, gate, runs>>

AfterCancelled ==
    /\ pc = "after" /\ flag
    /\ flag' = FALSE
    /\ SkipFrom(index + 1)
    /\ pc' = "push" /\ ending' = "cancelled"
    /\ UNCHANGED <<phase, base, session, shown, sinceInput, model, used, calls,
                   index, queue, gate, runs>>

\* One message of the queue may take the place of the rest of the calls; one
\* that a listener refuses is dropped and the calls go on.
AfterSteered ==
    /\ pc = "after" /\ ~flag /\ steering > 0
    /\ steering' = steering - 1
    /\ SkipFrom(index + 1)
    /\ pc' = "push" /\ ending' = "steered"
    /\ UNCHANGED <<phase, base, session, shown, sinceInput, model, used, calls,
                   index, flag, followUps, input, gate, runs>>

AfterOn ==
    /\ pc = "after" /\ ~flag
    /\ steering' = IF steering > 0 THEN steering - 1 ELSE 0
    /\ index' = index + 1
    /\ pc' = "batch"
    /\ UNCHANGED <<phase, base, session, shown, sinceInput, model, used, calls,
                   results, ending, flag, followUps, input, gate, runs>>

\* The results become one message, and what follows is decided.
Counted_Always == sinceInput' = sinceInput + 1                         \* mutant
Counted == sinceInput' = IF ending = "steered" THEN 0 ELSE sinceInput + 1
Push ==
    /\ pc = "push"
    /\ LET s == Append(session, Message("results", results)) IN
       CASE ending = "cancelled" -> Confirm(s) /\ Close("cancelled")
                                        /\ UNCHANGED sinceInput
         [] ending = "steered" -> /\ Confirm(Append(s, Message("user", <<>>)))
                                  /\ pc' = "top" /\ ending' = "none" /\ Counted
         [] OTHER -> Confirm(s) /\ pc' = "top" /\ UNCHANGED ending /\ Counted
    /\ UNCHANGED <<phase, base, model, tools, flag, queue, gate, runs>>
-----------------------------------------------------------------------------
(* After a text: queued messages are injected, steering before follow-ups,  *)
(* and a refused one makes room for the next.                              *)

Inject_Unseen ==                        \* mutant: the snapshot is not brought up to date
    /\ session' = Append(session, Message("user", <<>>)) /\ UNCHANGED shown
    /\ sinceInput' = 0 /\ pc' = "top"
Inject ==
    /\ Confirm(Append(session, Message("user", <<>>)))
    /\ sinceInput' = 0 /\ pc' = "top"
Refuse == UNCHANGED <<session, shown, sinceInput, pc>>

FinalSteering ==
    /\ pc = "final" /\ steering > 0
    /\ steering' = steering - 1
    /\ Inject \/ Refuse
    /\ UNCHANGED <<phase, base, model, tools, ending, flag, followUps, input,
                   gate, runs>>

FinalFollowUp ==
    /\ pc = "final" /\ steering = 0 /\ followUps > 0
    /\ followUps' = followUps - 1
    /\ Inject \/ Refuse
    /\ UNCHANGED <<phase, base, model, tools, ending, flag, steering, input, gate,
                   runs>>

FinalNothing ==
    /\ pc = "final" /\ steering = 0 /\ followUps = 0
    /\ Close("finished")
    /\ UNCHANGED <<phase, base, session, shown, sinceInput, model, tools, flag,
                   queue, gate, runs>>
-----------------------------------------------------------------------------
(* AgentControl, from any other task                                       *)

Cancel ==
    /\ ~flag /\ Running
    /\ flag' = TRUE
    /\ UNCHANGED <<pc, phase, base, session, shown, sinceInput, model, tools,
                   ending, queue, gate, runs>>

Steer ==
    /\ Running /\ steering < QueueLimit /\ input < MaxInput
    /\ steering' = steering + 1 /\ input' = input + 1
    /\ UNCHANGED <<pc, phase, base, session, shown, sinceInput, model, tools,
                   ending, flag, followUps, gate, runs>>

FollowUp ==
    /\ Running /\ input < MaxInput
    /\ followUps' = followUps + 1 /\ input' = input + 1
    /\ UNCHANGED <<pc, phase, base, session, shown, sinceInput, model, tools,
                   ending, flag, steering, gate, runs>>
-----------------------------------------------------------------------------
Answer == \/ StreamCancelled \/ Retry \/ AnswerEmpty \/ AnswerText \/ AnswerCalls
Proceed == \/ Start \/ Top \/ StepLimitReached \/ Request
           \/ BatchCancelled \/ BatchRuns \/ BatchesDone
           \/ AfterCancelled \/ AfterSteered \/ AfterOn \/ Push
           \/ FinalSteering \/ FinalFollowUp \/ FinalNothing \/ Finish

Next == \/ Begin \/ Proceed \/ Answer \/ Stream \/ Fail
        \/ Cancel \/ Steer \/ FollowUp

Spec == Init /\ [][Next]_vars

\* The executor goes on with the loop, and the provider, the tools and the
\* listeners answer, be it with an error.
Fairness == WF_vars(Proceed) /\ WF_vars(Answer \/ (pc = "answer" /\ Fail))
FairSpec == Spec /\ Fairness
-----------------------------------------------------------------------------
TypeOK ==
    /\ pc \in {"idle", "start", "top", "request", "answer", "batch", "after",
               "push", "final", "closing"}
    /\ phase \in {"idle", "preparing", "requesting", "streaming", "executing",
                  "succeeded", "cancelled", "failed"}
    /\ sinceInput \in Nat /\ recovering \in BOOLEAN /\ retries \in 0..MaxRetries
    /\ streamed \in BOOLEAN /\ flag \in BOOLEAN
    /\ used \subseteq Call /\ calls \in Seq(Call) /\ results \in Seq(Call)
    /\ index \in Nat \ {0}
    /\ ending \in {"none", "steered", "cancelled", "finished", "failed"}
    /\ steering \in 0..QueueLimit /\ followUps \in 0..MaxInput
    /\ guard \in {"none", "open"} /\ reserved \in Int
    /\ runs \in 0..MaxRuns /\ input \in 0..MaxInput
    \* the slot is taken exactly while there is a loop
    /\ Running <=> pc # "idle"

\* The calls of a message are answered by the message after it, each once and
\* in their order, and there are no other results.
Answered(s) ==
    /\ \A i \in DOMAIN s : s[i].kind = "calls" =>
           i < Len(s) /\ s[i + 1] = Message("results", s[i].ids)
    /\ \A i \in DOMAIN s : s[i].kind = "results" =>
           i > 1 /\ s[i - 1] = Message("calls", s[i].ids)

\* What AgentRun says of a cancelled run holds of every one: no tool call is
\* left without its result, in the messages a request sends and in the session
\* that a run returns, however the run was cancelled or steered.
NoOrphanCall ==
    pc \in {"idle", "start", "top", "request", "answer", "final", "closing"}
        => Answered(session)

\* Results are told apart by the id of their call, which is unique among all
\* the messages of the session, those of earlier runs included.
UniqueCalls ==
    \A i, j \in DOMAIN session :
        session[i].kind = "calls" /\ session[j].kind = "calls" /\ i # j =>
            ToSet(session[i].ids) \cap ToSet(session[j].ids) = {}

\* Rounds of tools since the user last said something.
Rounds(s) == Cardinality({i \in DOMAIN s :
                 s[i].kind = "results" /\ \A j \in i..Len(s) : s[j].kind # "user"})

\* The counter of the step limit counts what the session shows, so that the
\* limit is about rounds of tools since the user's last message: never more,
\* and a steered run gets the whole number again.
LimitCountsRounds ==
    /\ StepLimit # NoLimit => Rounds(session) <= StepLimit
    /\ pc = "top" => sinceInput = Rounds(session)

\* What a session may be relied on for by the next request and by the next run
\* that continues it: the three above together.
SessionSound == NoOrphanCall /\ UniqueCalls /\ LimitCountsRounds

\* Every reservation of the gate is settled exactly once, on each way out of
\* an attempt; what is not settled belongs to the attempt that goes on.
SettledOnce ==
    /\ reserved = IF guard = "open" THEN 1 ELSE 0
    /\ guard = "open" => pc \in {"answer", "closing"}

\* What a comment relies on to leave out a copy at the top of the loop: the
\* snapshot of the session and the session agree whenever a request is made,
\* and when a run has returned one.
SnapshotInStep ==
    \/ pc \in {"top", "request", "answer"}
    \/ phase \in {"succeeded", "cancelled"}
    => shown = session

\* A run ends, with whatever the model answers, when it has a step limit and
\* the user stops steering.
RunsEnd == Running ~> ~Running
=============================================================================
