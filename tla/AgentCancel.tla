----------------------------- MODULE AgentCancel -----------------------------
(***************************************************************************)
(* How a cancellation reaches a run of the kernel (crates/agent-core/      *)
(* kernel/src/agent).  AgentControl::cancel stores a flag and rings a      *)
(* tokio Notify; the run takes the flag at its checkpoints and waits on    *)
(* the Notify wherever it awaits something slow: the delay before a retry, *)
(* the connection, the stream, the listeners that admit a tool, the tools. *)
(* The tools of one read-only batch run concurrently.                      *)
(*                                                                         *)
(* Between these the run awaits, without a look at the cancellation, the   *)
(* sink of its events, the listeners and extensions that hear of them, the *)
(* listeners that may refuse the run, a turn, a request or a message, and  *)
(* the context loader.  These awaits are phases (DeafPhases) and calls     *)
(* that report (reporting), and their ends steps of the outside.           *)
(*                                                                         *)
(* The Notify is the interesting part.  notify_waiters reaches every       *)
(* Notified that exists; notify_one then leaves one permit, which the      *)
(* first Notified polled afterwards consumes.  A Notified exists from the  *)
(* moment its loop comes to "check" or its select to "poll" until its      *)
(* select is over.                                                         *)
(***************************************************************************)
EXTENDS Naturals, FiniteSets

CONSTANTS
    Call,               \* the calls a model response can hold
    Loop,               \* the run itself, as one that waits on the Notify
    NativeCall,         \* calls of the ToolRegistry's tools; the others are plugins'
    PolledFirst,        \* the caller polls the run before it cancels (TUI)
    MaxBatch,           \* how many read-only calls a response has in a row
    MaxRuns, MaxRequests, MaxCancels        \* bounds of the model

ASSUME CancelAssumption == /\ NativeCall \subseteq Call
                           /\ Loop \notin Call
                           /\ PolledFirst \in BOOLEAN
                           /\ MaxBatch \in Nat \ {0}
                           /\ MaxRuns \in Nat /\ MaxRequests \in Nat
                           /\ MaxCancels \in Nat

VARIABLES
    flag,               \* AgentControl.cancelled
    permit,             \* the permit that cancel_notify stores
    fired,              \* whose Notified was fired by notify_waiters
    ringing,            \* a cancel() is between its store and its notifications
    phase,              \* where the run is
    wait,               \* what the run awaits from "check" to "parked"
    toolAt,             \* where each call of the response is
    reporting,          \* the calls whose result is being recorded and told
    runOutcome,         \* how the last run ended
    runs, requests, cancels,            \* counted against the bounds
    asked               \* cancel() was called during this run

bell  == <<flag, permit, fired, ringing, cancels, asked>>
cancelVars == <<bell, phase, wait, toolAt, reporting, runOutcome, runs, requests>>

\* Where the run awaits the outside without listening for a cancellation: begin_run to the
\* first turn, the end of a turn to the next, the turn's listeners and the context, the
\* listeners of the request, a delta, the response, a message's listeners, the end.
DeafPhases == {"begun", "top", "turn", "announce", "delta", "answer", "steer", "ending"}

SettledCalls == {"calledOff", "denied", "finished", "interrupted"}
WaitingCalls == {"asking", "held", "polling", "parked"}

\* Who has a Notified at the moment.
WaitsArmed == {t \in Call : toolAt[t] \in WaitingCalls}
             \cup {l \in {Loop} : phase \in {"poll", "parked"}}

CancelInit ==
    /\ flag = FALSE /\ permit = FALSE /\ fired = {} /\ ringing = FALSE
    /\ phase = "idle" /\ wait = "none"
    /\ toolAt = [t \in Call |-> "none"] /\ reporting = {}
    /\ runOutcome = "none"
    /\ runs = 0 /\ requests = 0 /\ cancels = 0 /\ asked = FALSE
-----------------------------------------------------------------------------
(* AgentControl::cancel                                                    *)

CancelStore ==
    /\ ~ringing /\ cancels < MaxCancels
    /\ PolledFirst => phase # "created"
    /\ flag' = TRUE /\ ringing' = TRUE
    /\ cancels' = cancels + 1
    /\ asked' = (asked \/ phase # "idle")
    /\ UNCHANGED <<permit, fired, phase, wait, toolAt, reporting, runOutcome, runs, requests>>

Ring_NoPermit == fired' = fired \cup WaitsArmed /\ UNCHANGED permit         \* mutant
Ring == fired' = fired \cup WaitsArmed /\ permit' = TRUE

CancelRing ==
    /\ ringing
    /\ ringing' = FALSE
    /\ Ring
    /\ UNCHANGED <<flag, cancels, asked, phase, wait, toolAt, reporting, runOutcome, runs,
                   requests>>
-----------------------------------------------------------------------------
(* The run                                                                 *)

\* prepare_session and the construction of the future that runs it.
Create ==
    /\ phase = "idle" /\ runs < MaxRuns
    /\ runs' = runs + 1 /\ requests' = 0
    /\ phase' = "created"
    /\ asked' = FALSE
    /\ toolAt' = [t \in Call |-> "none"]
    /\ runOutcome' = "none"
    /\ UNCHANGED <<flag, permit, fired, ringing, cancels, wait, reporting>>

\* The first poll: begin_run and the reset of the flag.
StartRun_KeepsFlag == UNCHANGED flag                                   \* mutant
StartRun == flag' = FALSE

Start ==
    /\ phase = "created"
    /\ StartRun
    /\ phase' = "begun"
    /\ UNCHANGED <<permit, fired, ringing, cancels, asked, wait, toolAt, reporting,
                   runOutcome, runs, requests>>

\* The run has its outcome, of which the sink, listeners and extensions are told before
\* it is over; take_cancelled at a checkpoint, which ends the run, or else goes on.
Ends(how) == runOutcome' = how /\ phase' = "ending"
Checkpoint(next) ==
    /\ flag' = FALSE
    /\ IF flag THEN Ends("cancelled") ELSE phase' = next /\ UNCHANGED runOutcome

\* The top of the ReAct loop, when those have answered who are told that the run has
\* started or a turn is over.
Top ==
    /\ phase \in {"begun", "top"}
    /\ Checkpoint("turn")
    /\ UNCHANGED <<permit, fired, ringing, cancels, asked, wait, toolAt, reporting, runs,
                   requests>>

\* The top of the retry loop: at a retry at once, at the first attempt when the listeners
\* of the turn, the extensions and the context loader have answered.
Request(retry) ==
    /\ phase = IF retry THEN "retry" ELSE "turn"
    /\ Checkpoint("announce")
    /\ wait' = IF retry THEN "delay" ELSE "connect"
    /\ UNCHANGED <<permit, fired, ringing, cancels, asked, toolAt, reporting, runs, requests>>

\* The request was announced: what is left is the delay of a retry, or else its
\* listeners have let it pass, and another checkpoint comes before the connection.
Announced ==
    /\ phase = "announce"
    /\ IF wait = "delay" THEN phase' = "check" /\ UNCHANGED <<flag, runOutcome>>
                         ELSE Checkpoint("check")
    /\ UNCHANGED <<permit, fired, ringing, cancels, asked, wait, toolAt, reporting, runs,
                   requests>>

\* A listener refuses the run, the turn or the request, which ends the run.
Veto ==
    /\ phase \in {"begun", "turn", "announce"}
    /\ phase = "announce" => wait = "connect"
    /\ Ends("vetoed")
    /\ UNCHANGED <<bell, wait, toolAt, reporting, runs, requests>>

\* The loops around the delay, the connection and the stream: arm a Notified,
\* take the flag, poll what is awaited and the Notified in either order.
WaitFlagged ==
    /\ phase = "check"
    /\ Checkpoint("poll")
    /\ fired' = fired \ {Loop}
    /\ UNCHANGED <<permit, ringing, cancels, asked, wait, toolAt, reporting, runs, requests>>

\* The Notified is polled: ready by the permit, which is gone then, or by
\* having been fired, or else it is registered.
WaitPoll ==
    /\ phase = "poll"
    /\ phase' = IF permit \/ Loop \in fired THEN "check" ELSE "parked"
    /\ permit' = FALSE
    /\ UNCHANGED <<flag, fired, ringing, cancels, asked, wait, toolAt, reporting,
                   runOutcome, runs, requests>>

WaitWoken ==
    /\ phase = "parked" /\ Loop \in fired
    /\ phase' = "check"
    /\ UNCHANGED <<bell, wait, toolAt, reporting, runOutcome, runs, requests>>

\* What was awaited is there.  After the delay the request is put to its listeners, after
\* the connection, failed or not, comes the stream, of which each event but a terminal one
\* brings the loop round again, a delta when it is recorded.
WaitOver ==
    /\ phase \in {"poll", "parked"}
    /\ \/ /\ wait = "delay" /\ wait' = "connect" /\ phase' = "announce"
          /\ UNCHANGED requests
       \/ /\ wait = "connect" /\ wait' = "stream" /\ phase' = "check"
          /\ requests < MaxRequests
          /\ requests' = requests + 1
       \/ /\ wait = "stream" /\ phase' \in {"check", "delta", "response"}
          /\ UNCHANGED <<wait, requests>>
    /\ UNCHANGED <<bell, toolAt, reporting, runOutcome, runs>>

DeltaRecorded ==
    /\ phase = "delta" /\ phase' = "check"
    /\ UNCHANGED <<bell, wait, toolAt, reporting, runOutcome, runs, requests>>

\* The stream has ended: with an error that is retried, or with a response, which is told.
Response ==
    /\ phase = "response" /\ phase' \in {"retry", "answer"}
    /\ UNCHANGED <<bell, wait, toolAt, reporting, runOutcome, runs, requests>>

\* The response was told: a text that ends the run or is followed by a queued message,
\* nothing at all, which is asked for again, or the calls of some tools.
Answered ==
    /\ phase = "answer"
    /\ \/ Ends("finished") /\ UNCHANGED toolAt
       \/ phase' = "top" /\ UNCHANGED <<runOutcome, toolAt>>
       \/ \E calls \in (SUBSET Call) \ {{}} :
              /\ toolAt' = [t \in Call |-> IF t \in calls THEN "called" ELSE "none"]
              /\ phase' = "batch"
              /\ UNCHANGED runOutcome
    /\ UNCHANGED <<bell, wait, reporting, runs, requests>>

\* An error of the provider, of a tool, of a sink or an extension, or the wall
\* clock's limit: the future of the run goes, and what it awaited with it.
RunFails ==
    /\ phase \notin {"idle", "created"}
    /\ Ends("failed")
    /\ toolAt' = [t \in Call |-> "none"] /\ reporting' = {}
    /\ UNCHANGED <<bell, wait, runs, requests>>

\* Sink, listeners and extensions have been told of the end.
End ==
    /\ phase = "ending" /\ phase' = "idle"
    /\ UNCHANGED <<bell, wait, toolAt, reporting, runOutcome, runs, requests>>
-----------------------------------------------------------------------------
(* The tools of a response, batch by batch                                 *)

Called == {t \in Call : toolAt[t] = "called"}

\* read_only_batch_end: several calls, when they only read, make one batch.
Batch ==
    /\ phase = "batch"
    /\ IF Called = {}
       THEN phase' = "top" /\ UNCHANGED <<flag, runOutcome, toolAt>>
       ELSE /\ Checkpoint("admit")
            /\ IF flag THEN UNCHANGED toolAt
               ELSE \E batch \in (SUBSET Called) \ {{}} :
                        /\ Cardinality(batch) <= MaxBatch
                        /\ toolAt' = [t \in Call |-> IF t \in batch THEN "queued"
                                                     ELSE toolAt[t]]
    /\ UNCHANGED <<permit, fired, ringing, cancels, asked, wait, reporting, runs, requests>>

\* admit_tool goes through the batch one by one, each until its result is told.
MayAdmit(t) ==
    /\ phase = "admit" /\ reporting = {}
    /\ \A u \in Call \ {t} : toolAt[u] \notin {"asking", "held", "woken"}

\* The policy denies the call before anyone is asked.
AdmitDenied(t) ==
    /\ MayAdmit(t) /\ toolAt[t] = "queued"
    /\ toolAt' = [toolAt EXCEPT ![t] = "denied"] /\ reporting' = {t}
    /\ UNCHANGED <<bell, phase, wait, runOutcome, runs, requests>>

\* The flag is read, not taken.
AdmitCheck_Takes(t) ==                                                 \* mutant
    /\ MayAdmit(t) /\ toolAt[t] \in {"queued", "woken"}
    /\ toolAt' = [toolAt EXCEPT ![t] = IF flag THEN "calledOff" ELSE "asking"]
    /\ reporting' = {u \in {t} : flag}
    /\ fired' = fired \ {t} /\ flag' = FALSE
    /\ UNCHANGED <<permit, ringing, cancels, asked, phase, wait, runOutcome,
                   runs, requests>>
AdmitCheck(t) ==
    /\ MayAdmit(t) /\ toolAt[t] \in {"queued", "woken"}
    /\ toolAt' = [toolAt EXCEPT ![t] = IF flag THEN "calledOff" ELSE "asking"]
    /\ reporting' = {u \in {t} : flag}
    /\ fired' = fired \ {t}
    /\ UNCHANGED <<flag, permit, ringing, cancels, asked, phase, wait, runOutcome,
                   runs, requests>>

\* The same select as above; woken, the loop reads the flag again and asks the
\* listeners once more when it is not set.
AdmitPoll(t) ==
    /\ toolAt[t] = "asking"
    /\ toolAt' = [toolAt EXCEPT ![t] = IF permit \/ t \in fired THEN "woken"
                                       ELSE "held"]
    /\ permit' = FALSE
    /\ UNCHANGED <<flag, fired, ringing, cancels, asked, phase, wait, reporting, runOutcome,
                   runs, requests>>

AdmitWoken(t) ==
    /\ toolAt[t] = "held" /\ t \in fired
    /\ toolAt' = [toolAt EXCEPT ![t] = "woken"]
    /\ UNCHANGED <<bell, phase, wait, reporting, runOutcome, runs, requests>>

AdmitOver(t) ==
    /\ toolAt[t] \in {"asking", "held"}
    /\ \/ toolAt' = [toolAt EXCEPT ![t] = "ready"] /\ UNCHANGED reporting
       \/ toolAt' = [toolAt EXCEPT ![t] = "denied"] /\ reporting' = reporting \cup {t}
    /\ UNCHANGED <<bell, phase, wait, runOutcome, runs, requests>>

\* A listener may ask for the end of the run: cancel() from inside it.
AdmitCancelsRun(t) ==
    /\ toolAt[t] \in {"asking", "held"} /\ cancels < MaxCancels
    /\ toolAt' = [toolAt EXCEPT ![t] = "calledOff"] /\ reporting' = reporting \cup {t}
    /\ flag' = TRUE /\ permit' = TRUE /\ asked' = TRUE
    /\ cancels' = cancels + 1
    /\ UNCHANGED <<fired, ringing, phase, wait, runOutcome, runs, requests>>

AdmitEnd ==
    /\ phase = "admit" /\ reporting = {}
    /\ \A t \in Call : toolAt[t] \notin {"queued", "woken", "asking", "held"}
    /\ phase' = "tools"
    /\ UNCHANGED <<bell, wait, toolAt, reporting, runOutcome, runs, requests>>

\* run_admitted_call: the tool is polled together with a Notified, a tool that is "ready"
\* when the sink, the listeners and the extensions have heard that it starts, or the sink
\* has its output; a plugin's tool that is called "again", at once.
ToolPolled(t, at) ==
    /\ phase = "tools" /\ toolAt[t] = at
    /\ toolAt' = [toolAt EXCEPT ![t] = "polling"]
    /\ fired' = fired \ {t}
    /\ UNCHANGED <<flag, permit, ringing, cancels, asked, phase, wait, reporting, runOutcome,
                   runs, requests>>
ToolStart(t) == ToolPolled(t, "ready")
ToolAgain(t) == ToolPolled(t, "again")

\* A native tool takes any ring for its cancellation; a plugin's tool looks at
\* the flag and is called again when it is not set.
Rung(t) == IF flag \/ t \in NativeCall THEN "interrupted" ELSE "again"
Reports(t, at) == reporting' = reporting \cup {u \in {t} : at \in SettledCalls}

ToolPoll(t) ==
    /\ toolAt[t] = "polling"
    /\ LET at == IF permit \/ t \in fired THEN Rung(t) ELSE "parked"
       IN toolAt' = [toolAt EXCEPT ![t] = at] /\ Reports(t, at)
    /\ permit' = FALSE
    /\ UNCHANGED <<flag, fired, ringing, cancels, asked, phase, wait, runOutcome,
                   runs, requests>>

ToolWoken(t) ==
    /\ toolAt[t] = "parked" /\ t \in fired
    /\ toolAt' = [toolAt EXCEPT ![t] = Rung(t)] /\ Reports(t, Rung(t))
    /\ UNCHANGED <<bell, phase, wait, runOutcome, runs, requests>>

\* The tool itself is done, or a native one has output, which is recorded with
\* no Notified at hand.
ToolOver(t) ==
    /\ toolAt[t] \in {"polling", "parked"}
    /\ \E at \in {"finished"} \cup {"ready" : u \in {t} \cap NativeCall} :
           toolAt' = [toolAt EXCEPT ![t] = at] /\ Reports(t, at)
    /\ UNCHANGED <<bell, phase, wait, runOutcome, runs, requests>>

\* The result of a call has been recorded and told.
Reported(t) ==
    /\ t \in reporting /\ reporting' = reporting \ {t}
    /\ UNCHANGED <<bell, phase, wait, toolAt, runOutcome, runs, requests>>

\* All calls of the batch have their results, and a message of the user may be taken in
\* hand before the next batch, which its listeners are asked about.
ToolsEnd_AwaitsCalledOff ==     \* mutant: waits for the calls that never ran
    /\ phase = "tools" /\ reporting = {}
    /\ \A t \in Call : toolAt[t] \in {"finished", "interrupted", "none", "called"}
    /\ \E next \in {"steer", "batch"} : Checkpoint(next)
    /\ UNCHANGED <<permit, fired, ringing, cancels, asked, wait, toolAt, reporting, runs,
                   requests>>
ToolsEnd ==
    /\ phase = "tools" /\ reporting = {}
    /\ \A t \in Call : toolAt[t] \in SettledCalls \cup {"none", "called"}
    /\ \E next \in {"steer", "batch"} : Checkpoint(next)
    /\ UNCHANGED <<permit, fired, ringing, cancels, asked, wait, toolAt, reporting, runs,
                   requests>>

\* The message is dropped, and the calls go on, or it takes their place.
SteeringSettled ==
    /\ phase = "steer" /\ phase' \in {"batch", "top"}
    /\ UNCHANGED <<bell, wait, toolAt, reporting, runOutcome, runs, requests>>
-----------------------------------------------------------------------------
\* What the run does by itself, and what it owes to the outside.
Proceed == \/ Start \/ Request(TRUE)
           \/ WaitFlagged \/ WaitPoll \/ WaitWoken
           \/ Response \/ Batch \/ AdmitEnd \/ ToolsEnd
ProceedTool(t) == \/ AdmitDenied(t) \/ AdmitCheck(t) \/ AdmitPoll(t) \/ AdmitWoken(t)
                  \/ ToolAgain(t) \/ ToolPoll(t) \/ ToolWoken(t)
Outside == \/ Top \/ Request(FALSE) \/ Announced \/ Veto
           \/ WaitOver \/ DeltaRecorded \/ Answered \/ SteeringSettled \/ RunFails \/ End
           \/ \E t \in Call : \/ AdmitOver(t) \/ AdmitCancelsRun(t)
                              \/ ToolStart(t) \/ ToolOver(t) \/ Reported(t)

CancelNext == \/ Create \/ CancelStore \/ CancelRing
        \/ Proceed \/ Outside
        \/ \E t \in Call : ProceedTool(t)

CancelSpec == CancelInit /\ [][CancelNext]_cancelVars

\* The executor polls what is ready.  Nothing is assumed of the outside: a provider, a
\* listener, a sink, the context loader or a tool may never answer, but a tool that never
\* stops writing cannot keep select!, which picks a ready branch at random,
\* from its Notified for ever.
CancelFairness == /\ WF_cancelVars(CancelRing)
            /\ WF_cancelVars(Proceed)
            /\ \A t \in Call : WF_cancelVars(ProceedTool(t)) /\ SF_cancelVars(ToolPoll(t))

FairCancelSpec == CancelSpec /\ CancelFairness
-----------------------------------------------------------------------------
\* No call of a batch is asked about or under way any more when the run goes on.
CallsWithinPhase ==
    \A t \in Call : /\ toolAt[t] \in {"asking", "held"} => phase = "admit"
                    /\ toolAt[t] \in {"polling", "parked"} => phase = "tools"

Phases == DeafPhases \cup {"idle", "created", "retry", "check", "poll", "parked",
                           "response", "batch", "admit", "tools"}
CallStates == {"none", "called", "queued", "woken", "ready", "again"}
              \cup SettledCalls \cup WaitingCalls

CancelTypeOK ==
    /\ flag \in BOOLEAN /\ permit \in BOOLEAN
    /\ ringing \in BOOLEAN /\ asked \in BOOLEAN
    /\ fired \subseteq Call \cup {Loop}
    /\ phase \in Phases
    /\ wait \in {"none", "delay", "connect", "stream"}
    /\ toolAt \in [Call -> CallStates] /\ reporting \subseteq Call
    /\ runOutcome \in {"none", "cancelled", "vetoed", "failed", "finished"}
    /\ runs \in 0..MaxRuns /\ requests \in 0..MaxRequests
    /\ cancels \in 0..MaxCancels
    /\ CallsWithinPhase

\* A cancellation acts on the run it was meant for: a run that no listener refused ends as
\* cancelled only when somebody asked for it while that run went on, whatever earlier
\* runs have left behind in the flag and the Notify.
CancelledOnRequest == runOutcome = "cancelled" => asked

\* A cancellation that was asked for during a run is not forgotten: until the
\* run has its outcome the flag stands, so that the next checkpoint finds it.
CancelNotForgotten ==
    asked /\ phase \notin {"idle", "created", "ending"} => flag

\* The one permit of notify_one went to another tool of the batch.
Beaten(t) == \E u \in Call \ {t} : toolAt[u] \in {"interrupted", "calledOff"}

\* While a cancellation stands, no wait of the run goes on unaware of it: what
\* is parked has been fired or will be by the cancel() that is under way, unless
\* the tool began to wait after the ring and another one took the permit.
NobodySleepsThroughCancel ==
    flag /\ ~ringing =>
        /\ phase = "parked" => Loop \in fired
        /\ \A t \in Call :
               toolAt[t] \in {"parked", "held"} => t \in fired \/ Beaten(t)

\* A cancellation is heard by all of its own run and by no other run: the two
\* above together.
CancelHeard == CancelledOnRequest /\ NobodySleepsThroughCancel

\* The run awaits what does not listen for the cancellation, or a tool that was beaten.
Deaf == \/ phase \in DeafPhases \/ reporting # {}
        \/ phase = "tools" /\ \E t \in Call : toolAt[t] = "ready"
WaitsBeaten == \E t \in Call : toolAt[t] \in {"polling", "parked"} /\ Beaten(t)

\* A run that was asked to stop stops, although the provider, the listeners that admit
\* tools and the tools may stay silent for ever, or else it waits for ever without
\* listening: for a sink, another listener, an extension or the context loader that does
\* not answer (dispatch_cancellable, emit and context_loader.load are not selected
\* against cancel_notify), or for a tool that was beaten to the permit.
CancelledRunsEnd ==
    (asked /\ phase # "idle") ~> (phase = "idle" \/ [](Deaf \/ WaitsBeaten))

\* What the documentation of cancel says: a new run clears what an earlier
\* cancellation left, so no tool is interrupted in a run nobody cancelled.
InterruptedOnRequest ==
    \A t \in Call : toolAt[t] = "interrupted" => asked
=============================================================================
