------------------------------ MODULE AgentEntry ------------------------------
(***************************************************************************)
(* One AgentEntry of crates/agent-core/runtime, at the grain of its locks: *)
(* the supervision task records events and finally publishes the outcome,  *)
(* callers wait for it or subscribe to the events, and the owner collects. *)
(* AgentRuntime takes each of these for one step; here they interleave     *)
(* wherever the code releases a lock or reads without one.                 *)
(***************************************************************************)
EXTENDS Naturals, Sequences

CONSTANTS
    Waiter,             \* the callers of AgentRuntimeApi::wait
    Observer,           \* the callers of AgentRuntimeApi::subscribe
    HistoryLimit,       \* AGENT_EVENT_HISTORY_LIMIT
    MaxEvents,          \* bound of the model: events the run emits
    Nobody, Task        \* the free lock, and the supervision task as a holder

ASSUME EntryAssumption ==
    /\ HistoryLimit \in Nat \ {0} /\ MaxEvents \in Nat
    /\ {Nobody, Task} \cap Observer = {} /\ Nobody # Task

VARIABLES
    ended,              \* AgentEntry.status is terminal
    outcome,            \* AgentEntry.outcome is there
    collected,          \* AgentEntry.collected
    history,            \* AgentEntry.event_history
    subscribers,        \* AgentEntry.subscribers: whose sender is in the list
    emitted,            \* events the run has emitted, numbered from 1
    stream,             \* what the channel of an observer has been sent
    statusLock,         \* the writer of AgentEntry.status
    historyLock, subscribersLock,
    taskAt, collectorAt, waiterAt, observerAt,      \* control points
    notified            \* waiters whose Notified is armed and was fired

locks == <<statusLock, historyLock, subscribersLock>>
events == <<history, subscribers, emitted, stream>>
vars == <<ended, outcome, collected, events, locks,
          taskAt, collectorAt, waiterAt, observerAt, notified>>

Armed == {w \in Waiter : waiterAt[w] \in {"look", "parked"}}

Init ==
    /\ ended = FALSE /\ outcome = FALSE /\ collected = FALSE
    /\ history = <<>> /\ subscribers = {} /\ emitted = 0
    /\ stream = [o \in Observer |-> <<>>]
    /\ statusLock = Nobody /\ historyLock = Nobody /\ subscribersLock = Nobody
    /\ taskAt = "core" /\ collectorAt = "idle"
    /\ waiterAt = [w \in Waiter |-> "idle"]
    /\ observerAt = [o \in Observer |-> "idle"]
    /\ notified = {}
-----------------------------------------------------------------------------
(* SubscriberEventSink::record, by the core inside the supervision task.   *)

Remember_Unbounded(h, e) == Append(h, e)                               \* mutant
Remember(h, e) == Append(IF Len(h) >= HistoryLimit THEN Tail(h) ELSE h, e)

RecordHistory ==
    /\ taskAt = "core" /\ emitted < MaxEvents
    /\ historyLock = Nobody
    /\ historyLock' = Task
    /\ emitted' = emitted + 1
    /\ history' = Remember(history, emitted')
    /\ taskAt' = "recording"
    /\ UNCHANGED <<ended, outcome, collected, subscribers, stream, statusLock,
                   subscribersLock, collectorAt, waiterAt, observerAt, notified>>

\* Who is still in the list and listens gets the event; a send to a channel
\* whose receiver is gone fails, and its sender leaves the list.
RecordSend ==
    /\ taskAt = "recording"
    /\ subscribersLock = Nobody
    /\ subscribers' = {o \in subscribers : observerAt[o] # "gone"}
    /\ stream' = [o \in Observer |-> IF o \in subscribers'
                                     THEN Append(stream[o], emitted)
                                     ELSE stream[o]]
    /\ historyLock' = Nobody
    /\ taskAt' = "core"
    /\ UNCHANGED <<ended, outcome, collected, history, emitted,
                   statusLock, subscribersLock, collectorAt, waiterAt,
                   observerAt, notified>>
-----------------------------------------------------------------------------
(* finish_with_session: under the status lock session and outcome go first *)
(* and the status last; the notification and the end of the streams come   *)
(* after the lock is released.                                             *)

FinishLock ==
    /\ taskAt = "core" /\ statusLock = Nobody
    /\ statusLock' = Task
    /\ taskAt' = "writing"
    /\ UNCHANGED <<ended, outcome, collected, events, historyLock,
                   subscribersLock, collectorAt, waiterAt, observerAt, notified>>

FinishOutcome ==
    /\ taskAt = "writing"
    /\ outcome' = TRUE
    /\ taskAt' = "published"
    /\ UNCHANGED <<ended, collected, events, locks, collectorAt, waiterAt,
                   observerAt, notified>>

\* mutant: without drop(status) the lock lives to the end of the function
FinishStatus_KeepsLock ==
    /\ taskAt = "published"
    /\ ended' = TRUE
    /\ taskAt' = "notifying"
    /\ UNCHANGED <<outcome, collected, events, locks,
                   collectorAt, waiterAt, observerAt, notified>>
FinishStatus ==
    /\ taskAt = "published"
    /\ ended' = TRUE
    /\ statusLock' = Nobody
    /\ taskAt' = "notifying"
    /\ UNCHANGED <<outcome, collected, events, historyLock, subscribersLock,
                   collectorAt, waiterAt, observerAt, notified>>

\* Notify::notify_waiters reaches every Notified that exists at this moment,
\* polled or not, and leaves nothing behind for later ones.
FinishNotify_One ==                                                    \* mutant
    /\ taskAt = "notifying"
    /\ \E woken \in SUBSET Armed :
           /\ woken = {} <=> Armed = {}
           /\ \A w, v \in woken : w = v
           /\ notified' = notified \cup woken
    /\ taskAt' = "closing"
    /\ UNCHANGED <<ended, outcome, collected, events, locks, collectorAt,
                   waiterAt, observerAt>>
FinishNotify ==
    /\ taskAt = "notifying"
    /\ notified' = notified \cup Armed
    /\ taskAt' = "closing"
    /\ UNCHANGED <<ended, outcome, collected, events, locks, collectorAt,
                   waiterAt, observerAt>>

FinishClose ==
    /\ taskAt = "closing" /\ subscribersLock = Nobody
    /\ subscribers' = {}
    /\ taskAt' = "done"
    /\ UNCHANGED <<ended, outcome, collected, history, emitted, stream, locks,
                   collectorAt, waiterAt, observerAt, notified>>
-----------------------------------------------------------------------------
(* wait_for                                                                *)

WaitBegin(w) ==
    /\ waiterAt[w] = "idle"
    /\ waiterAt' = [waiterAt EXCEPT ![w] = "check"]
    /\ UNCHANGED <<ended, outcome, collected, events, locks, taskAt,
                   collectorAt, observerAt, notified>>

WaitCheck(w) ==
    /\ waiterAt[w] = "check"
    /\ waiterAt' = [waiterAt EXCEPT ![w] = IF collected THEN "refused" ELSE "arm"]
    /\ UNCHANGED <<ended, outcome, collected, events, locks, taskAt,
                   collectorAt, observerAt, notified>>

\* self.finished.notified()
WaitArm(w) ==
    /\ waiterAt[w] = "arm"
    /\ waiterAt' = [waiterAt EXCEPT ![w] = "look"]
    /\ notified' = notified \ {w}
    /\ UNCHANGED <<ended, outcome, collected, events, locks, taskAt,
                   collectorAt, observerAt>>

\* The Notified is dropped when the outcome is there.
WaitLook(w) ==
    /\ waiterAt[w] = "look"
    /\ waiterAt' = [waiterAt EXCEPT ![w] = IF outcome THEN "returned" ELSE "parked"]
    /\ UNCHANGED <<ended, outcome, collected, events, locks, taskAt,
                   collectorAt, observerAt, notified>>

WaitWake(w) ==
    /\ waiterAt[w] = "parked" /\ w \in notified
    /\ waiterAt' = [waiterAt EXCEPT ![w] = "check"]
    /\ UNCHANGED <<ended, outcome, collected, events, locks, taskAt,
                   collectorAt, observerAt, notified>>

Wait(w) == WaitCheck(w) \/ WaitArm(w) \/ WaitLook(w) \/ WaitWake(w)
-----------------------------------------------------------------------------
(* AgentEntry::subscribe                                                   *)

SubscribeReplay_Unlocked(o) ==      \* mutant: the lock ends with the replay
    /\ observerAt[o] = "idle" /\ historyLock = Nobody
    /\ stream' = [stream EXCEPT ![o] = history]
    /\ observerAt' = [observerAt EXCEPT ![o] = "replayed"]
    /\ UNCHANGED <<ended, outcome, collected, history, subscribers, emitted,
                   locks, taskAt, collectorAt, waiterAt, notified>>
SubscribeReplay(o) ==
    /\ observerAt[o] = "idle" /\ historyLock = Nobody
    /\ historyLock' = o
    /\ stream' = [stream EXCEPT ![o] = history]
    /\ observerAt' = [observerAt EXCEPT ![o] = "replayed"]
    /\ UNCHANGED <<ended, outcome, collected, history, subscribers, emitted,
                   statusLock, subscribersLock, taskAt, collectorAt, waiterAt,
                   notified>>

SubscribeLock(o) ==
    /\ observerAt[o] = "replayed" /\ subscribersLock = Nobody
    /\ subscribersLock' = o
    /\ observerAt' = [observerAt EXCEPT ![o] = "locked"]
    /\ UNCHANGED <<ended, outcome, collected, events, statusLock, historyLock,
                   taskAt, collectorAt, waiterAt, notified>>

\* The status is read while the subscribers' lock is held; both locks go at
\* the end of the function.
SubscribeJoin_NoStatus(o) ==                                           \* mutant
    /\ observerAt[o] = "locked" /\ statusLock = Nobody
    /\ subscribers' = subscribers \cup {o}
    /\ historyLock' = Nobody /\ subscribersLock' = Nobody
    /\ observerAt' = [observerAt EXCEPT ![o] = "reading"]
    /\ UNCHANGED <<ended, outcome, collected, history, emitted, stream,
                   statusLock, taskAt, collectorAt, waiterAt, notified>>
SubscribeJoin(o) ==
    /\ observerAt[o] = "locked" /\ statusLock = Nobody
    /\ subscribers' = IF ended THEN subscribers ELSE subscribers \cup {o}
    /\ historyLock' = Nobody /\ subscribersLock' = Nobody
    /\ observerAt' = [observerAt EXCEPT ![o] = "reading"]
    /\ UNCHANGED <<ended, outcome, collected, history, emitted, stream,
                   statusLock, taskAt, collectorAt, waiterAt, notified>>

\* The observer drops its AgentEventStream.
DropStream(o) ==
    /\ observerAt[o] = "reading"
    /\ observerAt' = [observerAt EXCEPT ![o] = "gone"]
    /\ UNCHANGED <<ended, outcome, collected, events, locks, taskAt,
                   collectorAt, waiterAt, notified>>

Subscribe(o) == SubscribeReplay(o) \/ SubscribeLock(o) \/ SubscribeJoin(o)
-----------------------------------------------------------------------------
(* collect_resources, under the registry's lifecycle mutex: one collector  *)
(* at a time, and the fields are released one after the other.             *)

CollectMark ==
    /\ collectorAt = "idle" /\ statusLock = Nobody
    /\ ended /\ ~collected
    /\ collected' = TRUE
    /\ collectorAt' = "outcome"
    /\ UNCHANGED <<ended, outcome, events, locks, taskAt, waiterAt, observerAt,
                   notified>>

CollectOutcome ==
    /\ collectorAt = "outcome"
    /\ outcome' = FALSE
    /\ collectorAt' = "history"
    /\ UNCHANGED <<ended, collected, events, locks, taskAt, waiterAt,
                   observerAt, notified>>

CollectHistory ==
    /\ collectorAt = "history" /\ historyLock = Nobody
    /\ history' = <<>>
    /\ collectorAt' = "subscribers"
    /\ UNCHANGED <<ended, outcome, collected, subscribers, emitted, stream,
                   locks, taskAt, waiterAt, observerAt, notified>>

CollectClose ==
    /\ collectorAt = "subscribers" /\ subscribersLock = Nobody
    /\ subscribers' = {}
    /\ collectorAt' = "done"
    /\ UNCHANGED <<ended, outcome, collected, history, emitted, stream, locks,
                   taskAt, waiterAt, observerAt, notified>>
-----------------------------------------------------------------------------
Finish  == FinishLock \/ FinishOutcome \/ FinishStatus \/ FinishNotify \/ FinishClose
Release == CollectOutcome \/ CollectHistory \/ CollectClose

Next == \/ RecordHistory \/ RecordSend
        \/ Finish
        \/ CollectMark \/ Release
        \/ \E w \in Waiter : WaitBegin(w) \/ Wait(w)
        \/ \E o \in Observer : Subscribe(o) \/ DropStream(o)

Spec == Init /\ [][Next]_vars

\* Threads that hold or want a lock go on, and std's locks are fair enough for
\* the few holders there are: strong fairness where a lock is taken.  The core
\* comes to an end (its cancellation is AgentRuntime's subject); nobody has to
\* wait, to subscribe or to collect.
Fairness ==
    /\ SF_vars(RecordSend) /\ SF_vars(Finish)
    /\ SF_vars(Release)
    /\ \A w \in Waiter : WF_vars(Wait(w))
    /\ \A o \in Observer : SF_vars(SubscribeLock(o) \/ SubscribeJoin(o))

FairSpec == Spec /\ Fairness
-----------------------------------------------------------------------------
TypeOK ==
    /\ {ended, outcome, collected} \subseteq BOOLEAN
    /\ emitted \in 0 .. MaxEvents
    /\ Len(history) <= HistoryLimit
    /\ subscribers \subseteq Observer /\ notified \subseteq Waiter
    /\ \A o \in Observer : Len(stream[o]) <= emitted
    /\ statusLock \in {Nobody, Task}
    /\ historyLock \in {Nobody, Task} \cup Observer
    /\ subscribersLock \in {Nobody} \cup Observer
    /\ taskAt \in {"core", "recording", "writing", "published", "notifying",
                   "closing", "done"}
    /\ collectorAt \in {"idle", "outcome", "history", "subscribers", "done"}
    /\ waiterAt \in [Waiter -> {"idle", "check", "arm", "look", "parked",
                                "returned", "refused"}]
    /\ observerAt \in [Observer -> {"idle", "replayed", "locked", "reading", "gone"}]

\* Between the replay and the live events of a stream nothing is lost and
\* nothing comes twice: what an observer was sent is an unbroken run of
\* events, and while its sender is in the list, or once the task is done and
\* nothing was collected, it reaches up to the last event that was delivered.
StreamsUnbroken ==
    \A o \in Observer :
        /\ \A i \in 1 .. Len(stream[o]) - 1 : stream[o][i + 1] = stream[o][i] + 1
        /\ observerAt[o] = "reading" /\ taskAt # "recording"
               /\ (o \in subscribers \/ ~collected) /\ emitted > 0
           => stream[o] # <<>> /\ stream[o][Len(stream[o])] = emitted

\* When the task is done no stream is left open: no observer can have joined
\* the list after finish_with_session cleared it, where nothing would ever
\* close its channel again.
NoStreamLeftOpen == taskAt = "done" => subscribers = {}

\* What an observer reads has no gap, and it does not wait for an agent that is
\* gone: the two above together, whichever events the bounded history let go.
StreamsWhole == StreamsUnbroken /\ NoStreamLeftOpen /\ Len(history) <= HistoryLimit

\* As long as nobody collects, whoever waits for an agent that ended returns:
\* the notification cannot fall between the look at the outcome and the wait.
WaitersReturnUnlessCollected ==
    \A w \in Waiter :
        (waiterAt[w] # "idle" /\ ended) ~> (waiterAt[w] = "returned" \/ collected)

\* Every stream comes to an end, whichever of finish, subscribe and collect
\* get in each other's way: none of their locks waits for another for ever.
StreamsEnd ==
    \A o \in Observer : (observerAt[o] # "idle" /\ ended)
                            ~> (observerAt[o] \in {"reading", "gone"} /\ o \notin subscribers)

\* What the comment in wait_for promises: the collection of an outcome leaves
\* nobody waiting for ever, since the collected flag is looked at first.
WaitersReturn ==
    \A w \in Waiter :
        (waiterAt[w] # "idle" /\ ended) ~> waiterAt[w] \in {"returned", "refused"}
=============================================================================
