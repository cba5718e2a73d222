----------------------------- MODULE ModelStream -----------------------------
(***************************************************************************)
(* The stream of events between the task of a model request and the agent  *)
(* that reads it (kernel/src/model/stream.rs).  Clones of the sender push  *)
(* into an unbounded channel under one lock, which counts what has not     *)
(* been read; too much of it ends the stream with an error of its own and  *)
(* aborts the task, so that no text is dropped in silence.  The task may   *)
(* send before its handle is bound to the stream.                          *)
(*                                                                         *)
(* An event weighs 0 or 1, or more than the limit; its content is left     *)
(* out.  A sender looks whether the channel is closed before it takes the  *)
(* lock; the reader takes an event first and gives its weight back later.  *)
(***************************************************************************)
EXTENDS Naturals, Sequences, FiniteSets, SequencesExt

CONSTANTS
    Sender,            \* the request's task and another clone of its sender
    NoEvent,
    MaxPending,        \* MAX_PENDING_EVENTS
    MaxWeight,         \* MAX_PENDING_BYTES
    MaxOffers          \* bound of the model: events that reach the lock

VARIABLES
    channel,           \* events pushed and not received
    ledger,            \* StreamBudget: events, weight, terminal, overflowed, failure
    sender,            \* sender -> the event it is about to push, NoEvent or "gone"
    taken,             \* the event received whose weight is not given back yet
    reader,            \* "open", or "dropped"
    task,              \* the request's task: "loose", "bound" or "aborted"
    result,            \* final_result
    offered, received  \* history: what reached the lock of a live stream, what was read

streamVars == <<channel, ledger, sender, taken, reader, task, result, offered, received>>

(* "lost" is fail() with an error worth a retry, "error" is error(). *)
Event == {"start", "text", "huge", "done", "lost", "error"}
Weight(e) == CASE e \in {"text", "done"} -> 1 [] e = "huge" -> MaxWeight + 1 [] OTHER -> 0
IsTerminal(e) == e \in {"done", "lost", "error", "overflow"}
Unread == [events |-> 0, weight |-> 0, terminal |-> FALSE, overflowed |-> FALSE, failure |-> FALSE]

Init ==
    /\ channel = <<>> /\ ledger = Unread
    /\ sender = [s \in Sender |-> NoEvent]
    /\ taken = NoEvent /\ reader = "open" /\ task = "loose" /\ result = "none"
    /\ offered = <<>> /\ received = <<>>

-----------------------------------------------------------------------------
Offer(s, e) ==
    /\ sender[s] = NoEvent
    /\ reader = "open"
    /\ sender' = [sender EXCEPT ![s] = e]
    /\ UNCHANGED <<channel, ledger, taken, reader, task, result, offered, received>>

Overflowed_Quiet(l) == [l EXCEPT !.overflowed = TRUE]                       \* mutant
(* What a full queue makes of the event. *)
Overflowed(l) == [l EXCEPT !.terminal = TRUE, !.overflowed = TRUE]
TooMuch_Late(l, e) == l.events > MaxPending \/ l.weight + Weight(e) > MaxWeight   \* mutant
TooMuch(l, e) == l.events >= MaxPending \/ l.weight + Weight(e) > MaxWeight
Ended_Full(l) == l.overflowed                                               \* mutant
Ended(l) == l.terminal

Arrive(e) == IF reader = "open" THEN Append(channel, e) ELSE channel

Push(s) == LET e == sender[s] IN
    /\ e \in Event
    /\ Len(offered) < MaxOffers
    /\ sender' = [sender EXCEPT ![s] = NoEvent]
    /\ UNCHANGED <<taken, reader, result, received>>
    /\ \/ /\ Ended(ledger)
          /\ UNCHANGED <<channel, ledger, task, offered>>
       \/ /\ ~Ended(ledger) /\ TooMuch(ledger, e)
          /\ ledger' = Overflowed(ledger)
          /\ channel' = Arrive("overflow")
          /\ task' = IF task = "bound" THEN "aborted" ELSE task
          /\ offered' = Append(offered, e)
       \/ /\ ~Ended(ledger) /\ ~TooMuch(ledger, e)
          /\ ledger' = [ledger EXCEPT !.events = @ + 1, !.weight = @ + Weight(e),
                                      !.terminal = IsTerminal(e), !.failure = (e = "lost")]
          /\ channel' = Arrive(e)
          /\ offered' = Append(offered, e)
          /\ UNCHANGED task

Leave(s) ==
    /\ sender[s] = NoEvent
    /\ sender' = [sender EXCEPT ![s] = "gone"]
    /\ UNCHANGED <<channel, ledger, taken, reader, task, result, offered, received>>

Bound_Blind(l) == "bound"                                                   \* mutant
Bound(l) == IF l.overflowed THEN "aborted" ELSE "bound"
(* with_request_task. *)
Bind ==
    /\ task = "loose" /\ reader = "open" /\ received = <<>> /\ taken = NoEvent
    /\ task' = Bound(ledger)
    /\ UNCHANGED <<channel, ledger, sender, taken, reader, result, offered, received>>

-----------------------------------------------------------------------------
Reading == reader = "open" /\ task # "loose" /\ result = "none"

Receive ==
    /\ Reading /\ taken = NoEvent /\ channel # <<>>
    /\ taken' = Head(channel)
    /\ channel' = Tail(channel)
    /\ UNCHANGED <<ledger, sender, reader, task, result, offered, received>>

Less(n, k) == IF n > k THEN n - k ELSE 0
(* The final result an event brings; the type of a failure comes from the ledger. *)
Outcome(e) ==
    CASE e = "done" -> "response"
      [] e \in {"lost", "error", "overflow"} -> IF ledger.failure THEN "retry" ELSE "failure"
      [] OTHER -> "none"

Settle ==
    /\ taken # NoEvent
    /\ ledger' = [ledger EXCEPT !.events = Less(@, 1), !.weight = Less(@, Weight(taken)),
                                !.failure = @ /\ taken \notin {"lost", "error", "overflow"}]
    /\ result' = Outcome(taken)
    /\ received' = Append(received, taken)
    /\ taken' = NoEvent
    /\ UNCHANGED <<channel, sender, reader, task, offered>>

(* Every sender is gone and nothing is left: result() reports a transient error. *)
Close ==
    /\ Reading /\ taken = NoEvent /\ channel = <<>>
    /\ \A s \in Sender : sender[s] = "gone"
    /\ result' = "retry"
    /\ UNCHANGED <<channel, ledger, sender, taken, reader, task, offered, received>>

(* The stream is dropped, read to its end or not. *)
DropStream ==
    /\ reader = "open" /\ taken = NoEvent
    /\ reader' = "dropped" /\ channel' = <<>>
    /\ task' = IF task = "loose" THEN task ELSE "aborted"
    /\ UNCHANGED <<ledger, sender, taken, result, offered, received>>

Next ==
    \/ \E s \in Sender, e \in Event : Offer(s, e)
    \/ \E s \in Sender : Push(s) \/ Leave(s)
    \/ Bind
    \/ Receive \/ Settle \/ Close
    \/ DropStream

Spec == Init /\ [][Next]_streamVars

-----------------------------------------------------------------------------
TypeOK ==
    /\ channel \in Seq(Event \cup {"overflow"}) /\ received \in Seq(Event \cup {"overflow"})
    /\ offered \in Seq(Event) /\ taken \in Event \cup {"overflow", NoEvent}
    /\ ledger.events \in Nat /\ ledger.weight \in Nat
    /\ task \in {"loose", "bound", "aborted"} /\ reader \in {"open", "dropped"}

Shown == Event \cup {"overflow"}

\* What the events of a sequence weigh together: as many pairs as a position has weight.
Amount(es, weights) ==
    Cardinality({p \in (DOMAIN es) \X (1..(MaxWeight + 1)) : p[2] <= weights[es[p[1]]]})
\* Their number, the overflow aside, and their weight.
Ones == [e \in Shown |-> IF e = "overflow" THEN 0 ELSE 1]
Weights == [e \in Shown |-> Weight(e)]
Texts(es) == Amount(es, Ones)
Total(es) == Amount(es, Weights)

(* What waits for the reader stays within the limits, the error that says   *)
(* so aside ("只限制尚未消费的事件"), whatever the reader gives back meanwhile. *)
PendingBounded ==
    /\ Texts(channel) <= MaxPending
    /\ Total(channel) <= MaxWeight
(* "不静默丢正文": a stream that ends with a response has delivered every event *)
(* any sender pushed before it, in their order; one event missing anywhere    *)
(* and the last thing the reader sees is an error.                            *)
NoSilentLoss ==
    /\ result = "response" => received = offered
    /\ result = "none" /\ reader = "open" =>
          \/ received \o (IF taken = NoEvent THEN <<>> ELSE <<taken>>) \o channel = offered
          \/ ledger.overflowed /\ Last(<<taken>> \o channel) = "overflow"
(* "错误与终态在同一把锁内提交，避免并发生产者把重试属性绑定到另一条终态": a request is  *)
(* retried exactly if the terminal event the reader saw was the transient one *)
(* or there was none.                                                         *)
RetryOfItsError ==
    result \in {"retry", "failure"} =>
        LET last == IF received = <<>> THEN "none" ELSE Last(received)
        IN (result = "retry") = (last = "lost" \/ ~IsTerminal(last))
(* An overflow stops the request, in whichever order it and the binding of  *)
(* the task come; so does dropping the stream.                              *)
RequestStopped ==
    task # "loose" /\ (ledger.overflowed \/ reader = "dropped") => task = "aborted"

-----------------------------------------------------------------------------
(* What makes them inductive.                                              *)
StreamTypes ==
    /\ TypeOK /\ sender \in [Sender -> Event \cup {NoEvent, "gone"}]
    /\ ledger \in [events : Nat, weight : Nat, terminal : BOOLEAN, overflowed : BOOLEAN,
                   failure : BOOLEAN]
    /\ result \in {"none", "response", "retry", "failure"}

\* All that was pushed and not lost with its reader, the oldest first.
InHand == (IF taken = NoEvent THEN <<>> ELSE <<taken>>) \o channel
Pushed == received \o InHand

\* An open stream has what was offered to it; the last may have become the overflow.
\* Only the last is terminal, and the ledger knows whether it is.
StreamWhole ==
    /\ reader = "open" =>
         /\ Len(Pushed) = Len(offered)
         /\ \A i \in DOMAIN Pushed :
              /\ i < Len(Pushed) => Pushed[i] = offered[i] /\ ~IsTerminal(Pushed[i])
              /\ i = Len(Pushed) =>
                   /\ Pushed[i] = IF ledger.overflowed THEN "overflow" ELSE offered[i]
                   /\ ledger.terminal <=> IsTerminal(Pushed[i])
                   /\ result = "none" => (ledger.failure <=> Pushed[i] = "lost")
         /\ Pushed = <<>> => ledger = Unread
         /\ ledger.overflowed => Pushed # <<>>
    /\ reader = "dropped" => channel = <<>> /\ taken = NoEvent

\* What waits is counted, the overflow aside; it is never too heavy.
StreamCounted ==
    /\ ledger.events <= MaxPending /\ ledger.weight <= MaxWeight
    /\ Texts(InHand) <= ledger.events /\ Total(InHand) <= ledger.weight

\* The stream ends with its terminal event, or because everybody left.
StreamEnds ==
    /\ result = "none" => \A i \in DOMAIN received : ~IsTerminal(received[i])
    /\ result # "none" => taken = NoEvent
    /\ result = "response" => ledger.terminal /\ received = offered

StreamInv ==
    /\ StreamTypes /\ StreamWhole /\ StreamCounted /\ StreamEnds
    /\ RetryOfItsError /\ RequestStopped
==============================================================================
