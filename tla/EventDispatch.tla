---------------------------- MODULE EventDispatch ----------------------------
(***************************************************************************)
(* The event bus (agent-core/event: bus.rs, listener.rs, cancel.rs): a     *)
(* root bus and a child of it, listeners that come and go, and dispatches  *)
(* that collect the listeners of the child and of its parent, one table at *)
(* a time, and then await each in the order of priority and registration.  *)
(*                                                                         *)
(* One event name.  An event's data is the number of times it was          *)
(* rewritten.  Priorities are three: early, late, and Monitor, which may   *)
(* neither rewrite nor cancel.  A listener that fails cancels the event if *)
(* it was subscribed with CancelEvent.                                     *)
(***************************************************************************)
EXTENDS Naturals, Sequences, FiniteSets, SequencesExt

CONSTANTS
    Subscriber, NoBody,
    Dispatch,             \* the dispatches in progress at a time, each one event
    MaxSubscriptions      \* bound of the model

VARIABLES
    table,                \* the registrations of all buses
    arriving,             \* subscriber -> a registration that has its number and no place yet
    sequence,             \* the counter all buses share
    dispatches

busVars == <<table, arriving, sequence, dispatches>>

Bus == {"root", "child"}
Priority == {"early", "late", "monitor"}
Rank(p) == CASE p = "early" -> 0 [] p = "late" -> 1 [] p = "monitor" -> 2

Chain_Own(bus) == <<bus>>                                                   \* mutant
(* What collect visits, in its order: the bus and its ancestors. *)
Chain(bus) == IF bus = "child" THEN <<"child", "root">> ELSE <<"root">>

Nothing == [phase |-> "idle", bus |-> "root", left |-> <<>>, todo |-> {}, called |-> <<>>,
            canceller |-> NoBody, data |-> 0, standing |-> {}, seen |-> {}, refused |-> {}]

Init ==
    /\ table = {}
    /\ arriving = [s \in Subscriber |-> {}]
    /\ sequence = 0
    /\ dispatches = [d \in Dispatch |-> Nothing]

-----------------------------------------------------------------------------
(* subscribe: the number first, the place in the table under its lock after. *)
Number(s) ==
    /\ arriving[s] = {} /\ sequence < MaxSubscriptions
    /\ \E b \in Bus, p \in Priority, skip, close \in BOOLEAN :
         arriving' = [arriving EXCEPT ![s] =
             {[sequence |-> sequence, bus |-> b, subscriber |-> s, priority |-> p,
               ignore_cancelled |-> skip, close |-> close]}]
    /\ sequence' = sequence + 1
    /\ UNCHANGED <<table, dispatches>>

Subscribe(s) ==
    /\ arriving[s] # {}
    /\ table' = table \cup arriving[s]
    /\ arriving' = [arriving EXCEPT ![s] = {}]
    /\ UNCHANGED <<sequence, dispatches>>

(* What is subscribed no more stands no more for the dispatches under way. *)
Removed(gone) ==
    /\ gone # {}
    /\ table' = table \ gone
    /\ dispatches' = [d \in Dispatch |-> [dispatches[d] EXCEPT !.standing = @ \ gone]]
    /\ UNCHANGED <<arriving, sequence>>

Unsubscribe(r) == Removed({r} \cap table)
UnsubscribeAll(s, bus) == Removed({r \in table : r.subscriber = s /\ r.bus = bus})

-----------------------------------------------------------------------------
Of(buses) == {r \in table : r.bus \in buses}

Begin(d, bus) ==
    /\ dispatches[d].phase = "idle"
    /\ dispatches' = [dispatches EXCEPT ![d] =
          [@ EXCEPT !.phase = "collects", !.bus = bus, !.left = Chain(bus), !.standing = Of({bus, "root"})]]
    /\ UNCHANGED <<table, arriving, sequence>>

Collect(d) == LET x == dispatches[d] IN
    /\ x.phase = "collects"
    /\ dispatches' = [dispatches EXCEPT ![d] =
          [x EXCEPT !.left = Tail(x.left), !.todo = x.todo \cup Of({Head(x.left)}),
                    !.phase = IF Len(x.left) = 1 THEN "calls" ELSE "collects"]]
    /\ UNCHANGED <<table, arriving, sequence>>

Before_Registered(a, b) == a.sequence < b.sequence                          \* mutant
Before(a, b) == Rank(a.priority) < Rank(b.priority)
                \/ (a.priority = b.priority /\ a.sequence < b.sequence)

ReadOnly(r) == r.priority = "monitor"
(* cancel: the first canceller stays. *)
Cancelled(by, s) == IF by = NoBody THEN s ELSE by

Decided_Cancels(by, r, cancels, fails) ==                                   \* mutant
    IF (cancels /\ ~ReadOnly(r)) \/ (fails /\ r.close) THEN Cancelled(by, r.subscriber) ELSE by
(* What becomes of the event when the listener cancels it, or fails. *)
Decided(by, r, cancels, fails) ==
    IF (cancels \/ (fails /\ r.close)) /\ ~ReadOnly(r) THEN Cancelled(by, r.subscriber) ELSE by

Skips_Any(r, by) == by # NoBody                                             \* mutant
Skips(r, by) == r.ignore_cancelled /\ by # NoBody

(* The next listener is passed over, or awaited: it rewrites, cancels, fails, *)
(* or does several of it. *)
Call(d) == LET x == dispatches[d] IN
    /\ x.phase = "calls"
    /\ UNCHANGED <<table, arriving, sequence>>
    /\ \E r \in x.todo :
         /\ \A other \in x.todo \ {r} : Before(r, other)
         /\ \/ /\ Skips(r, x.canceller)
               /\ dispatches' = [dispatches EXCEPT ![d] = [x EXCEPT !.todo = x.todo \ {r}]]
            \/ /\ ~Skips(r, x.canceller)
               /\ \E rewrites, cancels, fails \in BOOLEAN :
                    LET by == Decided(x.canceller, r, cancels, fails)
                        data == IF rewrites /\ ~ReadOnly(r) THEN x.data + 1 ELSE x.data IN
                    dispatches' = [dispatches EXCEPT ![d] =
                        [x EXCEPT !.todo = x.todo \ {r}, !.called = Append(x.called, r),
                                  !.canceller = by, !.data = data,
                                  !.seen = IF ReadOnly(r) THEN @ \cup {<<x.canceller, x.data>>} ELSE @,
                                  !.refused = IF (cancels \/ (fails /\ r.close)) /\ ~ReadOnly(r)
                                              THEN @ \cup {r} ELSE @]]

End(d) ==
    /\ dispatches[d].phase = "calls" /\ dispatches[d].todo = {}
    /\ dispatches' = [dispatches EXCEPT ![d].phase = "done"]
    /\ UNCHANGED <<table, arriving, sequence>>

(* The result has been used. *)
Drop(d) ==
    /\ dispatches[d].phase = "done"
    /\ dispatches' = [dispatches EXCEPT ![d] = Nothing]
    /\ UNCHANGED <<table, arriving, sequence>>

Next ==
    \/ \E s \in Subscriber : Number(s) \/ Subscribe(s) \/ (\E b \in Bus : UnsubscribeAll(s, b))
    \/ \E r \in table : Unsubscribe(r)
    \/ \E d \in Dispatch : (\E b \in Bus : Begin(d, b)) \/ Collect(d) \/ Call(d) \/ End(d) \/ Drop(d)

Spec == Init /\ [][Next]_busVars

-----------------------------------------------------------------------------
Done(d) == dispatches[d].phase = "done"
InOrder(a, b) == Rank(a.priority) < Rank(b.priority)
                 \/ (a.priority = b.priority /\ a.sequence < b.sequence)

(* No gate is missed: a listener subscribed on the bus or its parent from    *)
(* before a dispatch to its end was asked, unless it does not want events    *)
(* already cancelled; whatever else subscribes and leaves between the looks  *)
(* at the two tables ("父总线的监听者继续参与子总线的分发").                     *)
NoGateMissed ==
    \A d \in Dispatch : Done(d) =>
        \A r \in dispatches[d].standing :
            r \in Range(dispatches[d].called) \/ (r.ignore_cancelled /\ dispatches[d].canceller # NoBody)
(* The order over both buses, and with it what a Monitor is promised: it sees *)
(* the event as it ends, neither rewritten nor cancelled after it looked.     *)
MonitorsSeeTheEnd ==
    \A d \in Dispatch :
        /\ \A i, j \in 1..Len(dispatches[d].called) :
              i < j => InOrder(dispatches[d].called[i], dispatches[d].called[j])
        /\ Done(d) => dispatches[d].seen \subseteq {<<dispatches[d].canceller, dispatches[d].data>>}
(* "先取消者": the event is cancelled exactly if a listener that may said so *)
(* or failed closed, in the name of the first that did.                    *)
FirstRefusalStands ==
    \A d \in Dispatch : LET x == dispatches[d] IN
        IF x.refused = {} THEN x.canceller = NoBody
        ELSE \E r \in x.refused : /\ x.canceller = r.subscriber
                                  /\ \A other \in x.refused \ {r} : InOrder(r, other)
(* "不会把门禁泄漏回父 Agent": an event of the root meets no listener of the child. *)
GatesStayWithChild ==
    \A d \in Dispatch : dispatches[d].bus = "root" =>
        \A r \in Range(dispatches[d].called) : r.bus = "root"

-----------------------------------------------------------------------------
(* What makes them inductive.                                              *)
Registration == [sequence : Nat, bus : Bus, subscriber : Subscriber, priority : Priority,
                 ignore_cancelled : BOOLEAN, close : BOOLEAN]
Coming == UNION {arriving[s] : s \in Subscriber}
Collected == UNION {dispatches[d].todo \cup Range(dispatches[d].called) : d \in Dispatch}
Known == table \cup Coming \cup Collected

Progress ==
    [phase : {"idle", "collects", "calls", "done"}, bus : Bus,
     left : {<<>>, <<"root">>, <<"child", "root">>}, todo : SUBSET Registration,
     called : Seq(Registration), canceller : Subscriber \cup {NoBody}, data : Nat,
     standing : SUBSET Registration,
     seen : SUBSET ((Subscriber \cup {NoBody}) \X Nat), refused : SUBSET Registration]

BusTypes ==
    /\ table \subseteq Registration /\ arriving \in [Subscriber -> SUBSET Registration]
    /\ sequence \in Nat /\ dispatches \in [Dispatch -> Progress]

\* A registration is known by its number.
Numbered ==
    /\ \A r \in Known : r.sequence < sequence
    /\ \A r, s \in Known : r.sequence = s.sequence => r = s

\* What a dispatch has not collected yet it finds in the tables it has still to visit.
Collecting ==
    \A d \in Dispatch : LET x == dispatches[d] IN
        /\ x.phase = "collects" <=> x.left # <<>>
        /\ x.standing \subseteq table
        /\ x.bus = "root" => \A r \in x.todo \cup Range(x.called) : r.bus = "root"
        /\ x.bus = "root" => x.left # <<"child", "root">>
        /\ x.phase \in {"idle", "collects"} =>
              x.called = <<>> /\ x.canceller = NoBody /\ x.refused = {} /\ x.seen = {}
        /\ x.phase = "collects" => \A r \in x.standing :
              r \in x.todo \/ r.bus = "root" \/ x.left = <<"child", "root">>
        /\ x.phase \in {"idle", "done"} => x.todo = {}

\* What was called comes before what is to be called; the standing listeners were called,
\* are to be, or were passed over for good; a Monitor has seen what is there still.
Calling ==
    \A d \in Dispatch : LET x == dispatches[d] IN
        /\ \A i \in DOMAIN x.called : \A r \in x.todo : InOrder(x.called[i], r)
        /\ x.phase \in {"calls", "done"} => \A r \in x.standing :
              \/ r \in x.todo \/ r \in Range(x.called)
              \/ r.ignore_cancelled /\ x.canceller # NoBody
        /\ x.refused \subseteq Range(x.called)
        /\ x.seen \subseteq {<<x.canceller, x.data>>}
        /\ x.seen # {} => \A r \in x.todo : ReadOnly(r)

DispatchInv ==
    /\ BusTypes /\ Numbered /\ Collecting /\ Calling
    /\ NoGateMissed /\ MonitorsSeeTheEnd /\ FirstRefusalStands /\ GatesStayWithChild
==============================================================================
