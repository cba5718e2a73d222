------------------------------ MODULE AgentViews -----------------------------
(***************************************************************************)
(* Which agents the terminal shows and where their events come from: the   *)
(* stack of views (ui/view.rs), and sync_agent_views with the readers it   *)
(* starts (app/agent_view.rs).  A member of a plugin's team is an          *)
(* instance; each of its runs has a handle of the Runtime, which is its    *)
(* number here.  What a view makes of its events is AgentTranscript.       *)
(*                                                                         *)
(* The event loop synchronises, then handles one event of its channel; the *)
(* readers send into that channel all the while.  Navigation requests are  *)
(* idempotent by their ids, so that each occurs once here.  The Runtime    *)
(* keeps all events of these short runs for who subscribes late.           *)
(***************************************************************************)
EXTENDS Naturals, Sequences, SequencesExt, FiniteSets

CONSTANTS
    Instance,
    Page,        \* views of the plugin that are no agents
    NoView,
    MaxRuns, MaxEvents, MaxInputs      \* bounds

VARIABLES
    runs,        \* of each instance, per run: events recorded, ended, collected
    stack,       \* of views; main view below
    views,       \* the AgentSessionView of each instance
    readers,     \* every reader there ever was; its place is its name
    inbox,       \* the channel of the event loop
    synced,      \* the event loop is at rx.recv()
    inputs

agentViewVars == <<runs, stack, views, readers, inbox, synced, inputs>>

Fresh == [events |-> 0, ended |-> FALSE, gone |-> FALSE]
Page0 == 0      \* the target of a page
Unsubscribed == 0

Init ==
    /\ runs = [i \in Instance |-> <<Fresh>>]
    /\ stack = <<>> /\ views = [i \in Instance |-> NoView]
    /\ readers = <<>> /\ inbox = <<>> /\ synced = FALSE /\ inputs = 0

Run(r) == runs[r.instance][r.target]

------------------------------------------------------------------------------
(* The Runtime, and the plugin that continues and collects members. *)
RuntimeRecords(i) ==
    LET n == Len(runs[i]) IN
    /\ ~runs[i][n].ended /\ runs[i][n].events < MaxEvents
    /\ \/ runs' = [runs EXCEPT ![i][n].events = @ + 1]
       \/ runs' = [runs EXCEPT ![i][n].events = @ + 1, ![i][n].ended = TRUE]
    /\ UNCHANGED <<stack, views, readers, inbox, synced, inputs>>
Continue(i) ==
    /\ Len(runs[i]) < MaxRuns /\ Last(runs[i]).ended
    /\ runs' = [runs EXCEPT ![i] = Append(@, Fresh)]
    /\ UNCHANGED <<stack, views, readers, inbox, synced, inputs>>
Collect(i, n) ==
    /\ n \in DOMAIN runs[i] /\ runs[i][n].ended /\ ~runs[i][n].gone
    /\ runs' = [runs EXCEPT ![i][n].gone = TRUE]
    /\ UNCHANGED <<stack, views, readers, inbox, synced, inputs>>

(* A key of the user, or a navigation request of the plugin. *)
Navigations ==
    [kind : {"escape", "pop"}] \cup [kind : {"push", "replace"}, key : Page]
    \cup {[kind |-> "open", key |-> i, target |-> Len(runs[i])] : i \in Instance}
KeyPressed(e) ==
    /\ inputs < MaxInputs
    /\ inputs' = inputs + 1 /\ inbox' = Append(inbox, e)
    /\ UNCHANGED <<runs, stack, views, readers, synced>>

------------------------------------------------------------------------------
(* spawn_agent_view_reader: what is there goes in one batch.  A task that is *)
(* aborted while it runs on another thread may still send once.              *)
Batch(r, n) == [kind |-> "events", key |-> r.instance, target |-> r.target,
                from |-> r.next, upto |-> Run(r).events, reader |-> n]
Send(n) ==
    LET r == readers[n] IN
    /\ r.state \in {"live", "aborted"} /\ r.next < Run(r).events
    /\ inbox' = Append(inbox, Batch(r, n))
    /\ readers' = [readers EXCEPT ![n].next = Run(r).events,
                                  ![n].state = IF @ = "live" THEN @ ELSE "over"]
    /\ UNCHANGED <<runs, stack, views, synced, inputs>>
StreamEnds(n) ==
    LET r == readers[n] IN
    /\ r.state = "live" /\ r.next = Run(r).events /\ Run(r).ended
    /\ inbox' = Append(inbox, [kind |-> "closed", key |-> r.instance, target |-> r.target])
    /\ readers' = [readers EXCEPT ![n].state = "over"]
    /\ UNCHANGED <<runs, stack, views, synced, inputs>>

------------------------------------------------------------------------------
(* ViewStack::apply and pop_for_user *)
Front1(s) == SubSeq(s, 1, Len(s) - 1)
At(key) == {k \in DOMAIN stack : stack[k].key = key}
Entry(key, target) == [key |-> key, target |-> target]

Opened_Pushed(i, n) == Append(stack, Entry(i, n))                           \* mutant
Opened(i, n) ==
    IF At(i) = {} THEN Append(stack, Entry(i, n))
    ELSE [k \in DOMAIN stack |-> IF k \in At(i) THEN Entry(i, n) ELSE stack[k]]

Navigated(e) ==
    CASE e.kind = "open" -> Opened(e.key, e.target)
      [] e.kind = "push" ->
            IF At(e.key) = {} THEN Append(stack, Entry(e.key, Page0))
            ELSE SubSeq(stack, 1, CHOOSE k \in At(e.key) : \A j \in At(e.key) : k <= j)
      [] e.kind = "replace" ->
            Append(IF stack = <<>> THEN stack ELSE Front1(stack), Entry(e.key, Page0))
      [] OTHER -> IF stack = <<>> THEN stack ELSE Front1(stack)

Arrival == synced /\ inbox # <<>> /\ inbox' = Tail(inbox) /\ synced' = FALSE
Navigate ==
    /\ Arrival /\ Head(inbox).kind \notin {"events", "closed"}
    /\ stack' = Navigated(Head(inbox))
    /\ UNCHANGED <<runs, views, readers, inputs>>

(* apply_agent_view_events, apply_agent_view_closed: what is for another    *)
(* target than the view's is dropped.                                       *)
Concerns_Any(e) == views[e.key] # NoView                                    \* mutant
Concerns(e) == views[e.key] # NoView /\ views[e.key].target = e.target
Items(e) == [k \in 1..(e.upto - e.from) |-> [reader |-> e.reader, event |-> e.from + k]]
ApplyEvents ==
    /\ Arrival /\ Head(inbox).kind = "events"
    /\ views' = IF Concerns(Head(inbox))
                THEN [views EXCEPT ![Head(inbox).key].shown = @ \o Items(Head(inbox))]
                ELSE views
    /\ UNCHANGED <<runs, stack, readers, inputs>>
ApplyClosed ==
    /\ Arrival /\ Head(inbox).kind = "closed"
    /\ views' = IF Concerns(Head(inbox)) THEN [views EXCEPT ![Head(inbox).key].closed = TRUE] ELSE views
    /\ UNCHANGED <<runs, stack, readers, inputs>>

(* sync_agent_views *)
Sessions == {stack[k] : k \in {j \in DOMAIN stack : stack[j].key \in Instance}}
Session(i) == CHOOSE s \in Sessions : s.key = i
Routed(i) == \E s \in Sessions : s.key = i
New(n) == [target |-> n, shown |-> <<>>, closed |-> FALSE, reader |-> Unsubscribed]

(* new, or replace_target *)
Retargeted_Closed(i) == IF views[i] = NoView THEN New(Session(i).target)    \* mutant
                        ELSE [views[i] EXCEPT !.target = Session(i).target, !.reader = Unsubscribed, !.shown = <<>>]
Retargeted(i) ==
    IF views[i] # NoView /\ views[i].target = Session(i).target THEN views[i] ELSE New(Session(i).target)

(* The readers a drop or a replace_target aborts. *)
Left_Running(i) == {}                                                       \* mutant
Left(i) ==
    IF views[i] # NoView /\ (~Routed(i) \/ views[i].target # Session(i).target)
    THEN {views[i].reader} ELSE {}

Wanting == {i \in Instance : Routed(i) /\ ~Retargeted(i).closed /\ Retargeted(i).reader = Unsubscribed}
Subscribing == {i \in Wanting : ~runs[i][Session(i).target].gone}
Order == SetToSeq(Subscribing)
NewReader(i) == [instance |-> i, target |-> Session(i).target, next |-> 0, state |-> "live"]

Sync ==
    /\ ~synced /\ synced' = TRUE
    /\ readers' = [n \in DOMAIN readers |->
                      IF n \in UNION {Left(i) : i \in Instance} /\ readers[n].state = "live"
                      THEN [readers[n] EXCEPT !.state = "aborted"] ELSE readers[n]]
                  \o [k \in DOMAIN Order |-> NewReader(Order[k])]
    /\ views' = [i \in Instance |->
          IF ~Routed(i) THEN NoView
          ELSE IF i \in Subscribing
          THEN [Retargeted(i) EXCEPT !.reader = Len(readers) + CHOOSE k \in DOMAIN Order : Order[k] = i]
          ELSE IF i \in Wanting THEN [Retargeted(i) EXCEPT !.closed = TRUE]
          ELSE Retargeted(i)]
    /\ UNCHANGED <<runs, stack, inbox, inputs>>

Next ==
    \/ Sync \/ Navigate \/ ApplyEvents \/ ApplyClosed
    \/ \E i \in Instance :
          RuntimeRecords(i) \/ Continue(i) \/ \E n \in 1..MaxRuns : Collect(i, n)
    \/ \E e \in Navigations : KeyPressed(e)
    \/ \E n \in DOMAIN readers : Send(n) \/ StreamEnds(n)

Spec == Init /\ [][Next]_agentViewVars

------------------------------------------------------------------------------
Upto(n) == [k \in 1..n |-> k]
Mine(v) == SelectSeq(v.shown, LAMBDA x : x.reader = v.reader)
Events(s) == [k \in DOMAIN s |-> s[k].event]
(* The same run was shown before under this instance, and left. *)
Reopened(i) ==
    \E n \in DOMAIN readers : n # views[i].reader
        /\ readers[n].instance = i /\ readers[n].target = views[i].target
Open(i) == views[i] # NoView

(* Whatever the user opens, leaves and opens again and whenever members are *)
(* continued: a view shows the events of its target from the first, without *)
(* a gap and in order, and those of no other reader.  Only when a run is    *)
(* opened a second time may events of the first time still arrive.          *)
ViewInOrder ==
    \A i \in Instance : Open(i) =>
        /\ Events(Mine(views[i])) = Upto(Len(Mine(views[i])))
        /\ ~Reopened(i) => Mine(views[i]) = views[i].shown

(* "替换目标或视图关闭时中止": no reader goes on for a view that is gone or has      *)
(* moved on to another target.                                              *)
NoStrayReader ==
    \A n \in DOMAIN readers : synced /\ readers[n].state = "live" =>
        LET i == readers[n].instance
        IN Open(i) /\ views[i].reader = n /\ views[i].target = readers[n].target

(* Once the channel is empty, each agent on the stack is there once, with   *)
(* its latest target; its reader is at work, or its run is over and shown   *)
(* in full, unless it was collected before the view could subscribe.        *)
ViewsCaughtUp ==
    synced /\ inbox = <<>> => \A i \in Instance : Routed(i) =>
        /\ Cardinality(At(i)) = 1 /\ Open(i) /\ views[i].target = Session(i).target
        /\ \/ views[i].reader # Unsubscribed /\ readers[views[i].reader].state = "live"
           \/ views[i].closed /\ runs[i][views[i].target].ended
              /\ (views[i].reader = Unsubscribed
                    \/ Len(Mine(views[i])) = runs[i][views[i].target].events)
==============================================================================
