------------------------------ MODULE ToolFrames -----------------------------
(***************************************************************************)
(* The frames with which plugins render the calls of tools in the          *)
(* timeline (app/plugin_view.rs).  A render is a task of its own: it is    *)
(* for a state of the call, a width of the screen and the plugins that     *)
(* were there when it was asked for, and its result may come back late, in *)
(* any order, when the run or the message it is for is gone.               *)
(***************************************************************************)
EXTENDS Naturals

CONSTANTS
    Call,
    Width,
    Nothing,
    MaxReady, MaxResizes, MaxRuns, MaxTicks     \* bounds

VARIABLES
    phase,       \* "idle", "running" or "stopped": running and run_stream_cancelled
    cards,       \* the message of each call
    width,       \* last_message_width
    routes,      \* how many plugins are ready
    tasks,       \* renders that are under way, or whose result waits
    swept,       \* a tick came after the last change of the screen, and no result for
                 \* another width since
    resizes, rounds, ticks

toolFrameVars == <<phase, cards, width, routes, tasks, swept, resizes, rounds, ticks>>

Absent == [state |-> "absent"]
Fresh(state, own) ==
    [state |-> state, own |-> own, revision |-> 0, pending |-> Nothing,
     frame |-> Nothing, frameWidth |-> Nothing]
Messages == {c \in Call : cards[c].state # "absent"}

Init ==
    /\ phase = "idle" /\ cards = [c \in Call |-> Absent]
    /\ width \in Width /\ routes = 0 /\ tasks = {} /\ swept = FALSE
    /\ resizes = 0 /\ rounds = 0 /\ ticks = 0

------------------------------------------------------------------------------
(* schedule_tool_render, of every call in S whose messages are cs           *)
Asked_Same(card) == [card EXCEPT !.pending = width, !.revision = IF @ = 0 THEN 1 ELSE @]   \* mutant
Asked(card) == [card EXCEPT !.pending = width, !.revision = @ + 1]
Scheduled(cs, S, r) ==
    /\ cards' = [c \in Call |-> IF c \in S THEN Asked(cs[c]) ELSE cs[c]]
    /\ tasks' = tasks \cup {[call |-> c, revision |-> Asked(cs[c]).revision, width |-> width,
                             state |-> cs[c].state, routes |-> r] : c \in S}

(* schedule_stale_tool_renders *)
Stale(cs) ==
    {c \in Call : cs[c].state # "absent" /\ cs[c].pending # width /\ cs[c].frameWidth # width}

Kept == UNCHANGED <<width, routes, resizes, rounds, ticks>>

StartRun ==
    /\ phase = "idle" /\ rounds < MaxRuns
    /\ phase' = "running" /\ rounds' = rounds + 1
    /\ UNCHANGED <<cards, width, routes, tasks, swept, resizes, ticks>>

(* ToolStarted, ToolSkipped, ToolFinished: only for output the run may show. *)
Put(c, state) ==
    /\ phase = "running"
    /\ IF state = "done" THEN cards[c].state = "running" ELSE cards[c].state = "absent"
    /\ Scheduled([cards EXCEPT ![c] = IF state = "done" THEN [@ EXCEPT !.state = state]
                                      ELSE Fresh(state, TRUE)], {c}, routes)
    /\ swept' = FALSE
    /\ UNCHANGED phase /\ Kept

(* interrupt_run: calls that run are shown as skipped. *)
Interrupt ==
    /\ phase = "running" /\ phase' = "stopped"
    /\ cards' = [c \in Call |-> IF cards[c].state = "running" THEN [cards[c] EXCEPT !.state = "skipped"]
                                ELSE cards[c]]
    /\ UNCHANGED <<tasks, swept>> /\ Kept

(* handle_agent_done: the messages are made again from the session, unless  *)
(* the user has stopped the run.                                            *)
AgentDone ==
    /\ phase # "idle" /\ phase' = "idle"
    /\ phase = "running" => \A c \in Call : cards[c].state # "running"
    /\ cards' = [c \in Call |->
          IF c \notin Messages THEN Absent
          ELSE IF phase = "stopped" THEN [cards[c] EXCEPT !.own = FALSE]
          ELSE Fresh("done", FALSE)]
    /\ swept' = FALSE
    /\ UNCHANGED tasks /\ Kept

(* ProgressivePluginLoadUpdate::Ready: invalidate_tool_frames, then render. *)
Invalid(card) ==
    [card EXCEPT !.frame = Nothing, !.frameWidth = Nothing, !.pending = Nothing, !.revision = @ + 1]
PluginReady ==
    /\ routes < MaxReady /\ routes' = routes + 1
    /\ LET cs == [c \in Call |-> IF c \in Messages THEN Invalid(cards[c]) ELSE Absent]
       IN Scheduled(cs, Stale(cs), routes')
    /\ UNCHANGED <<phase, width, swept, resizes, rounds, ticks>>

(* render_root has drawn the messages at another width.                     *)
Resize(w) ==
    /\ w # width /\ resizes < MaxResizes
    /\ width' = w /\ resizes' = resizes + 1 /\ swept' = FALSE
    /\ UNCHANGED <<phase, cards, routes, tasks, rounds, ticks>>

Tick ==
    /\ ticks < MaxTicks /\ ticks' = ticks + 1
    /\ Scheduled(cards, Stale(cards), routes)
    /\ swept' = TRUE
    /\ UNCHANGED <<phase, width, routes, resizes, rounds>>

(* ToolFrameLoaded: apply_tool_frame; nothing, when the plugin has no frame *)
(* for the call or has failed.                                              *)
Current_Message(t) == cards[t.call].state # "absent"                         \* mutant
Current(t) == cards[t.call].state # "absent" /\ cards[t.call].revision = t.revision
Loaded(t, some) ==
    /\ t \in tasks /\ tasks' = tasks \ {t}
    /\ cards' = IF phase = "running" /\ Current(t)
                THEN [cards EXCEPT ![t.call].pending = Nothing, ![t.call].frameWidth = t.width,
                          ![t.call].frame = IF some THEN [state |-> t.state, width |-> t.width,
                                                          routes |-> t.routes] ELSE Nothing]
                ELSE cards
    /\ swept' = (swept /\ (cards' = cards \/ t.width = width))
    /\ UNCHANGED phase /\ Kept

Next ==
    \/ StartRun \/ Interrupt \/ AgentDone \/ PluginReady \/ Tick
    \/ \E c \in Call, state \in {"running", "skipped", "done"} : Put(c, state)
    \/ \E w \in Width : Resize(w)
    \/ \E t \in tasks, some \in BOOLEAN : Loaded(t, some)

Spec == Init /\ [][Next]_toolFrameVars

------------------------------------------------------------------------------
Waits(c) == \E t \in tasks : t.call = c
Settled(c) ==
    /\ cards[c].frame # Nothing =>
          /\ cards[c].frame.state = cards[c].state
          /\ cards[c].frame.routes = routes
    /\ cards[c].pending = Nothing
    /\ swept => cards[c].frameWidth = width

(* "以调用 ID 与版本区分": while a run goes on, a call it has made is shown, once  *)
(* its renders have come back in whatever order, with the frame of its last *)
(* state from the plugins that are there now.  A result may be for a width  *)
(* the screen has no more, also when it was asked for before the frame of   *)
(* the width of now was there; the next tick puts that right.               *)
FrameOfLastState ==
    phase = "running" => \A c \in Messages : cards[c].own /\ ~Waits(c) => Settled(c)

(* "对没有当前宽度帧的工具消息发起渲染", for every message on screen: does not hold.   *)
(* A result that comes back while no run accepts output is dropped, and its *)
(* message waits for it ever after; revisions begin anew with the messages  *)
(* that are made from the session, so that a late result of the earlier     *)
(* message may be taken for theirs.                                         *)
EveryMessageRendered == swept => \A c \in Messages : ~Waits(c) => Settled(c)

-----------------------------------------------------------------------------
(* What makes FrameOfLastState inductive.                                  *)
States == {"running", "skipped", "done"}
Frames == [state : States, width : Width, routes : Nat]
Card == [state : States, own : BOOLEAN, revision : Nat, pending : Width \cup {Nothing},
         frame : Frames \cup {Nothing}, frameWidth : Width \cup {Nothing}]

CardTypes ==
    /\ phase \in {"idle", "running", "stopped"} /\ width \in Width /\ routes \in Nat
    /\ swept \in BOOLEAN /\ cards \in [Call -> Card \cup {Absent}]
    /\ tasks \subseteq [call : Call, revision : Nat, width : Width, state : States,
                        routes : Nat]

\* Only a run has calls of its own, and renders are asked for of messages.
OwnInRun ==
    /\ phase = "idle" => \A c \in Messages : ~cards[c].own
    /\ \A t \in tasks : t.call \in Messages

\* The call is waiting for one render, the last that was asked for, of what is to be
\* shown; or for none that counts.
AskedLast(c) == LET card == cards[c] IN
    /\ \A t \in tasks : t.call = c =>
          /\ t.revision <= card.revision
          /\ t.revision = card.revision =>
                t.state = card.state /\ t.routes = routes /\ t.width = card.pending
    /\ card.pending # Nothing => \E t \in tasks : t.call = c /\ t.revision = card.revision
    /\ card.pending = Nothing /\ card.frame # Nothing =>
          card.frame.state = card.state /\ card.frame.routes = routes
    /\ swept => card.pending = width \/ card.frameWidth = width

LatestAsked == phase = "running" => \A c \in Messages : cards[c].own => AskedLast(c)

FrameInv == CardTypes /\ OwnInRun /\ LatestAsked
==============================================================================
