------------------------------ MODULE ViewFrames -----------------------------
(***************************************************************************)
(* The frames of the views that plugins declare (app/plugin_view.rs,       *)
(* ui/plugin_bridge.rs): a refresh asks all visible views in one batch     *)
(* that runs beside the event loop, an input asks single views and waits   *)
(* for them.  An answer is the number of the request it is for, which is   *)
(* all that tells an answer from an older one; a new session, an input or  *)
(* a later state of the plugin is a later request here.                    *)
(*                                                                         *)
(* The batch sends its answers one by one into the FIFO channel, then its  *)
(* end; an answer is handled when it is taken from renders.                *)
(***************************************************************************)
EXTENDS Naturals, FiniteSets

CONSTANTS
    View,        \* docked views
    Sub,         \* the subview that may cover them
    MaxNumber    \* bound: requests

VARIABLES
    number,      \* plugin_frame
    marks,       \* plugin_view_requests; 0: no entry
    shown,       \* the frame of each view; 0: none
    refreshing,  \* plugin_refresh_task is there
    pending,     \* plugin_refresh_pending
    renders,     \* answers of batches that were not handled
    top,         \* of the stack: "main", the subview "plugin", or an "agent"
    asked        \* of each docked view: the first number that is later than the last ask

(* The subview is none of the docked views. *)
ViewsApart == Sub \notin View

frameVars == <<number, marks, shown, refreshing, pending, renders, top, asked>>

Views == View \cup {Sub}

FramesInit ==
    /\ number = 0 /\ marks = [v \in Views |-> 0] /\ shown = [v \in Views |-> 0]
    /\ refreshing = FALSE /\ pending = FALSE /\ renders = {}
    /\ top = "main" /\ asked = [v \in View |-> 0]

------------------------------------------------------------------------------
(* mark_plugin_render_requests *)
Marked(S, n) ==
    [v \in Views |-> IF v \in S THEN n ELSE IF v = Sub /\ top # "plugin" THEN 0 ELSE marks[v]]

(* periodic_plugin_render_requests *)
Periodic == CASE top = "main" -> View [] top = "plugin" -> {Sub} [] OTHER -> {}

(* schedule_plugin_views_refresh: start a batch, or let it follow this one. *)
StartBatch ==
    /\ number' = number + 1 /\ refreshing' = (Periodic # {})
    /\ marks' = IF Periodic = {} THEN marks ELSE Marked(Periodic, number + 1)
    /\ renders' = renders \cup {[view |-> v, number |-> number + 1] : v \in Periodic}
Schedule_Drops ==                                                            \* mutant
    IF refreshing THEN UNCHANGED <<number, marks, renders, refreshing, pending>>
    ELSE StartBatch /\ UNCHANGED pending
Schedule_Twice == StartBatch /\ UNCHANGED pending                            \* mutant
Schedule ==
    IF refreshing THEN pending' = TRUE /\ UNCHANGED <<number, marks, renders, refreshing>>
    ELSE StartBatch /\ UNCHANGED pending

(* A tick, a switch of the session, the end of a run, a plugin that is ready. *)
Refresh ==
    /\ number < MaxNumber
    /\ Schedule
    /\ asked' = IF top = "main" THEN [v \in View |-> number + 1] ELSE asked
    /\ UNCHANGED <<shown, top>>

(* apply_rendered_request, update_plugin_frame: an answer to the last request *)
(* of its view; of the subview only while it is there.                        *)
Current_Any(r) == TRUE                                                       \* mutant
Current(r) == marks[r.view] = r.number
Updated(r) ==
    IF Current(r) /\ (r.view = Sub => top = "plugin") THEN [shown EXCEPT ![r.view] = r.number] ELSE shown

(* PluginFrameLoaded; a plugin that answers nothing leaves its frame.       *)
FrameLoaded(r, some) ==
    /\ r \in renders
    /\ renders' = renders \ {r}
    /\ shown' = IF some THEN Updated(r) ELSE shown
    /\ asked' = [v \in View |-> IF v = r.view /\ ~some THEN 0 ELSE asked[v]]
    /\ UNCHANGED <<number, marks, refreshing, pending, top>>

(* PluginFramesLoaded *)
FramesLoaded ==
    /\ refreshing /\ renders = {}
    /\ pending' = FALSE
    /\ IF pending THEN number < MaxNumber /\ StartBatch
       ELSE refreshing' = FALSE /\ UNCHANGED <<number, marks, renders>>
    /\ UNCHANGED <<shown, top, asked>>

(* refresh_plugin_view, refresh_plugin_views_for: the event loop waits.     *)
Direct(S, some) ==
    /\ number < MaxNumber
    /\ number' = number + 1
    /\ marks' = Marked(S, number + 1)
    /\ shown' = [v \in Views |-> IF v \in S /\ some THEN number + 1 ELSE shown[v]]
    /\ asked' = [v \in View |-> IF v \in S /\ ~some THEN 0 ELSE asked[v]]
    /\ UNCHANGED <<refreshing, pending, renders, top>>

(* A subview is opened or left; its entry of the stack has its frame.       *)
Navigate(to) ==
    /\ to # top /\ top' = to
    /\ shown' = [shown EXCEPT ![Sub] = 0]
    /\ asked' = [v \in View |-> 0]
    /\ UNCHANGED <<number, marks, refreshing, pending, renders>>

FramesNext ==
    \/ Refresh \/ FramesLoaded
    \/ \E to \in {"main", "plugin", "agent"} : Navigate(to)
    \/ \E r \in renders, some \in BOOLEAN : FrameLoaded(r, some)
    \/ \E S \in {{v} : v \in View} \cup {View} \cup (IF top = "plugin" THEN {{Sub}} ELSE {}),
         some \in BOOLEAN : Direct(S, some)

FramesSpec == FramesInit /\ [][FramesNext]_frameVars

------------------------------------------------------------------------------
(* However the answers of a batch and of single requests overtake each      *)
(* other, no view goes back to the answer of an older request.              *)
NoFrameGoesBack == \A v \in Views : shown'[v] = 0 \/ shown'[v] >= shown[v]
FramesAdvance == [][NoFrameGoesBack]_frameVars

(* "保证任一时刻至多存在一个渲染批次". *)
OneBatch == \A r, s \in renders : r.number = s.number

(* "会话级插件状态必须立刻切换，不能等周期刷新": when nothing is under way, every     *)
(* docked view shows the answer to a request not older than the last time   *)
(* that a refresh was asked for, unless its plugin has nothing to show, or   *)
(* a subview has covered the views since.                                   *)
AskedIsShown == ~refreshing => \A v \in View : shown[v] >= asked[v]

(* The three together: the views of plugins advance, and get where they were *)
(* asked to be (plugin_view.rs, plugin_bridge.rs).                           *)
FramesSound == [](OneBatch /\ AskedIsShown) /\ [][NoFrameGoesBack]_frameVars
==============================================================================
