--------------------------- MODULE AgentTranscript ---------------------------
(***************************************************************************)
(* The same records in the view of another agent: app/agent_view.rs.  They *)
(* arrive as they are, in order (AgentViews); while they do, the user      *)
(* writes to the agent, leaves the view and returns, the plugin adds a     *)
(* remark, and the agent is continued by another run under a new handle.   *)
(***************************************************************************)
EXTENDS Transcript

CONSTANT MaxRemarks     \* bound: messages and remarks added to the view

VARIABLES
    applied,     \* how many of the records have been applied
    view,        \* the messages, see Transcript
    closed,
    active,      \* the view is the one on screen
    cut,         \* the user wrote in the middle of the attempt under way
    mixed,       \* and the attempt was withdrawn after that
    remarks

viewVars == <<log, phase, applied, view, closed, active, cut, mixed, remarks>>

Init ==
    /\ log = <<>> /\ phase = "idle"
    /\ applied = 0 /\ view = Empty /\ closed = FALSE /\ active = TRUE
    /\ cut = FALSE /\ mixed = FALSE /\ remarks = 0

------------------------------------------------------------------------------
Record(e) == Emit(e) /\ UNCHANGED <<applied, view, closed, active, cut, mixed, remarks>>

(* apply_event *)
ApplyEvent(e, at) ==
    CASE e.kind = "delta" -> [view EXCEPT !.pending = Append(@, at)]
      [] e.kind = "retry" -> Retry(view)
      [] e.kind \in {"request", "finish"} -> Boundary(view)
      [] e.kind = "start" -> Put(Boundary(view), Card(e.call, "running"))
      [] e.kind = "skip" -> Put(Boundary(view), Card(e.call, "skipped"))
      [] e.kind = "output" -> Write(view, e.call, at)
      [] e.kind = "done" -> FinishTool(view, e.call)
      [] OTHER -> view

(* apply_agent_view_events, one event at a time: of a batch for a view that *)
(* is not on screen the text is shown at once.                              *)
Apply ==
    /\ applied < Len(log) /\ ~closed
    /\ LET at == applied + 1
           t == ApplyEvent(log[at], at)
       IN /\ view' = IF active THEN t ELSE Flush(t)
          /\ applied' = at
          /\ mixed' = (mixed \/ (cut /\ log[at].kind = "retry"))
          /\ cut' = (cut /\ log[at].kind \notin Ends)
    /\ UNCHANGED <<log, phase, closed, active, remarks>>

RevealFrame(n) ==
    /\ active /\ n \in 1..Len(view.pending)
    /\ view' = Reveal(view, n)
    /\ UNCHANGED <<log, phase, applied, closed, active, cut, mixed, remarks>>

(* Another view is opened over this one, or it comes back on top; the next  *)
(* sync_agent_views completes what is hidden.                               *)
Hide ==
    /\ active /\ active' = FALSE
    /\ view' = Flush(view)
    /\ UNCHANGED <<log, phase, applied, closed, cut, mixed, remarks>>
Return ==
    /\ ~active /\ active' = TRUE
    /\ UNCHANGED <<log, phase, applied, view, closed, cut, mixed, remarks>>

(* record_user_message *)
Submit ==
    /\ active /\ remarks < MaxRemarks
    /\ view' = Put(Boundary(view), Note)
    /\ cut' = (cut \/ Flush(view).streaming # 0)
    /\ remarks' = remarks + 1
    /\ UNCHANGED <<log, phase, applied, closed, active, mixed>>

(* apply_notice, push_info *)
Remark ==
    /\ remarks < MaxRemarks
    /\ view' = Put(Flush(view), Note)
    /\ remarks' = remarks + 1
    /\ UNCHANGED <<log, phase, applied, closed, active, cut, mixed>>

(* mark_closed, when the stream has ended; the error of a run that failed.  *)
Close(failed) ==
    /\ phase = "over" /\ applied = Len(log) /\ ~closed
    /\ closed' = TRUE
    /\ view' = IF failed THEN Put(Boundary(view), Note) ELSE Boundary(view)
    /\ UNCHANGED <<log, phase, applied, active, cut, mixed, remarks>>

(* replace_target: the next run of the member, on the same list.            *)
Continue ==
    /\ phase = "over" /\ applied = Len(log)
    /\ phase' = "idle"
    /\ view' = Boundary(view) /\ closed' = FALSE
    /\ UNCHANGED <<log, applied, active, cut, mixed, remarks>>

Next ==
    \/ \E e \in Records : Record(e)
    \/ Apply \/ Hide \/ Return \/ Submit \/ Remark \/ Continue
    \/ \E failed \in BOOLEAN : Close(failed)
    \/ \E n \in 1..MaxRecords : RevealFrame(n)

Spec == Init /\ [][Next]_viewVars

------------------------------------------------------------------------------
(* "上下文中断不会让屏幕上的历史消失": at every moment the view, with what it has   *)
(* yet to reveal, shows what was applied of all runs of the member, in order; *)
(* withdrawn text only where the user wrote in the middle of it.             *)
ViewShowsRuns == ~mixed => Shows(Flush(view), SubSeq(log, 1, applied))

(* "不改变滚动位置，也不丢弃已收到的事件": nothing waits to be revealed in a view   *)
(* that is closed or not on screen, where no frame clock runs.               *)
NothingHeldBack == closed \/ ~active => view.pending = <<>>

(* "已展示的失败增量不能混入下一次成功回答", for every history: does not hold, since *)
(* record_user_message lets go of the message that streams.                  *)
NothingWithdrawnStays == Shows(Flush(view), SubSeq(log, 1, applied))
==============================================================================
