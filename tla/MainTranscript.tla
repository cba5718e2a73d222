---------------------------- MODULE MainTranscript ---------------------------
(***************************************************************************)
(* From the records of a run to the main conversation on screen: the sink  *)
(* of the application (app/event_sink.rs) collects text and output of      *)
(* tools in batches and announces each by one event; the event loop        *)
(* (startup.rs) takes them in the order of the channel, however late.      *)
(*                                                                         *)
(* record() and each handler are one step: the locks of the two buffers    *)
(* are held for single operations only, and record() awaits nothing.       *)
(* Messages of earlier runs are left out.                                  *)
(***************************************************************************)
EXTENDS Transcript

CONSTANT MaxNotes     \* bound: the notes added to one run's messages

VARIABLES
    batches,     \* of "text" and "tool": what waits to be taken
    open,        \* of each: whether the last batch still takes more
    inbox,       \* the channel of the event loop
    shown,       \* the messages, see Transcript
    running,
    streamCancelled,
    notes

mainVars == <<log, phase, batches, open, inbox, shown, running, streamCancelled, notes>>

Buffer == {"text", "tool"}
Plain(k) == [kind |-> k, call |-> NoCall]
Ready(b) == Plain(IF b = "text" THEN "text ready" ELSE "tool ready")

Init ==
    /\ log = <<>> /\ phase = "idle"
    /\ batches = [b \in Buffer |-> <<>>] /\ open = [b \in Buffer |-> FALSE]
    /\ inbox = <<>> /\ shown = Empty
    /\ running = FALSE /\ streamCancelled = FALSE /\ notes = 0

Accepts == running /\ ~streamCancelled

------------------------------------------------------------------------------
(* start_input_run *)
StartRun ==
    /\ ~running /\ phase = "idle" /\ log = <<>>
    /\ running' = TRUE /\ streamCancelled' = FALSE
    /\ shown' = Put(Empty, Note) /\ notes' = 0
    /\ UNCHANGED <<log, phase, batches, open, inbox>>

(* ModelDeltaBuffer::push, ToolOutputBuffer::push *)
Push(b, at) ==
    /\ batches' = [batches EXCEPT ![b] =
          IF open[b] THEN [@ EXCEPT ![Len(@)] = Append(@, at)] ELSE Append(@, <<at>>)]
    /\ open' = [open EXCEPT ![b] = TRUE]
    /\ inbox' = IF open[b] THEN inbox ELSE Append(inbox, Ready(b))

(* Which records close which batch. *)
Seals_Responses(e) == IF e.kind \in {"done", "finish"} THEN {"tool"} ELSE {} \* mutant
Seals(e) ==
    (IF e.kind \in {"start", "done", "skip", "finish"} THEN {"tool"} ELSE {})
    \cup (IF e.kind \in {"request", "retry", "response", "start", "skip", "finish"} THEN {"text"} ELSE {})

(* ChannelEventSink::record; a response and the end send nothing to the list. *)
Record(e) ==
    /\ running /\ Emit(e)
    /\ CASE e.kind = "delta" -> Push("text", Len(log'))
         [] e.kind = "output" -> Push("tool", Len(log'))
         [] OTHER ->
               /\ open' = [b \in Buffer |-> open[b] /\ b \notin Seals(e)]
               /\ inbox' = IF e.kind \in {"response", "finish"} THEN inbox ELSE Append(inbox, e)
               /\ UNCHANGED batches
    /\ UNCHANGED <<shown, running, streamCancelled, notes>>

(* run_and_persist has saved the run. *)
Done ==
    /\ phase = "over"
    /\ phase' = "stored"
    /\ inbox' = Append(inbox, Plain("agent done"))
    /\ UNCHANGED <<log, batches, open, shown, running, streamCancelled, notes>>

------------------------------------------------------------------------------
(* take *)
Take_All(b) ==
    /\ batches' = [batches EXCEPT ![b] = <<>>]                              \* mutant
    /\ open' = [open EXCEPT ![b] = FALSE]
Take(b) ==
    /\ batches' = [batches EXCEPT ![b] = IF @ = <<>> THEN @ ELSE Tail(@)]
    /\ open' = [open EXCEPT ![b] = @ /\ Len(batches[b]) > 1]
Taken(b) == IF batches[b] = <<>> THEN <<>> ELSE Head(batches[b])

(* queue_model_delta *)
TextReady ==
    /\ Take("text")
    /\ shown' = IF Accepts THEN [shown EXCEPT !.pending = @ \o Taken("text")] ELSE shown
ToolReady ==
    /\ Take("tool")
    /\ shown' = IF Accepts
                THEN FoldLeft(LAMBDA t, at : Write(t, log[at].call, at), shown, Taken("tool"))
                ELSE shown

Shown(e) ==
    CASE e.kind = "request" -> Boundary(shown)
      [] e.kind = "retry" -> Retry(shown)
      [] e.kind = "start" -> Put(Boundary(shown), Card(e.call, "running"))
      [] e.kind = "skip" -> Put(Boundary(shown), Card(e.call, "skipped"))
      [] OTHER -> FinishTool(shown, e.call)

(* Without a run that accepts output the rest of the buffer is forgotten. *)
FlushMain(t) == IF Accepts THEN Flush(t) ELSE [t EXCEPT !.pending = <<>>]

(* The event loop handles the next event. *)
Handle ==
    /\ inbox # <<>> /\ Head(inbox).kind # "agent done"
    /\ inbox' = Tail(inbox)
    /\ CASE Head(inbox).kind = "text ready" -> TextReady
         [] Head(inbox).kind = "tool ready" -> ToolReady
         [] OTHER -> /\ shown' = IF Accepts THEN Shown(Head(inbox)) ELSE shown
                     /\ UNCHANGED <<batches, open>>
    /\ UNCHANGED <<log, phase, running, streamCancelled, notes>>

(* handle_agent_done: the list is restored from the session, but stays as   *)
(* it was when the user stopped the run or the run brought nothing.         *)
(* streamCancelled is kept until the next run here.                         *)
Preserved_Failed(failed) == failed                                          \* mutant
Preserved(failed) == streamCancelled \/ failed
AgentDone(failed) ==
    /\ inbox # <<>> /\ Head(inbox).kind = "agent done"
    /\ inbox' = Tail(inbox)
    /\ shown' = IF Preserved(failed) THEN [FlushMain(shown) EXCEPT !.streaming = 0] ELSE Empty
    /\ running' = FALSE /\ log' = <<>> /\ phase' = "idle"
    /\ UNCHANGED <<batches, open, streamCancelled, notes>>

(* One frame. *)
RevealFrame(n) ==
    /\ n \in 1..Len(shown.pending)
    /\ shown' = IF Accepts THEN Reveal(shown, n) ELSE [shown EXCEPT !.pending = <<>>]
    /\ UNCHANGED <<log, phase, batches, open, inbox, running, streamCancelled, notes>>

(* interrupt_run *)
Interrupt ==
    /\ running /\ ~streamCancelled
    /\ streamCancelled' = TRUE
    /\ shown' = LET t == Boundary(shown) IN
          Put([t EXCEPT !.items = [i \in DOMAIN @ |->
                  IF @[i].kind = "tool" /\ @[i].state = "running"
                  THEN [@[i] EXCEPT !.state = "skipped"] ELSE @[i]]], Note)
    /\ UNCHANGED <<log, phase, batches, open, inbox, running, notes>>

(* Errors, hints and events of plugins, between two events of the run. *)
AddNote ==
    /\ Accepts /\ notes < MaxNotes
    /\ notes' = notes + 1 /\ shown' = Put(shown, Note)
    /\ UNCHANGED <<log, phase, batches, open, inbox, running, streamCancelled>>

Next ==
    \/ StartRun \/ Done \/ Handle \/ Interrupt \/ AddNote
    \/ \E e \in Records : Record(e)
    \/ \E failed \in BOOLEAN : AgentDone(failed)
    \/ \E n \in 1..MaxRecords : RevealFrame(n)

Spec == Init /\ [][Next]_mainVars

------------------------------------------------------------------------------
(* "不能跨过结构事件读走未来正文", "保证输出不乱序、不丢失": when the event loop has  *)
(* caught up, the screen shows what the run recorded, in order: the text of  *)
(* the attempts that were not withdrawn, before the calls that followed it,  *)
(* and under each call its own output.                                       *)
ScreenShowsRun ==
    Accepts /\ inbox = <<>> => Shows(Flush(shown), log)

(* Each batch has its event under way, so that no text waits for the next. *)
EachBatchAnnounced ==
    \A b \in Buffer : Len(batches[b]) = Len(SelectSeq(inbox, LAMBDA e : e = Ready(b)))

(* "用户请求取消后立即拒绝迟到增量", from the moment the user stops the run until  *)
(* the next one starts, though records keep coming in and the run ends.      *)
StaysWhenStopped == streamCancelled /\ streamCancelled' => shown'.items = shown.items
FrozenWhenStopped == [][StaysWhenStopped]_mainVars
==============================================================================
