---------------------------- MODULE TerminalRuns ----------------------------
(***************************************************************************)
(* The terminal application (crates/agent-tui/src): what becomes of the    *)
(* messages a user writes.  A message is a draft, waits for its            *)
(* attachments, is queued, is sent ahead of the queue, or belongs to the   *)
(* run; run_and_persist saves it to the session, runs the agent and saves  *)
(* the answer.  At the same time a reload may compact the session, a title *)
(* may be written to it, another process may save it, and the user or a    *)
(* plugin may leave it.  The event loop handles one event at a time; the   *)
(* tasks report to it in any order.                                        *)
(*                                                                         *)
(* A record of a session is its revision, the messages and answers it      *)
(* holds, and its title.  The store is the one of SessionStore.            *)
(***************************************************************************)
EXTENDS Naturals, SequencesExt, FiniteSetsExt

CONSTANTS
    Input,              \* submissions
    None,
    Ids,                \* bounds of the model: sessions,
    MaxReloads,         \* reloads,
    MaxFaults           \* saves that fail, and saves of other processes

\* What the proofs ask of the constants.
ASSUME TerminalAssumption == None \notin Input /\ Ids \in Nat \ {0}

VARIABLES
    draft, job, ready,  \* the editor: its text, attachment_job, mentioned_attachments_ready
    reading,            \* attachment jobs whose result was not handled yet
    queue,              \* queued_inputs
    queuedRun,          \* queued_run_active
    paused,             \* queue_paused
    immediate,          \* immediate_input
    run,                \* the run and its task; App::running
    streamCut,          \* run_stream_cancelled
    canStop,            \* run_cancellation is there
    rec,                \* session_record
    reload,             \* pending_reload and its task
    titling,            \* titles being generated: the session, what they are about
    titled, attempted,  \* pending_session_title, title_attempted
    store,              \* the session store
    used,               \* ids that were given out
    reloads, faults,
    plugins,            \* whether plugins ask for new sessions and reloads
    typed,              \* messages that were written
    dropped,            \* messages and answers the user has given up
    wiped,              \* those a reload or a plugin took away with the session they were in
    answers,            \* messages that were answered
    halted,             \* the user stopped the run and sent nothing since
    crossed,            \* a session was left, or a reload begun, before the run or reload ended
    foreign             \* saves that failed, or came from elsewhere

editor  == <<draft, job, ready, reading>>
waiting == <<queue, queuedRun, paused, immediate>>
task    == <<run, streamCut, canStop>>
title   == <<titling, titled, attempted>>
bounds  == <<reloads, faults>>
history == <<plugins, typed, dropped, wiped, answers, halted, crossed, foreign>>
vars == <<editor, waiting, task, rec, reload, title, store, used, bounds, history>>

Id == 1..Ids
Slots == 1..2           \* SLOTS

Blank(id) == [id |-> id, rev |-> 0, said |-> {}, answered |-> {}, title |-> None]
NoRun == [phase |-> "none"]
Nothing == [phase |-> "none"]
Running == run.phase # "none"
Reloading == reload.phase # "none"

Init ==
    /\ draft = None /\ job = None /\ ready = FALSE /\ reading = {}
    /\ queue = <<>> /\ queuedRun = FALSE /\ paused = FALSE /\ immediate = None
    /\ run = NoRun /\ streamCut = FALSE /\ canStop = FALSE
    /\ rec = Blank(1) /\ reload = Nothing
    /\ titling = {} /\ titled = None /\ attempted = None
    /\ store = [id \in Id |-> Blank(id)] /\ used = {1}
    /\ reloads = 0 /\ faults = 0
    /\ plugins \in BOOLEAN /\ typed = {} /\ dropped = {} /\ wiped = {} /\ answers = {}
    /\ halted = FALSE /\ crossed = FALSE /\ foreign = FALSE

\* SessionId::generate
NewId == {id \in Id \ used : id = Min(Id \ used)}

-----------------------------------------------------------------------------
(* Saves.                                                                  *)

Stored(r) == [r EXCEPT !.rev = @ + 1]
InStep(r) == store[r.id].rev = r.rev        \* the expected revision is there
Put(r) == store' = [store EXCEPT ![r.id] = Stored(r)]
CanFail == faults < MaxFaults
\* A failure counts against the bound, a conflict does not.
Note(free) == IF free THEN UNCHANGED <<faults, foreign>>
                  ELSE faults' = faults + 1 /\ foreign' = TRUE
Fail == Note(FALSE) /\ UNCHANGED store

\* save_session_record_reconciled: a save that took place but returned an error
\* is found by reading it back, and counts as a success.
SaveOk(r) == InStep(r) /\ Put(r) /\ Note(TRUE)
SaveFails(r) == \/ ~InStep(r) /\ Note(TRUE) /\ UNCHANGED store
                \/ CanFail /\ Fail

\* Another process of the application saves the session.
OtherSave ==
    /\ CanFail /\ faults' = faults + 1 /\ foreign' = TRUE
    /\ \E id \in Id : /\ store[id].rev > 0
                      /\ store' = [store EXCEPT ![id].rev = @ + 1]
    /\ UNCHANGED <<plugins, typed, editor, waiting, task, rec, reload, title, used, reloads,
                   dropped, wiped, answers, halted, crossed>>

-----------------------------------------------------------------------------
(* Sending and stopping.                                                   *)

\* start_input_run
Start(i, fromQueue) ==
    /\ run' = [phase |-> "first", input |-> i, rec |-> rec', stop |-> FALSE,
               cancel |-> FALSE]
    /\ queuedRun' = fromQueue /\ paused' = FALSE
    /\ streamCut' = FALSE /\ canStop' = TRUE

\* pause_immediate_input
Requeued_Unchecked == <<immediate>> \o queue  \* mutant
Requeued == IF immediate = None THEN queue ELSE <<immediate>> \o queue

\* interrupt_run, apart from the queue and the immediate input
Interrupt ==
    /\ paused' = TRUE
    /\ run' = IF run.phase = "done" THEN run
              ELSE [run EXCEPT !.stop = @ \/ canStop,
                               !.cancel = @ \/ (~streamCut /\ run.phase = "model")]
    /\ streamCut' = TRUE
    /\ UNCHANGED <<queuedRun, canStop>>

\* take_submission: the draft leaves the editor, the job is invalid
TakeDraft == draft' = None /\ job' = None /\ ready' = FALSE

\* send_immediate_submission
SendNow(i) ==
    /\ immediate = None
    /\ rec' = rec /\ halted' = FALSE
    /\ \/ Running /\ Interrupt /\ immediate' = i
       \/ ~Running /\ Start(i, FALSE) /\ UNCHANGED immediate

\* The user types a message.
Type(i) ==
    /\ draft = None
    /\ draft' = i /\ job' = None /\ ready' = FALSE
    /\ i \notin typed /\ typed' = typed \cup {i}
    /\ UNCHANGED <<reading, waiting, task, rec, reload, title, store, used, bounds, plugins,
                   dropped, wiped, answers, halted, crossed, foreign>>

\* Enter and Ctrl+Enter: defer_attachment_submission.  A second Enter raises the
\* same job; at the limit of jobs the draft stays where it is.
Enter(now) ==
    /\ draft # None /\ ~ready /\ ~Reloading
    /\ now => immediate = None
    /\ \/ job # None /\ job' = [job EXCEPT !.now = @ \/ now] /\ UNCHANGED reading
       \/ /\ job = None /\ Slots \ reading # {}
          /\ LET n == Min(Slots \ reading)
             IN job' = [n |-> n, now |-> now] /\ reading' = reading \cup {n}
    /\ IF now /\ Running THEN Interrupt /\ halted' = FALSE
       ELSE UNCHANGED <<paused, queuedRun, task, halted>>
    /\ UNCHANGED <<plugins, typed, draft, ready, queue, immediate, rec, reload, title,
                   store, used, bounds, dropped, wiped, answers, crossed, foreign>>

\* With ready set, the draft is sent at once.
EnterReady(now) ==
    /\ draft # None /\ ready /\ ~Reloading
    /\ TakeDraft
    /\ \/ now /\ SendNow(draft) /\ UNCHANGED queue
       \/ ~now /\ Running /\ queue' = Append(queue, draft)
          /\ UNCHANGED <<queuedRun, paused, immediate, task, rec, halted>>
       \/ ~now /\ ~Running /\ rec' = rec /\ Start(draft, FALSE) /\ halted' = FALSE
          /\ UNCHANGED <<queue, immediate>>
    /\ UNCHANGED <<plugins, typed, reading, reload, title, store, used, bounds, dropped,
                   wiped, answers, crossed, foreign>>

\* AttachmentsPrepared: apply_prepared_attachments
Prepared(n, ok) ==
    /\ n \in reading /\ reading' = reading \ {n}
    /\ IF job = None \/ job.n # n
       THEN UNCHANGED <<draft, job, ready, waiting, task, rec, halted, crossed>>
       ELSE IF ~ok
       THEN /\ job' = None /\ ready' = FALSE
            /\ UNCHANGED <<draft, waiting, task, rec, halted, crossed>>
       ELSE \/ /\ job.now /\ ~Reloading /\ immediate # None
               /\ job' = None /\ ready' = TRUE
               /\ UNCHANGED <<draft, waiting, task, rec, halted, crossed>>
            \/ /\ job.now /\ ~Reloading /\ TakeDraft /\ SendNow(draft)
               /\ UNCHANGED <<queue, crossed>>
            \/ /\ ~job.now /\ ~Running /\ ~Reloading /\ TakeDraft
               /\ rec' = rec /\ Start(draft, FALSE) /\ halted' = FALSE
               /\ UNCHANGED <<queue, immediate, crossed>>
            \/ /\ Reloading \/ (~job.now /\ Running)
               /\ TakeDraft /\ queue' = Append(queue, draft)
               /\ crossed' = (crossed \/ Reloading)
               /\ UNCHANGED <<queuedRun, paused, immediate, task, rec, halted>>
    /\ UNCHANGED <<plugins, typed, reload, title, store, used, bounds, dropped, wiped,
                   answers, foreign>>

\* Esc or Ctrl+C: the job goes first, then the run, then the draft.
Escape ==
    /\ \/ /\ job # None /\ job' = None /\ ready' = FALSE
          /\ UNCHANGED <<draft, waiting, task, halted, dropped>>
       \/ /\ job = None /\ Running /\ Interrupt
          /\ queue' = Requeued /\ immediate' = None /\ halted' = TRUE
          /\ UNCHANGED <<draft, job, ready, dropped>>
       \/ /\ job = None /\ ~Running /\ draft # None
          /\ TakeDraft /\ dropped' = dropped \cup {draft}
          /\ UNCHANGED <<waiting, task, halted>>
    /\ UNCHANGED <<wiped, plugins, typed, reading, rec, reload, title, store, used, bounds,
                   answers, crossed, foreign>>

-----------------------------------------------------------------------------
(* The queue panel.                                                        *)

Without_Copy(k) == queue  \* mutant
Without(k) == RemoveAt(queue, k)

\* send_selected_queued
QueueSend(k) ==
    /\ ~Reloading /\ k \in 1..Len(queue)
    /\ IF Running
       THEN /\ queue' = <<queue[k]>> \o Without(k)
            /\ UNCHANGED <<queuedRun, paused, immediate, task, rec, halted>>
       ELSE /\ queue' = Without(k) /\ rec' = rec /\ Start(queue[k], FALSE)
            /\ halted' = FALSE /\ UNCHANGED immediate
    /\ UNCHANGED <<plugins, typed, editor, reload, title, store, used, bounds, dropped,
                   wiped, answers, crossed, foreign>>

\* send_selected_queued_immediate
QueueSendNow(k) ==
    /\ ~Reloading /\ k \in 1..Len(queue)
    /\ queue' = Without(k) /\ SendNow(queue[k])
    /\ UNCHANGED <<plugins, typed, editor, reload, title, store, used, bounds, dropped,
                   wiped, answers, crossed, foreign>>

\* remove_selected_queued
QueueDelete(k) ==
    /\ k \in 1..Len(queue)
    /\ queue' = Without(k) /\ dropped' = dropped \cup {queue[k]}
    /\ UNCHANGED <<wiped, plugins, typed, editor, queuedRun, paused, immediate, task, rec,
                   reload, title, store, used, bounds, answers, halted, crossed, foreign>>

\* edit_queued_input: a draft goes to the end of the queue, and the command has no
\* effect while that draft still needs its attachments.
QueueEdit(k) ==
    /\ k \in 1..Len(queue)
    /\ draft # None => ready
    /\ queue' = RemoveAt(IF draft = None THEN queue ELSE Append(queue, draft), k)
    /\ draft' = queue[k] /\ job' = None /\ ready' = FALSE
    /\ UNCHANGED <<reading, queuedRun, paused, immediate, task, rec, reload, title, store,
                   used, bounds, history>>

-----------------------------------------------------------------------------
(* Sessions.                                                               *)

Pending == ToSet(queue) \cup ({draft, immediate} \ {None})

\* replace_session; a run that is under way goes on, but it can no longer be
\* told through run_cancellation.
Replace(r) ==
    /\ rec' = r
    /\ job' = None /\ ready' = FALSE
    /\ queue' = <<>> /\ queuedRun' = FALSE /\ paused' = FALSE /\ immediate' = None
    /\ streamCut' = FALSE /\ canStop' = FALSE /\ titled' = None

MayLeave == plugins \/ ~Running

\* What is only in memory goes with the session: an answer that could not be saved.
Unsaved == (rec.said \ store[rec.id].said) \cup (rec.answered \ store[rec.id].answered)

\* NewSession, /new, /clear: start_new_draft.  Resume: resume_native_session and
\* resume_selected_session.  A user who leaves gives up what waits; where plugins may
\* leave too, it counts as taken away.
Leave(r) ==
    /\ MayLeave /\ Replace(r)
    /\ draft' = None
    /\ dropped' = IF plugins THEN dropped ELSE dropped \cup Pending \cup Unsaved
    /\ wiped' = IF plugins THEN wiped \cup Pending \cup Unsaved ELSE wiped
    /\ halted' = FALSE /\ crossed' = (crossed \/ Running \/ Reloading)
    /\ UNCHANGED <<plugins, typed, reading, run, reload, titling, attempted, store, bounds,
                   answers, foreign>>

NewSession == \E id \in NewId : Leave(Blank(id)) /\ used' = used \cup {id}
Resume(id) == store[id].rev > 0 /\ Leave(store[id]) /\ UNCHANGED used

\* start_session_context_reload
Compact ==
    /\ MayLeave /\ ~Reloading /\ reloads < MaxReloads
    /\ reloads' = reloads + 1
    /\ reload' = [phase |-> "loading", rec |-> rec]
    /\ crossed' = (crossed \/ Running)
    /\ UNCHANGED <<editor, waiting, task, rec, title, store, used, faults, plugins, typed,
                   dropped, wiped, answers, halted, foreign>>

\* reload_session_context: nothing to do, an error, or a new content that is saved
ReloadEnds ==
    /\ reload.phase = "loading"
    /\ \/ reload' = [reload EXCEPT !.phase = "unchanged"] /\ UNCHANGED <<store, faults, foreign>>
       \/ /\ reload.rec.said # {} /\ SaveOk(reload.rec)
          /\ reload' = [phase |-> "replaced", rec |-> Stored(reload.rec)]
       \/ /\ reload.rec.said # {} /\ SaveFails(reload.rec)
          /\ reload' = [reload EXCEPT !.phase = "error"]
    /\ UNCHANGED <<plugins, typed, editor, waiting, task, rec, title, used, reloads,
                   dropped, wiped, answers, halted, crossed>>

\* SessionContextReloaded: handle_session_context_reloaded.  The text in the editor is put
\* aside and comes back; what waits, or is only in memory, is wiped.
Restored_Nothing == None  \* mutant
Restored == draft

Reloaded ==
    /\ reload.phase \in {"unchanged", "error", "replaced"}
    /\ reload' = Nothing
    /\ IF reload.phase = "replaced"
       THEN /\ Replace(reload.rec) /\ draft' = Restored
            /\ wiped' = wiped \cup ((Pending \cup Unsaved) \ {draft})
            /\ crossed' = (crossed \/ Running)
       ELSE UNCHANGED <<draft, rec, job, ready, waiting, streamCut, canStop, titled, wiped,
                        crossed>>
    /\ UNCHANGED <<dropped, plugins, typed, reading, run, titling, attempted, store, used,
                   bounds, answers, halted, foreign>>

-----------------------------------------------------------------------------
(* The task of the run: run_and_persist.                                   *)

Done(r, how, committed, advance) ==
    run' = [phase |-> "done", input |-> run.input, rec |-> r, how |-> how,
            committed |-> committed, advance |-> advance]

Prompt == [run.rec EXCEPT !.said = @ \cup {run.input}]

FirstSave ==
    /\ run.phase = "first"
    /\ \/ /\ SaveOk(Prompt)
          /\ IF run.stop THEN Done(Stored(Prompt), "none", TRUE, TRUE)
             ELSE run' = [run EXCEPT !.phase = "model", !.rec = Stored(Prompt)]
       \/ SaveFails(Prompt) /\ Done(Prompt, "error", FALSE, FALSE)
    /\ UNCHANGED <<plugins, typed, editor, waiting, streamCut, canStop, rec, reload, title,
                   used, reloads, dropped, wiped, answers, halted, crossed>>

\* The agent answers, is cancelled once it was asked to be, or fails.
Model ==
    /\ run.phase = "model"
    /\ \/ /\ run' = [run EXCEPT !.phase = "answered", !.rec.answered = @ \cup {run.input}]
          /\ answers' = answers \cup {run.input}
       \/ (run.stop \/ run.cancel) /\ run' = [run EXCEPT !.phase = "cancelled"]
          /\ UNCHANGED answers
       \/ Done(run.rec, "error", TRUE, TRUE) /\ UNCHANGED answers
    /\ UNCHANGED <<plugins, typed, editor, waiting, streamCut, canStop, rec, reload, title,
                   store, used, bounds, dropped, wiped, halted, crossed, foreign>>

\* The answer goes to its session, or to a fork of it, or stays in memory.
FinalSave ==
    /\ run.phase \in {"answered", "cancelled"}
    /\ \/ SaveOk(run.rec) /\ Done(Stored(run.rec), run.phase, TRUE, TRUE) /\ UNCHANGED used
       \/ /\ ~InStep(run.rec) \/ CanFail
          /\ \E id \in NewId :
                LET fork == [run.rec EXCEPT !.id = id, !.rev = 0]
                IN /\ used' = used \cup {id}
                   /\ \/ Put(fork) /\ Done(Stored(fork), "error", TRUE, TRUE)
                         /\ Note(~InStep(run.rec))
                      \/ CanFail /\ Fail /\ Done(run.rec, "error", TRUE, FALSE)
    /\ UNCHANGED <<plugins, typed, editor, waiting, streamCut, canStop, rec, reload, title,
                   reloads, dropped, wiped, answers, halted, crossed>>

-----------------------------------------------------------------------------
(* The end of a run, and titles.                                           *)

\* flush_session_title, once the app holds record r and pending title t: a plain
\* save, which is not read back when it fails.
FlushTitle(r, t) ==
    IF t = None \/ r.title # None
    THEN /\ rec' = r /\ titled' = None /\ UNCHANGED <<store, faults, foreign>>
    ELSE LET new == [r EXCEPT !.title = t]
         IN \/ SaveOk(new) /\ rec' = Stored(new) /\ titled' = None
            \/ SaveFails(new) /\ rec' = r /\ titled' = t
            \/ CanFail /\ InStep(new) /\ Put(new) /\ Note(FALSE) /\ rec' = r /\ titled' = t

\* schedule_session_title: once per session, after an answer that was not cut
Schedules(c) == /\ c.how = "answered" /\ ~streamCut
                /\ c.rec.title = None /\ attempted # c.rec.id

\* What handle_agent_done decides: an input that was not saved goes back to the
\* queue, if it came from there or the editor is in use, or else to the editor;
\* the record is the one of the run; the queue may be paused.
ToQueue_FromQueue == ~run.committed /\ queuedRun  \* mutant
ToQueue == ~run.committed /\ (queuedRun \/ draft # None)
Settled_IfAnswered == IF run.committed /\ run.how # "error" THEN run.rec ELSE rec  \* mutant
Settled == IF run.committed THEN run.rec ELSE rec
Stops_AfterCancel == run.how = "cancelled" \/ ~run.advance  \* mutant
Stops_ByUser == paused \/ streamCut \/ run.how = "cancelled"  \* mutant
Stops == paused \/ streamCut \/ run.how = "cancelled" \/ ~run.advance

\* run_next_queued, when the event loop calls it after a run
Advances(im) == run.advance /\ (im # None \/ ~Stops) /\ ~Reloading

\* AgentDone: handle_agent_done, flush_session_title and run_next_queued.
AgentDone ==
    /\ run.phase = "done"
    /\ LET q == (IF run.advance \/ immediate = None THEN <<>> ELSE <<immediate>>)
                \o (IF ToQueue THEN <<run.input>> ELSE <<>>) \o queue
           im == IF run.advance THEN immediate ELSE None
           next == Advances(im)
       IN /\ draft' = IF run.committed \/ ToQueue THEN draft ELSE run.input
          /\ IF Schedules(run)
             THEN /\ attempted' = run.rec.id
                  /\ titling' = titling \cup {[id |-> run.rec.id, about |-> run.rec.said]}
             ELSE UNCHANGED <<attempted, titling>>
          /\ IF q = <<>> /\ im = None THEN FlushTitle(Settled, titled)
             ELSE rec' = Settled /\ UNCHANGED <<titled, store, faults, foreign>>
          /\ immediate' = IF next THEN None ELSE im
          /\ \/ next /\ im # None /\ Start(im, FALSE) /\ queue' = q
             \/ next /\ im = None /\ q # <<>> /\ Start(Head(q), TRUE) /\ queue' = Tail(q)
             \/ /\ ~next \/ (im = None /\ q = <<>>)
                /\ run' = NoRun /\ queuedRun' = FALSE /\ streamCut' = FALSE
                /\ canStop' = FALSE /\ paused' = Stops /\ queue' = q
    /\ UNCHANGED <<plugins, typed, job, ready, reading, reload, used, reloads, dropped,
                   wiped, answers, halted, crossed>>

\* SessionTitleReady: handle_session_title and flush_session_title.
Fits_AnySession(t) == rec.title = None  \* mutant
Fits(t) == rec.id = t.id /\ rec.title = None
Busy_Never == FALSE  \* mutant
Busy == Running \/ queue # <<>> \/ immediate # None

TitleReady(t, ok) ==
    /\ titling' = titling \ {t}
    /\ LET about == IF ok /\ Fits(t) THEN t.about ELSE titled
       IN IF Busy THEN titled' = about /\ UNCHANGED <<rec, store, faults, foreign>>
          ELSE FlushTitle(rec, about)
    /\ UNCHANGED <<plugins, typed, editor, waiting, task, reload, attempted, used, reloads,
                   dropped, wiped, answers, halted, crossed>>

-----------------------------------------------------------------------------
User ==
    \/ \E i \in Input : Type(i)
    \/ \E now \in BOOLEAN : Enter(now) \/ EnterReady(now)
    \/ Escape
    \/ \E k \in 1..Len(queue) : QueueSend(k) \/ QueueSendNow(k) \/ QueueDelete(k) \/ QueueEdit(k)
    \/ NewSession \/ Compact
    \/ \E id \in Id : Resume(id)

Tasks ==
    \/ \E n \in Slots, ok \in BOOLEAN : Prepared(n, ok)
    \/ FirstSave \/ Model \/ FinalSave \/ AgentDone
    \/ ReloadEnds \/ Reloaded
    \/ \E t \in titling, ok \in BOOLEAN : TitleReady(t, ok)

Next == User \/ Tasks \/ OtherSave

Spec == Init /\ [][Next]_vars

\* A bound of the runs: a third message, for the two that can wait beside the one
\* that runs, comes into a session without titles and plugins.
ThirdAlone == typed = Input /\ Cardinality(Input) = 3 => ~plugins /\ titling = {}

-----------------------------------------------------------------------------
(* Properties.                                                             *)

Inputs == Input \cup {None}
Titles == (SUBSET Input) \cup {None}
Records == [id : Id, rev : Nat, said : SUBSET Input, answered : SUBSET Input,
            title : Titles]

\* The variables keep their types, and the job of the editor is one that is read.
TypeOK ==
    /\ draft \in Inputs /\ immediate \in Inputs /\ queue \in Seq(Input)
    /\ reading \subseteq Slots /\ ready \in BOOLEAN
    /\ job = None \/ (job.n \in reading /\ job.now \in BOOLEAN)
    /\ rec \in Records /\ store \in [Id -> Records] /\ used \subseteq Id
    /\ queuedRun \in BOOLEAN /\ paused \in BOOLEAN /\ streamCut \in BOOLEAN
    /\ titling \subseteq [id : Id, about : SUBSET Input]
    /\ titled \in Titles /\ attempted \in Id \cup {None}
    /\ dropped \cup wiped \subseteq typed /\ answers \subseteq typed /\ typed \subseteq Input

InRun(f) == IF Running THEN f ELSE {}
InStore(field(_)) == UNION {field(store[id]) : id \in Id}
Said(r) == r.said
Answered(r) == r.answered

\* Whatever the order in which jobs, runs, reloads and keys meet, a message that was
\* written is in the editor, waits, belongs to the run or is in a session (tui.md: a failed
\* first save puts it back), unless the user gave it up or it was wiped.
InputsAccounted ==
    typed \subseteq dropped \cup wiped \cup Pending \cup InRun({run.input})
                    \cup rec.said \cup InStore(Said)

\* An answer is saved in its session or in a fork of it, or it is kept in memory
\* (run_and_persist: never go on from the old record), with the same two exceptions.
AnswersAccounted ==
    answers \subseteq dropped \cup wiped \cup InRun(run.rec.answered) \cup rec.answered
                      \cup InStore(Answered)

\* Nothing is wiped in a session that is neither reloaded nor in the hands of a plugin.
\* That a reload does wipe what waits, against tui.md, is what ReloadKeepsOut is about.
WipedByReplacing == wiped # {} => plugins \/ reloads > 0

\* A message is sent once: it waits in one place, and what waits was not saved.
SentOnce ==
    /\ IsInjective(queue) /\ draft \notin ToSet(queue)
    /\ immediate # None => immediate \notin ToSet(queue) \cup {draft}
    /\ Running => run.input \notin Pending
    /\ Pending \cap (rec.said \cup InStore(Said)) = {}

\* After the user has stopped a run, no later event starts another one until the
\* user sends something (tui.md: the queue stays paused, a late completion does
\* not restart it).
StartsAsTold ==
    run.phase \in {"none", "done"} /\ run'.phase = "first" => ~halted' \/ crossed

\* A queue that nobody works on is paused, so that the user is told of it.
IdleQueueIsPaused ==
    ~Running /\ ~Reloading /\ ~crossed =>
        /\ queue # <<>> => paused
        /\ immediate = None

\* A title belongs to the conversation that it was made from: no reload, fork or
\* switch of the session brings it to another one, unless a plugin switches during
\* a run.
OwnTitle ==
    \A id \in Id : store[id].title # None /\ ~crossed => store[id].title \subseteq store[id].said

\* The application is never in conflict with itself: a save of a run is refused
\* only after another process, or a failure, has come in between.
ConflictsOnlyFromOutside ==
    /\ run.phase \in {"first", "answered", "cancelled"} /\ run'.phase = "done"
    /\ ~run'.committed \/ run'.rec.id # run.rec.id
    => foreign' \/ crossed

\* What the user typed and what was answered is lost in no way but one, which is a fault
\* of the code: a reload in the background, or a plugin, replaces the session, and
\* replace_session wipes the queue, the immediate message and unsaved answers.  The draft
\* survives a reload, and nothing waits twice: the four above together.
LostOnlyByReplacing ==
    InputsAccounted /\ AnswersAccounted /\ WipedByReplacing /\ SentOnce

\* A stopped queue stays stopped until the user acts, and says so meanwhile.
QueueObeysUser == []IdleQueueIsPaused /\ [][StartsAsTold]_vars

\* Saves of titles, runs and reloads keep out of each other's way.
SavesInStep == []OwnTitle /\ [][ConflictsOnlyFromOutside]_vars

\* The end of a reload in the background leaves alone what the user has done in
\* the meantime: the messages in the queue, and the choice of another session.
ReloadKeepsOut ==
    [][Reloading /\ reload'.phase = "none" => queue' = queue /\ rec'.id = rec.id]_vars
=============================================================================
