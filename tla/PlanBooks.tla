------------------------------ MODULE PlanBooks ------------------------------
(***************************************************************************)
(* The plan plugin (examples/plugins/plan-plugin/src/lib.rs): a plan for   *)
(* each session, kept in the state of the plugin and shown while it has    *)
(* something left to do.  A plan is abstracted to whether it has pending   *)
(* steps and whether one is in progress; steps that are completed, the     *)
(* texts and the rendering are left out.                                   *)
(*                                                                         *)
(* Sessions run at the same time, one run each.  A write of the state may  *)
(* fail, and may fail after the file was replaced.                         *)
(***************************************************************************)
EXTENDS Naturals, FiniteSets

CONSTANTS
    Session,            \* sessions of the application
    MaxPlans,           \* MAX_SESSION_PLANS
    MaxUpdates,         \* bound of the model: updates
    MaxStarts           \* and runs

VARIABLES
    book,               \* PlanBook.sessions in memory
    bookFile,           \* ... and in the file of the plugin's state
    sequence,           \* next_sequence
    running,            \* the run of each session, 0 if there is none
    starts,             \* runs started so far
    settled,            \* runs whose successful end was handled, in file and memory
    concerned           \* the session that the last step was about

planVars == <<book, bookFile, sequence, running, starts, settled, concerned>>

NoPlan == [run |-> 0, used |-> 0, pending |-> FALSE, active |-> FALSE]
Nobody == "nobody"
Planned(b) == {s \in Session : b[s] # NoPlan}

Init ==
    /\ book = [s \in Session |-> NoPlan] /\ bookFile = [s \in Session |-> NoPlan]
    /\ sequence = 0 /\ running = [s \in Session |-> 0] /\ starts = 0
    /\ settled = {} /\ concerned = Nobody

\* set_state and what follows: the memory changes once the file did.
Outcome == {"saved", "failed", "failed_late"}
Persist(outcome, b) ==
    /\ bookFile' = IF outcome = "failed" THEN bookFile ELSE b
    /\ book' = IF outcome = "saved" THEN b ELSE book

-----------------------------------------------------------------------------
StartRun(s) ==
    /\ running[s] = 0 /\ starts < MaxStarts
    /\ starts' = starts + 1 /\ running' = [running EXCEPT ![s] = starts + 1]
    /\ concerned' = s
    /\ UNCHANGED <<book, bookFile, sequence, settled>>

\* PlanBook::store: beyond the limit the plan that was not used for longest leaves.
Oldest(b, s) == CHOOSE v \in Planned(b) \ {s} :
                   \A w \in Planned(b) \ {s} : b[v].used <= b[w].used
Within(b, s) == IF Cardinality(Planned(b)) > MaxPlans
                THEN [b EXCEPT ![Oldest(b, s)] = NoPlan] ELSE b
Stored(s, r, p, a) ==
    Within([book EXCEPT ![s] = [run |-> r, used |-> sequence + 1, pending |-> p, active |-> a]],
           s)

\* update_plan: an empty plan is a plan cleared; the run may be unknown (0).
Update(s) ==
    /\ running[s] # 0 /\ sequence < MaxUpdates /\ sequence' = sequence + 1
    /\ \E outcome \in Outcome :
          \/ Persist(outcome, [book EXCEPT ![s] = NoPlan])
          \/ \E r \in {running[s], 0}, p, a \in BOOLEAN : Persist(outcome, Stored(s, r, p, a))
    /\ concerned' = s
    /\ UNCHANGED <<running, starts, settled>>

Completed_Never(p) == p  \* mutant
\* finish_run: the plan of a run is settled, and leaves with its last step; a plan that
\* the run did not touch leaves, unless nobody knows whose it is.
Completed(p) == [p EXCEPT !.active = FALSE]
Finished(p, r) ==
    IF p.run \notin {r, 0} \/ ~p.pending THEN NoPlan ELSE Completed(p)

Matched_ByRun(s, r, named) == {t \in Planned(book) : book[t].run \in {r, 0}}  \* mutant
\* The session comes with the event; an older host names the run only.
Matched(s, r, named) == IF named THEN {s} ELSE {t \in Planned(book) : book[t].run = r}

\* on_event: core.run.finish
FinishRun(s, cancelled, named) ==
    LET r == running[s]
        b == [t \in Session |-> IF t \in Matched(s, r, named) /\ t \in Planned(book)
                                THEN Finished(book[t], r) ELSE book[t]]
    IN /\ r # 0 /\ running' = [running EXCEPT ![s] = 0]
       /\ IF cancelled \/ b = book
          THEN /\ settled' = IF cancelled \/ bookFile # book THEN settled ELSE settled \cup {r}
               /\ UNCHANGED <<book, bookFile>>
          ELSE \E outcome \in Outcome :
                  /\ Persist(outcome, b)
                  /\ settled' = IF outcome = "saved" THEN settled \cup {r} ELSE settled
       /\ concerned' = s
       /\ UNCHANGED <<sequence, starts>>

\* activate, in a new instance: the runs of the old one end with it.
Restart ==
    /\ book' = bookFile /\ running' = [s \in Session |-> 0] /\ concerned' = Nobody
    /\ UNCHANGED <<bookFile, sequence, starts, settled>>

-----------------------------------------------------------------------------
Next ==
    \/ \E s \in Session : \/ StartRun(s) \/ Update(s)
                          \/ \E cancelled, named \in BOOLEAN : FinishRun(s, cancelled, named)
    \/ Restart

Spec == Init /\ [][Next]_planVars

-----------------------------------------------------------------------------
\* What a session planned changes by a call or the end of a run of that very session,
\* whatever runs end at the same time; or it is the one least recently used when
\* another session needs the place.
PlansKeptApart ==
    \A s \in Session : book'[s] # book[s] =>
          \/ concerned' \in {s, Nobody}
          \/ /\ book'[s] = NoPlan
             /\ Cardinality(Planned(book) \cup {concerned'}) > MaxPlans
             /\ \A t \in Planned(book) \ {concerned'} : book[s].used <= book[t].used

\* No step is shown as in progress for a run whose end was handled, in this instance
\* or in one that is started from the file.
NoPhantomProgress ==
    \A b \in {book, bookFile} : \A s \in Session : b[s].active => b[s].run \notin settled


-----------------------------------------------------------------------------
(* What makes both inductive.                                              *)
Plans == [run : Nat, used : Nat, pending : BOOLEAN, active : BOOLEAN]

PlanTypes ==
    /\ book \in [Session -> Plans] /\ bookFile \in [Session -> Plans]
    /\ running \in [Session -> Nat] /\ sequence \in Nat /\ starts \in Nat
    /\ settled \subseteq Nat

\* A run belongs to one session, in which alone it plans; one that is settled is over.
RunsApart ==
    /\ \A s \in Session : running[s] <= starts /\ running[s] \notin settled
    /\ \A s, t \in Session : running[s] # 0 /\ running[s] = running[t] => s = t
    /\ \A r \in settled : r # 0 /\ r <= starts
    /\ \A b \in {book, bookFile} : \A s \in Session :
         /\ b[s].run <= starts
         /\ \A t \in Session : b[s].run # 0 /\ b[s].run = running[t] => s = t

PlanInv == PlanTypes /\ RunsApart /\ NoPhantomProgress
==============================================================================
