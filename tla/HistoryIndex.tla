----------------------------- MODULE HistoryIndex -----------------------------
(***************************************************************************)
(* The knowledge plugin (examples/plugins/knowledge-plugin/src/lib.rs): an *)
(* index of the excerpts of past sessions, built from the session store    *)
(* when the plugin starts and when a run ends.  Revisions tell which       *)
(* sessions have to be read again.  The excerpts and the revisions are two *)
(* keys of the plugin's durable store, written one after the other.        *)
(*                                                                         *)
(* Several processes work on the same project; sessions are saved and      *)
(* deleted meanwhile, a session may not be readable, and a process may     *)
(* stop at any step.  The excerpts of a session are abstracted to the      *)
(* revision they were read at; search, titles and texts, and the limit of  *)
(* 2,000 excerpts, are left out.                                           *)
(***************************************************************************)
EXTENDS Naturals, FiniteSets

CONSTANTS
    Process, Session,
    MaxRevision,        \* bounds of the model: savings of a session,
    MaxFaults,          \* failed writes,
    MaxSyncs            \* and synchronisations

VARIABLES
    revision,           \* the session store: the revision of a session, 0 if there is none
    deleted,            \* ... and the sessions that were deleted
    step,               \* what each process is doing
    listed,             \* the revisions that session_list returned to it
    indexed,            \* meta.indexed of each process
    excerpts,           \* entries of each process: the revision they show, 0 if none
    historyFile, historyCache,
    unwritten,          \* history: sessions whose new excerpts a failed write was about
    syncs, faults

historyVars == <<revision, deleted, step, listed, indexed, excerpts, historyFile, historyCache,
                 unwritten, syncs, faults>>

Nothing == [s \in Session |-> 0]
Empty == [meta |-> Nothing, entries |-> Nothing]

Init ==
    /\ revision = Nothing /\ deleted = {}
    /\ step = [p \in Process |-> "down"] /\ listed = [p \in Process |-> Nothing]
    /\ indexed = [p \in Process |-> Nothing] /\ excerpts = [p \in Process |-> Nothing]
    /\ historyFile = Empty /\ historyCache = [p \in Process |-> Empty]
    /\ unwritten = {} /\ syncs = 0 /\ faults = 0

-----------------------------------------------------------------------------
(* The session store.                                                      *)

Save(s) ==
    /\ s \notin deleted /\ revision[s] < MaxRevision
    /\ revision' = [revision EXCEPT ![s] = @ + 1]
    /\ UNCHANGED <<deleted, step, listed, indexed, excerpts, historyFile, historyCache,
                   unwritten, syncs, faults>>

Delete(s) ==
    /\ revision[s] > 0 /\ deleted' = deleted \cup {s}
    /\ revision' = [revision EXCEPT ![s] = 0]
    /\ UNCHANGED <<step, listed, indexed, excerpts, historyFile, historyCache, unwritten,
                   syncs, faults>>

-----------------------------------------------------------------------------
(* The durable store of a plugin (host/src/state.rs and the store_*        *)
(* operations of host/src/capability/mod.rs): one file for each plugin and *)
(* scope, a map from keys to values, that every process reads when it      *)
(* loads the plugin and keeps in memory.  A write replaces the whole file  *)
(* by the map of the process with the new value; it may fail before the    *)
(* file is replaced, or after it (the directory is synchronised last).     *)

\* PluginStateStore::load, when the host creates the plugin
OpenStore(p) == historyCache' = [historyCache EXCEPT ![p] = historyFile] /\ UNCHANGED historyFile

\* store_set: cloned, changed, saved, and only then put in place
Put(p, k, v) == [historyCache[p] EXCEPT ![k] = v]
Set(p, k, v) ==
    /\ historyFile' = Put(p, k, v)
    /\ historyCache' = [historyCache EXCEPT ![p] = Put(p, k, v)]
SetFails(p, k, v) ==
    /\ historyFile' \in {historyFile, Put(p, k, v)}
    /\ UNCHANGED historyCache

-----------------------------------------------------------------------------
(* Synchronisation.                                                        *)

\* activate: load, then list the sessions; the store may not answer, and then the
\* revisions are written as they are.
Activate(p) ==
    /\ step[p] = "down" /\ syncs < MaxSyncs /\ syncs' = syncs + 1
    /\ OpenStore(p)
    /\ indexed' = [indexed EXCEPT ![p] = historyFile.meta]
    /\ excerpts' = [excerpts EXCEPT ![p] = historyFile.entries]
    /\ \/ step' = [step EXCEPT ![p] = "listed"] /\ listed' = [listed EXCEPT ![p] = revision]
       \/ step' = [step EXCEPT ![p] = "report"] /\ UNCHANGED listed
    /\ UNCHANGED <<revision, deleted, unwritten, faults>>

\* on_event: tui.run.finish
RunFinish(p) ==
    /\ step[p] = "ready" /\ syncs < MaxSyncs /\ syncs' = syncs + 1
    /\ \/ step' = [step EXCEPT ![p] = "listed"] /\ listed' = [listed EXCEPT ![p] = revision]
       \/ step' = [step EXCEPT ![p] = "report"] /\ UNCHANGED listed
    /\ UNCHANGED <<revision, deleted, indexed, excerpts, historyFile, historyCache, unwritten,
                   faults>>

\* sync_sessions reads each session whose revision changed, as it is by now.  One that
\* cannot be read keeps what it had, one that is gone leaves the index, and the
\* revision noted is the one that was listed.
Changed(p) == {s \in Session : listed[p][s] > 0 /\ listed[p][s] # indexed[p][s]}
Noted_Late(p, s) == IF revision[s] > 0 THEN revision[s] + 1 ELSE 0  \* mutant
Noted(p, s) == listed[p][s]

Scan(p) ==
    /\ step[p] = "listed"
    /\ \E unreadable \in SUBSET {s \in Changed(p) : revision[s] > 0} :
         LET kept == (Session \ Changed(p)) \cup unreadable
             left(s) == listed[p][s] = 0 \/ (s \notin kept /\ revision[s] = 0)
         IN /\ indexed' = [indexed EXCEPT ![p] = [s \in Session |->
                  IF left(s) THEN 0 ELSE IF s \in kept THEN indexed[p][s] ELSE Noted(p, s)]]
            /\ excerpts' = [excerpts EXCEPT ![p] = [s \in Session |->
                  IF left(s) THEN 0 ELSE IF s \in kept THEN excerpts[p][s] ELSE revision[s]]]
    /\ step' = [step EXCEPT ![p] = "first"]
    /\ UNCHANGED <<revision, deleted, listed, historyFile, historyCache, unwritten, syncs,
                   faults>>

FirstKey_Swapped == "meta"  \* mutant
\* The excerpts are saved before the revisions.
FirstKey == "entries"
SecondKey == CHOOSE k \in {"meta", "entries"} : k # FirstKey
Key(p) == IF step[p] = "first" THEN FirstKey
          ELSE IF step[p] = "second" THEN SecondKey ELSE "meta"
Value(p) == IF Key(p) = "entries" THEN excerpts[p] ELSE indexed[p]
NewExcerpts(p) == {s \in Session : excerpts[p][s] # historyCache[p].entries[s]}

\* save_entries, save_meta; after an error the revisions are saved again, with a note.
Write(p) ==
    /\ step[p] \in {"first", "second", "report"}
    /\ \/ /\ Set(p, Key(p), Value(p))
          /\ step' = [step EXCEPT ![p] = IF @ = "first" THEN "second" ELSE "ready"]
          /\ UNCHANGED <<unwritten, faults>>
       \/ /\ faults < MaxFaults /\ faults' = faults + 1
          /\ SetFails(p, Key(p), Value(p))
          /\ unwritten' = IF Key(p) = "entries" THEN unwritten \cup NewExcerpts(p)
                                              ELSE unwritten
          /\ step' = [step EXCEPT ![p] = IF @ = "report" THEN "ready" ELSE "report"]
    /\ UNCHANGED <<revision, deleted, listed, indexed, excerpts, syncs>>

\* The process ends, or the plugin is deactivated.
Stop(p) ==
    /\ step[p] # "down" /\ step' = [step EXCEPT ![p] = "down"]
    /\ indexed' = [indexed EXCEPT ![p] = Nothing] /\ excerpts' = [excerpts EXCEPT ![p] = Nothing]
    /\ listed' = [listed EXCEPT ![p] = Nothing]
    /\ historyCache' = [historyCache EXCEPT ![p] = Empty]
    /\ UNCHANGED <<revision, deleted, historyFile, unwritten, syncs, faults>>

-----------------------------------------------------------------------------
Next ==
    \/ \E s \in Session : Save(s) \/ Delete(s)
    \/ \E p \in Process : Activate(p) \/ RunFinish(p) \/ Scan(p) \/ Write(p) \/ Stop(p)

Spec == Init /\ [][Next]_historyVars

-----------------------------------------------------------------------------
Covers(S) == \A s \in S : revision[s] > 0 =>
    /\ historyFile.entries[s] >= historyFile.meta[s]
    /\ \A p \in Process : excerpts[p][s] >= indexed[p][s]

\* A session that is marked as read at some revision has its excerpts in the index, of
\* that revision or a later one, as long as the session exists: otherwise it would not be
\* read again and would stay out of every search.  This holds in the file, whatever
\* process wrote it last, wherever one stopped and whatever write failed, and in every
\* process.  It holds of all sessions but those whose new excerpts a failed write was
\* about: for these the code breaks it, as it then writes the revisions all the same.
IndexCovers == Covers(Session \ unwritten)

\* Without the exception, what the comment at lib.rs:534 has in mind.  It fails.
Covered == Covers(Session)

-----------------------------------------------------------------------------
(* What makes IndexCovers inductive.                                       *)
Steps == {"down", "listed", "first", "second", "report", "ready"}
Revisions == [Session -> Nat]
StoredPair == [meta : Revisions, entries : Revisions]

IndexTypes ==
    /\ revision \in Revisions /\ deleted \subseteq Session /\ faults \in Nat
    /\ step \in [Process -> Steps] /\ listed \in [Process -> Revisions]
    /\ indexed \in [Process -> Revisions] /\ excerpts \in [Process -> Revisions]
    /\ historyFile \in StoredPair /\ historyCache \in [Process -> StoredPair]
    /\ unwritten \subseteq Session

\* A deleted session stays deleted, and no other is noted with a revision it never had;
\* the store of a process knows of none that its memory does not, and between its list and
\* its scan a process knows of none that it did not list.
NotedOnce ==
    /\ \A s \in deleted : revision[s] = 0
    /\ \A s \in Session \ deleted :
         /\ historyFile.meta[s] <= revision[s]
         /\ \A p \in Process :
              /\ historyCache[p].meta[s] <= indexed[p][s] /\ indexed[p][s] <= revision[s]
              /\ listed[p][s] <= revision[s]
              /\ step[p] = "listed" => indexed[p][s] <= listed[p][s]

\* The excerpts run ahead of the revisions wherever both are held, and the store of a
\* process has all of them but those it is about to write.
ExcerptsAhead ==
    \A s \in Session \ (deleted \cup unwritten) :
        /\ historyFile.meta[s] <= historyFile.entries[s]
        /\ \A p \in Process :
             /\ indexed[p][s] <= excerpts[p][s]
             /\ step[p] # "first" => historyCache[p].entries[s] = excerpts[p][s]

IndexInv == IndexTypes /\ NotedOnce /\ ExcerptsAhead
=============================================================================
