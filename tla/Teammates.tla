------------------------------ MODULE Teammates ------------------------------
(***************************************************************************)
(* The teammate plugin (examples/plugins/teammate-plugin/src/lib.rs): the  *)
(* members of a team, their mailboxes, and the agents of the Runtime that  *)
(* do their work.  A member keeps its address while each message handed to *)
(* it continues it under a new handle; the old handle is given back to the *)
(* Runtime.  When the run of the controller ends, members that are done    *)
(* move to a bounded ledger of results.                                    *)
(*                                                                         *)
(* The plugin handles one call at a time, from tools of the controller,    *)
(* from other plugins and from its views; meanwhile the agents go on.      *)
(***************************************************************************)
EXTENDS Naturals, FiniteSets, SequencesExt, Filters

CONSTANTS
    Owner, Self,        \* who owns members; the plugin's own tools and views
    MaxMembers,         \* MAX_MEMBERS_PER_OWNER
    Capacity,           \* MAILBOX_CAPACITY
    MaxTries,           \* MAX_DISPATCH_ATTEMPTS
    MaxRetired,         \* MAX_RETIRED_MEMBERS
    MaxFinished,        \* MAX_FINISHED_RUNS
    MaxPending,         \* MAX_PENDING_COLLECTIONS
    MaxHandles,         \* bounds of the model: agents,
    MaxMessages,        \* messages
    MaxRuns             \* and runs of the controller

VARIABLES
    agents,             \* the Runtime: the status of each handle
    members,            \* the directory, by address
    mailboxes,          \* unconfirmed messages, by address
    retired,            \* the ledger
    finishedRuns,       \* finished_runs
    collections,        \* pending_collections
    messages,           \* next_message_id
    controller,         \* the run of the controller
    answered,           \* handles made from a message: the message
    forgotten           \* handles that a full queue has let go

team == <<members, mailboxes, retired, finishedRuns, collections, messages>>
teamVars == <<agents, team, controller, answered, forgotten>>

Handle == 1..MaxHandles
Terminal == {"succeeded", "failed"}     \* a cancelled agent counts as a failed one
NoMember == [owner |-> "none"]

Init ==
    /\ agents = [h \in Handle |-> "none"] 
    /\ members = [h \in Handle |-> NoMember] /\ mailboxes = [h \in Handle |-> <<>>]
    /\ retired = <<>> /\ finishedRuns = <<>> /\ collections = <<>>
    /\ messages = 0 /\ controller = 1
    /\ answered = [h \in Handle |-> 0] /\ forgotten = {}

-----------------------------------------------------------------------------
(* The Runtime, as far as the plugin sees it.                              *)

AgentEnds(h) ==
    /\ agents[h] = "running"
    /\ \E s \in Terminal : agents' = [agents EXCEPT ![h] = s]
    /\ UNCHANGED <<team, controller, answered, forgotten>>

NewHandles == {h \in Handle : agents[h] = "none" /\ \A k \in 1..(h-1) : agents[k] # "none"}

-----------------------------------------------------------------------------
(* The directory.                                                          *)

Mine(o) == {a \in Handle : members[a].owner = o}
RetiredAt(o, a) == {i \in DOMAIN retired : retired[i].owner = o /\ retired[i].address = a}

\* note_controller_run: only calls of the controller's tools carry a run.
Noted(m, o) == IF o = Self THEN [m EXCEPT !.run = controller] ELSE m

\* schedule_collection: a full queue lets its oldest handle go.
Queued(q, h) == IF Len(q) >= MaxPending THEN Append(Tail(q), h) ELSE Append(q, h)
Schedule(h) ==
    /\ collections' = Queued(collections, h)
    /\ forgotten' = forgotten \cup (ToSet(collections) \ ToSet(Queued(collections, h)))

\* flush_collections: what is not done yet stays.
Flushed(q) == Among(q, {i \in DOMAIN q : agents[q[i]] \notin Terminal})
Collected(q, new) == [h \in Handle |->
    IF h \in new THEN "running"
    ELSE IF h \in ToSet(q) /\ agents[h] \in Terminal THEN "collected" ELSE agents[h]]

\* Give `old' back and flush the queue, as `new' begins, if it is there.
Replace_Silent(old, new) ==  \* mutant
    /\ collections' = Flushed(collections)
    /\ agents' = Collected(collections, new)
    /\ UNCHANGED forgotten
Replace(old, new) ==
    LET q == Queued(collections, old)
    IN /\ collections' = Flushed(q)
       /\ agents' = Collected(q, new)
       /\ forgotten' = forgotten \cup (ToSet(collections) \ ToSet(q))

Spawn(o, captain) ==
    /\ Cardinality(Mine(o)) < MaxMembers
    /\ captain => \A a \in Mine(o) : ~members[a].captain
    /\ \E h \in NewHandles :
          /\ agents' = [agents EXCEPT ![h] = "running"]
          /\ members' = [members EXCEPT ![h] =
                [owner |-> o, captain |-> captain, current |-> h, status |-> "running",
                 run |-> IF o = Self THEN controller ELSE 0]]
    /\ UNCHANGED <<mailboxes, retired, finishedRuns, collections, messages,
                   controller, answered, forgotten>>

\* status and result: the cached status is brought up to date.
Query(o, a) ==
    /\ a \in Mine(o)
    /\ members' = [members EXCEPT ![a] =
          [Noted(@, o) EXCEPT !.status = agents[members[a].current]]]
    /\ UNCHANGED <<agents, mailboxes, retired, finishedRuns, collections, messages,
                   controller, answered, forgotten>>

\* cancel: the agent was asked to stop and ends when it hears; the cache is ahead of it.
Cancel(o, a) ==
    /\ a \in Mine(o)
    /\ LET m == Noted(members[a], o)
       IN members' = [members EXCEPT ![a] =
            IF agents[m.current] = "running" THEN [m EXCEPT !.status = "failed"] ELSE m]
    /\ UNCHANGED <<agents, mailboxes, retired, finishedRuns, collections, messages,
                   controller, answered, forgotten>>

Dismiss(o, a) ==
    \/ /\ a \in Mine(o)
       /\ members' = [members EXCEPT ![a] = NoMember]
       /\ mailboxes' = [mailboxes EXCEPT ![a] = <<>>]
       /\ Schedule(members[a].current)
       /\ UNCHANGED <<agents, retired, finishedRuns, messages, controller, answered>>
    \/ /\ a \notin Mine(o)
       /\ \E i \in RetiredAt(o, a) : retired' = WithoutAt(retired, i)
       /\ UNCHANGED <<agents, members, mailboxes, finishedRuns, collections,
                      messages, controller, answered, forgotten>>

-----------------------------------------------------------------------------
(* Mail.                                                                   *)

\* ack
Without_Kept(a, i) == mailboxes  \* mutant
Without(a, i) == [mailboxes EXCEPT ![a] = WithoutAt(@, i)]

Send(o, a) ==
    /\ a \in Mine(o) /\ Len(mailboxes[a]) < Capacity
    /\ messages < MaxMessages /\ messages' = messages + 1
    /\ mailboxes' = [mailboxes EXCEPT ![a] = Append(@, [id |-> messages + 1, tries |-> 0])]
    /\ UNCHANGED <<agents, members, retired, finishedRuns, collections, controller,
                   answered, forgotten>>

Ack(o, a, i) ==
    /\ a \in Mine(o)
    /\ mailboxes' = Without(a, i)
    /\ UNCHANGED <<agents, members, retired, finishedRuns, collections, messages,
                   controller, answered, forgotten>>

\* dispatch: only a member whose agent succeeded can be continued.  An attempt that
\* fails is counted, and the message stays.
Dispatch(o, a, i) ==
    LET m == mailboxes[a][i]
    IN /\ a \in Mine(o) /\ m.tries < MaxTries
       /\ \/ \E h \in NewHandles :
                /\ agents[members[a].current] = "succeeded"
                /\ mailboxes' = Without(a, i)
                /\ members' = [members EXCEPT ![a].current = h, ![a].status = "running"]
                /\ answered' = [answered EXCEPT ![h] = m.id]
                /\ Replace(members[a].current, {h})
          \/ /\ mailboxes' = [mailboxes EXCEPT ![a][i].tries = @ + 1]
             /\ UNCHANGED <<agents, members, answered, collections, forgotten>>
       /\ UNCHANGED <<retired, finishedRuns, messages, controller>>

-----------------------------------------------------------------------------
(* The views and the end of a run.                                         *)

\* submit_member_message: a running member is steered, one that succeeded goes on.
Submit(a) ==
    /\ a \in Mine(Self)
    /\ LET h == members[a].current
       IN \/ /\ agents[h] = "running"
             /\ members' = [members EXCEPT ![a].status = "running"]
             /\ UNCHANGED <<agents, collections, forgotten>>
          \/ /\ agents[h] = "succeeded"
             /\ \E n \in NewHandles :
                   /\ members' = [members EXCEPT ![a].current = n, ![a].status = "running"]
                   /\ Replace(h, {n})
    /\ UNCHANGED <<mailboxes, retired, finishedRuns, messages, controller, answered>>

\* refresh_ui_statuses
Refresh ==
    /\ collections' = Flushed(collections) /\ agents' = Collected(collections, {})
    /\ members' = [a \in Handle |-> IF a \in Mine(Self)
                      THEN [members[a] EXCEPT !.status = agents[members[a].current]]
                      ELSE members[a]]
    /\ UNCHANGED <<mailboxes, retired, finishedRuns, messages, controller, answered,
                   forgotten>>

\* remember_finished_run
Remembered == LET kept == IF Len(finishedRuns) >= MaxFinished THEN Tail(finishedRuns)
                          ELSE finishedRuns
              IN Append(kept, controller)

\* retirement_candidates, once the statuses were refreshed
Unread(a) == mailboxes[a] # <<>>
Retirable_Unread(a) == /\ agents[members[a].current] \in Terminal
                       /\ members[a].run \in ToSet(Remembered)
Retirable_Cached(a) == /\ members[a].status \in Terminal
                       /\ members[a].run \in ToSet(Remembered)
                       /\ ~Unread(a)
Retirable(a) == /\ agents[members[a].current] \in Terminal
                /\ members[a].run \in ToSet(Remembered)
                /\ ~Unread(a)
Candidates == {a \in Mine(Self) : Retirable(a)}

Entry(a) == [owner |-> Self, address |-> a, outcome |-> agents[members[a].current]]
Newest(s, n) == SubSeq(s, IF Len(s) > n THEN Len(s) - n + 1 ELSE 1, Len(s))

\* on_event: core.run.finish.  The members are retired one after the other, in the
\* order of their addresses, and their handles are collected.
RunFinish ==
    /\ controller < MaxRuns /\ controller' = controller + 1
    /\ finishedRuns' = Remembered
    /\ LET gone == Among([h \in Handle |-> h], Candidates)
           all == collections \o [i \in DOMAIN gone |-> members[gone[i]].current]
           q == Newest(all, MaxPending)
       IN /\ members' = [a \in Handle |->
                IF a \in Candidates THEN NoMember
                ELSE IF a \in Mine(Self)
                     THEN [members[a] EXCEPT !.status = agents[members[a].current]]
                     ELSE members[a]]
          /\ retired' = Newest(retired \o [i \in DOMAIN gone |-> Entry(gone[i])], MaxRetired)
          /\ mailboxes' = [a \in Handle |-> IF a \in Candidates THEN <<>> ELSE mailboxes[a]]
          /\ collections' = Flushed(q) /\ agents' = Collected(q, {})
          /\ forgotten' = forgotten \cup (ToSet(all) \ ToSet(q))
    /\ UNCHANGED <<messages, answered>>

-----------------------------------------------------------------------------
Next ==
    \/ \E h \in Handle : AgentEnds(h)
    \/ \E o \in Owner : Spawn(o, FALSE) \/ (o = Self /\ Spawn(o, TRUE))
    \/ \E o \in Owner, a \in Handle :
          \/ Query(o, a) \/ Cancel(o, a) \/ Dismiss(o, a) \/ Send(o, a)
          \/ \E i \in DOMAIN mailboxes[a] : Ack(o, a, i) \/ Dispatch(o, a, i)
    \/ \E a \in Handle : Submit(a)
    \/ Refresh \/ RunFinish

Spec == Init /\ [][Next]_teamVars

-----------------------------------------------------------------------------
(* Properties.                                                             *)

Members == {a \in Handle : members[a].owner # "none"}
Current == {members[a].current : a \in Members}

\* Every handle the plugin got from the Runtime is the current one of exactly one
\* member, or it is given back: otherwise each message would use up a place of the
\* quota.  Only a full queue lets handles go.
HandlesAccounted ==
    /\ \A h \in Handle : agents[h] \notin {"none", "collected"} =>
          h \in Current \cup ToSet(collections) \cup forgotten
    /\ \A h \in Current : agents[h] # "collected" /\ h \notin ToSet(collections)
    /\ \A a, b \in Members : a # b => members[a].current # members[b].current

\* A member that leaves the directory at the end of a run takes no message with it
\* and no agent that still works, and the ledger keeps its outcome.
NothingRetiredEarly ==
    controller' # controller =>
         \A a \in Members : members'[a].owner = "none" =>
            /\ agents[members[a].current] \in Terminal
            /\ mailboxes[a] = <<>>
            /\ Cardinality(Candidates) <= MaxRetired =>
                  \E i \in DOMAIN retired' : retired'[i] = Entry(a)

\* At the end of a run the members that are done leave the directory, whatever was
\* last known of them, unless their own run ended so long ago that it was forgotten.
DoneMembersLeave ==
    controller' # controller =>
         \A a \in Handle : /\ members'[a].owner = Self
                           /\ members'[a].run + MaxFinished > controller
                           => \/ agents[members[a].current] \notin Terminal
                              \/ mailboxes[a] # <<>>

\* A message is carried out by one agent at most, and not while it still waits; a
\* place in the directory and one in the ledger are never held together.
HandedOnce ==
    /\ \A h \in Handle : answered[h] # 0 =>
          /\ \A k \in Handle \ {h} : answered[k] # answered[h]
          /\ \A a \in Handle : \A i \in DOMAIN mailboxes[a] : mailboxes[a][i].id # answered[h]
    /\ \A i \in DOMAIN retired : retired[i].address \notin Members

-----------------------------------------------------------------------------
(* What makes them inductive.                                              *)
Status == Terminal \cup {"none", "running", "collected"}
Member == [owner : Owner, captain : BOOLEAN, current : Handle, status : Status, run : Nat]
Mail == [id : Nat, tries : Nat]
Entries == [owner : Owner, address : Handle, outcome : Status]

TeamTypes ==
    /\ agents \in [Handle -> Status] /\ members \in [Handle -> Member \cup {NoMember}]
    /\ mailboxes \in [Handle -> Seq(Mail)] /\ retired \in Seq(Entries)
    /\ finishedRuns \in Seq(Nat) /\ collections \in Seq(Handle)
    /\ messages \in Nat /\ controller \in Nat \ {0}
    /\ answered \in [Handle -> Nat] /\ forgotten \subseteq Handle

\* The plugin names no handle that the Runtime has yet to give.
HandlesBegun ==
    /\ \A a \in Members : agents[a] # "none" /\ agents[members[a].current] # "none"
    /\ \A i \in DOMAIN collections : agents[collections[i]] # "none"
    /\ \A i \in DOMAIN retired : agents[retired[i].address] # "none"

\* A message has a number of its own, wherever it waits, and none is ahead of the counter.
MailNumbered ==
    /\ \A a, b \in Handle : \A i \in DOMAIN mailboxes[a], j \in DOMAIN mailboxes[b] :
          mailboxes[a][i].id = mailboxes[b][j].id => a = b /\ i = j
    /\ \A a \in Handle : \A i \in DOMAIN mailboxes[a] : mailboxes[a][i].id \in 1..messages
    /\ \A h \in Handle : answered[h] <= messages

\* The last runs of the controller are remembered, and its members are of one of its runs.
RunsRemembered ==
    /\ Len(finishedRuns) = IF controller <= MaxFinished THEN controller - 1 ELSE MaxFinished
    /\ \A i \in DOMAIN finishedRuns :
          finishedRuns[i] + Len(finishedRuns) + 1 = controller + i
    /\ \A a \in Mine(Self) : members[a].run \in 1..controller

TeamInv ==
    /\ TeamTypes /\ HandlesBegun /\ MailNumbered /\ RunsRemembered
    /\ HandlesAccounted /\ HandedOnce
=============================================================================
