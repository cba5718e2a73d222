-------------------------------- MODULE Parts --------------------------------
(***************************************************************************)
(* Five plugins of examples/plugins, the calls of a plugin, the cards of   *)
(* its tools, the event bus, the budget of a plugin's requests and the     *)
(* stream of a model, each alone: they share nothing here, so that a       *)
(* behaviour of this module is a behaviour of one of them, or of a part    *)
(* that a module extending this one adds.  ExtensionProofs is about these, *)
(* and PluginProofs about the team.                                        *)
(***************************************************************************)
EXTENDS Integers, FiniteSets

CONSTANTS
    MaxMembers, TeamOwner, Self, Capacity, MaxTries, MaxRetired, MaxFinished, MaxPending,
    MaxHandles, MaxMessages,                                        \* Teammates
    PlanSession, MaxPlans, MaxUpdates, MaxStarts,                   \* PlanBooks
    HistoryProcess, PastSession, MaxRevision, MaxFaults, MaxSyncs,  \* HistoryIndex
    MemoryText, MaxMemories, MaxSequence, MaxWriteFaults,                 \* Memories
    Run, RunCall, Directory, NoCall, NoDirectory, MaxApprovals, MaxModes,      \* Approvals
    Subscriber, NoBody, BusDispatch, MaxSubscriptions,                 \* EventDispatch
    ToolCall, Width, NoValue, MaxReady, MaxResizes, MaxTicks, MaxRuns,  \* ToolFrames
    NoRun, MaxProcesses, MaxEvents, MaxGuestCalls,                  \* GuestCalls
    PluginRequest, Size, MaxBytes, MaxRequests,                     \* ResourceBudget
    Sender, NoEvent, MaxWaiting, MaxWeight, MaxOffers               \* ModelStream

VARIABLES
    part,                \* the component this behaviour is one of
    \* the variables of the components; 0 while it is another one
    agents, members, mailboxes, retired, finishedRuns, collections, messages,
    controller, teamAnswered, forgotten,
    book, bookFile, planSequence, planRunning, starts, settled, concerned,
    revision, deleted, step, historyListed, indexed, excerpts, historyFile,
    historyCache, unwritten, syncs, faults,
    collectionFile, collection, activated, available, stored, writeFaults,
    mode, approvalPending, resolutions, allowed_similar, asks, verdict, used,
    ended, modes, answered,
    table, arriving, busSequence, dispatches,
    cardPhase, cards, width, routes, tasks, swept, resizes, rounds, ticks,
    guestPhase, store, principal, guestListed, processes, waiting,
    guestRunning, active, latch, queued, guestEnded, answer, calls,
    stage, size, submitted, completed,
    channel, ledger, sender, taken, reader, task, result, offered, received

Team == INSTANCE Teammates WITH
    Owner <- TeamOwner, answered <- teamAnswered
Plan == INSTANCE PlanBooks WITH
    Session <- PlanSession, sequence <- planSequence, running <- planRunning
History == INSTANCE HistoryIndex WITH
    Process <- HistoryProcess, Session <- PastSession,
    listed <- historyListed
Memory == INSTANCE Memories WITH
    Text <- MemoryText
Approval == INSTANCE Approvals WITH
    Call <- RunCall, MaxCalls <- MaxApprovals, pending <- approvalPending
Dispatching == INSTANCE EventDispatch WITH
    Dispatch <- BusDispatch, sequence <- busSequence
Cards == INSTANCE ToolFrames WITH
    Call <- ToolCall, Nothing <- NoValue, phase <- cardPhase
Guest == INSTANCE GuestCalls WITH
    MaxCalls <- MaxGuestCalls, Nothing <- NoValue, phase <- guestPhase,
    listed <- guestListed, running <- guestRunning, ended <- guestEnded
Budgets == INSTANCE ResourceBudget WITH
    MaxCalls <- MaxRequests, Request <- PluginRequest
Stream == INSTANCE ModelStream WITH
    MaxPending <- MaxWaiting

------------------------------------------------------------------------------
teamVars ==
    <<agents, members, mailboxes, retired, finishedRuns, collections,
      messages, controller, teamAnswered, forgotten>>
planVars ==
    <<book, bookFile, planSequence, planRunning, starts, settled, concerned>>
historyVars ==
    <<revision, deleted, step, historyListed, indexed, excerpts, historyFile,
      historyCache, unwritten, syncs, faults>>
memoryVars ==
    <<collectionFile, collection, activated, available, stored, writeFaults>>
approvalVars ==
    <<mode, approvalPending, resolutions, allowed_similar, asks, verdict,
      used, ended, modes, answered>>
busVars ==
    <<table, arriving, busSequence, dispatches>>
toolFrameVars ==
    <<cardPhase, cards, width, routes, tasks, swept, resizes, rounds, ticks>>
guestVars ==
    <<guestPhase, store, principal, guestListed, processes, waiting,
      guestRunning, active, latch, queued, guestEnded, answer, calls>>
budgetVars ==
    <<stage, size, submitted, completed>>
streamVars ==
    <<channel, ledger, sender, taken, reader, task, result, offered, received>>
partsVars == <<part, teamVars, planVars, historyVars, memoryVars,
               approvalVars, busVars, toolFrameVars, guestVars, budgetVars,
               streamVars>>

\* Where a component stays while it is another one that goes on.
NoTeam ==
    /\ agents = 0 /\ members = 0 /\ mailboxes = 0 /\ retired = 0
    /\ finishedRuns = 0 /\ collections = 0 /\ messages = 0 /\ controller = 0
    /\ teamAnswered = 0 /\ forgotten = 0
NoPlan ==
    /\ book = 0 /\ bookFile = 0 /\ planSequence = 0 /\ planRunning = 0
    /\ starts = 0 /\ settled = 0 /\ concerned = 0
NoHistory ==
    /\ revision = 0 /\ deleted = 0 /\ step = 0 /\ historyListed = 0 /\ indexed = 0
    /\ excerpts = 0 /\ historyFile = 0 /\ historyCache = 0 /\ unwritten = 0
    /\ syncs = 0 /\ faults = 0
NoMemory ==
    /\ collectionFile = 0 /\ collection = 0 /\ activated = 0 /\ available = 0
    /\ stored = 0 /\ writeFaults = 0
NoApproval ==
    /\ mode = 0 /\ approvalPending = 0 /\ resolutions = 0 /\ allowed_similar = 0
    /\ asks = 0 /\ verdict = 0 /\ used = 0 /\ ended = 0 /\ modes = 0
    /\ answered = 0
NoDispatching ==
    /\ table = 0 /\ arriving = 0 /\ busSequence = 0 /\ dispatches = 0
NoCards ==
    /\ cardPhase = 0 /\ cards = 0 /\ width = 0 /\ routes = 0 /\ tasks = 0
    /\ swept = 0 /\ resizes = 0 /\ rounds = 0 /\ ticks = 0
NoGuest ==
    /\ guestPhase = 0 /\ store = 0 /\ principal = 0 /\ guestListed = 0
    /\ processes = 0 /\ waiting = 0 /\ guestRunning = 0 /\ active = 0 /\ latch = 0
    /\ queued = 0 /\ guestEnded = 0 /\ answer = 0 /\ calls = 0
NoBudgets ==
    /\ stage = 0 /\ size = 0 /\ submitted = 0 /\ completed = 0
NoStream ==
    /\ channel = 0 /\ ledger = 0 /\ sender = 0 /\ taken = 0 /\ reader = 0
    /\ task = 0 /\ result = 0 /\ offered = 0 /\ received = 0

OwnParts ==
    {"team", "plan", "history", "memory", "approval", "dispatch",
         "cards", "guest", "budget", "stream"}

\* Whatever other parts there are.
PartsInit ==
    /\ IF part = "team" THEN Team!Init ELSE NoTeam
    /\ IF part = "plan" THEN Plan!Init ELSE NoPlan
    /\ IF part = "history" THEN History!Init ELSE NoHistory
    /\ IF part = "memory" THEN Memory!Init ELSE NoMemory
    /\ IF part = "approval" THEN Approval!Init ELSE NoApproval
    /\ IF part = "dispatch" THEN Dispatching!Init ELSE NoDispatching
    /\ IF part = "cards" THEN Cards!Init ELSE NoCards
    /\ IF part = "guest" THEN Guest!Init ELSE NoGuest
    /\ IF part = "budget" THEN Budgets!Init ELSE NoBudgets
    /\ IF part = "stream" THEN Stream!Init ELSE NoStream

\* A step of one component, and the others stay.
PartsStay ==
    /\ UNCHANGED part
    /\ part # "team" => UNCHANGED teamVars
    /\ part # "plan" => UNCHANGED planVars
    /\ part # "history" => UNCHANGED historyVars
    /\ part # "memory" => UNCHANGED memoryVars
    /\ part # "approval" => UNCHANGED approvalVars
    /\ part # "dispatch" => UNCHANGED busVars
    /\ part # "cards" => UNCHANGED toolFrameVars
    /\ part # "guest" => UNCHANGED guestVars
    /\ part # "budget" => UNCHANGED budgetVars
    /\ part # "stream" => UNCHANGED streamVars

PartsGo ==
    \/ part = "team" /\ Team!Next
    \/ part = "plan" /\ Plan!Next
    \/ part = "history" /\ History!Next
    \/ part = "memory" /\ Memory!Next
    \/ part = "approval" /\ Approval!Next
    \/ part = "dispatch" /\ Dispatching!Next
    \/ part = "cards" /\ Cards!Next
    \/ part = "guest" /\ Guest!Next
    \/ part = "budget" /\ Budgets!Next
    \/ part = "stream" /\ Stream!Next

PartsNext == PartsStay /\ (PartsGo \/ part \notin OwnParts)

PartsSpec == PartsInit /\ [][PartsNext]_partsVars

------------------------------------------------------------------------------

\* teammate-plugin: no agent the Runtime gave the plugin is forgotten, no message is
\* carried out twice or thrown away, and members leave when they are done and only then.
TeammatesKept ==
    /\ [](part = "team" => Team!HandlesAccounted /\ Team!HandedOnce)
    /\ [][part = "team" => Team!NothingRetiredEarly /\ Team!DoneMembersLeave]_partsVars

\* plan-plugin: sessions do not touch each other's plan, and none shows a step in
\* progress for a run that is over.
PlansKept ==
    /\ [](part = "plan" => Plan!NoPhantomProgress)
    /\ [][part = "plan" => Plan!PlansKeptApart]_partsVars

\* knowledge-plugin and memory-plugin, whose data outlive them: what is marked as read is
\* in the index, and an id means one memory for ever.
StoredSound ==
    /\ part = "history" => History!IndexCovers
    /\ part = "memory" => Memory!IdsNeverReused

\* permission-plugin: nothing runs that the user did not allow, and nobody is asked twice.
ApprovalsKept ==
    /\ [](part = "approval" => Approval!AskedOnce)
    /\ [][part = "approval" => Approval!NeverUnasked]_partsVars

\* event/src/bus.rs: every gate is asked, in one order over both buses; the first
\* refusal stands, and an observer sees the outcome.
\* host/src/wasm/mod.rs, capability: what a guest does in a call belongs to that call and
\* its run, a Store takes all it held with it, and the host's limits hold and come back.
\* plugin_view.rs: a call of a tool is shown in its last state.
\* services.rs, model/stream.rs: a call the budget refuses leaves no trace and was refused
\* for a reason; what waits in a stream is bounded, nothing is dropped in silence, and only
\* a transient failure is retried.
HostSound ==
    /\ part = "dispatch" =>
          /\ Dispatching!NoGateMissed /\ Dispatching!MonitorsSeeTheEnd
          /\ Dispatching!FirstRefusalStands /\ Dispatching!GatesStayWithChild
    /\ part = "guest" =>
          /\ Guest!EventsOfTheirRun /\ Guest!NothingLeftBehind
          /\ Guest!AnswerOfOwnCall /\ Guest!NothingOutlivesStore
    /\ part = "cards" => Cards!FrameOfLastState
    /\ part = "budget" => Budgets!NothingLeaks /\ Budgets!RefusedForCause
    /\ part = "stream" =>
          /\ Stream!PendingBounded /\ Stream!NoSilentLoss
          /\ Stream!RetryOfItsError /\ Stream!RequestStopped

ASSUME TeamConstants ==
    /\ "none" \notin TeamOwner /\ Self \in TeamOwner /\ MaxHandles \in Nat
    /\ MaxPending \in Nat \ {0} /\ MaxFinished \in Nat \ {0} /\ MaxRetired \in Nat
ASSUME ApprovalConstants == NoCall \notin Approval!Asked
ASSUME BusConstants == NoBody \notin Subscriber
ASSUME CardConstants == NoValue \notin Width \cup Cards!Frames
ASSUME GuestConstants == NoRun \notin Run /\ NoValue \notin Guest!Calls
ASSUME BudgetConstants ==
    IsFiniteSet(PluginRequest) /\ Size \subseteq Nat /\ MaxBytes \in Nat /\ MaxRequests \in Nat
ASSUME StreamConstants ==
    /\ MaxWaiting \in Nat /\ MaxWeight \in Nat
    /\ NoEvent \notin Stream!Event \cup {"overflow", "gone"}
==============================================================================
