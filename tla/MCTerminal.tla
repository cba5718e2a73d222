------------------------------ MODULE MCTerminal -----------------------------
(***************************************************************************)
(* The terminal application in four parts, each alone: the messages of the *)
(* user and their runs, the main conversation and the view of a member     *)
(* while a run streams into them, the stack of views and the readers       *)
(* behind it.  They share no state here, so that a behaviour of this       *)
(* module is a behaviour of one of them.  One run of TLC checks the four.  *)
(* The module extends that of the messages, whose variables stay as they   *)
(* began while it is another part that goes on.                            *)
(***************************************************************************)
EXTENDS TerminalRuns, TLC

CONSTANTS
    Call, Instance, Page

VARIABLES
    part,                \* the component this behaviour is one of
    \* the variables of the others, in the order of their modules; 0 for none
    s1, s2, s3, s4, s5, s6, s7, s8, s9

Screen == INSTANCE MainTranscript WITH
    MaxRecords <- 7, MaxNotes <- 1, log <- s1, phase <- s2, batches <- s3,
    open <- s4, inbox <- s5, shown <- s6, running <- s7,
    streamCancelled <- s8, notes <- s9

Member == INSTANCE AgentTranscript WITH
    MaxRecords <- 6, MaxRemarks <- 2, log <- s1, phase <- s2, applied <- s3,
    view <- s4, closed <- s5, active <- s6, cut <- s7, mixed <- s8,
    remarks <- s9

Views == INSTANCE AgentViews WITH
    NoView <- None, MaxRuns <- 2, MaxEvents <- 2, MaxInputs <- 3, runs <- s1,
    stack <- s2, views <- s3, readers <- s4, inbox <- s5, synced <- s6,
    inputs <- s7

------------------------------------------------------------------------------
Others == <<s1, s2, s3, s4, s5, s6, s7, s8, s9>>
allVars == <<part, vars, Others>>

\* Where the parts that this module extends stay while another one goes on.
RunsRest == Init /\ ~plugins

AllInit ==
    \/ /\ part = "runs" /\ Init
       /\ s1 = 0 /\ s2 = 0 /\ s3 = 0 /\ s4 = 0 /\ s5 = 0 /\ s6 = 0 /\ s7 = 0 /\ s8 = 0
       /\ s9 = 0
    \/ /\ part = "screen" /\ Screen!Init
       /\ RunsRest
    \/ /\ part = "member" /\ Member!Init
       /\ RunsRest
    \/ /\ part = "views" /\ Views!Init
       /\ RunsRest
       /\ s8 = 0 /\ s9 = 0

AllNext ==
    /\ UNCHANGED part
    /\ \/ part = "runs" /\ Next /\ UNCHANGED <<Others>>
       \/ /\ part = "screen" /\ Screen!Next
          /\ UNCHANGED <<vars>>
       \/ /\ part = "member" /\ Member!Next
          /\ UNCHANGED <<vars>>
       \/ /\ part = "views" /\ Views!Next
          /\ UNCHANGED <<vars, s8, s9>>

AllSpec == AllInit /\ [][AllNext]_allVars

------------------------------------------------------------------------------

\* LostOnlyByReplacing, QueueObeysUser and SavesInStep are properties of the module this one
\* extends.

\* event_sink.rs, agent_view.rs, view.rs: what is on screen is what the run recorded, in
\* order, each view has the events of its agent and once, no reader goes on for a view
\* that was left, and nothing moves any more once the user has stopped the run.
ScreenTrue ==
    /\ [](part = "screen" => Screen!ScreenShowsRun /\ Screen!EachBatchAnnounced)
    /\ [](part = "member" => Member!ViewShowsRuns /\ Member!NothingHeldBack)
    /\ [](part = "views" => Views!ViewInOrder /\ Views!NoStrayReader /\ Views!ViewsCaughtUp)
    /\ [][part = "screen" => Screen!StaysWhenStopped]_allVars

Symmetry == Permutations(Input) \cup Permutations(Call)
==============================================================================
