------------------------------ MODULE Extensions -----------------------------
(***************************************************************************)
(* The parts of Parts, and beside them the requests to providers, what     *)
(* plugins contribute and what they hold, the admission of tools and the   *)
(* frames of views, each alone.  One run of TLC checks them all, for the   *)
(* constants that Extensions.cfg gives.  The module extends those of the   *)
(* admission and of the frames of views, whose variables stay as they      *)
(* began while it is another part that goes on.                            *)
(***************************************************************************)
EXTENDS Parts, ToolAdmission, ViewFrames, TLC

CONSTANTS
    Provider, Model, Endpoint, Short, Long, CutIds, Plain, Legacy, NoRequest, MaxMessagesSent,
    MaxRebinds,                                                     \* ProviderRequests
    Name, ItemSize, MaxItem, MaxOwned, MaxNames, MaxEmitted,        \* Contributions
    Output, MaxLine, Policy, MaxChildren, MaxSockets, MaxTransfer, ReadBudget,
    MaxHandlesHeld                                                  \* GuestPipes

VARIABLES
    \* the variables of the components; 0 while it is another one
    session, bound, selected, providerRequest, wire, rebinds,
    held, events, bytes, emitted, delivered, inOrder,
    children, told, sockets, nextChild, nextSocket

Requests == INSTANCE ProviderRequests WITH
    MaxMessages <- MaxMessagesSent, Nothing <- NoRequest, Cut <- CutIds,
    request <- providerRequest
Given == INSTANCE Contributions WITH
    Size <- ItemSize, MaxBytes <- MaxOwned, MaxEvents <- MaxEmitted,
    received <- delivered
Pipes == INSTANCE GuestPipes WITH
    MaxHandles <- MaxHandlesHeld

------------------------------------------------------------------------------
requestVars ==
    <<session, bound, selected, providerRequest, wire, rebinds>>
contributionVars ==
    <<held, events, bytes, emitted, delivered, inOrder>>
pipeVars ==
    <<children, told, sockets, nextChild, nextSocket>>
allVars == <<partsVars, admissionVars, frameVars, requestVars,
             contributionVars, pipeVars>>

\* Where a component stays while it is another one that goes on.
NoTools == AdmissionInit /\ policy = [tools |-> All, processes |-> TRUE]
NoFrames == FramesInit
NoRequests ==
    /\ session = 0 /\ bound = 0 /\ selected = 0 /\ providerRequest = 0 /\ wire = 0
    /\ rebinds = 0
NoGiven ==
    /\ held = 0 /\ events = 0 /\ bytes = 0 /\ emitted = 0 /\ delivered = 0
    /\ inOrder = 0
NoPipes ==
    /\ children = 0 /\ told = 0 /\ sockets = 0 /\ nextChild = 0 /\ nextSocket = 0

Part == OwnParts \cup
    {"tools", "frames", "requests", "given", "pipes"}

AllInit ==
    /\ part \in Part
    /\ PartsInit
    /\ IF part = "tools" THEN AdmissionInit ELSE NoTools
    /\ IF part = "frames" THEN FramesInit ELSE NoFrames
    /\ IF part = "requests" THEN Requests!Init ELSE NoRequests
    /\ IF part = "given" THEN Given!Init ELSE NoGiven
    /\ IF part = "pipes" THEN Pipes!Init ELSE NoPipes

AllNext ==
    /\ PartsStay
    /\ part # "tools" => UNCHANGED admissionVars
    /\ part # "frames" => UNCHANGED frameVars
    /\ part # "requests" => UNCHANGED requestVars
    /\ part # "given" => UNCHANGED contributionVars
    /\ part # "pipes" => UNCHANGED pipeVars
    /\ \/ PartsGo
       \/ part = "tools" /\ AdmissionNext
       \/ part = "frames" /\ FramesNext
       \/ part = "requests" /\ Requests!Next
       \/ part = "given" /\ Given!Next
       \/ part = "pipes" /\ Pipes!Next

AllSpec == AllInit /\ [][AllNext]_allVars

------------------------------------------------------------------------------

\* transform.rs, provider: a request has the whole context, each call with its result, and
\* what an endpoint signed goes to no other.
\* capability: what plugins contribute is counted to the byte, and a line they read is
\* whole or an error.
LimitsSound ==
    /\ part = "requests" =>
          /\ Requests!AllIsSent /\ Requests!CallsPaired
          /\ Requests!SignedStaysHome /\ Requests!FastPathSame
    /\ part = "given" => Given!BytesExact /\ Given!EventsToTheirRun
    /\ part = "pipes" => Pipes!LinesWhole /\ Pipes!HandlesBounded

\* StoredSound, HostSound, TeammatesKept, PlansKept and ApprovalsKept, RoundsSound and
\* FramesSound are properties of the modules this one extends.

ASSUME AdmissionConstants == Distinct
ASSUME FrameConstants == ViewsApart

------------------------------------------------------------------------------
(* Values of the constants of ProviderRequests and GuestPipes for TLC.     *)

\* Every protocol, and two endpoints of the one that signs.
Endpoints == {[kind |-> "anthropic", scope |-> 1]} \cup
    [kind : {"anthropic", "responses", "chat", "google", "bedrock"}, scope : {2}]
\* The long ids share their prefixes, and the first is an id somebody else has.
SharedPrefixes == [i \in Long |-> <<"i", "j", "k">>]
\* Lines at the limit and over it, with both ends of a line, and a rest without one.
Outputs == {<<"x", "x", "r", "n", "x">>, <<"x", "x", "x", "n", "x">>,
            <<"x", "r", "n", "n", "x", "r">>, <<"x", "x", "r">>}

\* The other sets of Extensions.cfg are built from the same model values.
Symmetry == Permutations(Run) \cup Permutations(RunCall)
==============================================================================
