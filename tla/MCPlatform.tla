------------------------------ MODULE MCPlatform -----------------------------
(***************************************************************************)
(* Components of the host and the kernel, each alone: the manager of       *)
(* plugins, the calls between them and their progressive loading, the      *)
(* context loader, and the answers of providers.  They share no state, so  *)
(* that a behaviour of this module is a behaviour of one of them.  One run *)
(* of TLC checks them all.  The module extends those of the manager and of *)
(* the calls, whose variables stay as they began while it is another part  *)
(* that goes on.                                                           *)
(***************************************************************************)
EXTENDS PluginManager, ServiceCalls, TLC

CONSTANTS
    p1, p2, f1, f2, f3, f4, None

VARIABLES
    part,                \* the component this behaviour is one of
    \* the variables of the others, in the order of their modules; 0 for none
    s1, s2, s3, s4, s5, s6, s7, s8, s9, s10, s11

\* The second version of one plugin asks for more than the first, and it needs the other.
Profiles == [b \in {p1, p2} \X {1, 2} |-> IF b = <<p1, 2>> THEN "wide" ELSE "plain"]
Dependencies == [b \in {p1, p2} \X {1, 2} |-> IF b[1] = p2 THEN {p1} ELSE {}]
Lengths == (p1 :> 7) @@ (p2 :> 4)
\* Texts before and after calls, and calls in parallel.
SpokenAnswers == {<<"text">>, <<"call">>, <<"text", "call">>, <<"call", "call">>,
                  <<"text", "call", "text">>, <<"text", "call", "call">>}

Load == INSTANCE PluginLoad WITH
    N <- 3, MaxLoading <- 2, NoOwner <- None, required <- s1, optional <- s2,
    unfit <- s3, policyOwner <- s4, order <- s5, pending <- s6,
    loading <- s7, published <- s8, lost <- s9, crashed <- s10,
    aborted <- s11

Context == INSTANCE ContextCompaction WITH
    Run <- {p1, p2}, NoCache <- None, NoLoad <- None, MaxLength <- Lengths,
    Mark <- 6, RecentTarget <- 4, KeepRecent <- 1, Batch <- 2,
    MaxRevisions <- 1, MaxRoutes <- 2, history <- s1, revisions <- s2,
    route <- s3, cache <- s4, load <- s5, given <- s6

Answer == INSTANCE ProviderStreams WITH
    Answers <- SpokenAnswers, Pieces <- 2, Nothing <- None, protocol <- s1,
    style <- s2, outputs <- s3, sent <- s4, cut <- s5, client <- s6,
    result <- s7

------------------------------------------------------------------------------
Others == <<s1, s2, s3, s4, s5, s6, s7, s8, s9, s10, s11>>
allVars == <<part, managerVars, callVars, Others>>

\* Where the parts that this module extends stay while another one goes on.
ManagerRest == Init
CallsRest == CallsInit /\ dependencies = [c \in Component |-> {}]

AllInit ==
    \/ /\ part = "manager" /\ Init
       /\ CallsRest
       /\ s1 = 0 /\ s2 = 0 /\ s3 = 0 /\ s4 = 0 /\ s5 = 0 /\ s6 = 0 /\ s7 = 0 /\ s8 = 0
       /\ s9 = 0 /\ s10 = 0 /\ s11 = 0
    \/ /\ part = "calls" /\ CallsInit
       /\ ManagerRest
       /\ s1 = 0 /\ s2 = 0 /\ s3 = 0 /\ s4 = 0 /\ s5 = 0 /\ s6 = 0 /\ s7 = 0 /\ s8 = 0
       /\ s9 = 0 /\ s10 = 0 /\ s11 = 0
    \/ /\ part = "load" /\ Load!Init
       /\ ManagerRest /\ CallsRest
    \/ /\ part = "context" /\ Context!Init
       /\ ManagerRest /\ CallsRest
       /\ s7 = 0 /\ s8 = 0 /\ s9 = 0 /\ s10 = 0 /\ s11 = 0
    \/ /\ part = "answer" /\ Answer!Init
       /\ ManagerRest /\ CallsRest
       /\ s8 = 0 /\ s9 = 0 /\ s10 = 0 /\ s11 = 0

AllNext ==
    /\ UNCHANGED part
    /\ \/ part = "manager" /\ Next /\ UNCHANGED <<callVars, Others>>
       \/ part = "calls" /\ CallsNext /\ UNCHANGED <<managerVars, Others>>
       \/ /\ part = "load" /\ Load!Next
          /\ UNCHANGED <<managerVars, callVars>>
       \/ /\ part = "context" /\ Context!Next
          /\ UNCHANGED <<managerVars, callVars, s7, s8, s9, s10, s11>>
       \/ /\ part = "answer" /\ Answer!Next
          /\ UNCHANGED <<managerVars, callVars, s8, s9, s10, s11>>

AllSpec == AllInit /\ [][AllNext]_allVars

------------------------------------------------------------------------------

\* ManagerSound and CallsSound are properties of the modules this one extends.

\* wasm/loader.rs: the loading goes on, in the order of the dependencies, behind the
\* policy, and a failure takes with it only what needs the plugin that failed.
LoadingSound == part = "load" =>
    Load!NeverStalls /\ Load!RequiredFirst /\ Load!NothingBeforePolicy /\ Load!OthersLoad

\* context/src/lib.rs: a shortened context has every message, calls with their results,
\* the recent results in full, and is never taken from the cache of another route.
\* provider: an answer told in part, twice or only at the end is the one the model gave,
\* and its listeners heard the same.
ContextSound ==
    /\ part = "context" =>
          /\ Context!NothingLost /\ Context!PairsKept
          /\ Context!RecentSpeaks /\ Context!CacheOfRoute
    /\ part = "answer" => Answer!AnswerIsWhole /\ Answer!ListenersAgree

ASSUME CallConstants == CallsAssumption

Symmetry == Permutations({f1, f2, f3, f4})
==============================================================================
