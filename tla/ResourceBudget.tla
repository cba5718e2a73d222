--------------------------- MODULE ResourceBudget ---------------------------
(***************************************************************************)
(* The budget of one activation of a plugin (host/src/services.rs): every  *)
(* HTTP request and every model completion reserves its bytes and then one *)
(* call, each with one atomic update, and several calls of the plugin, and *)
(* of the clones of its services, reserve at the same time.  A refused     *)
(* call gives back what it had reserved.  Counters of 64 bits do not       *)
(* overflow before the bytes of a request are refused, so checked_add is   *)
(* plain addition here.                                                    *)
(***************************************************************************)
EXTENDS Naturals, FiniteSets

CONSTANTS Request,    \* the requests of one activation
          Size,       \* sizes of an input, in bytes
          MaxBytes,   \* limits.max_plugin_http_request_bytes or its model twin
          MaxCalls    \* limits.max_plugin_http_requests or its model twin

VARIABLES stage,      \* how far a request has come
          size,       \* its bytes
          submitted,  \* submitted_input_bytes
          completed   \* completed_calls

budgetVars == <<stage, size, submitted, completed>>

TypeOK ==
  /\ stage \in [Request -> {"idle", "asks", "sized", "refusing", "granted", "refused"}]
  /\ size \in [Request -> Size \cup {0}]
  /\ submitted \in Nat
  /\ completed \in Nat

Init ==
  /\ stage = [r \in Request |-> "idle"]
  /\ size = [r \in Request |-> 0]
  /\ submitted = 0
  /\ completed = 0

At(r, from, to) == stage[r] = from /\ stage' = [stage EXCEPT ![r] = to]

Ask(r, n) ==
  /\ At(r, "idle", "asks")
  /\ size' = [size EXCEPT ![r] = n]
  /\ UNCHANGED <<submitted, completed>>

\* The first try_reserve.
ReserveBytes(r) ==
  /\ UNCHANGED <<size, completed>>
  /\ \/ /\ submitted + size[r] <= MaxBytes
        /\ At(r, "asks", "sized")
        /\ submitted' = submitted + size[r]
     \/ /\ submitted + size[r] > MaxBytes
        /\ At(r, "asks", "refused")
        /\ UNCHANGED submitted

\* The second try_reserve; its failure leaves the bytes to be given back.
ReserveCall(r) ==
  /\ UNCHANGED <<size, submitted>>
  /\ \/ /\ completed < MaxCalls
        /\ At(r, "sized", "granted")
        /\ completed' = completed + 1
     \/ /\ completed >= MaxCalls
        /\ At(r, "sized", "refusing")
        /\ UNCHANGED completed

Returned_Nothing(n) == 0   \* mutant
\* What the error path subtracts.
Returned(n) == n

GiveBack(r) ==
  /\ At(r, "refusing", "refused")
  /\ submitted' = submitted - Returned(size[r])
  /\ UNCHANGED <<size, completed>>

Next == \E r \in Request :
  \/ \E n \in Size : Ask(r, n)
  \/ ReserveBytes(r)
  \/ ReserveCall(r)
  \/ GiveBack(r)

Spec == Init /\ [][Next]_budgetVars
-----------------------------------------------------------------------------
In(s) == {r \in Request : stage[r] = s}
\* The bytes of some requests, one pair for each byte.
Bytes(S) == Cardinality({p \in S \X (1..MaxBytes) : p[2] <= size[p[1]]})
Settled == In("asks") \cup In("sized") \cup In("refusing") = {}

\* The limits hold in every interleaving, and a call that was refused has
\* left no trace in the counters: "失败时不增加任何计数".
NothingLeaks ==
  /\ submitted <= MaxBytes
  /\ completed <= MaxCalls
  /\ Settled => /\ submitted = Bytes(In("granted"))
                /\ completed = Cardinality(In("granted"))

\* Nobody is refused for the bytes of a call that is refused itself: once the
\* dust has settled, every refused call would still be refused.
RefusedForCause ==
  Settled => \A r \in In("refused") :
    completed = MaxCalls \/ submitted + size[r] > MaxBytes

-----------------------------------------------------------------------------
(* What makes both inductive: at any time the bytes are those of the calls *)
(* that hold some, and who gives back was refused by a full budget.        *)
Holders == In("sized") \cup In("refusing") \cup In("granted")

Counted ==
  /\ submitted <= MaxBytes /\ completed <= MaxCalls
  /\ submitted = Bytes(Holders) /\ \A r \in Holders : size[r] <= MaxBytes
  /\ completed = Cardinality(In("granted"))

Refusals ==
  /\ In("refusing") # {} => completed = MaxCalls
  /\ \A r \in In("refused") : completed = MaxCalls \/ submitted + size[r] > MaxBytes

BudgetInv == TypeOK /\ Counted /\ Refusals
==============================================================================
