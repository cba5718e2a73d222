------------------------- MODULE LivePluginHostProofs -------------------------
(***************************************************************************)
(* Theorems about LivePluginHost, for any plugins, runs, priorities and    *)
(* any number of attempts.                                                 *)
(***************************************************************************)
EXTENDS LivePluginHost, FiniteSetTheorems, FunctionTheorems, TLAPS

Entry == {"none", "active", "delivered", "completed", "pending", "cleaning"}
Place == {"idle", "noticed", "closing", "cleaning", "over"} \cup InRun

Cleanup == [drain : BOOLEAN, attempt : Nat, left : SUBSET Plugin, failed : BOOLEAN]

\* The types of what the argument is about.
Shape ==
    /\ at \in [Run -> Place] /\ entry \in [Run -> Entry]
    /\ delivered \in [Run -> BOOLEAN]
    /\ cleanup \in [Run -> Cleanup]
    /\ snap \in [Run -> [hosts : SUBSET Plugin, planned : BOOLEAN]]
    /\ current \subseteq Plugin /\ planned \in BOOLEAN
    /\ DOMAIN aborted = Run

\* Once RunFinished was delivered the snapshot is on its way out and whatever
\* is under way is a drain, also when it is rolled back and begun anew.
OnlyDrained(r) ==
    delivered[r] =>
        /\ entry[r] \in {"delivered", "completed", "cleaning", "none"}
        /\ at[r] \notin {"idle", "started"}
        /\ at[r] = "cleaning" \/ entry[r] = "cleaning" => cleanup[r].drain

HInv == Shape /\ \A r \in Run : OnlyDrained(r)

LEMMA HInvInit == Init => HInv
<1> SUFFICES ASSUME Init PROVE HInv
  OBVIOUS
<1>1. /\ at = [r \in Run |-> "idle"] /\ entry = [r \in Run |-> "none"]
      /\ cleanup = [r \in Run |-> NoCleanup] /\ snap = [r \in Run |-> Nothing]
      /\ delivered = [r \in Run |-> FALSE] /\ aborted = [r \in Run |-> {}]
      /\ current = {} /\ planned = FALSE
  BY DEF Init
<1>2. Shape
  BY <1>1 DEF Shape, Nothing, NoCleanup, Cleanup, Entry, Place
<1>3. \A r \in Run : OnlyDrained(r)
  BY <1>1 DEF OnlyDrained
<1> QED
  BY <1>2, <1>3 DEF HInv

\* The loader's steps and those of a run that touch nothing of the argument.
LEMMA LoadStep == ASSUME HInv, Load PROVE HInv'
BY DEF HInv, Shape, OnlyDrained, Load, Plan, Publish, Subscribe, record, told, ended,
       Plugin

\* A step of a run up to its end; the end is announced only from "running".
LEMMA RunStep ==
    ASSUME HInv, NEW r \in Run,
           \/ Start(r) \/ OpenSnapshot(r) \/ Started(r) \/ CallTool(r) \/ GuardRefuses(r)
           \/ PluginRefuses(r) \/ GroupPasses(r) \/ Admit(r) \/ Execute(r) \/ Finish(r)
    PROVE  HInv'
<1> USE DEF HInv, Shape, OnlyDrained, Entry, Place, InRun, Go, loader, record, told, ended
<1>1. CASE Start(r)
  BY <1>1 DEF Start, Collect
<1>2. CASE OpenSnapshot(r)
  <2>1. /\ at[r] = "started" /\ ~delivered[r]
        /\ UNCHANGED <<at, cleanup, delivered, current, planned, aborted>>
    BY <1>2 DEF OpenSnapshot
  <2>2. CASE UNCHANGED <<entry, snap>>
    BY <2>1, <2>2
  <2>3. CASE /\ entry' = [entry EXCEPT ![r] = "active"]
             /\ snap' = [snap EXCEPT ![r] = [hosts |-> current, planned |-> planned]]
    BY <2>1, <2>3
  <2> QED
    BY <1>2, <2>2, <2>3 DEF OpenSnapshot
<1>3. CASE Started(r)
  BY <1>3 DEF Started
<1>4. CASE CallTool(r) \/ Finish(r)
  BY <1>4 DEF CallTool, Finish, Collect
<1>5. CASE GuardRefuses(r) \/ PluginRefuses(r)
  BY <1>5 DEF GuardRefuses, PluginRefuses, Refuse
<1>6. CASE GroupPasses(r) \/ Admit(r) \/ Execute(r)
  BY <1>6 DEF GroupPasses, Handled, Admit, Execute
<1> QED
  BY <1>1, <1>2, <1>3, <1>4, <1>5, <1>6

\* RunFinished is delivered to all only while the snapshot is active, which it
\* is no more from then on.
LEMMA EndStep ==
    ASSUME HInv, NEW r \in Run,
           \/ FinishGroup(r) \/ Drain(r) \/ NoticeGroup(r) \/ Noticed(r) \/ Return(r)
           \/ Fail(r) \/ ForceDrop(r)
    PROVE  HInv'
<1> USE DEF HInv, Shape, OnlyDrained, Entry, Place, InRun, Go, loader, record, told, ended
<1>1. CASE FinishGroup(r)
  BY <1>1 DEF FinishGroup, Handled
<1>2. CASE Drain(r)
  BY <1>2 DEF Drain, Collect
<1>3. CASE NoticeGroup(r) \/ Noticed(r) \/ Return(r)
  BY <1>3 DEF NoticeGroup, Handled, Noticed, Return
<1>4. CASE Fail(r)
  BY <1>4 DEF Fail
<1>5. CASE ForceDrop(r)
  <2>1. /\ RolledBack(r) \in Entry \ {"cleaning"} /\ NoCleanup \in Cleanup
        /\ delivered[r] => RolledBack(r) \in {"delivered", "completed", "none"}
    BY DEF RolledBack, NoCleanup, Cleanup
  <2>2. /\ entry' = [entry EXCEPT ![r] = RolledBack(r)] /\ at[r] # "idle"
        /\ cleanup' = [cleanup EXCEPT ![r] = NoCleanup]
        /\ at' = [at EXCEPT ![r] = "closing"]
        /\ UNCHANGED <<delivered, snap, current, planned, aborted>>
    BY <1>5 DEF ForceDrop
  <2> HIDE DEF NoCleanup
  <2> QED
    BY <2>1, <2>2
<1> QED
  BY <1>1, <1>2, <1>3, <1>4, <1>5

\* An attempt that fails is followed by one of the same kind, or by none.
LEMMA NextAttempt ==
    ASSUME Shape, NEW r \in Run, AttemptFails(r)
    PROVE  \/ /\ UNCHANGED <<at, entry>>
              /\ \E c \in Cleanup : /\ c.drain = cleanup[r].drain
                                    /\ cleanup' = [cleanup EXCEPT ![r] = c]
           \/ /\ at' = [at EXCEPT ![r] = "over"]
              /\ entry' = [entry EXCEPT ![r] = "none"]
              /\ cleanup' = [cleanup EXCEPT ![r] = NoCleanup]
<1>1. CASE MayRetry(r)
  <2> DEFINE c == Attempt(r, cleanup[r].drain, cleanup[r].attempt + 1)
  <2>1. c \in Cleanup /\ c.drain = cleanup[r].drain
    BY DEF Attempt, Shape, Cleanup
  <2>2. cleanup' = [cleanup EXCEPT ![r] = c] /\ UNCHANGED <<at, entry>>
    BY <1>1 DEF AttemptFails
  <2> QED
    BY <2>1, <2>2
<1>2. CASE ~MayRetry(r)
  BY <1>2 DEF AttemptFails, Over, Go
<1> QED
  BY <1>1, <1>2

LEMMA AttemptFailsStep ==
    ASSUME HInv, NEW r \in Run, at[r] = "cleaning", AttemptFails(r),
           UNCHANGED <<delivered, snap, current, planned>>,
           DOMAIN aborted' = Run
    PROVE  HInv'
<1> USE DEF HInv, Shape, OnlyDrained
<1>1. CASE /\ UNCHANGED <<at, entry>>
           /\ \E c \in Cleanup : /\ c.drain = cleanup[r].drain
                                 /\ cleanup' = [cleanup EXCEPT ![r] = c]
  BY <1>1
<1>2. CASE /\ at' = [at EXCEPT ![r] = "over"]
           /\ entry' = [entry EXCEPT ![r] = "none"]
           /\ cleanup' = [cleanup EXCEPT ![r] = NoCleanup]
  <2>1. "over" \in Place /\ "none" \in Entry /\ NoCleanup \in Cleanup
    BY DEF Place, Entry, NoCleanup, Cleanup
  <2> QED
    BY <1>2, <2>1
<1> QED
  BY <1>1, <1>2, NextAttempt

\* A plugin is told of an abort, never of what is only drained.
LEMMA CleanOneStep == ASSUME HInv, NEW r \in Run, CleanOne(r) PROVE HInv'
<1> DEFINE p == NextHost(r)
<1>1. PICK fails \in BOOLEAN : Visit(r, p, fails)
  BY DEF CleanOne
<1> HIDE DEF p
<1>2. at[r] = "cleaning" /\ UNCHANGED <<delivered, snap, current, planned>>
  BY DEF CleanOne, loader
<1>3. DOMAIN aborted' = Run
  BY <1>1 DEF Visit, HInv, Shape
<1>4. CASE cleanup[r].drain /\ fails
  BY <1>1, <1>2, <1>3, <1>4, AttemptFailsStep DEF Visit
<1>5. CASE ~(cleanup[r].drain /\ fails)
  <2> DEFINE c == [cleanup[r] EXCEPT !.left = @ \ {p}, !.failed = @ \/ fails]
  <2>1. c \in Cleanup /\ c.drain = cleanup[r].drain
    BY DEF HInv, Shape, Cleanup
  <2>2. cleanup' = [cleanup EXCEPT ![r] = c]
    BY <1>1, <1>5 DEF Visit
  <2>3. UNCHANGED <<at, entry>>
    BY <1>1, <1>5 DEF Visit
  <2> HIDE DEF c
  <2> QED
    BY <1>2, <1>3, <2>1, <2>2, <2>3 DEF HInv, Shape, OnlyDrained
<1> QED
  BY <1>4, <1>5

LEMMA CleanDoneStep == ASSUME HInv, NEW r \in Run, CleanDone(r) PROVE HInv'
<1>1. /\ at[r] = "cleaning" /\ UNCHANGED <<delivered, snap, current, planned, aborted>>
  BY DEF CleanDone, loader, told
<1>2. CASE cleanup[r].failed
  <2>1. AttemptFails(r)
    BY <1>2 DEF CleanDone
  <2>2. DOMAIN aborted' = Run
    BY <1>1 DEF HInv, Shape
  <2> QED
    BY <1>1, <2>1, <2>2, AttemptFailsStep
<1>3. CASE ~cleanup[r].failed
  <2>1. "over" \in Place /\ "none" \in Entry /\ NoCleanup \in Cleanup
    BY DEF Place, Entry, NoCleanup, Cleanup
  <2>2. /\ at' = [at EXCEPT ![r] = "over"] /\ entry' = [entry EXCEPT ![r] = "none"]
        /\ cleanup' = [cleanup EXCEPT ![r] = NoCleanup]
    BY <1>3 DEF CleanDone, Over, Go
  <2> QED
    BY <1>1, <2>1, <2>2 DEF HInv, Shape, OnlyDrained
<1> QED
  BY <1>2, <1>3

\* finish_run drains what was delivered, and goes on with a drain as one.
LEMMA FinishRunStep == ASSUME HInv, NEW r \in Run, FinishRun(r) PROVE HInv'
<1> USE DEF HInv, Shape, OnlyDrained, Go, Over, loader, record, told, ended
<1>1. CASE BeginNothing(r)
  BY <1>1 DEF BeginNothing, Entry, Place
<1>2. CASE BeginCleanup(r)
  <2> DEFINE c == Attempt(r, entry[r] = "delivered", 1)
  <2>1. c \in Cleanup /\ c.drain = (entry[r] = "delivered")
    BY DEF Attempt, Cleanup
  <2>2. cleanup' = [cleanup EXCEPT ![r] = c]
    BY <1>2 DEF BeginCleanup
  <2> HIDE DEF c
  <2> QED
    BY <1>2, <2>1, <2>2 DEF BeginCleanup, Entry, Place
<1>3. CASE CleanTimeout(r)
  <2>1. AttemptFails(r) /\ at[r] = "cleaning"
    BY <1>3 DEF CleanTimeout
  <2>2. UNCHANGED <<delivered, snap, current, planned, aborted>>
    BY <1>3 DEF CleanTimeout
  <2> QED
    BY <2>1, <2>2, AttemptFailsStep
<1> QED
  BY <1>1, <1>2, <1>3, CleanOneStep, CleanDoneStep DEF FinishRun

LEMMA HInvStep == HInv /\ [Next]_vars => HInv'
<1> SUFFICES ASSUME HInv, [Next]_vars PROVE HInv'
  OBVIOUS
<1>1. CASE UNCHANGED vars
  BY <1>1 DEF HInv, Shape, OnlyDrained, vars, loader, record, told, ended
<1> QED
  BY <1>1, LoadStep, RunStep, EndStep, FinishRunStep DEF Next, Core

\* A cleanup tells nobody when RunFinished was delivered to all, for any number
\* of plugins and attempts, and however often the cleanup is begun anew.
THEOREM ToldOnce == Spec => NotToldTwice
<1> DEFINE Step == \A r \in Run : aborted'[r] # aborted[r] => ~delivered[r]
<1>1. HInv /\ [Next]_vars => [Step]_vars
  <2> SUFFICES ASSUME HInv, Next, NEW r \in Run, aborted'[r] # aborted[r]
               PROVE  ~delivered[r]
    OBVIOUS
  <2>1. PICK q \in Run : CleanOne(q)
    BY DEF Next, Load, Plan, Publish, Subscribe, Core, Start, OpenSnapshot, Started,
           CallTool, GuardRefuses, PluginRefuses, GroupPasses, Admit, Execute, Finish,
           FinishGroup, Drain, NoticeGroup, Noticed, Return, Fail, ForceDrop, FinishRun,
           BeginNothing, BeginCleanup, CleanTimeout, CleanDone, told
  <2>2. q = r /\ ~cleanup[r].drain
    BY <2>1 DEF CleanOne, Visit, HInv, Shape
  <2> QED
    BY <2>1, <2>2 DEF CleanOne, HInv, OnlyDrained
<1> QED
  BY <1>1, HInvInit, HInvStep, PTL DEF Spec, NotToldTwice

------------------------------------------------------------------------------
(* Groups and their order                                                   *)

\* A set of plugins is finite.
LEMMA PluginsCounted ==
    ASSUME NEW S \in SUBSET Plugin
    PROVE  /\ IsFiniteSet(S) /\ Cardinality(S) \in Nat
           /\ \A p \in S : p \in Nat
           /\ S = {} => Cardinality(S) = 0
<1>1. IsFiniteSet(Plugin) /\ \A p \in Plugin : p \in Nat
  BY FS_Interval, HostAssumption DEF Plugin
<1>2. IsFiniteSet(S)
  BY <1>1, FS_Subset
<1> QED
  BY <1>1, <1>2, FS_CardinalityType, FS_EmptySet

\* The plugins of a group can be put into the order of the plan, and none is lost: the
\* rank of a plugin counts those up to it.
LEMMA PlanOrder ==
    ASSUME NEW S \in SUBSET Plugin
    PROVE  /\ InPlanOrder(S) \in [1..Cardinality(S) -> S]
           /\ Range(InPlanOrder(S)) = S
           /\ \A i, j \in 1..Cardinality(S) :
                  i < j => InPlanOrder(S)[i] < InPlanOrder(S)[j]
<1> DEFINE n == Cardinality(S)
           upto(x) == {y \in S : y <= x}
           rank == [x \in S |-> Cardinality(upto(x))]
<1>1. IsFiniteSet(S) /\ n \in Nat /\ \A x \in S : x \in Nat
  BY PluginsCounted
<1>2. IsFiniteSet(1..n) /\ Cardinality(1..n) = n
  BY <1>1, FS_Interval
<1>3. ASSUME NEW x \in S
      PROVE  IsFiniteSet(upto(x)) /\ Cardinality(upto(x)) \in 1..n
  <2>1. IsFiniteSet(upto(x)) /\ Cardinality(upto(x)) <= n
    BY <1>1, FS_Subset
  <2>2. x \in upto(x)
    BY <1>1
  <2> QED
    BY <1>1, <2>1, <2>2, FS_CardinalityType, FS_EmptySet
<1>4. ASSUME NEW x \in S, NEW y \in S, x < y
      PROVE  Cardinality(upto(x)) < Cardinality(upto(y))
  <2>0. x \in Nat /\ y \in Nat
    BY <1>1
  <2>1. upto(x) \in SUBSET upto(y) /\ upto(x) # upto(y)
    <3>1. \A z \in S : z <= x => z <= y
      BY <1>1, <1>4, <2>0
    <3>2. y \in upto(y) /\ y \notin upto(x)
      BY <1>4, <2>0
    <3> QED
      BY <3>1, <3>2
  <2>2. Cardinality(upto(x)) <= Cardinality(upto(y))
        /\ Cardinality(upto(x)) # Cardinality(upto(y))
    BY <1>3, <2>1, FS_Subset
  <2> QED
    BY <1>1, <1>3, <2>2
<1> HIDE DEF upto
<1>5. \A x, y \in S : x < y => rank[x] < rank[y]
  BY <1>4
<1>6. rank \in [S -> 1..n]
  BY <1>3
<1> HIDE DEF rank, n
<1>7. rank \in Surjection(S, 1..n)
  <2>1. \A x, y \in S : rank[x] = rank[y] => x = y
    BY <1>1, <1>5, <1>6
  <2>2. rank \in Injection(S, 1..n)
    BY <1>6, <2>1, Fun_IsInj
  <2> QED
    BY <1>2, <2>2, FS_Injection DEF n
<1>8. \A i \in 1..n : \E x \in S : rank[x] = i
  BY <1>7, Fun_SurjectionProperties
<1> DEFINE s == [i \in 1..n |-> CHOOSE x \in S : rank[x] = i]
<1>9. \A i \in 1..n : s[i] \in S /\ rank[s[i]] = i
  BY <1>8
<1>10. s \in [1..n -> S]
  BY <1>9
<1> HIDE DEF s
<1>11. \A i, j \in 1..n : i < j => s[i] < s[j]
  <2> SUFFICES ASSUME NEW i \in 1..n, NEW j \in 1..n, i < j PROVE s[i] < s[j]
    OBVIOUS
  <2>1. s[i] \in S /\ s[j] \in S /\ rank[s[i]] = i /\ rank[s[j]] = j
    BY <1>9
  <2>2. s[i] \in Nat /\ s[j] \in Nat
    BY <1>1, <2>1
  <2>3. s[i] # s[j]
    BY <2>1
  <2>4. ~(s[j] < s[i])
    <3> SUFFICES ASSUME s[j] < s[i] PROVE FALSE
      OBVIOUS
    <3>1. rank[s[j]] < rank[s[i]]
      BY <1>5, <2>1
    <3> QED
      BY <1>1, <2>1, <3>1
  <2> QED
    BY <2>2, <2>3, <2>4
<1> DEFINE t == InPlanOrder(S)
<1>12. t \in [1..n -> S] /\ \A i, j \in 1..n : i < j => t[i] < t[j]
  BY <1>10, <1>11 DEF InPlanOrder, n
<1> HIDE DEF t
<1>13. t \in Injection(1..n, S)
  <2>1. \A i, j \in 1..n : t[i] = t[j] => i = j
    <3> SUFFICES ASSUME NEW i \in 1..n, NEW j \in 1..n, t[i] = t[j] PROVE i = j
      OBVIOUS
    <3>1. t[i] \in Nat
      BY <1>1, <1>12
    <3>2. ~(t[i] < t[j]) /\ ~(t[j] < t[i])
      BY <3>1
    <3>3. ~(i < j) /\ ~(j < i)
      BY <1>12, <3>2
    <3> QED
      BY <1>1, <3>3
  <2> QED
    BY <1>12, <2>1, Fun_IsInj
<1>14. t \in Surjection(1..n, S)
  BY <1>1, <1>2, <1>13, FS_Injection DEF n
<1>15. Range(t) = S
  BY <1>14, Fun_SurjectionProperties
<1> QED
  BY <1>12, <1>15 DEF t, n

\* Of some plugins one is the first in the plan.
LEMMA FirstPlugin ==
    ASSUME NEW S \in SUBSET Plugin, S # {}
    PROVE  \E p \in S : \A q \in S : p <= q
<1> DEFINE n == Cardinality(S)
           t == InPlanOrder(S)
<1>1. /\ n \in Nat /\ S \subseteq Nat /\ t \in [1..n -> S] /\ Range(t) = S
      /\ \A i, j \in 1..n : i < j => t[i] < t[j]
  BY PluginsCounted, PlanOrder
<1> HIDE DEF t, n
<1>2. PICK k \in 1..n : t[k] \in S
  BY <1>1 DEF Range
<1>3. 1 \in 1..n
  BY <1>1, <1>2
<1>4. ASSUME NEW q \in S PROVE t[1] <= q
  <2>1. PICK i \in 1..n : t[i] = q
    BY <1>1 DEF Range
  <2>2. i = 1 \/ 1 < i
    BY <1>1, <2>1
  <2>3. i = 1 \/ t[1] < q
    BY <1>1, <1>3, <2>1, <2>2
  <2>4. t[1] \in Nat /\ q \in Nat
    BY <1>1, <1>3
  <2> QED
    BY <2>1, <2>3, <2>4
<1> QED
  BY <1>1, <1>3, <1>4

\* What a group adds to the verdicts, and that a group of one is its last.
LEMMA GroupAdded ==
    ASSUME NEW v \in Seq(Plugin), NEW S \in SUBSET Plugin
    PROVE  LET w == v \o InPlanOrder(S)
           IN  /\ w \in Seq(Plugin)
               /\ Range(w) = Range(v) \cup S
               /\ S = {} => w = v
               /\ \A p : S = {p} => w # <<>> /\ Last(w) = p
<1> DEFINE t == InPlanOrder(S)
           n == Cardinality(S)
<1>1. t \in [1..n -> S] /\ Range(t) = S
  BY PlanOrder
<1>2. IsFiniteSet(S) /\ n \in Nat /\ (S = {} => n = 0)
  BY PluginsCounted
<1>3. ASSUME NEW p, S = {p} PROVE n = 1
  BY <1>3, FS_Singleton
<1> HIDE DEF t, n
<1>4. t \in Seq(S) /\ Len(t) = n
  BY <1>1, <1>2
<1>5. t \in Seq(Plugin)
  BY <1>4
<1>6. v \o t \in Seq(Plugin)
  BY <1>5
<1>7. Range(v \o t) = Range(v) \cup S
  <2>1. DOMAIN (v \o t) = 1..(Len(v) + n) /\ DOMAIN v = 1..Len(v) /\ DOMAIN t = 1..n
    BY <1>4, <1>5
  <2>2. \A i \in 1..(Len(v) + n) :
           (v \o t)[i] = IF i <= Len(v) THEN v[i] ELSE t[i - Len(v)]
    BY <1>2, <1>4, <1>5
  <2>3. ASSUME NEW i \in DOMAIN (v \o t) PROVE (v \o t)[i] \in Range(v) \cup S
    <3>1. CASE i <= Len(v)
      BY <2>1, <2>2, <3>1 DEF Range
    <3>2. CASE i > Len(v)
      <4>1. i - Len(v) \in 1..n /\ (v \o t)[i] = t[i - Len(v)]
        BY <1>2, <2>1, <2>2, <3>2
      <4> QED
        BY <1>1, <4>1
    <3>3. i \in Nat /\ Len(v) \in Nat
      BY <1>2, <2>1
    <3> QED
      BY <3>1, <3>2, <3>3
  <2>4. ASSUME NEW i \in DOMAIN v PROVE v[i] \in Range(v \o t)
    BY <1>2, <2>1, <2>2 DEF Range
  <2>5. ASSUME NEW i \in DOMAIN t PROVE t[i] \in Range(v \o t)
    <3>1. /\ Len(v) + i \in DOMAIN (v \o t)
          /\ (v \o t)[Len(v) + i] = t[i]
      BY <1>2, <2>1, <2>2
    <3> QED
      BY <3>1 DEF Range
  <2> QED
    BY <1>1, <2>3, <2>4, <2>5 DEF Range
<1>8. S = {} => v \o t = v
  <2> SUFFICES ASSUME S = {} PROVE v \o t = v
    OBVIOUS
  <2>1. t = <<>>
    BY <1>2, <1>4
  <2> QED
    BY <2>1
<1>9. ASSUME NEW p, S = {p} PROVE v \o t # <<>> /\ Last(v \o t) = p
  <2>1. Len(t) = 1
    BY <1>3, <1>4, <1>9
  <2>2. t[1] = p
    BY <1>1, <1>3, <1>9
  <2>3. Len(v) \in Nat /\ Len(v \o t) = Len(v) + 1
    <3>1. Len(v) \in Nat
      OBVIOUS
    <3>2. Len(v \o t) = Len(v) + Len(t)
      BY <1>5
    <3> QED
      BY <2>1, <3>1, <3>2
  <2>4. \A i \in 1..(Len(v) + Len(t)) :
           (v \o t)[i] = IF i <= Len(v) THEN v[i] ELSE t[i - Len(v)]
    BY <1>5
  <2>5. (v \o t)[Len(v) + 1] = t[1]
    BY <2>1, <2>3, <2>4
  <2> QED
    BY <1>5, <2>2, <2>3, <2>5 DEF Last
<1> QED
  BY <1>6, <1>7, <1>8, <1>9 DEF t

\* The owner of the tool policy is alone in its group, and no plugin's comes after it.
LEMMA CallGroups ==
    ASSUME NEW p \in Plugin
    PROVE  /\ Effective(p, "call") \in Lowest..Highest
           /\ Effective(p, "call") = Highest <=> p = Owner
           /\ Effective(p, "record") \in Priority
BY HostAssumption DEF Effective, Priority, Lowest, Normal, High, Highest, Monitor

\* The group that is served is the lowest of those that are left.
LEMMA GroupInTurn ==
    ASSUME NEW r, todo[r] \in SUBSET Priority, todo[r] # {}
    PROVE  /\ NextGroup(r) \in todo[r]
           /\ \A g \in todo[r] : NextGroup(r) <= g
<1>1. \E g \in todo[r] : \A h \in todo[r] : g <= h
  <2>1. \A g \in todo[r] : g \in {0, 1, 2, 3, 4}
    BY DEF Priority, Lowest, Monitor
  <2> QED
    BY <2>1
<1> QED
  BY <1>1 DEF NextGroup
------------------------------------------------------------------------------
(* What a run's snapshot hears                                              *)

\* Everything published is subscribed, but for the plugin that is being published.
Bus ==
    /\ {<<"record", Lowest>>, <<"record", Monitor>>, <<"call", Lowest>>} \subseteq registered
    /\ \A p \in current, event \in {"record", "call", "notice"} :
           p # publishing => <<event, Effective(p, event)>> \in registered

\* The snapshot of a run is opened once, before the run goes on.
Opened(r) ==
    /\ snap[r].hosts \subseteq current
    /\ at[r] \in {"running", "calling", "admitted"} => entry[r] = "active"
    /\ at[r] = "idle" => entry[r] = "none"
    /\ at[r] = "started" => entry[r] \in {"none", "active"}
    /\ entry[r] = "none" /\ at[r] # "over" => snap[r].hosts = {}
    /\ entry[r] = "cleaning" => at[r] = "cleaning"

\* A plugin of the snapshot has its turn yet or let the call pass; the guard comes first,
\* and from the owner on only groups without plugins are left.
Passed(r) ==
    /\ at[r] = "calling" =>
           /\ Lowest \in todo[r] \/ ~Blocked(r)
           /\ \A p \in snap[r].hosts \ late[r] :
                  Effective(p, "call") \in todo[r] \/ p \in Range(verdicts[r])
           /\ Owner \in snap[r].hosts \ late[r] =>
                  \/ Highest \in todo[r]
                  \/ todo[r] \subseteq {Monitor} /\ Last(verdicts[r]) = Owner
    /\ at[r] = "admitted" =>
           /\ ~Blocked(r)
           /\ snap[r].hosts \ late[r] \subseteq Range(verdicts[r])
           /\ Owner \in snap[r].hosts \ late[r] => Last(verdicts[r]) = Owner

\* Whoever has not heard of the end has its turn yet, until somebody fails; a drain is for
\* those who have heard, and a cleanup comes to all the others.
Told(r) == snap[r].hosts \subseteq finished[r] \cup late[r]
Ending(r) ==
    /\ entry[r] \in {"delivered", "completed"} =>
           /\ at[r] \notin {"idle", "started", "running", "calling", "admitted"}
           /\ Told(r)
    /\ at[r] = "finished" /\ entry[r] = "active" /\ ~missed[r] =>
           \A p \in snap[r].hosts \ late[r] :
               Effective(p, "record") \in todo[r] \/ p \in finished[r]
    /\ at[r] = "cleaning" /\ cleanup[r].drain => Told(r)
    /\ at[r] = "cleaning" /\ ~cleanup[r].drain =>
           snap[r].hosts \ cleanup[r].left \subseteq aborted[r]
    /\ result[r] = "ok" =>
           /\ at[r] = "over"
           /\ snap[r].hosts \subseteq finished[r] \cup aborted[r] \cup late[r]

Fields ==
    /\ todo \in [Run -> SUBSET Priority] /\ verdicts \in [Run -> Seq(Plugin)]
    /\ missed \in [Run -> BOOLEAN]
    /\ finished \in [Run -> SUBSET Plugin] /\ aborted \in [Run -> SUBSET Plugin]
    /\ DOMAIN late = Run /\ DOMAIN result = Run

HeardInv == /\ HInv /\ Fields /\ Bus
            /\ \A r \in Run : Opened(r) /\ Passed(r) /\ Ending(r)

LEMMA HeardInit == Init => HeardInv
<1> SUFFICES ASSUME Init PROVE HeardInv
  OBVIOUS
<1>1. /\ at = [r \in Run |-> "idle"] /\ entry = [r \in Run |-> "none"]
      /\ cleanup = [r \in Run |-> NoCleanup] /\ snap = [r \in Run |-> Nothing]
      /\ aborted = [r \in Run |-> {}] /\ current = {}
      /\ result = [r \in Run |-> "none"]
  BY DEF Init
<1>2. Fields
  BY DEF Init, Fields
<1>3. Bus
  BY DEF Init, Bus
<1>4. \A r \in Run : Opened(r) /\ Passed(r) /\ Ending(r)
  BY <1>1 DEF Opened, Passed, Ending, Nothing
<1> QED
  BY <1>2, <1>3, <1>4, HInvInit DEF HeardInv

\* What a run sees does not change under the steps of another.
Same(q) ==
    /\ at'[q] = at[q] /\ todo'[q] = todo[q] /\ verdicts'[q] = verdicts[q]
    /\ entry'[q] = entry[q] /\ snap'[q] = snap[q] /\ missed'[q] = missed[q]
    /\ cleanup'[q] = cleanup[q] /\ finished'[q] = finished[q]
    /\ aborted'[q] = aborted[q] /\ late'[q] = late[q] /\ result'[q] = result[q]

LEMMA SameStays ==
    ASSUME NEW q, Same(q), current \subseteq current', Opened(q), Passed(q), Ending(q)
    PROVE  Opened(q)' /\ Passed(q)' /\ Ending(q)'
BY DEF Same, Opened, Passed, Ending, Told, Blocked

\* The loader subscribes all that it has published before it publishes the next.
LEMMA HeardLoad == ASSUME HeardInv, Load PROVE HeardInv'
<1>1. /\ UNCHANGED <<at, todo, verdicts, record, cleanup, finished, aborted, late, result>>
      /\ current \subseteq current'
  BY DEF Load, Plan, Publish, Subscribe, record, told, ended
<1>2. HInv'
  BY LoadStep DEF HeardInv
<1>3. Fields'
  BY <1>1 DEF HeardInv, Fields, record
<1>4. Bus'
  <2>1. CASE Plan
    BY <2>1 DEF Plan, HeardInv, Bus
  <2>2. CASE \E p \in Plugin : Publish(p)
    <3>1. PICK p \in Plugin : Publish(p)
      BY <2>2
    <3>2. \A q \in current : q # publishing
      BY <3>1, HostAssumption DEF Publish, HeardInv, HInv, Shape, Plugin
    <3> QED
      BY <3>1, <3>2 DEF Publish, HeardInv, Bus
  <2>3. CASE Subscribe
    BY <2>3 DEF Subscribe, Desired, Bus
  <2> QED
    BY <2>1, <2>2, <2>3 DEF Load
<1>5. \A q \in Run : Same(q)
  BY <1>1 DEF Same, record
<1> QED
  BY <1>1, <1>2, <1>3, <1>4, <1>5, SameStays DEF HeardInv

\* A step of a run changes what that run sees, and nothing of the loader's.
LEMMA RunAlone ==
    ASSUME HeardInv, NEW r \in Run, Core(r) \/ FinishRun(r)
    PROVE  UNCHANGED loader /\ \A q \in Run \ {r} : Same(q)
<1>0. /\ at \in [Run -> Place] /\ entry \in [Run -> Entry] /\ DOMAIN cleanup = Run
      /\ DOMAIN snap = Run
      /\ DOMAIN todo = Run /\ DOMAIN verdicts = Run /\ DOMAIN missed = Run
      /\ DOMAIN finished = Run /\ DOMAIN aborted = Run /\ DOMAIN late = Run
      /\ DOMAIN result = Run
  BY DEF HeardInv, HInv, Shape, Fields
<1> USE DEF Same, loader, record, told, ended, Go
<1>1. CASE Start(r) \/ CallTool(r) \/ Finish(r) \/ Drain(r)
  BY <1>0, <1>1 DEF Start, CallTool, Finish, Drain, Collect
<1>2. CASE OpenSnapshot(r) \/ Started(r)
  BY <1>0, <1>2 DEF OpenSnapshot, Started, Handled
<1>3. CASE GuardRefuses(r) \/ PluginRefuses(r) \/ GroupPasses(r)
  BY <1>0, <1>3 DEF GuardRefuses, PluginRefuses, GroupPasses, Handled, Refuse
<1>4. CASE Admit(r) \/ Execute(r) \/ Noticed(r) \/ Return(r) \/ Fail(r)
  BY <1>0, <1>4 DEF Admit, Execute, Noticed, Return, Fail
<1>5. CASE FinishGroup(r) \/ NoticeGroup(r)
  BY <1>0, <1>5 DEF FinishGroup, NoticeGroup, Handled
<1>6. CASE ForceDrop(r)
  BY <1>0, <1>6 DEF ForceDrop
<1>7. CASE BeginNothing(r) \/ BeginCleanup(r)
  BY <1>0, <1>7 DEF BeginNothing, BeginCleanup, Over
<1>8. CASE CleanOne(r)
  BY <1>0, <1>8 DEF CleanOne, Visit, AttemptFails, Over
<1>9. CASE CleanTimeout(r) \/ CleanDone(r)
  BY <1>0, <1>9 DEF CleanTimeout, CleanDone, AttemptFails, Over
<1> QED
  BY <1>1, <1>2, <1>3, <1>4, <1>5, <1>6, <1>7, <1>8, <1>9 DEF Core, FinishRun

\* The groups an event is handed to include those of all who are subscribed.
LEMMA Collected ==
    ASSUME HeardInv, NEW r \in Run, NEW event \in {"record", "call"}, Collect(r, event)
    PROVE  /\ todo' \in [Run -> SUBSET Priority] /\ DOMAIN late' = Run
           /\ Lowest \in todo'[r]
           /\ \A p \in snap[r].hosts \ late'[r] : Effective(p, event) \in todo'[r]
<1>1. /\ todo' = [todo EXCEPT ![r] = {g \in Priority : <<event, g>> \in registered}]
      /\ todo \in [Run -> SUBSET Priority] /\ DOMAIN late = Run
      /\ late' = [late EXCEPT ![r] = {publishing} \ {0}]
  BY DEF Collect, HeardInv, Fields
<1>2. ASSUME NEW p \in snap[r].hosts, p \notin late'[r]
      PROVE  Effective(p, event) \in todo'[r]
  <2>1. p \in current /\ p \in Plugin
    BY DEF HeardInv, HInv, Shape, Opened
  <2>2. p # publishing
    BY <1>1, <1>2, <2>1, HostAssumption DEF Plugin
  <2>3. <<event, Effective(p, event)>> \in registered
    BY <2>1, <2>2 DEF HeardInv, Bus
  <2>4. Effective(p, event) \in Priority
    BY <2>1, CallGroups DEF Priority, Lowest, Highest, Monitor
  <2> QED
    BY <1>1, <2>3, <2>4
<1>3. Lowest \in todo'[r]
  BY <1>1 DEF HeardInv, Bus, Priority, Lowest, Monitor
<1> QED
  BY <1>1, <1>2, <1>3

\* The beginning of a run.
LEMMA HeardBegin ==
    ASSUME HeardInv, NEW r \in Run, Start(r) \/ OpenSnapshot(r) \/ Started(r)
    PROVE  Fields' /\ Opened(r)' /\ Passed(r)' /\ Ending(r)'
<1>0. Opened(r) /\ Passed(r) /\ Ending(r) /\ Fields /\ at \in [Run -> Place]
      /\ entry \in [Run -> Entry] /\ DOMAIN snap = Run
  BY DEF HeardInv, HInv, Shape
<1> USE DEF Opened, Passed, Ending, Told, Go
<1>1. CASE Start(r)
  <2>1. /\ todo' \in [Run -> SUBSET Priority] /\ DOMAIN late' = Run
    BY <1>1, Collected DEF Start
  <2>2. /\ at[r] = "idle" /\ at'[r] = "started"
        /\ UNCHANGED <<current, verdicts, entry, snap, missed, finished, aborted, cleanup, result>>
    BY <1>0, <1>1 DEF Start, loader, record, ended
  <2> QED
    BY <1>0, <2>1, <2>2 DEF Fields
<1>2. CASE OpenSnapshot(r)
  <2>1. /\ at[r] = "started" /\ UNCHANGED <<at, current, verdicts, missed, finished, aborted,
                                            late, cleanup, result>>
        /\ todo' = [todo EXCEPT ![r] = @ \ {NextGroup(r)}]
    BY <1>2 DEF OpenSnapshot, loader, told, ended, Handled
  <2>2. CASE UNCHANGED <<entry, snap>>
    BY <1>0, <2>1, <2>2 DEF Fields
  <2>3. CASE /\ entry' = [entry EXCEPT ![r] = "active"]
             /\ snap' = [snap EXCEPT ![r] = [hosts |-> current, planned |-> planned]]
    <3>1. entry'[r] = "active" /\ snap'[r].hosts = current
      BY <1>0, <2>3
    <3> QED
      BY <1>0, <2>1, <3>1 DEF Fields
  <2> QED
    BY <1>2, <2>2, <2>3 DEF OpenSnapshot
<1>3. CASE Started(r)
  <2>1. /\ at'[r] = IF entry[r] = "active" THEN "running" ELSE "closing"
        /\ at[r] = "started"
        /\ UNCHANGED <<current, todo, verdicts, entry, snap, missed, finished, aborted,
                       late, cleanup, result>>
    BY <1>0, <1>3 DEF Started, loader, record, told, ended
  <2> QED
    BY <1>0, <2>1 DEF Fields
<1> QED
  BY <1>1, <1>2, <1>3

\* The admission of a call: the guard's turn comes first, the owner's last.
LEMMA HeardCall ==
    ASSUME HeardInv, NEW r \in Run,
           \/ CallTool(r) \/ GuardRefuses(r) \/ PluginRefuses(r) \/ GroupPasses(r)
           \/ Admit(r) \/ Execute(r)
    PROVE  Fields' /\ Opened(r)' /\ Passed(r)' /\ Ending(r)'
<1>0. Opened(r) /\ Passed(r) /\ Ending(r) /\ Fields /\ at \in [Run -> Place]
      /\ snap \in [Run -> [hosts : SUBSET Plugin, planned : BOOLEAN]]
  BY DEF HeardInv, HInv, Shape
<1>1. CASE CallTool(r)
  <2>1. /\ todo' \in [Run -> SUBSET Priority] /\ DOMAIN late' = Run
        /\ Lowest \in todo'[r]
        /\ \A p \in snap[r].hosts \ late'[r] : Effective(p, "call") \in todo'[r]
    BY <1>1, Collected DEF CallTool
  <2>2. /\ at[r] = "running" /\ at'[r] = "calling"
        /\ verdicts' = [verdicts EXCEPT ![r] = <<>>]
        /\ UNCHANGED <<current, entry, snap, missed, finished, aborted, cleanup, result>>
    BY <1>0, <1>1 DEF CallTool, loader, record, ended, Go
  <2>3. verdicts' \in [Run -> Seq(Plugin)]
    BY <1>0, <2>2 DEF Fields
  <2>4. Owner \in snap[r].hosts => Effective(Owner, "call") = Highest
    BY <1>0, CallGroups
  <2> QED
    BY <1>0, <2>1, <2>2, <2>3, <2>4 DEF Fields, Opened, Passed, Ending, Told
<1>2. CASE GuardRefuses(r) \/ PluginRefuses(r)
  <2>1. /\ at[r] = "calling" /\ at'[r] = "running" /\ todo' = [todo EXCEPT ![r] = {}]
        /\ UNCHANGED <<current, verdicts, entry, snap, missed, finished, aborted, late,
                       cleanup, result>>
    BY <1>0, <1>2 DEF GuardRefuses, PluginRefuses, Refuse, loader, record, told, ended, Go
  <2> QED
    BY <1>0, <2>1 DEF Fields, Opened, Passed, Ending, Told
<1>3. CASE GroupPasses(r)
  <2> DEFINE g == NextGroup(r)
             S == Members(r, "call")
             w == verdicts[r] \o InPlanOrder(S)
  <2>1. /\ at[r] = "calling" /\ todo[r] # {} /\ (g = Lowest => ~Blocked(r))
        /\ verdicts' = [verdicts EXCEPT ![r] = w]
        /\ todo' = [todo EXCEPT ![r] = @ \ {g}]
        /\ UNCHANGED <<at, current, entry, snap, missed, finished, aborted, late,
                       cleanup, result>>
    BY <1>3 DEF GroupPasses, Handled, loader, record, told, ended
  <2>2. /\ todo[r] \in SUBSET Priority /\ verdicts[r] \in Seq(Plugin)
        /\ S \in SUBSET Plugin /\ S = {p \in snap[r].hosts : Effective(p, "call") = g}
        /\ snap[r].hosts \in SUBSET Plugin
    BY <1>0 DEF Fields, Members
  <2>3. /\ w \in Seq(Plugin) /\ Range(w) = Range(verdicts[r]) \cup S
        /\ S = {} => w = verdicts[r]
        /\ \A p : S = {p} => Last(w) = p
    BY <2>2, GroupAdded
  <2>4. g \in todo[r] /\ \A h \in todo[r] : g <= h
    BY <2>1, <2>2, GroupInTurn
  <2> HIDE DEF g, S, w
  <2>5. /\ todo'[r] = todo[r] \ {g} /\ verdicts'[r] = w
        /\ todo' \in [Run -> SUBSET Priority] /\ verdicts' \in [Run -> Seq(Plugin)]
    BY <1>0, <2>1, <2>3 DEF Fields
  <2>6. Lowest \in todo'[r] \/ ~Blocked(r)'
    <3>1. Blocked(r)' = Blocked(r)
      BY <2>1 DEF Blocked
    <3> QED
      BY <1>0, <2>1, <2>5, <3>1 DEF Passed
  <2>7. \A p \in snap[r].hosts \ late[r] :
           Effective(p, "call") \in todo'[r] \/ p \in Range(verdicts'[r])
    BY <1>0, <2>1, <2>2, <2>3, <2>5 DEF Passed
  <2>8. ASSUME Owner \in snap[r].hosts \ late[r]
        PROVE  Highest \in todo'[r] \/ (todo'[r] \subseteq {Monitor} /\ Last(verdicts'[r]) = Owner)
    <3>0. Owner \in Plugin
      BY <2>2, <2>8
    <3>1. CASE Highest \in todo[r] /\ g # Highest
      BY <2>5, <3>1
    <3>2. CASE Highest \in todo[r] /\ g = Highest
      <4>1. S = {Owner}
        BY <2>2, <2>8, <3>2, CallGroups
      <4>2. todo[r] \subseteq {Highest, Monitor}
        BY <2>2, <2>4, <3>2 DEF Priority, Lowest, Highest, Monitor
      <4> QED
        BY <2>3, <2>5, <3>2, <4>1, <4>2
    <3>3. CASE todo[r] \subseteq {Monitor} /\ Last(verdicts[r]) = Owner
      <4>1. g = Monitor
        BY <2>4, <3>3
      <4>2. \A p \in Plugin : Effective(p, "call") # Monitor
        BY CallGroups DEF Lowest, Highest, Monitor
      <4>3. S = {}
        BY <2>2, <4>1, <4>2
      <4> QED
        BY <2>3, <2>5, <3>3, <4>3
    <3> QED
      BY <1>0, <2>1, <2>8, <3>1, <3>2, <3>3 DEF Passed
  <2> QED
    BY <1>0, <2>1, <2>5, <2>6, <2>7, <2>8 DEF Fields, Opened, Passed, Ending, Told
<1>4. CASE Admit(r)
  <2>1. /\ at[r] = "calling" /\ at'[r] = "admitted" /\ todo[r] = {}
        /\ UNCHANGED <<current, todo, verdicts, entry, snap, missed, finished, aborted, late,
                       cleanup, result>>
    BY <1>0, <1>4 DEF Admit, loader, record, told, ended, Go
  <2> QED
    BY <1>0, <2>1 DEF Fields, Opened, Passed, Ending, Told, Blocked
<1>5. CASE Execute(r)
  <2>1. /\ at[r] = "admitted" /\ at'[r] = "running"
        /\ UNCHANGED <<current, todo, verdicts, entry, snap, missed, finished, aborted, late,
                       cleanup, result>>
    BY <1>0, <1>5 DEF Execute, loader, record, told, ended, Go
  <2> QED
    BY <1>0, <2>1 DEF Fields, Opened, Passed, Ending, Told
<1> QED
  BY <1>1, <1>2, <1>3, <1>4, <1>5

\* RunFinished reaches one group after the other; the last of them makes it delivered
\* only when nobody has failed, and then all that were subscribed have heard of it.
LEMMA HeardFinish ==
    ASSUME HeardInv, NEW r \in Run, Finish(r) \/ FinishGroup(r)
    PROVE  Fields' /\ Opened(r)' /\ Passed(r)' /\ Ending(r)'
<1>0. Opened(r) /\ Passed(r) /\ Ending(r) /\ Fields /\ at \in [Run -> Place]
      /\ entry \in [Run -> Entry]
      /\ snap \in [Run -> [hosts : SUBSET Plugin, planned : BOOLEAN]]
  BY DEF HeardInv, HInv, Shape
<1>1. CASE Finish(r)
  <2>1. /\ todo' \in [Run -> SUBSET Priority] /\ DOMAIN late' = Run
        /\ \A p \in snap[r].hosts \ late'[r] : Effective(p, "record") \in todo'[r]
    BY <1>1, Collected DEF Finish
  <2>2. /\ at[r] = "running" /\ at'[r] = "finished"
        /\ UNCHANGED <<current, verdicts, entry, snap, missed, finished, aborted, cleanup,
                       result>>
    BY <1>0, <1>1 DEF Finish, loader, record, ended, Go
  <2> QED
    BY <1>0, <2>1, <2>2 DEF Fields, Opened, Passed, Ending, Told
<1>2. CASE FinishGroup(r)
  <2> DEFINE g == NextGroup(r)
             S == Members(r, "record")
  <2>1. PICK failed \in SUBSET S :
             LET all == g = Monitor /\ ~Missed(r, failed) /\ entry[r] = "active"
             IN  /\ finished' = [finished EXCEPT ![r] = @ \cup (S \ failed)]
                 /\ missed' = [missed EXCEPT ![r] = Missed(r, failed)]
                 /\ entry' = [entry EXCEPT ![r] = IF all THEN "delivered" ELSE @]
    BY <1>2 DEF FinishGroup
  <2>2. /\ at[r] = "finished" /\ todo[r] # {}
        /\ todo' = [todo EXCEPT ![r] = @ \ {g}]
        /\ UNCHANGED <<at, current, verdicts, snap, aborted, late, cleanup, result>>
    BY <1>2 DEF FinishGroup, Handled, loader, ended
  <2>3. /\ todo[r] \in SUBSET Priority /\ S \in SUBSET Plugin
        /\ S = {p \in snap[r].hosts : Effective(p, "record") = g}
    BY <1>0 DEF Fields, Members
  <2>4. g \in todo[r] /\ \A h \in todo[r] : g <= h
    BY <2>2, <2>3, GroupInTurn
  <2>5. Missed(r, failed) \in BOOLEAN /\ (~Missed(r, failed) => ~missed[r] /\ failed = {})
    BY <1>0 DEF Fields, Missed
  <2> HIDE DEF g, S
  <2>6. /\ todo'[r] = todo[r] \ {g} /\ todo' \in [Run -> SUBSET Priority]
        /\ finished'[r] = finished[r] \cup (S \ failed) /\ finished' \in [Run -> SUBSET Plugin]
        /\ missed'[r] = Missed(r, failed) /\ missed' \in [Run -> BOOLEAN]
    BY <1>0, <2>1, <2>2, <2>3, <2>5 DEF Fields
  <2>7. \A p \in snap[r].hosts \ late[r] :
           ~missed'[r] /\ entry[r] = "active" =>
               Effective(p, "record") \in todo'[r] \/ p \in finished'[r]
    BY <1>0, <2>2, <2>3, <2>5, <2>6 DEF Ending
  <2>8. Fields'
    BY <1>0, <2>2, <2>6 DEF Fields
  <2>9. CASE g = Monitor /\ ~Missed(r, failed) /\ entry[r] = "active"
    <3>1. todo'[r] = {}
      BY <2>3, <2>4, <2>6, <2>9 DEF Priority, Lowest, Monitor
    <3>2. snap[r].hosts \subseteq finished'[r] \cup late[r]
      BY <2>6, <2>7, <2>9, <3>1
    <3>3. entry'[r] = "delivered"
      BY <1>0, <2>1, <2>9
    <3> QED
      BY <1>0, <2>2, <2>8, <3>2, <3>3 DEF Opened, Passed, Ending, Told
  <2>10. CASE ~(g = Monitor /\ ~Missed(r, failed) /\ entry[r] = "active")
    <3>1. entry'[r] = entry[r]
      BY <1>0, <2>1, <2>10
    <3>2. finished[r] \subseteq finished'[r]
      BY <2>6
    <3> QED
      BY <1>0, <2>2, <2>7, <2>8, <3>1, <3>2 DEF Opened, Passed, Ending, Told
  <2> QED
    BY <2>9, <2>10
<1> QED
  BY <1>1, <1>2

\* After the end was announced more plugins may turn out to be late, but none less.
LEMMA HeardEnd ==
    ASSUME HeardInv, NEW r \in Run,
           Drain(r) \/ NoticeGroup(r) \/ Noticed(r) \/ Return(r) \/ Fail(r) \/ ForceDrop(r)
    PROVE  Fields' /\ Opened(r)' /\ Passed(r)' /\ Ending(r)'
<1>0. Opened(r) /\ Passed(r) /\ Ending(r) /\ Fields /\ at \in [Run -> Place]
      /\ entry \in [Run -> Entry] /\ cleanup \in [Run -> Cleanup]
      /\ snap \in [Run -> [hosts : SUBSET Plugin, planned : BOOLEAN]]
  BY DEF HeardInv, HInv, Shape
<1> USE DEF Fields, Opened, Passed, Ending, Told
<1>1. CASE Drain(r)
  <2>1. /\ at[r] = "finished" /\ at'[r] = "noticing"
        /\ entry'[r] = IF entry[r] = "delivered" THEN "completed" ELSE entry[r]
        /\ UNCHANGED <<current, verdicts, snap, missed, finished, aborted, cleanup, result>>
    BY <1>0, <1>1 DEF Drain, loader, ended, Go
  <2>2. /\ todo' \in [Run -> SUBSET Priority] /\ DOMAIN late' = Run
        /\ late[r] \subseteq late'[r]
    BY <1>0, <1>1 DEF Drain, Collect
  <2> QED
    BY <1>0, <2>1, <2>2
<1>2. CASE NoticeGroup(r)
  <2>1. /\ at[r] = "noticing" /\ todo' = [todo EXCEPT ![r] = @ \ {NextGroup(r)}]
        /\ UNCHANGED <<at, current, verdicts, entry, snap, missed, finished, aborted, late,
                       cleanup, result>>
    BY <1>2 DEF NoticeGroup, Handled, loader, record, ended
  <2> QED
    BY <1>0, <2>1
<1>3. CASE Noticed(r) \/ Return(r)
  <2>1. /\ at[r] \in {"noticing", "noticed"} /\ at'[r] \in {"noticed", "closing"}
        /\ UNCHANGED <<current, todo, verdicts, entry, snap, missed, finished, aborted, late,
                       cleanup, result>>
    BY <1>0, <1>3 DEF Noticed, Return, loader, record, told, ended, Go
  <2> QED
    BY <1>0, <2>1
<1>4. CASE Fail(r)
  <2>1. /\ at[r] \in InRun /\ at'[r] = "closing" /\ todo' = [todo EXCEPT ![r] = {}]
        /\ UNCHANGED <<current, verdicts, entry, snap, missed, finished, aborted, late,
                       cleanup, result>>
    BY <1>0, <1>4 DEF Fail, loader, record, told, ended, Go
  <2> QED
    BY <1>0, <2>1 DEF InRun
<1>5. CASE ForceDrop(r)
  <2>1. /\ at[r] \in InRun \cup {"noticed", "closing", "cleaning"} /\ at'[r] = "closing"
        /\ todo' = [todo EXCEPT ![r] = {}]
        /\ entry'[r] = RolledBack(r)
        /\ UNCHANGED <<current, verdicts, snap, missed, finished, aborted, late, result>>
    BY <1>0, <1>5 DEF ForceDrop, loader, told, Go
  <2>2. \/ entry[r] # "cleaning" /\ RolledBack(r) = entry[r]
        \/ entry[r] = "cleaning" /\ cleanup[r].drain /\ RolledBack(r) = "delivered"
        \/ entry[r] = "cleaning" /\ RolledBack(r) = "pending"
    BY DEF RolledBack
  <2> QED
    BY <1>0, <2>1, <2>2 DEF InRun
<1> QED
  BY <1>1, <1>2, <1>3, <1>4, <1>5

\* An attempt that fails begins anew with all the plugins, or the run is over with an error.
LEMMA AttemptHeard ==
    ASSUME Fields, Shape, NEW r \in Run, Opened(r), Passed(r), Ending(r),
           at[r] = "cleaning", AttemptFails(r),
           UNCHANGED <<current, todo, verdicts, snap, missed, finished, late>>,
           aborted' \in [Run -> SUBSET Plugin], aborted[r] \subseteq aborted'[r]
    PROVE  Fields' /\ Opened(r)' /\ Passed(r)' /\ Ending(r)'
<1>0. at \in [Run -> Place] /\ entry \in [Run -> Entry] /\ cleanup \in [Run -> Cleanup]
      /\ result[r] # "ok"
  BY DEF Shape, Ending
<1> USE DEF Fields, Opened, Passed, Ending, Told
<1>1. CASE MayRetry(r)
  <2>1. /\ cleanup'[r].drain = cleanup[r].drain /\ cleanup'[r].left = snap[r].hosts
        /\ UNCHANGED <<at, entry, result>>
    BY <1>0, <1>1 DEF AttemptFails, Attempt
  <2> QED
    BY <1>0, <2>1
<1>2. CASE ~MayRetry(r)
  <2>1. /\ at'[r] = "over" /\ entry'[r] = "none" /\ result'[r] = "error"
        /\ DOMAIN result' = Run
    BY <1>0, <1>2 DEF AttemptFails, Over, Go
  <2> QED
    BY <1>0, <2>1
<1> QED
  BY <1>1, <1>2

\* finish_run: it has nothing to do when all have heard of the end, and its cleanup comes
\* to every plugin of the snapshot before it succeeds.
LEMMA HeardFinishRun ==
    ASSUME HeardInv, NEW r \in Run, FinishRun(r)
    PROVE  Fields' /\ Opened(r)' /\ Passed(r)' /\ Ending(r)'
<1>0. /\ Opened(r) /\ Passed(r) /\ Ending(r) /\ Fields /\ Shape /\ at \in [Run -> Place]
      /\ entry \in [Run -> Entry] /\ cleanup \in [Run -> Cleanup]
      /\ snap \in [Run -> [hosts : SUBSET Plugin, planned : BOOLEAN]]
  BY DEF HeardInv, HInv, Shape
<1>1. CASE BeginNothing(r)
  <2>1. /\ at[r] = "closing" /\ entry[r] \in {"none", "completed", "cleaning"}
        /\ entry'[r] = IF entry[r] = "completed" THEN "none" ELSE entry[r]
        /\ at'[r] = "over" /\ DOMAIN result' = Run
        /\ result'[r] = IF entry[r] = "cleaning" THEN "error" ELSE "ok"
        /\ UNCHANGED <<current, todo, verdicts, snap, missed, finished, aborted, late, cleanup>>
    BY <1>0, <1>1 DEF BeginNothing, Over, Go, loader, told, Fields
  <2> QED
    BY <1>0, <2>1 DEF Fields, Opened, Passed, Ending, Told
<1>2. CASE BeginCleanup(r)
  <2>1. /\ at[r] = "closing" /\ entry[r] \in {"active", "pending", "delivered"}
        /\ entry'[r] = "cleaning" /\ at'[r] = "cleaning"
        /\ cleanup'[r].drain = (entry[r] = "delivered") /\ cleanup'[r].left = snap[r].hosts
        /\ UNCHANGED <<current, todo, verdicts, snap, missed, finished, aborted, late, result>>
    BY <1>0, <1>2 DEF BeginCleanup, Attempt, Go, loader, told
  <2> QED
    BY <1>0, <2>1 DEF Fields, Opened, Passed, Ending, Told
<1>3. CASE CleanOne(r)
  <2> DEFINE p == NextHost(r)
  <2>1. PICK fails \in BOOLEAN : Visit(r, p, fails)
    BY <1>3 DEF CleanOne
  <2>2. /\ at[r] = "cleaning" /\ cleanup[r].left # {}
        /\ UNCHANGED <<current, todo, verdicts, snap, missed, finished, late>>
    BY <1>3 DEF CleanOne, loader
  <2>3. p \in cleanup[r].left
    <3>1. cleanup[r].left \in SUBSET Plugin
      BY <1>0 DEF Cleanup
    <3>2. \E q \in cleanup[r].left : \A h \in cleanup[r].left : q <= h
      BY <2>2, <3>1, FirstPlugin
    <3> QED
      BY <3>2 DEF NextHost
  <2>4. p \in Plugin
    BY <1>0, <2>3 DEF Cleanup
  <2> HIDE DEF p
  <2>5. /\ aborted'[r] = IF cleanup[r].drain THEN aborted[r] ELSE aborted[r] \cup {p}
        /\ aborted' \in [Run -> SUBSET Plugin]
    BY <1>0, <2>1, <2>4 DEF Visit, Fields
  <2>6. CASE cleanup[r].drain /\ fails
    BY <1>0, <2>1, <2>2, <2>5, <2>6, AttemptHeard DEF Visit
  <2>7. CASE ~(cleanup[r].drain /\ fails)
    <3>1. /\ cleanup'[r].drain = cleanup[r].drain
          /\ cleanup'[r].left = cleanup[r].left \ {p}
          /\ UNCHANGED <<at, entry, result>>
      BY <1>0, <2>1, <2>7 DEF Visit, Cleanup
    <3> QED
      BY <1>0, <2>2, <2>5, <3>1 DEF Fields, Opened, Passed, Ending, Told
  <2> QED
    BY <2>6, <2>7
<1>4. CASE CleanTimeout(r)
  <2>1. /\ at[r] = "cleaning" /\ AttemptFails(r)
        /\ UNCHANGED <<current, todo, verdicts, snap, missed, finished, late, aborted>>
    BY <1>4 DEF CleanTimeout, loader, told
  <2>2. aborted' \in [Run -> SUBSET Plugin] /\ aborted[r] \subseteq aborted'[r]
    BY <1>0, <2>1 DEF Fields
  <2> QED
    BY <1>0, <2>1, <2>2, AttemptHeard
<1>5. CASE CleanDone(r)
  <2>1. /\ at[r] = "cleaning" /\ cleanup[r].left = {}
        /\ UNCHANGED <<current, todo, verdicts, snap, missed, finished, late, aborted>>
    BY <1>5 DEF CleanDone, loader, told
  <2>2. aborted' \in [Run -> SUBSET Plugin] /\ aborted[r] \subseteq aborted'[r]
    BY <1>0, <2>1 DEF Fields
  <2>3. CASE cleanup[r].failed
    BY <1>0, <1>5, <2>1, <2>2, <2>3, AttemptHeard DEF CleanDone
  <2>4. CASE ~cleanup[r].failed
    <3>1. /\ at'[r] = "over" /\ entry'[r] = "none" /\ result'[r] = "ok"
          /\ DOMAIN result' = Run
      BY <1>0, <1>5, <2>4 DEF CleanDone, Over, Go, Fields
    <3> QED
      BY <1>0, <2>1, <3>1 DEF Fields, Opened, Passed, Ending, Told
  <2> QED
    BY <2>3, <2>4
<1> QED
  BY <1>1, <1>2, <1>3, <1>4, <1>5 DEF FinishRun

LEMMA HeardStep == ASSUME HeardInv, [Next]_vars PROVE HeardInv'
<1>1. HInv'
  BY HInvStep DEF HeardInv
<1>2. CASE UNCHANGED vars
  <2>1. UNCHANGED <<at, todo, verdicts, entry, snap, missed, cleanup, finished, aborted,
                    late, result, current, publishing, registered>>
    BY <1>2 DEF vars, loader, record, told, ended
  <2>2. Fields' /\ Bus'
    BY <2>1 DEF HeardInv, Fields, Bus
  <2>3. \A q \in Run : Same(q)
    BY <2>1 DEF Same
  <2> QED
    BY <1>1, <2>1, <2>2, <2>3, SameStays DEF HeardInv
<1>3. CASE Load
  BY <1>3, HeardLoad
<1>4. ASSUME NEW r \in Run, Core(r) \/ FinishRun(r) PROVE HeardInv'
  <2>1. UNCHANGED loader /\ \A q \in Run \ {r} : Same(q)
    BY <1>4, RunAlone
  <2>2. Bus'
    BY <2>1 DEF HeardInv, Bus, loader
  <2>3. Fields' /\ Opened(r)' /\ Passed(r)' /\ Ending(r)'
    BY <1>4, HeardBegin, HeardCall, HeardFinish, HeardEnd, HeardFinishRun DEF Core
  <2>4. current \subseteq current'
    BY <2>1 DEF loader
  <2>5. \A q \in Run \ {r} : Opened(q)' /\ Passed(q)' /\ Ending(q)'
    BY <2>1, <2>4, SameStays DEF HeardInv
  <2> QED
    BY <1>1, <2>2, <2>3, <2>5 DEF HeardInv
<1> QED
  BY <1>2, <1>3, <1>4 DEF Next

\* The inductive invariant of the host.
THEOREM HostInductive == Spec => []HeardInv
BY HeardInit, HeardStep, PTL DEF Spec

\* A call that was admitted has passed every plugin of the run's snapshot that was
\* subscribed, the owner of the tool policy last, for any plugins and priorities and
\* however their publication interleaves with the runs.
THEOREM AdmissionCorrect == Spec => []AdmittedByAll
<1>1. HeardInv => AdmittedByAll
  BY DEF HeardInv, Passed, Blocked, AdmittedByAll, HInv, Shape
<1> QED
  BY <1>1, HostInductive, PTL

\* A finish_run that succeeds leaves no plugin of the snapshot, which was subscribed,
\* without word of the end, however often it was begun anew, failed or timed out.
THEOREM EndCorrect == Spec => []EndReaches
<1>1. HeardInv => EndReaches
  BY DEF HeardInv, Ending, EndReaches
<1> QED
  BY <1>1, HostInductive, PTL
==============================================================================
