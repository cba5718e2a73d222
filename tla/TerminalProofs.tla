---------------------------- MODULE TerminalProofs ---------------------------
(***************************************************************************)
(* Proofs about the terminal application.                                  *)
(*                                                                         *)
(* TerminalRuns, for every number of messages and sessions, reloads and    *)
(* faults: no message and no answer is lost, and nothing waits twice; a    *)
(* queue the user has stopped stays stopped; titles stay with their        *)
(* conversations, and saves of the application do not refuse each other.   *)
(*                                                                         *)
(* The frames of the views of plugins (ViewFrames), for every set of views *)
(* and any number of requests: no view goes back to an older answer, there *)
(* is one batch at a time, and no refresh that was asked for is lost.      *)
(***************************************************************************)
EXTENDS TerminalRuns, ViewFrames, SequenceTheorems, TLAPS

-----------------------------------------------------------------------------
(* TerminalRuns.                                                           *)

(* What waits in a queue q, a draft d and before the queue, in im; each in one place. *)
Waits(q, d, im) == ToSet(q) \cup ({d, im} \ {None})
LineIn(q, d) == q \in Seq(Input) /\ IsInjective(q) /\ d \in Inputs /\ d \notin ToSet(q)
Lined ==
    /\ LineIn(queue, draft) /\ immediate \in Inputs
    /\ immediate # None => immediate \notin ToSet(queue) /\ immediate # draft
    /\ job # None => draft # None

(* A run has begun, or is over; its first save is ahead of it, or was refused. *)
Begun == {"first", "model", "answered", "cancelled"}
Uncommitted == run.phase = "first" \/ (run.phase = "done" /\ ~run.committed)
RunShape ==
    \/ run = NoRun
    \/ run.phase \in Begun /\ DOMAIN run = {"phase", "input", "rec", "stop", "cancel"}
    \/ /\ run.phase = "done" /\ run.committed \in BOOLEAN
       /\ DOMAIN run = {"phase", "input", "rec", "how", "committed", "advance"}

ReloadPhases == {"loading", "unchanged", "error", "replaced"}
RunTypes ==
    /\ typed \subseteq Input /\ Pending \subseteq typed
    /\ rec \in Records /\ used \subseteq Id
    /\ titled \in Titles /\ titling \subseteq [id : Id, about : SUBSET Input]
    /\ RunShape /\ (Running => run.input \in typed /\ run.rec \in Records)
    /\ reload \in {Nothing} \cup [phase : ReloadPhases, rec : Records]

(* In a store s with the ids u in use nothing but t was said, and nothing is under *)
(* an id nobody has used.                                                          *)
SaidIn(s) == UNION {s[id].said : id \in Id}
AnsweredIn(s) == UNION {s[id].answered : id \in Id}
StoreKept(s, u, t) ==
    /\ s \in [Id -> Records]
    /\ \A id \in Id :
          /\ s[id].id = id /\ s[id].said \subseteq t /\ s[id].answered \subseteq s[id].said
          /\ id \notin u => s[id].rev = 0 /\ s[id].said = {}

(* A record in memory is not ahead of the store; where it is level, it has all that *)
(* the store has, so that to save it loses nothing.                                 *)
Level(r, s, u, t) ==
    /\ r.id \in u /\ r.said \subseteq t /\ r.answered \subseteq r.said
    /\ r.rev <= s[r.id].rev
    /\ r.rev = s[r.id].rev =>
          s[r.id].said \subseteq r.said /\ s[r.id].answered \subseteq r.answered

(* The same of the record of a reload l; the one that will replace is in the store. *)
ReloadKept(l, s, u, t) ==
    /\ l.phase # "none" => Level(l.rec, s, u, t)
    /\ l.phase = "replaced" => l.rec.said \subseteq SaidIn(s)
       /\ l.rec.answered \subseteq AnsweredIn(s)

AllLevel ==
    /\ StoreKept(store, used, typed) /\ Level(rec, store, used, typed)
    /\ Running => Level(run.rec, store, used, typed)
    /\ ReloadKept(reload, store, used, typed)

(* A message that waits, or whose run has not saved it, is in no record. *)
Unsent ==
    /\ Pending \cap SaidIn(store) = {} /\ Pending \cap rec.said = {}
    /\ Running => run.input \notin Pending /\ Pending \cap run.rec.said = {}
    /\ Reloading => Pending \cap reload.rec.said = {}
    /\ Uncommitted => /\ run.input \notin rec.said /\ run.input \notin SaidIn(store)
                      /\ Reloading => run.input \notin reload.rec.said

(* The record of a run makes up for the one it will replace. *)
RunMakesUp ==
    Running =>
        /\ rec.said \subseteq run.rec.said \cup SaidIn(store)
        /\ rec.answered \subseteq run.rec.answered \cup AnsweredIn(store)
        /\ Uncommitted =>
              run.rec.answered \subseteq dropped \cup wiped \cup rec.answered \cup AnsweredIn(store)
        /\ ~Uncommitted => run.input \in run.rec.said

Accounted ==
    /\ \A i \in typed : \/ i \in dropped \cup wiped \/ i \in Pending \/ (Running /\ run.input = i)
                        \/ i \in rec.said \/ i \in SaidIn(store)
    /\ \A i \in answers : \/ i \in dropped \cup wiped \/ (Running /\ i \in run.rec.answered)
                          \/ i \in rec.answered \/ i \in AnsweredIn(store)

MInv == Lined /\ RunTypes /\ AllLevel /\ Unsent /\ RunMakesUp /\ Accounted

(* Queues without one message, and with one more. *)
LEMMA LineRemove ==
    ASSUME NEW q \in Seq(Input), IsInjective(q), NEW k \in 1..Len(q)
    PROVE  /\ RemoveAt(q, k) \in Seq(Input) /\ IsInjective(RemoveAt(q, k))
           /\ ToSet(RemoveAt(q, k)) = ToSet(q) \ {q[k]} /\ q[k] \in ToSet(q) /\ q[k] \in Input
  <1> DEFINE r == RemoveAt(q, k)
  <1>1. /\ r \in Seq(Input) /\ Len(r) = Len(q) - 1 /\ Len(q) \in Nat
        /\ \A i \in 1..(Len(q) - 1) : r[i] = IF i < k THEN q[i] ELSE q[i + 1]
    <2> DEFINE a == SubSeq(q, 1, k - 1)
               b == SubSeq(q, k + 1, Len(q))
    <2>0. Len(q) \in Nat /\ k \in 1..Len(q)
      OBVIOUS
    <2>1. /\ a \in Seq(Input) /\ Len(a) = k - 1
          /\ \A i \in 1..(k - 1) : a[i] = q[i]
      OBVIOUS
    <2>2. /\ b \in Seq(Input) /\ Len(b) = Len(q) - k
          /\ \A i \in 1..(Len(q) - k) : b[i] = q[k + i]
      OBVIOUS
    <2>3. r = a \o b
      BY DEF RemoveAt
    <2> HIDE DEF a, b, r
    <2>4. /\ a \o b \in Seq(Input) /\ Len(a \o b) = Len(a) + Len(b)
          /\ \A i \in 1..(Len(a) + Len(b)) :
                (a \o b)[i] = IF i <= Len(a) THEN a[i] ELSE b[i - Len(a)]
      BY <2>1, <2>2, ConcatProperties
    <2>5. Len(r) = Len(q) - 1
      BY <2>0, <2>1, <2>2, <2>3, <2>4
    <2>6. ASSUME NEW i \in 1..(Len(q) - 1) PROVE r[i] = IF i < k THEN q[i] ELSE q[i + 1]
      <3>1. CASE i < k
        <4>1. i \in 1..(k - 1) /\ i <= Len(a) /\ i \in 1..(Len(a) + Len(b))
          BY <3>1, <2>0, <2>1, <2>2
        <4> QED
          BY <3>1, <4>1, <2>1, <2>3, <2>4
      <3>2. CASE ~(i < k)
        <4>n. /\ i \in Nat /\ k \in Nat /\ Len(q) \in Nat /\ k <= i /\ i <= Len(q) - 1
              /\ Len(a) = k - 1 /\ Len(b) = Len(q) - k
          BY <3>2, <2>0, <2>1, <2>2
        <4>1. /\ i - Len(a) \in 1..(Len(q) - k) /\ k + (i - Len(a)) = i + 1
              /\ ~(i <= Len(a)) /\ i \in 1..(Len(a) + Len(b))
          BY <4>n
        <4> QED
          BY <3>2, <4>1, <2>2, <2>3, <2>4
      <3> QED
        BY <3>1, <3>2
    <2> QED
      BY <2>0, <2>3, <2>4, <2>5, <2>6
  <1> HIDE DEF r
  <1>2. DOMAIN r = 1..(Len(q) - 1) /\ DOMAIN q = 1..Len(q)
    BY <1>1
  <1>o. \A i \in 1..(Len(q) - 1) :
           /\ r[i] = q[IF i < k THEN i ELSE i + 1]
           /\ (IF i < k THEN i ELSE i + 1) \in 1..Len(q)
           /\ (IF i < k THEN i ELSE i + 1) # k
    BY <1>1
  <1>3. IsInjective(r)
    <2> SUFFICES ASSUME NEW i \in 1..(Len(q) - 1), NEW j \in 1..(Len(q) - 1), r[i] = r[j]
                 PROVE  i = j
      BY <1>2 DEF IsInjective
    <2>1. (IF i < k THEN i ELSE i + 1) = (IF j < k THEN j ELSE j + 1)
      BY <1>o, <1>2 DEF IsInjective
    <2> QED
      BY <2>1, <1>1
  <1>4. ToSet(r) = ToSet(q) \ {q[k]}
    <2>1. ASSUME NEW i \in 1..(Len(q) - 1) PROVE r[i] \in ToSet(q) /\ r[i] # q[k]
      BY <1>o, <1>2 DEF IsInjective, ToSet
    <2>2. ASSUME NEW i \in 1..Len(q), i # k PROVE \E j \in 1..(Len(q) - 1) : r[j] = q[i]
      <3>1. CASE i < k
        BY <3>1, <1>1
      <3>2. CASE i > k
        <4>1. i - 1 \in 1..(Len(q) - 1) /\ ~(i - 1 < k) /\ (i - 1) + 1 = i
          BY <3>2, <1>1
        <4> QED BY <4>1, <1>1
      <3> QED BY <3>1, <3>2, <2>2
    <2>3. \A x : x \in ToSet(r) <=> \E i \in 1..(Len(q) - 1) : r[i] = x
      BY <1>2 DEF ToSet
    <2>4. \A x : x \in ToSet(q) <=> \E i \in 1..Len(q) : q[i] = x
      BY <1>2 DEF ToSet
    <2> QED
      BY <2>1, <2>2, <2>3, <2>4
  <1>5. q[k] \in ToSet(q) /\ q[k] \in Input
    BY <1>2 DEF ToSet
  <1> QED
    BY <1>1, <1>3, <1>4, <1>5 DEF r

LEMMA LineAppend ==
    ASSUME NEW q \in Seq(Input), IsInjective(q), NEW x \in Input, x \notin ToSet(q)
    PROVE  /\ Append(q, x) \in Seq(Input) /\ IsInjective(Append(q, x))
           /\ ToSet(Append(q, x)) = ToSet(q) \cup {x}
  <1> DEFINE r == Append(q, x)
  <1>1. /\ r \in Seq(Input) /\ Len(q) \in Nat /\ DOMAIN r = 1..(Len(q) + 1) /\ DOMAIN q = 1..Len(q)
        /\ \A i \in 1..Len(q) : r[i] = q[i]
        /\ r[Len(q) + 1] = x
    OBVIOUS
  <1> HIDE DEF r
  <1>2. \A i \in 1..(Len(q) + 1) : i \in 1..Len(q) \/ i = Len(q) + 1
    BY <1>1
  <1>3. \A i \in 1..Len(q) : i \in 1..(Len(q) + 1) /\ q[i] # x
    BY <1>1 DEF ToSet
  <1>4. IsInjective(r)
    BY <1>1, <1>2, <1>3 DEF IsInjective
  <1>5. ToSet(r) = ToSet(q) \cup {x}
    <2>1. Len(q) + 1 \in 1..(Len(q) + 1)
      BY <1>1
    <2> QED
      BY <1>1, <1>2, <1>3, <2>1 DEF ToSet
  <1> QED
    BY <1>1, <1>4, <1>5 DEF r

LEMMA LineCons ==
    ASSUME NEW q \in Seq(Input), IsInjective(q), NEW x \in Input, x \notin ToSet(q)
    PROVE  /\ <<x>> \o q \in Seq(Input) /\ IsInjective(<<x>> \o q)
           /\ ToSet(<<x>> \o q) = ToSet(q) \cup {x} /\ <<x>> \o q # <<>>
  <1> DEFINE r == <<x>> \o q
  <1>1. /\ r \in Seq(Input) /\ Len(q) \in Nat /\ DOMAIN r = 1..(Len(q) + 1) /\ DOMAIN q = 1..Len(q)
        /\ \A i \in 2..(Len(q) + 1) : r[i] = q[i - 1]
        /\ r[1] = x
    OBVIOUS
  <1> HIDE DEF r
  <1>2. \A i \in 1..(Len(q) + 1) : i = 1 \/ (i \in 2..(Len(q) + 1) /\ i - 1 \in 1..Len(q))
    BY <1>1
  <1>3. \A i \in 1..Len(q) : i + 1 \in 2..(Len(q) + 1) /\ (i + 1) - 1 = i /\ q[i] # x
    BY <1>1 DEF ToSet
  <1>4. IsInjective(r)
    <2> SUFFICES ASSUME NEW i \in 1..(Len(q) + 1), NEW j \in 1..(Len(q) + 1), r[i] = r[j]
                 PROVE  i = j
      BY <1>1 DEF IsInjective
    <2>1. CASE i = 1 \/ j = 1
      BY <2>1, <1>1, <1>2, <1>3
    <2>2. CASE i # 1 /\ j # 1
      <3>1. q[i - 1] = q[j - 1] /\ i - 1 \in 1..Len(q) /\ j - 1 \in 1..Len(q)
        BY <2>2, <1>1, <1>2
      <3>2. i - 1 = j - 1
        BY <3>1, <1>1 DEF IsInjective
      <3> QED BY <3>2, <1>1
    <2> QED BY <2>1, <2>2
  <1>5. ToSet(r) = ToSet(q) \cup {x}
    <2>1. ASSUME NEW i \in 1..(Len(q) + 1) PROVE r[i] \in ToSet(q) \cup {x}
      BY <1>1, <1>2 DEF ToSet
    <2>2. ASSUME NEW i \in 1..Len(q) PROVE \E j \in 1..(Len(q) + 1) : r[j] = q[i]
      <3>1. i + 1 \in 1..(Len(q) + 1) /\ r[i + 1] = q[i]
        BY <1>1, <1>3
      <3> QED BY <3>1
    <2>3. 1 \in 1..(Len(q) + 1)
      BY <1>1
    <2>4. \A y : y \in ToSet(r) <=> \E i \in 1..(Len(q) + 1) : r[i] = y
      BY <1>1 DEF ToSet
    <2>5. \A y : y \in ToSet(q) <=> \E i \in 1..Len(q) : q[i] = y
      BY <1>1 DEF ToSet
    <2> QED
      BY <1>1, <2>1, <2>2, <2>3, <2>4, <2>5
  <1>6. r # <<>>
    BY <1>1
  <1> QED
    BY <1>1, <1>4, <1>5, <1>6 DEF r

LEMMA LineTail ==
    ASSUME NEW q \in Seq(Input), IsInjective(q), q # <<>>
    PROVE  /\ Tail(q) \in Seq(Input) /\ IsInjective(Tail(q)) /\ Head(q) \in Input
           /\ ToSet(Tail(q)) = ToSet(q) \ {Head(q)} /\ Head(q) \in ToSet(q)
  <1> DEFINE r == Tail(q)
  <1>1. /\ r \in Seq(Input) /\ Len(q) \in Nat \ {0} /\ DOMAIN r = 1..(Len(q) - 1)
        /\ DOMAIN q = 1..Len(q) /\ Head(q) = q[1] /\ q[1] \in Input
        /\ \A i \in 1..(Len(q) - 1) : r[i] = q[i + 1]
    OBVIOUS
  <1> HIDE DEF r
  <1>2. \A i \in 1..(Len(q) - 1) : i + 1 \in 1..Len(q) /\ i + 1 # 1
    BY <1>1
  <1>3. IsInjective(r)
    <2> SUFFICES ASSUME NEW i \in 1..(Len(q) - 1), NEW j \in 1..(Len(q) - 1), r[i] = r[j]
                 PROVE  i = j
      BY <1>1 DEF IsInjective
    <2>1. i + 1 = j + 1
      BY <1>1, <1>2 DEF IsInjective
    <2> QED BY <2>1, <1>1
  <1>4. ToSet(r) = ToSet(q) \ {q[1]}
    <2>1. 1 \in 1..Len(q)
      BY <1>1
    <2>2. ASSUME NEW i \in 1..(Len(q) - 1) PROVE r[i] \in ToSet(q) /\ r[i] # q[1]
      BY <1>1, <1>2, <2>1 DEF ToSet, IsInjective
    <2>3. ASSUME NEW i \in 1..Len(q), i # 1 PROVE \E j \in 1..(Len(q) - 1) : r[j] = q[i]
      <3>1. i - 1 \in 1..(Len(q) - 1) /\ (i - 1) + 1 = i
        BY <2>3, <1>1
      <3>2. r[i - 1] = q[i]
        BY <3>1, <1>1
      <3> QED BY <3>1, <3>2
    <2>4. \A x : x \in ToSet(r) <=> \E i \in 1..(Len(q) - 1) : r[i] = x
      BY <1>1 DEF ToSet
    <2>5. \A x : x \in ToSet(q) <=> \E i \in 1..Len(q) : q[i] = x
      BY <1>1 DEF ToSet
    <2>6. \A x \in ToSet(r) : x \in ToSet(q) /\ x # q[1]
      BY <2>2, <2>4
    <2>7. \A x \in ToSet(q) : x # q[1] => x \in ToSet(r)
      BY <2>3, <2>4, <2>5
    <2> QED
      BY <2>6, <2>7
  <1>5. q[1] \in ToSet(q)
    <2>1. 1 \in 1..Len(q)
      BY <1>1
    <2> QED
      BY <2>1, <1>1 DEF ToSet
  <1> QED
    BY <1>1, <1>3, <1>4, <1>5 DEF r


-----------------------------------------------------------------------------
(* What InStore collects. *)
LEMMA InStoreIs == InStore(Said) = SaidIn(store) /\ InStore(Answered) = AnsweredIn(store)
  BY DEF InStore, Said, Answered, SaidIn, AnsweredIn

LEMMA InStoreOf ==
    ASSUME NEW s, NEW id \in Id
    PROVE  s[id].said \subseteq SaidIn(s) /\ s[id].answered \subseteq AnsweredIn(s)
  BY DEF SaidIn, AnsweredIn

LEMMA MInvHolds == MInv => InputsAccounted /\ AnswersAccounted /\ SentOnce
  <1> SUFFICES ASSUME MInv PROVE InputsAccounted /\ AnswersAccounted /\ SentOnce
    OBVIOUS
  <1>1. Lined /\ RunTypes /\ Unsent /\ Accounted
    BY DEF MInv
  <1>2. InputsAccounted
    <2>1. InStore(Said) = SaidIn(store)
      BY InStoreIs
    <2> QED
      BY <1>1, <2>1 DEF Accounted, InputsAccounted, InRun
  <1>3. AnswersAccounted
    <2>1. InStore(Answered) = AnsweredIn(store)
      BY InStoreIs
    <2> QED
      BY <1>1, <2>1 DEF Accounted, AnswersAccounted, InRun
  <1>4. SentOnce
    <2>1. InStore(Said) = SaidIn(store)
      BY InStoreIs
    <2> QED
      BY <1>1, <2>1 DEF Lined, LineIn, Unsent, SentOnce
  <1> QED
    BY <1>2, <1>3, <1>4

LEMMA BlankIs ==
    ASSUME NEW id \in Id
    PROVE  /\ Blank(id) \in Records /\ Blank(id).id = id /\ Blank(id).rev = 0
           /\ Blank(id).said = {} /\ Blank(id).answered = {}
  BY DEF Blank, Records, Titles

LEMMA InitMInv == Init => MInv
  <1> SUFFICES ASSUME Init PROVE MInv
    OBVIOUS
  <1>1. 1 \in Id
    BY TerminalAssumption DEF Id
  <1>2. Lined
    <2>1. <<>> \in Seq(Input) /\ IsInjective(<<>>) /\ ToSet(<<>>) = {}
      BY DEF IsInjective, ToSet
    <2> QED
      BY <2>1 DEF Init, Lined, LineIn, Inputs
  <1>3. Pending = {} /\ run = NoRun /\ run.phase = "none" /\ reload = Nothing
        /\ reload.phase = "none"
    <2>1. ToSet(<<>>) = {}
      BY DEF ToSet
    <2> QED
      BY <2>1 DEF Init, Pending, NoRun, Nothing
  <1>4. rec = Blank(1) /\ store = [id \in Id |-> Blank(id)] /\ used = {1} /\ typed = {}
        /\ answers = {}
    BY DEF Init
  <1>5. RunTypes
    <2>1. titled \in Titles /\ titling \subseteq [id : Id, about : SUBSET Input]
      BY DEF Init, Titles
    <2>2. rec \in Records /\ used \subseteq Id /\ typed \subseteq Input /\ Pending \subseteq typed
      BY <1>1, <1>3, <1>4, BlankIs
    <2> QED
      BY <1>3, <2>1, <2>2 DEF RunTypes, RunShape, Running
  <1>6. StoreKept(store, used, typed)
    BY <1>4, BlankIs DEF StoreKept
  <1>7. Level(rec, store, used, typed)
    BY <1>1, <1>4, BlankIs DEF Level
  <1>8. AllLevel
    BY <1>3, <1>6, <1>7 DEF AllLevel, Running, ReloadKept
  <1>9. Unsent
    BY <1>3 DEF Unsent, Running, Reloading, Uncommitted
  <1> QED
    BY <1>2, <1>3, <1>4, <1>5, <1>8, <1>9 DEF MInv, RunMakesUp, Running, Accounted

-----------------------------------------------------------------------------
(* A save in step: nothing in the store is lost, and no record in memory gets ahead. *)
LEMMA PutKeeps ==
    ASSUME StoreKept(store, used, typed), used' \subseteq Id, used \subseteq used', typed' = typed,
           NEW n \in Records, n.id \in used', n.said \subseteq typed, n.answered \subseteq n.said,
           store[n.id].rev = n.rev, store[n.id].said \subseteq n.said,
           store[n.id].answered \subseteq n.answered, Put(n)
    PROVE  /\ StoreKept(store', used', typed')
           /\ SaidIn(store') = SaidIn(store) \cup n.said
           /\ AnsweredIn(store') = AnsweredIn(store) \cup n.answered
           /\ Stored(n) \in Records /\ Level(Stored(n), store', used', typed')
           /\ \A r \in Records : Level(r, store, used, typed) => Level(r, store', used', typed')
  <1>1. /\ Stored(n) \in Records /\ Stored(n).id = n.id /\ Stored(n).rev = n.rev + 1
        /\ Stored(n).said = n.said /\ Stored(n).answered = n.answered
        /\ n.id \in Id /\ n.rev \in Nat
    BY DEF Stored, Records
  <1>2. /\ store \in [Id -> Records] /\ store' = [store EXCEPT ![n.id] = Stored(n)]
    BY DEF StoreKept, Put
  <1>3. /\ store' \in [Id -> Records] /\ store'[n.id] = Stored(n)
        /\ \A id \in Id : id # n.id => store'[id] = store[id]
    BY <1>1, <1>2
  <1>4. StoreKept(store', used', typed')
    BY <1>1, <1>3 DEF StoreKept
  <1>5. SaidIn(store') = SaidIn(store) \cup n.said
    BY <1>1, <1>3 DEF SaidIn
  <1>6. AnsweredIn(store') = AnsweredIn(store) \cup n.answered
    BY <1>1, <1>3 DEF AnsweredIn
  <1>7. Level(Stored(n), store', used', typed')
    BY <1>1, <1>3 DEF Level
  <1>8. ASSUME NEW r \in Records, Level(r, store, used, typed)
        PROVE  Level(r, store', used', typed')
    <2>1. r.id \in Id /\ r.rev \in Nat
      BY DEF Records
    <2>2. CASE r.id = n.id
      <3>1. r.rev < store'[r.id].rev
        BY <1>1, <1>3, <1>8, <2>1, <2>2 DEF Level
      <3> QED
        BY <1>8, <2>1, <3>1, <1>1, <1>3, <2>2 DEF Level
    <2>3. CASE r.id # n.id
      BY <1>8, <2>1, <2>3, <1>3 DEF Level
    <2> QED
      BY <2>2, <2>3
  <1> QED
    BY <1>1, <1>4, <1>5, <1>6, <1>7, <1>8

(* Another process saves what is there. *)
LEMMA OtherSaveKeeps ==
    ASSUME StoreKept(store, used, typed), NEW id \in Id, store[id].rev > 0,
           store' = [store EXCEPT ![id].rev = @ + 1]
    PROVE  /\ StoreKept(store', used, typed)
           /\ SaidIn(store') = SaidIn(store) /\ AnsweredIn(store') = AnsweredIn(store)
           /\ \A r \in Records : Level(r, store, used, typed) => Level(r, store', used, typed)
  <1>1. store \in [Id -> Records] /\ store[id] \in Records /\ store[id].rev \in Nat
    BY DEF StoreKept, Records
  <1>2. store'[id] = [store[id] EXCEPT !.rev = store[id].rev + 1]
    BY <1>1
  <1>3. /\ store'[id] \in Records /\ store'[id].id = store[id].id
           /\ store'[id].rev = store[id].rev + 1
        /\ store'[id].said = store[id].said /\ store'[id].answered = store[id].answered
    BY <1>1, <1>2 DEF Records
  <1>4. store' \in [Id -> Records] /\ \A x \in Id : x # id => store'[x] = store[x]
    BY <1>1, <1>3
  <1>5. \A x \in Id : store'[x].said = store[x].said /\ store'[x].answered = store[x].answered
    BY <1>3, <1>4
  <1>6. SaidIn(store') = SaidIn(store) /\ AnsweredIn(store') = AnsweredIn(store)
    BY <1>5 DEF SaidIn, AnsweredIn
  <1>7. StoreKept(store', used, typed)
    BY <1>1, <1>3, <1>4 DEF StoreKept
  <1>8. ASSUME NEW r \in Records, Level(r, store, used, typed)
        PROVE  Level(r, store', used, typed)
    <2>1. r.id \in Id /\ r.rev \in Nat
      BY DEF Records
    <2>2. CASE r.id = id
      <3>0. r.rev <= store[r.id].rev
        BY <1>8 DEF Level
      <3>1. r.rev <= store'[r.id].rev /\ r.rev # store'[r.id].rev
        BY <1>1, <1>3, <2>1, <2>2, <3>0
      <3> QED
        BY <1>8, <3>1 DEF Level
    <2>3. CASE r.id # id
      BY <1>8, <2>1, <2>3, <1>4 DEF Level
    <2> QED
      BY <2>2, <2>3
  <1> QED
    BY <1>6, <1>7, <1>8

-----------------------------------------------------------------------------
(* What the user moves about: the run, the records and the store stay. *)
SameRun ==
    /\ RunShape' /\ run'.phase = run.phase
    /\ Running => run'.input = run.input /\ run'.rec = run.rec
    /\ run.phase = "done" => run' = run

LEMMA Moved ==
    ASSUME MInv, UNCHANGED <<rec, reload, store, used, titling, titled, answers>>,
           Lined', SameRun, typed \subseteq typed', typed' \subseteq Input,
           dropped \cup wiped \subseteq dropped' \cup wiped',
           Pending' \subseteq typed', \A i \in Pending' : i \in Pending \/ i \notin typed,
           \A i \in typed' : i \in Pending \/ i \notin typed => i \in Pending' \/ i \in dropped' \cup wiped'
    PROVE  MInv'
  <1>0. Lined /\ RunTypes /\ AllLevel /\ Unsent /\ RunMakesUp /\ Accounted
    BY DEF MInv
  <1>1. Running' = Running /\ Reloading' = Reloading /\ Uncommitted' = Uncommitted
    <2>1. run.phase = "done" => run'.committed = run.committed
      BY DEF SameRun
    <2> QED
      BY <2>1 DEF SameRun, Running, Reloading, Uncommitted
  <1>2. RunTypes'
    BY <1>0, <1>1 DEF RunTypes, SameRun
  <1>3. \A r : Level(r, store, used, typed) => Level(r, store', used', typed')
    BY DEF Level
  <1>4. AllLevel'
    <2>1. StoreKept(store', used', typed')
      BY <1>0 DEF AllLevel, StoreKept
    <2>2. ReloadKept(reload', store', used', typed')
      BY <1>0, <1>3 DEF AllLevel, ReloadKept
    <2> QED
      BY <1>0, <1>1, <1>3, <2>1, <2>2 DEF AllLevel, SameRun
  <1>5. Unsent'
    <2>1. rec.said \subseteq typed /\ SaidIn(store) \subseteq typed
      BY <1>0 DEF AllLevel, StoreKept, Level, SaidIn
    <2>2. Running => run.rec.said \subseteq typed /\ run.input \in typed
      BY <1>0 DEF AllLevel, Level, RunTypes
    <2>3. Reloading => reload.rec.said \subseteq typed
      BY <1>0 DEF AllLevel, ReloadKept, Level, Reloading
    <2> QED
      BY <1>0, <1>1, <2>1, <2>2, <2>3 DEF Unsent, SameRun, Uncommitted, Running
  <1>6. RunMakesUp'
    BY <1>0, <1>1 DEF RunMakesUp, SameRun
  <1>7. Accounted'
    BY <1>0, <1>1 DEF Accounted, SameRun
  <1> QED
    BY <1>2, <1>4, <1>5, <1>6, <1>7 DEF MInv

(* When no run is there: r is the record, W waits, s is the store. *)
Rest(r, W, s) ==
    /\ r \in Records /\ Level(r, s, used, typed)
    /\ W \subseteq typed /\ W \cap r.said = {} /\ W \cap SaidIn(s) = {}
    /\ Reloading => W \cap reload.rec.said = {}
    /\ \A i \in typed : i \in dropped \cup wiped \/ i \in W \/ i \in r.said \/ i \in SaidIn(s)
    /\ \A i \in answers : i \in dropped \cup wiped \/ i \in r.answered \/ i \in AnsweredIn(s)

Behind(s) == StoreKept(s, used, typed) /\ ReloadKept(reload, s, used, typed)

LEMMA Rested ==
    ASSUME MInv, NEW W, Rest(rec', W, store'), Behind(store'),
           UNCHANGED <<reload, used, typed, dropped, wiped, answers>>,
           titled' \in Titles, titling' \subseteq [id : Id, about : SUBSET Input],
           run' = NoRun, Pending' = W, Lined'
    PROVE  MInv'
  <1>1. ~Running' /\ ~Uncommitted' /\ Reloading' = Reloading /\ RunShape'
    BY DEF NoRun, Running, Uncommitted, Reloading, RunShape
  <1>2. RunTypes'
    BY <1>1 DEF MInv, RunTypes, Rest
  <1>3. AllLevel'
    BY <1>1 DEF Rest, Behind, AllLevel
  <1>4. Unsent'
    BY <1>1 DEF Rest, Unsent
  <1>5. RunMakesUp' /\ Accounted'
    BY <1>1 DEF Rest, RunMakesUp, Accounted
  <1> QED
    BY <1>2, <1>3, <1>4, <1>5 DEF MInv

LEMMA Begins ==
    ASSUME MInv, NEW W, Rest(rec', W, store), Behind(store),
           UNCHANGED <<reload, used, typed, dropped, wiped, answers, titled, store>>,
           titling' \subseteq [id : Id, about : SUBSET Input],
           NEW i \in W, NEW queued, Start(i, queued), Pending' = W \ {i}, Lined'
    PROVE  MInv'
  <1>1. /\ run'.phase = "first" /\ run'.input = i /\ run'.rec = rec'
        /\ DOMAIN run' = {"phase", "input", "rec", "stop", "cancel"}
    BY DEF Start
  <1>2. Running' /\ Uncommitted' /\ Reloading' = Reloading /\ RunShape'
    BY <1>1 DEF Running, Uncommitted, Reloading, RunShape, Begun
  <1>3. RunTypes'
    BY <1>1, <1>2 DEF MInv, RunTypes, Rest
  <1>4. AllLevel'
    BY <1>1, <1>2 DEF Rest, Behind, AllLevel
  <1>5. Unsent'
    BY <1>1, <1>2 DEF Rest, Unsent
  <1>6. RunMakesUp' /\ Accounted'
    BY <1>1, <1>2 DEF Rest, RunMakesUp, Accounted
  <1> QED
    BY <1>3, <1>4, <1>5, <1>6 DEF MInv


LEMMA NotRunning == MInv /\ ~Running => Rest(rec, Pending, store) /\ Behind(store)
  BY DEF MInv, RunTypes, AllLevel, Unsent, Accounted, Rest, Behind

LEMMA PendingIs == Pending = Waits(queue, draft, immediate)
  BY DEF Pending, Waits

LEMMA PendingNext == Pending' = Waits(queue', draft', immediate')
  BY DEF Pending, Waits

LEMMA NoneApart == None \notin Input
  BY TerminalAssumption

(* interrupt_run changes what the run was told, and nothing else of it. *)
LEMMA InterruptSame == ASSUME MInv, Running, Interrupt PROVE SameRun
  <1>1. RunShape /\ run # NoRun
    BY DEF MInv, RunTypes, Running, NoRun
  <1>2. CASE run.phase = "done"
    BY <1>1, <1>2 DEF Interrupt, SameRun, RunShape
  <1>3. CASE run.phase # "done"
    <2>1. run.phase \in Begun /\ DOMAIN run = {"phase", "input", "rec", "stop", "cancel"}
      BY <1>1, <1>3 DEF RunShape
    <2>2. /\ DOMAIN run' = DOMAIN run /\ run'.phase = run.phase
          /\ run'.input = run.input /\ run'.rec = run.rec
      BY <1>3, <2>1 DEF Interrupt
    <2> QED
      BY <1>3, <2>1, <2>2 DEF SameRun, RunShape
  <1> QED
    BY <1>2, <1>3

(* With the same run, a step that only rearranges what waits. *)
LEMMA Rearranged ==
    ASSUME MInv, SameRun, UNCHANGED <<rec, reload, store, used, titling, titled, answers, typed,
                                      dropped, wiped>>,
           Lined', Pending' = Pending
    PROVE  MInv'
  <1>1. Pending \subseteq typed /\ typed \subseteq Input
    BY DEF MInv, RunTypes
  <1> QED
    BY <1>1, Moved

LEMMA RunStays == ASSUME MInv, run' = run PROVE SameRun
  BY DEF MInv, RunTypes, SameRun, RunShape

(* send_immediate_submission, of a message i that leaves the queue or the editor. *)
LEMMA SendKept ==
    ASSUME MInv, NEW i \in Input, SendNow(i), LineIn(queue', draft'), job' # None => draft' # None,
           i \in Waits(queue, draft, None),
           Waits(queue', draft', None) = Waits(queue, draft, None) \ {i},
           UNCHANGED <<reload, store, used, titling, titled, answers, typed, dropped, wiped>>
    PROVE  MInv'
  <1>1. immediate = None /\ rec' = rec /\ Pending = Waits(queue, draft, None)
    BY PendingIs DEF SendNow
  <1>2. i # None /\ Pending \subseteq typed /\ typed \subseteq Input
    BY NoneApart DEF MInv, RunTypes
  <1>3. i \notin ToSet(queue') /\ i # draft'
    BY <1>2 DEF Waits
  <1>4. CASE Running /\ Interrupt /\ immediate' = i
    <2>1. Lined'
      BY <1>2, <1>3, <1>4 DEF Lined, Inputs
    <2>2. Pending' = Waits(queue', draft', i)
      BY <1>4, PendingIs, PendingNext
    <2>3. Pending' = Pending
      BY <1>1, <1>2, <2>2 DEF Waits
    <2> QED
      BY <1>1, <1>4, <2>1, <2>3, InterruptSame, Rearranged
  <1>5. CASE ~Running /\ Start(i, FALSE) /\ immediate' = immediate
    <2>1. Lined'
      BY <1>1, <1>5 DEF Lined, Inputs
    <2>2. Pending' = Pending \ {i} /\ i \in Pending
      BY <1>1, <1>5, PendingIs, PendingNext
    <2>3. Rest(rec', Pending, store) /\ Behind(store)
      BY <1>1, <1>5, NotRunning
    <2>4. titling' \subseteq [id : Id, about : SUBSET Input]
      BY DEF MInv, RunTypes
    <2> QED
      BY <1>1, <1>5, <2>1, <2>2, <2>3, <2>4, Begins
  <1> QED
    BY <1>4, <1>5 DEF SendNow

(* start_input_run, of a message that leaves the queue or the editor. *)
LEMMA StartKept ==
    ASSUME MInv, ~Running, NEW i \in Input, NEW queued, Start(i, queued), rec' = rec,
           LineIn(queue', draft'), job' # None => draft' # None, immediate' = immediate,
           i \in Waits(queue, draft, None),
           Waits(queue', draft', None) = Waits(queue, draft, None) \ {i},
           UNCHANGED <<reload, store, used, titling, titled, answers, typed, dropped, wiped>>
    PROVE  MInv'
  <1>0. Lined /\ i # None
    BY NoneApart DEF MInv
  <1>1. i # immediate
    BY <1>0 DEF Lined, Waits
  <1>2. ToSet(queue') \subseteq ToSet(queue) \cup ({draft} \ {None})
        /\ (draft' # None => draft' \in Waits(queue, draft, None))
    BY DEF Waits
  <1>3. immediate # None => immediate \notin ToSet(queue') /\ immediate # draft'
    BY <1>0, <1>2 DEF Lined, Waits
  <1>4. Lined'
    BY <1>0, <1>3 DEF Lined
  <1>5. Pending' = Pending \ {i} /\ i \in Pending
    <2>1. Pending' = Waits(queue', draft', immediate) /\ Pending = Waits(queue, draft, immediate)
      BY PendingIs, PendingNext
    <2> QED
      BY <2>1, <1>0, <1>1 DEF Waits
  <1>6. Rest(rec', Pending, store) /\ Behind(store)
    BY NotRunning
  <1>7. titling' \subseteq [id : Id, about : SUBSET Input]
    BY DEF MInv, RunTypes
  <1> QED
    BY <1>4, <1>5, <1>6, <1>7, Begins

-----------------------------------------------------------------------------
LEMMA TypeKept == ASSUME MInv, NEW i \in Input, Type(i) PROVE MInv'
  <1>1. /\ draft = None /\ draft' = i /\ job' = None /\ i \notin typed /\ typed' = typed \cup {i}
        /\ UNCHANGED <<queue, immediate, run, rec, reload, store, used, titling, titled, answers,
                       dropped, wiped>>
    BY DEF Type, waiting, task, title
  <1>2. Lined /\ Pending \subseteq typed /\ typed \subseteq Input /\ i # None
    BY NoneApart DEF MInv, RunTypes
  <1>3. i \notin Pending
    BY <1>1, <1>2
  <1>4. Pending' = Pending \cup {i}
    BY <1>1, <1>2 DEF Pending
  <1>5. Lined'
    BY <1>1, <1>2, <1>3 DEF Lined, LineIn, Inputs, Pending
  <1> QED
    BY <1>1, <1>2, <1>4, <1>5, RunStays, Moved

LEMMA EnterKept == ASSUME MInv, NEW now \in BOOLEAN, Enter(now) PROVE MInv'
  <1>1. /\ draft # None
        /\ UNCHANGED <<draft, queue, immediate, rec, reload, store, used, titling, titled,
                       answers, typed, dropped, wiped>>
    BY DEF Enter, title
  <1>2. Pending' = Pending
    BY <1>1 DEF Pending
  <1>3. Lined'
    BY <1>1 DEF MInv, Lined
  <1>4. (Running /\ Interrupt) \/ run' = run
    BY DEF Enter, task
  <1>5. SameRun
    BY <1>4, InterruptSame, RunStays
  <1> QED
    BY <1>1, <1>2, <1>3, <1>5, Rearranged

(* take_submission: the draft leaves the editor. *)
LEMMA DraftLeaves ==
    ASSUME MInv, draft # None
    PROVE  /\ draft \in Input /\ LineIn(queue, None) /\ draft \in Waits(queue, draft, None)
           /\ Waits(queue, None, None) = Waits(queue, draft, None) \ {draft}
           /\ LineIn(Append(queue, draft), None)
           /\ ToSet(Append(queue, draft)) = ToSet(queue) \cup {draft}
  <1>1. Lined /\ draft \in Input /\ queue \in Seq(Input) /\ IsInjective(queue)
        /\ draft \notin ToSet(queue)
    BY DEF MInv, Lined, LineIn, Inputs
  <1>2. ToSet(queue) \subseteq Input
    BY <1>1 DEF ToSet
  <1>3. /\ Append(queue, draft) \in Seq(Input) /\ IsInjective(Append(queue, draft))
        /\ ToSet(Append(queue, draft)) = ToSet(queue) \cup {draft}
    BY <1>1, LineAppend
  <1> QED
    BY <1>1, <1>2, <1>3, NoneApart DEF LineIn, Inputs, Waits

(* The draft goes to the end of the queue. *)
LEMMA DraftQueued ==
    ASSUME MInv, draft # None, TakeDraft, queue' = Append(queue, draft),
           UNCHANGED <<immediate, run, rec, reload, store, used, titling, titled, answers, typed,
                       dropped, wiped>>
    PROVE  MInv'
  <1>1. LineIn(queue', draft') /\ ToSet(queue') = ToSet(queue) \cup {draft} /\ job' = None
        /\ draft' = None
    BY DraftLeaves DEF TakeDraft
  <1>2. Lined'
    BY <1>1 DEF MInv, Lined
  <1>3. Pending' = Pending
    BY <1>1 DEF Pending
  <1> QED
    BY <1>2, <1>3, RunStays, Rearranged

LEMMA DraftSent ==
    ASSUME MInv, draft # None, TakeDraft, SendNow(draft), queue' = queue,
           UNCHANGED <<reload, store, used, titling, titled, answers, typed, dropped, wiped>>
    PROVE  MInv'
  <1>1. draft' = None /\ job' = None
    BY DEF TakeDraft
  <1> QED
    BY <1>1, DraftLeaves, SendKept

LEMMA DraftStarts ==
    ASSUME MInv, draft # None, TakeDraft, ~Running, rec' = rec, Start(draft, FALSE), queue' = queue,
           immediate' = immediate,
           UNCHANGED <<reload, store, used, titling, titled, answers, typed, dropped, wiped>>
    PROVE  MInv'
  <1>1. draft' = None /\ job' = None
    BY DEF TakeDraft
  <1> QED
    BY <1>1, DraftLeaves, StartKept

LEMMA EnterReadyKept == ASSUME MInv, NEW now \in BOOLEAN, EnterReady(now) PROVE MInv'
  <1>1. /\ draft # None /\ TakeDraft
        /\ UNCHANGED <<reload, store, used, titling, titled, answers, typed, dropped, wiped>>
    BY DEF EnterReady, title
  <1>2. CASE now /\ SendNow(draft) /\ UNCHANGED queue
    BY <1>1, <1>2, DraftSent
  <1>3. CASE ~now /\ Running /\ queue' = Append(queue, draft)
             /\ UNCHANGED <<queuedRun, paused, immediate, task, rec, halted>>
    BY <1>1, <1>3, DraftQueued DEF task
  <1>4. CASE ~now /\ ~Running /\ rec' = rec /\ Start(draft, FALSE) /\ halted' = FALSE
             /\ UNCHANGED <<queue, immediate>>
    BY <1>1, <1>4, DraftStarts
  <1> QED
    BY <1>2, <1>3, <1>4 DEF EnterReady

LEMMA PreparedKept == ASSUME MInv, NEW n \in Slots, NEW ok \in BOOLEAN, Prepared(n, ok) PROVE MInv'
  <1>1. UNCHANGED <<reload, store, used, titling, titled, answers, typed, dropped, wiped>>
    BY DEF Prepared, title
  <1>2. ASSUME UNCHANGED <<draft, waiting, task, rec>>, job' = job \/ job' = None PROVE MInv'
    <2>1. Lined' /\ Pending' = Pending /\ run' = run
      BY <1>2 DEF MInv, Lined, Pending, waiting, task
    <2> QED
      BY <1>1, <1>2, <2>1, RunStays, Rearranged
  <1>3. CASE job = None \/ job.n # n \/ ~ok
    BY <1>2, <1>3 DEF Prepared
  <1>4. CASE ~(job = None \/ job.n # n \/ ~ok)
    <2>1. draft # None
      BY <1>4 DEF MInv, Lined
    <2>2. CASE job' = None /\ UNCHANGED <<draft, waiting, task, rec, halted, crossed>>
      BY <1>2, <2>2
    <2>3. CASE TakeDraft /\ SendNow(draft) /\ UNCHANGED <<queue, crossed>>
      BY <1>1, <2>1, <2>3, DraftSent
    <2>4. CASE ~Running /\ TakeDraft /\ rec' = rec /\ Start(draft, FALSE)
               /\ UNCHANGED <<queue, immediate, crossed>>
      BY <1>1, <2>1, <2>4, DraftStarts
    <2>5. CASE TakeDraft /\ queue' = Append(queue, draft)
               /\ UNCHANGED <<queuedRun, paused, immediate, task, rec, halted>>
      BY <1>1, <2>1, <2>5, DraftQueued DEF task
    <2> QED
      BY <1>4, <2>2, <2>3, <2>4, <2>5 DEF Prepared
  <1> QED
    BY <1>3, <1>4

LEMMA EscapeKept == ASSUME MInv, Escape PROVE MInv'
  <1>0. Lined /\ Pending \subseteq typed /\ typed \subseteq Input
    BY DEF MInv, RunTypes
  <1>1. UNCHANGED <<wiped, rec, reload, store, used, titling, titled, answers, typed>>
    BY DEF Escape, title
  <1>2. CASE job' = None /\ UNCHANGED <<draft, waiting, task, halted, dropped>>
    <2>1. Lined' /\ Pending' = Pending /\ run' = run /\ dropped' = dropped
      BY <1>0, <1>2 DEF Lined, Pending, waiting, task
    <2> QED
      BY <1>1, <2>1, RunStays, Rearranged
  <1>3. CASE Running /\ Interrupt /\ queue' = Requeued /\ immediate' = None
             /\ UNCHANGED <<draft, job, ready, dropped>>
    <2>1. CASE immediate = None
      <3>1. queue' = queue
        BY <1>3, <2>1 DEF Requeued
      <3>2. Lined' /\ Pending' = Pending
        BY <3>1, <1>0, <1>3, <2>1 DEF Lined, Pending
      <3> QED
        BY <1>1, <1>3, <3>2, InterruptSame, Rearranged
    <2>2. CASE immediate # None
      <3>1. queue' = <<immediate>> \o queue
        BY <1>3, <2>2 DEF Requeued
      <3>2. immediate \in Input /\ immediate \notin ToSet(queue) /\ immediate # draft
            /\ queue \in Seq(Input) /\ IsInjective(queue)
        BY <2>2, <1>0 DEF Lined, LineIn, Inputs
      <3>3. queue' \in Seq(Input) /\ IsInjective(queue')
            /\ ToSet(queue') = ToSet(queue) \cup {immediate}
        BY <3>1, <3>2, LineCons
      <3>4. Lined' /\ Pending' = Pending
        BY <3>2, <3>3, <1>0, <1>3, <2>2 DEF Lined, LineIn, Inputs, Pending
      <3> QED
        BY <1>1, <1>3, <3>4, InterruptSame, Rearranged
    <2> QED
      BY <2>1, <2>2
  <1>4. CASE TakeDraft /\ dropped' = dropped \cup {draft} /\ UNCHANGED <<waiting, task, halted>>
             /\ draft # None
    <2>1. draft' = None /\ job' = None /\ run' = run /\ queue' = queue /\ immediate' = immediate
      BY <1>4 DEF TakeDraft, waiting, task
    <2>2. Lined'
      BY <2>1, <1>0, <1>4, DraftLeaves DEF Lined
    <2>3. Pending' \subseteq Pending /\ Pending \subseteq Pending' \cup {draft}
      BY <2>1 DEF Pending
    <2> QED
      BY <1>0, <1>1, <1>4, <2>1, <2>2, <2>3, RunStays, Moved
  <1> QED
    BY <1>2, <1>3, <1>4 DEF Escape

-----------------------------------------------------------------------------
(* The k-th message leaves the queue. *)
LEMMA QueueWithout ==
    ASSUME MInv, NEW k \in 1..Len(queue)
    PROVE  /\ queue[k] \in Input /\ queue[k] \in ToSet(queue) /\ queue[k] # draft
           /\ LineIn(Without(k), draft) /\ ToSet(Without(k)) = ToSet(queue) \ {queue[k]}
           /\ queue[k] \in Waits(queue, draft, None)
           /\ Waits(Without(k), draft, None) = Waits(queue, draft, None) \ {queue[k]}
  <1>1. queue \in Seq(Input) /\ IsInjective(queue) /\ draft \in Inputs /\ draft \notin ToSet(queue)
    BY DEF MInv, Lined, LineIn
  <1>2. /\ Without(k) \in Seq(Input) /\ IsInjective(Without(k)) /\ queue[k] \in Input
        /\ ToSet(Without(k)) = ToSet(queue) \ {queue[k]} /\ queue[k] \in ToSet(queue)
    BY <1>1, LineRemove DEF Without
  <1> QED
    BY <1>1, <1>2, NoneApart DEF LineIn, Waits

LEMMA QueueSendKept == ASSUME MInv, NEW k \in 1..Len(queue), QueueSend(k) PROVE MInv'
  <1>1. /\ UNCHANGED <<draft, job, reload, store, used, titling, titled, answers, typed, dropped, wiped>>
        /\ Lined
    BY DEF QueueSend, editor, title, MInv
  <1>2. /\ queue[k] \in Input /\ queue[k] \in ToSet(queue) /\ queue[k] # draft
        /\ LineIn(Without(k), draft) /\ ToSet(Without(k)) = ToSet(queue) \ {queue[k]}
    BY QueueWithout
  <1>3. CASE Running
    <2>1. queue' = <<queue[k]>> \o Without(k) /\ UNCHANGED <<immediate, run, rec>>
      BY <1>3 DEF QueueSend, task
    <2>2. queue' \in Seq(Input) /\ IsInjective(queue')
          /\ ToSet(queue') = ToSet(Without(k)) \cup {queue[k]}
      BY <1>2, <2>1, LineCons DEF LineIn
    <2>3. ToSet(queue') = ToSet(queue)
      BY <1>2, <2>2
    <2>4. Lined' /\ Pending' = Pending
      BY <1>1, <2>1, <2>2, <2>3 DEF Lined, LineIn, Pending
    <2> QED
      BY <1>1, <2>1, <2>4, RunStays, Rearranged
  <1>4. CASE ~Running
    <2>1. queue' = Without(k) /\ rec' = rec /\ Start(queue[k], FALSE) /\ immediate' = immediate
      BY <1>4 DEF QueueSend
    <2> QED
      BY <1>1, <1>2, <1>4, <2>1, QueueWithout, StartKept DEF Lined
  <1> QED
    BY <1>3, <1>4

LEMMA QueueSendNowKept == ASSUME MInv, NEW k \in 1..Len(queue), QueueSendNow(k) PROVE MInv'
  <1>1. /\ UNCHANGED <<draft, job, reload, store, used, titling, titled, answers, typed, dropped, wiped>>
        /\ queue' = Without(k) /\ SendNow(queue[k]) /\ Lined
    BY DEF QueueSendNow, editor, title, MInv
  <1> QED
    BY <1>1, QueueWithout, SendKept DEF Lined

LEMMA QueueDeleteKept == ASSUME MInv, NEW k \in 1..Len(queue), QueueDelete(k) PROVE MInv'
  <1>0. Lined /\ Pending \subseteq typed /\ typed \subseteq Input
    BY DEF MInv, RunTypes
  <1>1. /\ UNCHANGED <<draft, job, immediate, run, rec, reload, store, used, titling, titled,
                       answers, typed>>
        /\ queue' = Without(k) /\ dropped' = dropped \cup {queue[k]} /\ wiped' = wiped
    BY DEF QueueDelete, editor, task, title
  <1>2. LineIn(queue', draft') /\ ToSet(queue') = ToSet(queue) \ {queue[k]}
    BY <1>1, QueueWithout
  <1>3. Lined'
    BY <1>0, <1>1, <1>2 DEF Lined
  <1>4. Pending' \subseteq Pending /\ Pending \subseteq Pending' \cup {queue[k]}
    BY <1>1, <1>2 DEF Pending
  <1> QED
    BY <1>0, <1>1, <1>3, <1>4, RunStays, Moved

LEMMA QueueEditKept == ASSUME MInv, NEW k \in 1..Len(queue), QueueEdit(k) PROVE MInv'
  <1>0. Lined /\ queue \in Seq(Input) /\ IsInjective(queue)
    BY DEF MInv, Lined, LineIn
  <1>1. /\ UNCHANGED <<immediate, run, rec, reload, store, used, titling, titled, answers, typed,
                       dropped, wiped>>
        /\ queue' = RemoveAt(IF draft = None THEN queue ELSE Append(queue, draft), k)
        /\ draft' = queue[k] /\ job' = None
    BY DEF QueueEdit, task, title, history
  <1>2. queue[k] \in Input /\ queue[k] \in ToSet(queue) /\ queue[k] # draft /\ queue[k] # None
    BY QueueWithout, NoneApart
  <1>3. /\ queue' \in Seq(Input) /\ IsInjective(queue')
        /\ ToSet(queue') = (ToSet(queue) \cup ({draft} \ {None})) \ {queue[k]}
    <2>1. CASE draft = None
      <3>1. queue' = RemoveAt(queue, k)
        BY <1>1, <2>1
      <3> QED
        BY <3>1, <2>1, <1>0, LineRemove
    <2>2. CASE draft # None
      <3> DEFINE q == Append(queue, draft)
      <3>1. q \in Seq(Input) /\ IsInjective(q) /\ ToSet(q) = ToSet(queue) \cup {draft}
            /\ draft \in Input
        BY <2>2, DraftLeaves DEF LineIn
      <3>2. k \in 1..Len(q) /\ q[k] = queue[k]
        BY <1>0, <3>1
      <3>3. queue' = RemoveAt(q, k)
        BY <1>1, <2>2
      <3> HIDE DEF q
      <3>4. /\ RemoveAt(q, k) \in Seq(Input) /\ IsInjective(RemoveAt(q, k))
            /\ ToSet(RemoveAt(q, k)) = ToSet(q) \ {q[k]}
        BY <3>1, <3>2, LineRemove
      <3> QED
        BY <2>2, <3>1, <3>2, <3>3, <3>4
    <2> QED
      BY <2>1, <2>2
  <1>4. Lined'
    BY <1>0, <1>1, <1>2, <1>3 DEF Lined, LineIn, Inputs
  <1>5. Pending' = Pending
    BY <1>1, <1>2, <1>3 DEF Pending
  <1> QED
    BY <1>1, <1>4, <1>5, RunStays, Rearranged


-----------------------------------------------------------------------------
(* Another record takes the place of the one in memory.  What waited, and what was *)
(* only in memory, is given up or wiped, but for what still waits.                 *)
LEMMA Left ==
    ASSUME MInv, UNCHANGED <<run, store, typed, titling, answers>>, used \subseteq used',
           used' \subseteq Id,
           rec' \in Records, Level(rec', store, used', typed),
           rec'.said \subseteq SaidIn(store), rec'.answered \subseteq AnsweredIn(store),
           titled' = None, reload' = reload \/ reload' = Nothing,
           Lined', Pending' \subseteq Pending, dropped \cup wiped \subseteq dropped' \cup wiped',
           \A i \in Pending \cup Unsaved : i \in dropped' \cup wiped' \/ i \in Pending'
    PROVE  MInv'
  <1>0. Lined /\ RunTypes /\ AllLevel /\ Unsent /\ RunMakesUp /\ Accounted
    BY DEF MInv
  <1>1. Running' = Running /\ Uncommitted' = Uncommitted /\ RunShape'
    BY <1>0 DEF Running, Uncommitted, RunTypes, RunShape
  <1>2. Reloading' => Reloading /\ reload' = reload
    BY DEF Reloading, Nothing
  <1>3. RunTypes'
    BY <1>0, <1>1 DEF RunTypes, Titles
  <1>4. \A r : Level(r, store, used, typed) => Level(r, store', used', typed')
    BY DEF Level
  <1>5. AllLevel'
    <2>1. StoreKept(store', used', typed')
      BY <1>0 DEF AllLevel, StoreKept
    <2>2. ReloadKept(reload', store', used', typed')
      BY <1>0, <1>4 DEF AllLevel, ReloadKept, Nothing
    <2> QED
      BY <1>0, <1>1, <1>4, <2>1, <2>2 DEF AllLevel
  <1>6. Unsent'
    BY <1>0, <1>1, <1>2 DEF Unsent
  <1>7. rec.id \in Id /\ store[rec.id].said \subseteq SaidIn(store)
        /\ store[rec.id].answered \subseteq AnsweredIn(store)
    BY <1>0, InStoreOf DEF RunTypes, Records
  <1>8. \A i \in rec.said \cup rec.answered :
            i \in dropped' \cup wiped' \/ i \in SaidIn(store) \cap rec.said
              \/ i \in AnsweredIn(store) \cap rec.answered
            \/ i \in Pending'
    BY <1>7 DEF Unsaved
  <1>9. ASSUME NEW i \in rec.answered PROVE i \in dropped' \cup wiped' \/ i \in AnsweredIn(store)
    <2>1. i \in rec.said /\ i \notin Pending
      BY <1>0 DEF AllLevel, Level, Unsent
    <2>2. i \notin store[rec.id].answered => i \in Unsaved
      BY DEF Unsaved
    <2> QED
      BY <2>1, <2>2, <1>7
  <1>10. ASSUME NEW i \in rec.said PROVE i \in dropped' \cup wiped' \/ i \in SaidIn(store) \/ i \in Pending'
    <2>1. i \notin store[rec.id].said => i \in Unsaved
      BY DEF Unsaved
    <2> QED
      BY <2>1, <1>7
  <1>11. RunMakesUp'
    BY <1>0, <1>1, <1>9 DEF RunMakesUp
  <1>12. Accounted'
    BY <1>0, <1>1, <1>9, <1>10 DEF Accounted
  <1> QED
    BY <1>3, <1>5, <1>6, <1>11, <1>12 DEF MInv

(* replace_session leaves nothing in the queue. *)
LEMMA Replaced ==
    ASSUME NEW r, Replace(r), draft' = None \/ draft' = draft, MInv
    PROVE  Lined' /\ Pending' = {draft'} \ {None} /\ rec' = r /\ titled' = None
  <1>1. queue' = <<>> /\ immediate' = None /\ job' = None /\ rec' = r /\ titled' = None
    BY DEF Replace
  <1>2. <<>> \in Seq(Input) /\ IsInjective(<<>>) /\ ToSet(<<>>) = {}
    BY DEF IsInjective, ToSet
  <1>3. draft \in Inputs
    BY DEF MInv, Lined, LineIn
  <1> QED
    BY <1>1, <1>2, <1>3 DEF Lined, LineIn, Inputs, Pending

LEMMA NewSessionKept == ASSUME MInv, NewSession PROVE MInv'
  <1>1. PICK id \in NewId : Leave(Blank(id)) /\ used' = used \cup {id}
    BY DEF NewSession
  <1>2. id \in Id /\ id \notin used
    BY DEF NewId
  <1>3. /\ UNCHANGED <<run, store, typed, titling, answers, reload>> /\ draft' = None
        /\ Replace(Blank(id)) /\ dropped' \cup wiped' = dropped \cup wiped \cup Pending \cup Unsaved
    BY <1>1 DEF Leave
  <1>4. Lined' /\ Pending' = {} /\ rec' = Blank(id) /\ titled' = None
    BY <1>3, Replaced
  <1>5. used \subseteq Id /\ store[id].rev = 0 /\ store[id].said = {} /\ store[id].answered = {}
    BY <1>2 DEF MInv, RunTypes, AllLevel, StoreKept
  <1>6. rec' \in Records /\ Level(rec', store, used', typed) /\ rec'.said = {} /\ rec'.answered = {}
    <2>1. /\ Blank(id) \in Records /\ Blank(id).id = id /\ Blank(id).rev = 0
          /\ Blank(id).said = {} /\ Blank(id).answered = {}
      BY <1>2, BlankIs
    <2> QED
      BY <2>1, <1>1, <1>4, <1>5 DEF Level
  <1>7. used \subseteq used' /\ used' \subseteq Id
    BY <1>1, <1>2, <1>5
  <1>8. \A i \in Pending \cup Unsaved : i \in dropped' \cup wiped'
    BY <1>3
  <1>9. dropped \cup wiped \subseteq dropped' \cup wiped' /\ Pending' \subseteq Pending
    BY <1>3, <1>4
  <1>10. rec'.said \subseteq SaidIn(store) /\ rec'.answered \subseteq AnsweredIn(store)
    BY <1>6
  <1> QED
    BY <1>3, <1>4, <1>6, <1>7, <1>8, <1>9, <1>10, Left

LEMMA ResumeKept == ASSUME MInv, NEW id \in Id, Resume(id) PROVE MInv'
  <1>1. /\ UNCHANGED <<run, store, typed, titling, answers, reload, used>> /\ draft' = None
        /\ Replace(store[id]) /\ store[id].rev > 0
        /\ dropped' \cup wiped' = dropped \cup wiped \cup Pending \cup Unsaved
    BY DEF Resume, Leave
  <1>2. Lined' /\ Pending' = {} /\ rec' = store[id] /\ titled' = None
    BY <1>1, Replaced
  <1>3. used \subseteq Id /\ StoreKept(store, used, typed)
    BY DEF MInv, RunTypes, AllLevel
  <1>4. store[id] \in Records /\ store[id].rev \in Nat /\ id \in used
    BY <1>1, <1>3 DEF StoreKept, Records
  <1>5. Level(store[id], store, used, typed)
    BY <1>3, <1>4 DEF Level, StoreKept
  <1>6. store[id].said \subseteq SaidIn(store) /\ store[id].answered \subseteq AnsweredIn(store)
    BY InStoreOf
  <1>7. \A i \in Pending \cup Unsaved : i \in dropped' \cup wiped'
    BY <1>1
  <1>8. dropped \cup wiped \subseteq dropped' \cup wiped' /\ Pending' \subseteq Pending
    BY <1>1, <1>2
  <1> QED
    BY <1>1, <1>2, <1>3, <1>4, <1>5, <1>6, <1>7, <1>8, Left

LEMMA ReloadedKept == ASSUME MInv, Reloaded PROVE MInv'
  <1>1. /\ reload' = Nothing /\ reload.phase # "none"
        /\ UNCHANGED <<draft, run, store, typed, titling, answers, used, dropped>>
    BY DEF Reloaded, Restored
  <1>2. CASE reload.phase = "replaced"
    <2>1. /\ Replace(reload.rec) /\ dropped' = dropped
          /\ wiped' = wiped \cup ((Pending \cup Unsaved) \ {draft})
      BY <1>2 DEF Reloaded
    <2>2. Lined' /\ Pending' = {draft'} \ {None} /\ rec' = reload.rec /\ titled' = None
      BY <1>1, <2>1, Replaced
    <2>3. /\ used \subseteq Id /\ reload.rec \in Records /\ Level(reload.rec, store, used, typed)
          /\ reload.rec.said \subseteq SaidIn(store)
          /\ reload.rec.answered \subseteq AnsweredIn(store)
      BY <1>2 DEF MInv, RunTypes, AllLevel, ReloadKept, Nothing
    <2>4. None \notin Pending \cup Unsaved
      <3>1. Pending \subseteq typed /\ rec.said \subseteq typed
            /\ rec.answered \subseteq typed /\ typed \subseteq Input
        BY DEF MInv, RunTypes, AllLevel, Level
      <3> QED
        BY <3>1, NoneApart DEF Unsaved
    <2>5. \A i \in Pending \cup Unsaved : i \in dropped' \cup wiped' \/ i \in Pending'
      BY <1>1, <2>1, <2>2, <2>4
    <2>6. dropped \cup wiped \subseteq dropped' \cup wiped' /\ Pending' \subseteq Pending
      BY <1>1, <2>1, <2>2 DEF Pending
    <2> QED
      BY <1>1, <2>2, <2>3, <2>5, <2>6, Left
  <1>3. CASE reload.phase # "replaced"
    <2>1. /\ UNCHANGED <<rec, job, queue, immediate, titled, dropped, wiped>>
      BY <1>3 DEF Reloaded, waiting
    <2>2. Lined' /\ Pending' = Pending
      BY <1>1, <2>1 DEF MInv, Lined, Pending
    <2>3. ~Reloading' /\ Running' = Running /\ Uncommitted' = Uncommitted
      BY <1>1 DEF Nothing, Reloading, Running, Uncommitted
    <2>4. RunTypes'
      BY <1>1, <2>1, <2>2, <2>3 DEF MInv, RunTypes, RunShape
    <2>5. AllLevel'
      BY <1>1, <2>1, <2>3 DEF MInv, AllLevel, ReloadKept, Nothing
    <2>6. Unsent' /\ RunMakesUp' /\ Accounted'
      BY <1>1, <2>1, <2>2, <2>3 DEF MInv, Unsent, RunMakesUp, Accounted
    <2> QED
      BY <2>2, <2>4, <2>5, <2>6 DEF MInv
  <1> QED
    BY <1>2, <1>3

(* A reload begins with the record in memory, or comes to an end without a save. *)
LEMMA ReloadOnly ==
    ASSUME MInv, UNCHANGED <<draft, job, queue, immediate, run, rec, store, used, titling,
                             titled, answers, typed, dropped, wiped>>,
           reload' \in [phase : ReloadPhases \ {"replaced"}, rec : Records],
           reload'.rec = rec \/ (Reloading /\ reload'.rec = reload.rec)
    PROVE  MInv'
  <1>1. Lined' /\ Pending' = Pending /\ Running' = Running /\ Uncommitted' = Uncommitted
        /\ Reloading'
    BY DEF MInv, Lined, Pending, Running, Uncommitted, Reloading, ReloadPhases
  <1>2. RunTypes'
    BY <1>1 DEF MInv, RunTypes, RunShape
  <1>3. Level(reload'.rec, store, used, typed) /\ reload'.phase # "replaced"
    BY DEF MInv, AllLevel, ReloadKept, Reloading
  <1>4. AllLevel'
    BY <1>1, <1>3 DEF MInv, AllLevel, ReloadKept
  <1>5. Unsent'
    BY <1>1 DEF MInv, Unsent
  <1>6. RunMakesUp' /\ Accounted'
    BY <1>1, <1>3 DEF MInv, RunMakesUp, Accounted
  <1> QED
    BY <1>1, <1>2, <1>4, <1>5, <1>6 DEF MInv

LEMMA CompactKept == ASSUME MInv, Compact PROVE MInv'
  <1>1. /\ UNCHANGED <<draft, job, queue, immediate, run, rec, store, used, titling, titled,
                       answers, typed, dropped, wiped>>
        /\ reload' = [phase |-> "loading", rec |-> rec]
    BY DEF Compact, editor, waiting, task, title
  <1>2. rec \in Records
    BY DEF MInv, RunTypes
  <1> QED
    BY <1>1, <1>2, ReloadOnly DEF ReloadPhases

LEMMA ReloadEndsKept == ASSUME MInv, ReloadEnds PROVE MInv'
  <1>1. /\ UNCHANGED <<draft, job, queue, immediate, run, rec, used, titling, titled, answers,
                       typed, dropped, wiped>>
        /\ reload.phase = "loading" /\ Reloading
    BY DEF ReloadEnds, editor, waiting, task, title, Reloading
  <1>2. reload \in [phase : ReloadPhases, rec : Records] /\ reload.rec \in Records
    BY <1>1 DEF MInv, RunTypes, Nothing
  <1>3. CASE reload' = [reload EXCEPT !.phase = "unchanged"] /\ UNCHANGED store
    BY <1>1, <1>2, <1>3, ReloadOnly DEF ReloadPhases
  <1>4. CASE SaveFails(reload.rec) /\ reload' = [reload EXCEPT !.phase = "error"]
    <2>1. store' = store
      BY <1>4 DEF SaveFails, Fail
    <2> QED
      BY <1>1, <1>2, <1>4, <2>1, ReloadOnly DEF ReloadPhases
  <1>5. CASE SaveOk(reload.rec) /\ reload' = [phase |-> "replaced", rec |-> Stored(reload.rec)]
    <2> DEFINE n == reload.rec
    <2>0. Lined /\ RunTypes /\ AllLevel /\ Unsent /\ RunMakesUp /\ Accounted
      BY DEF MInv
    <2>1. /\ StoreKept(store, used, typed) /\ used' \subseteq Id /\ used' = used /\ typed' = typed
          /\ n \in Records /\ Level(n, store, used, typed) /\ store[n.id].rev = n.rev /\ Put(n)
      BY <1>1, <1>2, <1>5, <2>0 DEF RunTypes, AllLevel, ReloadKept, SaveOk, InStep
    <2>2. /\ StoreKept(store', used', typed')
          /\ SaidIn(store') = SaidIn(store) \cup n.said
          /\ AnsweredIn(store') = AnsweredIn(store) \cup n.answered
          /\ Stored(n) \in Records /\ Level(Stored(n), store', used', typed')
          /\ \A r \in Records : Level(r, store, used, typed) => Level(r, store', used', typed')
      <3>1. /\ used \subseteq used' /\ n.id \in used' /\ n.said \subseteq typed
               /\ n.answered \subseteq n.said
            /\ store[n.id].said \subseteq n.said /\ store[n.id].answered \subseteq n.answered
        BY <2>1 DEF Level
      <3> HIDE DEF n
      <3> QED
        BY <2>1, <3>1, PutKeeps
    <2>3. Stored(n).said = n.said /\ Stored(n).answered = n.answered
      BY <1>2 DEF Stored, Records
    <2>4. reload'.phase = "replaced" /\ reload'.rec = Stored(n)
      BY <1>5
    <2> HIDE DEF n
    <2>5. Lined' /\ Pending' = Pending /\ Running' = Running /\ Uncommitted' = Uncommitted
          /\ Reloading'
      BY <1>1, <2>0, <2>4 DEF Lined, Pending, Running, Uncommitted, Reloading
    <2>6. RunTypes'
      <3>1. reload' \in [phase : ReloadPhases, rec : Records]
        BY <1>5, <2>2 DEF ReloadPhases, n
      <3> QED
        BY <1>1, <2>0, <2>5, <3>1 DEF RunTypes, RunShape
    <2>7. AllLevel'
      BY <1>1, <2>0, <2>2, <2>3, <2>4, <2>5 DEF AllLevel, ReloadKept, RunTypes
    <2>8. Unsent'
      BY <1>1, <2>0, <2>2, <2>3, <2>4, <2>5 DEF Unsent, n
    <2>9. RunMakesUp' /\ Accounted'
      BY <1>1, <2>0, <2>2, <2>3, <2>4, <2>5 DEF RunMakesUp, Accounted
    <2> QED
      BY <2>5, <2>6, <2>7, <2>8, <2>9 DEF MInv
  <1> QED
    BY <1>3, <1>4, <1>5 DEF ReloadEnds


-----------------------------------------------------------------------------
(* The run goes on, and what it saves is in the store. *)
LEMMA RunGoesOn ==
    ASSUME MInv, UNCHANGED <<draft, job, queue, immediate, rec, reload, titling, titled, typed,
                             dropped, wiped>>,
           Running, Running', RunShape', run'.input = run.input, run'.rec \in Records,
           used \subseteq used', used' \subseteq Id, StoreKept(store', used', typed),
           \A r \in Records : Level(r, store, used, typed) => Level(r, store', used', typed),
           Level(run'.rec, store', used', typed),
           SaidIn(store) \subseteq SaidIn(store'), AnsweredIn(store) \subseteq AnsweredIn(store'),
           SaidIn(store') \subseteq SaidIn(store) \cup run'.rec.said,
           run.rec.said \subseteq run'.rec.said,
           run'.rec.said \subseteq run.rec.said \cup {run.input},
           run.rec.answered \subseteq run'.rec.answered,
           Uncommitted' => /\ Uncommitted /\ SaidIn(store') = SaidIn(store)
                           /\ run'.rec.answered = run.rec.answered,
           ~Uncommitted' => run.input \in run'.rec.said,
           answers' \subseteq answers \cup run'.rec.answered
    PROVE  MInv'
  <1>0. Lined /\ RunTypes /\ AllLevel /\ Unsent /\ RunMakesUp /\ Accounted
    BY DEF MInv
  <1>1. Lined' /\ Pending' = Pending /\ Reloading' = Reloading
    BY <1>0 DEF Lined, Pending, Reloading
  <1>2. RunTypes'
    BY <1>0, <1>1 DEF RunTypes
  <1>3. AllLevel'
    <2>1. Level(rec, store', used', typed)
      BY <1>0 DEF RunTypes, AllLevel
    <2>2. ReloadKept(reload', store', used', typed')
      <3>1. reload.phase # "none" => reload.rec \in Records
        BY <1>0 DEF RunTypes, Nothing
      <3> QED
        BY <1>0, <3>1 DEF AllLevel, ReloadKept
    <2> QED
      BY <2>1, <2>2 DEF AllLevel
  <1>4. Unsent'
    <2>1. Pending \cap run'.rec.said = {}
      BY <1>0 DEF Unsent
    <2> QED
      BY <1>0, <1>1, <2>1 DEF Unsent
  <1>5. RunMakesUp'
    BY <1>0 DEF RunMakesUp
  <1>6. Accounted'
    BY <1>0, <1>1 DEF Accounted
  <1> QED
    BY <1>1, <1>2, <1>3, <1>4, <1>5, <1>6 DEF MInv

LEMMA DoneIs ==
    ASSUME NEW r, NEW how, NEW committed \in BOOLEAN, NEW advance, Done(r, how, committed, advance)
    PROVE  /\ RunShape' /\ Running' /\ run'.phase = "done" /\ run'.input = run.input /\ run'.rec = r
           /\ Uncommitted' = ~committed
  BY DEF Done, RunShape, Running, Uncommitted

LEMMA PromptIs ==
    ASSUME MInv, Running
    PROVE  /\ Prompt \in Records /\ Prompt.id = run.rec.id /\ Prompt.rev = run.rec.rev
           /\ Prompt.said = run.rec.said \cup {run.input} /\ Prompt.answered = run.rec.answered
  <1>1. run.rec \in Records /\ run.input \in Input
    BY DEF MInv, RunTypes
  <1> QED
    BY <1>1 DEF Prompt, Records

LEMMA FirstSaveKept == ASSUME MInv, FirstSave PROVE MInv'
  <1>1. /\ UNCHANGED <<draft, job, queue, immediate, rec, reload, titling, titled, typed,
                       dropped, wiped, used, answers>>
        /\ run.phase = "first" /\ Running /\ Uncommitted
    BY DEF FirstSave, editor, waiting, title, Running, Uncommitted
  <1>2. /\ RunTypes /\ StoreKept(store, used, typed) /\ Level(run.rec, store, used, typed)
        /\ run.input \in typed /\ used \subseteq Id
    BY <1>1 DEF MInv, RunTypes, AllLevel
  <1>3. /\ Prompt \in Records /\ Prompt.id = run.rec.id /\ Prompt.rev = run.rec.rev
        /\ Prompt.said = run.rec.said \cup {run.input} /\ Prompt.answered = run.rec.answered
    BY <1>1, PromptIs
  <1>4. CASE /\ SaveOk(Prompt)
             /\ IF run.stop THEN Done(Stored(Prompt), "none", TRUE, TRUE)
                ELSE run' = [run EXCEPT !.phase = "model", !.rec = Stored(Prompt)]
    <2>1. store[Prompt.id].rev = Prompt.rev /\ Put(Prompt)
      BY <1>4 DEF SaveOk, InStep
    <2>2. /\ StoreKept(store', used', typed')
          /\ SaidIn(store') = SaidIn(store) \cup Prompt.said
          /\ AnsweredIn(store') = AnsweredIn(store) \cup Prompt.answered
          /\ Stored(Prompt) \in Records /\ Level(Stored(Prompt), store', used', typed')
          /\ \A r \in Records : Level(r, store, used, typed) => Level(r, store', used', typed')
      <3>1. /\ Prompt.id \in used' /\ Prompt.said \subseteq typed
               /\ Prompt.answered \subseteq Prompt.said
            /\ store[Prompt.id].said \subseteq Prompt.said
               /\ store[Prompt.id].answered \subseteq Prompt.answered
            /\ used' \subseteq Id /\ used \subseteq used' /\ typed' = typed
        BY <1>1, <1>2, <1>3, <2>1 DEF Level
      <3> QED
        BY <1>2, <1>3, <2>1, <3>1, PutKeeps
    <2>3. Stored(Prompt).said = Prompt.said /\ Stored(Prompt).answered = Prompt.answered
      BY <1>3 DEF Stored, Records
    <2>4. RunShape' /\ Running' /\ run'.input = run.input /\ run'.rec = Stored(Prompt)
          /\ ~Uncommitted'
      <3>1. CASE Done(Stored(Prompt), "none", TRUE, TRUE)
        BY <3>1, DoneIs
      <3>2. CASE run' = [run EXCEPT !.phase = "model", !.rec = Stored(Prompt)]
        <4>1. DOMAIN run = {"phase", "input", "rec", "stop", "cancel"}
          BY <1>1, <1>2 DEF RunTypes, RunShape, NoRun
        <4> QED
          BY <3>2, <4>1 DEF RunShape, Running, Uncommitted, Begun
      <3> QED
        BY <1>4, <3>1, <3>2
    <2> QED
      BY <1>1, <1>2, <1>3, <2>2, <2>3, <2>4, RunGoesOn
  <1>5. CASE SaveFails(Prompt) /\ Done(Prompt, "error", FALSE, FALSE)
    <2>1. store' = store
      BY <1>5 DEF SaveFails, Fail
    <2>2. RunShape' /\ Running' /\ run'.input = run.input /\ run'.rec = Prompt /\ Uncommitted'
      BY <1>5, DoneIs
    <2>3. Level(Prompt, store, used, typed)
      BY <1>2, <1>3 DEF Level
    <2> QED
      BY <1>1, <1>2, <1>3, <2>1, <2>2, <2>3, RunGoesOn
  <1> QED
    BY <1>4, <1>5 DEF FirstSave

LEMMA ModelKept == ASSUME MInv, Model PROVE MInv'
  <1>1. /\ UNCHANGED <<draft, job, queue, immediate, rec, reload, titling, titled, typed,
                       dropped, wiped, used, store>>
        /\ run.phase = "model" /\ Running /\ ~Uncommitted
    BY DEF Model, editor, waiting, title, Running, Uncommitted
  <1>2. /\ RunTypes /\ StoreKept(store, used, typed) /\ Level(run.rec, store, used, typed)
        /\ run.input \in typed /\ typed \subseteq Input /\ run.rec \in Records /\ used \subseteq Id
        /\ run.input \in run.rec.said
    BY <1>1 DEF MInv, RunTypes, AllLevel, RunMakesUp
  <1>3. DOMAIN run = {"phase", "input", "rec", "stop", "cancel"}
    BY <1>1, <1>2 DEF RunTypes, RunShape, NoRun
  <1>4. CASE run' = [run EXCEPT !.phase = "answered", !.rec.answered = @ \cup {run.input}]
             /\ answers' = answers \cup {run.input}
    <2> DEFINE new == [run.rec EXCEPT !.answered = @ \cup {run.input}]
    <2>1. run'.rec = new /\ run'.phase = "answered" /\ run'.input = run.input
          /\ DOMAIN run' = DOMAIN run
      BY <1>3, <1>4
    <2>2. /\ new \in Records /\ new.id = run.rec.id /\ new.rev = run.rec.rev
          /\ new.said = run.rec.said
          /\ new.answered = run.rec.answered \cup {run.input}
      BY <1>2 DEF Records
    <2> HIDE DEF new
    <2>3. RunShape' /\ Running' /\ ~Uncommitted'
      BY <1>3, <2>1 DEF RunShape, Running, Uncommitted, Begun
    <2>4. Level(new, store, used, typed)
      BY <1>2, <2>2 DEF Level
    <2> QED
      BY <1>1, <1>2, <1>4, <2>1, <2>2, <2>3, <2>4, RunGoesOn
  <1>5. CASE run' = [run EXCEPT !.phase = "cancelled"] /\ UNCHANGED answers
    <2>1. run'.rec = run.rec /\ run'.input = run.input /\ RunShape' /\ Running' /\ ~Uncommitted'
      BY <1>3, <1>5 DEF RunShape, Running, Uncommitted, Begun
    <2> QED
      BY <1>1, <1>2, <1>5, <2>1, RunGoesOn
  <1>6. CASE Done(run.rec, "error", TRUE, TRUE) /\ UNCHANGED answers
    <2>1. run'.rec = run.rec /\ run'.input = run.input /\ RunShape' /\ Running' /\ ~Uncommitted'
      BY <1>6, DoneIs
    <2> QED
      BY <1>1, <1>2, <1>6, <2>1, RunGoesOn
  <1> QED
    BY <1>4, <1>5, <1>6 DEF Model

LEMMA FinalSaveKept == ASSUME MInv, FinalSave PROVE MInv'
  <1>1. /\ UNCHANGED <<draft, job, queue, immediate, rec, reload, titling, titled, typed,
                       dropped, wiped, answers>>
        /\ run.phase \in {"answered", "cancelled"} /\ Running /\ ~Uncommitted
    BY DEF FinalSave, editor, waiting, title, Running, Uncommitted
  <1>2. /\ RunTypes /\ StoreKept(store, used, typed) /\ Level(run.rec, store, used, typed)
        /\ run.input \in typed /\ run.rec \in Records /\ used \subseteq Id
           /\ run.input \in run.rec.said
    BY <1>1 DEF MInv, RunTypes, AllLevel, RunMakesUp
  <1>3. ASSUME NEW n \in Records, n.said = run.rec.said, n.answered = run.rec.answered,
               used \subseteq used', used' \subseteq Id, n.id \in used', store[n.id].rev = n.rev,
               store[n.id].said \subseteq n.said, store[n.id].answered \subseteq n.answered, Put(n),
               NEW how, Done(Stored(n), how, TRUE, TRUE)
        PROVE  MInv'
    <2>1. /\ StoreKept(store', used', typed')
          /\ SaidIn(store') = SaidIn(store) \cup n.said
          /\ AnsweredIn(store') = AnsweredIn(store) \cup n.answered
          /\ Stored(n) \in Records /\ Level(Stored(n), store', used', typed')
          /\ \A r \in Records : Level(r, store, used, typed) => Level(r, store', used', typed')
      <3>1. n.said \subseteq typed /\ n.answered \subseteq n.said /\ typed' = typed
        BY <1>1, <1>2, <1>3 DEF Level
      <3> QED
        BY <1>2, <1>3, <3>1, PutKeeps
    <2>2. Stored(n).said = n.said /\ Stored(n).answered = n.answered
      BY DEF Stored, Records
    <2>3. run'.rec = Stored(n) /\ run'.input = run.input /\ RunShape' /\ Running' /\ ~Uncommitted'
      BY <1>3, DoneIs
    <2> QED
      BY <1>1, <1>2, <1>3, <2>1, <2>2, <2>3, RunGoesOn
  <1>4. CASE SaveOk(run.rec) /\ Done(Stored(run.rec), run.phase, TRUE, TRUE) /\ UNCHANGED used
    <2>1. /\ store[run.rec.id].rev = run.rec.rev /\ Put(run.rec) /\ run.rec.id \in used'
          /\ store[run.rec.id].said \subseteq run.rec.said
          /\ store[run.rec.id].answered \subseteq run.rec.answered /\ used' \subseteq Id
      BY <1>2, <1>4 DEF SaveOk, InStep, Level
    <2> QED
      BY <1>2, <1>3, <1>4, <2>1
  <1>5. ASSUME NEW id \in NewId, used' = used \cup {id},
               Put([run.rec EXCEPT !.id = id, !.rev = 0]),
               Done(Stored([run.rec EXCEPT !.id = id, !.rev = 0]), "error", TRUE, TRUE)
        PROVE  MInv'
    <2> DEFINE n == [run.rec EXCEPT !.id = id, !.rev = 0]
    <2>1. id \in Id /\ id \notin used
      BY DEF NewId
    <2>2. n \in Records /\ n.id = id /\ n.rev = 0 /\ n.said = run.rec.said
          /\ n.answered = run.rec.answered
      BY <1>2, <2>1 DEF Records
    <2>3. store[id].rev = 0 /\ store[id].said = {} /\ store[id].answered = {}
      BY <1>2, <2>1 DEF StoreKept
    <2>4. Put(n) /\ Done(Stored(n), "error", TRUE, TRUE)
      BY <1>5
    <2> HIDE DEF n
    <2> QED
      BY <1>2, <1>3, <1>5, <2>1, <2>2, <2>3, <2>4
  <1>6. ASSUME NEW id \in NewId, used' = used \cup {id}, Fail, Done(run.rec, "error", TRUE, FALSE)
        PROVE  MInv'
    <2>1. store' = store /\ used \subseteq used' /\ used' \subseteq Id
      BY <1>2, <1>6 DEF Fail, NewId
    <2>2. run'.rec = run.rec /\ run'.input = run.input /\ RunShape' /\ Running' /\ ~Uncommitted'
      BY <1>6, DoneIs
    <2>3. \A r : Level(r, store, used, typed) => Level(r, store', used', typed)
      BY <2>1 DEF Level
    <2>4. StoreKept(store', used', typed)
      BY <1>2, <2>1 DEF StoreKept
    <2> QED
      BY <1>1, <1>2, <2>1, <2>2, <2>3, <2>4, RunGoesOn
  <1> QED
    BY <1>4, <1>5, <1>6 DEF FinalSave

LEMMA OtherSaveKept == ASSUME MInv, OtherSave PROVE MInv'
  <1>1. UNCHANGED <<draft, job, queue, immediate, run, rec, reload, titling, titled, typed,
                    dropped, wiped, used, answers>>
    BY DEF OtherSave, editor, waiting, title, task
  <1>2. PICK id \in Id : store[id].rev > 0 /\ store' = [store EXCEPT ![id].rev = @ + 1]
    BY DEF OtherSave
  <1>3. Lined /\ RunTypes /\ AllLevel /\ Unsent /\ RunMakesUp /\ Accounted
    BY DEF MInv
  <1>4. /\ StoreKept(store', used, typed)
        /\ SaidIn(store') = SaidIn(store) /\ AnsweredIn(store') = AnsweredIn(store)
        /\ \A r \in Records : Level(r, store, used, typed) => Level(r, store', used, typed)
    BY <1>2, <1>3, OtherSaveKeeps DEF AllLevel
  <1>5. Lined' /\ Pending' = Pending /\ Reloading' = Reloading /\ Running' = Running
        /\ Uncommitted' = Uncommitted
    BY <1>1, <1>3 DEF Lined, Pending, Reloading, Running, Uncommitted
  <1>6. RunTypes'
    BY <1>1, <1>3, <1>5 DEF RunTypes, RunShape
  <1>7. AllLevel'
    <2>1. reload.phase # "none" => reload.rec \in Records
      BY <1>3 DEF RunTypes, Nothing
    <2> QED
      BY <1>1, <1>3, <1>4, <1>5, <2>1 DEF RunTypes, AllLevel, ReloadKept
  <1>8. Unsent' /\ RunMakesUp' /\ Accounted'
    BY <1>1, <1>3, <1>4, <1>5 DEF Unsent, RunMakesUp, Accounted
  <1> QED
    BY <1>5, <1>6, <1>7, <1>8 DEF MInv


-----------------------------------------------------------------------------
(* flush_session_title puts a title to the record, in the store or nowhere. *)
LEMMA FlushKeeps ==
    ASSUME NEW r, NEW W, NEW t \in Titles, Rest(r, W, store), Behind(store), FlushTitle(r, t),
           used \subseteq Id,
           UNCHANGED <<used, typed>>,
           reload \in {Nothing} \cup [phase : ReloadPhases, rec : Records]
    PROVE  Rest(rec', W, store') /\ Behind(store') /\ titled' \in Titles
  <1>1. r \in Records /\ Level(r, store, used, typed) /\ StoreKept(store, used, typed)
    BY DEF Rest, Behind
  <1>2. CASE rec' = r /\ store' = store
    BY <1>2 DEF FlushTitle, Titles
  <1>3. CASE ~(t = None \/ r.title # None)
    <2> DEFINE n == [r EXCEPT !.title = t]
    <2>1. /\ n \in Records /\ n.id = r.id /\ n.rev = r.rev /\ n.said = r.said
          /\ n.answered = r.answered
      BY <1>1 DEF Records
    <2>2. \/ SaveOk(n) /\ rec' = Stored(n) /\ titled' = None
          \/ SaveFails(n) /\ rec' = r /\ titled' = t
          \/ CanFail /\ InStep(n) /\ Put(n) /\ Note(FALSE) /\ rec' = r /\ titled' = t
      BY <1>3 DEF FlushTitle
    <2> HIDE DEF n
    <2>3. CASE SaveFails(n) /\ rec' = r /\ titled' = t
      BY <1>2, <2>3 DEF SaveFails, Fail
    <2>4. CASE InStep(n) /\ Put(n) /\ (rec' = r \/ rec' = Stored(n)) /\ titled' \in Titles
      <3>1. /\ StoreKept(store', used', typed')
            /\ SaidIn(store') = SaidIn(store) \cup n.said
            /\ AnsweredIn(store') = AnsweredIn(store) \cup n.answered
            /\ Stored(n) \in Records /\ Level(Stored(n), store', used', typed')
            /\ \A x \in Records : Level(x, store, used, typed) => Level(x, store', used', typed')
        <4>1. /\ n.id \in used' /\ n.said \subseteq typed /\ n.answered \subseteq n.said
              /\ store[n.id].rev = n.rev /\ store[n.id].said \subseteq n.said
              /\ store[n.id].answered \subseteq n.answered /\ used' \subseteq Id
              /\ used \subseteq used'
          BY <1>1, <2>1, <2>4 DEF Level, InStep
        <4> QED
          BY <1>1, <2>1, <2>4, <4>1, PutKeeps
      <3>2. Stored(n).said = r.said /\ Stored(n).answered = r.answered
        BY <2>1 DEF Stored, Records
      <3>3. /\ rec' \in Records /\ Level(rec', store', used', typed')
            /\ rec'.said = r.said /\ rec'.answered = r.answered
        BY <1>1, <2>4, <3>1, <3>2
      <3>4. Rest(rec', W, store')
        BY <2>1, <3>1, <3>3 DEF Rest
      <3>5. ReloadKept(reload, store', used, typed)
        <4>1. reload.phase # "none" => reload.rec \in Records
          BY DEF Nothing
        <4> QED
          BY <3>1, <4>1 DEF Behind, ReloadKept
      <3> QED
        BY <2>4, <3>1, <3>4, <3>5 DEF Behind
    <2>5. None \in Titles
      BY DEF Titles
    <2> QED
      BY <2>2, <2>3, <2>4, <2>5 DEF SaveOk
  <1>4. CASE t = None \/ r.title # None
    <2>1. rec' = r /\ store' = store
      BY <1>4 DEF FlushTitle
    <2> QED
      BY <2>1, <1>4 DEF FlushTitle, Titles
  <1> QED
    BY <1>3, <1>4

-----------------------------------------------------------------------------
(* What waits when a run is over: its message as well, if it was not saved. *)
Base == Pending \cup (IF run.committed THEN {} ELSE {run.input})

LEMMA SettledRests ==
    ASSUME MInv, run.phase = "done"
    PROVE  Rest(Settled, Base, store) /\ Behind(store) /\ run.input \in Input
           /\ run.input \notin Pending
  <1>0. Lined /\ RunTypes /\ AllLevel /\ Unsent /\ RunMakesUp /\ Accounted
    BY DEF MInv
  <1>1. Running /\ run.committed \in BOOLEAN /\ Uncommitted = ~run.committed
    BY <1>0 DEF RunTypes, RunShape, Running, NoRun, Begun, Uncommitted
  <1>2. run.input \in typed /\ run.input \in Input /\ run.input \notin Pending
    BY <1>0, <1>1 DEF RunTypes, Unsent
  <1>3. Behind(store)
    BY <1>0 DEF AllLevel, Behind
  <1>4. CASE run.committed
    <2>1. Settled = run.rec /\ Base = Pending /\ ~Uncommitted
      BY <1>1, <1>4 DEF Settled, Base
    <2>2. Rest(run.rec, Pending, store)
      BY <1>0, <1>1, <2>1 DEF RunTypes, AllLevel, Unsent, RunMakesUp, Accounted, Rest
    <2> QED
      BY <1>2, <1>3, <2>1, <2>2
  <1>5. CASE ~run.committed
    <2>1. Settled = rec /\ Base = Pending \cup {run.input} /\ Uncommitted
      BY <1>1, <1>5 DEF Settled, Base
    <2>2. Rest(rec, Base, store)
      BY <1>0, <1>1, <1>2, <2>1 DEF RunTypes, AllLevel, Unsent, RunMakesUp, Accounted, Rest
    <2> QED
      BY <1>2, <1>3, <2>1, <2>2
  <1> QED
    BY <1>1, <1>4, <1>5

LEMMA TwoConcats ==
    ASSUME NEW x \in Input, NEW y \in Input, NEW q \in Seq(Input)
    PROVE  /\ (<<>> \o <<>>) \o q = q /\ (<<>> \o <<x>>) \o q = <<x>> \o q
           /\ (<<x>> \o <<>>) \o q = <<x>> \o q /\ (<<x>> \o <<y>>) \o q = <<x>> \o (<<y>> \o q)
  <1>1. <<>> \in Seq(Input) /\ <<x>> \in Seq(Input) /\ <<y>> \in Seq(Input)
    OBVIOUS
  <1>2. <<>> \o <<>> = <<>> /\ <<>> \o <<x>> = <<x>> /\ <<x>> \o <<>> = <<x>> /\ <<>> \o q = q
    BY <1>1, ConcatEmptySeq
  <1>3. (<<x>> \o <<y>>) \o q = <<x>> \o (<<y>> \o q)
    BY <1>1, ConcatAssociative
  <1> QED
    BY <1>2, <1>3

(* handle_agent_done gives back what was not saved, and what was to go first. *)
GivenBack(q, d, im) ==
    /\ q = (IF run.advance \/ immediate = None THEN <<>> ELSE <<immediate>>)
           \o (IF ToQueue THEN <<run.input>> ELSE <<>>) \o queue
    /\ d = (IF run.committed \/ ToQueue THEN draft ELSE run.input)
    /\ im = (IF run.advance THEN immediate ELSE None)

LEMMA GivenBackWaits ==
    ASSUME MInv, run.phase = "done", NEW q, NEW d, NEW im, GivenBack(q, d, im)
    PROVE  /\ LineIn(q, d) /\ im \in Inputs /\ (im # None => im \notin ToSet(q) /\ im # d)
           /\ Waits(q, d, im) = Base /\ (job # None => d # None)
  <1>0. Lined /\ queue \in Seq(Input) /\ IsInjective(queue) /\ draft \in Inputs
        /\ immediate \in Inputs
    BY DEF MInv, Lined, LineIn
  <1>1. run.input \in Input /\ run.input \notin Pending /\ run.input # None
    BY SettledRests, NoneApart
  <1>2. run.input \notin ToSet(queue) /\ run.input # draft /\ run.input # immediate
    BY <1>1 DEF Pending
  <1>3. run.committed \in BOOLEAN
    BY DEF MInv, RunTypes, RunShape, NoRun, Begun
  <1> DEFINE q0 == IF ToQueue THEN <<run.input>> \o queue ELSE queue
  <1>4. /\ LineIn(q0, d) /\ (job # None => d # None)
        /\ Waits(q0, d, None) = Waits(queue, draft, None)
                                \cup (IF run.committed THEN {} ELSE {run.input})
    <2>1. CASE ToQueue
      <3>1. q0 = <<run.input>> \o queue /\ d = draft /\ ~run.committed
        BY <2>1 DEF GivenBack, ToQueue
      <3>2. q0 \in Seq(Input) /\ IsInjective(q0) /\ ToSet(q0) = ToSet(queue) \cup {run.input}
        BY <1>0, <1>1, <1>2, <3>1, LineCons
      <3> HIDE DEF q0
      <3> QED
        BY <1>0, <1>1, <1>2, <3>1, <3>2 DEF LineIn, Waits, Lined
    <2>2. CASE ~ToQueue /\ run.committed
      <3>1. q0 = queue /\ d = draft
        BY <2>2 DEF GivenBack
      <3> QED
        BY <1>0, <2>2, <3>1 DEF LineIn, Waits, Lined
    <2>3. CASE ~ToQueue /\ ~run.committed
      <3>1. q0 = queue /\ d = run.input /\ draft = None
        BY <2>3 DEF GivenBack, ToQueue
      <3> QED
        BY <1>0, <1>1, <1>2, <2>3, <3>1 DEF LineIn, Waits, Inputs
    <2> QED
      BY <1>3, <2>1, <2>2, <2>3
  <1>5. immediate # None => immediate \in Input /\ immediate \notin ToSet(q0) /\ immediate # d
    <2>1. ToSet(q0) \cup ({d} \ {None}) \subseteq Waits(queue, draft, None) \cup {run.input}
      BY <1>4 DEF Waits
    <2>2. immediate # None => immediate \notin Waits(queue, draft, None)
      BY <1>0 DEF Lined, Waits
    <2> HIDE DEF q0
    <2> QED
      BY <1>0, <1>2, <2>1, <2>2 DEF Inputs
  <1>6. q = IF run.advance \/ immediate = None THEN q0 ELSE <<immediate>> \o q0
    <2>1. CASE immediate = None
      BY <1>0, <1>1, <2>1, TwoConcats DEF GivenBack
    <2>2. CASE immediate # None
      <3>1. immediate \in Input
        BY <1>0, <2>2 DEF Inputs
      <3> QED
        BY <1>0, <1>1, <2>2, <3>1, TwoConcats DEF GivenBack
    <2> QED
      BY <2>1, <2>2
  <1>7. Base = Waits(queue, draft, immediate) \cup (IF run.committed THEN {} ELSE {run.input})
    BY PendingIs DEF Base
  <1> HIDE DEF q0
  <1>8. CASE run.advance \/ immediate = None
    <2>1. q = q0 /\ im = immediate
      BY <1>6, <1>8 DEF GivenBack
    <2>2. Waits(q, d, im) = Base
      BY <2>1, <1>4, <1>7 DEF Waits
    <2> QED
      BY <1>0, <1>4, <1>5, <2>1, <2>2
  <1>9. CASE ~(run.advance \/ immediate = None)
    <2>1. q = <<immediate>> \o q0 /\ im = None
      BY <1>6, <1>9 DEF GivenBack
    <2>2. q \in Seq(Input) /\ IsInjective(q) /\ ToSet(q) = ToSet(q0) \cup {immediate}
      BY <1>4, <1>5, <1>9, <2>1, LineCons DEF LineIn
    <2>3. LineIn(q, d)
      BY <1>4, <1>5, <1>9, <2>2 DEF LineIn
    <2>4. Waits(q, d, im) = Base
      BY <1>4, <1>7, <1>9, <2>1, <2>2 DEF Waits
    <2> QED
      BY <1>4, <2>1, <2>3, <2>4 DEF Inputs
  <1> QED
    BY <1>8, <1>9

LEMMA AgentDoneKept == ASSUME MInv, AgentDone PROVE MInv'
  <1> DEFINE q == (IF run.advance \/ immediate = None THEN <<>> ELSE <<immediate>>)
                  \o (IF ToQueue THEN <<run.input>> ELSE <<>>) \o queue
             im == IF run.advance THEN immediate ELSE None
             next == Advances(im)
  <1>1. /\ run.phase = "done" /\ UNCHANGED <<job, reload, used, typed, dropped, wiped, answers>>
        /\ draft' = (IF run.committed \/ ToQueue THEN draft ELSE run.input)
        /\ IF Schedules(run)
           THEN titling' = titling \cup {[id |-> run.rec.id, about |-> run.rec.said]}
           ELSE titling' = titling
        /\ IF q = <<>> /\ im = None THEN FlushTitle(Settled, titled)
           ELSE rec' = Settled /\ UNCHANGED <<titled, store>>
        /\ immediate' = IF next THEN None ELSE im
        /\ \/ next /\ im # None /\ Start(im, FALSE) /\ queue' = q
           \/ next /\ im = None /\ q # <<>> /\ Start(Head(q), TRUE) /\ queue' = Tail(q)
           \/ (~next \/ (im = None /\ q = <<>>)) /\ run' = NoRun /\ queue' = q
    BY DEF AgentDone
  <1>2. GivenBack(q, draft', im)
    BY <1>1 DEF GivenBack
  <1> HIDE DEF q, im, next
  <1>3. /\ LineIn(q, draft') /\ im \in Inputs /\ (im # None => im \notin ToSet(q) /\ im # draft')
        /\ Waits(q, draft', im) = Base /\ (job' # None => draft' # None)
    BY <1>1, <1>2, GivenBackWaits
  <1>4. Rest(Settled, Base, store) /\ Behind(store)
    BY <1>1, SettledRests
  <1>5. titling' \subseteq [id : Id, about : SUBSET Input] /\ titled \in Titles /\ used \subseteq Id
        /\ reload \in {Nothing} \cup [phase : ReloadPhases, rec : Records]
    <2>1. run.rec \in Records
      BY <1>1 DEF MInv, RunTypes, Running
    <2> QED
      BY <1>1, <2>1 DEF MInv, RunTypes, Records
  <1>6. CASE next /\ im # None /\ Start(im, FALSE) /\ queue' = q
    <2>1. rec' = Settled /\ UNCHANGED <<titled, store>> /\ immediate' = None
      BY <1>1, <1>6
    <2>2. im \in Input /\ im \in Base
      BY <1>3, <1>6, NoneApart DEF Inputs, Waits
    <2>3. Lined'
      BY <1>3, <1>6, <2>1 DEF Lined, Inputs
    <2>4. Pending' = Waits(q, draft', None)
      BY <1>6, <2>1, PendingIs, PendingNext
    <2>5. Pending' = Base \ {im}
      BY <1>3, <1>6, <2>4 DEF Waits
    <2> QED
      BY <1>1, <1>4, <1>5, <1>6, <2>1, <2>2, <2>3, <2>5, Begins
  <1>7. CASE next /\ im = None /\ q # <<>> /\ Start(Head(q), TRUE) /\ queue' = Tail(q)
    <2>1. rec' = Settled /\ UNCHANGED <<titled, store>> /\ immediate' = None
      BY <1>1, <1>7
    <2>2. /\ Tail(q) \in Seq(Input) /\ IsInjective(Tail(q)) /\ Head(q) \in Input
          /\ ToSet(Tail(q)) = ToSet(q) \ {Head(q)} /\ Head(q) \in ToSet(q)
      BY <1>3, <1>7, LineTail DEF LineIn
    <2>3. LineIn(Tail(q), draft') /\ Head(q) \in Base /\ Head(q) # draft'
      BY <1>3, <2>2 DEF LineIn, Waits
    <2>4. Lined'
      BY <1>3, <1>7, <2>1, <2>3 DEF Lined, Inputs
    <2>5. Pending' = Waits(Tail(q), draft', None)
      BY <1>7, <2>1, PendingIs, PendingNext
    <2>6. Pending' = Base \ {Head(q)}
      BY <1>3, <1>7, <2>2, <2>3, <2>5 DEF Waits
    <2> QED
      BY <1>1, <1>4, <1>5, <1>7, <2>1, <2>3, <2>4, <2>6, Begins
  <1>8. CASE (~next \/ (im = None /\ q = <<>>)) /\ run' = NoRun /\ queue' = q
    <2>1. immediate' = im
      BY <1>1, <1>8
    <2>2. Lined' /\ Pending' = Base
      <3>1. Pending' = Waits(q, draft', im)
        BY <1>8, <2>1, PendingIs, PendingNext
      <3> QED
        BY <1>3, <1>8, <2>1, <3>1 DEF Lined
    <2>3. Rest(rec', Base, store') /\ Behind(store') /\ titled' \in Titles
      <3>1. CASE q = <<>> /\ im = None
        <4>1. FlushTitle(Settled, titled)
          BY <1>1, <3>1
        <4> QED
          BY <1>1, <1>4, <1>5, <4>1, FlushKeeps
      <3>2. CASE ~(q = <<>> /\ im = None)
        BY <1>1, <1>4, <1>5, <3>2
      <3> QED
        BY <3>1, <3>2
    <2> QED
      BY <1>1, <1>5, <1>8, <2>2, <2>3, Rested
  <1> QED
    BY <1>1, <1>6, <1>7, <1>8

LEMMA TitleReadyKept ==
    ASSUME MInv, NEW t \in titling, NEW ok \in BOOLEAN, TitleReady(t, ok) PROVE MInv'
  <1> DEFINE about == IF ok /\ Fits(t) THEN t.about ELSE titled
  <1>1. /\ UNCHANGED <<draft, job, queue, immediate, run, reload, used, typed, dropped, wiped, answers>>
        /\ titling' = titling \ {t}
        /\ IF Busy THEN titled' = about /\ UNCHANGED <<rec, store>> ELSE FlushTitle(rec, about)
    BY DEF TitleReady, editor, waiting, task
  <1>2. /\ titling \subseteq [id : Id, about : SUBSET Input] /\ titled \in Titles
        /\ used \subseteq Id
        /\ reload \in {Nothing} \cup [phase : ReloadPhases, rec : Records]
    BY DEF MInv, RunTypes
  <1>3. about \in Titles /\ titling' \subseteq [id : Id, about : SUBSET Input]
    BY <1>1, <1>2 DEF Titles
  <1> HIDE DEF about
  <1>4. Lined' /\ Pending' = Pending
    BY <1>1 DEF MInv, Lined, Pending
  <1>5. CASE Busy
    <2>1. titled' = about /\ UNCHANGED <<rec, store>>
      BY <1>1, <1>5
    <2>2. Running' = Running /\ Uncommitted' = Uncommitted /\ Reloading' = Reloading
      BY <1>1 DEF Running, Uncommitted, Reloading
    <2>3. RunTypes'
      BY <1>1, <1>3, <1>4, <2>1, <2>2 DEF MInv, RunTypes, RunShape
    <2>4. AllLevel' /\ Unsent' /\ RunMakesUp' /\ Accounted'
      BY <1>1, <1>4, <2>1, <2>2 DEF MInv, AllLevel, Unsent, RunMakesUp, Accounted
    <2> QED
      BY <1>4, <2>3, <2>4 DEF MInv
  <1>6. CASE ~Busy
    <2>1. ~Running /\ FlushTitle(rec, about)
      BY <1>1, <1>6 DEF Busy
    <2>2. Rest(rec, Pending, store) /\ Behind(store)
      BY <2>1, NotRunning
    <2>3. Rest(rec', Pending, store') /\ Behind(store') /\ titled' \in Titles
      BY <1>1, <1>2, <1>3, <2>1, <2>2, FlushKeeps
    <2>4. run = NoRun
      BY <2>1 DEF MInv, RunTypes, RunShape, Running, Begun
    <2> QED
      BY <1>1, <1>3, <1>4, <2>3, <2>4, Rested
  <1> QED
    BY <1>5, <1>6

-----------------------------------------------------------------------------
LEMMA StepMInv == MInv /\ [Next]_vars => MInv'
  <1> SUFFICES ASSUME MInv, [Next]_vars PROVE MInv'
    OBVIOUS
  <1>1. CASE User
    BY <1>1, TypeKept, EnterKept, EnterReadyKept, EscapeKept, QueueSendKept, QueueSendNowKept,
       QueueDeleteKept, QueueEditKept, NewSessionKept, CompactKept, ResumeKept DEF User
  <1>2. CASE Tasks
    BY <1>2, PreparedKept, FirstSaveKept, ModelKept, FinalSaveKept, AgentDoneKept, ReloadEndsKept,
       ReloadedKept, TitleReadyKept DEF Tasks
  <1>3. CASE OtherSave
    BY <1>3, OtherSaveKept
  <1>4. CASE UNCHANGED vars
    <2>1. UNCHANGED <<draft, job, queue, immediate, run, rec, reload, store, used, titling,
                      titled, answers, typed, dropped, wiped>>
      BY <1>4 DEF vars, editor, waiting, task, title, history
    <2>2. Lined' /\ Pending' = Pending
      BY <2>1 DEF MInv, Lined, Pending
    <2> QED
      BY <2>1, <2>2, RunStays, Rearranged
  <1> QED
    BY <1>1, <1>2, <1>3, <1>4 DEF Next

(* Nothing is wiped before a reload begins, unless plugins replace the session. *)
WInv == /\ reloads \in Nat /\ (Reloading => reloads > 0)
        /\ WipedByReplacing

LEMMA InitWInv == Init => WInv
  BY DEF Init, WInv, Reloading, Nothing, WipedByReplacing

\* What leaves the reloads alone, and wipes nothing, keeps WInv.
LEMMA WStays ==
    ASSUME WInv, UNCHANGED <<wiped, plugins, reloads>>, Reloading' => Reloading
    PROVE  WInv'
  BY DEF WInv, WipedByReplacing

LEMMA StepWInv == WInv /\ [Next]_vars => WInv'
  <1> SUFFICES ASSUME WInv, [Next]_vars PROVE WInv'
    OBVIOUS
  <1>1. CASE UNCHANGED vars
    <2>1. UNCHANGED <<wiped, plugins, reloads, reload>>
      BY <1>1 DEF vars, bounds, history
    <2> QED
      BY <2>1, WStays DEF Reloading
  <1>2. CASE OtherSave
    BY <1>2, WStays DEF OtherSave, Reloading
  <1>3. ASSUME NEW i \in Input, Type(i) PROVE WInv'
    BY <1>3, WStays DEF Type, bounds, Reloading
  <1>4. ASSUME NEW now \in BOOLEAN, Enter(now) \/ EnterReady(now) PROVE WInv'
    BY <1>4, WStays DEF Enter, EnterReady, bounds, Reloading
  <1>5. CASE Escape
    BY <1>5, WStays DEF Escape, bounds, Reloading
  <1>6. ASSUME NEW k \in 1..Len(queue),
               QueueSend(k) \/ QueueSendNow(k) \/ QueueDelete(k) \/ QueueEdit(k)
        PROVE  WInv'
    BY <1>6, WStays DEF QueueSend, QueueSendNow, QueueDelete, QueueEdit, bounds, history, Reloading
  <1>7. ASSUME NEW r, Leave(r) PROVE WInv'
    <2>1. UNCHANGED <<plugins, reload, reloads>> /\ (wiped' = wiped \/ plugins)
      BY <1>7 DEF Leave, bounds
    <2> QED
      BY <2>1 DEF WInv, WipedByReplacing, Reloading
  <1>8. CASE Compact
    <2>1. /\ reloads' = reloads + 1 /\ UNCHANGED <<wiped, plugins>>
      BY <1>8 DEF Compact
    <2> QED
      BY <2>1 DEF WInv, WipedByReplacing
  <1>9. ASSUME NEW n \in Slots, NEW ok \in BOOLEAN, Prepared(n, ok) PROVE WInv'
    BY <1>9, WStays DEF Prepared, bounds, Reloading
  <1>10. CASE FirstSave \/ Model \/ FinalSave
    BY <1>10, WStays DEF FirstSave, Model, FinalSave, bounds, Reloading
  <1>11. CASE AgentDone
    BY <1>11, WStays DEF AgentDone, Reloading
  <1>12. CASE ReloadEnds
    <2>1. UNCHANGED <<wiped, plugins, reloads>> /\ Reloading
      BY <1>12 DEF ReloadEnds, Reloading
    <2> QED
      BY <2>1, WStays
  <1>13. CASE Reloaded
    <2>1. UNCHANGED <<plugins, reloads>> /\ Reloading /\ ~Reloading'
      BY <1>13 DEF Reloaded, bounds, Reloading, Nothing
    <2> QED
      BY <2>1 DEF WInv, WipedByReplacing
  <1>14. ASSUME NEW t \in titling, NEW ok \in BOOLEAN, TitleReady(t, ok) PROVE WInv'
    BY <1>14, WStays DEF TitleReady, Reloading
  <1>15. CASE User
    BY <1>3, <1>4, <1>5, <1>6, <1>7, <1>8, <1>15 DEF User, NewSession, Resume
  <1>16. CASE Tasks
    BY <1>9, <1>10, <1>11, <1>12, <1>13, <1>14, <1>16 DEF Tasks
  <1> QED
    BY <1>1, <1>2, <1>15, <1>16 DEF Next

(* Whatever is typed, sent, stopped, edited in the queue, saved, refused, compacted  *)
(* or left, and in whatever order: a message of the user or an answer that he did    *)
(* not give up is lost only when a reload in the background or a plugin replaces the *)
(* session it waits in (replace_session in app/run.rs:116, which wipes the queue);   *)
(* without one nothing is, and nothing waits twice or is sent again.                 *)
THEOREM LostOnlyByReplacingCorrect == Spec => []LostOnlyByReplacing
  <1>1. MInv /\ WInv => LostOnlyByReplacing
    BY MInvHolds DEF WInv, LostOnlyByReplacing
  <1> QED
    BY <1>1, InitMInv, StepMInv, InitWInv, StepWInv, PTL DEF Spec

-----------------------------------------------------------------------------
(* While a run goes on no reload begins, unless a session was left; a queue that  *)
(* nobody works on is paused, and so is one whose run the user has stopped.       *)
QueueHeld ==
    /\ Running /\ Reloading => crossed
    /\ ~Running /\ ~crossed => (queue # <<>> => paused) /\ immediate = None
    /\ Running /\ halted /\ ~crossed => paused /\ immediate = None

(* Without saves from elsewhere, and without a session left too early, the record *)
(* that is going to be saved next is level with the store.                        *)
Even(r, s) == s[r.id].rev = r.rev
StepsHeld ==
    ~foreign /\ ~crossed =>
        /\ ~Running /\ reload.phase # "replaced" => Even(rec, store)
        /\ reload.phase = "replaced" => Even(reload.rec, store) /\ ~Even(rec, store)
        /\ Reloading => reload.rec.id = rec.id
        /\ Running => Even(run.rec, store) /\ (run.phase = "done" => run.committed)

(* A title, and what a title is being made from, is part of its conversation.     *)
Owned(r) == r.title # None => r.title \subseteq r.said
Told(r, T) == \A t \in T : t.id = r.id => t.about \subseteq r.said
Fitting(r, T) == Owned(r) /\ Told(r, T)
TitlesFit ==
    ~crossed =>
        /\ \A id \in Id : Fitting(store[id], titling)
        /\ \A t \in titling : t.id \in used
        /\ Fitting(rec, titling) /\ (titled # None => titled \subseteq rec.said)
        /\ Running => Fitting(run.rec, titling) /\ rec.said \subseteq run.rec.said
        /\ Reloading => Fitting(reload.rec, titling)
        /\ run.phase = "done" /\ run.how = "answered" =>
              run.committed /\ run.rec.said \subseteq store[run.rec.id].said

CInv == MInv /\ QueueHeld /\ StepsHeld /\ TitlesFit

LEMMA InitCInv == Init => CInv
  <1> SUFFICES ASSUME Init PROVE CInv
    OBVIOUS
  <1>1. MInv
    BY InitMInv
  <1>2. run.phase = "none" /\ reload.phase = "none" /\ ~Running /\ ~Reloading
    BY DEF Init, NoRun, Nothing, Running, Reloading
  <1>3. QueueHeld
    BY <1>2 DEF Init, QueueHeld
  <1>4. 1 \in Id /\ rec = Blank(1) /\ \A id \in Id : store[id] = Blank(id)
    BY TerminalAssumption DEF Init, Id
  <1>5. StepsHeld
    BY <1>2, <1>4 DEF StepsHeld, Even, Blank
  <1>6. TitlesFit
    <2>1. \A id \in Id : Fitting(Blank(id), {})
      BY DEF Fitting, Owned, Told, Blank
    <2> QED
      BY <1>2, <1>4, <2>1 DEF Init, TitlesFit
  <1> QED
    BY <1>1, <1>3, <1>5, <1>6 DEF CInv

-----------------------------------------------------------------------------
(* What the keys and the attachments do to the run and to what waits: they stop a *)
(* run, start one when there is none, or leave both to themselves.                *)
Idles ==
    /\ ~Running /\ SameRun /\ UNCHANGED <<paused, immediate, halted>>
    /\ queue' # <<>> => queue # <<>> \/ crossed'
Stopped ==
    /\ Running /\ SameRun
    /\ halted' => \/ paused' /\ immediate' = None
                  \/ halted /\ UNCHANGED <<paused, immediate>>
Starts ==
    /\ ~Running /\ ~Reloading /\ ~halted' /\ rec' = rec
    /\ \E i \in Input, queued \in BOOLEAN : Start(i, queued)
Keys ==
    /\ UNCHANGED <<rec, reload, store, used, titling, titled, foreign>>
    /\ crossed => crossed'
    /\ Idles \/ Stopped \/ Starts

LEMMA IdleOrRunning ==
    ASSUME MInv, run' = run, UNCHANGED <<paused, immediate, halted>>,
           queue' # <<>> => queue # <<>> \/ crossed' \/ Running
    PROVE  Idles \/ Stopped
  <1>1. SameRun
    BY RunStays
  <1> QED
    BY <1>1 DEF Idles, Stopped

LEMMA SendNowKeys ==
    ASSUME MInv, NEW i \in Input, ~Reloading, SendNow(i), queue' # <<>> => queue # <<>> \/ Running
    PROVE  Stopped \/ Starts
  <1>1. rec' = rec /\ halted' = FALSE
    BY DEF SendNow
  <1>2. CASE Running /\ Interrupt
    BY <1>1, <1>2, InterruptSame DEF Stopped
  <1>3. CASE ~Running /\ Start(i, FALSE)
    BY <1>1, <1>3 DEF Starts
  <1> QED
    BY <1>2, <1>3 DEF SendNow

LEMMA TypeKeys == ASSUME MInv, NEW i \in Input, Type(i) PROVE Keys
  <1>1. /\ UNCHANGED <<rec, reload, store, used, titling, titled, foreign, crossed>>
        /\ UNCHANGED <<run, paused, immediate, halted, queue>>
    BY DEF Type, waiting, task, title
  <1> QED
    BY <1>1, IdleOrRunning DEF Keys

LEMMA EnterKeys == ASSUME MInv, NEW now \in BOOLEAN, Enter(now) PROVE Keys
  <1>1. /\ UNCHANGED <<rec, reload, store, used, titling, titled, foreign, crossed>>
        /\ UNCHANGED <<queue, immediate>>
    BY DEF Enter, title
  <1>2. CASE now /\ Running
    <2>1. SameRun /\ halted' = FALSE
      BY <1>2, InterruptSame DEF Enter
    <2> QED
      BY <1>1, <1>2, <2>1 DEF Keys, Stopped
  <1>3. CASE ~(now /\ Running)
    <2>1. UNCHANGED <<run, paused, halted>>
      BY <1>3 DEF Enter, task
    <2> QED
      BY <1>1, <2>1, IdleOrRunning DEF Keys
  <1> QED
    BY <1>2, <1>3

LEMMA EnterReadyKeys == ASSUME MInv, NEW now \in BOOLEAN, EnterReady(now) PROVE Keys
  <1>1. /\ UNCHANGED <<reload, store, used, titling, titled, foreign, crossed>>
        /\ draft \in Input /\ ~Reloading
    BY DraftLeaves DEF EnterReady, title
  <1>2. CASE now /\ SendNow(draft) /\ queue' = queue
    BY <1>1, <1>2, SendNowKeys DEF Keys, SendNow
  <1>3. CASE Running /\ UNCHANGED <<paused, immediate, run, rec, halted>>
    BY <1>1, <1>3, IdleOrRunning DEF Keys
  <1>4. CASE ~Running /\ rec' = rec /\ Start(draft, FALSE) /\ halted' = FALSE
    BY <1>1, <1>4 DEF Keys, Starts
  <1> QED
    BY <1>2, <1>3, <1>4 DEF EnterReady, task

LEMMA PreparedKeys ==
    ASSUME MInv, NEW n \in Slots, NEW ok \in BOOLEAN, Prepared(n, ok) PROVE Keys
  <1>1. /\ UNCHANGED <<reload, store, used, titling, titled, foreign>>
        /\ crossed => crossed'
    BY DEF Prepared, title
  <1>2. CASE UNCHANGED <<queue, paused, immediate, run, rec, halted>>
    BY <1>1, <1>2, IdleOrRunning DEF Keys
  <1>3. CASE job # None /\ job.now /\ ~Reloading /\ SendNow(draft) /\ queue' = queue
    <2>1. draft \in Input
      BY <1>3, DraftLeaves DEF MInv, Lined
    <2> QED
      BY <1>1, <1>3, <2>1, SendNowKeys DEF Keys, SendNow
  <1>4. CASE /\ job # None /\ ~Running /\ ~Reloading
             /\ rec' = rec /\ Start(draft, FALSE) /\ halted' = FALSE
    <2>1. draft \in Input
      BY <1>4, DraftLeaves DEF MInv, Lined
    <2> QED
      BY <1>1, <1>4, <2>1 DEF Keys, Starts
  <1>5. CASE (Running \/ crossed') /\ UNCHANGED <<paused, immediate, run, rec, halted>>
    BY <1>1, <1>5, IdleOrRunning DEF Keys
  <1> QED
    BY <1>2, <1>3, <1>4, <1>5 DEF Prepared, waiting, task

LEMMA EscapeKeys == ASSUME MInv, Escape PROVE Keys
  <1>1. UNCHANGED <<rec, reload, store, used, titling, titled, foreign, crossed>>
    BY DEF Escape, title
  <1>2. CASE UNCHANGED <<queue, paused, immediate, run, halted>>
    BY <1>1, <1>2, IdleOrRunning DEF Keys
  <1>3. CASE Running /\ Interrupt /\ immediate' = None /\ halted' = TRUE
    <2>1. SameRun /\ paused' = TRUE
      BY <1>3, InterruptSame DEF Interrupt
    <2> QED
      BY <1>1, <1>3, <2>1 DEF Keys, Stopped
  <1> QED
    BY <1>2, <1>3 DEF Escape, waiting, task

LEMMA QueueSendKeys == ASSUME MInv, NEW k \in 1..Len(queue), QueueSend(k) PROVE Keys
  <1>1. UNCHANGED <<reload, store, used, titling, titled, foreign, crossed>> /\ ~Reloading
    BY DEF QueueSend, title
  <1>2. CASE Running
    <2>1. UNCHANGED <<paused, immediate, run, rec, halted>>
      BY <1>2 DEF QueueSend, task
    <2> QED
      BY <1>1, <1>2, <2>1, IdleOrRunning DEF Keys
  <1>3. CASE ~Running
    <2>1. rec' = rec /\ Start(queue[k], FALSE) /\ halted' = FALSE
      BY <1>3 DEF QueueSend
    <2>2. queue[k] \in Input
      BY QueueWithout
    <2> QED
      BY <1>1, <1>3, <2>1, <2>2 DEF Keys, Starts
  <1> QED
    BY <1>2, <1>3

LEMMA InQueue == ASSUME MInv, NEW k \in 1..Len(queue) PROVE queue # <<>>
  <1>1. queue[k] \in ToSet(queue)
    BY QueueWithout
  <1>2. ToSet(<<>>) = {}
    BY DEF ToSet
  <1> QED
    BY <1>1, <1>2

LEMMA QueueSendNowKeys == ASSUME MInv, NEW k \in 1..Len(queue), QueueSendNow(k) PROVE Keys
  <1>1. /\ UNCHANGED <<reload, store, used, titling, titled, foreign, crossed>>
        /\ ~Reloading /\ SendNow(queue[k]) /\ queue[k] \in Input /\ queue # <<>>
    BY QueueWithout, InQueue DEF QueueSendNow, title
  <1> QED
    BY <1>1, SendNowKeys DEF Keys, SendNow

LEMMA QueueDeleteKeys ==
    ASSUME MInv, NEW k \in 1..Len(queue), QueueDelete(k) \/ QueueEdit(k) PROVE Keys
  <1>1. /\ UNCHANGED <<rec, reload, store, used, titling, titled, foreign, crossed>>
        /\ UNCHANGED <<run, paused, immediate, halted>> /\ queue # <<>>
    BY InQueue DEF QueueDelete, QueueEdit, title, task, history
  <1> QED
    BY <1>1, IdleOrRunning DEF Keys


-----------------------------------------------------------------------------
LEMMA KeysHold == ASSUME CInv, Keys PROVE QueueHeld' /\ StepsHeld' /\ TitlesFit'
  <1>0. QueueHeld /\ StepsHeld /\ TitlesFit
    BY DEF CInv
  <1>1. /\ UNCHANGED <<rec, reload, store, used, titling, titled, foreign>>
        /\ crossed => crossed'
    BY DEF Keys
  <1>2. Reloading' = Reloading
    BY <1>1 DEF Reloading
  <1>3. CASE SameRun /\ QueueHeld'
    <2>1. /\ run'.phase = run.phase /\ Running' = Running
          /\ Running => run'.rec = run.rec
          /\ run.phase = "done" => run' = run
      BY <1>3 DEF SameRun, Running
    <2>2. StepsHeld'
      BY <1>0, <1>1, <1>2, <2>1 DEF StepsHeld, Even
    <2>3. TitlesFit'
      BY <1>0, <1>1, <1>2, <2>1 DEF TitlesFit, Fitting, Owned, Told
    <2> QED
      BY <1>3, <2>2, <2>3
  <1>4. CASE Idles
    <2>1. Running' = Running
      BY <1>4 DEF Idles, SameRun, Running
    <2>2. QueueHeld'
      BY <1>0, <1>1, <1>2, <1>4, <2>1 DEF QueueHeld, Idles
    <2> QED
      BY <1>3, <1>4, <2>2 DEF Idles
  <1>5. CASE Stopped
    <2>1. Running' = Running
      BY <1>5 DEF Stopped, SameRun, Running
    <2>2. QueueHeld'
      BY <1>0, <1>1, <1>2, <1>5, <2>1 DEF QueueHeld, Stopped
    <2> QED
      BY <1>3, <1>5, <2>2 DEF Stopped
  <1>6. CASE Starts
    <2>1. PICK i \in Input, queued \in BOOLEAN : Start(i, queued)
      BY <1>6 DEF Starts
    <2>2. run'.phase = "first" /\ run'.rec = rec /\ Running' /\ ~Running /\ ~Reloading /\ ~halted'
      BY <1>6, <2>1 DEF Starts, Start, Running
    <2>3. reload.phase # "replaced"
      BY <2>2 DEF Reloading
    <2>4. QueueHeld'
      BY <1>2, <2>2 DEF QueueHeld
    <2>5. StepsHeld'
      BY <1>0, <1>1, <1>2, <2>2, <2>3 DEF StepsHeld, Even
    <2>6. TitlesFit'
      BY <1>0, <1>1, <1>2, <2>2 DEF TitlesFit, Fitting, Owned, Told
    <2> QED
      BY <2>4, <2>5, <2>6
  <1> QED
    BY <1>4, <1>5, <1>6 DEF Keys

-----------------------------------------------------------------------------
(* Sessions.  Whoever leaves one when nothing goes on takes another that is level *)
(* with the store.                                                                *)
LEMMA LeaveHolds ==
    ASSUME CInv, NEW r, Leave(r), ~Running /\ ~Reloading => Even(r, store),
           used \subseteq used', ~crossed => Fitting(r, titling)
    PROVE  QueueHeld' /\ StepsHeld' /\ TitlesFit'
  <1>0. QueueHeld /\ StepsHeld /\ TitlesFit
    BY DEF CInv
  <1>1. /\ rec' = r /\ queue' = <<>> /\ immediate' = None /\ titled' = None
        /\ halted' = FALSE /\ crossed' = (crossed \/ Running \/ Reloading)
        /\ UNCHANGED <<run, reload, titling, store, foreign>>
    BY DEF Leave, Replace
  <1>2. Running' = Running /\ Reloading' = Reloading
    BY <1>1 DEF Running, Reloading
  <1>3. QueueHeld'
    BY <1>0, <1>1, <1>2 DEF QueueHeld
  <1>4. StepsHeld'
    BY <1>0, <1>1, <1>2 DEF StepsHeld, Even, Reloading
  <1>5. TitlesFit'
    BY <1>0, <1>1, <1>2 DEF TitlesFit, Fitting, Owned, Told, Running
  <1> QED
    BY <1>3, <1>4, <1>5

LEMMA NewSessionHolds == ASSUME CInv, NewSession PROVE QueueHeld' /\ StepsHeld' /\ TitlesFit'
  <1>1. PICK id \in NewId : Leave(Blank(id)) /\ used' = used \cup {id}
    BY DEF NewSession
  <1>2. id \in Id /\ id \notin used
    BY DEF NewId
  <1>3. store[id].rev = 0
    BY <1>2 DEF CInv, MInv, AllLevel, StoreKept
  <1>4. Even(Blank(id), store)
    BY <1>3 DEF Even, Blank
  <1>5. ~crossed => Fitting(Blank(id), titling)
    BY <1>2 DEF CInv, TitlesFit, Fitting, Owned, Told, Blank
  <1> QED
    BY <1>1, <1>4, <1>5, LeaveHolds

LEMMA ResumeHolds ==
    ASSUME CInv, NEW id \in Id, Resume(id) PROVE QueueHeld' /\ StepsHeld' /\ TitlesFit'
  <1>1. Leave(store[id]) /\ used' = used
    BY DEF Resume
  <1>2. store[id].id = id
    BY DEF CInv, MInv, AllLevel, StoreKept
  <1>3. Even(store[id], store)
    BY <1>2 DEF Even
  <1>4. ~crossed => Fitting(store[id], titling)
    BY DEF CInv, TitlesFit
  <1> QED
    BY <1>1, <1>3, <1>4, LeaveHolds

LEMMA CompactHolds == ASSUME CInv, Compact PROVE QueueHeld' /\ StepsHeld' /\ TitlesFit'
  <1>0. QueueHeld /\ StepsHeld /\ TitlesFit
    BY DEF CInv
  <1>1. /\ UNCHANGED <<queue, paused, immediate, run, rec, titling, titled, store, used, halted,
                       foreign>>
        /\ reload'.phase = "loading" /\ reload'.rec = rec /\ crossed' = (crossed \/ Running)
        /\ ~Reloading
    BY DEF Compact, waiting, task, title
  <1>2. Running' = Running /\ reload.phase # "replaced"
    BY <1>1 DEF Running, Reloading
  <1>3. QueueHeld'
    BY <1>0, <1>1, <1>2 DEF QueueHeld
  <1>4. StepsHeld'
    BY <1>0, <1>1, <1>2 DEF StepsHeld, Even
  <1>5. TitlesFit'
    BY <1>0, <1>1, <1>2 DEF TitlesFit, Fitting, Owned, Told
  <1> QED
    BY <1>3, <1>4, <1>5

(* A save in step: the record in the store is the new one, and fits where it did. *)
LEMMA PutFits ==
    ASSUME StoreKept(store, used, typed), NEW n \in Records, Put(n)
    PROVE  /\ store'[n.id] = Stored(n) /\ \A id \in Id : id # n.id => store'[id] = store[id]
           /\ Stored(n).id = n.id /\ Stored(n).said = n.said /\ Stored(n).title = n.title
           /\ Stored(n).rev = n.rev + 1 /\ n.rev + 1 # n.rev
           /\ Even(Stored(n), store')
           /\ \A T : Fitting(n, T) =>
                 /\ Fitting(Stored(n), T)
                 /\ (\A id \in Id : Fitting(store[id], T)) => \A id \in Id : Fitting(store'[id], T)
  <1>1. n.id \in Id /\ n.rev \in Nat /\ store \in [Id -> Records]
    BY DEF StoreKept, Records
  <1>2. /\ store'[n.id] = Stored(n) /\ \A id \in Id : id # n.id => store'[id] = store[id]
    BY <1>1 DEF Put
  <1>3. /\ Stored(n).id = n.id /\ Stored(n).said = n.said /\ Stored(n).title = n.title
        /\ Stored(n).rev = n.rev + 1
    BY DEF Stored, Records
  <1>4. n.rev + 1 # n.rev
    BY <1>1
  <1>5. Even(Stored(n), store')
    BY <1>2, <1>3 DEF Even
  <1>6. ASSUME NEW T, Fitting(n, T) PROVE Fitting(Stored(n), T)
    BY <1>3, <1>6 DEF Fitting, Owned, Told
  <1> QED
    BY <1>2, <1>3, <1>4, <1>5, <1>6

LEMMA ReloadEndsHolds == ASSUME CInv, ReloadEnds PROVE QueueHeld' /\ StepsHeld' /\ TitlesFit'
  <1>0. QueueHeld /\ StepsHeld /\ TitlesFit /\ StoreKept(store, used, typed)
    BY DEF CInv, MInv, AllLevel
  <1>1. /\ UNCHANGED <<queue, paused, immediate, run, rec, titling, titled, used, halted, crossed>>
        /\ reload.phase = "loading" /\ Reloading
    BY DEF ReloadEnds, waiting, task, title, Reloading
  <1>2. Running' = Running /\ reload.rec \in Records /\ (~crossed => ~Running)
    <2>1. reload # Nothing
      BY <1>1 DEF Nothing
    <2> QED
      BY <1>0, <1>1, <2>1 DEF CInv, MInv, RunTypes, QueueHeld, Running
  <1>r. DOMAIN reload = {"phase", "rec"}
    <2>1. reload # Nothing
      BY <1>1 DEF Nothing
    <2> QED
      BY <2>1 DEF CInv, MInv, RunTypes
  <1>3. CASE /\ store' = store /\ (foreign => foreign') /\ reload'.phase \in {"unchanged", "error"}
             /\ reload'.rec = reload.rec
    <2>1. Reloading' /\ reload'.phase # "replaced"
      BY <1>3 DEF Reloading
    <2>2. QueueHeld'
      BY <1>0, <1>1, <1>2, <2>1 DEF QueueHeld
    <2>3. StepsHeld'
      BY <1>0, <1>1, <1>2, <1>3, <2>1 DEF StepsHeld, Even
    <2>4. TitlesFit'
      BY <1>0, <1>1, <1>2, <1>3, <2>1 DEF TitlesFit, Fitting, Owned, Told
    <2> QED
      BY <2>2, <2>3, <2>4
  <1>4. CASE /\ SaveOk(reload.rec) /\ reload' = [phase |-> "replaced", rec |-> Stored(reload.rec)]
    <2> DEFINE n == reload.rec
    <2>1. /\ Put(n) /\ n \in Records /\ foreign' = foreign /\ reload'.rec = Stored(n)
          /\ reload'.phase = "replaced" /\ Reloading'
      BY <1>2, <1>4 DEF SaveOk, Note, Reloading
    <2> HIDE DEF n
    <2>2. /\ store'[n.id] = Stored(n) /\ Stored(n).id = n.id /\ Stored(n).rev = n.rev + 1
          /\ n.rev + 1 # n.rev /\ Even(Stored(n), store')
          /\ \A T : Fitting(n, T) =>
                /\ Fitting(Stored(n), T)
                /\ (\A id \in Id : Fitting(store[id], T)) => \A id \in Id : Fitting(store'[id], T)
      BY <1>0, <2>1, PutFits
    <2>3. QueueHeld'
      BY <1>0, <1>1, <1>2, <2>1 DEF QueueHeld
    <2>4. StepsHeld'
      <3> SUFFICES ASSUME ~foreign', ~crossed' PROVE StepsHeld'
        BY DEF StepsHeld
      <3>1. n.id = rec.id /\ Even(rec, store) /\ ~Running
        BY <1>0, <1>1, <1>2, <2>1 DEF StepsHeld, n
      <3>2. store[n.id].rev = n.rev
        BY <1>4 DEF SaveOk, InStep, n
      <3>3. ~Even(rec, store')
        BY <2>2, <3>1, <3>2 DEF Even
      <3> QED
        BY <1>1, <1>2, <2>1, <2>2, <3>1, <3>3 DEF StepsHeld, Even
    <2>5. TitlesFit'
      <3> SUFFICES ASSUME ~crossed' PROVE TitlesFit'
        BY DEF TitlesFit
      <3>1. ~Running /\ Fitting(n, titling) /\ \A id \in Id : Fitting(store[id], titling)
        BY <1>0, <1>1, <1>2 DEF TitlesFit, n
      <3>2. Fitting(Stored(n), titling) /\ \A id \in Id : Fitting(store'[id], titling)
        BY <2>2, <3>1
      <3> QED
        BY <1>0, <1>1, <1>2, <2>1, <3>1, <3>2 DEF TitlesFit, Running
    <2> QED
      BY <2>3, <2>4, <2>5
  <1>5. CASE reload' = [reload EXCEPT !.phase = "unchanged"] /\ UNCHANGED <<store, faults, foreign>>
    BY <1>3, <1>5, <1>r
  <1>6. CASE SaveFails(reload.rec) /\ reload' = [reload EXCEPT !.phase = "error"]
    BY <1>3, <1>6, <1>r DEF SaveFails, Note, Fail
  <1> QED
    BY <1>4, <1>5, <1>6 DEF ReloadEnds

LEMMA ReloadedHolds == ASSUME CInv, Reloaded PROVE QueueHeld' /\ StepsHeld' /\ TitlesFit'
  <1>0. QueueHeld /\ StepsHeld /\ TitlesFit
    BY DEF CInv
  <1>1. /\ UNCHANGED <<run, titling, store, used, halted, foreign>> /\ ~Reloading' /\ Reloading
        /\ reload'.phase = "none"
    BY DEF Reloaded, Nothing, Reloading
  <1>2. Running' = Running
    BY <1>1 DEF Running
  <1>3. CASE reload.phase = "replaced"
    <2>1. /\ rec' = reload.rec /\ queue' = <<>> /\ immediate' = None /\ titled' = None
          /\ crossed' = (crossed \/ Running)
      BY <1>3 DEF Reloaded, Replace
    <2>2. QueueHeld'
      BY <1>0, <1>1, <1>2, <2>1 DEF QueueHeld
    <2>3. StepsHeld'
      BY <1>0, <1>1, <1>2, <1>3, <2>1 DEF StepsHeld, Even
    <2>4. TitlesFit'
      BY <1>0, <1>1, <1>2, <2>1 DEF TitlesFit, Running
    <2> QED
      BY <2>2, <2>3, <2>4
  <1>4. CASE reload.phase # "replaced"
    <2>1. UNCHANGED <<rec, queue, immediate, paused, titled, crossed>>
      BY <1>4 DEF Reloaded, waiting
    <2>2. QueueHeld'
      BY <1>0, <1>1, <1>2, <2>1 DEF QueueHeld
    <2>3. StepsHeld'
      BY <1>0, <1>1, <1>2, <1>4, <2>1 DEF StepsHeld, Even
    <2>4. TitlesFit'
      BY <1>0, <1>1, <1>2, <2>1 DEF TitlesFit
    <2> QED
      BY <2>2, <2>3, <2>4
  <1> QED
    BY <1>3, <1>4

-----------------------------------------------------------------------------
(* A run that goes on: it has saved what it has, or is told why not. *)
LEMMA RunHolds ==
    ASSUME CInv, Running, Running',
           UNCHANGED <<queue, paused, immediate, rec, reload, titling, titled, halted, crossed>>,
           used \subseteq used', foreign => foreign',
           ~crossed => /\ Fitting(run'.rec, titling) /\ run.rec.said \subseteq run'.rec.said
                       /\ \A id \in Id : Fitting(store'[id], titling),
           ~crossed /\ ~foreign' => /\ Even(run'.rec, store')
                                    /\ run'.phase = "done" => run'.committed,
           run'.phase = "done" /\ run'.how = "answered" =>
               run'.committed /\ run'.rec.said \subseteq store'[run'.rec.id].said
    PROVE  QueueHeld' /\ StepsHeld' /\ TitlesFit'
  <1>0. QueueHeld /\ StepsHeld /\ TitlesFit
    BY DEF CInv
  <1>1. Reloading' = Reloading
    BY DEF Reloading
  <1>2. QueueHeld'
    BY <1>0, <1>1 DEF QueueHeld
  <1>3. StepsHeld'
    <2> SUFFICES ASSUME ~foreign', ~crossed' PROVE StepsHeld'
      BY DEF StepsHeld
    <2>1. ~Reloading /\ ~Reloading' /\ reload'.phase # "replaced"
      BY <1>0, <1>1 DEF QueueHeld, Reloading
    <2> QED
      BY <2>1 DEF StepsHeld
  <1>4. TitlesFit'
    <2> SUFFICES ASSUME ~crossed' PROVE TitlesFit'
      BY DEF TitlesFit
    <2>1. ~Reloading'
      BY <1>0, <1>1 DEF QueueHeld
    <2>2. rec.said \subseteq run.rec.said
      BY <1>0 DEF TitlesFit
    <2> QED
      BY <1>0, <2>1, <2>2 DEF TitlesFit
  <1> QED
    BY <1>2, <1>3, <1>4

(* What a done run says of itself. *)
LEMMA DoneSays ==
    ASSUME NEW r, NEW how, NEW committed, NEW advance, Done(r, how, committed, advance)
    PROVE  /\ run'.phase = "done" /\ run'.rec = r /\ run'.how = how /\ run'.committed = committed
           /\ run'.advance = advance /\ Running'
  BY DEF Done, Running

LEMMA FirstSaveHolds == ASSUME CInv, FirstSave PROVE QueueHeld' /\ StepsHeld' /\ TitlesFit'
  <1>0. QueueHeld /\ StepsHeld /\ TitlesFit /\ StoreKept(store, used, typed) /\ MInv
    BY DEF CInv, MInv, AllLevel
  <1>1. /\ UNCHANGED <<queue, paused, immediate, rec, reload, titling, titled, halted, crossed,
                       used>>
        /\ run.phase = "first" /\ Running
    BY DEF FirstSave, waiting, title, Running
  <1>2. /\ Prompt \in Records /\ Prompt.id = run.rec.id /\ Prompt.rev = run.rec.rev
        /\ Prompt.said = run.rec.said \cup {run.input}
    BY <1>0, <1>1, PromptIs
  <1>3. Prompt.title = run.rec.title /\ run.rec \in Records
    BY <1>0, <1>1 DEF Prompt, MInv, RunTypes, Records
  <1>4. ~crossed => /\ Fitting(run.rec, titling) /\ Fitting(Prompt, titling)
                    /\ \A id \in Id : Fitting(store[id], titling)
    BY <1>0, <1>1, <1>2, <1>3 DEF TitlesFit, Fitting, Owned, Told
  <1>5. ~crossed /\ ~foreign => Even(Prompt, store)
    BY <1>0, <1>1, <1>2 DEF StepsHeld, Even
  <1>6. CASE /\ SaveOk(Prompt)
             /\ IF run.stop THEN Done(Stored(Prompt), "none", TRUE, TRUE)
                ELSE run' = [run EXCEPT !.phase = "model", !.rec = Stored(Prompt)]
    <2>1. Put(Prompt) /\ foreign' = foreign
      BY <1>6 DEF SaveOk, Note
    <2>2. /\ Stored(Prompt).said = Prompt.said /\ Even(Stored(Prompt), store')
          /\ \A T : Fitting(Prompt, T) =>
                /\ Fitting(Stored(Prompt), T)
                /\ (\A id \in Id : Fitting(store[id], T)) => \A id \in Id : Fitting(store'[id], T)
      BY <1>0, <1>2, <2>1, PutFits
    <2>3. /\ run'.rec = Stored(Prompt) /\ Running'
          /\ run'.phase = "done" => run'.committed /\ run'.how # "answered"
      <3>1. CASE Done(Stored(Prompt), "none", TRUE, TRUE)
        BY <3>1, DoneSays
      <3>2. CASE run' = [run EXCEPT !.phase = "model", !.rec = Stored(Prompt)]
        <4>1. DOMAIN run = {"phase", "input", "rec", "stop", "cancel"}
          BY <1>0, <1>1 DEF MInv, RunTypes, RunShape, NoRun
        <4> QED
          BY <3>2, <4>1 DEF Running
      <3> QED
        BY <1>6, <3>1, <3>2
    <2> QED
      BY <1>1, <1>2, <1>4, <2>1, <2>2, <2>3, RunHolds
  <1>7. CASE SaveFails(Prompt) /\ Done(Prompt, "error", FALSE, FALSE)
    <2>1. store' = store /\ (foreign => foreign')
      BY <1>7 DEF SaveFails, Fail, Note
    <2>2. ~crossed => foreign'
      BY <1>5, <1>7 DEF SaveFails, Fail, Note, InStep, Even
    <2>3. run'.rec = Prompt /\ run'.how = "error" /\ Running'
      BY <1>7, DoneSays
    <2> QED
      BY <1>1, <1>2, <1>4, <2>1, <2>2, <2>3, RunHolds
  <1> QED
    BY <1>6, <1>7 DEF FirstSave

LEMMA ModelHolds == ASSUME CInv, Model PROVE QueueHeld' /\ StepsHeld' /\ TitlesFit'
  <1>0. QueueHeld /\ StepsHeld /\ TitlesFit /\ MInv
    BY DEF CInv
  <1>1. /\ UNCHANGED <<queue, paused, immediate, rec, reload, titling, titled, halted, crossed>>
        /\ UNCHANGED <<used, store, foreign>>
        /\ run.phase = "model" /\ Running
    BY DEF Model, waiting, title, bounds, Running
  <1>2. /\ run.rec \in Records /\ DOMAIN run = {"phase", "input", "rec", "stop", "cancel"}
    BY <1>0, <1>1 DEF MInv, RunTypes, RunShape, NoRun
  <1>3. /\ run'.rec.id = run.rec.id /\ run'.rec.rev = run.rec.rev /\ run'.rec.said = run.rec.said
        /\ run'.rec.title = run.rec.title /\ Running'
        /\ run'.phase = "done" => run'.committed /\ run'.how = "error"
    <2>1. CASE run' = [run EXCEPT !.phase = "answered", !.rec.answered = @ \cup {run.input}]
      BY <1>2, <2>1 DEF Records, Running
    <2>2. CASE run' = [run EXCEPT !.phase = "cancelled"]
      BY <1>2, <2>2 DEF Running
    <2>3. CASE Done(run.rec, "error", TRUE, TRUE)
      BY <2>3, DoneSays
    <2> QED
      BY <2>1, <2>2, <2>3 DEF Model
  <1>4. ~crossed => Fitting(run'.rec, titling) /\ \A id \in Id : Fitting(store'[id], titling)
    BY <1>0, <1>1, <1>3 DEF TitlesFit, Fitting, Owned, Told
  <1>5. ~crossed /\ ~foreign => Even(run'.rec, store')
    BY <1>0, <1>1, <1>3 DEF StepsHeld, Even
  <1> QED
    BY <1>1, <1>3, <1>4, <1>5, RunHolds

LEMMA FinalSaveHolds == ASSUME CInv, FinalSave PROVE QueueHeld' /\ StepsHeld' /\ TitlesFit'
  <1>0. QueueHeld /\ StepsHeld /\ TitlesFit /\ StoreKept(store, used, typed) /\ MInv
    BY DEF CInv, MInv, AllLevel
  <1>1. /\ UNCHANGED <<queue, paused, immediate, rec, reload, titling, titled, halted, crossed>>
        /\ run.phase \in {"answered", "cancelled"} /\ Running /\ run.rec \in Records
        /\ used \subseteq used'
    BY <1>0 DEF FinalSave, waiting, title, Running, MInv, RunTypes
  <1>2. ~crossed => Fitting(run.rec, titling) /\ \A id \in Id : Fitting(store[id], titling)
    BY <1>0, <1>1 DEF TitlesFit
  <1>3. ~crossed /\ ~foreign => Even(run.rec, store)
    BY <1>0, <1>1 DEF StepsHeld
  <1>4. CASE SaveOk(run.rec) /\ Done(Stored(run.rec), run.phase, TRUE, TRUE) /\ UNCHANGED used
    <2> DEFINE n == run.rec
    <2>1. Put(n) /\ foreign' = foreign /\ n \in Records
      BY <1>1, <1>4 DEF SaveOk, Note
    <2>2. run'.rec = Stored(n) /\ run'.committed /\ Running'
      BY <1>4, DoneSays
    <2> HIDE DEF n
    <2>3. /\ store'[n.id] = Stored(n) /\ Stored(n).id = n.id /\ Stored(n).said = n.said
          /\ Even(Stored(n), store')
          /\ \A T : Fitting(n, T) =>
                /\ Fitting(Stored(n), T)
                /\ (\A id \in Id : Fitting(store[id], T)) => \A id \in Id : Fitting(store'[id], T)
      BY <1>0, <2>1, PutFits
    <2>4. run'.rec.said \subseteq store'[run'.rec.id].said
      BY <2>2, <2>3
    <2>5. ~crossed => /\ Fitting(run'.rec, titling) /\ run.rec.said \subseteq run'.rec.said
                      /\ \A id \in Id : Fitting(store'[id], titling)
      BY <1>2, <2>2, <2>3 DEF n
    <2> QED
      BY <1>1, <2>1, <2>2, <2>3, <2>4, <2>5, RunHolds
  <1>5. ASSUME NEW id \in NewId, used' = used \cup {id},
               Put([run.rec EXCEPT !.id = id, !.rev = 0]),
               Done(Stored([run.rec EXCEPT !.id = id, !.rev = 0]), "error", TRUE, TRUE),
               Note(~InStep(run.rec))
        PROVE  QueueHeld' /\ StepsHeld' /\ TitlesFit'
    <2> DEFINE n == [run.rec EXCEPT !.id = id, !.rev = 0]
    <2>1. id \in Id /\ id \notin used
      BY DEF NewId
    <2>2. n \in Records /\ n.id = id /\ n.said = run.rec.said /\ n.title = run.rec.title
      BY <1>1, <2>1 DEF Records
    <2>3. Put(n) /\ run'.rec = Stored(n) /\ run'.committed /\ run'.how = "error" /\ Running'
      BY <1>5, DoneSays
    <2>4. (foreign => foreign') /\ (~crossed => foreign')
      BY <1>3, <1>5 DEF Note, InStep, Even
    <2> HIDE DEF n
    <2>5. ~crossed => Fitting(n, titling)
      BY <1>0, <1>2, <2>1, <2>2 DEF TitlesFit, Fitting, Owned, Told
    <2>6. /\ Stored(n).said = n.said /\ Even(Stored(n), store')
          /\ \A T : Fitting(n, T) =>
                /\ Fitting(Stored(n), T)
                /\ (\A i \in Id : Fitting(store[i], T)) => \A i \in Id : Fitting(store'[i], T)
      BY <1>0, <2>2, <2>3, PutFits
    <2>7. ~crossed => /\ Fitting(run'.rec, titling) /\ run.rec.said \subseteq run'.rec.said
                      /\ \A i \in Id : Fitting(store'[i], titling)
      BY <1>2, <2>2, <2>3, <2>5, <2>6
    <2> QED
      BY <1>1, <2>3, <2>4, <2>7, RunHolds
  <1>6. ASSUME NEW id \in NewId, used' = used \cup {id}, Fail, Done(run.rec, "error", TRUE, FALSE)
        PROVE  QueueHeld' /\ StepsHeld' /\ TitlesFit'
    <2>1. store' = store /\ foreign'
      BY <1>6 DEF Fail, Note
    <2>2. run'.rec = run.rec /\ run'.how = "error" /\ Running'
      BY <1>6, DoneSays
    <2> QED
      BY <1>1, <1>2, <2>1, <2>2, RunHolds
  <1> QED
    BY <1>4, <1>5, <1>6 DEF FinalSave

LEMMA OtherSaveHolds == ASSUME CInv, OtherSave PROVE QueueHeld' /\ StepsHeld' /\ TitlesFit'
  <1>0. QueueHeld /\ StepsHeld /\ TitlesFit /\ StoreKept(store, used, typed)
    BY DEF CInv, MInv, AllLevel
  <1>1. /\ UNCHANGED <<queue, paused, immediate, run, rec, reload, titling, titled, used, halted,
                       crossed>>
        /\ foreign' = TRUE
    BY DEF OtherSave, waiting, task, title
  <1>2. Running' = Running /\ Reloading' = Reloading
    BY <1>1 DEF Running, Reloading
  <1>3. PICK id \in Id : store' = [store EXCEPT ![id].rev = @ + 1]
    BY DEF OtherSave
  <1>4. \A x \in Id : store'[x].said = store[x].said /\ store'[x].title = store[x].title
                      /\ store'[x].id = store[x].id
    <2>1. store \in [Id -> Records]
      BY <1>0 DEF StoreKept
    <2> QED
      BY <1>3, <2>1 DEF Records
  <1>5. QueueHeld' /\ StepsHeld'
    BY <1>0, <1>1, <1>2 DEF QueueHeld, StepsHeld
  <1>6. \A x \in Id : Fitting(store[x], titling) => Fitting(store'[x], titling)
    BY <1>4 DEF Fitting, Owned, Told
  <1>7. run.phase = "done" /\ run.how = "answered" => run.rec.id \in Id
    <2>1. run.phase = "done" => Running
      BY DEF Running
    <2> QED
      BY <2>1 DEF CInv, MInv, RunTypes, Records
  <1>8. TitlesFit'
    BY <1>0, <1>1, <1>2, <1>4, <1>6, <1>7 DEF TitlesFit
  <1> QED
    BY <1>5, <1>8


-----------------------------------------------------------------------------
(* Fewer titles under way leave a record as it fits. *)
LEMMA FewerFit == ASSUME NEW r, NEW T, NEW S, S \subseteq T, Fitting(r, T) PROVE Fitting(r, S)
  BY DEF Fitting, Told

(* flush_session_title: a title of record r, if it is saved, is saved in step. *)
LEMMA FlushFits ==
    ASSUME StoreKept(store, used, typed), NEW r \in Records, NEW t \in Titles, NEW T,
           FlushTitle(r, t), Fitting(r, T), \A id \in Id : Fitting(store[id], T),
           t # None => t \subseteq r.said
    PROVE  /\ rec'.id = r.id /\ rec'.said = r.said /\ Fitting(rec', T)
           /\ \A id \in Id : Fitting(store'[id], T)
           /\ titled' # None => titled' \subseteq rec'.said
  <1> DEFINE n == [r EXCEPT !.title = t]
  <1>1. CASE rec' = r /\ titled' \in {t, None} /\ store' = store
    BY <1>1
  <1>2. ASSUME t # None PROVE n \in Records /\ n.id = r.id /\ n.said = r.said /\ Fitting(n, T)
    BY <1>2 DEF Records, Fitting, Owned, Told
  <1>3. CASE t # None /\ Put(n) /\ (rec' = r \/ rec' = Stored(n)) /\ titled' \in {t, None}
    <2>1. n \in Records /\ n.id = r.id /\ n.said = r.said /\ Fitting(n, T)
      BY <1>2, <1>3
    <2> HIDE DEF n
    <2>2. /\ Stored(n).id = n.id /\ Stored(n).said = n.said
          /\ \A S : Fitting(n, S) =>
                /\ Fitting(Stored(n), S)
                /\ (\A id \in Id : Fitting(store[id], S)) => \A id \in Id : Fitting(store'[id], S)
      BY <1>3, <2>1, PutFits
    <2> QED
      BY <1>3, <2>1, <2>2
  <1>4. CASE t = None \/ r.title # None
    BY <1>1, <1>4 DEF FlushTitle
  <1>5. CASE ~(t = None \/ r.title # None)
    <2>1. \/ SaveOk(n) /\ rec' = Stored(n) /\ titled' = None
          \/ SaveFails(n) /\ rec' = r /\ titled' = t
          \/ CanFail /\ InStep(n) /\ Put(n) /\ Note(FALSE) /\ rec' = r /\ titled' = t
      BY <1>5 DEF FlushTitle
    <2> HIDE DEF n
    <2> QED
      BY <1>1, <1>3, <1>5, <2>1 DEF SaveOk, SaveFails, Fail
  <1> QED
    BY <1>4, <1>5

LEMMA FlushEven ==
    ASSUME StoreKept(store, used, typed), NEW r \in Records, NEW t \in Titles, FlushTitle(r, t)
    PROVE  /\ foreign => foreign'
           /\ Even(r, store) => foreign' \/ Even(rec', store')
           /\ ~Even(r, store) => rec' = r /\ store' = store
  <1> DEFINE n == [r EXCEPT !.title = t]
  <1>1. CASE rec' = r /\ store' = store /\ (foreign => foreign')
    BY <1>1
  <1>2. CASE t = None \/ r.title # None
    BY <1>1, <1>2 DEF FlushTitle
  <1>3. CASE ~(t = None \/ r.title # None)
    <2>1. n \in Records /\ n.id = r.id /\ n.rev = r.rev
      BY DEF Records
    <2>2. \/ SaveOk(n) /\ rec' = Stored(n) /\ titled' = None
          \/ SaveFails(n) /\ rec' = r /\ titled' = t
          \/ CanFail /\ InStep(n) /\ Put(n) /\ Note(FALSE) /\ rec' = r /\ titled' = t
      BY <1>3 DEF FlushTitle
    <2> HIDE DEF n
    <2>3. InStep(n) = Even(r, store)
      BY <2>1 DEF InStep, Even
    <2>4. CASE SaveOk(n) /\ rec' = Stored(n)
      <3>1. Even(Stored(n), store')
        BY <2>1, <2>4, PutFits DEF SaveOk
      <3> QED
        BY <2>3, <2>4, <3>1 DEF SaveOk, Note
    <2>5. CASE SaveFails(n) /\ rec' = r
      BY <1>1, <2>5 DEF SaveFails, Fail, Note
    <2>6. CASE InStep(n) /\ Note(FALSE)
      BY <2>3, <2>6 DEF Note
    <2> QED
      BY <2>2, <2>4, <2>5, <2>6
  <1> QED
    BY <1>2, <1>3

-----------------------------------------------------------------------------
(* handle_agent_done, once titling' says what titles are under way. *)
LEMMA SettledFits ==
    ASSUME CInv, run.phase = "done", ~crossed,
           IF Schedules(run)
           THEN titling' = titling \cup {[id |-> run.rec.id, about |-> run.rec.said]}
           ELSE titling' = titling
    PROVE  /\ Settled \in Records /\ Fitting(Settled, titling')
           /\ \A id \in Id : Fitting(store[id], titling')
           /\ \A t \in titling' : t.id \in used
           /\ titled # None => titled \subseteq Settled.said
           /\ ~foreign => Even(Settled, store)
  <1>0. QueueHeld /\ StepsHeld /\ TitlesFit /\ StoreKept(store, used, typed) /\ RunTypes /\ Running
    BY DEF CInv, MInv, AllLevel, Running
  <1>1. /\ Settled \in Records /\ run.rec \in Records
        /\ Settled = IF run.committed THEN run.rec ELSE rec
    BY <1>0 DEF RunTypes, Settled
  <1>2. /\ Fitting(rec, titling) /\ Fitting(run.rec, titling) /\ rec.said \subseteq run.rec.said
        /\ titled # None => titled \subseteq rec.said
        /\ \A id \in Id : Fitting(store[id], titling)
        /\ \A t \in titling : t.id \in used
        /\ run.how = "answered" => run.committed /\ run.rec.said \subseteq store[run.rec.id].said
    BY <1>0 DEF TitlesFit
  <1>3. ~foreign => Even(Settled, store)
    BY <1>0, <1>1 DEF StepsHeld
  <1>4. titled # None => titled \subseteq Settled.said
    BY <1>1, <1>2
  <1>5. CASE ~Schedules(run)
    BY <1>1, <1>2, <1>3, <1>4, <1>5
  <1>6. CASE Schedules(run)
    <2> DEFINE t0 == [id |-> run.rec.id, about |-> run.rec.said]
    <2>1. titling' = titling \cup {t0} /\ t0.id = run.rec.id /\ t0.about = run.rec.said
      BY <1>6
    <2>2. Settled = run.rec /\ run.rec.said \subseteq store[run.rec.id].said
      BY <1>1, <1>2, <1>6 DEF Schedules
    <2>3. run.rec.id \in used
      BY <1>0 DEF CInv, MInv, AllLevel, Level
    <2> HIDE DEF t0
    <2>4. Fitting(run.rec, titling')
      BY <1>2, <2>1 DEF Fitting, Told
    <2>5. ASSUME NEW id \in Id PROVE Fitting(store[id], titling')
      <3>1. store[id].id = id
        BY <1>0 DEF StoreKept
      <3> QED
        BY <1>2, <2>1, <2>2, <3>1 DEF Fitting, Told
    <2> QED
      BY <1>1, <1>2, <1>3, <1>4, <2>1, <2>2, <2>3, <2>4, <2>5
  <1> QED
    BY <1>5, <1>6

LEMMA AgentDoneHolds ==
    ASSUME CInv, AgentDone
    PROVE  /\ QueueHeld' /\ StepsHeld' /\ TitlesFit'
           /\ run'.phase = "first" => ~halted' \/ crossed
  <1> DEFINE q == (IF run.advance \/ immediate = None THEN <<>> ELSE <<immediate>>)
                  \o (IF ToQueue THEN <<run.input>> ELSE <<>>) \o queue
             im == IF run.advance THEN immediate ELSE None
             next == Advances(im)
  <1>1. /\ run.phase = "done" /\ UNCHANGED <<reload, used, halted, crossed>>
        /\ IF Schedules(run)
           THEN titling' = titling \cup {[id |-> run.rec.id, about |-> run.rec.said]}
           ELSE titling' = titling
        /\ IF q = <<>> /\ im = None THEN FlushTitle(Settled, titled)
           ELSE rec' = Settled /\ UNCHANGED <<titled, store, foreign>>
        /\ immediate' = IF next THEN None ELSE im
        /\ \/ next /\ im # None /\ Start(im, FALSE) /\ queue' = q
           \/ next /\ im = None /\ q # <<>> /\ Start(Head(q), TRUE) /\ queue' = Tail(q)
           \/ (~next \/ (im = None /\ q = <<>>)) /\ run' = NoRun /\ paused' = Stops /\ queue' = q
    BY DEF AgentDone
  <1>2. /\ next <=> run.advance /\ (im # None \/ ~Stops) /\ ~Reloading
        /\ im = (IF run.advance THEN immediate ELSE None)
        /\ ~run.advance => Stops
    BY DEF Advances, Stops
  <1> HIDE DEF q, im, next
  <1>3. QueueHeld /\ Running /\ Reloading' = Reloading /\ StoreKept(store, used, typed)
        /\ titled \in Titles
    BY <1>1 DEF CInv, MInv, AllLevel, RunTypes, Running, Reloading
  <1>4. CASE crossed
    <2>1. QueueHeld' /\ StepsHeld' /\ TitlesFit'
      BY <1>1, <1>4 DEF QueueHeld, StepsHeld, TitlesFit
    <2> QED
      BY <1>4, <2>1
  <1>5. CASE ~crossed
    <2>1. ~Reloading /\ ~Reloading' /\ reload'.phase # "replaced"
      BY <1>1, <1>3, <1>5 DEF QueueHeld, Reloading
    <2>2. /\ Settled \in Records /\ Fitting(Settled, titling')
          /\ \A id \in Id : Fitting(store[id], titling')
          /\ \A t \in titling' : t.id \in used
          /\ titled # None => titled \subseteq Settled.said
          /\ ~foreign => Even(Settled, store)
      BY <1>1, <1>5, SettledFits
    <2>3. /\ Fitting(rec', titling') /\ \A id \in Id : Fitting(store'[id], titling')
          /\ titled' # None => titled' \subseteq rec'.said
          /\ ~foreign' => Even(rec', store')
      <3>1. CASE q = <<>> /\ im = None
        <4>1. FlushTitle(Settled, titled)
          BY <1>1, <3>1
        <4>2. /\ Fitting(rec', titling') /\ \A id \in Id : Fitting(store'[id], titling')
              /\ titled' # None => titled' \subseteq rec'.said
          BY <1>3, <2>2, <4>1, FlushFits
        <4>3. (foreign => foreign') /\ (Even(Settled, store) => foreign' \/ Even(rec', store'))
          BY <1>3, <2>2, <4>1, FlushEven
        <4> QED
          BY <2>2, <4>2, <4>3
      <3>2. CASE ~(q = <<>> /\ im = None)
        BY <1>1, <2>2, <3>2
      <3> QED
        BY <3>1, <3>2
    <2>4. CASE \E i, queued : next /\ Start(i, queued)
      <3>1. run'.phase = "first" /\ run'.rec = rec' /\ next /\ Running'
        BY <2>4 DEF Start, Running
      <3>2. ~halted
        BY <1>2, <1>3, <1>5, <3>1 DEF QueueHeld, Stops
      <3>3. QueueHeld'
        BY <1>1, <2>1, <3>1, <3>2 DEF QueueHeld
      <3>4. StepsHeld'
        BY <2>1, <2>3, <3>1 DEF StepsHeld
      <3>5. TitlesFit'
        BY <1>1, <2>1, <2>2, <2>3, <3>1 DEF TitlesFit
      <3> QED
        BY <1>1, <3>2, <3>3, <3>4, <3>5
    <2>5. CASE (~next \/ (im = None /\ q = <<>>)) /\ run' = NoRun /\ paused' = Stops /\ queue' = q
      <3>1. run'.phase = "none" /\ ~Running'
        BY <2>5 DEF NoRun, Running
      <3>2. (queue' # <<>> => paused') /\ immediate' = None
        BY <1>1, <1>2, <2>1, <2>5
      <3>3. QueueHeld'
        BY <3>1, <3>2 DEF QueueHeld
      <3>4. StepsHeld'
        BY <2>1, <2>3, <3>1 DEF StepsHeld
      <3>5. TitlesFit'
        BY <1>1, <2>1, <2>2, <2>3, <3>1 DEF TitlesFit
      <3> QED
        BY <3>1, <3>3, <3>4, <3>5
    <2> QED
      BY <1>1, <2>4, <2>5
  <1> QED
    BY <1>4, <1>5

LEMMA TitleReadyHolds ==
    ASSUME CInv, NEW t \in titling, NEW ok \in BOOLEAN, TitleReady(t, ok)
    PROVE  QueueHeld' /\ StepsHeld' /\ TitlesFit'
  <1> DEFINE about == IF ok /\ Fits(t) THEN t.about ELSE titled
  <1>0. QueueHeld /\ StepsHeld /\ TitlesFit /\ StoreKept(store, used, typed) /\ rec \in Records
        /\ titled \in Titles /\ titling \subseteq [id : Id, about : SUBSET Input]
    BY DEF CInv, MInv, AllLevel, RunTypes
  <1>1. /\ UNCHANGED <<queue, paused, immediate, run, reload, used, halted, crossed>>
        /\ titling' = titling \ {t}
        /\ IF Busy THEN titled' = about /\ UNCHANGED <<rec, store, foreign>>
           ELSE FlushTitle(rec, about)
    BY DEF TitleReady, waiting, task
  <1>2. Running' = Running /\ Reloading' = Reloading
    BY <1>1 DEF Running, Reloading
  <1>3. about \in Titles /\ (~crossed /\ about # None => about \subseteq rec.said)
    BY <1>0 DEF Titles, Fits, TitlesFit, Fitting, Told
  <1> HIDE DEF about
  <1>4. QueueHeld'
    BY <1>0, <1>1, <1>2 DEF QueueHeld
  <1>5. ~crossed => /\ Fitting(rec, titling') /\ \A id \in Id : Fitting(store[id], titling')
                    /\ Running => Fitting(run.rec, titling')
                    /\ Reloading => Fitting(reload.rec, titling')
                    /\ \A x \in titling' : x.id \in used
    BY <1>0, <1>1, FewerFit DEF TitlesFit
  <1>6. CASE Busy
    <2>1. titled' = about /\ UNCHANGED <<rec, store, foreign>>
      BY <1>1, <1>6
    <2>2. StepsHeld'
      BY <1>0, <1>1, <1>2, <2>1 DEF StepsHeld, Even
    <2>3. TitlesFit'
      BY <1>0, <1>1, <1>2, <1>3, <1>5, <2>1 DEF TitlesFit
    <2> QED
      BY <1>4, <2>2, <2>3
  <1>7. CASE ~Busy
    <2>1. ~Running /\ FlushTitle(rec, about)
      BY <1>1, <1>7 DEF Busy
    <2>2. run.phase # "done" /\ ~Running'
      BY <1>2, <2>1 DEF Running
    <2>3. /\ foreign => foreign'
          /\ Even(rec, store) => foreign' \/ Even(rec', store')
          /\ ~Even(rec, store) => rec' = rec /\ store' = store
      BY <1>0, <1>3, <2>1, FlushEven
    <2>4. ~crossed => /\ rec'.id = rec.id /\ rec'.said = rec.said /\ Fitting(rec', titling')
                      /\ \A id \in Id : Fitting(store'[id], titling')
                      /\ titled' # None => titled' \subseteq rec'.said
      BY <1>0, <1>3, <1>5, <2>1, FlushFits
    <2>5. StepsHeld'
      BY <1>0, <1>1, <1>2, <2>2, <2>3, <2>4 DEF StepsHeld, Even
    <2>6. TitlesFit'
      BY <1>1, <1>2, <1>5, <2>2, <2>4 DEF TitlesFit
    <2> QED
      BY <1>4, <2>5, <2>6
  <1> QED
    BY <1>6, <1>7

-----------------------------------------------------------------------------
LEMMA StepCInv == CInv /\ [Next]_vars => CInv'
  <1> SUFFICES ASSUME CInv, [Next]_vars PROVE CInv'
    OBVIOUS
  <1>0. MInv /\ MInv'
    BY StepMInv DEF CInv
  <1>1. CASE User
    BY <1>0, <1>1, KeysHold, TypeKeys, EnterKeys, EnterReadyKeys, EscapeKeys, QueueSendKeys,
       QueueSendNowKeys, QueueDeleteKeys, NewSessionHolds, CompactHolds, ResumeHolds DEF User, CInv
  <1>2. CASE Tasks
    BY <1>0, <1>2, KeysHold, PreparedKeys, FirstSaveHolds, ModelHolds, FinalSaveHolds,
       AgentDoneHolds, ReloadEndsHolds, ReloadedHolds, TitleReadyHolds DEF Tasks, CInv
  <1>3. CASE OtherSave
    BY <1>0, <1>3, OtherSaveHolds DEF CInv
  <1>4. CASE UNCHANGED vars
    <2>1. /\ UNCHANGED <<rec, reload, store, used, titling, titled, foreign, crossed>>
          /\ UNCHANGED <<run, paused, immediate, halted, queue>>
      BY <1>4 DEF vars, waiting, task, title, history
    <2>2. Keys
      BY <1>0, <2>1, IdleOrRunning DEF Keys
    <2> QED
      BY <1>0, <2>2, KeysHold DEF CInv
  <1> QED
    BY <1>1, <1>2, <1>3, <1>4 DEF Next

(* What keys and attachments may do to a run. *)
LEMMA KeysAsTold == Keys => StartsAsTold /\ ConflictsOnlyFromOutside
  BY DEF Keys, Idles, Stopped, Starts, SameRun, Start, StartsAsTold, ConflictsOnlyFromOutside

LEMMA RunAsTold == run' = run => StartsAsTold /\ ConflictsOnlyFromOutside
  BY DEF StartsAsTold, ConflictsOnlyFromOutside

LEMMA SavesAsTold ==
    ASSUME CInv, FirstSave \/ FinalSave PROVE StartsAsTold /\ ConflictsOnlyFromOutside
  <1>1. run.phase \in {"first", "answered", "cancelled"} /\ Running
    BY DEF FirstSave, FinalSave, Running
  <1>2. ~crossed /\ ~foreign => Even(run.rec, store)
    BY <1>1 DEF CInv, StepsHeld
  <1>3. run.rec \in Records
    BY <1>1 DEF CInv, MInv, RunTypes
  <1>4. \A r \in Records : Stored(r).id = r.id
    BY DEF Stored, Records
  <1>5. CASE FirstSave
    <2>1. Prompt \in Records /\ Prompt.id = run.rec.id /\ Prompt.rev = run.rec.rev
      BY <1>1, <1>5, PromptIs DEF FirstSave, CInv
    <2>2. CASE Done(Stored(Prompt), "none", TRUE, TRUE)
      <3>1. run'.committed /\ run'.rec = Stored(Prompt)
        BY <2>2, DoneSays
      <3>2. run'.rec.id = run.rec.id
        BY <1>4, <2>1, <3>1
      <3> QED
        BY <1>1, <3>1, <3>2 DEF StartsAsTold, ConflictsOnlyFromOutside
    <2>3. CASE run' = [run EXCEPT !.phase = "model", !.rec = Stored(Prompt)]
      <3>1. run'.phase = "model"
        BY <1>1, <2>3 DEF CInv, MInv, RunTypes, RunShape, NoRun
      <3> QED
        BY <3>1 DEF StartsAsTold, ConflictsOnlyFromOutside
    <2>4. CASE SaveFails(Prompt)
      <3>1. ~crossed => foreign'
        BY <1>2, <2>1, <2>4 DEF SaveFails, Note, Fail, InStep, Even
      <3> QED
        BY <1>1, <1>5, <3>1 DEF FirstSave, StartsAsTold, ConflictsOnlyFromOutside
    <2> QED
      BY <1>5, <2>2, <2>3, <2>4 DEF FirstSave
  <1>6. CASE FinalSave
    <2>1. CASE SaveOk(run.rec) /\ Done(Stored(run.rec), run.phase, TRUE, TRUE)
      <3>1. run'.committed /\ run'.rec = Stored(run.rec)
        BY <2>1, DoneSays
      <3>2. run'.rec.id = run.rec.id
        BY <1>3, <1>4, <3>1
      <3> QED
        BY <1>1, <3>1, <3>2 DEF StartsAsTold, ConflictsOnlyFromOutside
    <2>2. CASE Note(~InStep(run.rec)) \/ Fail
      <3>1. ~crossed => foreign'
        BY <1>2, <2>2 DEF Note, Fail, InStep, Even
      <3> QED
        BY <1>1, <3>1 DEF StartsAsTold, ConflictsOnlyFromOutside
    <2> QED
      BY <1>6, <2>1, <2>2 DEF FinalSave
  <1> QED
    BY <1>5, <1>6

LEMMA StepAsTold == CInv /\ [Next]_vars => [StartsAsTold /\ ConflictsOnlyFromOutside]_vars
  <1> SUFFICES ASSUME CInv, Next PROVE StartsAsTold /\ ConflictsOnlyFromOutside
    OBVIOUS
  <1>0. MInv
    BY DEF CInv
  <1>1. CASE User
    <2>1. NewSession \/ Compact \/ (\E id \in Id : Resume(id)) => run' = run
      BY DEF NewSession, Compact, Resume, Leave, task
    <2> QED
      BY <1>0, <1>1, <2>1, RunAsTold, KeysAsTold, TypeKeys, EnterKeys, EnterReadyKeys, EscapeKeys,
         QueueSendKeys, QueueSendNowKeys, QueueDeleteKeys DEF User
  <1>2. CASE Tasks
    <2>1. ReloadEnds \/ Reloaded \/ (\E t \in titling, ok \in BOOLEAN : TitleReady(t, ok)) =>
             run' = run
      BY DEF ReloadEnds, Reloaded, TitleReady, task
    <2>2. Model => StartsAsTold /\ ConflictsOnlyFromOutside
      BY DEF Model, StartsAsTold, ConflictsOnlyFromOutside
    <2>3. AgentDone => StartsAsTold /\ ConflictsOnlyFromOutside
      <3>1. AgentDone => run.phase = "done"
        BY DEF AgentDone
      <3> QED
        BY <3>1, AgentDoneHolds DEF StartsAsTold, ConflictsOnlyFromOutside
    <2> QED
      BY <1>0, <1>2, <2>1, <2>2, <2>3, RunAsTold, KeysAsTold, PreparedKeys, SavesAsTold DEF Tasks
  <1>3. CASE OtherSave
    BY <1>3, RunAsTold DEF OtherSave, task
  <1> QED
    BY <1>1, <1>2, <1>3 DEF Next

LEMMA CInvHolds == CInv => IdleQueueIsPaused /\ OwnTitle
  BY DEF CInv, QueueHeld, TitlesFit, Fitting, Owned, IdleQueueIsPaused, OwnTitle

(* Once the user has stopped a run, nothing starts another until the user sends a   *)
(* message, and the queue that waits meanwhile is shown as paused: whatever job,    *)
(* reload or late answer comes in between (interrupt_run, handle_agent_done,         *)
(* run_next_queued; docs/usage/tui.md on the queue).                                 *)
THEOREM QueueObeysUserCorrect == Spec => QueueObeysUser
  <1>1. [StartsAsTold /\ ConflictsOnlyFromOutside]_vars => [StartsAsTold]_vars
    OBVIOUS
  <1> QED
    BY <1>1, InitCInv, StepCInv, StepAsTold, CInvHolds, PTL DEF Spec, QueueObeysUser

(* A title stays with the conversation it was made from, and a save of a run is      *)
(* refused only when another process, or a failure, has come in between             *)
(* (flush_session_title, handle_session_title, run_and_persist).                     *)
THEOREM SavesInStepCorrect == Spec => SavesInStep
  <1>1. [StartsAsTold /\ ConflictsOnlyFromOutside]_vars => [ConflictsOnlyFromOutside]_vars
    OBVIOUS
  <1> QED
    BY <1>1, InitCInv, StepCInv, StepAsTold, CInvHolds, PTL DEF Spec, SavesInStep

-----------------------------------------------------------------------------
(* ViewFrames.                                                             *)

Tops == {"main", "plugin", "agent"}
Answers == [view : Views, number : Nat]

FramesTypeOK ==
    /\ number \in Nat /\ marks \in [Views -> Nat] /\ shown \in [Views -> Nat]
    /\ refreshing \in BOOLEAN /\ pending \in BOOLEAN /\ top \in Tops
    /\ renders \subseteq Answers /\ asked \in [View -> Nat]

(* No number is from the future, a batch has one number, and what it has yet *)
(* to answer is no older than what its view shows, if it is still asked for. *)
NumbersInOrder ==
    /\ \A v \in Views : marks[v] <= number /\ shown[v] <= number
    /\ \A r \in renders : r.number <= number /\ r.number # 0
    /\ \A r \in renders : Current(r) => shown[r.view] <= r.number
    /\ ~refreshing => renders = {} /\ ~pending

(* What was asked for is shown, or under way, or the next batch brings it. *)
Awaited(v) ==
    \/ shown[v] >= asked[v]
    \/ pending
    \/ [view |-> v, number |-> marks[v]] \in renders /\ marks[v] >= asked[v]
AskedFor ==
    \A v \in View :
        /\ asked[v] <= number + 1
        /\ asked[v] # 0 => top = "main"
        /\ Awaited(v)

FInv == ViewsApart /\ FramesTypeOK /\ NumbersInOrder /\ OneBatch /\ AskedFor

LEMMA InitFInv == ViewsApart /\ FramesInit => FInv
  <1> SUFFICES ASSUME ViewsApart, FramesInit PROVE FInv
    OBVIOUS
  <1>1. FramesTypeOK
    BY DEF FramesInit, FramesTypeOK, Tops
  <1>2. NumbersInOrder /\ OneBatch
    BY DEF FramesInit, NumbersInOrder, OneBatch
  <1>3. AskedFor
    BY DEF FramesInit, AskedFor, Awaited, Views
  <1> QED
    BY <1>1, <1>2, <1>3 DEF FInv

(* What a new batch is like, whoever starts it when nothing is under way. *)
LEMMA BatchMarks ==
    ASSUME FramesTypeOK, ViewsApart, StartBatch
    PROVE  /\ marks' \in [Views -> Nat] /\ number' = number + 1 /\ refreshing' \in BOOLEAN
           /\ renders' \subseteq renders \cup Answers
           /\ \A r \in renders' \ renders : r.number = number + 1
           /\ \A v \in Views : marks'[v] \in {0, marks[v], number + 1}
           /\ ~refreshing' => renders' = renders
           /\ top = "main" => \A v \in View :
                 marks'[v] = number + 1 /\ [view |-> v, number |-> number + 1] \in renders'
  <1>1. Periodic \subseteq Views
    BY DEF Periodic, Views
  <1>2. marks' \in [Views -> Nat] /\ \A v \in Views : marks'[v] \in {0, marks[v], number + 1}
    BY DEF StartBatch, Marked, FramesTypeOK
  <1>3. renders' \subseteq renders \cup Answers /\ \A r \in renders' \ renders : r.number = number + 1
    BY <1>1 DEF StartBatch, Answers, FramesTypeOK
  <1>4. ~refreshing' => renders' = renders
    BY DEF StartBatch
  <1>5. ASSUME top = "main", NEW v \in View
        PROVE  marks'[v] = number + 1 /\ [view |-> v, number |-> number + 1] \in renders'
    <2>1. Periodic = View /\ Periodic # {}
      BY <1>5 DEF Periodic
    <2> QED
      BY <2>1, <1>5 DEF StartBatch, Marked, Views
  <1> QED
    BY <1>2, <1>3, <1>4, <1>5 DEF StartBatch, FramesTypeOK

(* A batch that starts when no other is under way keeps all but what is asked. *)
LEMMA BatchInOrder ==
    ASSUME FInv, renders = {}, StartBatch, UNCHANGED <<shown, top>>,
           pending' \in BOOLEAN, ~refreshing' => ~pending'
    PROVE  /\ NumbersInOrder' /\ OneBatch'
           /\ asked' \in [View -> Nat] => FramesTypeOK'
  <1>1. /\ marks' \in [Views -> Nat] /\ number' = number + 1 /\ refreshing' \in BOOLEAN
        /\ renders' \subseteq Answers
        /\ \A r \in renders' : r.number = number + 1
        /\ \A v \in Views : marks'[v] \in {0, marks[v], number + 1}
        /\ ~refreshing' => renders' = {}
    BY BatchMarks DEF FInv
  <1>2. NumbersInOrder'
    BY <1>1 DEF FInv, FramesTypeOK, NumbersInOrder, Current, Answers
  <1>3. OneBatch'
    BY <1>1 DEF OneBatch
  <1> QED
    BY <1>1, <1>2, <1>3 DEF FInv, FramesTypeOK

LEMMA RefreshFInv == FInv /\ Refresh => FInv'
  <1> SUFFICES ASSUME FInv, Refresh PROVE FInv'
    OBVIOUS
  <1>1. asked' \in [View -> Nat] /\ number \in Nat /\ top \in Tops
    BY DEF Refresh, FInv, FramesTypeOK
  <1>2. CASE refreshing
    <2>1. UNCHANGED <<number, marks, renders, refreshing, shown, top>> /\ pending' = TRUE
      BY <1>2 DEF Refresh, Schedule
    <2>2. FramesTypeOK' /\ NumbersInOrder' /\ OneBatch'
      BY <2>1, <1>1, <1>2 DEF FInv, FramesTypeOK, NumbersInOrder, OneBatch, Current
    <2>3. AskedFor'
      <3>1. (asked' = [v \in View |-> number + 1] /\ top = "main") \/ asked' = asked
        BY DEF Refresh
      <3>2. \A v \in View : asked'[v] <= number + 1 /\ (asked'[v] # 0 => top = "main")
        BY <3>1, <1>1 DEF FInv, AskedFor
      <3> QED
        BY <3>2, <2>1 DEF AskedFor, Awaited
    <2> QED
      BY <2>2, <2>3 DEF FInv, ViewsApart
  <1>3. CASE ~refreshing
    <2>1. StartBatch /\ UNCHANGED <<pending, shown, top>> /\ renders = {} /\ ~pending
      BY <1>3 DEF Refresh, Schedule, FInv, NumbersInOrder
    <2>2. FramesTypeOK' /\ NumbersInOrder' /\ OneBatch'
      BY <2>1, <1>1, BatchInOrder DEF FInv, FramesTypeOK
    <2>3. AskedFor'
      <3>1. CASE top = "main"
        <4>1. /\ number' = number + 1
              /\ \A v \in View : marks'[v] = number + 1
                                 /\ [view |-> v, number |-> number + 1] \in renders'
          BY <2>1, <3>1, BatchMarks DEF FInv
        <4>2. asked' = [v \in View |-> number + 1] /\ top' = "main"
          BY <2>1, <3>1 DEF Refresh
        <4>3. ASSUME NEW v \in View
              PROVE  asked'[v] <= number' + 1 /\ (asked'[v] # 0 => top' = "main") /\ Awaited(v)'
          <5>3. number' = number + 1 /\ marks'[v] = number + 1 /\ asked'[v] = number + 1
            BY <4>1, <4>2
          <5>1. asked'[v] <= number' + 1 /\ marks'[v] >= asked'[v]
            BY <5>3, <1>1
          <5>2. [view |-> v, number |-> marks'[v]] \in renders'
            BY <4>1
          <5> QED
            BY <4>2, <5>1, <5>2 DEF Awaited
        <4> QED
          BY <4>3 DEF AskedFor
      <3>2. CASE top # "main"
        <4>1. asked' = asked /\ \A v \in View : asked[v] = 0
          BY <3>2 DEF Refresh, FInv, AskedFor
        <4>2. shown' \in [Views -> Nat] /\ number' = number + 1 /\ top' # "main"
          BY <2>1, <3>2 DEF FInv, FramesTypeOK, StartBatch
        <4> QED
          BY <4>1, <4>2, <1>1 DEF AskedFor, Awaited, Views
      <3> QED
        BY <3>1, <3>2
    <2> QED
      BY <2>2, <2>3 DEF FInv, ViewsApart
  <1> QED
    BY <1>2, <1>3

LEMMA FramesLoadedFInv == FInv /\ FramesLoaded => FInv'
  <1> SUFFICES ASSUME FInv, FramesLoaded PROVE FInv'
    OBVIOUS
  <1>1. renders = {} /\ pending' = FALSE /\ UNCHANGED <<shown, top, asked>>
    BY DEF FramesLoaded
  <1>2. number \in Nat /\ asked \in [View -> Nat] /\ shown \in [Views -> Nat]
    BY DEF FInv, FramesTypeOK
  <1>3. CASE pending
    <2>1. StartBatch
      BY <1>3 DEF FramesLoaded
    <2>2. FramesTypeOK' /\ NumbersInOrder' /\ OneBatch'
      BY <2>1, <1>1, <1>2, BatchInOrder
    <2>3. AskedFor'
      <3> SUFFICES ASSUME NEW v \in View
                   PROVE  asked[v] <= number' + 1 /\ (asked[v] # 0 => top = "main") /\ Awaited(v)'
        BY <1>1 DEF AskedFor
      <3>1. number' = number + 1 /\ asked[v] <= number + 1 /\ (asked[v] # 0 => top = "main")
        BY <2>1 DEF FInv, AskedFor, StartBatch
      <3>2. CASE asked[v] = 0
        BY <3>1, <3>2, <1>1, <1>2 DEF Awaited, Views
      <3>3. CASE asked[v] # 0
        <4>1. marks'[v] = number + 1 /\ [view |-> v, number |-> number + 1] \in renders'
          BY <3>1, <3>3, <2>1, BatchMarks DEF FInv
        <4> QED
          BY <4>1, <3>1, <1>1, <1>2 DEF Awaited
      <3> QED
        BY <3>1, <3>2, <3>3, <1>2
    <2> QED
      BY <2>2, <2>3 DEF FInv, ViewsApart
  <1>4. CASE ~pending
    BY <1>4, <1>1 DEF FramesLoaded, FInv, ViewsApart, FramesTypeOK, NumbersInOrder, OneBatch, AskedFor,
                     Awaited, Current
  <1> QED
    BY <1>3, <1>4

LEMMA FrameLoadedFInv == ASSUME FInv, NEW r, NEW some \in BOOLEAN, FrameLoaded(r, some) PROVE FInv'
  <1>1. /\ r \in renders /\ renders' = renders \ {r} /\ r \in Answers
        /\ UNCHANGED <<number, marks, refreshing, pending, top>>
    BY DEF FrameLoaded, FInv, FramesTypeOK
  <1>2. shown' \in [Views -> Nat] /\ asked' \in [View -> Nat]
    BY <1>1 DEF FrameLoaded, Updated, FInv, FramesTypeOK, Answers
  <1>3. \A v \in Views : shown'[v] = shown[v] \/ (v = r.view /\ Current(r) /\ shown'[v] = r.number)
    BY <1>1 DEF FrameLoaded, Updated, FInv, FramesTypeOK, Answers
  <1>4. FramesTypeOK'
    BY <1>1, <1>2 DEF FInv, FramesTypeOK
  <1>5. NumbersInOrder' /\ OneBatch'
    <2>1. OneBatch'
      BY <1>1 DEF FInv, OneBatch
    <2>2. \A v \in Views : marks'[v] <= number' /\ shown'[v] <= number'
      BY <1>1, <1>3 DEF FInv, NumbersInOrder
    <2>3. ASSUME NEW s \in renders', Current(s)' PROVE shown'[s.view] <= s.number
      <3>1. s \in renders /\ s.number = r.number /\ shown[s.view] <= s.number /\ s \in Answers
        BY <2>3, <1>1 DEF FInv, OneBatch, NumbersInOrder, Current, FramesTypeOK
      <3> QED
        BY <3>1, <1>3 DEF Answers
    <2> QED
      BY <1>1, <2>1, <2>2, <2>3 DEF FInv, NumbersInOrder
  <1>6. AskedFor'
    <2> SUFFICES ASSUME NEW v \in View
                 PROVE  /\ asked'[v] <= number + 1 /\ (asked'[v] # 0 => top = "main")
                        /\ Awaited(v)'
      BY <1>1 DEF AskedFor
    <2>1. asked[v] <= number + 1 /\ (asked[v] # 0 => top = "main") /\ Awaited(v) /\ v \in Views
      BY DEF FInv, AskedFor, Views
    <2>2. number \in Nat /\ asked[v] \in Nat /\ marks[v] \in Nat /\ shown[v] \in Nat
      BY <2>1 DEF FInv, FramesTypeOK
    <2>3. shown'[v] >= shown[v]
      BY <1>1, <1>3, <2>1, <2>2 DEF FInv, NumbersInOrder
    <2>4. CASE ~some /\ v = r.view
      BY <2>4, <2>2, <2>3, <1>2 DEF FrameLoaded, Awaited, Views
    <2>5. CASE some \/ v # r.view
      <3>1. asked'[v] = asked[v]
        BY <2>5 DEF FrameLoaded
      <3>2. CASE [view |-> v, number |-> marks[v]] = r
        <4>1. v = r.view /\ marks[v] = r.number /\ Current(r) /\ v # Sub /\ some
          BY <3>2, <2>5 DEF Current, FInv, ViewsApart
        <4>2. shown'[v] = r.number
          BY <4>1, <2>1 DEF FrameLoaded, Updated, FInv, FramesTypeOK
        <4> QED
          BY <4>1, <4>2, <3>1, <2>1, <2>2, <2>3, <1>1, <1>2 DEF Awaited
      <3>3. CASE [view |-> v, number |-> marks[v]] # r
        BY <3>3, <3>1, <2>1, <2>2, <2>3, <1>1, <1>2 DEF Awaited
      <3> QED
        BY <3>2, <3>3
    <2> QED
      BY <2>4, <2>5
  <1> QED
    BY <1>4, <1>5, <1>6 DEF FInv, ViewsApart

LEMMA DirectFInv ==
    ASSUME FInv, NEW S \in SUBSET Views, NEW some \in BOOLEAN, Direct(S, some) PROVE FInv'
  <1>1. /\ number \in Nat /\ number' = number + 1 /\ UNCHANGED <<refreshing, pending, renders, top>>
        /\ shown' = [v \in Views |-> IF v \in S /\ some THEN number + 1 ELSE shown[v]]
        /\ asked' = [v \in View |-> IF v \in S /\ ~some THEN 0 ELSE asked[v]]
    BY DEF Direct, FInv, FramesTypeOK
  <1>2. /\ marks' \in [Views -> Nat]
        /\ \A v \in Views : marks'[v] = (IF v \in S THEN number + 1
                                       ELSE IF v = Sub /\ top # "plugin" THEN 0 ELSE marks[v])
    BY <1>1 DEF Direct, Marked, FInv, FramesTypeOK
  <1>3. FramesTypeOK'
    BY <1>1, <1>2 DEF FInv, FramesTypeOK
  <1>4. OneBatch' /\ NumbersInOrder'
    <2>1. OneBatch' /\ (~refreshing' => renders' = {} /\ ~pending')
      BY <1>1 DEF FInv, OneBatch, NumbersInOrder
    <2>2. \A v \in Views : marks'[v] <= number' /\ shown'[v] <= number'
      BY <1>1, <1>2 DEF FInv, FramesTypeOK, NumbersInOrder
    <2>3. ASSUME NEW r \in renders', Current(r)'
          PROVE  shown'[r.view] <= r.number
      <3>1. /\ r \in renders /\ r \in Answers /\ r.number <= number /\ r.number # 0
            /\ (Current(r) => shown[r.view] <= r.number)
        BY <1>1 DEF FInv, FramesTypeOK, NumbersInOrder
      <3>2. r.view \in Views /\ r.number \in Nat /\ shown[r.view] \in Nat
        BY <3>1 DEF Answers, FInv, FramesTypeOK
      <3>3. r.view \notin S
        BY <3>1, <3>2, <2>3, <1>1, <1>2 DEF Current
      <3>4. shown'[r.view] = shown[r.view]
        BY <3>2, <3>3, <1>1
      <3>5. CASE r.view = Sub /\ top # "plugin"
        BY <3>1, <3>2, <3>3, <3>4, <3>5, <2>3, <1>1, <1>2 DEF Current
      <3>6. CASE ~(r.view = Sub /\ top # "plugin")
        BY <3>1, <3>2, <3>3, <3>4, <3>6, <2>3, <1>1, <1>2 DEF Current
      <3> QED
        BY <3>5, <3>6
    <2>4. \A r \in renders' : r.number <= number' /\ r.number # 0
      BY <1>1 DEF FInv, NumbersInOrder, FramesTypeOK, Answers
    <2> QED
      BY <2>1, <2>2, <2>3, <2>4 DEF NumbersInOrder
  <1>5. AskedFor'
    <2> SUFFICES ASSUME NEW v \in View
                 PROVE  /\ asked'[v] <= number' + 1 /\ (asked'[v] # 0 => top = "main")
                        /\ Awaited(v)'
      BY <1>1 DEF AskedFor
    <2>1. /\ asked[v] <= number + 1 /\ (asked[v] # 0 => top = "main") /\ Awaited(v)
          /\ v \in Views /\ v # Sub
      BY DEF FInv, AskedFor, Views, ViewsApart
    <2>2. asked[v] \in Nat /\ marks[v] \in Nat /\ shown[v] \in Nat
      BY <2>1 DEF FInv, FramesTypeOK
    <2>3. CASE v \in S
      BY <2>1, <2>2, <2>3, <1>1 DEF Awaited
    <2>4. CASE v \notin S
      BY <2>1, <2>2, <2>4, <1>1, <1>2 DEF Awaited
    <2> QED
      BY <2>3, <2>4
  <1> QED
    BY <1>3, <1>4, <1>5 DEF FInv, ViewsApart

LEMMA NavigateFInv == ASSUME FInv, NEW to \in Tops, Navigate(to) PROVE FInv'
  <1>1. /\ top' = to /\ UNCHANGED <<number, marks, refreshing, pending, renders>>
        /\ asked' = [v \in View |-> 0]
        /\ shown' = [shown EXCEPT ![Sub] = 0]
    BY DEF Navigate
  <1>2. /\ FramesTypeOK /\ Sub \in Views
        /\ \A v \in Views : shown'[v] \in {0, shown[v]}
    BY <1>1 DEF FInv, FramesTypeOK, Views
  <1>3. FramesTypeOK'
    BY <1>1, <1>2 DEF FramesTypeOK
  <1>4. NumbersInOrder' /\ OneBatch'
    <2>1. \A r \in renders : r.number \in Nat /\ r.view \in Views
      BY <1>2 DEF FramesTypeOK, Answers
    <2> QED
      BY <1>1, <1>2, <2>1 DEF FInv, NumbersInOrder, OneBatch, Current, FramesTypeOK
  <1>5. AskedFor'
    BY <1>1, <1>2, <1>3 DEF AskedFor, Awaited, FramesTypeOK, Views
  <1> QED
    BY <1>3, <1>4, <1>5 DEF FInv, ViewsApart

LEMMA NextFInv == FInv /\ [FramesNext]_frameVars => FInv'
  <1> SUFFICES ASSUME FInv, [FramesNext]_frameVars PROVE FInv'
    OBVIOUS
  <1>1. CASE Refresh
    BY <1>1, RefreshFInv
  <1>2. CASE FramesLoaded
    BY <1>2, FramesLoadedFInv
  <1>3. ASSUME NEW to \in Tops, Navigate(to) PROVE FInv'
    BY <1>3, NavigateFInv
  <1>4. ASSUME NEW r \in renders, NEW some \in BOOLEAN, FrameLoaded(r, some) PROVE FInv'
    BY <1>4, FrameLoadedFInv
  <1>5. ASSUME NEW S \in SUBSET Views, NEW some \in BOOLEAN, Direct(S, some) PROVE FInv'
    BY <1>5, DirectFInv
  <1>6. CASE UNCHANGED frameVars
    BY <1>6 DEF frameVars, FInv, ViewsApart, FramesTypeOK, NumbersInOrder, OneBatch, AskedFor, Awaited,
                Current
  <1>7. {{v} : v \in View} \cup {View} \cup (IF top = "plugin" THEN {{Sub}} ELSE {}) \subseteq SUBSET Views
    BY DEF Views
  <1> QED
    BY <1>1, <1>2, <1>3, <1>4, <1>5, <1>6, <1>7 DEF FramesNext, Tops

(* No view goes back to the answer of an older request, whatever overtakes what. *)
LEMMA StepAdvances == FInv /\ [FramesNext]_frameVars => [NoFrameGoesBack]_frameVars
  <1> SUFFICES ASSUME FInv, FramesNext, NEW v \in Views
               PROVE  shown'[v] = 0 \/ shown'[v] >= shown[v]
    BY DEF frameVars, NoFrameGoesBack
  <1>1. number \in Nat /\ shown \in [Views -> Nat] /\ shown[v] \in Nat /\ shown[v] <= number
    BY DEF FInv, FramesTypeOK, NumbersInOrder
  <1>2. ASSUME NEW r \in renders, NEW some \in BOOLEAN, FrameLoaded(r, some)
        PROVE  shown'[v] >= shown[v]
    <2>1. r \in Answers /\ (Current(r) => shown[r.view] <= r.number)
      BY DEF FInv, FramesTypeOK, NumbersInOrder
    <2> QED
      BY <1>1, <1>2, <2>1 DEF FrameLoaded, Updated, Answers
  <1>3. ASSUME NEW S, NEW some \in BOOLEAN, Direct(S, some)
        PROVE  shown'[v] >= shown[v]
    BY <1>1, <1>3 DEF Direct
  <1>4. ASSUME NEW to, Navigate(to)
        PROVE  shown'[v] = 0 \/ shown'[v] >= shown[v]
    BY <1>1, <1>4 DEF Navigate
  <1>5. CASE Refresh \/ FramesLoaded
    BY <1>1, <1>5 DEF Refresh, FramesLoaded
  <1> QED
    BY <1>2, <1>3, <1>4, <1>5 DEF FramesNext

(* "保证任一时刻至多存在一个渲染批次", and what schedule_plugin_views_refresh was asked *)
(* for while a batch was under way is on screen once nothing is.                 *)
THEOREM RefreshesHold == ViewsApart /\ FramesSpec => [](OneBatch /\ AskedIsShown)
  <1>1. FInv => OneBatch /\ AskedIsShown
    <2> SUFFICES ASSUME FInv, ~refreshing, NEW v \in View PROVE shown[v] >= asked[v]
      BY DEF FInv, AskedIsShown
    <2> QED
      BY DEF FInv, NumbersInOrder, AskedFor, Awaited
  <1> QED
    BY <1>1, InitFInv, NextFInv, PTL DEF FramesSpec

(* apply_rendered_request: the answers that a later request has overtaken are dropped. *)
THEOREM FramesNeverGoBack == ViewsApart /\ FramesSpec => FramesAdvance
  BY InitFInv, NextFInv, StepAdvances, PTL DEF FramesSpec, FramesAdvance

(* All three of FramesSound, for every set of views and any number of requests. *)
THEOREM FramesCorrect == ViewsApart /\ FramesSpec => FramesSound
  BY RefreshesHold, FramesNeverGoBack, PTL DEF FramesSound, FramesAdvance
==============================================================================
