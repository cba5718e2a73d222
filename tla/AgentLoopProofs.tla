--------------------------- MODULE AgentLoopProofs ---------------------------
(***************************************************************************)
(* Theorems about AgentLoop, for any tool calls, limits and retries.       *)
(***************************************************************************)
EXTENDS AgentLoop, FiniteSetTheorems, SequenceTheorems, TLAPS

\* A reservation is open only from the gate to the end of its attempt, and the
\* slot of the Core is taken exactly while there is a loop.
Slot == Running <=> pc # "idle"
Gate == /\ guard \in {"none", "open"}
        /\ reserved = IF guard = "open" THEN 1 ELSE 0
        /\ guard = "open" => pc \in {"answer", "closing"}

LEMMA GateInit == Init => Gate /\ Slot
BY DEF Init, Gate, Slot, Running

\* Dropping the guard leaves nothing reserved, whether or not it was settled.
LEMMA DropSettles == ASSUME Gate, DropGuard PROVE guard' = "none" /\ reserved' = 0
BY DEF Gate, DropGuard

\* The ways out of an attempt drop the guard; only Close takes it along, to be
\* dropped by Finish; nothing else touches it where it can be open.
LEMMA GateStep == ASSUME Gate, [Next]_vars PROVE Gate'
<1>1. CASE UNCHANGED vars
  BY <1>1 DEF vars, gate, Gate
<1>2. CASE Begin
  BY <1>2 DEF Begin, Gate, gate
<1>3. CASE Start
  BY <1>3 DEF Start, Gate, gate
<1>4. CASE Top
  BY <1>4 DEF Top, Close, Gate, gate
<1>5. CASE Request
  BY <1>5 DEF Request, Close, Reserve, Gate, gate
<1>6. CASE Stream
  BY <1>6 DEF Stream, Gate, gate
<1>7. CASE StreamCancelled
  BY <1>7 DEF StreamCancelled, Close, Gate, gate
<1>8. CASE Retry \/ AnswerEmpty \/ AnswerText \/ AnswerCalls
  <2>1. DropGuard
    BY <1>8 DEF Retry, RetrySettles, AnswerEmpty, AnswerText, AnswerCalls, Settle
  <2> QED
    BY <2>1, DropSettles DEF Gate
<1>9. CASE Fail \/ StepLimitReached \/ Finish
  <2>1. DropGuard
    BY <1>9 DEF Fail, StepLimitReached, Abort, Finish
  <2> QED
    BY <2>1, DropSettles DEF Gate
<1>10. CASE BatchCancelled \/ BatchRuns \/ BatchesDone
  BY <1>10 DEF BatchCancelled, BatchRuns, BatchesDone, Gate, gate
<1>11. CASE AfterCancelled \/ AfterSteered \/ AfterOn
  BY <1>11 DEF AfterCancelled, AfterSteered, AfterOn, Gate, gate
<1>12. CASE Push
  BY <1>12 DEF Push, Gate, gate
<1>13. CASE FinalSteering \/ FinalFollowUp \/ FinalNothing
  BY <1>13 DEF FinalSteering, FinalFollowUp, FinalNothing, Gate, gate
<1>14. CASE Cancel \/ Steer \/ FollowUp
  BY <1>14 DEF Cancel, Steer, FollowUp, Gate, gate
<1> QED
  BY <1>1, <1>2, <1>3, <1>4, <1>5, <1>6, <1>7, <1>8, <1>9, <1>10, <1>11, <1>12,
     <1>13, <1>14
  DEF Next, Proceed, Answer

\* The phase becomes a final one, or stops being one, only with the loop.
LEMMA SlotStep == ASSUME Slot, [Next]_vars PROVE Slot'
<1> USE DEF Slot, Running
<1>1. CASE UNCHANGED vars
  BY <1>1 DEF vars
<1>2. CASE Begin
  BY <1>2 DEF Begin
<1>3. CASE Start \/ Top \/ Request
  BY <1>3 DEF Start, Top, Request, Close
<1>4. CASE Stream \/ StreamCancelled
  BY <1>4 DEF Stream, StreamCancelled, Close
<1>5. CASE Retry \/ AnswerEmpty \/ AnswerText
  BY <1>5 DEF Retry, AnswerEmpty, AnswerText
<1>6. CASE AnswerCalls
  BY <1>6 DEF AnswerCalls
<1>7. CASE Fail \/ StepLimitReached \/ Finish
  BY <1>7 DEF Fail, StepLimitReached, Abort, Finish
<1>8. CASE BatchCancelled \/ BatchRuns \/ BatchesDone
  BY <1>8 DEF BatchCancelled, BatchRuns, BatchesDone
<1>9. CASE AfterCancelled \/ AfterSteered \/ AfterOn
  BY <1>9 DEF AfterCancelled, AfterSteered, AfterOn
<1>10. CASE Push
  BY <1>10 DEF Push, Close
<1>11. CASE FinalSteering \/ FinalFollowUp \/ FinalNothing
  BY <1>11 DEF FinalSteering, FinalFollowUp, FinalNothing, Inject, Refuse, Close
<1>12. CASE Cancel \/ Steer \/ FollowUp
  BY <1>12 DEF Cancel, Steer, FollowUp
<1> QED
  BY <1>1, <1>2, <1>3, <1>4, <1>5, <1>6, <1>7, <1>8, <1>9, <1>10, <1>11, <1>12
  DEF Next, Proceed, Answer

\* Every reservation of the request gate is settled exactly once, on each way
\* out of an attempt.
THEOREM SettlementCorrect == Spec => []SettledOnce
<1>1. Gate => SettledOnce
  BY DEF Gate, SettledOnce
<1> QED
  BY <1>1, GateInit, GateStep, PTL DEF Spec

\* The Core's only slot is taken exactly while a loop runs, so that a second
\* run is refused as long as there is one and never afterwards.
THEOREM SlotCorrect == Spec => []Slot
BY GateInit, SlotStep, PTL DEF Spec

------------------------------------------------------------------------------
(* Sequences of messages                                                    *)
Kind == {"user", "text", "calls", "results"}
Messages == [kind : Kind, ids : Seq(Call)]

LEMMA MessageType ==
    ASSUME NEW kind \in Kind, NEW ids \in Seq(Call)
    PROVE  /\ Message(kind, ids) \in Messages
           /\ Message(kind, ids).kind = kind /\ Message(kind, ids).ids = ids
BY DEF Message, Messages

LEMMA Appended ==
    ASSUME NEW s \in Seq(Messages), NEW m \in Messages
    PROVE  /\ Append(s, m) \in Seq(Messages) /\ Len(s) \in Nat
           /\ Len(Append(s, m)) = Len(s) + 1
           /\ DOMAIN s = 1..Len(s) /\ DOMAIN Append(s, m) = 1..(Len(s) + 1)
           /\ \A i \in 1..Len(s) : Append(s, m)[i] = s[i]
           /\ Append(s, m)[Len(s) + 1] = m
BY AppendProperties, LenProperties

\* The last message holds calls that wait for their results; those before are answered.
Pending(s, c) ==
    /\ Len(s) > 0 /\ s[Len(s)] = Message("calls", c)
    /\ \A i \in 1..(Len(s) - 1) : s[i].kind = "calls" => s[i + 1] = Message("results", s[i].ids)
    /\ \A i \in 1..Len(s) : s[i].kind = "results" => i > 1 /\ s[i - 1] = Message("calls", s[i].ids)

LEMMA AnsweredSays ==
    ASSUME NEW s \in Seq(Messages), Answered(s), NEW m \in Messages, m.kind \in {"user", "text"}
    PROVE  Answered(Append(s, m))
<1> DEFINE t == Append(s, m)
<1>1. /\ Len(s) \in Nat /\ Len(t) = Len(s) + 1
      /\ DOMAIN s = 1..Len(s) /\ DOMAIN t = 1..(Len(s) + 1)
      /\ \A i \in 1..Len(s) : t[i] = s[i]
      /\ t[Len(s) + 1].kind \notin {"calls", "results"}
  BY Appended
<1> HIDE DEF t
<1>2. ASSUME NEW i \in 1..(Len(s) + 1), t[i].kind \in {"calls", "results"} PROVE i \in 1..Len(s)
  BY <1>1, <1>2
<1>3. ASSUME NEW i \in 1..(Len(s) + 1), t[i].kind = "calls"
      PROVE  i < Len(t) /\ t[i + 1] = Message("results", t[i].ids)
  BY <1>1, <1>2, <1>3 DEF Answered
<1>4. ASSUME NEW i \in 1..(Len(s) + 1), t[i].kind = "results"
      PROVE  i > 1 /\ t[i - 1] = Message("calls", t[i].ids)
  BY <1>1, <1>2, <1>4 DEF Answered
<1> QED
  BY <1>1, <1>3, <1>4 DEF Answered, t

LEMMA AnsweredCalls ==
    ASSUME NEW s \in Seq(Messages), Answered(s), NEW c \in Seq(Call)
    PROVE  Pending(Append(s, Message("calls", c)), c)
<1> DEFINE t == Append(s, Message("calls", c))
<1>0. Message("calls", c) \in Messages /\ Message("calls", c).kind = "calls"
  BY MessageType DEF Kind
<1>1. /\ Len(s) \in Nat /\ Len(t) = Len(s) + 1
      /\ DOMAIN s = 1..Len(s)
      /\ \A i \in 1..Len(s) : t[i] = s[i]
      /\ t[Len(s) + 1] = Message("calls", c)
  BY <1>0, Appended
<1> HIDE DEF t
<1>2. ASSUME NEW i \in 1..Len(s), t[i].kind = "calls" PROVE t[i + 1] = Message("results", t[i].ids)
  BY <1>1, <1>2 DEF Answered
<1>3. ASSUME NEW i \in 1..(Len(s) + 1), t[i].kind = "results"
      PROVE  i > 1 /\ t[i - 1] = Message("calls", t[i].ids)
  BY <1>0, <1>1, <1>3 DEF Answered
<1> QED
  BY <1>1, <1>2, <1>3 DEF Pending, t

LEMMA PendingAnswered ==
    ASSUME NEW s \in Seq(Messages), NEW c \in Seq(Call), Pending(s, c)
    PROVE  Answered(Append(s, Message("results", c)))
<1> DEFINE t == Append(s, Message("results", c))
<1>0. /\ Message("results", c) \in Messages /\ Message("results", c).kind = "results"
      /\ Message("results", c).ids = c /\ Message("calls", c).ids = c
  BY MessageType DEF Kind
<1>1. /\ Len(s) \in Nat /\ Len(t) = Len(s) + 1
      /\ DOMAIN t = 1..(Len(s) + 1)
      /\ \A i \in 1..Len(s) : t[i] = s[i]
      /\ t[Len(s) + 1] = Message("results", c)
      /\ Len(s) > 0 /\ s[Len(s)] = Message("calls", c)
  BY <1>0, Appended DEF Pending
<1> HIDE DEF t
<1>2. ASSUME NEW i \in 1..(Len(s) + 1), t[i].kind = "calls"
      PROVE  i < Len(t) /\ t[i + 1] = Message("results", t[i].ids)
  <2>1. i \in 1..Len(s)
    BY <1>0, <1>1, <1>2
  <2>2. CASE i = Len(s)
    BY <1>0, <1>1, <2>1, <2>2
  <2>3. CASE i # Len(s)
    <3>1. i \in 1..(Len(s) - 1) /\ i + 1 \in 1..Len(s)
      BY <1>1, <2>1, <2>3
    <3> QED
      BY <1>1, <1>2, <2>1, <3>1 DEF Pending
  <2> QED
    BY <2>2, <2>3
<1>3. ASSUME NEW i \in 1..(Len(s) + 1), t[i].kind = "results"
      PROVE  i > 1 /\ t[i - 1] = Message("calls", t[i].ids)
  <2>1. CASE i = Len(s) + 1
    BY <1>0, <1>1, <2>1
  <2>2. CASE i # Len(s) + 1
    <3>1. i \in 1..Len(s) /\ t[i] = s[i]
      BY <1>1, <2>2
    <3>2. i > 1 /\ s[i - 1] = Message("calls", s[i].ids)
      BY <1>3, <3>1 DEF Pending
    <3> QED
      BY <1>1, <3>1, <3>2
  <2> QED
    BY <2>1, <2>2
<1> QED
  BY <1>1, <1>2, <1>3 DEF Answered, t

\* The ids of the calls in a sequence, and all ids it knows.
Unique(s) == \A i, j \in DOMAIN s :
    s[i].kind = "calls" /\ s[j].kind = "calls" /\ i # j => ToSet(s[i].ids) \cap ToSet(s[j].ids) = {}
Known(s, ids) == \A i \in DOMAIN s : ToSet(s[i].ids) \subseteq ids

LEMMA UniqueAppend ==
    ASSUME NEW s \in Seq(Messages), NEW ids, Unique(s), Known(s, ids), NEW m \in Messages,
           m.kind = "calls" => ToSet(m.ids) \cap ids = {}
    PROVE  Unique(Append(s, m)) /\ Known(Append(s, m), ids \cup ToSet(m.ids))
<1> DEFINE t == Append(s, m)
<1>1. /\ Len(s) \in Nat
      /\ DOMAIN s = 1..Len(s) /\ DOMAIN t = 1..(Len(s) + 1)
      /\ \A i \in 1..Len(s) : t[i] = s[i]
      /\ t[Len(s) + 1] = m
  BY Appended
<1> HIDE DEF t
<1>2. \A i \in DOMAIN t : i \in DOMAIN s \/ i = Len(s) + 1
  BY <1>1
<1>3. ASSUME NEW i \in DOMAIN t, NEW j \in DOMAIN t, t[i].kind = "calls", t[j].kind = "calls", i # j
      PROVE  ToSet(t[i].ids) \cap ToSet(t[j].ids) = {}
  <2>1. CASE i \in DOMAIN s /\ j \in DOMAIN s
    BY <1>1, <1>3, <2>1 DEF Unique
  <2>2. CASE i = Len(s) + 1 /\ j \in DOMAIN s
    BY <1>1, <1>3, <2>2 DEF Known
  <2>3. CASE i \in DOMAIN s /\ j = Len(s) + 1
    BY <1>1, <1>3, <2>3 DEF Known
  <2> QED
    BY <1>2, <1>3, <2>1, <2>2, <2>3
<1>4. ASSUME NEW i \in DOMAIN t PROVE ToSet(t[i].ids) \subseteq ids \cup ToSet(m.ids)
  BY <1>1, <1>2 DEF Known
<1> QED
  BY <1>3, <1>4 DEF Unique, Known, t

\* Rounds grow by a message of results, and begin again with one of the user.
LEMMA RoundsAppend ==
    ASSUME NEW s \in Seq(Messages), NEW m \in Messages
    PROVE  /\ Rounds(s) \in Nat
           /\ m.kind = "user" => Rounds(Append(s, m)) = 0
           /\ m.kind = "results" => Rounds(Append(s, m)) = Rounds(s) + 1
           /\ m.kind \in {"text", "calls"} => Rounds(Append(s, m)) = Rounds(s)
<1> DEFINE t == Append(s, m)
           R(q) == {i \in DOMAIN q : q[i].kind = "results" /\ \A j \in i..Len(q) : q[j].kind # "user"}
<1>1. /\ Len(s) \in Nat /\ Len(t) = Len(s) + 1
      /\ DOMAIN s = 1..Len(s) /\ DOMAIN t = 1..(Len(s) + 1)
      /\ \A i \in 1..Len(s) : t[i] = s[i]
      /\ t[Len(s) + 1] = m
  BY Appended
<1>2. IsFiniteSet(R(s)) /\ Cardinality(R(s)) \in Nat
  <2>1. IsFiniteSet(1..Len(s))
    BY <1>1, FS_Interval
  <2>2. R(s) \in SUBSET (1..Len(s))
    BY <1>1
  <2> QED
    BY <2>1, <2>2, FS_Subset, FS_CardinalityType
<1>3. Rounds(s) = Cardinality(R(s)) /\ Rounds(t) = Cardinality(R(t))
  BY DEF Rounds
<1> HIDE DEF t
<1>4. CASE m.kind = "user"
  <2>1. R(t) = {}
    BY <1>1, <1>4
  <2> QED
    BY <1>2, <1>3, <1>4, <2>1, FS_EmptySet DEF t
<1>5. CASE m.kind = "results"
  <2>1. R(t) = R(s) \cup {Len(s) + 1}
    <3>1. ASSUME NEW i \in R(t) PROVE i \in R(s) \cup {Len(s) + 1}
      BY <1>1, <3>1
    <3>2. ASSUME NEW i \in R(s) PROVE i \in R(t)
      BY <1>1, <1>5, <3>2
    <3>3. Len(s) + 1 \in R(t)
      BY <1>1, <1>5
    <3> QED
      BY <3>1, <3>2, <3>3
  <2>2. Len(s) + 1 \notin R(s)
    BY <1>1
  <2>3. Cardinality(R(s) \cup {Len(s) + 1}) = Cardinality(R(s)) + 1
    <3> HIDE DEF R
    <3> QED
      BY <1>2, <2>2, FS_AddElement
  <2> QED
    BY <1>2, <1>3, <1>5, <2>1, <2>3 DEF t
<1>6. CASE m.kind \in {"text", "calls"}
  <2>1. ASSUME NEW i \in R(t) PROVE i \in R(s)
    BY <1>1, <1>6, <2>1
  <2>2. ASSUME NEW i \in R(s) PROVE i \in R(t)
    BY <1>1, <1>6, <2>2
  <2>3. R(t) = R(s)
    BY <2>1, <2>2
  <2> QED
    BY <1>2, <1>3, <1>6, <2>3 DEF t
<1> QED
  BY <1>2, <1>3, <1>4, <1>5, <1>6 DEF Messages, Kind, t

\* A batch ends with one of the calls that are left.
LEMMA MinIn == ASSUME NEW S \in SUBSET Nat, S # {} PROVE Min(S) \in S
<1>1. PICK x \in S : \A y \in S : <<y, x>> \notin OpToRel(<, Nat)
  BY NatLessThanWellFounded, WFMin
<1>2. ASSUME NEW y \in S PROVE x =< y
  <2>1. x \in Nat /\ y \in Nat
    OBVIOUS
  <2>2. ~(y < x)
    BY <1>1, <2>1 DEF OpToRel
  <2> QED
    BY <2>1, <2>2
<1> QED
  BY <1>2 DEF Min

LEMMA MaxOfTwo == ASSUME NEW a \in Int, NEW b \in Int PROVE Max({a, b}) = IF a >= b THEN a ELSE b
<1> DEFINE m == IF a >= b THEN a ELSE b
<1>1. m \in {a, b} /\ \A y \in {a, b} : m >= y
  OBVIOUS
<1>2. \A x \in {a, b} : (\A y \in {a, b} : x >= y) => x = m
  OBVIOUS
<1> HIDE DEF m
<1>3. Max({a, b}) = m
  BY <1>1, <1>2 DEF Max
<1> QED
  BY <1>3 DEF m

LEMMA BatchEndIn ==
    ASSUME calls \in Seq(Call), index \in 1..Len(calls) PROVE BatchEnd \in index..Len(calls)
<1> DEFINE stops == {i \in index..Len(calls) : calls[i] \notin ReadOnly}
<1>0. Len(calls) \in Nat /\ index \in Nat
  BY LenProperties
<1>1. BatchEnd = IF stops = {} THEN Len(calls) ELSE Max({index, Min(stops) - 1})
  BY DEF BatchEnd
<1>2. CASE stops = {}
  BY <1>0, <1>1, <1>2
<1>3. CASE stops # {}
  <2>1. stops \in SUBSET Nat
    BY <1>0
  <2>2. Min(stops) \in stops
    <3> HIDE DEF stops
    <3> QED
      BY <1>3, <2>1, MinIn
  <2>3. Min(stops) \in index..Len(calls)
    BY <2>2
  <2> DEFINE k == Min(stops) - 1
  <2>4. k \in Int /\ k <= Len(calls) /\ index \in Int
    BY <1>0, <2>3
  <2>5. BatchEnd = Max({index, k})
    BY <1>1, <1>3
  <2> HIDE DEF k
  <2>6. BatchEnd = IF index >= k THEN index ELSE k
    BY <2>4, <2>5, MaxOfTwo
  <2> QED
    BY <1>0, <2>4, <2>6
<1> QED
  BY <1>2, <1>3

------------------------------------------------------------------------------
(* The session                                                              *)
Point == {"idle", "start", "top", "request", "answer", "batch", "after", "push", "final",
          "closing"}
Tools == {"batch", "after", "push"}
Admitted == {"request", "answer", "batch", "after", "push"}

LoopTypes ==
    /\ pc \in Point /\ index \in Nat /\ sinceInput \in Nat
    /\ session \in Seq(Messages) /\ base \in Seq(Messages)
    /\ calls \in Seq(Call) /\ results \in Seq(Call)

\* A run goes back to its base, which must be as good as a session; while the
\* tools of a response run its calls are what the session ends with.
Conversed ==
    /\ Answered(base) /\ Unique(base)
    /\ pc \notin Tools => Answered(session)
    /\ pc \in Tools => Pending(session, calls)
    /\ Unique(session)
    /\ pc # "idle" => Known(session, used)

\* The counter agrees with the session, and is below the limit from the admission
\* at the top of the loop to the results that count.
RoundsCounted ==
    /\ Rounds(base) = 0
    /\ pc \notin {"idle", "closing"} => sinceInput = Rounds(session)
    /\ StepLimit # NoLimit => Rounds(session) <= StepLimit
    /\ StepLimit # NoLimit /\ pc \in Admitted => sinceInput < StepLimit

\* Each call before the next one has its result.
ResultsSoFar ==
    /\ pc = "batch" => index \in 1..Len(calls) + 1 /\ results = SubSeq(calls, 1, index - 1)
    /\ pc = "after" => index \in 1..Len(calls) /\ results = SubSeq(calls, 1, index)
    /\ pc = "push" => results = calls

LoopInv == LoopTypes /\ Conversed /\ RoundsCounted /\ ResultsSoFar

LEMMA LimitType == StepLimit = NoLimit \/ StepLimit \in Nat
BY LoopAssumption DEF StepLimit

LEMMA EmptySession == <<>> \in Seq(Messages) /\ Answered(<<>>) /\ Unique(<<>>) /\ Rounds(<<>>) = 0
<1>1. <<>> \in Seq(Messages) /\ DOMAIN <<>> = {}
  OBVIOUS
<1>2. Rounds(<<>>) = 0
  <2>1. {i \in DOMAIN <<>> : <<>>[i].kind = "results" /\ \A j \in i..Len(<<>>) : <<>>[j].kind # "user"} = {}
    BY <1>1
  <2> QED
    BY <2>1, FS_EmptySet DEF Rounds
<1> QED
  BY <1>1, <1>2 DEF Answered, Unique

LEMMA LoopInit == Init => LoopInv
<1> SUFFICES ASSUME Init PROVE LoopInv
  OBVIOUS
<1>1. pc = "idle" /\ session = <<>> /\ base = <<>>
  BY DEF Init
<1>2. LoopTypes
  BY <1>1, EmptySession DEF Init, LoopTypes, Point
<1>3. Conversed
  BY <1>1, EmptySession DEF Conversed, Tools
<1>4. RoundsCounted
  BY <1>1, EmptySession, LimitType DEF RoundsCounted, Admitted
<1>5. ResultsSoFar
  BY <1>1 DEF ResultsSoFar
<1> QED
  BY <1>2, <1>3, <1>4, <1>5 DEF LoopInv

\* Most steps leave the session alone and stay on their side of the tools.
LEMMA SessionStays ==
    ASSUME LoopInv, UNCHANGED <<session, base, used, sinceInput>>,
           pc' \in Tools <=> pc \in Tools, pc' \in Tools => calls' = calls,
           pc' # "idle" => pc # "idle", pc' \notin {"idle", "closing"} => pc # "closing",
           pc' \in Admitted => pc \in Admitted \/ MayStep
    PROVE  Conversed' /\ RoundsCounted'
<1>0. LoopTypes /\ Conversed /\ RoundsCounted
  BY DEF LoopInv
<1>1. Conversed'
  BY <1>0 DEF Conversed, Answered, Unique, Known, Pending
<1>2. Rounds(base)' = Rounds(base) /\ Rounds(session)' = Rounds(session) /\ StepLimit' = StepLimit
  BY DEF Rounds, StepLimit
<1>3. RoundsCounted'
  BY <1>0, <1>2 DEF RoundsCounted, MayStep, Admitted
<1> QED
  BY <1>1, <1>3

\* Something is said.
LEMMA SessionSays ==
    ASSUME LoopInv, NEW kind \in {"user", "text"}, pc \notin Tools, pc # "idle",
           session' = Append(session, Message(kind, <<>>)),
           UNCHANGED <<base, used>>, pc' \notin Admitted \cup {"idle"},
           sinceInput' = IF kind = "user" THEN 0 ELSE sinceInput,
           pc' # "closing" => pc # "closing"
    PROVE  Conversed' /\ RoundsCounted'
<1>0. LoopTypes /\ Conversed /\ RoundsCounted
  BY DEF LoopInv
<1> DEFINE m == Message(kind, <<>>)
<1>1. m \in Messages /\ m.kind = kind /\ m.ids = <<>> /\ session \in Seq(Messages)
  <2>1. kind \in Kind /\ <<>> \in Seq(Call)
    BY DEF Kind
  <2> QED
    BY <1>0, <2>1, MessageType DEF LoopTypes
<1>2. ToSet(m.ids) = {}
  BY <1>1 DEF ToSet
<1> HIDE DEF m
<1>3. Answered(session')
  BY <1>0, <1>1, AnsweredSays DEF Conversed, m
<1>4. Unique(session') /\ Known(session', used)
  <2>1. Unique(session) /\ Known(session, used)
    BY <1>0 DEF Conversed
  <2>2. Unique(Append(session, m)) /\ Known(Append(session, m), used \cup ToSet(m.ids))
    BY <1>1, <1>2, <2>1, UniqueAppend
  <2> QED
    BY <1>2, <2>2 DEF m
<1>5. Conversed'
  BY <1>0, <1>3, <1>4 DEF Conversed, Tools, Admitted, Answered, Unique, Known
<1>6. Rounds(session') = IF kind = "user" THEN 0 ELSE Rounds(session)
  BY <1>1, RoundsAppend DEF m
<1>7. Rounds(base)' = Rounds(base) /\ StepLimit' = StepLimit /\ Rounds(session)' = Rounds(session')
  BY DEF Rounds, StepLimit
<1>8. RoundsCounted'
  BY <1>0, <1>6, <1>7, LimitType DEF RoundsCounted, Admitted
<1> QED
  BY <1>5, <1>8

\* A run begins with what the user says; the ids of the session are collected anew.
LEMMA SessionBegins == ASSUME LoopInv, Begin PROVE Conversed' /\ RoundsCounted'
<1>0. LoopTypes /\ Conversed
  BY DEF LoopInv
<1> DEFINE m == Message("user", <<>>)
           t == Append(session, m)
<1>1. m \in Messages /\ m.kind = "user" /\ m.ids = <<>> /\ session \in Seq(Messages)
  <2>1. "user" \in Kind /\ <<>> \in Seq(Call)
    BY DEF Kind
  <2> QED
    BY <1>0, <2>1, MessageType DEF LoopTypes
<1>2. /\ session' = t /\ base' = t /\ used' = UNION {ToSet(t[i].ids) : i \in DOMAIN t}
      /\ pc = "idle" /\ pc' = "start" /\ sinceInput' = 0
  BY DEF Begin, Confirm
<1>3. Known(t, UNION {ToSet(t[i].ids) : i \in DOMAIN t})
  <2> HIDE DEF t
  <2> QED
    BY DEF Known
<1> HIDE DEF m
<1>4. Answered(t)
  <2>1. Answered(session)
    BY <1>0, <1>2 DEF Conversed, Tools
  <2> QED
    BY <1>1, <2>1, AnsweredSays
<1>5. Unique(t)
  <2>1. Unique(session) /\ Known(session, UNION {ToSet(session[i].ids) : i \in DOMAIN session})
    BY <1>0 DEF Conversed, Known
  <2> QED
    BY <1>1, <2>1, UniqueAppend
<1>6. Rounds(t) = 0
  BY <1>1, RoundsAppend
<1> HIDE DEF t
<1>7. Conversed'
  BY <1>2, <1>3, <1>4, <1>5 DEF Conversed, Tools, Answered, Unique, Known
<1>8. Rounds(base)' = 0 /\ Rounds(session)' = 0 /\ StepLimit' = StepLimit
  BY <1>2, <1>6 DEF Rounds, StepLimit
<1>9. RoundsCounted'
  BY <1>2, <1>8, LimitType DEF RoundsCounted, Admitted
<1> QED
  BY <1>7, <1>9

\* A run that fails leaves its caller with the session it began with.
LEMMA SessionAborts == ASSUME LoopInv, Abort PROVE Conversed' /\ RoundsCounted'
<1>0. Conversed /\ RoundsCounted
  BY DEF LoopInv
<1>1. session' = base /\ base' = base /\ pc' = "idle"
  BY DEF Abort
<1>2. Conversed'
  BY <1>0, <1>1 DEF Conversed, Tools, Answered, Unique
<1>3. Rounds(base)' = Rounds(base) /\ Rounds(session)' = Rounds(base) /\ StepLimit' = StepLimit
  BY <1>1 DEF Rounds, StepLimit
<1>4. RoundsCounted'
  BY <1>0, <1>1, <1>3, LimitType DEF RoundsCounted, Admitted
<1> QED
  BY <1>2, <1>4

LEMMA ResponseType == ASSUME NEW response \in Responses PROVE response \in Seq(Call)
<1>1. Cardinality(Call) \in Nat
  BY LoopAssumption, FS_CardinalityType
<1> QED
  BY <1>1 DEF Responses

\* A response asks for calls with ids that nothing in the session has.
LEMMA SessionCalls == ASSUME LoopInv, AnswerCalls PROVE Conversed' /\ RoundsCounted'
<1>0. LoopTypes /\ Conversed /\ RoundsCounted
  BY DEF LoopInv
<1>1. PICK response \in Responses :
         /\ Fresh(response) /\ calls' = response /\ used' = used \cup ToSet(response)
         /\ session' = Append(session, Message("calls", response))
  BY DEF AnswerCalls, Confirm
<1>2. pc = "answer" /\ pc' = "batch" /\ UNCHANGED <<base, sinceInput>>
  BY DEF AnswerCalls
<1> DEFINE m == Message("calls", response)
           t == Append(session, m)
<1>3. response \in Seq(Call) /\ session \in Seq(Messages)
  BY <1>0, ResponseType DEF LoopTypes
<1>4. m \in Messages /\ m.kind = "calls" /\ m.ids = response
  BY <1>3, MessageType DEF Kind
<1>5. Answered(session) /\ Unique(session) /\ Known(session, used)
  BY <1>0, <1>2 DEF Conversed, Tools
<1>6. Pending(t, response)
  BY <1>3, <1>5, AnsweredCalls
<1> HIDE DEF m
<1>7. Unique(t) /\ Known(t, used \cup ToSet(response))
  <2>1. ToSet(m.ids) \cap used = {}
    BY <1>1, <1>4 DEF Fresh
  <2> QED
    BY <1>3, <1>4, <1>5, <2>1, UniqueAppend
<1>8. Rounds(t) = Rounds(session)
  BY <1>3, <1>4, RoundsAppend
<1>9. session' = t
  BY <1>1 DEF m
<1> HIDE DEF t
<1>10. Conversed'
  <2>1. Answered(base) /\ Unique(base)
    BY <1>0 DEF Conversed
  <2>2. pc' \in Tools /\ pc' # "idle" /\ base' = base
    BY <1>2 DEF Tools
  <2>3. Pending(session, calls)' /\ Unique(session)' /\ Known(session, used)'
    BY <1>1, <1>6, <1>7, <1>9 DEF Pending, Answered, Unique, Known
  <2>4. Answered(base)' /\ Unique(base)'
    BY <2>1, <2>2 DEF Answered, Unique
  <2> QED
    BY <2>2, <2>3, <2>4 DEF Conversed
<1>11. Rounds(base)' = Rounds(base) /\ Rounds(session)' = Rounds(session) /\ StepLimit' = StepLimit
  BY <1>2, <1>8, <1>9 DEF Rounds, StepLimit
<1>12. RoundsCounted'
  BY <1>0, <1>2, <1>11, LimitType DEF RoundsCounted, Admitted
<1> QED
  BY <1>10, <1>12

\* The results answer the calls and make a round, unless the user steers.
LEMMA SessionPushes == ASSUME LoopInv, Push PROVE Conversed' /\ RoundsCounted'
<1>0. LoopTypes /\ Conversed /\ RoundsCounted /\ ResultsSoFar
  BY DEF LoopInv
<1> DEFINE m == Message("results", calls)
           t == Append(session, m)
           u == Message("user", <<>>)
<1>1. pc = "push" /\ results = calls /\ UNCHANGED <<base, used>>
  BY <1>0 DEF Push, ResultsSoFar, tools
<1>2. \/ session' = t /\ pc' = "closing" /\ sinceInput' = sinceInput
      \/ session' = Append(t, u) /\ pc' = "top" /\ sinceInput' = 0
      \/ session' = t /\ pc' = "top" /\ sinceInput' = sinceInput + 1
  BY <1>1 DEF Push, Confirm, Close, Counted
<1>3. calls \in Seq(Call) /\ session \in Seq(Messages) /\ sinceInput \in Nat
  BY <1>0 DEF LoopTypes
<1>4. m \in Messages /\ m.kind = "results" /\ m.ids = calls
  BY <1>3, MessageType DEF Kind
<1>5. u \in Messages /\ u.kind = "user" /\ u.ids = <<>>
  <2>1. "user" \in Kind /\ <<>> \in Seq(Call)
    BY DEF Kind
  <2> QED
    BY <2>1, MessageType
<1>6. Pending(session, calls) /\ Unique(session) /\ Known(session, used)
  BY <1>0, <1>1 DEF Conversed, Tools
<1>7. Answered(t)
  BY <1>3, <1>6, PendingAnswered
<1>8. ToSet(calls) \subseteq used
  <2>1. Len(session) \in DOMAIN session /\ session[Len(session)].ids = calls
    BY <1>3, <1>6, LenProperties DEF Pending, Message
  <2> QED
    BY <1>6, <2>1 DEF Known
<1> HIDE DEF m, u
<1>9. t \in Seq(Messages) /\ Unique(t) /\ Known(t, used)
  <2>1. Unique(t) /\ Known(t, used \cup ToSet(m.ids))
    BY <1>3, <1>4, <1>6, UniqueAppend
  <2>2. used \cup ToSet(m.ids) = used
    BY <1>4, <1>8
  <2> QED
    BY <1>3, <1>4, <2>1, <2>2, Appended
<1>10. Rounds(t) = Rounds(session) + 1
  BY <1>3, <1>4, RoundsAppend
<1> HIDE DEF t
<1>11. Answered(Append(t, u))
  BY <1>5, <1>7, <1>9, AnsweredSays
<1>12. Unique(Append(t, u)) /\ Known(Append(t, u), used)
  <2>1. Unique(Append(t, u)) /\ Known(Append(t, u), used \cup ToSet(u.ids))
    BY <1>5, <1>9, UniqueAppend
  <2>2. ToSet(u.ids) = {}
    BY <1>5 DEF ToSet
  <2> QED
    BY <2>1, <2>2
<1>13. Rounds(Append(t, u)) = 0
  BY <1>5, <1>9, RoundsAppend
<1>14. Answered(session') /\ Unique(session') /\ Known(session', used)
  BY <1>2, <1>7, <1>9, <1>11, <1>12
<1>15. Conversed'
  BY <1>0, <1>1, <1>2, <1>14 DEF Conversed, Tools, Answered, Unique, Known
<1>16. Rounds(base)' = Rounds(base) /\ Rounds(session)' = Rounds(session') /\ StepLimit' = StepLimit
  BY <1>1 DEF Rounds, StepLimit
<1>17. sinceInput = Rounds(session) /\ (StepLimit # NoLimit => sinceInput < StepLimit)
  BY <1>0, <1>1 DEF RoundsCounted, Admitted
<1>18. RoundsCounted'
  <2>1. \/ pc' = "closing" /\ Rounds(session') = sinceInput + 1
        \/ pc' = "top" /\ Rounds(session') = sinceInput' /\ sinceInput' \in {0, sinceInput + 1}
    <3>1. Rounds(t) = sinceInput + 1
      BY <1>10, <1>17
    <3> QED
      BY <1>2, <1>13, <3>1
  <2>2. StepLimit # NoLimit => Rounds(session') <= StepLimit
    <3>1. Rounds(session') \in {0, sinceInput + 1}
      BY <2>1
    <3> QED
      BY <1>3, <1>17, <3>1, LimitType
  <2>3. pc' \notin Admitted \cup {"idle"} /\ Rounds(base) = 0
    BY <1>0, <1>2 DEF RoundsCounted, Admitted
  <2>4. pc' # "closing" => Rounds(session') = sinceInput'
    BY <2>1
  <2> QED
    BY <1>16, <2>2, <2>3, <2>4 DEF RoundsCounted
<1> QED
  BY <1>15, <1>18

LEMMA TypesStep == ASSUME LoopInv, [Next]_vars PROVE LoopTypes'
<1>0. /\ pc \in Point /\ index \in Nat /\ sinceInput \in Nat
      /\ session \in Seq(Messages) /\ base \in Seq(Messages)
      /\ calls \in Seq(Call) /\ results \in Seq(Call) /\ ResultsSoFar
  BY DEF LoopInv, LoopTypes
<1>1. ASSUME NEW s \in Seq(Messages), NEW kind \in Kind, NEW ids \in Seq(Call)
      PROVE  Append(s, Message(kind, ids)) \in Seq(Messages)
  BY <1>1, MessageType, Appended
<1>2. "user" \in Kind /\ "text" \in Kind /\ "calls" \in Kind /\ "results" \in Kind /\ <<>> \in Seq(Call)
  BY DEF Kind
<1>3. ASSUME NEW s \in Seq(Messages), session' = s, base' \in {base, s},
             calls' \in {calls, <<>>}, results' \in {results, <<>>}, index' \in {index, 1},
             sinceInput' \in {0, sinceInput, sinceInput + 1}, pc' \in Point
      PROVE  LoopTypes'
  <2>1. index' \in Nat /\ sinceInput' \in Nat
    BY <1>0, <1>3
  <2>2. calls' \in Seq(Call) /\ results' \in Seq(Call)
    BY <1>0, <1>2, <1>3
  <2> QED
    BY <1>0, <1>3, <2>1, <2>2 DEF LoopTypes
<1>4. CASE UNCHANGED vars
  BY <1>0, <1>4 DEF vars, tools, LoopTypes
<1>5. CASE Begin
  <2>1. pc' \in Point
    BY <1>5 DEF Begin, Point
  <2> QED
    BY <1>0, <1>1, <1>2, <1>3, <1>5, <2>1 DEF Begin, Confirm
<1>6. CASE Fail \/ StepLimitReached
  <2>1. pc' \in Point
    BY <1>6 DEF Fail, StepLimitReached, Abort, Point
  <2> QED
    BY <1>0, <1>3, <1>6, <2>1 DEF Fail, StepLimitReached, Abort, tools
<1>7. CASE Start \/ Top \/ Request \/ Stream \/ Finish \/ Retry \/ AnswerEmpty \/ BatchesDone
           \/ FinalNothing \/ Cancel \/ Steer \/ FollowUp
  <2>1. pc' \in Point
    BY <1>0, <1>7 DEF Start, Top, Request, Stream, Finish, Retry, AnswerEmpty, BatchesDone,
       FinalNothing, Cancel, Steer, FollowUp, Close, Point
  <2>2. UNCHANGED <<session, base, sinceInput>>
    BY <1>7 DEF Start, Top, Request, Stream, Finish, Retry, AnswerEmpty, BatchesDone,
       FinalNothing, Cancel, Steer, FollowUp
  <2>3. UNCHANGED <<results, index>> /\ calls' \in {calls, <<>>}
    BY <1>7 DEF Start, Top, Request, Stream, Finish, Retry, AnswerEmpty, BatchesDone,
       FinalNothing, Cancel, Steer, FollowUp, tools
  <2> QED
    BY <1>0, <1>3, <2>1, <2>2, <2>3
<1>8. CASE StreamCancelled \/ AnswerText
  <2>1. pc' \in Point /\ session' \in {session, Append(session, Message("text", <<>>))}
    BY <1>8 DEF StreamCancelled, AnswerText, Confirm, Close, Point
  <2>2. UNCHANGED <<base, sinceInput, results, index>> /\ calls' \in {calls, <<>>}
    BY <1>8 DEF StreamCancelled, AnswerText, tools
  <2>3. session' \in Seq(Messages)
    BY <1>0, <1>1, <1>2, <2>1
  <2> QED
    BY <1>0, <1>3, <2>1, <2>2, <2>3
<1>9. CASE AnswerCalls
  <2>1. PICK response \in Responses :
           calls' = response /\ session' = Append(session, Message("calls", response))
    BY <1>9 DEF AnswerCalls, Confirm
  <2>2. response \in Seq(Call)
    BY ResponseType
  <2>3. session' \in Seq(Messages)
    BY <1>0, <1>1, <1>2, <2>1, <2>2
  <2> QED
    BY <1>0, <1>2, <1>9, <2>1, <2>2, <2>3 DEF AnswerCalls, LoopTypes, Point
<1>10. CASE BatchCancelled \/ BatchRuns \/ AfterCancelled \/ AfterSteered \/ AfterOn
  <2>1. pc' \in Point /\ UNCHANGED <<session, base, calls, sinceInput>>
    BY <1>10 DEF BatchCancelled, BatchRuns, AfterCancelled, AfterSteered, AfterOn, Point
  <2>2. pc = "batch" /\ index <= Len(calls) => BatchEnd \in index..Len(calls)
    <3>1. SUFFICES ASSUME pc = "batch", index <= Len(calls) PROVE BatchEnd \in index..Len(calls)
      OBVIOUS
    <3>2. index \in 1..Len(calls)
      BY <1>0, <3>1, LenProperties DEF ResultsSoFar
    <3> QED
      BY <1>0, <3>2, BatchEndIn
  <2>3. index' \in Nat
    BY <1>0, <1>10, <2>2, LenProperties
       DEF BatchCancelled, BatchRuns, AfterCancelled, AfterSteered, AfterOn, ResultsSoFar
  <2>4. results' \in Seq(Call)
    <3>1. ASSUME NEW i \in 1..Len(calls) + 1, NEW j \in 0..Len(calls)
          PROVE  results \o SubSeq(calls, i, j) \in Seq(Call)
      BY <1>0, <3>1, LenProperties, SubSeqProperties, ConcatProperties
    <3>2. Len(calls) \in Nat
      BY <1>0, LenProperties
    <3>3. CASE BatchCancelled
      <4>1. index \in 1..Len(calls) + 1 /\ Len(calls) \in 0..Len(calls)
        BY <1>0, <3>2, <3>3 DEF BatchCancelled, ResultsSoFar
      <4> QED
        BY <3>1, <3>3, <4>1 DEF BatchCancelled, SkipFrom
    <3>4. CASE BatchRuns
      <4>1. index \in 1..Len(calls) + 1 /\ BatchEnd \in 0..Len(calls)
        BY <1>0, <2>2, <3>2, <3>4 DEF BatchRuns, ResultsSoFar
      <4> QED
        BY <3>1, <3>4, <4>1 DEF BatchRuns
    <3>5. CASE AfterCancelled \/ AfterSteered
      <4>1. index + 1 \in 1..Len(calls) + 1 /\ Len(calls) \in 0..Len(calls)
        BY <1>0, <3>2, <3>5 DEF AfterCancelled, AfterSteered, ResultsSoFar
      <4> QED
        BY <3>1, <3>5, <4>1 DEF AfterCancelled, AfterSteered, SkipFrom
    <3>6. CASE AfterOn
      BY <1>0, <3>6 DEF AfterOn
    <3> QED
      BY <1>10, <3>3, <3>4, <3>5, <3>6
  <2> QED
    BY <1>0, <2>1, <2>3, <2>4 DEF LoopTypes
<1>11. CASE Push
  <2>1. pc' \in Point /\ sinceInput' \in {0, sinceInput, sinceInput + 1}
    BY <1>11 DEF Push, Close, Counted, Point
  <2>2. session' \in Seq(Messages)
    <3>1. Append(session, Message("results", results)) \in Seq(Messages)
      BY <1>0, <1>1, <1>2
    <3> QED
      BY <1>1, <1>2, <1>11, <3>1 DEF Push, Confirm
  <2> QED
    BY <1>0, <1>3, <1>11, <2>1, <2>2 DEF Push, tools
<1>12. CASE FinalSteering \/ FinalFollowUp
  <2>1. pc' \in Point /\ sinceInput' \in {0, sinceInput}
    BY <1>0, <1>12 DEF FinalSteering, FinalFollowUp, Inject, Refuse, Point
  <2>2. session' \in Seq(Messages)
    BY <1>0, <1>1, <1>2, <1>12 DEF FinalSteering, FinalFollowUp, Inject, Refuse, Confirm
  <2> QED
    BY <1>0, <1>3, <1>12, <2>1, <2>2 DEF FinalSteering, FinalFollowUp, tools
<1> QED
  BY <1>4, <1>5, <1>6, <1>7, <1>8, <1>9, <1>10, <1>11, <1>12 DEF Next, Proceed, Answer

\* The results of the first calls, and those of more, or of all that are left.
LEMMA ResultsJoin ==
    ASSUME NEW c \in Seq(Call), NEW k \in 0..Len(c), NEW n \in k..Len(c)
    PROVE  SubSeq(c, 1, k) \o SubSeq(c, k + 1, n) = SubSeq(c, 1, n)
<1>1. 1 \in 1..Len(c) + 1 /\ k \in 1 - 1..Len(c)
  BY LenProperties
<1> QED
  BY <1>1, ConcatAdjacentSubSeq

LEMMA ResultsStep == ASSUME LoopInv, [Next]_vars PROVE ResultsSoFar'
<1>0. LoopTypes /\ ResultsSoFar /\ calls \in Seq(Call) /\ Len(calls) \in Nat /\ index \in Nat
  BY LenProperties DEF LoopInv, LoopTypes
<1>1. SubSeq(calls, 1, Len(calls)) = calls
  BY <1>0, SubSeqFull
<1>2. CASE UNCHANGED vars
  BY <1>0, <1>2 DEF vars, tools, ResultsSoFar
<1>3. CASE Begin \/ Start \/ Top \/ Request \/ StreamCancelled \/ Retry \/ AnswerEmpty \/ AnswerText
           \/ Fail \/ StepLimitReached \/ Finish \/ FinalSteering \/ FinalFollowUp \/ FinalNothing
           \/ Push
  <2>1. pc' \notin Tools
    BY <1>0, <1>3 DEF Begin, Start, Top, Request, StreamCancelled, Retry, AnswerEmpty, AnswerText,
       Fail, StepLimitReached, Abort, Finish, FinalSteering, FinalFollowUp, FinalNothing, Inject,
       Refuse, Push, Close, Tools
  <2> QED
    BY <2>1 DEF ResultsSoFar, Tools
<1>4. CASE Stream \/ Cancel \/ Steer \/ FollowUp
  BY <1>0, <1>4 DEF Stream, Cancel, Steer, FollowUp, tools, ResultsSoFar
<1>5. CASE AnswerCalls
  <2>1. PICK response \in Responses : calls' = response
    BY <1>5 DEF AnswerCalls
  <2>2. response \in Seq(Call) /\ Len(response) \in Nat
    BY ResponseType, LenProperties
  <2>3. SubSeq(response, 1, 1 - 1) = <<>>
    BY <2>2, SubSeqEmpty
  <2>4. index' = 1 /\ results' = <<>> /\ pc' = "batch"
    BY <1>5 DEF AnswerCalls
  <2> QED
    BY <2>1, <2>2, <2>3, <2>4 DEF ResultsSoFar
<1>6. CASE BatchCancelled
  <2>0. pc = "batch" /\ index \in 1..Len(calls) /\ results = SubSeq(calls, 1, index - 1)
    BY <1>0, <1>6 DEF BatchCancelled, ResultsSoFar
  <2>1. /\ results' = SubSeq(calls, 1, index - 1) \o SubSeq(calls, index, Len(calls))
        /\ calls' = calls /\ pc' = "push"
    BY <1>6, <2>0 DEF BatchCancelled, SkipFrom
  <2>2. results' = calls
    <3> DEFINE k == index - 1
    <3>1. k \in 0..Len(calls) /\ Len(calls) \in k..Len(calls) /\ index = k + 1
      BY <1>0, <2>0
    <3> HIDE DEF k
    <3> QED
      BY <1>0, <1>1, <2>1, <3>1, ResultsJoin DEF k
  <2> QED
    BY <2>1, <2>2 DEF ResultsSoFar
<1>7. CASE BatchRuns
  <2>0. pc = "batch" /\ index \in 1..Len(calls) /\ results = SubSeq(calls, 1, index - 1)
    BY <1>0, <1>7 DEF BatchRuns, ResultsSoFar
  <2>1. /\ results' = SubSeq(calls, 1, index - 1) \o SubSeq(calls, index, BatchEnd)
        /\ calls' = calls /\ pc' = "after" /\ index' = BatchEnd
    BY <1>7, <2>0 DEF BatchRuns
  <2>2. BatchEnd \in index..Len(calls)
    BY <1>0, <2>0, BatchEndIn
  <2>3. results' = SubSeq(calls, 1, BatchEnd)
    <3> DEFINE k == index - 1
    <3>1. k \in 0..Len(calls) /\ BatchEnd \in k..Len(calls) /\ index = k + 1
      BY <1>0, <2>0, <2>2
    <3> HIDE DEF k
    <3> QED
      BY <1>0, <2>1, <3>1, ResultsJoin DEF k
  <2> QED
    BY <1>0, <2>0, <2>1, <2>2, <2>3 DEF ResultsSoFar
<1>8. CASE BatchesDone
  <2>1. index = Len(calls) + 1 /\ results = SubSeq(calls, 1, index - 1) /\ index - 1 = Len(calls)
    BY <1>0, <1>8 DEF BatchesDone, ResultsSoFar
  <2>2. results = calls
    BY <1>1, <2>1
  <2> QED
    BY <1>8, <2>2 DEF BatchesDone, tools, ResultsSoFar
<1>9. CASE AfterCancelled \/ AfterSteered
  <2>1. /\ index \in 1..Len(calls)
        /\ results' = SubSeq(calls, 1, index) \o SubSeq(calls, index + 1, Len(calls))
        /\ calls' = calls /\ pc' = "push"
    BY <1>0, <1>9 DEF AfterCancelled, AfterSteered, SkipFrom, ResultsSoFar
  <2>2. index \in 0..Len(calls) /\ Len(calls) \in index..Len(calls)
    BY <1>0, <2>1
  <2>3. results' = calls
    BY <1>0, <1>1, <2>1, <2>2, ResultsJoin
  <2> QED
    BY <2>1, <2>3 DEF ResultsSoFar
<1>10. CASE AfterOn
  <2>1. index \in 1..Len(calls) /\ results = SubSeq(calls, 1, index) /\ index' = index + 1
        /\ pc' = "batch" /\ UNCHANGED <<calls, results>>
    BY <1>0, <1>10 DEF AfterOn, ResultsSoFar
  <2>2. index' \in 1..Len(calls) + 1 /\ index' - 1 = index
    BY <1>0, <2>1
  <2> QED
    BY <2>1, <2>2 DEF ResultsSoFar
<1> QED
  BY <1>2, <1>3, <1>4, <1>5, <1>6, <1>7, <1>8, <1>9, <1>10 DEF Next, Proceed, Answer

\* What the steps do to the session.
LEMMA SessionStep == ASSUME LoopInv, [Next]_vars PROVE Conversed' /\ RoundsCounted'
<1>1. CASE UNCHANGED vars
  <2>1. UNCHANGED <<pc, session, base, used, calls, sinceInput>>
    BY <1>1 DEF vars, tools
  <2> QED
    BY <2>1, SessionStays
<1>2. CASE Begin
  BY <1>2, SessionBegins
<1>3. CASE Fail \/ StepLimitReached
  BY <1>3, SessionAborts DEF Fail, StepLimitReached
<1>4. CASE Start \/ Top \/ Request \/ Stream \/ Finish \/ Retry \/ AnswerEmpty \/ FinalNothing
  <2>1. UNCHANGED <<session, base, used, sinceInput>>
    BY <1>4 DEF Start, Top, Request, Stream, Finish, Retry, AnswerEmpty, FinalNothing, tools
  <2>2. /\ pc \notin Tools /\ pc' \notin Tools /\ pc # "idle"
        /\ pc' \notin {"idle", "closing"} => pc # "closing"
        /\ pc' \in Admitted => pc \in Admitted \/ MayStep
    BY <1>4 DEF Start, Top, Request, Stream, Finish, Retry, AnswerEmpty, FinalNothing, Close,
       Tools, Admitted
  <2> QED
    BY <2>1, <2>2, SessionStays
<1>5. CASE BatchCancelled \/ BatchRuns \/ BatchesDone \/ AfterCancelled \/ AfterSteered \/ AfterOn
  <2>1. UNCHANGED <<session, base, used, sinceInput, calls>>
    BY <1>5 DEF BatchCancelled, BatchRuns, BatchesDone, AfterCancelled, AfterSteered, AfterOn, tools
  <2>2. pc \in Tools /\ pc' \in Tools /\ pc \in Admitted /\ pc # "idle" /\ pc # "closing"
    BY <1>5 DEF BatchCancelled, BatchRuns, BatchesDone, AfterCancelled, AfterSteered, AfterOn,
       Tools, Admitted
  <2> QED
    BY <2>1, <2>2, SessionStays
<1>6. CASE Cancel \/ Steer \/ FollowUp
  <2>1. UNCHANGED <<pc, session, base, used, calls, sinceInput>>
    BY <1>6 DEF Cancel, Steer, FollowUp, tools
  <2> QED
    BY <2>1, SessionStays
<1>7. CASE StreamCancelled
  <2>1. /\ pc = "answer" /\ pc' = "closing" /\ UNCHANGED <<base, used, sinceInput, calls>>
        /\ session' \in {session, Append(session, Message("text", <<>>))}
    BY <1>7 DEF StreamCancelled, Confirm, Close, tools
  <2>2. pc \notin Tools /\ pc' \notin Tools /\ pc' \notin Admitted
    BY <2>1 DEF Tools, Admitted
  <2>3. CASE session' = session
    BY <2>1, <2>2, <2>3, SessionStays
  <2>4. CASE session' = Append(session, Message("text", <<>>))
    <3> DEFINE kind == "text"
    <3>1. /\ kind \in {"user", "text"} /\ session' = Append(session, Message(kind, <<>>))
          /\ sinceInput' = IF kind = "user" THEN 0 ELSE sinceInput
      BY <2>1, <2>4
    <3> HIDE DEF kind
    <3> QED
      BY <2>1, <2>2, <3>1, SessionSays
  <2> QED
    BY <2>1, <2>3, <2>4
<1>8. CASE AnswerText
  <2>1. /\ pc = "answer" /\ pc' = "final" /\ UNCHANGED <<base, used, sinceInput>>
        /\ session' = Append(session, Message("text", <<>>))
    BY <1>8 DEF AnswerText, Confirm
  <2>2. pc \notin Tools /\ pc' \notin Admitted
    BY <2>1 DEF Tools, Admitted
  <2> DEFINE kind == "text"
  <2>3. /\ kind \in {"user", "text"} /\ session' = Append(session, Message(kind, <<>>))
        /\ sinceInput' = IF kind = "user" THEN 0 ELSE sinceInput
    BY <2>1
  <2> HIDE DEF kind
  <2> QED
    BY <2>1, <2>2, <2>3, SessionSays
<1>9. CASE AnswerCalls
  BY <1>9, SessionCalls
<1>10. CASE Push
  BY <1>10, SessionPushes
<1>11. CASE FinalSteering \/ FinalFollowUp
  <2>1. pc = "final" /\ (Inject \/ Refuse) /\ UNCHANGED <<base, used, calls>>
    BY <1>11 DEF FinalSteering, FinalFollowUp, tools
  <2>2. CASE Inject
    <3> DEFINE kind == "user"
    <3>1. /\ kind \in {"user", "text"} /\ session' = Append(session, Message(kind, <<>>))
          /\ sinceInput' = IF kind = "user" THEN 0 ELSE sinceInput
          /\ pc' = "top"
      BY <2>2 DEF Inject, Confirm
    <3>2. pc \notin Tools /\ pc' \notin Admitted
      BY <2>1, <3>1 DEF Tools, Admitted
    <3> HIDE DEF kind
    <3> QED
      BY <2>1, <3>1, <3>2, SessionSays
  <2>3. CASE Refuse
    <3>1. UNCHANGED <<session, sinceInput, pc>>
      BY <2>3 DEF Refuse
    <3> QED
      BY <2>1, <3>1, SessionStays
  <2> QED
    BY <2>1, <2>2, <2>3
<1> QED
  BY <1>1, <1>2, <1>3, <1>4, <1>5, <1>6, <1>7, <1>8, <1>9, <1>10, <1>11 DEF Next, Proceed, Answer

\* The session is well formed at every step: the invariant that carries SessionSound.
THEOREM LoopInductive == Spec => []LoopInv
<1>1. LoopInv /\ [Next]_vars => LoopInv'
  BY TypesStep, ResultsStep, SessionStep DEF LoopInv
<1> QED
  BY <1>1, LoopInit, PTL DEF Spec

\* What a session may be relied on for by the next request and the next run: no call
\* without its result, no id twice, and a step limit that counts what the session shows.
THEOREM SessionCorrect == Spec => []SessionSound
<1>1. LoopInv => SessionSound
  <2> SUFFICES ASSUME LoopInv PROVE SessionSound
    OBVIOUS
  <2>1. Conversed /\ RoundsCounted
    BY DEF LoopInv
  <2>2. NoOrphanCall
    BY <2>1 DEF Conversed, Tools, NoOrphanCall
  <2>3. UniqueCalls
    BY <2>1 DEF Conversed, Unique, UniqueCalls
  <2>4. LimitCountsRounds
    BY <2>1 DEF RoundsCounted, LimitCountsRounds
  <2> QED
    BY <2>2, <2>3, <2>4 DEF SessionSound
<1> QED
  BY <1>1, LoopInductive, PTL

\* The snapshot is the session while there is a loop and after a run that returned one.
InStep == pc # "idle" \/ phase \in {"succeeded", "cancelled"} => shown = session

\* Wherever the loop leaves out a copy, the snapshot was brought up to date before.
THEOREM SnapshotCorrect == Spec => []SnapshotInStep
<1>1. Init => InStep
  BY DEF Init, InStep
<1>2. InStep /\ Slot /\ [Next]_vars => InStep'
  <2> SUFFICES ASSUME InStep, Slot, [Next]_vars PROVE InStep'
    OBVIOUS
  <2>0. pc # "idle" => shown = session
    BY DEF InStep
  <2>1. CASE UNCHANGED vars
    BY <2>1 DEF vars, InStep
  <2>2. CASE Begin
    BY <2>2 DEF Begin, Confirm, InStep
  <2>3. CASE Fail \/ StepLimitReached
    BY <2>3 DEF Fail, StepLimitReached, Abort, InStep
  <2>4. CASE Start \/ Top \/ Request \/ Stream \/ Retry \/ AnswerEmpty \/ FinalNothing
    BY <2>0, <2>4 DEF Start, Top, Request, Stream, Retry, AnswerEmpty, FinalNothing, InStep
  <2>5. CASE BatchCancelled \/ BatchRuns \/ BatchesDone \/ AfterCancelled \/ AfterSteered \/ AfterOn
    BY <2>0, <2>5 DEF BatchCancelled, BatchRuns, BatchesDone, AfterCancelled, AfterSteered, AfterOn, InStep
  <2>6. CASE StreamCancelled \/ AnswerText
    BY <2>0, <2>6 DEF StreamCancelled, AnswerText, Confirm, InStep
  <2>7. CASE AnswerCalls
    BY <2>7 DEF AnswerCalls, Confirm, InStep
  <2>8. CASE Push
    BY <2>8 DEF Push, Confirm, InStep
  <2>9. CASE FinalSteering \/ FinalFollowUp
    BY <2>0, <2>9 DEF FinalSteering, FinalFollowUp, Inject, Refuse, Confirm, InStep
  <2>10. CASE Finish
    BY <2>10 DEF Finish, InStep
  <2>11. CASE Cancel \/ Steer \/ FollowUp
    BY <2>0, <2>11 DEF Cancel, Steer, FollowUp, Slot, InStep
  <2> QED
    BY <2>1, <2>2, <2>3, <2>4, <2>5, <2>6, <2>7, <2>8, <2>9, <2>10, <2>11 DEF Next, Proceed, Answer
<1>3. InStep => SnapshotInStep
  BY DEF InStep, SnapshotInStep
<1> QED
  BY <1>1, <1>2, <1>3, SlotCorrect, PTL DEF Spec
=============================================================================
