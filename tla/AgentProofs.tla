----------------------------- MODULE AgentProofs -----------------------------
(***************************************************************************)
(* Proofs about one agent: the events of its run and who is told of them   *)
(* (AgentEntry), for any number of callers, events and histories; the      *)
(* tools it may use (ToolAdmission), for every set of agents and tools,    *)
(* every policy and every number of calls in a response; and that a        *)
(* cancellation is heard (AgentCancel), for any set of tools and any       *)
(* number of runs, requests and cancellations.                             *)
(***************************************************************************)
EXTENDS AgentEntry, ToolAdmission, AgentCancel, TLAPS

(* AgentEntry.                                                             *)

\* A sequence of events without a gap, and one that reaches up to the event n.
Unbroken(s) == \A i \in 1..(Len(s) - 1) : s[i + 1] = s[i] + 1
Reaches(s, n) == IF n = 0 THEN s = <<>> ELSE s # <<>> /\ s[Len(s)] = n

\* The event that was sent last: the core may be about to send another.
Sent == IF taskAt = "recording" THEN emitted - 1 ELSE emitted

TaskPlaces == {"core", "recording", "writing", "published", "notifying", "closing", "done"}
ObserverPlaces == {"idle", "replayed", "locked", "reading", "gone"}

EntryTypes ==
    /\ history \in Seq(Nat) /\ emitted \in Nat /\ stream \in [Observer -> Seq(Nat)]
    /\ observerAt \in [Observer -> ObserverPlaces] /\ taskAt \in TaskPlaces
    /\ ended \in BOOLEAN /\ collected \in BOOLEAN

\* The end is published before the streams are closed, and what is collected has ended.
EntryOrder ==
    /\ ended <=> taskAt \in {"notifying", "closing", "done"}
    /\ collected => ended
    /\ collectorAt # "idle" => collected
    /\ taskAt = "recording" => historyLock = Task /\ emitted # 0
    /\ taskAt = "done" => subscribers = {}

\* The history is up to date until it is collected.
HistoryKept ==
    /\ Unbroken(history) /\ Len(history) <= HistoryLimit
    /\ collectorAt \in {"idle", "outcome", "history"} => Reaches(history, emitted)

\* Between its replay and its place in the list an observer keeps the history from
\* growing; in the list it gets all that is sent, and it is there while anything may be.
StreamKept(o) ==
    /\ Unbroken(stream[o])
    /\ observerAt[o] \in {"replayed", "locked"} => historyLock = o
    /\ observerAt[o] \in {"replayed", "locked"} /\ ~collected => stream[o] = history
    /\ o \in subscribers => observerAt[o] \in {"reading", "gone"} /\ Reaches(stream[o], Sent)
    /\ observerAt[o] = "reading" /\ ~collected => Reaches(stream[o], Sent)
    /\ observerAt[o] = "reading" /\ taskAt \in {"core", "recording"} => o \in subscribers

EntryInv == EntryTypes /\ EntryOrder /\ HistoryKept /\ \A o \in Observer : StreamKept(o)

LEMMA UnbrokenAppend ==
    ASSUME NEW s \in Seq(Nat), NEW n \in Nat, Unbroken(s), Reaches(s, n)
    PROVE  /\ Append(s, n + 1) \in Seq(Nat)
           /\ Unbroken(Append(s, n + 1)) /\ Reaches(Append(s, n + 1), n + 1)
<1> DEFINE t == Append(s, n + 1)
<1>1. /\ t \in Seq(Nat) /\ Len(t) = Len(s) + 1 /\ Len(s) \in Nat
      /\ t[Len(s) + 1] = n + 1 /\ t # <<>>
      /\ \A i \in 1..Len(s) : t[i] = s[i]
  OBVIOUS
<1> HIDE DEF t
<1>2. ASSUME NEW i \in 1..(Len(t) - 1) PROVE t[i + 1] = t[i] + 1
  <2>1. CASE i = Len(s)
    <3>1. s # <<>> /\ s[Len(s)] = n
      BY <1>1, <1>2, <2>1 DEF Reaches
    <3> QED
      BY <1>1, <1>2, <2>1, <3>1
  <2>2. CASE i # Len(s)
    <3>1. i \in 1..(Len(s) - 1) /\ i \in 1..Len(s) /\ i + 1 \in 1..Len(s)
      BY <1>1, <1>2, <2>2
    <3> QED
      BY <1>1, <3>1 DEF Unbroken
  <2> QED
    BY <2>1, <2>2
<1>3. Reaches(t, n + 1)
  BY <1>1 DEF Reaches
<1> QED
  BY <1>1, <1>2, <1>3 DEF t, Unbroken

\* A history that is full loses its oldest event.
LEMMA Remembered ==
    ASSUME NEW s \in Seq(Nat), NEW n \in Nat, Unbroken(s), Reaches(s, n),
           Len(s) <= HistoryLimit
    PROVE  LET t == Remember(s, n + 1)
           IN  /\ t \in Seq(Nat) /\ Unbroken(t) /\ Reaches(t, n + 1)
               /\ Len(t) <= HistoryLimit
<1>0. HistoryLimit \in Nat \ {0}
  BY EntryAssumption
<1>1. CASE Len(s) >= HistoryLimit
  <2> DEFINE u == Tail(s)
  <2>1. /\ s # <<>> /\ u \in Seq(Nat) /\ Len(u) = Len(s) - 1 /\ Len(s) \in Nat \ {0}
        /\ \A i \in 1..(Len(s) - 1) : u[i] = s[i + 1]
    <3>1. s # <<>>
      BY <1>0, <1>1
    <3> QED
      BY <3>1
  <2> HIDE DEF u
  <2>2. Unbroken(u)
    <3>1. ASSUME NEW i \in 1..(Len(u) - 1) PROVE u[i + 1] = u[i] + 1
      <4>1. /\ i \in 1..(Len(s) - 1) /\ i + 1 \in 1..(Len(s) - 1)
        <5>1. Len(u) = Len(s) - 1 /\ Len(s) \in Nat
          BY <2>1
        <5> QED
          BY <5>1
      <4>2. u[i] = s[i + 1] /\ u[i + 1] = s[(i + 1) + 1]
        BY <2>1, <4>1
      <4> QED
        BY <4>1, <4>2 DEF Unbroken
    <3> QED
      BY <3>1 DEF Unbroken
  <2>3. s[Len(s)] = n /\ n # 0
    BY <2>1 DEF Reaches
  <2>4. CASE u = <<>>
    <3>1. Append(u, n + 1) = <<n + 1>>
      BY <2>4
    <3> DEFINE t == Remember(s, n + 1)
    <3>2. t = <<n + 1>>
      BY <1>1, <3>1 DEF Remember, u
    <3> HIDE DEF t
    <3>3. t \in Seq(Nat) /\ Len(t) = 1 /\ t[1] = n + 1 /\ t # <<>>
      BY <3>2
    <3>4. Unbroken(t) /\ Reaches(t, n + 1)
      BY <3>3 DEF Unbroken, Reaches
    <3>5. Len(t) <= HistoryLimit
      BY <1>0, <3>3
    <3> QED
      BY <3>3, <3>4, <3>5 DEF t
  <2>5. CASE u # <<>>
    <3>0. Len(u) # 0
      BY <2>1, <2>5
    <3>1. Len(u) \in 1..(Len(s) - 1) /\ u[Len(u)] = n
      <4>1. Len(s) - 1 \in 1..(Len(s) - 1) /\ (Len(s) - 1) + 1 = Len(s)
        BY <2>1, <3>0
      <4> QED
        BY <2>1, <2>3, <4>1
    <3>2. Reaches(u, n)
      BY <2>3, <2>5, <3>1 DEF Reaches
    <3>3. /\ Append(u, n + 1) \in Seq(Nat) /\ Unbroken(Append(u, n + 1))
          /\ Reaches(Append(u, n + 1), n + 1) /\ Len(Append(u, n + 1)) = Len(s)
      BY <2>1, <2>2, <3>2, UnbrokenAppend
    <3> QED
      BY <1>1, <3>3 DEF Remember, u
  <2> QED
    BY <2>4, <2>5
<1>2. CASE Len(s) < HistoryLimit
  <2>1. Len(Append(s, n + 1)) = Len(s) + 1
    OBVIOUS
  <2> QED
    BY <1>0, <1>2, <2>1, UnbrokenAppend DEF Remember
<1> QED
  BY <1>0, <1>1, <1>2

LEMMA EntryInit == Init => EntryInv
<1> SUFFICES ASSUME Init PROVE EntryInv
  OBVIOUS
<1>1. EntryTypes
  <2>1. history \in Seq(Nat) /\ stream \in [Observer -> Seq(Nat)]
    BY DEF Init
  <2>2. observerAt \in [Observer -> ObserverPlaces]
    BY DEF Init, ObserverPlaces
  <2> QED
    BY <2>1, <2>2 DEF Init, EntryTypes, TaskPlaces
<1>2. EntryOrder
  BY DEF Init, EntryOrder
<1>3. HistoryKept
  BY EntryAssumption DEF Init, HistoryKept, Unbroken, Reaches
<1>4. \A o \in Observer : StreamKept(o)
  BY DEF Init, StreamKept, Unbroken
<1> QED
  BY <1>1, <1>2, <1>3, <1>4 DEF EntryInv

LEMMA RecordHistoryKept == ASSUME EntryInv, RecordHistory PROVE EntryInv'
<1>1. /\ taskAt = "core" /\ taskAt' = "recording" /\ emitted' = emitted + 1
      /\ historyLock = Nobody /\ historyLock' = Task
      /\ history' = Remember(history, emitted + 1)
      /\ UNCHANGED <<ended, collected, subscribers, stream, collectorAt, observerAt>>
  BY DEF RecordHistory
<1>2. EntryTypes /\ EntryOrder /\ HistoryKept
  BY DEF EntryInv
<1>3. collectorAt = "idle" /\ ~collected
  BY <1>1, <1>2 DEF EntryOrder, EntryTypes
<1>4. /\ history' \in Seq(Nat) /\ Unbroken(history') /\ Reaches(history', emitted')
      /\ Len(history') <= HistoryLimit
  BY <1>1, <1>2, <1>3, Remembered DEF EntryTypes, HistoryKept
<1>5. Sent' = Sent /\ emitted' # 0
  <2>1. emitted \in Nat
    BY <1>2 DEF EntryTypes
  <2> QED
    BY <1>1, <2>1 DEF Sent
<1>6. ASSUME NEW o \in Observer PROVE StreamKept(o)'
  <2>1. observerAt[o] \notin {"replayed", "locked"}
    BY <1>1, EntryAssumption DEF EntryInv, StreamKept
  <2> QED
    BY <1>1, <1>5, <2>1 DEF EntryInv, StreamKept
<1>7. EntryTypes'
  BY <1>1, <1>2, <1>4 DEF EntryTypes, TaskPlaces
<1>8. EntryOrder'
  BY <1>1, <1>2, <1>3, <1>5 DEF EntryOrder, EntryTypes
<1>9. HistoryKept'
  BY <1>4 DEF HistoryKept
<1> QED
  BY <1>6, <1>7, <1>8, <1>9 DEF EntryInv

LEMMA RecordSendKept == ASSUME EntryInv, RecordSend PROVE EntryInv'
<1>1. /\ taskAt = "recording" /\ taskAt' = "core"
      /\ subscribers' = {o \in subscribers : observerAt[o] # "gone"}
      /\ stream' = [o \in Observer |-> IF o \in subscribers' THEN Append(stream[o], emitted)
                                       ELSE stream[o]]
      /\ UNCHANGED <<ended, collected, history, emitted, collectorAt, observerAt>>
  BY DEF RecordSend
<1>2. EntryTypes /\ EntryOrder /\ HistoryKept
  BY DEF EntryInv
<1>3. /\ historyLock = Task /\ emitted \in Nat \ {0} /\ Sent = emitted - 1
      /\ emitted - 1 \in Nat /\ Sent' = emitted /\ (emitted - 1) + 1 = emitted
  BY <1>1, <1>2 DEF EntryTypes, EntryOrder, Sent
<1>4. ASSUME NEW o \in Observer PROVE stream'[o] \in Seq(Nat) /\ StreamKept(o)'
  <2>1. observerAt[o] \notin {"replayed", "locked"}
    BY <1>3, EntryAssumption DEF EntryInv, StreamKept
  <2>2. observerAt[o] = "reading" => o \in subscribers'
    BY <1>1 DEF EntryInv, StreamKept
  <2>3. CASE o \in subscribers'
    <3>0. observerAt'[o] = "reading" /\ taskAt' = "core"
      BY <1>1, <2>3 DEF EntryInv, StreamKept
    <3>1. stream'[o] = Append(stream[o], emitted)
      BY <1>1, <2>3
    <3>2. stream[o] \in Seq(Nat) /\ Unbroken(stream[o]) /\ Reaches(stream[o], emitted - 1)
      BY <1>1, <1>2, <1>3, <2>3 DEF EntryTypes, EntryInv, StreamKept
    <3>3. /\ stream'[o] \in Seq(Nat) /\ Unbroken(stream'[o])
          /\ Reaches(stream'[o], emitted)
      BY <1>3, <3>1, <3>2, UnbrokenAppend
    <3> QED
      BY <1>3, <2>3, <3>0, <3>3 DEF StreamKept
  <2>4. CASE o \notin subscribers'
    <3>1. stream'[o] = stream[o]
      BY <1>1, <2>4
    <3>2. stream[o] \in Seq(Nat) /\ Unbroken(stream[o])
      BY <1>2 DEF EntryTypes, EntryInv, StreamKept
    <3> QED
      BY <1>1, <2>1, <2>2, <2>4, <3>1, <3>2 DEF StreamKept
  <2> QED
    BY <2>3, <2>4
<1>5. stream' \in [Observer -> Seq(Nat)]
  BY <1>1, <1>4
<1>6. EntryTypes' /\ EntryOrder' /\ HistoryKept'
  BY <1>1, <1>2, <1>5 DEF EntryTypes, EntryOrder, HistoryKept, TaskPlaces
<1> QED
  BY <1>4, <1>6 DEF EntryInv

\* The supervision task publishes the end, and then closes the streams; nothing is sent
\* from then on.
LEMMA FinishKept == ASSUME EntryInv, Finish PROVE EntryInv'
<1>1. /\ \/ taskAt = "core" /\ taskAt' = "writing" /\ UNCHANGED <<ended, subscribers>>
         \/ taskAt = "writing" /\ taskAt' = "published" /\ UNCHANGED <<ended, subscribers>>
         \/ taskAt = "published" /\ taskAt' = "notifying" /\ ended' = TRUE
            /\ UNCHANGED subscribers
         \/ taskAt = "notifying" /\ taskAt' = "closing" /\ UNCHANGED <<ended, subscribers>>
         \/ taskAt = "closing" /\ taskAt' = "done" /\ subscribers' = {} /\ UNCHANGED ended
      /\ UNCHANGED <<collected, history, emitted, stream, historyLock, collectorAt,
                     observerAt>>
  BY DEF Finish, FinishLock, FinishOutcome, FinishStatus, FinishNotify, FinishClose, events,
         locks
<1>2. EntryTypes /\ EntryOrder /\ HistoryKept
  BY DEF EntryInv
<1>3. EntryTypes'
  BY <1>1, <1>2 DEF EntryTypes, TaskPlaces
<1>4. HistoryKept' /\ EntryOrder'
  <2>1. HistoryKept'
    BY <1>1, <1>2 DEF HistoryKept
  <2>2. ~ended => ~collected /\ collectorAt = "idle"
    BY <1>2 DEF EntryOrder
  <2>3. ended' <=> taskAt' \in {"notifying", "closing", "done"}
    BY <1>1, <1>2 DEF EntryOrder
  <2>4. collected' => ended'
    BY <1>1, <1>2 DEF EntryOrder
  <2>5. taskAt' # "recording" /\ (taskAt' = "done" => subscribers' = {})
    BY <1>1
  <2> QED
    BY <1>1, <1>2, <2>1, <2>3, <2>4, <2>5 DEF EntryOrder
<1>5. Sent' = Sent
  BY <1>1 DEF Sent
<1>6. \A o \in Observer : StreamKept(o)'
  BY <1>1, <1>5 DEF EntryInv, StreamKept
<1> QED
  BY <1>3, <1>4, <1>6 DEF EntryInv

\* A new observer joins under the lock of the history, unless the end is published.
LEMMA SubscribeKept ==
    ASSUME EntryInv, NEW o \in Observer, Subscribe(o) \/ DropStream(o)
    PROVE  EntryInv'
<1>1. EntryTypes /\ EntryOrder /\ HistoryKept /\ StreamKept(o)
  BY DEF EntryInv
<1>2. /\ UNCHANGED <<ended, collected, history, emitted, taskAt, collectorAt>>
      /\ Sent' = Sent
  BY DEF Subscribe, SubscribeReplay, SubscribeLock, SubscribeJoin, DropStream, Sent, events
<1>3. HistoryKept'
  BY <1>1, <1>2 DEF HistoryKept
<1>4. CASE SubscribeReplay(o)
  <2>1. /\ observerAt[o] = "idle" /\ historyLock = Nobody /\ historyLock' = o
        /\ stream' = [stream EXCEPT ![o] = history]
        /\ observerAt' = [observerAt EXCEPT ![o] = "replayed"]
        /\ subscribers' = subscribers
    BY <1>4 DEF SubscribeReplay
  <2>2. EntryTypes'
    BY <1>1, <1>2, <2>1 DEF EntryTypes, ObserverPlaces
  <2>3. EntryOrder'
    BY <1>1, <1>2, <2>1, EntryAssumption DEF EntryOrder
  <2>4. ASSUME NEW q \in Observer, q # o PROVE StreamKept(q)'
    <3>1. observerAt[q] \notin {"replayed", "locked"}
      BY <2>1, EntryAssumption DEF EntryInv, StreamKept
    <3>2. stream'[q] = stream[q] /\ observerAt'[q] = observerAt[q]
      BY <1>1, <2>1, <2>4 DEF EntryTypes
    <3> QED
      BY <1>2, <2>1, <3>1, <3>2 DEF EntryInv, StreamKept
  <2>5. StreamKept(o)'
    <3>1. stream'[o] = history /\ observerAt'[o] = "replayed"
      BY <1>1, <2>1 DEF EntryTypes
    <3>2. o \notin subscribers
      BY <1>1, <2>1 DEF StreamKept
    <3> QED
      BY <1>1, <1>2, <2>1, <3>1, <3>2 DEF StreamKept, HistoryKept
  <2> QED
    BY <1>3, <2>2, <2>3, <2>4, <2>5 DEF EntryInv
<1>5. CASE SubscribeLock(o)
  <2>1. /\ observerAt[o] = "replayed" /\ observerAt' = [observerAt EXCEPT ![o] = "locked"]
        /\ UNCHANGED <<subscribers, stream, historyLock>>
    BY <1>5 DEF SubscribeLock, events
  <2>2. EntryTypes' /\ EntryOrder'
    BY <1>1, <1>2, <2>1 DEF EntryTypes, EntryOrder, ObserverPlaces
  <2>3. ASSUME NEW q \in Observer PROVE StreamKept(q)'
    <3>1. observerAt'[q] = IF q = o THEN "locked" ELSE observerAt[q]
      BY <1>1, <2>1 DEF EntryTypes
    <3> QED
      BY <1>2, <2>1, <3>1 DEF EntryInv, StreamKept
  <2> QED
    BY <1>3, <2>2, <2>3 DEF EntryInv
<1>6. CASE SubscribeJoin(o)
  <2>1. /\ observerAt[o] = "locked" /\ observerAt' = [observerAt EXCEPT ![o] = "reading"]
        /\ subscribers' = IF ended THEN subscribers ELSE subscribers \cup {o}
        /\ historyLock' = Nobody /\ UNCHANGED stream
    BY <1>6 DEF SubscribeJoin
  <2>2. historyLock = o /\ taskAt # "recording" /\ Sent = emitted
    BY <1>1, <2>1, EntryAssumption DEF StreamKept, EntryOrder, Sent
  <2>3. EntryTypes' /\ EntryOrder'
    BY <1>1, <1>2, <2>1, <2>2 DEF EntryTypes, EntryOrder, ObserverPlaces
  <2>4. ~collected => Reaches(stream[o], Sent)
    BY <1>1, <2>1, <2>2 DEF StreamKept, HistoryKept, EntryOrder
  <2>5. ASSUME NEW q \in Observer, q # o PROVE StreamKept(q)'
    <3>1. observerAt'[q] = observerAt[q] /\ observerAt[q] \notin {"replayed", "locked"}
      BY <1>1, <2>1, <2>2, <2>5 DEF EntryTypes, EntryInv, StreamKept
    <3>2. q \in subscribers' <=> q \in subscribers
      BY <2>1, <2>5
    <3> QED
      BY <1>2, <2>1, <3>1, <3>2 DEF EntryInv, StreamKept
  <2>6. StreamKept(o)'
    <3>1. observerAt'[o] = "reading"
      BY <1>1, <2>1 DEF EntryTypes
    <3>2. ended => taskAt \notin {"core", "recording"}
      BY <1>1 DEF EntryOrder
    <3>3. ~ended => ~collected /\ o \in subscribers'
      BY <1>1, <2>1 DEF EntryOrder
    <3>4. ended => subscribers' = subscribers
      BY <2>1
    <3> QED
      BY <1>1, <1>2, <2>1, <2>4, <3>1, <3>2, <3>3, <3>4 DEF StreamKept, EntryTypes
  <2> QED
    BY <1>3, <2>3, <2>5, <2>6 DEF EntryInv
<1>7. CASE DropStream(o)
  <2>1. /\ observerAt[o] = "reading" /\ observerAt' = [observerAt EXCEPT ![o] = "gone"]
        /\ UNCHANGED <<subscribers, stream, historyLock>>
    BY <1>7 DEF DropStream, events, locks
  <2>2. EntryTypes' /\ EntryOrder'
    BY <1>1, <1>2, <2>1 DEF EntryTypes, EntryOrder, ObserverPlaces
  <2>3. ASSUME NEW q \in Observer PROVE StreamKept(q)'
    <3>1. observerAt'[q] = IF q = o THEN "gone" ELSE observerAt[q]
      BY <1>1, <2>1 DEF EntryTypes
    <3> QED
      BY <1>2, <2>1, <3>1 DEF EntryInv, StreamKept
  <2> QED
    BY <1>3, <2>2, <2>3 DEF EntryInv
<1> QED
  BY <1>4, <1>5, <1>6, <1>7 DEF Subscribe

\* Only what has ended is collected, when nothing more is sent.
LEMMA CollectKept == ASSUME EntryInv, CollectMark \/ Release PROVE EntryInv'
<1>1. EntryTypes /\ EntryOrder /\ HistoryKept
  BY DEF EntryInv
<1>2. /\ UNCHANGED <<ended, emitted, stream, historyLock, taskAt, observerAt>>
      /\ Sent' = Sent
  BY DEF CollectMark, Release, CollectOutcome, CollectHistory, CollectClose, Sent, events,
         locks
<1>3. \/ /\ ended /\ collected' = TRUE /\ collectorAt = "idle" /\ collectorAt' = "outcome"
         /\ UNCHANGED <<history, subscribers>>
      \/ /\ collectorAt = "outcome" /\ collectorAt' = "history"
         /\ UNCHANGED <<collected, history, subscribers>>
      \/ /\ collectorAt = "history" /\ collectorAt' = "subscribers" /\ history' = <<>>
         /\ UNCHANGED <<collected, subscribers>>
      \/ /\ collectorAt = "subscribers" /\ collectorAt' = "done" /\ subscribers' = {}
         /\ UNCHANGED <<collected, history>>
  BY DEF CollectMark, Release, CollectOutcome, CollectHistory, CollectClose, events
<1>4. EntryTypes' /\ EntryOrder'
  <2>0. collected' \in BOOLEAN
    BY <1>1, <1>3 DEF EntryTypes
  <2>1. history' \in Seq(Nat)
    <3>1. history \in Seq(Nat) /\ <<>> \in Seq(Nat)
      BY <1>1 DEF EntryTypes
    <3>2. history' = history \/ history' = <<>>
      BY <1>3
    <3> QED
      BY <3>1, <3>2
  <2>2. collected' => ended'
    BY <1>1, <1>2, <1>3 DEF EntryOrder
  <2>3. collectorAt' # "idle" => collected'
    BY <1>1, <1>2, <1>3 DEF EntryOrder
  <2>4. taskAt = "done" => subscribers' = {}
    BY <1>1, <1>3 DEF EntryOrder
  <2>5. EntryTypes'
    BY <1>1, <1>2, <2>0, <2>1 DEF EntryTypes
  <2> QED
    BY <1>1, <1>2, <2>2, <2>3, <2>4, <2>5 DEF EntryOrder
<1>5. HistoryKept'
  BY <1>1, <1>2, <1>3, EntryAssumption DEF HistoryKept, Unbroken
<1>6. ASSUME NEW o \in Observer PROVE StreamKept(o)'
  <2>1. taskAt \notin {"core", "recording"}
    BY <1>1, <1>3 DEF EntryOrder
  <2>2. ~collected' => ~collected /\ history' = history
    BY <1>1, <1>3 DEF EntryOrder
  <2>3. subscribers' \subseteq subscribers
    BY <1>3
  <2> QED
    BY <1>2, <2>1, <2>2, <2>3 DEF EntryInv, StreamKept
<1> QED
  BY <1>4, <1>5, <1>6 DEF EntryInv

LEMMA EntryStep == ASSUME EntryInv, [Next]_vars PROVE EntryInv'
<1>1. ASSUME UNCHANGED <<ended, collected, events, locks, taskAt, collectorAt, observerAt>>
      PROVE  EntryInv'
  <2>1. Sent' = Sent /\ EntryTypes' /\ EntryOrder' /\ HistoryKept'
    BY <1>1 DEF EntryInv, EntryTypes, EntryOrder, HistoryKept, Sent, events, locks
  <2>2. \A o \in Observer : StreamKept(o)'
    BY <1>1, <2>1 DEF EntryInv, StreamKept, events, locks
  <2> QED
    BY <2>1, <2>2 DEF EntryInv
<1>2. CASE UNCHANGED vars
  BY <1>1, <1>2 DEF vars
<1>3. ASSUME NEW w \in Waiter, WaitBegin(w) \/ Wait(w) PROVE EntryInv'
  BY <1>1, <1>3 DEF WaitBegin, Wait, WaitCheck, WaitArm, WaitLook, WaitWake
<1> QED
  BY <1>2, <1>3, RecordHistoryKept, RecordSendKept, FinishKept, SubscribeKept, CollectKept
  DEF Next

\* What an observer reads has no gap from the replay to the last event, and no stream is
\* left open, for any number of observers, waiters and events.
THEOREM StreamsCorrect == Spec => []StreamsWhole
<1>1. EntryInv => StreamsWhole
  BY DEF EntryInv, EntryTypes, EntryOrder, HistoryKept, StreamKept, StreamsWhole,
         StreamsUnbroken, NoStreamLeftOpen, Unbroken, Reaches, Sent
<1>2. Init => EntryInv
  BY EntryInit
<1>3. EntryInv /\ [Next]_vars => EntryInv'
  BY EntryStep
<1> QED
  BY <1>1, <1>2, <1>3, PTL DEF Spec


------------------------------------------------------------------------------
(* ToolAdmission.                                                          *)

(* An agent may use no more than those above it; those never change. *)
AncestorsWider ==
    \A a \in Agent : There(a) => \A b \in above[a] :
        There(b) /\ \A t \in Tool : Permits(access[a], t) => Permits(access[b], t)
AccessOK ==
    /\ access \in [Agent -> Access \cup {NoAccess}]
    /\ above \in [Agent -> SUBSET Agent]
    /\ AncestorsWider

(* The results of the turn are where they belong, and what is admitted or runs *)
(* has passed the gates.                                                       *)
TurnOK ==
    /\ turn = [agent |-> turn.agent, calls |-> turn.calls, state |-> turn.state,
               tool |-> turn.tool, from |-> turn.from, upto |-> turn.upto]
    /\ DOMAIN turn.tool = DOMAIN turn.state
    /\ InTurn => turn.agent \in Agent /\ There(turn.agent)
    /\ \A i \in DOMAIN turn.state :
          /\ InTurn
          /\ turn.state[i] \in States
          /\ turn.state[i] \in {Ready, Running} => PolicyPermits(turn.tool[i])
          /\ turn.state[i] = Running => Permits(access[turn.agent], turn.tool[i])

(* What precedes the batch has its result, what follows it has not been looked *)
(* at, and a batch of several calls holds only reads.                          *)
BatchOK ==
    /\ turn.from \in Nat /\ turn.upto \in Nat
    /\ Last \in Nat /\ DOMAIN turn.state = 1..Last
    /\ \A i \in DOMAIN turn.state :
          /\ i < turn.from => turn.state[i] \in Settled
          /\ i >= turn.from /\ i > turn.upto => turn.state[i] = Waiting
    /\ \A i, j \in turn.from..turn.upto :
          i # j => turn.calls[i] \in Read /\ turn.calls[j] \in Read

TInv == Distinct /\ AccessOK /\ TurnOK /\ BatchOK

(* ToolAccess::restrict never widens: what is left was there. *)
LEMMA RestrictNarrows ==
    ASSUME Distinct, NEW scope \in Access, NEW requested \in Access, NEW t,
           Permits(Restrict(scope, requested), t)
    PROVE  Permits(scope, t)
  BY DEF Distinct, Permits, Restrict, Access

LEMMA RestrictIsAccess ==
    ASSUME NEW scope \in Access, NEW requested \in Access
    PROVE  Restrict(scope, requested) \in Access
  BY DEF Restrict, Access

LEMMA InitTInv == Distinct /\ AdmissionInit => TInv
  <1> SUFFICES ASSUME Distinct, AdmissionInit PROVE TInv
    OBVIOUS
  <1>1. AccessOK
    BY DEF Distinct, AdmissionInit, AccessOK, AncestorsWider, There, Access
  <1>2. turn = Idle /\ DOMAIN turn.state = {} /\ DOMAIN turn.tool = {}
    BY DEF AdmissionInit, Idle
  <1>3. TurnOK
    BY <1>2 DEF TurnOK, Idle, InTurn
  <1>4. BatchOK
    BY <1>2 DEF BatchOK, Idle, Last
  <1> QED BY <1>1, <1>3, <1>4 DEF TInv

(* A new agent below one there is, with at most its access. *)
LEMMA NewAgent ==
    ASSUME TInv, NEW parent \in Agent, NEW child \in Agent, NEW scope \in Access,
           There(parent), ~There(child),
           \A t \in Tool : Permits(scope, t) => Permits(access[parent], t),
           access' = [access EXCEPT ![child] = scope],
           above' = [above EXCEPT ![child] = above[parent] \cup {parent}],
           UNCHANGED <<policy, turn, cancelled>>
    PROVE  TInv'
  <1> USE DEF TInv, AccessOK
  <1>1. scope # NoAccess
    BY DEF Distinct, Access
  <1>2. \A a \in Agent : There(a) => There(a)' /\ access'[a] = access[a] /\ above'[a] = above[a]
    BY DEF There
  <1>3. AncestorsWider'
    <2> SUFFICES ASSUME NEW a \in Agent, There(a)', NEW b \in above'[a]
                 PROVE  There(b)' /\ \A t \in Tool : Permits(access'[a], t) => Permits(access'[b], t)
      BY DEF AncestorsWider, There, Permits
    <2>1. CASE a = child
      <3>1. b \in above[parent] \cup {parent} /\ access'[a] = scope
        BY <2>1
      <3>2. There(b) /\ b \in Agent /\ \A t \in Tool : Permits(scope, t) => Permits(access[b], t)
        BY <3>1 DEF AncestorsWider
      <3> QED BY <3>1, <3>2, <1>2
    <2>2. CASE a # child
      <3>1. There(a) /\ b \in above[a] /\ access'[a] = access[a]
        BY <2>2 DEF There
      <3>2. There(b) /\ b \in Agent /\ \A t \in Tool : Permits(access[a], t) => Permits(access[b], t)
        BY <3>1 DEF AncestorsWider
      <3> QED BY <3>1, <3>2, <1>2
    <2> QED BY <2>1, <2>2
  <1>4. AccessOK'
    BY <1>3
  <1>5. TurnOK'
    BY <1>2 DEF TurnOK, InTurn, PolicyPermits, Permits
  <1>6. BatchOK'
    BY DEF BatchOK, Last
  <1> QED BY <1>4, <1>5, <1>6

(* The steps that leave the agents and their access alone. *)
LEMMA AccessStays ==
    ASSUME TInv, UNCHANGED <<access, above>>
    PROVE  AccessOK'
  BY DEF TInv, AccessOK, AncestorsWider, There, Permits

(* A call of the batch that was waiting is denied, interrupted or admitted. *)
LEMMA CallLookedAt ==
    ASSUME TInv, NEW i, Admits(i), NEW s \in {Ready} \cup Settled, NEW t, Becomes(i, s, t),
           s = Ready => PolicyPermits(t), UNCHANGED <<access, above, policy>>
    PROVE  TInv'
  <1> USE DEF TInv
  <1>1. AccessOK'
    BY AccessStays
  <1>2. turn' = [turn EXCEPT !.state = [turn.state EXCEPT ![i] = s], !.tool = [turn.tool EXCEPT ![i] = t]]
    BY DEF Becomes
  <1>3. /\ turn'.agent = turn.agent /\ turn'.calls = turn.calls
        /\ turn'.from = turn.from /\ turn'.upto = turn.upto
        /\ turn'.state = [turn.state EXCEPT ![i] = s] /\ turn'.tool = [turn.tool EXCEPT ![i] = t]
        /\ turn' = [agent |-> turn'.agent, calls |-> turn'.calls, state |-> turn'.state,
                    tool |-> turn'.tool, from |-> turn'.from, upto |-> turn'.upto]
    BY <1>2 DEF TurnOK
  <1>4. TurnOK'
    BY <1>3 DEF TurnOK, InTurn, There, PolicyPermits, Permits, Ready, Running, Waiting, States, Settled
  <1>5. BatchOK'
    BY <1>3 DEF BatchOK, Admits, InBatch, Last
  <1> QED BY <1>1, <1>4, <1>5

(* Agents come with a part of an access, calls run behind both gates, and the  *)
(* batches go forward: every step keeps that.                                  *)
LEMMA StepTInv == TInv /\ [AdmissionNext]_admissionVars => TInv'
  <1> SUFFICES ASSUME TInv, [AdmissionNext]_admissionVars PROVE TInv'
    OBVIOUS
  <1> USE DEF TInv
  <1>1. ASSUME NEW a \in Agent, NEW b \in Agent, Continue(a, b) PROVE TInv'
    BY <1>1, NewAgent DEF Continue, AccessOK, There
  <1>2. ASSUME NEW a \in Agent, NEW b \in Agent, NEW scope \in Access, Spawn(a, b, scope) PROVE TInv'
    <2>1. access[a] \in Access
      BY <1>2 DEF Spawn, AccessOK, There
    <2> QED BY <1>2, <2>1, NewAgent, RestrictNarrows, RestrictIsAccess DEF Spawn
  <1>3. ASSUME NEW a \in Agent, NEW calls \in Responses, Respond(a, calls) PROVE TInv'
    <2>1. AccessOK'
      BY <1>3, AccessStays DEF Respond
    <2>2. Len(calls) \in Nat /\ DOMAIN calls = 1..Len(calls)
      <3>1. PICK n \in 1..MaxCalls : calls \in [1..n -> Tool]
        BY DEF Responses
      <3>2. n \in Nat /\ DOMAIN calls = 1..n
        BY <3>1 DEF Distinct
      <3> QED BY <3>1, <3>2
    <2>3. /\ turn' = [agent |-> a, calls |-> calls, state |-> [i \in DOMAIN calls |-> Waiting],
                      tool |-> calls, from |-> 1, upto |-> 0]
          /\ There(a) /\ UNCHANGED <<access, policy>> /\ a # NoAgent
      BY <1>3 DEF Respond, Distinct
    <2>4. TurnOK'
      BY <2>3 DEF TurnOK, InTurn, There, States, Waiting, Ready, Running
    <2>5. BatchOK'
      BY <2>2, <2>3 DEF BatchOK, Last
    <2> QED BY <2>1, <2>4, <2>5
  <1>4. CASE TakeBatch
    <2>1. AccessOK'
      BY <1>4, AccessStays DEF TakeBatch
    <2>2. PICK e \in turn.from..Last : EndsBatch(e) /\ turn' = [turn EXCEPT !.upto = e]
      BY <1>4 DEF TakeBatch
    <2>3. TurnOK'
      BY <1>4, <2>2 DEF TurnOK, TakeBatch, InTurn, There, PolicyPermits, Permits
    <2>4. turn.from \in Nat /\ e \in Nat /\ turn.upto < turn.from
      BY <1>4, <2>2 DEF BatchOK, TakeBatch
    <2>5. \A i, j \in turn.from..e : i # j => turn.calls[i] \in Read /\ turn.calls[j] \in Read
      BY <2>2, <2>4 DEF EndsBatch, ReadOnly
    <2>6. BatchOK'
      BY <2>2, <2>4, <2>5 DEF BatchOK, TurnOK, Last
    <2> QED BY <2>1, <2>3, <2>6
  <1>5. CASE SkipRest \/ Steered
    <2>1. AccessOK' /\ UNCHANGED <<access, policy>>
      BY <1>5, AccessStays DEF SkipRest, Steered
    <2>2. turn' = [turn EXCEPT !.from = Last + 1,
                     !.state = [i \in DOMAIN turn.state |-> IF i >= turn.from THEN "skipped" ELSE turn.state[i]]]
      BY <1>5 DEF SkipRest, Steered, Skip
    <2>3. TurnOK'
      <3>1. /\ turn'.agent = turn.agent /\ turn'.tool = turn.tool /\ turn'.calls = turn.calls
            /\ turn'.from = Last + 1 /\ turn'.upto = turn.upto
            /\ turn'.state = [i \in DOMAIN turn.state |-> IF i >= turn.from THEN "skipped" ELSE turn.state[i]]
        BY <2>2 DEF TurnOK
      <3>2. turn' = [agent |-> turn'.agent, calls |-> turn'.calls, state |-> turn'.state,
                     tool |-> turn'.tool, from |-> turn'.from, upto |-> turn'.upto]
        BY <2>2 DEF TurnOK
      <3>3. UNCHANGED <<access, policy>> /\ (InTurn' <=> InTurn)
        BY <2>1, <3>1 DEF InTurn
      <3>4. \A i \in DOMAIN turn'.state :
               turn'.state[i] = "skipped" \/ turn'.state[i] = turn.state[i]
        BY <3>1
      <3>5. DOMAIN turn'.state = DOMAIN turn.state
        BY <3>1
      <3> QED
        BY <3>1, <3>2, <3>3, <3>4, <3>5
        DEF TurnOK, There, PolicyPermits, Permits, States, Settled, Ready, Running
    <2>4. BatchOK'
      <3>1. turn.upto < turn.from /\ turn.from <= Last
        BY <1>5 DEF SkipRest, Steered
      <3>2. /\ turn'.from = Last + 1 /\ turn'.upto = turn.upto /\ turn'.calls = turn.calls
            /\ turn'.state = [i \in DOMAIN turn.state |-> IF i >= turn.from THEN "skipped" ELSE turn.state[i]]
        BY <2>2 DEF TurnOK
      <3> QED BY <3>1, <3>2 DEF BatchOK, Last, Settled
    <2> QED BY <2>1, <2>3, <2>4
  <1>6. ASSUME NEW i \in 1..MaxCalls, DeniedByPolicy(i) PROVE TInv'
    BY <1>6, CallLookedAt DEF DeniedByPolicy, Settled, Ready
  <1>7. ASSUME NEW i \in 1..MaxCalls, Interrupted(i) PROVE TInv'
    BY <1>7, CallLookedAt DEF Interrupted, Settled, Ready
  <1>8. ASSUME NEW i \in 1..MaxCalls, NEW run \in BOOLEAN, Refused(i, run) PROVE TInv'
    BY <1>8, CallLookedAt DEF Refused, Settled, Ready
  <1>9. ASSUME NEW i \in 1..MaxCalls, NEW t \in Tool, NEW u \in Tool, Agreed(i, t, u) PROVE TInv'
    BY <1>9, CallLookedAt DEF Agreed, Admitted, Settled, Ready
  <1>10. CASE Launch
    <2>1. AccessOK' /\ UNCHANGED <<access, policy>>
      BY <1>10, AccessStays DEF Launch
    <2>2. turn' = [turn EXCEPT !.state = [i \in DOMAIN turn.state |->
                     IF turn.state[i] # Ready THEN turn.state[i]
                     ELSE IF Known(turn.tool[i]) THEN Running ELSE "unknown"]]
      BY <1>10 DEF Launch
    <2>3. TurnOK'
      BY <2>1, <2>2 DEF TurnOK, InTurn, There, PolicyPermits, Permits, Known, States, Settled, Ready, Running
    <2>4. BatchOK'
      BY <2>2 DEF BatchOK, TurnOK, Settled, Ready, Waiting, Last
    <2> QED BY <2>1, <2>3, <2>4
  <1>11. ASSUME NEW i \in 1..MaxCalls, Returns(i) PROVE TInv'
    <2>1. AccessOK' /\ UNCHANGED <<access, policy>>
      BY <1>11, AccessStays DEF Returns
    <2>2. turn' = [turn EXCEPT !.state = [turn.state EXCEPT ![i] = "done"]] /\ i \in InBatch
      BY <1>11 DEF Returns
    <2>3. TurnOK'
      BY <2>1, <2>2 DEF TurnOK, InTurn, There, PolicyPermits, Permits, States, Settled, Ready, Running
    <2>4. BatchOK'
      BY <2>2 DEF BatchOK, TurnOK, InBatch, Last
    <2> QED BY <2>1, <2>3, <2>4
  <1>12. CASE Cancel
    <2>1. AccessOK' /\ UNCHANGED <<access, policy, turn>>
      BY <1>12, AccessStays DEF Cancel
    <2> QED BY <2>1 DEF TurnOK, BatchOK, InTurn, There, PolicyPermits, Permits, Last
  <1>13. CASE BatchDone
    <2>1. AccessOK' /\ UNCHANGED <<access, policy>>
      BY <1>13, AccessStays DEF BatchDone
    <2>2. turn' = [turn EXCEPT !.from = turn.upto + 1] /\ \A i \in InBatch : turn.state[i] \in Settled
      BY <1>13 DEF BatchDone
    <2>3. TurnOK'
      BY <2>1, <2>2 DEF TurnOK, InTurn, There, PolicyPermits, Permits
    <2>4. BatchOK'
      BY <1>13, <2>2 DEF BatchOK, TurnOK, InBatch, BatchDone, Last
    <2> QED BY <2>1, <2>3, <2>4
  <1>14. CASE EndTurn
    <2>1. AccessOK' /\ turn' = Idle
      BY <1>14, AccessStays DEF EndTurn
    <2>2. DOMAIN turn'.state = {} /\ DOMAIN turn'.tool = {}
      BY <2>1 DEF Idle
    <2>3. TurnOK'
      BY <2>1, <2>2 DEF TurnOK, Idle, InTurn
    <2>4. BatchOK'
      BY <2>1, <2>2 DEF BatchOK, Idle, Last
    <2> QED BY <2>1, <2>3, <2>4
  <1>15. CASE UNCHANGED admissionVars
    <2>1. AccessOK' /\ UNCHANGED <<access, policy, turn>>
      BY <1>15, AccessStays DEF admissionVars
    <2> QED BY <2>1 DEF TurnOK, BatchOK, InTurn, There, PolicyPermits, Permits, Last
  <1> QED
    BY <1>1, <1>2, <1>3, <1>4, <1>5, <1>6, <1>7, <1>8, <1>9, <1>10, <1>11, <1>12, <1>13, <1>14, <1>15 DEF AdmissionNext

(* The inductive invariant: scopes only narrow on the way down, both gates are *)
(* behind what runs, and batches of several calls hold only reads.             *)
THEOREM AdmissionInductive == Distinct /\ AdmissionSpec => []TInv
  BY InitTInv, StepTInv, PTL DEF AdmissionSpec

(* Whatever agents, tools and policy there are, no tool runs that the policy or *)
(* one of the agents above may not use (permissions.rs, admit_tool).            *)
THEOREM AccessCorrect == Distinct /\ AdmissionSpec => []NothingBeyondAncestors
  <1>1. TInv => NothingBeyondAncestors
    <2> SUFFICES ASSUME TInv, NEW i \in DOMAIN turn.state, turn.state[i] = Running,
                        NEW a \in {turn.agent} \cup above[turn.agent]
                 PROVE  PolicyPermits(turn.tool[i]) /\ Permits(access[a], turn.tool[i])
      BY DEF NothingBeyondAncestors, TInv, TurnOK
    <2>1. /\ PolicyPermits(turn.tool[i]) /\ Permits(access[turn.agent], turn.tool[i])
          /\ turn.agent \in Agent /\ There(turn.agent)
      BY DEF TInv, TurnOK
    <2>2. turn.tool[i] \in Tool
      BY <2>1 DEF TInv, AccessOK, There, Permits, Access
    <2> QED BY <2>1, <2>2 DEF TInv, AccessOK, AncestorsWider
  <1> QED BY <1>1, AdmissionInductive, PTL

(* However many calls a response has, one that is not a read is alone from its *)
(* admission to its result (read_only_batch_end, run_read_only_batch).         *)
THEOREM BatchesCorrect == Distinct /\ AdmissionSpec => []WritesAlone
  <1>1. TInv => WritesAlone
    <2> SUFFICES ASSUME TInv, NEW i \in DOMAIN turn.state, NEW j \in DOMAIN turn.state,
                        i < j, turn.state[j] # Waiting,
                        ~(turn.calls[i] \in Read /\ turn.calls[j] \in Read)
                 PROVE  ~Open(i) /\ turn.state[i] # Waiting
      BY DEF WritesAlone
    <2>1. j < turn.from \/ j <= turn.upto
      BY DEF TInv, BatchOK
    <2>2. i < turn.from
      BY <2>1 DEF TInv, BatchOK
    <2>3. turn.state[i] \in Settled
      BY <2>2 DEF TInv, BatchOK
    <2> QED BY <2>3 DEF Settled, Open, Ready, Running, Waiting
  <1> QED BY <1>1, AdmissionInductive, PTL

(* Both together, for every response and whatever the listeners make of it.    *)
THEOREM RoundsCorrect == Distinct /\ AdmissionSpec => []RoundsSound
  BY AccessCorrect, BatchesCorrect, PTL DEF RoundsSound

(* AgentCancel.  That a cancellation stands, and acts on no other run,     *)
(* needs a run that is polled before it can be cancelled (PolledFirst);    *)
(* that no wait sleeps through one needs nothing.                          *)

\* What makes the invariants inductive.  Until a run has its outcome its flag stands
\* exactly when it was asked to stop, and nobody can ask before it starts.
FlagIsTheRequest ==
    /\ phase \notin {"idle", "created", "ending"} => flag = asked
    /\ phase = "created" => ~asked
    /\ runOutcome = "cancelled" => asked

Counters == /\ runs \in 0..MaxRuns /\ requests \in 0..MaxRequests
            /\ cancels \in 0..MaxCancels

LEMMA CancelInvInit == CancelInit => CancelTypeOK /\ FlagIsTheRequest
<1> SUFFICES ASSUME CancelInit PROVE CancelTypeOK /\ FlagIsTheRequest
  OBVIOUS
<1>1. Counters
  BY CancelAssumption DEF CancelInit, Counters
<1>2. CallsWithinPhase
  BY DEF CancelInit, CallsWithinPhase
<1>3. toolAt \in [Call -> CallStates]
  BY DEF CancelInit, CallStates
<1> QED
  BY <1>1, <1>2, <1>3 DEF CancelInit, CancelTypeOK, FlagIsTheRequest, Counters, Phases

\* The steps that count stay within the bounds of the model.
LEMMA CountersStep ==
    ASSUME CancelTypeOK, NEW t,
           Create \/ CancelStore \/ WaitOver \/ AdmitCancelsRun(t)
    PROVE  Counters'
<1>1. CASE Create
  BY <1>1, CancelAssumption DEF Create, CancelTypeOK, Counters
<1>2. CASE CancelStore
  BY <1>2, CancelAssumption DEF CancelStore, CancelTypeOK, Counters
<1>3. CASE WaitOver
  BY <1>3, CancelAssumption DEF WaitOver, CancelTypeOK, Counters, bell
<1>4. CASE AdmitCancelsRun(t)
  <2>1. cancels' = cancels + 1 /\ cancels < MaxCancels /\ UNCHANGED <<runs, requests>>
    BY <1>4 DEF AdmitCancelsRun
  <2> QED
    BY <2>1, CancelAssumption DEF CancelTypeOK, Counters
<1> QED
  BY <1>1, <1>2, <1>3, <1>4

\* A step that does no more than settle calls, or nothing at all.
LEMMA OnlyCallsMove ==
    ASSUME CancelTypeOK, permit' \in BOOLEAN,
           flag' = flag, ringing' = ringing, asked' = asked, fired' = fired,
           UNCHANGED <<phase, wait, runOutcome, runs, requests, cancels>>,
           toolAt' \in [Call -> CallStates], reporting' \subseteq Call,
           \A t \in Call :
               \/ toolAt'[t] = toolAt[t] \/ toolAt'[t] \notin WaitingCalls
               \/ toolAt[t] = "polling" /\ toolAt'[t] = "parked"
    PROVE  CancelTypeOK'
<1>1. CallsWithinPhase'
  <2>1. CallsWithinPhase
    BY DEF CancelTypeOK
  <2> QED
    BY <2>1 DEF CallsWithinPhase, WaitingCalls
<1>2. /\ flag' \in BOOLEAN /\ ringing' \in BOOLEAN /\ asked' \in BOOLEAN
  BY DEF CancelTypeOK
<1>3. /\ fired' \subseteq Call \cup {Loop} /\ runs' \in 0..MaxRuns
      /\ requests' \in 0..MaxRequests /\ cancels' \in 0..MaxCancels
  BY DEF CancelTypeOK
<1>4. /\ phase' \in Phases /\ wait' \in {"none", "delay", "connect", "stream"}
      /\ runOutcome' \in {"none", "cancelled", "vetoed", "failed", "finished"}
  BY DEF CancelTypeOK
<1> QED
  BY <1>1, <1>2, <1>3, <1>4 DEF CancelTypeOK

LEMMA CallSettles ==
    ASSUME CancelTypeOK, NEW t \in Call,
           \/ AdmitDenied(t) \/ AdmitOver(t) \/ ToolPoll(t) \/ ToolWoken(t)
           \/ ToolOver(t) \/ Reported(t)
    PROVE  CancelTypeOK'
<1>0. /\ permit \in BOOLEAN /\ reporting \subseteq Call /\ toolAt \in [Call -> CallStates]
  BY DEF CancelTypeOK
<1>1. PICK v \in CallStates :
         /\ toolAt' = [toolAt EXCEPT ![t] = v]
         /\ v = toolAt[t] \/ v \notin WaitingCalls \/ (v = "parked" /\ toolAt[t] = "polling")
  <2>1. CASE Reported(t)
    <3>1. toolAt' = toolAt /\ toolAt[t] \in CallStates
      BY <1>0, <2>1 DEF Reported
    <3>2. toolAt = [toolAt EXCEPT ![t] = toolAt[t]]
      BY <1>0
    <3> QED
      BY <3>1, <3>2, Zenon
  <2>2. CASE ~Reported(t)
    <3>1. PICK v \in {"denied", "ready", "interrupted", "again", "finished", "parked"} :
             /\ toolAt' = [toolAt EXCEPT ![t] = v]
             /\ v = "parked" => toolAt[t] = "polling"
      BY <2>2 DEF AdmitDenied, AdmitOver, ToolPoll, ToolWoken, ToolOver, Rung
    <3>2. /\ {"denied", "ready", "interrupted", "again", "finished", "parked"} \subseteq CallStates
          /\ \A w \in {"denied", "ready", "interrupted", "again", "finished"} : w \notin WaitingCalls
      BY DEF CallStates, SettledCalls, WaitingCalls
    <3>3. v \in CallStates /\ (v \notin WaitingCalls \/ v = "parked")
      BY <3>2
    <3> QED
      BY <3>1, <3>3, Zenon
  <2> QED
    BY <2>1, <2>2
<1>2. /\ flag' = flag /\ ringing' = ringing /\ asked' = asked /\ fired' = fired
      /\ UNCHANGED <<phase, wait, runOutcome, runs, requests, cancels>>
      /\ permit' \in BOOLEAN
  BY <1>0 DEF AdmitDenied, AdmitOver, ToolPoll, ToolWoken, ToolOver, Reported, bell
<1>3. toolAt' \in [Call -> CallStates]
  BY <1>0, <1>1
<1>4. \A u \in Call :
         \/ toolAt'[u] = toolAt[u] \/ toolAt'[u] \notin WaitingCalls
         \/ toolAt[u] = "polling" /\ toolAt'[u] = "parked"
  BY <1>0, <1>1
<1>5. reporting' \subseteq Call
  BY <1>0 DEF AdmitDenied, AdmitOver, ToolPoll, ToolWoken, ToolOver, Reported, Reports
<1> QED
  BY <1>2, <1>3, <1>4, <1>5, OnlyCallsMove

\* Every step keeps the types and leaves no call of a batch behind: a batch is
\* left only when its calls have settled, or all of it goes with the run.
LEMMA TypeStep == ASSUME CancelTypeOK, [CancelNext]_cancelVars PROVE CancelTypeOK'
<1> USE CancelAssumption DEF CancelTypeOK, CallsWithinPhase, Phases, DeafPhases, CallStates,
    SettledCalls, WaitingCalls
<1>1. CASE UNCHANGED cancelVars
  BY <1>1, OnlyCallsMove DEF cancelVars, bell
<1>2. CASE Create
  <2>1. Counters'
    BY <1>2, CountersStep
  <2> QED
    BY <1>2, <2>1 DEF Create, Counters
<1>3. CASE CancelStore
  <2>1. Counters'
    BY <1>3, CountersStep
  <2> QED
    BY <1>3, <2>1 DEF CancelStore, Counters
<1>4. CASE CancelRing
  BY <1>4 DEF CancelRing, Ring, WaitsArmed
<1>5. CASE Start
  BY <1>5 DEF Start, StartRun
<1>6. CASE Top \/ Announced
  BY <1>6 DEF Top, Announced, Checkpoint, Ends
<1>7. ASSUME NEW retry \in BOOLEAN, Request(retry) PROVE CancelTypeOK'
  BY <1>7 DEF Request, Checkpoint, Ends
<1>8. CASE WaitFlagged
  BY <1>8 DEF WaitFlagged, Checkpoint, Ends
<1>9. CASE WaitPoll \/ WaitWoken
  BY <1>9 DEF WaitPoll, WaitWoken, bell
<1>10. CASE WaitOver
  <2>1. Counters'
    BY <1>10, CountersStep
  <2> QED
    BY <1>10, <2>1 DEF WaitOver, bell, Counters
<1>11. CASE DeltaRecorded \/ Response \/ SteeringSettled \/ End
  BY <1>11 DEF DeltaRecorded, Response, SteeringSettled, End, bell
<1>12. CASE Answered
  BY <1>12 DEF Answered, Ends, bell
<1>13. CASE Veto \/ RunFails
  BY <1>13 DEF Veto, RunFails, Ends, bell
<1>14. CASE Batch
  BY <1>14 DEF Batch, Called, Checkpoint, Ends
<1>15. CASE AdmitEnd \/ ToolsEnd
  BY <1>15 DEF AdmitEnd, ToolsEnd, Checkpoint, Ends, bell
<1>16. ASSUME NEW t \in Call, AdmitCheck(t) PROVE CancelTypeOK'
  BY <1>16 DEF AdmitCheck, MayAdmit
<1>17. ASSUME NEW t \in Call, AdmitPoll(t) \/ AdmitWoken(t) PROVE CancelTypeOK'
  BY <1>17 DEF AdmitPoll, AdmitWoken, bell
<1>18. ASSUME NEW t \in Call, AdmitCancelsRun(t) PROVE CancelTypeOK'
  <2>1. Counters'
    BY <1>18, CountersStep
  <2> QED
    BY <1>18, <2>1 DEF AdmitCancelsRun, Counters
<1>19. ASSUME NEW t \in Call, ToolStart(t) \/ ToolAgain(t) PROVE CancelTypeOK'
  BY <1>19 DEF ToolStart, ToolAgain, ToolPolled
<1>20. ASSUME NEW t \in Call,
              \/ AdmitDenied(t) \/ AdmitOver(t) \/ ToolPoll(t) \/ ToolWoken(t)
              \/ ToolOver(t) \/ Reported(t)
       PROVE  CancelTypeOK'
  BY <1>20, CallSettles
<1> HIDE DEF CancelTypeOK, CallsWithinPhase, Phases, DeafPhases, CallStates, SettledCalls,
    WaitingCalls
<1> QED
  BY <1>1, <1>2, <1>3, <1>4, <1>5, <1>6, <1>7, <1>8, <1>9, <1>10, <1>11, <1>12,
     <1>13, <1>14, <1>15, <1>16, <1>17, <1>18, <1>19, <1>20
  DEF CancelNext, Proceed, ProceedTool, Outside

\* A cancel() meets either no run or one that was polled, so the flag it
\* stores and the request it makes go together; only Start resets the flag,
\* when nothing has been asked yet; a checkpoint that takes it ends the run.
LEMMA FlagStep == ASSUME PolledFirst, CancelTypeOK, FlagIsTheRequest, [CancelNext]_cancelVars
                  PROVE  FlagIsTheRequest'
<1> USE DEF FlagIsTheRequest, CancelTypeOK
<1>1. CASE UNCHANGED cancelVars
  BY <1>1 DEF cancelVars, bell
<1>2. CASE Create
  BY <1>2 DEF Create
<1>3. CASE CancelStore
  BY <1>3 DEF CancelStore
<1>4. CASE CancelRing
  BY <1>4 DEF CancelRing
<1>5. CASE Start
  BY <1>5 DEF Start, StartRun
<1>6. CASE Top \/ Announced
  <2>1. CASE flag = TRUE
    BY <1>6, <2>1 DEF Top, Announced, Checkpoint, Ends
  <2>2. CASE flag = FALSE
    BY <1>6, <2>2 DEF Top, Announced, Checkpoint, Ends
  <2> QED
    BY <2>1, <2>2
<1>7. ASSUME NEW retry \in BOOLEAN, Request(retry) PROVE FlagIsTheRequest'
  <2>1. CASE flag = TRUE
    BY <1>7, <2>1 DEF Request, Checkpoint, Ends
  <2>2. CASE flag = FALSE
    BY <1>7, <2>2 DEF Request, Checkpoint, Ends
  <2> QED
    BY <2>1, <2>2
<1>8. CASE WaitFlagged
  <2>1. CASE flag = TRUE
    BY <1>8, <2>1 DEF WaitFlagged, Checkpoint, Ends
  <2>2. CASE flag = FALSE
    BY <1>8, <2>2 DEF WaitFlagged, Checkpoint, Ends
  <2> QED
    BY <2>1, <2>2
<1>9. CASE WaitPoll \/ WaitWoken \/ WaitOver
  BY <1>9 DEF WaitPoll, WaitWoken, WaitOver, bell
<1>10. CASE DeltaRecorded \/ Response \/ Answered \/ SteeringSettled
  BY <1>10 DEF DeltaRecorded, Response, Answered, SteeringSettled, Ends, bell
<1>11. CASE Veto \/ RunFails \/ End
  BY <1>11 DEF Veto, RunFails, End, Ends, bell
<1>12. CASE Batch \/ ToolsEnd
  <2>1. CASE flag = TRUE
    BY <1>12, <2>1 DEF Batch, ToolsEnd, Checkpoint, Ends
  <2>2. CASE flag = FALSE
    BY <1>12, <2>2 DEF Batch, ToolsEnd, Checkpoint, Ends
  <2> QED
    BY <2>1, <2>2
<1>13. CASE AdmitEnd
  BY <1>13 DEF AdmitEnd, bell
<1>14. ASSUME NEW t \in Call,
              \/ AdmitDenied(t) \/ AdmitCheck(t) \/ AdmitPoll(t) \/ AdmitWoken(t)
              \/ AdmitOver(t)
       PROVE  FlagIsTheRequest'
  BY <1>14 DEF AdmitDenied, AdmitCheck, AdmitPoll, AdmitWoken, AdmitOver, bell
<1>15. ASSUME NEW t \in Call, AdmitCancelsRun(t) PROVE FlagIsTheRequest'
  BY <1>15 DEF AdmitCancelsRun, CallsWithinPhase
<1>16. ASSUME NEW t \in Call,
              \/ ToolStart(t) \/ ToolAgain(t) \/ ToolPoll(t) \/ ToolWoken(t)
              \/ ToolOver(t) \/ Reported(t)
       PROVE  FlagIsTheRequest'
  BY <1>16 DEF ToolStart, ToolAgain, ToolPolled, ToolPoll, ToolWoken, ToolOver, Reported, bell
<1> HIDE DEF FlagIsTheRequest, CancelTypeOK
<1> QED
  BY <1>1, <1>2, <1>3, <1>4, <1>5, <1>6, <1>7, <1>8, <1>9, <1>10, <1>11, <1>12,
     <1>13, <1>14, <1>15, <1>16
  DEF CancelNext, Proceed, ProceedTool, Outside

\* The type invariant, for every number of tools, runs and cancellations.
THEOREM CancelTypeCorrect == CancelSpec => []CancelTypeOK
BY CancelInvInit, TypeStep, PTL DEF CancelSpec

\* A run that no listener refused ends as cancelled only when it was asked to, and a
\* request made during a run stands until the run has its outcome, for every number
\* of tools.
THEOREM CancellationCorrect ==
    PolledFirst => (CancelSpec => [](CancelledOnRequest /\ CancelNotForgotten))
<1> SUFFICES ASSUME PolledFirst
             PROVE  CancelSpec => [](CancelledOnRequest /\ CancelNotForgotten)
  OBVIOUS
<1>1. CancelTypeOK /\ FlagIsTheRequest /\ [CancelNext]_cancelVars
          => CancelTypeOK' /\ FlagIsTheRequest'
  BY TypeStep, FlagStep
<1>2. CancelTypeOK /\ FlagIsTheRequest => CancelledOnRequest /\ CancelNotForgotten
  BY DEF CancelTypeOK, FlagIsTheRequest, CancelledOnRequest, CancelNotForgotten
<1> QED
  BY <1>1, <1>2, CancelInvInit, PTL DEF CancelSpec

------------------------------------------------------------------------------
(* Who hears the ring                                                       *)
Asked(t) == toolAt[t] \in {"asking", "held"}

\* The calls of a batch are admitted one by one, and before any of them starts.
OneAsked ==
    /\ \A t, u \in Call : Asked(t) /\ Asked(u) => t = u
    /\ \A t \in Call : toolAt[t] \in {"queued", "woken"} => phase = "admit"

\* Whoever had a Notified when the bell rang was fired.  A tool that starts to wait later
\* finds the permit, or one that took it and is interrupted or called off, or will be: it
\* was woken and finds the flag.
Heard ==
    flag /\ ~ringing =>
        /\ phase \in {"poll", "parked"} => Loop \in fired
        /\ \A t \in Call : Asked(t) => t \in fired
        /\ \A t \in Call : toolAt[t] = "parked" => t \in fired \/ Beaten(t)
        /\ phase \in {"admit", "tools"} =>
              permit \/ \E u \in Call : toolAt[u] \in {"woken", "calledOff", "interrupted"}

LEMMA HeardInit == CancelInit => OneAsked /\ Heard
BY DEF CancelInit, OneAsked, Heard, Asked

LEMMA OneAskedStep == ASSUME CancelTypeOK, OneAsked, [CancelNext]_cancelVars PROVE OneAsked'
<1>0. /\ CallsWithinPhase
      /\ toolAt \in [Call -> CallStates]
  BY DEF CancelTypeOK
<1> USE DEF OneAsked, Asked
<1>1. CASE UNCHANGED cancelVars
  BY <1>1 DEF cancelVars
<1>2. CASE Create \/ RunFails
  BY <1>2 DEF Create, RunFails
<1>3. CASE CancelStore \/ CancelRing
  BY <1>3 DEF CancelStore, CancelRing
<1>4. CASE Start \/ Top \/ Announced \/ WaitFlagged \/ WaitPoll \/ WaitWoken \/ WaitOver
  BY <1>4 DEF Start, Top, Announced, WaitFlagged, WaitPoll, WaitWoken, WaitOver,
     Checkpoint, Ends
<1>5. ASSUME NEW retry \in BOOLEAN, Request(retry) PROVE OneAsked'
  BY <1>5 DEF Request, Checkpoint, Ends
<1>6. CASE Veto \/ DeltaRecorded \/ Response \/ Answered \/ SteeringSettled \/ End
  BY <1>6 DEF Veto, DeltaRecorded, Response, Answered, SteeringSettled, End, Ends
<1>7. CASE Batch
  <2>1. \A t \in Call : ~Asked(t) /\ toolAt[t] \notin {"queued", "woken"}
    BY <1>0, <1>7 DEF Batch, CallsWithinPhase
  <2>2. CASE Called = {}
    BY <1>7, <2>1, <2>2 DEF Batch
  <2>3. CASE Called # {} /\ flag
    BY <1>7, <2>1, <2>3 DEF Batch
  <2>4. CASE Called # {} /\ ~flag
    BY <1>7, <2>1, <2>4 DEF Batch, Checkpoint
  <2> QED
    BY <2>2, <2>3, <2>4
<1>8. CASE AdmitEnd
  BY <1>8 DEF AdmitEnd
<1>9. CASE ToolsEnd
  BY <1>9 DEF ToolsEnd, SettledCalls
<1>10. ASSUME NEW t \in Call, AdmitDenied(t) \/ AdmitCheck(t) PROVE OneAsked'
  <2>1. /\ \A u \in Call : u # t => toolAt'[u] = toolAt[u] /\ ~Asked(u)
        /\ phase' = "admit"
    BY <1>0, <1>10 DEF AdmitDenied, AdmitCheck, MayAdmit
  <2> QED
    BY <2>1
<1>11. ASSUME NEW t \in Call, AdmitPoll(t) \/ AdmitWoken(t) \/ AdmitOver(t)
                                   \/ AdmitCancelsRun(t)
       PROVE OneAsked'
  <2>1. /\ \A u \in Call : u # t => toolAt'[u] = toolAt[u] /\ ~Asked(u)
        /\ phase' = "admit"
    BY <1>0, <1>11 DEF AdmitPoll, AdmitWoken, AdmitOver, AdmitCancelsRun, CallsWithinPhase
  <2> QED
    BY <2>1
<1>12. ASSUME NEW t \in Call,
              \/ ToolStart(t) \/ ToolAgain(t) \/ ToolPoll(t) \/ ToolWoken(t) \/ ToolOver(t)
       PROVE OneAsked'
  <2>1. /\ \A u \in Call : u # t => toolAt'[u] = toolAt[u]
        /\ toolAt'[t] \notin {"asking", "held", "queued", "woken"} /\ phase' = phase
    BY <1>0, <1>12 DEF ToolStart, ToolAgain, ToolPolled, ToolPoll, ToolWoken, ToolOver, Rung
  <2> QED
    BY <2>1
<1>13. ASSUME NEW t \in Call, Reported(t) PROVE OneAsked'
  BY <1>13 DEF Reported
<1> HIDE DEF OneAsked, Asked
<1> QED
  BY <1>1, <1>2, <1>3, <1>4, <1>5, <1>6, <1>7, <1>8, <1>9, <1>10, <1>11, <1>12, <1>13
  DEF CancelNext, Proceed, ProceedTool, Outside

\* A step that leaves the flag down, or up with somebody about to ring.
LEMMA HeardVacuous == ASSUME ~(flag' /\ ~ringing') PROVE Heard'
BY DEF Heard

\* A step of the run that leaves the tools and the bell alone.
LEMMA HeardStays ==
    ASSUME Heard, UNCHANGED <<flag, ringing, permit, fired, toolAt>>,
           phase' \in {"poll", "parked"} => phase \in {"poll", "parked"},
           phase' \in {"admit", "tools"} => phase \in {"admit", "tools"}
    PROVE  Heard'
BY DEF Heard, Asked, Beaten

\* The steps of the tool t, seen by the others.
LEMMA HeardByOthers ==
    ASSUME CancelTypeOK, OneAsked, Heard, flag, ~ringing, NEW t \in Call,
           toolAt[t] \notin {"woken", "calledOff", "interrupted"},
           \A u \in Call : u # t => toolAt'[u] = toolAt[u],
           \A u \in Call : u # t /\ u \in fired => u \in fired',
           UNCHANGED phase, phase \in {"admit", "tools"},
           permit' = permit \/ toolAt'[t] \in {"woken", "calledOff", "interrupted"},
           Asked(t)' => t \in fired',
           toolAt'[t] = "parked" => t \in fired' \/ Beaten(t)'
    PROVE  Heard'
<1>1. \A u \in Call : Beaten(u) => Beaten(u)'
  BY DEF Beaten
<1>2. \A u \in Call : Asked(u)' => u \in fired'
  BY DEF Heard, Asked
<1>3. \A u \in Call : toolAt'[u] = "parked" => u \in fired' \/ Beaten(u)'
  BY <1>1 DEF Heard
<1>4. permit' \/ \E u \in Call : toolAt'[u] \in {"woken", "calledOff", "interrupted"}
  <2>1. CASE toolAt'[t] \in {"woken", "calledOff", "interrupted"}
    BY <2>1
  <2>2. CASE permit' = permit /\ permit = TRUE
    BY <2>2
  <2>3. CASE permit # TRUE /\ toolAt'[t] \notin {"woken", "calledOff", "interrupted"}
    <3>1. PICK u \in Call : toolAt[u] \in {"woken", "calledOff", "interrupted"}
      BY <2>3 DEF Heard, CancelTypeOK
    <3> QED
      BY <3>1
  <2> QED
    BY <2>1, <2>2, <2>3 DEF CancelTypeOK
<1> QED
  BY <1>2, <1>3, <1>4 DEF Heard, Asked, Beaten

LEMMA HeardStep == ASSUME CancelTypeOK, OneAsked, Heard, [CancelNext]_cancelVars PROVE Heard'
<1>0. /\ CallsWithinPhase /\ flag \in BOOLEAN /\ permit \in BOOLEAN /\ ringing \in BOOLEAN
      /\ toolAt \in [Call -> CallStates]
  BY DEF CancelTypeOK
<1>1. CASE UNCHANGED cancelVars
  BY <1>1, HeardStays DEF cancelVars, bell
<1>2. CASE Create \/ RunFails
  <2>1. phase' \notin {"poll", "parked", "admit", "tools"} 
         /\ \A t \in Call : toolAt'[t] = "none"
    BY <1>2 DEF Create, RunFails, Ends
  <2> QED
    BY <2>1 DEF Heard, Asked
<1>3. CASE CancelStore
  BY <1>3, HeardVacuous DEF CancelStore
<1>4. CASE CancelRing
  <2>1. /\ permit' = TRUE /\ fired' = fired \cup WaitsArmed /\ UNCHANGED <<phase, toolAt>>
    BY <1>4 DEF CancelRing, Ring
  <2>2. phase' \in {"poll", "parked"} => Loop \in fired'
    BY <2>1 DEF WaitsArmed
  <2>3. \A t \in Call : Asked(t)' \/ toolAt'[t] = "parked" => t \in fired'
    BY <2>1 DEF WaitsArmed, Asked, WaitingCalls
  <2> QED
    BY <2>1, <2>2, <2>3 DEF Heard, Asked
<1>5. CASE Start \/ Top \/ WaitFlagged \/ ToolsEnd
  <2>1. flag' = FALSE
    BY <1>5 DEF Start, StartRun, Top, WaitFlagged, ToolsEnd, Checkpoint
  <2> QED
    BY <2>1, HeardVacuous
<1>6. ASSUME NEW retry \in BOOLEAN, Request(retry) PROVE Heard'
  <2>1. flag' = FALSE
    BY <1>6 DEF Request, Checkpoint
  <2> QED
    BY <2>1, HeardVacuous
<1>7. CASE WaitPoll
  <2>1. \A t \in Call : ~Asked(t) /\ toolAt[t] # "parked"
    BY <1>0, <1>7 DEF WaitPoll, CallsWithinPhase, Asked
  <2>2. /\ phase' \notin {"admit", "tools"} /\ phase = "poll"
        /\ UNCHANGED <<flag, ringing, fired, toolAt>>
    BY <1>7 DEF WaitPoll
  <2> QED
    BY <2>1, <2>2 DEF Heard, Asked
<1>8. CASE WaitWoken \/ WaitOver \/ Veto \/ DeltaRecorded \/ Response \/ SteeringSettled \/ End
  <2>1. /\ phase' \notin {"poll", "parked", "admit", "tools"} /\ UNCHANGED <<bell, toolAt>>
    BY <1>8 DEF WaitWoken, WaitOver, Veto, DeltaRecorded, Response, SteeringSettled, End, Ends
  <2> QED
    BY <2>1, HeardStays DEF bell
<1>9. CASE Answered
  <2>1. \A t \in Call : ~Asked(t) /\ toolAt[t] # "parked"
    BY <1>0, <1>9 DEF Answered, CallsWithinPhase, Asked
  <2>2. \A t \in Call : ~Asked(t)' /\ toolAt'[t] # "parked"
    BY <1>0, <1>9, <2>1 DEF Answered, Asked
  <2>3. phase' \notin {"poll", "parked", "admit", "tools"}
    BY <1>9 DEF Answered, Ends
  <2> QED
    BY <2>2, <2>3 DEF Heard, Asked
<1>10. CASE AdmitEnd
  <2>1. phase = "admit" /\ phase' = "tools" /\ UNCHANGED <<bell, toolAt>>
    BY <1>10 DEF AdmitEnd
  <2> QED
    BY <2>1, HeardStays DEF bell
<1>11. ASSUME NEW t \in Call, AdmitCheck(t) PROVE Heard'
  <2>1. CASE flag = FALSE
    BY <1>11, <2>1, HeardVacuous DEF AdmitCheck
  <2>2. CASE flag = TRUE
    <3>1. /\ phase = "admit" /\ phase' = phase /\ toolAt'[t] = "calledOff"
          /\ \A u \in Call : u # t => toolAt'[u] = toolAt[u] /\ ~Asked(u)
      BY <1>0, <1>11, <2>2 DEF AdmitCheck, MayAdmit, Asked
    <3>2. \A u \in Call : toolAt'[u] # "parked" /\ ~Asked(u)'
      BY <1>0, <3>1 DEF CallsWithinPhase, Asked
    <3> QED
      BY <3>1, <3>2 DEF Heard, Asked
  <2> QED
    BY <1>0, <2>1, <2>2
<1>12. ASSUME NEW t \in Call,
              AdmitPoll(t) \/ AdmitWoken(t) \/ AdmitOver(t)
                                   \/ AdmitCancelsRun(t)
       PROVE  Heard'
  <2>1. /\ phase = "admit" /\ phase' = phase /\ toolAt[t] \in {"asking", "held"}
        /\ \A u \in Call : u # t => toolAt'[u] = toolAt[u] /\ ~Asked(u)
        /\ fired' = fired /\ ringing' = ringing
    BY <1>0, <1>12 DEF AdmitPoll, AdmitWoken, AdmitOver, AdmitCancelsRun, bell, OneAsked,
       Asked, CallsWithinPhase
  <2>2. CASE AdmitCancelsRun(t)
    <3>1. permit' = TRUE /\ toolAt'[t] = "calledOff"
      BY <1>0, <2>2 DEF AdmitCancelsRun
    <3>2. \A u \in Call : toolAt'[u] # "parked" /\ ~Asked(u)'
      BY <1>0, <2>1, <3>1 DEF CallsWithinPhase, Asked
    <3> QED
      BY <2>1, <3>1, <3>2 DEF Heard, Asked
  <2>3. CASE ~(flag /\ ~ringing) /\ ~AdmitCancelsRun(t)
    <3>1. flag' = flag /\ ringing' = ringing
      BY <1>12, <2>3 DEF AdmitPoll, AdmitWoken, AdmitOver, bell
    <3> QED
      BY <2>3, <3>1, HeardVacuous
  <2>4. CASE flag /\ ~ringing /\ ~AdmitCancelsRun(t)
    <3>1. t \in fired
      BY <2>1, <2>4 DEF Heard, Asked
    <3>2. /\ ~Asked(t)' /\ toolAt'[t] # "parked"
          /\ permit' = permit \/ toolAt'[t] \in {"woken", "calledOff", "interrupted"}
      BY <1>0, <1>12, <2>4, <3>1 DEF AdmitPoll, AdmitWoken, AdmitOver, Asked, bell
    <3> QED
      BY <2>1, <2>4, <3>2, HeardByOthers
  <2> QED
    BY <2>2, <2>3, <2>4
<1>13. ASSUME NEW t \in Call,
              \/ ToolStart(t) \/ ToolAgain(t) \/ ToolPoll(t) \/ ToolWoken(t) \/ ToolOver(t)
       PROVE  Heard'
  <2>1. /\ phase = "tools" /\ phase' = phase
        /\ toolAt[t] \in {"ready", "again", "polling", "parked"}
        /\ \A u \in Call : u # t => toolAt'[u] = toolAt[u]
        /\ \A u \in Call : u # t /\ u \in fired => u \in fired'
        /\ flag' = flag /\ ringing' = ringing
    BY <1>0, <1>13 DEF ToolStart, ToolAgain, ToolPolled, ToolPoll, ToolWoken, ToolOver, bell,
       CallsWithinPhase
  <2>2. CASE ~(flag /\ ~ringing)
    BY <2>1, <2>2, HeardVacuous
  <2>3. CASE flag /\ ~ringing
    <3>1. /\ ~Asked(t)'
          /\ permit' = permit \/ toolAt'[t] \in {"woken", "calledOff", "interrupted"}
      <4>1. CASE ToolStart(t) \/ ToolAgain(t) \/ ToolWoken(t) \/ ToolOver(t)
        BY <1>0, <4>1 DEF ToolStart, ToolAgain, ToolPolled, ToolWoken, ToolOver, Rung, Asked,
           bell
      <4>2. CASE ToolPoll(t) /\ permit = TRUE
        BY <1>0, <2>3, <4>2 DEF ToolPoll, Rung, Asked
      <4>3. CASE ToolPoll(t) /\ permit = FALSE
        BY <1>0, <2>3, <4>3 DEF ToolPoll, Rung, Asked
      <4> QED
        BY <1>0, <1>13, <4>1, <4>2, <4>3
    <3>2. toolAt'[t] = "parked" => t \in fired' \/ Beaten(t)'
      <4> SUFFICES ASSUME toolAt'[t] = "parked", t \notin fired' PROVE Beaten(t)'
        OBVIOUS
      <4>1. ToolPoll(t) /\ ~permit /\ t \notin fired
        BY <1>0, <1>13, <2>3 DEF ToolStart, ToolAgain, ToolPolled, ToolPoll, ToolWoken,
           ToolOver, Rung, bell
      <4>2. PICK u \in Call : toolAt[u] \in {"woken", "calledOff", "interrupted"}
        BY <2>1, <2>3, <4>1 DEF Heard
      <4>3. u # t /\ toolAt[u] # "woken"
        BY <2>1, <4>2 DEF OneAsked
      <4> QED
        BY <2>1, <4>2, <4>3 DEF Beaten
    <3> QED
      BY <2>1, <2>3, <3>1, <3>2, HeardByOthers
  <2> QED
    BY <2>2, <2>3
<1>14. CASE Announced
  <2>1. flag' = FALSE \/ /\ phase' = "check" /\ UNCHANGED <<flag, ringing, permit, fired, toolAt>>
    BY <1>14 DEF Announced, Checkpoint
  <2> QED
    BY <2>1, HeardVacuous, HeardStays
<1>15. CASE Batch
  <2>1. \/ flag' = FALSE
        \/ phase' = "top" /\ UNCHANGED <<flag, ringing, permit, fired, toolAt>>
    BY <1>15 DEF Batch, Checkpoint
  <2> QED
    BY <2>1, HeardVacuous, HeardStays
<1>16. ASSUME NEW t \in Call, AdmitDenied(t) PROVE Heard'
  <2>1. /\ phase = "admit" /\ phase' = phase /\ toolAt[t] = "queued"
        /\ toolAt'[t] = "denied" /\ \A u \in Call : u # t => toolAt'[u] = toolAt[u]
        /\ flag' = flag /\ ringing' = ringing /\ fired' = fired /\ permit' = permit
    BY <1>0, <1>16 DEF AdmitDenied, MayAdmit, bell
  <2>2. CASE ~(flag /\ ~ringing)
    BY <2>1, <2>2, HeardVacuous
  <2>3. CASE flag /\ ~ringing
    <3>1. ~Asked(t)' /\ toolAt'[t] # "parked"
      BY <2>1 DEF Asked
    <3> QED
      BY <2>1, <2>3, <3>1, HeardByOthers
  <2> QED
    BY <2>2, <2>3
<1>17. ASSUME NEW t \in Call, Reported(t) PROVE Heard'
  <2>1. UNCHANGED <<bell, phase, toolAt>>
    BY <1>17 DEF Reported
  <2> QED
    BY <2>1, HeardStays DEF bell
<1> QED
  BY <1>1, <1>2, <1>3, <1>4, <1>5, <1>6, <1>7, <1>8, <1>9, <1>10, <1>11, <1>12,
     <1>13, <1>14, <1>15, <1>16, <1>17
  DEF CancelNext, Proceed, ProceedTool, Outside

\* No run and no tool sleeps through a cancellation: whatever waits on the
\* Notify while the flag stands was fired, or is a tool of a batch of which
\* another call took the permit; whether or not the run was polled first.
THEOREM NobodySleeps == CancelSpec => []NobodySleepsThroughCancel
<1>1. CancelTypeOK /\ OneAsked /\ Heard /\ [CancelNext]_cancelVars
          => CancelTypeOK' /\ OneAsked' /\ Heard'
  BY TypeStep, OneAskedStep, HeardStep
<1>2. CancelTypeOK /\ OneAsked /\ Heard => NobodySleepsThroughCancel
  BY DEF CancelTypeOK, Heard, NobodySleepsThroughCancel, Asked
<1> QED
  BY <1>1, <1>2, CancelInvInit, HeardInit, PTL DEF CancelSpec

\* What a cancellation promises while it is on its way: a run that ended as
\* cancelled was asked to, and no waiter misses the ring.
THEOREM CancellationHeard == PolledFirst => (CancelSpec => []CancelHeard)
BY CancellationCorrect, NobodySleeps, PTL DEF CancelHeard
==============================================================================
