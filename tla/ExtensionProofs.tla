--------------------------- MODULE ExtensionProofs ---------------------------
(***************************************************************************)
(* What Parts promises of nine of its components, for every value of the   *)
(* constants: an inductive invariant per part, PartsInv together.  A step  *)
(* of one part leaves the variables of the others as they were, so that    *)
(* the lemmas of a section are about one component only.  PluginProofs has *)
(* the tenth, the team.                                                    *)
(***************************************************************************)
EXTENDS Parts, Filters, SequenceTheorems, FiniteSetTheorems, WellFoundedInduction, TLAPS

------------------------------------------------------------------------------
(* knowledge-plugin and memory-plugin.                                     *)

\* Before the first scan the index covers what it has marked: nothing.
LEMMA IndexBegins == History!Init => History!IndexInv
BY DEF History!Init, History!IndexInv, History!IndexTypes, History!NotedOnce,
       History!ExcerptsAhead, History!Nothing, History!Empty, History!Revisions,
       History!StoredPair, History!Steps

\* The steps of a scan come in one order.
LEMMA KeysInOrder == History!FirstKey = "entries" /\ History!SecondKey = "meta"
<1>1. History!FirstKey = "entries"
  BY DEF History!FirstKey
<1>2. \E k \in {"meta", "entries"} : k # History!FirstKey
  BY <1>1
<1> QED
  BY <1>1, <1>2 DEF History!SecondKey

\* The store of sessions changes under the index.
LEMMA SessionSaved ==
    ASSUME History!IndexInv, NEW s \in PastSession, History!Save(s)
    PROVE  History!IndexInv'
<1> USE DEF History!Save, History!IndexInv
<1>1. History!IndexTypes'
  BY DEF History!IndexTypes, History!Revisions
<1>2. History!NotedOnce'
  BY DEF History!IndexTypes, History!Revisions, History!NotedOnce, History!StoredPair
<1>3. History!ExcerptsAhead'
  BY DEF History!ExcerptsAhead
<1> QED
  BY <1>1, <1>2, <1>3

\* A session that is deleted stays out of the index.
LEMMA SessionDeleted ==
    ASSUME History!IndexInv, NEW s \in PastSession, History!Delete(s)
    PROVE  History!IndexInv'
<1> USE DEF History!Delete, History!IndexInv
<1>1. History!IndexTypes'
  BY DEF History!IndexTypes, History!Revisions
<1>2. History!NotedOnce'
  BY DEF History!IndexTypes, History!Revisions, History!NotedOnce
<1>3. History!ExcerptsAhead'
  BY DEF History!ExcerptsAhead
<1> QED
  BY <1>1, <1>2, <1>3

\* A start reads the file it finds, whatever was in memory.
LEMMA IndexActivates ==
    ASSUME History!IndexInv, NEW p \in HistoryProcess, History!Activate(p)
    PROVE  History!IndexInv'
<1> USE DEF History!Activate, History!IndexInv, History!OpenStore
<1>1. History!IndexTypes'
  BY DEF History!IndexTypes, History!StoredPair, History!Steps
<1>2. History!NotedOnce'
  BY DEF History!IndexTypes, History!NotedOnce, History!Revisions, History!StoredPair
<1>3. History!ExcerptsAhead'
  BY DEF History!ExcerptsAhead, History!IndexTypes
<1> QED
  BY <1>1, <1>2, <1>3

\* The end of a run marks nothing as read that was not.
LEMMA IndexRunFinish ==
    ASSUME History!IndexInv, NEW p \in HistoryProcess, History!RunFinish(p)
    PROVE  History!IndexInv'
<1> USE DEF History!RunFinish, History!IndexInv
<1>1. History!IndexTypes'
  BY DEF History!IndexTypes, History!Steps
<1>a. /\ UNCHANGED <<revision, deleted, indexed, historyFile, historyCache>>
      /\ \A q \in HistoryProcess \ {p} : step'[q] = step[q] /\ historyListed'[q] = historyListed[q]
      /\ \/ historyListed'[p] = revision
         \/ step'[p] = "report" /\ historyListed'[p] = historyListed[p]
  BY DEF History!IndexTypes
<1>b. ASSUME NEW s \in PastSession \ deleted, NEW q \in HistoryProcess
      PROVE  /\ historyListed'[q][s] <= revision[s]
             /\ step'[q] = "listed" => indexed[q][s] <= historyListed'[q][s]
  <2>1. /\ indexed[q][s] <= revision[s] /\ historyListed[q][s] <= revision[s]
        /\ step[q] = "listed" => indexed[q][s] <= historyListed[q][s]
        /\ revision[s] \in Nat
    BY DEF History!IndexTypes, History!NotedOnce, History!Revisions
  <2>2. CASE q = p
    BY <1>a, <2>1, <2>2
  <2>3. CASE q # p
    BY <1>a, <2>1, <2>3
  <2> QED
    BY <2>2, <2>3
<1>2. History!NotedOnce'
  BY <1>a, <1>b DEF History!NotedOnce
<1>3. History!ExcerptsAhead'
  BY DEF History!ExcerptsAhead, History!IndexTypes
<1> QED
  BY <1>1, <1>2, <1>3

\* A stop leaves the file as it is.
LEMMA IndexStops ==
    ASSUME History!IndexInv, NEW p \in HistoryProcess, History!Stop(p)
    PROVE  History!IndexInv'
<1> USE DEF History!Stop, History!IndexInv, History!Nothing, History!Empty
<1>1. History!IndexTypes'
  BY DEF History!IndexTypes, History!Steps, History!Revisions, History!StoredPair
<1>2. History!NotedOnce'
  BY DEF History!IndexTypes, History!NotedOnce, History!Revisions
<1>3. History!ExcerptsAhead'
  BY DEF History!ExcerptsAhead, History!IndexTypes, History!Revisions
<1> QED
  BY <1>1, <1>2, <1>3

\* A scan lists sessions before their excerpts are read.
LEMMA IndexScans ==
    ASSUME History!IndexInv, NEW p \in HistoryProcess, History!Scan(p)
    PROVE  History!IndexInv'
<1> USE DEF History!IndexInv
<1>0. PICK unreadable \in SUBSET {s \in History!Changed(p) : revision[s] > 0} :
         LET kept == (PastSession \ History!Changed(p)) \cup unreadable
             left(s) == historyListed[p][s] = 0 \/ (s \notin kept /\ revision[s] = 0)
         IN /\ indexed' = [indexed EXCEPT ![p] = [s \in PastSession |->
                  IF left(s) THEN 0 ELSE IF s \in kept THEN indexed[p][s]
                                         ELSE History!Noted(p, s)]]
            /\ excerpts' = [excerpts EXCEPT ![p] = [s \in PastSession |->
                  IF left(s) THEN 0 ELSE IF s \in kept THEN excerpts[p][s] ELSE revision[s]]]
  BY DEF History!Scan
<1> DEFINE kept == (PastSession \ History!Changed(p)) \cup unreadable
           left(s) == historyListed[p][s] = 0 \/ (s \notin kept /\ revision[s] = 0)
<1>1. /\ step[p] = "listed" /\ step' = [step EXCEPT ![p] = "first"]
      /\ UNCHANGED <<revision, deleted, historyListed, historyFile, historyCache, unwritten,
                     syncs, faults>>
  BY DEF History!Scan
<1>2. \A s \in PastSession :
        /\ indexed'[p][s] = IF left(s) THEN 0 ELSE IF s \in kept THEN indexed[p][s]
                                         ELSE historyListed[p][s]
        /\ excerpts'[p][s] = IF left(s) THEN 0 ELSE IF s \in kept THEN excerpts[p][s]
                                         ELSE revision[s]
  BY <1>0 DEF History!IndexTypes, History!Noted
<1>3. \A q \in HistoryProcess \ {p} : indexed'[q] = indexed[q] /\ excerpts'[q] = excerpts[q]
                                      /\ step'[q] = step[q]
  BY <1>0, <1>1 DEF History!IndexTypes
<1>4. History!IndexTypes'
  <2>1. /\ \A s \in PastSession : /\ indexed[p][s] \in Nat /\ historyListed[p][s] \in Nat
                                  /\ excerpts[p][s] \in Nat /\ revision[s] \in Nat
        /\ indexed \in [HistoryProcess -> [PastSession -> Nat]]
        /\ excerpts \in [HistoryProcess -> [PastSession -> Nat]]
    BY DEF History!IndexTypes, History!Revisions
  <2>2. indexed' \in [HistoryProcess -> [PastSession -> Nat]]
    BY <2>1, <1>0 DEF History!Noted
  <2>3. excerpts' \in [HistoryProcess -> [PastSession -> Nat]]
    BY <2>1, <1>0
  <2> QED
    BY <1>1, <2>2, <2>3 DEF History!IndexTypes, History!Revisions, History!Steps
<1> HIDE DEF left, kept
<1>5. History!NotedOnce'
  <2>1. ASSUME NEW s \in PastSession \ deleted PROVE indexed'[p][s] <= revision[s]
    BY <1>2 DEF History!NotedOnce, History!IndexTypes, History!Revisions
  <2>2. ASSUME NEW s \in PastSession \ deleted PROVE historyCache[p].meta[s] <= indexed'[p][s]
    <3>1. /\ historyCache[p].meta[s] <= indexed[p][s] /\ historyListed[p][s] <= revision[s]
          /\ indexed[p][s] <= historyListed[p][s]
      BY <1>1 DEF History!NotedOnce
    <3>2. /\ historyListed[p][s] \in Nat /\ indexed[p][s] \in Nat /\ revision[s] \in Nat
          /\ historyCache[p].meta[s] \in Nat
      BY DEF History!IndexTypes, History!Revisions, History!StoredPair
    <3>3. left(s) => indexed[p][s] = 0
      BY <3>1, <3>2, <1>4 DEF left
    <3> QED
      BY <3>1, <3>2, <3>3, <1>2
  <2> QED
    BY <1>1, <1>3, <2>1, <2>2 DEF History!NotedOnce, History!IndexTypes
<1>6. History!ExcerptsAhead'
  <2>1. ASSUME NEW s \in PastSession \ (deleted \cup unwritten)
        PROVE  indexed'[p][s] <= excerpts'[p][s]
    <3>1. /\ indexed[p][s] <= historyListed[p][s] /\ historyListed[p][s] <= revision[s]
          /\ indexed[p][s] <= excerpts[p][s]
      BY <1>1 DEF History!NotedOnce, History!ExcerptsAhead
    <3>2. /\ historyListed[p][s] \in Nat /\ indexed[p][s] \in Nat
          /\ excerpts[p][s] \in Nat /\ revision[s] \in Nat
      BY DEF History!IndexTypes, History!Revisions
    <3>3. left(s) => indexed[p][s] = 0
      BY <3>1, <3>2 DEF left
    <3> QED
      BY <3>1, <3>2, <3>3, <1>2
  <2> QED
    BY <1>1, <1>3, <2>1 DEF History!ExcerptsAhead, History!IndexTypes
<1> QED
  BY <1>4, <1>5, <1>6

\* What is written marks only what is indexed.
LEMMA IndexWritten ==
    ASSUME History!IndexInv, NEW p \in HistoryProcess, History!Write(p)
    PROVE  History!IndexInv'
<1> USE DEF History!IndexInv
<1> DEFINE key == History!Key(p)
           put == History!Put(p, key, History!Value(p))
<1>1. step[p] \in {"first", "second", "report"}
      /\ UNCHANGED <<revision, deleted, historyListed, indexed, excerpts, syncs>>
  BY DEF History!Write
<1>2. /\ key = IF step[p] = "first" THEN "entries" ELSE "meta"
      /\ put \in History!StoredPair
      /\ put.entries = IF step[p] = "first" THEN excerpts[p] ELSE historyCache[p].entries
      /\ put.meta = IF step[p] = "first" THEN historyCache[p].meta ELSE indexed[p]
  BY <1>1, KeysInOrder DEF History!Key, History!Value, History!Put, History!StoredPair, History!IndexTypes
<1> HIDE DEF key, put
<1>3. ASSUME NEW s \in PastSession \ deleted
      PROVE  /\ put.meta[s] <= indexed[p][s] /\ put.meta[s] <= revision[s]
             /\ s \notin unwritten => put.meta[s] <= put.entries[s]
  <2>1. /\ historyCache[p].meta[s] <= indexed[p][s] /\ indexed[p][s] <= revision[s]
        /\ s \notin unwritten => indexed[p][s] <= excerpts[p][s]
        /\ s \notin unwritten /\ step[p] # "first" => historyCache[p].entries[s] = excerpts[p][s]
    BY DEF History!NotedOnce, History!ExcerptsAhead
  <2>2. /\ historyCache[p].meta[s] \in Nat /\ indexed[p][s] \in Nat
        /\ revision[s] \in Nat /\ excerpts[p][s] \in Nat
    BY DEF History!IndexTypes, History!Revisions, History!StoredPair
  <2> QED
    BY <2>1, <2>2, <1>2
<1>a. CASE History!Set(p, History!Key(p), History!Value(p))
           /\ step' = [step EXCEPT ![p] = IF @ = "first" THEN "second" ELSE "ready"]
           /\ UNCHANGED <<unwritten, faults>>
  <2>1. /\ historyFile' = put /\ historyCache' = [historyCache EXCEPT ![p] = put]
    BY <1>a DEF History!Set, put, key
  <2>2. History!IndexTypes'
    BY <2>1, <1>1, <1>2, <1>a DEF History!IndexTypes, History!Steps
  <2>3. /\ historyCache'[p] = put /\ step'[p] = IF step[p] = "first" THEN "second" ELSE "ready"
        /\ \A q \in HistoryProcess \ {p} : historyCache'[q] = historyCache[q] /\ step'[q] = step[q]
    BY <2>1, <1>a DEF History!IndexTypes
  <2>4. History!NotedOnce'
    BY <2>1, <2>3, <1>1, <1>3 DEF History!NotedOnce
  <2>5. History!ExcerptsAhead'
    <3>1. ASSUME NEW s \in PastSession \ (deleted \cup unwritten)
          PROVE  put.entries[s] = excerpts[p][s] /\ put.meta[s] <= put.entries[s]
      BY <1>2, <1>3 DEF History!ExcerptsAhead
    <3> QED
      BY <2>1, <2>3, <1>1, <1>a, <3>1 DEF History!ExcerptsAhead
  <2> QED
    BY <2>2, <2>4, <2>5
<1>b. CASE /\ faults' = faults + 1
           /\ History!SetFails(p, History!Key(p), History!Value(p))
           /\ unwritten' = IF History!Key(p) = "entries" THEN unwritten \cup History!NewExcerpts(p)
                                                        ELSE unwritten
           /\ step' = [step EXCEPT ![p] = IF @ = "report" THEN "ready" ELSE "report"]
  <2>1. historyFile' \in {historyFile, put} /\ UNCHANGED historyCache
    BY <1>b DEF History!SetFails, put, key
  <2>2. History!IndexTypes'
    BY <2>1, <1>1, <1>2, <1>b DEF History!IndexTypes, History!Steps, History!NewExcerpts
  <2>3. /\ step'[p] = IF step[p] = "report" THEN "ready" ELSE "report"
        /\ \A q \in HistoryProcess \ {p} : step'[q] = step[q]
    BY <1>b DEF History!IndexTypes
  <2>4. History!NotedOnce'
    BY <2>1, <2>3, <1>1, <1>3 DEF History!NotedOnce
  <2>5. History!ExcerptsAhead'
    <3>1. ASSUME NEW s \in PastSession, s \notin unwritten', step[p] = "first"
          PROVE  historyCache[p].entries[s] = excerpts[p][s]
      <4>1. unwritten' = unwritten \cup History!NewExcerpts(p)
        BY <3>1, <1>b, <1>2 DEF key
      <4> QED
        BY <3>1, <4>1 DEF History!NewExcerpts
    <3>2. unwritten \subseteq unwritten'
      BY <1>b
    <3> QED
      BY <2>1, <2>3, <1>1, <1>3, <3>1, <3>2 DEF History!ExcerptsAhead
  <2> QED
    BY <2>2, <2>4, <2>5
<1> QED
  BY <1>a, <1>b DEF History!Write

\* Every step of knowledge-plugin keeps IndexInv.
LEMMA IndexStep ==
    ASSUME History!IndexInv, History!Next \/ UNCHANGED historyVars
    PROVE  History!IndexInv'
<1>1. CASE UNCHANGED historyVars
  BY <1>1 DEF historyVars, History!IndexInv, History!IndexTypes, History!NotedOnce,
              History!ExcerptsAhead
<1>2. CASE History!Next
  BY <1>2, SessionSaved, SessionDeleted, IndexActivates, IndexRunFinish, IndexScans,
     IndexWritten, IndexStops DEF History!Next
<1> QED
  BY <1>1, <1>2

------------------------------------------------------------------------------
\* Before any memory is stored no id has been given.
LEMMA MemoryBegins == Memory!Init => Memory!MemoryInv
<1> SUFFICES ASSUME Memory!Init PROVE Memory!MemoryInv
  OBVIOUS
<1>1. \A c \in Memory!Scope : collection[c] = Memory!Empty /\ collectionFile[c] = Memory!Empty
  BY DEF Memory!Init
<1>2. Memory!MemoryTypes
  BY DEF Memory!Init, Memory!MemoryTypes, Memory!Empty, Memory!Collections
<1> QED
  BY <1>1, <1>2 DEF Memory!Init, Memory!MemoryInv, Memory!IdsNeverReused, Memory!Agrees, Memory!Empty

\* A collection that goes on from the one in memory, with every memory of its own scope
\* that it agrees with, may be written.
LEMMA CollectionSaved ==
    ASSUME Memory!MemoryInv, NEW c \in Memory!Scope, NEW after \in Memory!Collections,
           activated, c \in available,
           Memory!Agrees(c, after),
           Memory!Replace(c, after), Memory!Save(c, after), UNCHANGED <<activated, available>>
    PROVE  Memory!MemoryInv'
<1> DEFINE new == {[scope |-> c, text |-> e.text, sequence |-> e.sequence] : e \in after.entries}
<1> USE DEF Memory!MemoryInv
<1>1. \/ collectionFile' = [collectionFile EXCEPT ![c] = after] /\ stored' = stored \cup new
      \/ UNCHANGED <<collectionFile, stored>>
  BY DEF Memory!Save, Memory!Write
<1>2. collection' = [collection EXCEPT ![c] = after]
  BY DEF Memory!Replace
<1>3. new \subseteq [scope : Memory!Scope, text : MemoryText, sequence : Nat]
  BY DEF Memory!Collections, Memory!Entry
<1>4. Memory!MemoryTypes'
  BY <1>1, <1>2, <1>3 DEF Memory!MemoryTypes
<1>5. \A m \in new : m.scope = c /\ \E e \in after.entries : m.text = e.text /\ m.sequence = e.sequence
  OBVIOUS
<1>6. \A e \in after.entries : e.sequence \in Nat /\ after.next_sequence \in Nat
  BY DEF Memory!Collections, Memory!Entry
<1> HIDE DEF new
<1>7. \A m \in new : /\ m.sequence <= after.next_sequence
                     /\ \A e \in after.entries : m.sequence = e.sequence => m.text = e.text
                     /\ \A n \in stored : n.scope = c /\ n.sequence = m.sequence => n.text = m.text
  BY <1>5 DEF Memory!Agrees
<1>8. \A m, n \in new : m.sequence = n.sequence => m.text = n.text
  BY <1>5, <1>7
<1>9. Memory!IdsNeverReused'
  <2>1. \A m, n \in stored \cup new : m.scope = n.scope /\ m.sequence = n.sequence => m = n
    <3>1. \A m, n \in stored \cup new :
             m.scope = n.scope /\ m.sequence = n.sequence => m.text = n.text
      BY <1>5, <1>7, <1>8 DEF Memory!IdsNeverReused
    <3> QED
      BY <3>1, <1>3 DEF Memory!MemoryTypes
  <2> QED
    BY <2>1, <1>1 DEF Memory!IdsNeverReused
<1>10. ASSUME NEW d \in Memory!Scope, NEW kept, Memory!Agrees(d, kept), d # c
       PROVE  Memory!Agrees(d, kept)'
  BY <1>1, <1>5, <1>10 DEF Memory!Agrees
<1>11. Memory!Agrees(c, after)'
  BY <1>1, <1>5, <1>7 DEF Memory!Agrees
<1>12. ASSUME UNCHANGED stored, NEW kept, Memory!Agrees(c, kept) PROVE Memory!Agrees(c, kept)'
  BY <1>12 DEF Memory!Agrees
<1> QED
  BY <1>1, <1>2, <1>4, <1>9, <1>10, <1>11, <1>12 DEF Memory!MemoryTypes

\* A memory that is recorded takes a number no memory of its scope had.
LEMMA MemoryRecorded ==
    ASSUME Memory!MemoryInv, NEW c \in Memory!Scope, NEW t \in MemoryText, Memory!Record(c, t)
    PROVE  Memory!MemoryInv'
<1> DEFINE n == Memory!Numbered(c)
           after == [entries |-> collection[c].entries \cup {[text |-> t, sequence |-> n]},
                     next_sequence |-> n]
<1>1. /\ activated /\ c \in available /\ UNCHANGED <<activated, available>>
      /\ Memory!Replace(c, after) /\ Memory!Save(c, after)
  BY DEF Memory!Record
<1>2. /\ collection[c].next_sequence \in Nat /\ n = collection[c].next_sequence + 1
      /\ collection[c].entries \subseteq Memory!Entry
  BY DEF Memory!Numbered, Memory!MemoryInv, Memory!MemoryTypes, Memory!Collections
<1>3. after \in Memory!Collections
  BY <1>2 DEF Memory!Collections, Memory!Entry
<1>4. Memory!Agrees(c, collection[c])
  BY <1>1 DEF Memory!MemoryInv
<1>5. Memory!Agrees(c, after)
  <2> HIDE DEF n
  <2>1. \A e \in collection[c].entries : e.sequence \in Nat
    BY <1>2 DEF Memory!Entry
  <2>2. \A m \in stored : m.sequence \in Nat
    BY DEF Memory!MemoryInv, Memory!MemoryTypes
  <2> QED
    BY <1>2, <1>4, <2>1, <2>2 DEF Memory!Agrees
<1> HIDE DEF after
<1> QED
  BY <1>1, <1>3, <1>5, CollectionSaved

\* Forgetting a memory does not give its number back.
LEMMA MemoryForgotten ==
    ASSUME Memory!MemoryInv, NEW c \in Memory!Scope, Memory!Forget(c)
    PROVE  Memory!MemoryInv'
<1>1. PICK e \in collection[c].entries :
        Memory!Replace(c, [collection[c] EXCEPT !.entries = @ \ {e}])
        /\ Memory!Save(c, [collection[c] EXCEPT !.entries = @ \ {e}])
  BY DEF Memory!Forget
<1> DEFINE after == [collection[c] EXCEPT !.entries = @ \ {e}]
<1>2. activated /\ UNCHANGED <<activated, available>>
  BY DEF Memory!Forget
<1>3. c \in available /\ Memory!Agrees(c, collection[c])
  BY <1>1, <1>2 DEF Memory!MemoryInv
<1>4. collection[c] \in Memory!Collections
  BY DEF Memory!MemoryInv, Memory!MemoryTypes
<1>5. after \in Memory!Collections /\ after.entries \subseteq collection[c].entries
      /\ after.next_sequence = collection[c].next_sequence
  BY <1>4 DEF Memory!Collections
<1> HIDE DEF after
<1>6. Memory!Agrees(c, after)
  BY <1>3, <1>5 DEF Memory!Agrees
<1> QED
  BY <1>1, <1>2, <1>3, <1>5, <1>6, CollectionSaved DEF after

\* Every step of memory-plugin keeps MemoryInv.
LEMMA MemoryStep ==
    ASSUME Memory!MemoryInv, Memory!Next \/ UNCHANGED memoryVars
    PROVE  Memory!MemoryInv'
<1>1. CASE UNCHANGED memoryVars
  BY <1>1 DEF memoryVars, Memory!MemoryInv, Memory!MemoryTypes, Memory!IdsNeverReused,
              Memory!Agrees
<1>2. CASE Memory!Activate
  <2> USE DEF Memory!MemoryInv, Memory!Activate
  <2>1. Memory!MemoryTypes'
    BY <1>2 DEF Memory!MemoryTypes, Memory!Empty, Memory!Collections, Memory!Scope
  <2>2. Memory!IdsNeverReused'
    BY <1>2 DEF Memory!IdsNeverReused
  <2> QED
    BY <1>2, <2>1, <2>2 DEF Memory!Agrees, Memory!Empty, Memory!Scope, Memory!MemoryTypes
<1>3. CASE Memory!Stop
  <2> USE DEF Memory!MemoryInv, Memory!Stop
  <2>1. Memory!MemoryTypes'
    BY <1>3 DEF Memory!MemoryTypes, Memory!Empty, Memory!Collections
  <2> QED
    BY <1>3, <2>1 DEF Memory!Agrees, Memory!Empty, Memory!IdsNeverReused
<1> QED
  BY <1>1, <1>2, <1>3, MemoryRecorded, MemoryForgotten DEF Memory!Next

------------------------------------------------------------------------------
(* Filters.                                                                *)

\* A place found later in a sequence is a later position of it.
LEMMA PlaceRises ==
    ASSUME NEW n \in Nat, NEW at \in SUBSET (1..n)
    PROVE  /\ IsFiniteSet(at) /\ Cardinality(at) \in Nat
           /\ \A i \in at : Place(at, i) \in 1..Cardinality(at)
           /\ \A i, j \in at : i < j => Place(at, i) < Place(at, j)
<1> DEFINE upto(i) == {j \in at : j <= i}
<1>1. IsFiniteSet(at)
  <2>1. IsFiniteSet(1..n)
    BY FS_Interval
  <2> QED
    BY <2>1, FS_Subset
<1>2. \A i \in at : IsFiniteSet(upto(i)) /\ Cardinality(upto(i)) \in Nat
                    /\ Cardinality(upto(i)) <= Cardinality(at)
  <2> SUFFICES ASSUME NEW i \in at PROVE IsFiniteSet(upto(i)) /\ Cardinality(upto(i)) \in Nat
                    /\ Cardinality(upto(i)) <= Cardinality(at)
    OBVIOUS
  <2>1. upto(i) \in SUBSET at
    OBVIOUS
  <2> HIDE DEF upto
  <2> QED
    BY <1>1, <2>1, FS_Subset, FS_CardinalityType
<1>3. \A i, j \in at : i < j => Cardinality(upto(i)) < Cardinality(upto(j))
  <2> SUFFICES ASSUME NEW i \in at, NEW j \in at, i < j
               PROVE  Cardinality(upto(i)) < Cardinality(upto(j))
    OBVIOUS
  <2>0. i \in Int /\ j \in Int /\ \A k \in at : k <= i => k <= j
    OBVIOUS
  <2>a. ~(j <= i) /\ j <= j
    BY <2>0
  <2>1. upto(i) \in SUBSET upto(j) /\ j \in upto(j) /\ j \notin upto(i)
    BY <2>0, <2>a, Zenon
  <2>2. IsFiniteSet(upto(j)) /\ Cardinality(upto(j)) \in Nat /\ Cardinality(upto(i)) \in Nat
    BY <1>2
  <2> HIDE DEF upto
  <2>3. Cardinality(upto(i)) <= Cardinality(upto(j)) /\ Cardinality(upto(i)) # Cardinality(upto(j))
    BY <2>1, <2>2, FS_Subset
  <2> QED
    BY <2>2, <2>3
<1>4. \A i \in at : Cardinality(upto(i)) >= 1
  <2> SUFFICES ASSUME NEW i \in at PROVE Cardinality(upto(i)) >= 1
    OBVIOUS
  <2>1. i \in upto(i)
    OBVIOUS
  <2>2. IsFiniteSet(upto(i)) /\ Cardinality(upto(i)) \in Nat
    BY <1>2
  <2> HIDE DEF upto
  <2> QED
    BY <2>1, <2>2, FS_EmptySet
<1>5. Cardinality(at) \in Nat
  BY <1>1, FS_CardinalityType
<1> QED
  BY <1>1, <1>2, <1>3, <1>4, <1>5 DEF Place

\* What Among keeps of a sequence keeps its order.
LEMMA AmongInOrder ==
    ASSUME NEW S, NEW s \in Seq(S), NEW at \in SUBSET DOMAIN s
    PROVE  /\ Among(s, at) \in Seq(S) /\ Len(Among(s, at)) = Cardinality(at)
           /\ Cardinality(at) \in Nat /\ DOMAIN Among(s, at) = 1..Cardinality(at)
           /\ \E g \in [1..Cardinality(at) -> at] :
                /\ \A k \in 1..Cardinality(at) : Among(s, at)[k] = s[g[k]]
                /\ \A k, l \in 1..Cardinality(at) : k < l => g[k] < g[l]
                /\ \A i \in at : \E k \in 1..Cardinality(at) : g[k] = i
<1> DEFINE n == Cardinality(at)
           place == [i \in at |-> Place(at, i)]
           g == [k \in 1..n |-> CHOOSE i \in at : Place(at, i) = k]
<1>0. Len(s) \in Nat /\ DOMAIN s = 1..Len(s)
  OBVIOUS
<1>1. /\ IsFiniteSet(at) /\ n \in Nat
      /\ \A i \in at : Place(at, i) \in 1..n
      /\ \A i, j \in at : i < j => Place(at, i) < Place(at, j)
  BY <1>0, PlaceRises
<1>2. \A i, j \in at : Place(at, i) = Place(at, j) => i = j
  BY <1>0, <1>1
<1>3. place \in Injection(at, 1..n)
  BY <1>1, <1>2 DEF Injection, IsInjective
<1>4. IsFiniteSet(1..n) /\ Cardinality(1..n) = n
  BY <1>1, FS_Interval
<1>5. place \in Surjection(at, 1..n)
  <2> HIDE DEF place
  <2> QED
    BY <1>3, <1>4, FS_Injection
<1>6. \A k \in 1..n : \E i \in at : Place(at, i) = k
  BY <1>5 DEF Surjection
<1>7. \A k \in 1..n : g[k] \in at /\ Place(at, g[k]) = k
  BY <1>6
<1>8. g \in [1..n -> at]
  BY <1>7
<1>9. \A i \in at : Place(at, i) \in 1..n /\ g[Place(at, i)] = i
  BY <1>1, <1>2, <1>7
<1>10. \A k, l \in 1..n : k < l => g[k] < g[l]
  <2> SUFFICES ASSUME NEW k \in 1..n, NEW l \in 1..n, k < l, ~(g[k] < g[l]) PROVE FALSE
    OBVIOUS
  <2>1. g[k] \in 1..Len(s) /\ g[l] \in 1..Len(s)
    BY <1>0, <1>7
  <2>2. g[l] < g[k] \/ g[l] = g[k]
    BY <2>1
  <2> HIDE DEF g
  <2> QED
    BY <1>1, <1>7, <2>2
<1>11. DOMAIN Among(s, at) = 1..n /\ \A k \in 1..n : Among(s, at)[k] = s[g[k]]
  BY DEF Among
<1>12. Among(s, at) = [k \in 1..n |-> s[g[k]]]
  BY DEF Among
<1> HIDE DEF g
<1>13. Among(s, at) \in [1..n -> S]
  BY <1>8, <1>12, <1>0
<1>14. Among(s, at) \in Seq(S) /\ Len(Among(s, at)) = n
  BY <1>13, <1>1
<1>15. /\ \A k \in 1..n : Among(s, at)[k] = s[g[k]]
       /\ \A k, l \in 1..n : k < l => g[k] < g[l]
       /\ \A i \in at : \E k \in 1..n : g[k] = i
  BY <1>9, <1>10, <1>11
<1>16. \E h \in [1..n -> at] :
          /\ \A k \in 1..n : Among(s, at)[k] = s[h[k]]
          /\ \A k, l \in 1..n : k < l => h[k] < h[l]
          /\ \A i \in at : \E k \in 1..n : h[k] = i
  BY <1>8, <1>15
<1>17. DOMAIN Among(s, at) = 1..n
  BY <1>11
<1> QED
  BY <1>1, <1>14, <1>16, <1>17

\* Among keeps exactly the elements that are in the set.
LEMMA AmongOf ==
    ASSUME NEW S, NEW s \in Seq(S), NEW at \in SUBSET DOMAIN s
    PROVE  /\ Among(s, at) \in Seq(S)
           /\ \A k \in DOMAIN Among(s, at) : \E i \in at : Among(s, at)[k] = s[i]
           /\ \A i \in at : \E k \in DOMAIN Among(s, at) : Among(s, at)[k] = s[i]
           /\ \A k, l \in DOMAIN Among(s, at) : k # l =>
                 \E i, j \in at : i # j /\ Among(s, at)[k] = s[i] /\ Among(s, at)[l] = s[j]
<1> DEFINE n == Cardinality(at)
<1>1. PICK g \in [1..n -> at] :
        /\ \A k \in 1..n : Among(s, at)[k] = s[g[k]]
        /\ \A k, l \in 1..n : k < l => g[k] < g[l]
        /\ \A i \in at : \E k \in 1..n : g[k] = i
  BY AmongInOrder
<1>2. Among(s, at) \in Seq(S) /\ n \in Nat /\ DOMAIN Among(s, at) = 1..n
  BY AmongInOrder
<1>3. \A k, l \in 1..n : k # l => g[k] # g[l]
  <2>1. \A k \in 1..n : g[k] \in Int
    BY <1>1
  <2>2. \A k, l \in 1..n : k # l => k < l \/ l < k
    BY <1>2
  <2> QED
    BY <1>1, <2>1, <2>2
<1>4. \A k \in DOMAIN Among(s, at) : g[k] \in at /\ Among(s, at)[k] = s[g[k]]
  BY <1>1, <1>2
<1>5. \A i \in at : \E k \in DOMAIN Among(s, at) : Among(s, at)[k] = s[i]
  BY <1>1, <1>2
<1>6. \A k, l \in DOMAIN Among(s, at) : k # l =>
                 \E i, j \in at : i # j /\ Among(s, at)[k] = s[i] /\ Among(s, at)[l] = s[j]
  BY <1>2, <1>3, <1>4
<1> HIDE DEF n
<1> QED
  BY <1>2, <1>4, <1>5, <1>6

------------------------------------------------------------------------------
(* permission-plugin.                                                      *)

\* Approvals and Filters name the same filter.
LEMMA SameAmong == \A s, at : Approval!Among(s, at) = Among(s, at)
<1> TAKE s, at
<1>1. \A S : Approval!Cardinality(S) = Cardinality(S)
  BY DEF Approval!Cardinality, Cardinality
<1>2. \A i : Approval!Place(at, i) = Place(at, i)
  BY <1>1 DEF Approval!Place, Place
<1> DEFINE a(k) == CHOOSE i \in at : Approval!Place(at, i) = k
           b(k) == CHOOSE i \in at : Place(at, i) = k
<1>3. \A k : a(k) = b(k)
  BY <1>2
<1>4. Approval!Among(s, at) = [k \in 1..Cardinality(at) |-> s[a(k)]]
  BY <1>1 DEF Approval!Among
<1>5. Among(s, at) = [k \in 1..Cardinality(at) |-> s[b(k)]]
  BY DEF Among
<1> HIDE DEF a, b
<1> QED
  BY <1>3, <1>4, <1>5

------------------------------------------------------------------------------
\* The fields of a call that asks for approval.
LEMMA AskedFields ==
    ASSUME Approval!ApprovalTypes, NEW r \in Run, asks[r] # NoCall
    PROVE  /\ asks[r].call \in RunCall /\ asks[r].dir \in Directory \cup {NoDirectory}
           /\ asks[r].kind \in {"control", "blocked", "write", "read"}
           /\ Approval!Key(r) \in Approval!Keys /\ Approval!Rule(r) \in Approval!Rules
           /\ Approval!Card(r) \in Approval!Cards
           /\ Approval!Card(r).key = Approval!Key(r) /\ Approval!Card(r).rule = Approval!Rule(r)
           /\ Approval!Key(r).run = r /\ Approval!Key(r).call = asks[r].call
           /\ Approval!Rule(r).run = r /\ Approval!Rule(r).dir = asks[r].dir
<1>1. asks[r] \in Approval!Asked
  BY DEF Approval!ApprovalTypes
<1>2. /\ asks[r].call \in RunCall /\ asks[r].dir \in Directory \cup {NoDirectory}
      /\ asks[r].kind \in {"control", "blocked", "write", "read"}
  BY <1>1 DEF Approval!Asked
<1> QED
  BY <1>2 DEF Approval!Key, Approval!Rule, Approval!Card, Approval!Keys, Approval!Rules, Approval!Cards

\* Nothing is asked, pending or answered when the plugin starts.
LEMMA ApprovalBegins == Approval!Init => Approval!ApprovalInv
BY DEF Approval!Init, Approval!ApprovalInv, Approval!ApprovalTypes, Approval!AskedOnce,
       Approval!AskedAnew, Approval!AnswerWaits, Approval!RulesGiven

\* Whoever asks is new to the plugin.
LEMMA CallAsked ==
    ASSUME Approval!ApprovalInv, NEW r \in Run, Approval!Ask(r)
    PROVE  Approval!ApprovalInv'
<1> USE DEF Approval!ApprovalInv
<1>1. PICK a \in Approval!Asked :
        a.call \notin used[r] /\ asks' = [asks EXCEPT ![r] = a]
        /\ used' = [used EXCEPT ![r] = @ \cup {a.call}]
  BY DEF Approval!Ask
<1>2. /\ asks[r] = NoCall /\ verdict' = [verdict EXCEPT ![r] = "none"]
      /\ UNCHANGED <<mode, approvalPending, resolutions, allowed_similar, ended, modes, answered>>
  BY DEF Approval!Ask
<1>3. a.call \in RunCall
  BY DEF Approval!Asked
<1>4. Approval!ApprovalTypes'
  BY <1>1, <1>2, <1>3 DEF Approval!ApprovalTypes
<1>5. Approval!AskedOnce' /\ Approval!RulesGiven'
  BY <1>2 DEF Approval!AskedOnce, Approval!RulesGiven
<1>6. \A q \in Run : used[q] \subseteq used'[q] /\ (q # r => asks'[q] = asks[q])
  BY <1>1 DEF Approval!ApprovalTypes
<1>a. asks'[r] = a /\ a.call \in used'[r] /\ verdict'[r] = "none" /\ used[r] \subseteq RunCall
      /\ \A q \in Run \ {r} : verdict'[q] = verdict[q]
  BY <1>1, <1>2 DEF Approval!ApprovalTypes
<1>7. Approval!AskedAnew'
  <2>1. /\ \A i \in DOMAIN approvalPending : approvalPending[i].key.run \in Run
        /\ \A x \in answered : x.key.run \in Run
    <3>1. \A i \in DOMAIN approvalPending : approvalPending[i] \in Approval!Cards
      BY DEF Approval!ApprovalTypes
    <3> QED
      BY <3>1 DEF Approval!ApprovalTypes, Approval!Cards, Approval!Keys, Approval!Answers
  <2>2. \A q \in Run : asks'[q] # NoCall => asks'[q].call \in used'[q] /\ verdict'[q] = "none"
    BY <1>6, <1>a DEF Approval!AskedAnew
  <2> QED
    BY <1>2, <1>6, <2>1, <2>2 DEF Approval!AskedAnew
<1>8. Approval!AnswerWaits'
  <2>1. \A i \in DOMAIN approvalPending : approvalPending[i].key # [run |-> r, call |-> a.call]
    BY <1>1 DEF Approval!AskedAnew
  <2>2. \A x \in answered : x.key # [run |-> r, call |-> a.call] /\ ~(x.key.run = r /\ x.key.call = a.call)
    BY <1>1 DEF Approval!AskedAnew
  <2>3. \A x \in resolutions : x.key # [run |-> r, call |-> a.call]
    BY <2>2 DEF Approval!AnswerWaits
  <2>4. \A x \in answered : x.key.run \in Run
    BY DEF Approval!ApprovalTypes, Approval!Keys, Approval!Answers
  <2>5. \A x \in answered : asks'[x.key.run] # NoCall /\ asks'[x.key.run].call = x.key.call =>
          \E y \in resolutions : y.key = x.key
    BY <1>6, <1>a, <2>2, <2>4 DEF Approval!AnswerWaits
  <2>6. ASSUME NEW q \in Run, asks'[q] # NoCall, asks'[q].kind = "blocked"
        PROVE  /\ \A i \in DOMAIN approvalPending : approvalPending[i].key # [run |-> q, call |-> asks'[q].call]
               /\ \A x \in resolutions : x.key # [run |-> q, call |-> asks'[q].call]
    BY <2>6, <1>6, <1>a, <2>1, <2>3 DEF Approval!AnswerWaits, Approval!Key
  <2> QED
    BY <1>2, <2>5, <2>6 DEF Approval!AnswerWaits, Approval!Key
<1> QED
  BY <1>4, <1>5, <1>7, <1>8

\* A call that is decided is no longer asked for; what waits may go with it.
LEMMA CallDecided ==
    ASSUME Approval!ApprovalInv, NEW r \in Run, NEW v \in {"ran", "refused"},
           Approval!Decide(r, v), asks[r] # NoCall,
           approvalPending' \in Seq(Approval!Cards),
           \A i \in DOMAIN approvalPending' : \E k \in DOMAIN approvalPending :
              approvalPending'[i] = approvalPending[k],
           \A i, j \in DOMAIN approvalPending' :
              approvalPending'[i].key = approvalPending'[j].key => i = j,
           resolutions' \in SUBSET resolutions,
           \A x \in resolutions \ resolutions' : x.key = Approval!Key(r),
           answered \in SUBSET answered', answered' \in SUBSET Approval!Answers,
           \A b \in answered' \ answered :
              /\ b.key = Approval!Key(r)
              /\ \A a \in answered' : a.key = b.key => a = b
              /\ \A i \in DOMAIN approvalPending' : approvalPending'[i].key # b.key
    PROVE  Approval!ApprovalInv'
<1> USE DEF Approval!ApprovalInv
<1>1. /\ asks' = [asks EXCEPT ![r] = NoCall] /\ verdict' = [verdict EXCEPT ![r] = v]
      /\ UNCHANGED <<mode, allowed_similar, used, ended, modes>>
  BY DEF Approval!Decide
<1>2. /\ asks'[r] = NoCall /\ \A q \in Run \ {r} : asks'[q] = asks[q] /\ verdict'[q] = verdict[q]
  BY <1>1 DEF Approval!ApprovalTypes
<1>3. /\ Approval!Key(r).run = r /\ Approval!Key(r).call = asks[r].call
  BY AskedFields
<1>4. Approval!ApprovalTypes'
  BY <1>1 DEF Approval!ApprovalTypes
<1>5. Approval!AskedOnce'
  <2>1. \A a, b \in answered' : a.key = b.key => a = b
    BY DEF Approval!AskedOnce
  <2>2. \A a \in answered', i \in DOMAIN approvalPending' : a.key # approvalPending'[i].key
    BY DEF Approval!AskedOnce
  <2> QED
    BY <2>1, <2>2 DEF Approval!AskedOnce
<1>6. Approval!AskedAnew'
  <2>1. \A a \in answered' : a.key.call \in used[a.key.run]
    BY <1>3 DEF Approval!AskedAnew
  <2> QED
    BY <1>1, <1>2, <2>1 DEF Approval!AskedAnew
<1>7. Approval!AnswerWaits'
  <2>0. \A a \in answered' : a.key.run \in Run
    BY DEF Approval!Answers, Approval!Keys
  <2>1. \A a \in answered' : asks'[a.key.run] # NoCall /\ asks'[a.key.run].call = a.key.call =>
          \E x \in resolutions' : x.key = a.key
    <3> SUFFICES ASSUME NEW a \in answered', asks'[a.key.run] # NoCall,
                        asks'[a.key.run].call = a.key.call
                 PROVE  \E x \in resolutions' : x.key = a.key
      OBVIOUS
    <3>1. a.key.run # r /\ a \in answered /\ asks'[a.key.run] = asks[a.key.run]
      BY <1>2, <1>3, <2>0
    <3>2. PICK x \in resolutions : x.key = a.key
      BY <3>1 DEF Approval!AnswerWaits
    <3> QED
      BY <1>3, <3>1, <3>2
  <2>2. \A x \in resolutions' : \E a \in answered' : a.key = x.key /\ (x.allow => a.what # "refused")
    BY DEF Approval!AnswerWaits
  <2>3. \A q \in Run : asks'[q] # NoCall /\ asks'[q].kind = "blocked" =>
          /\ \A i \in DOMAIN approvalPending' : approvalPending'[i].key # [run |-> q, call |-> asks'[q].call]
          /\ \A x \in resolutions' : x.key # [run |-> q, call |-> asks'[q].call]
    BY <1>2 DEF Approval!AnswerWaits, Approval!Key
  <2> QED
    BY <2>1, <2>2, <2>3 DEF Approval!AnswerWaits, Approval!Key
<1>8. Approval!RulesGiven'
  BY <1>1 DEF Approval!RulesGiven
<1> QED
  BY <1>4, <1>5, <1>6, <1>7, <1>8

\* A call that joins the queue is one the user has not answered, at most once.
LEMMA CallEnqueued ==
    ASSUME Approval!ApprovalInv, NEW r \in Run, Approval!Enqueue(r)
    PROVE  Approval!ApprovalInv'
<1> USE DEF Approval!ApprovalInv
<1>1. /\ asks[r] # NoCall /\ Approval!Resolved(r) = {} /\ asks[r].kind # "blocked"
      /\ approvalPending' = Approval!Queued(r)
      /\ UNCHANGED <<mode, resolutions, allowed_similar, asks, verdict, used, ended, modes, answered>>
  BY DEF Approval!Enqueue, Approval!Unsettled
<1>2. CASE UNCHANGED approvalPending
  BY <1>1, <1>2 DEF Approval!ApprovalTypes, Approval!AskedOnce, Approval!AskedAnew,
                    Approval!AnswerWaits, Approval!RulesGiven, Approval!Key
<1>3. CASE /\ approvalPending' = Append(approvalPending, Approval!Card(r))
           /\ \A i \in DOMAIN approvalPending : approvalPending[i].key # Approval!Key(r)
  <2> DEFINE n == Len(approvalPending)
  <2>1. /\ Approval!Card(r) \in Approval!Cards /\ Approval!Card(r).key = Approval!Key(r)
        /\ Approval!Key(r).run = r /\ Approval!Key(r).call = asks[r].call
        /\ Approval!Card(r).rule.run = r
    BY <1>1, AskedFields
  <2>2. /\ approvalPending \in Seq(Approval!Cards) /\ n \in Nat
        /\ approvalPending' \in Seq(Approval!Cards) /\ DOMAIN approvalPending' = 1..(n+1)
        /\ DOMAIN approvalPending = 1..n
        /\ approvalPending'[n+1] = Approval!Card(r)
        /\ \A i \in 1..n : approvalPending'[i] = approvalPending[i]
    BY <1>3, <2>1 DEF Approval!ApprovalTypes
  <2>a. \A i \in DOMAIN approvalPending' : i = n + 1 \/ i \in DOMAIN approvalPending
    BY <2>2
  <2> HIDE DEF n
  <2>3. \A a \in answered : a.key # Approval!Key(r)
    <3>1. \A x \in resolutions : x.key # Approval!Key(r)
      BY <1>1 DEF Approval!Resolved
    <3> QED
      BY <1>1, <2>1, <3>1 DEF Approval!AnswerWaits
  <2>4. Approval!ApprovalTypes'
    BY <1>1, <2>2 DEF Approval!ApprovalTypes
  <2>5. Approval!AskedOnce'
    BY <1>1, <1>3, <2>1, <2>2, <2>3, <2>a DEF Approval!AskedOnce
  <2>6. Approval!AskedAnew'
    BY <1>1, <2>1, <2>2, <2>a DEF Approval!AskedAnew
  <2>7. Approval!AnswerWaits'
    <3>1. \A q \in Run : asks[q] # NoCall /\ asks[q].kind = "blocked" =>
            \A i \in DOMAIN approvalPending' : approvalPending'[i].key # [run |-> q, call |-> asks[q].call]
      BY <1>1, <2>1, <2>2, <2>a DEF Approval!AnswerWaits, Approval!Key
    <3> QED
      BY <1>1, <3>1 DEF Approval!AnswerWaits, Approval!Key
  <2>8. Approval!RulesGiven'
    BY <1>1, <2>1, <2>2, <2>a DEF Approval!RulesGiven
  <2> QED
    BY <2>4, <2>5, <2>6, <2>7, <2>8
<1> QED
  BY <1>1, <1>2, <1>3 DEF Approval!Queued

\* The user answers the first card.
LEMMA CardPressed ==
    ASSUME Approval!ApprovalInv, NEW what \in {"once", "similar", "refused"},
           Approval!Press(what)
    PROVE  Approval!ApprovalInv'
<1> USE DEF Approval!ApprovalInv
<1> DEFINE card == Head(approvalPending)
           new == [key |-> card.key, allow |-> what # "refused"]
           ans == Approval!Answer(card, what)
<1>1. /\ approvalPending # <<>> /\ approvalPending' = Tail(approvalPending)
      /\ resolutions' = {x \in resolutions : x.key # card.key} \cup {new}
      /\ allowed_similar' = IF what = "similar" THEN allowed_similar \cup {card.rule}
                            ELSE allowed_similar
      /\ answered' = answered \cup {ans}
      /\ UNCHANGED <<mode, asks, verdict, used, ended, modes>>
  BY DEF Approval!Press
<1>2. /\ card \in Approval!Cards /\ card = approvalPending[1] /\ 1 \in DOMAIN approvalPending
      /\ approvalPending' \in Seq(Approval!Cards)
      /\ \A i \in DOMAIN approvalPending' : i + 1 \in DOMAIN approvalPending /\ i + 1 # 1
                                      /\ i \in Nat /\ approvalPending'[i] = approvalPending[i + 1]
  BY <1>1 DEF Approval!ApprovalTypes
<1>3. /\ card.key \in Approval!Keys /\ card.rule \in Approval!Rules /\ card.rule.run = card.key.run
      /\ card.key.call \in used[card.key.run] /\ card.key.run \in Run
  BY <1>2 DEF Approval!Cards, Approval!Keys, Approval!RulesGiven, Approval!AskedAnew
<1>4. /\ ans \in Approval!Answers /\ ans.key = card.key /\ ans.rule = card.rule
      /\ ans.what = what /\ ans.at = modes
  BY <1>3 DEF Approval!Answer, Approval!Answers, Approval!ApprovalTypes
<1>5. /\ new \in [key : Approval!Keys, allow : BOOLEAN] /\ new.key = card.key
      /\ new.allow => what # "refused"
  BY <1>3
<1>6. \A a \in answered : a.key # card.key
  BY <1>2 DEF Approval!AskedOnce
<1>7. \A i \in DOMAIN approvalPending' : approvalPending'[i].key # card.key
  BY <1>2 DEF Approval!AskedOnce
<1> HIDE DEF card, new, ans
<1>8. Approval!ApprovalTypes'
  BY <1>1, <1>2, <1>3, <1>4, <1>5 DEF Approval!ApprovalTypes
<1>9. Approval!AskedOnce'
  <2>1. \A i, j \in DOMAIN approvalPending' : approvalPending'[i].key = approvalPending'[j].key => i = j
    BY <1>2 DEF Approval!AskedOnce
  <2>2. \A a, b \in answered' : a.key = b.key => a = b
    BY <1>1, <1>4, <1>6 DEF Approval!AskedOnce
  <2>3. \A a \in answered', i \in DOMAIN approvalPending' : a.key # approvalPending'[i].key
    BY <1>1, <1>2, <1>4, <1>7 DEF Approval!AskedOnce
  <2> QED
    BY <2>1, <2>2, <2>3 DEF Approval!AskedOnce
<1>10. Approval!AskedAnew'
  BY <1>1, <1>2, <1>3, <1>4 DEF Approval!AskedAnew
<1>11. Approval!AnswerWaits'
  <2>1. \A a \in answered' : asks[a.key.run] # NoCall /\ asks[a.key.run].call = a.key.call =>
          \E x \in resolutions' : x.key = a.key
    BY <1>1, <1>4, <1>5 DEF Approval!AnswerWaits
  <2>2. \A x \in resolutions' : \E a \in answered' : a.key = x.key /\ (x.allow => a.what # "refused")
    BY <1>1, <1>4, <1>5 DEF Approval!AnswerWaits
  <2>3. \A q \in Run : asks[q] # NoCall /\ asks[q].kind = "blocked" =>
          /\ \A i \in DOMAIN approvalPending' : approvalPending'[i].key # Approval!Key(q)
          /\ \A x \in resolutions' : x.key # Approval!Key(q)
    BY <1>1, <1>2, <1>5 DEF Approval!AnswerWaits
  <2> QED
    BY <1>1, <2>1, <2>2, <2>3 DEF Approval!AnswerWaits, Approval!Key
<1>12. Approval!RulesGiven'
  <2>1. \A i \in DOMAIN approvalPending' : approvalPending'[i].rule.run = approvalPending'[i].key.run
    BY <1>2 DEF Approval!RulesGiven
  <2>2. \A x \in allowed_similar' : \E a \in answered' :
          a.what = "similar" /\ a.key.run = x.run /\ a.at = modes /\ a.rule.dir = x.dir
    BY <1>1, <1>3, <1>4 DEF Approval!RulesGiven
  <2> QED
    BY <1>1, <2>1, <2>2 DEF Approval!RulesGiven
<1> QED
  BY <1>8, <1>9, <1>10, <1>11, <1>12

\* The end of a run removes its calls from the queue and forgets nobody else's.
LEMMA ApprovalRunFinish ==
    ASSUME Approval!ApprovalInv, NEW r \in Run, Approval!Finish(r)
    PROVE  Approval!ApprovalInv'
<1> USE DEF Approval!ApprovalInv
<1>1. /\ asks' = [asks EXCEPT ![r] = NoCall]
      /\ UNCHANGED <<mode, verdict, used, modes, answered>>
  BY DEF Approval!Finish
<1>2. \A q \in Run : asks'[q] # NoCall => q # r /\ asks'[q] = asks[q]
  BY <1>1 DEF Approval!ApprovalTypes
<1>3. /\ approvalPending' \in Seq(Approval!Cards)
      /\ \A k \in DOMAIN approvalPending' : \E i \in DOMAIN approvalPending :
            approvalPending'[k] = approvalPending[i]
      /\ \A k, l \in DOMAIN approvalPending' : k # l =>
            \E i, j \in DOMAIN approvalPending : i # j /\ approvalPending'[k] = approvalPending[i]
                                                 /\ approvalPending'[l] = approvalPending[j]
      /\ resolutions' \subseteq resolutions /\ allowed_similar' \subseteq allowed_similar
      /\ \A x \in resolutions \ resolutions' : x.key.run = r
  <2> DEFINE at == {i \in DOMAIN approvalPending : approvalPending[i].key.run # r}
  <2>1. approvalPending \in Seq(Approval!Cards) /\ at \in SUBSET DOMAIN approvalPending
    BY DEF Approval!ApprovalTypes
  <2>2. CASE UNCHANGED <<approvalPending, resolutions, allowed_similar>>
    BY <2>1, <2>2
  <2>3. CASE /\ approvalPending' = Approval!Among(approvalPending, at)
             /\ resolutions' = {x \in resolutions : x.key.run # r}
             /\ allowed_similar' = {x \in allowed_similar : x.run # r}
    <3> HIDE DEF at
    <3>1. approvalPending' = Among(approvalPending, at)
      BY <2>3, SameAmong
    <3> QED
      BY <2>1, <2>3, <3>1, AmongOf
  <2> QED
    BY <2>2, <2>3 DEF Approval!Finish
<1>4. Approval!ApprovalTypes'
  BY <1>1, <1>3 DEF Approval!ApprovalTypes
<1>5. Approval!AskedOnce'
  <2>1. \A i, j \in DOMAIN approvalPending' : approvalPending'[i].key = approvalPending'[j].key => i = j
    BY <1>3 DEF Approval!AskedOnce
  <2>2. \A a \in answered, i \in DOMAIN approvalPending' : a.key # approvalPending'[i].key
    BY <1>3 DEF Approval!AskedOnce
  <2> QED
    BY <1>1, <2>1, <2>2 DEF Approval!AskedOnce
<1>6. Approval!AskedAnew'
  BY <1>1, <1>2, <1>3 DEF Approval!AskedAnew
<1>7. Approval!AnswerWaits'
  <2>0. \A a \in answered : a.key.run \in Run
    BY DEF Approval!ApprovalTypes, Approval!Answers, Approval!Keys
  <2>1. \A a \in answered : asks'[a.key.run] # NoCall /\ asks'[a.key.run].call = a.key.call =>
          \E x \in resolutions' : x.key = a.key
    BY <1>2, <1>3, <2>0 DEF Approval!AnswerWaits
  <2>2. \A x \in resolutions' : \E a \in answered : a.key = x.key /\ (x.allow => a.what # "refused")
    BY <1>3 DEF Approval!AnswerWaits
  <2>3. \A q \in Run : asks'[q] # NoCall /\ asks'[q].kind = "blocked" =>
          /\ \A i \in DOMAIN approvalPending' : approvalPending'[i].key # [run |-> q, call |-> asks'[q].call]
          /\ \A x \in resolutions' : x.key # [run |-> q, call |-> asks'[q].call]
    BY <1>2, <1>3 DEF Approval!AnswerWaits, Approval!Key
  <2> QED
    BY <1>1, <2>1, <2>2, <2>3 DEF Approval!AnswerWaits, Approval!Key
<1>8. Approval!RulesGiven'
  BY <1>1, <1>3 DEF Approval!RulesGiven
<1> QED
  BY <1>4, <1>5, <1>6, <1>7, <1>8

\* Every step of permission-plugin keeps ApprovalInv.
LEMMA ApprovalStep ==
    ASSUME Approval!ApprovalInv, Approval!Next \/ UNCHANGED approvalVars
    PROVE  Approval!ApprovalInv'
<1> USE DEF Approval!ApprovalInv
<1>1. CASE UNCHANGED approvalVars
  BY <1>1 DEF approvalVars, Approval!ApprovalTypes, Approval!AskedOnce, Approval!AskedAnew,
              Approval!AnswerWaits, Approval!RulesGiven, Approval!Key
<1>0. /\ approvalPending \in Seq(Approval!Cards) /\ answered \in SUBSET Approval!Answers
      /\ \A i, j \in DOMAIN approvalPending : approvalPending[i].key = approvalPending[j].key => i = j
  BY DEF Approval!ApprovalTypes, Approval!AskedOnce
<1>2. ASSUME NEW r \in Run, Approval!Fetch(r) PROVE Approval!ApprovalInv'
  <2>1. PICK x \in Approval!Resolved(r) :
          resolutions' = resolutions \ {x} /\ Approval!Decide(r, IF x.allow THEN "ran" ELSE "refused")
    BY <1>2 DEF Approval!Fetch
  <2>2. asks[r] # NoCall /\ UNCHANGED <<approvalPending, answered>> /\ x.key = Approval!Key(r)
    BY <1>2 DEF Approval!Fetch, Approval!Resolved
  <2> QED
    BY <1>0, <2>1, <2>2, CallDecided
<1>3. ASSUME NEW r \in Run, Approval!Refuse(r) \/ Approval!Pass(r) \/ Approval!TimeOut(r)
      PROVE  Approval!ApprovalInv'
  <2>1. /\ asks[r] # NoCall /\ UNCHANGED <<approvalPending, resolutions, answered>>
        /\ \E v \in {"ran", "refused"} : Approval!Decide(r, v)
    BY <1>3 DEF Approval!Refuse, Approval!Pass, Approval!TimeOut
  <2> QED
    BY <1>0, <2>1, CallDecided
<1>4. ASSUME NEW r \in Run, Approval!Review(r) PROVE Approval!ApprovalInv'
  <2> DEFINE at == {i \in DOMAIN approvalPending : approvalPending[i].key # Approval!Key(r)}
  <2>1. PICK v \in {"ran", "refused"} :
          Approval!Decide(r, v)
          /\ answered' = answered \cup {Approval!Answer(Approval!Card(r), v)}
    BY <1>4 DEF Approval!Review
  <2>2. /\ asks[r] # NoCall /\ Approval!Resolved(r) = {}
        /\ approvalPending' = Approval!Among(approvalPending, at) /\ UNCHANGED resolutions
    BY <1>4 DEF Approval!Review, Approval!Unsettled, Approval!Without
  <2>3. /\ Approval!Card(r) \in Approval!Cards /\ Approval!Card(r).key = Approval!Key(r)
        /\ Approval!Card(r).rule \in Approval!Rules /\ Approval!Key(r) \in Approval!Keys
        /\ Approval!Key(r).run = r /\ Approval!Key(r).call = asks[r].call
    BY <2>2, AskedFields
  <2> DEFINE ans == Approval!Answer(Approval!Card(r), v)
  <2>4. ans \in Approval!Answers /\ ans.key = Approval!Key(r)
    BY <2>3 DEF Approval!Answer, Approval!Answers, Approval!ApprovalTypes
  <2>5. \A a \in answered : a.key # Approval!Key(r)
    <3>1. \A x \in resolutions : x.key # Approval!Key(r)
      BY <2>2 DEF Approval!Resolved
    <3> QED
      BY <2>2, <2>3, <3>1 DEF Approval!AnswerWaits
  <2>6. /\ at \in SUBSET DOMAIN approvalPending
        /\ \A i \in at : approvalPending[i].key # Approval!Key(r)
    OBVIOUS
  <2> HIDE DEF at, ans
  <2>7. /\ approvalPending' \in Seq(Approval!Cards)
        /\ \A k \in DOMAIN approvalPending' : \E i \in at : approvalPending'[k] = approvalPending[i]
        /\ \A k, l \in DOMAIN approvalPending' : k # l =>
              \E i, j \in at : i # j /\ approvalPending'[k] = approvalPending[i]
                                     /\ approvalPending'[l] = approvalPending[j]
    <3>1. approvalPending' = Among(approvalPending, at)
      BY <2>2, SameAmong
    <3> QED
      BY <1>0, <2>6, <3>1, AmongOf
  <2>8. \A i, j \in DOMAIN approvalPending' :
              approvalPending'[i].key = approvalPending'[j].key => i = j
    BY <1>0, <2>6, <2>7
  <2>9. /\ \A i \in DOMAIN approvalPending' : \E k \in DOMAIN approvalPending :
              approvalPending'[i] = approvalPending[k]
        /\ \A i \in DOMAIN approvalPending' : approvalPending'[i].key # Approval!Key(r)
    BY <2>6, <2>7
  <2>10. answered' = answered \cup {ans}
    BY <2>1 DEF ans
  <2>11. /\ answered \in SUBSET answered' /\ answered' \in SUBSET Approval!Answers
         /\ \A b \in answered' \ answered :
              /\ b.key = Approval!Key(r)
              /\ \A a \in answered' : a.key = b.key => a = b
              /\ \A i \in DOMAIN approvalPending' : approvalPending'[i].key # b.key
    BY <1>0, <2>4, <2>5, <2>9, <2>10
  <2>12. resolutions' \in SUBSET resolutions /\ \A x \in resolutions \ resolutions' : x.key = Approval!Key(r)
    BY <2>2
  <2> QED
    BY <2>1, <2>2, <2>7, <2>8, <2>9, <2>11, <2>12, CallDecided
<1>5. ASSUME NEW m, Approval!SetMode(m) PROVE Approval!ApprovalInv'
  BY <1>5 DEF Approval!SetMode, Approval!ApprovalTypes, Approval!AskedOnce, Approval!AskedAnew,
              Approval!AnswerWaits, Approval!RulesGiven, Approval!Key
<1> QED
  BY <1>1, <1>2, <1>3, <1>4, <1>5, CallAsked, CallEnqueued, CardPressed, ApprovalRunFinish
  DEF Approval!Next

\* Whoever gets to run was free to, or was allowed to by an answer that was meant for it.
LEMMA RunsAllowed ==
    ASSUME Approval!ApprovalInv, Approval!Next \/ UNCHANGED approvalVars
    PROVE  Approval!NeverUnasked
<1> USE DEF Approval!ApprovalInv
<1> SUFFICES ASSUME NEW r \in Run, asks[r] # NoCall, verdict'[r] = "ran", asks'[r] = NoCall,
                    asks[r].kind # "control"
             PROVE  /\ asks[r].kind # "blocked"
                    /\ \/ mode = "allow_all"
                       \/ \E a \in answered' :
                            \/ a.key = Approval!Key(r) /\ a.what # "refused"
                            \/ /\ a.what = "similar" /\ a.key.run = r /\ a.at = modes
                               /\ a.rule.dir = asks[r].dir
  BY DEF Approval!NeverUnasked
<1>0. verdict[r] = "none" /\ asks \in [Run -> Approval!Asked \cup {NoCall}]
      /\ verdict \in [Run -> {"none", "ran", "refused"}]
      /\ Approval!Rule(r).run = r /\ Approval!Rule(r).dir = asks[r].dir
  BY AskedFields DEF Approval!AskedAnew, Approval!ApprovalTypes
<1>1. CASE Approval!Fetch(r)
  <2>1. PICK x \in Approval!Resolved(r) : Approval!Decide(r, IF x.allow THEN "ran" ELSE "refused")
    BY <1>1 DEF Approval!Fetch
  <2>2. x \in resolutions /\ x.key = Approval!Key(r) /\ UNCHANGED answered /\ x.allow
    BY <1>0, <1>1, <2>1 DEF Approval!Fetch, Approval!Resolved, Approval!Decide
  <2> QED
    BY <2>2 DEF Approval!AnswerWaits
<1>2. CASE Approval!Pass(r)
  <2>1. Approval!Free(r) /\ UNCHANGED answered
    BY <1>2 DEF Approval!Pass
  <2>2. CASE Approval!Rule(r) \in allowed_similar
    BY <1>0, <2>1, <2>2 DEF Approval!Free, Approval!RulesGiven
  <2> QED
    BY <2>1, <2>2 DEF Approval!Free
<1>3. CASE Approval!Review(r)
  <2>1. PICK v \in {"ran", "refused"} :
          Approval!Decide(r, v)
          /\ answered' = answered \cup {Approval!Answer(Approval!Card(r), v)}
    BY <1>3 DEF Approval!Review
  <2>2. v = "ran" /\ asks[r].kind # "blocked"
    BY <1>0, <1>3, <2>1 DEF Approval!Review, Approval!Unsettled, Approval!Decide
  <2>3. /\ Approval!Answer(Approval!Card(r), v) \in answered'
        /\ Approval!Answer(Approval!Card(r), v).key = Approval!Key(r)
        /\ Approval!Answer(Approval!Card(r), v).what = v
    BY <2>1 DEF Approval!Answer, Approval!Card
  <2> QED
    BY <2>2, <2>3
<1>4. CASE \/ UNCHANGED <<asks, verdict>>
           \/ \E q \in Run : \E v : q # r /\ Approval!Decide(q, v)
           \/ \E q \in Run : Approval!Ask(q) \/ Approval!Finish(q)
           \/ Approval!Refuse(r) \/ Approval!TimeOut(r)
  BY <1>0, <1>4 DEF Approval!Decide, Approval!Ask, Approval!Finish, Approval!Refuse, Approval!TimeOut
<1>5. ASSUME NEW q \in Run, q # r, Approval!Fetch(q) \/ Approval!Refuse(q) \/ Approval!Pass(q)
                                   \/ Approval!Review(q) \/ Approval!TimeOut(q)
      PROVE  \E v : Approval!Decide(q, v)
  BY <1>5 DEF Approval!Fetch, Approval!Refuse, Approval!Pass, Approval!Review, Approval!TimeOut
<1>6. ASSUME \/ UNCHANGED approvalVars
             \/ \E q \in Run : Approval!Enqueue(q)
             \/ \E what : Approval!Press(what)
             \/ \E m : Approval!SetMode(m)
      PROVE  UNCHANGED <<asks, verdict>>
  BY <1>6 DEF approvalVars, Approval!Enqueue, Approval!Press, Approval!SetMode
<1> QED
  BY <1>1, <1>2, <1>3, <1>4, <1>5, <1>6 DEF Approval!Next

------------------------------------------------------------------------------
(* plan-plugin.                                                            *)

\* Before any plan is written the invariant of the plan book holds.
LEMMA PlanBegins == Plan!Init => Plan!PlanInv
BY DEF Plan!Init, Plan!PlanInv, Plan!PlanTypes, Plan!RunsApart, Plan!NoPhantomProgress,
       Plan!NoPlan, Plan!Plans

\* A session's plan as a call of it may make it, others as they were or gone.
LEMMA PlanWritten ==
    ASSUME Plan!PlanInv, NEW s \in PlanSession, NEW b, NEW outcome \in Plan!Outcome,
           planRunning[s] # 0, b \in [PlanSession -> Plan!Plans],
           \A t \in PlanSession : b[t] # Plan!NoPlan =>
              \/ b[t] = book[t]
              \/ t = s /\ b[t].run \in {planRunning[s], 0},
           Plan!Persist(outcome, b),
           planSequence' \in Nat, UNCHANGED <<planRunning, starts, settled>>
    PROVE  Plan!PlanInv'
<1> USE DEF Plan!PlanInv
<1>1. book' \in {book, b} /\ bookFile' \in {bookFile, b}
  BY DEF Plan!Persist
<1>2. Plan!PlanTypes'
  BY <1>1 DEF Plan!PlanTypes
<1>3. planRunning[s] \in Nat /\ starts \in Nat /\ planRunning[s] <= starts /\ planRunning[s] \notin settled
      /\ 0 \notin settled
  BY DEF Plan!PlanTypes, Plan!RunsApart
<1>4. \A t \in PlanSession :
         /\ b[t].run <= starts
         /\ \A u \in PlanSession : b[t].run # 0 /\ b[t].run = planRunning[u] => t = u
         /\ b[t].active => b[t].run \notin settled
  <2> SUFFICES ASSUME NEW t \in PlanSession
               PROVE  /\ b[t].run <= starts
                      /\ \A u \in PlanSession : b[t].run # 0 /\ b[t].run = planRunning[u] => t = u
                      /\ b[t].active => b[t].run \notin settled
    OBVIOUS
  <2>1. CASE b[t] = Plan!NoPlan
    BY <1>3, <2>1 DEF Plan!NoPlan
  <2>2. CASE b[t] = book[t]
    BY <2>2 DEF Plan!RunsApart, Plan!NoPhantomProgress
  <2>3. CASE t = s /\ b[t].run \in {planRunning[s], 0}
    BY <1>3, <2>3 DEF Plan!RunsApart
  <2> QED
    BY <2>1, <2>2, <2>3
<1>5. Plan!RunsApart'
  BY <1>1, <1>4 DEF Plan!RunsApart
<1>6. Plan!NoPhantomProgress'
  BY <1>1, <1>4 DEF Plan!NoPhantomProgress
<1> QED
  BY <1>2, <1>5, <1>6

\* What is stored replaces the plan of the session, and of no other but the oldest.
LEMMA PlanStored ==
    ASSUME Plan!PlanTypes, NEW s \in PlanSession, NEW r \in Nat, NEW p \in BOOLEAN, NEW a \in BOOLEAN
    PROVE  LET new == [run |-> r, used |-> planSequence + 1, pending |-> p, active |-> a]
               b == [book EXCEPT ![s] = new]
           IN  /\ Plan!Stored(s, r, p, a) \in [PlanSession -> Plan!Plans]
               /\ Plan!Stored(s, r, p, a) = Plan!Within(b, s)
               /\ \A t \in PlanSession : Plan!Stored(s, r, p, a)[t] \in {b[t], Plan!NoPlan}
<1> DEFINE new == [run |-> r, used |-> planSequence + 1, pending |-> p, active |-> a]
           b == [book EXCEPT ![s] = new]
<1>1. new \in Plan!Plans /\ Plan!NoPlan \in Plan!Plans
  BY DEF Plan!PlanTypes, Plan!Plans, Plan!NoPlan
<1>2. b \in [PlanSession -> Plan!Plans]
  BY <1>1 DEF Plan!PlanTypes
<1>3. Plan!Stored(s, r, p, a) = Plan!Within(b, s)
  BY DEF Plan!Stored
<1> HIDE DEF b
<1>4. Plan!Within(b, s) = b \/ Plan!Within(b, s) = [b EXCEPT ![Plan!Oldest(b, s)] = Plan!NoPlan]
  BY DEF Plan!Within
<1>5. /\ Plan!Within(b, s) \in [PlanSession -> Plan!Plans]
      /\ \A t \in PlanSession : Plan!Within(b, s)[t] \in {b[t], Plan!NoPlan}
  BY <1>1, <1>2, <1>4
<1> QED
  BY <1>3, <1>5 DEF b

\* update_plan writes the plan of its own session, or evicts the one unused longest.
LEMMA PlanUpdated ==
    ASSUME Plan!PlanInv, NEW s \in PlanSession, Plan!Update(s)
    PROVE  Plan!PlanInv'
<1>1. /\ planRunning[s] # 0 /\ planSequence' = planSequence + 1
      /\ UNCHANGED <<planRunning, starts, settled>>
  BY DEF Plan!Update
<1>2. Plan!PlanTypes /\ planSequence' \in Nat /\ planRunning[s] \in Nat /\ 0 \in Nat
      /\ book \in [PlanSession -> Plan!Plans]
  BY <1>1 DEF Plan!PlanInv, Plan!PlanTypes
<1>3. ASSUME NEW outcome \in Plan!Outcome, Plan!Persist(outcome, [book EXCEPT ![s] = Plan!NoPlan])
      PROVE  Plan!PlanInv'
  <2> DEFINE b == [book EXCEPT ![s] = Plan!NoPlan]
  <2>1. /\ b \in [PlanSession -> Plan!Plans]
        /\ \A t \in PlanSession : b[t] # Plan!NoPlan => b[t] = book[t]
    BY <1>2 DEF Plan!Plans, Plan!NoPlan
  <2> QED
    BY <1>1, <1>2, <1>3, <2>1, PlanWritten
<1>4. ASSUME NEW outcome \in Plan!Outcome, NEW r \in {planRunning[s], 0},
             NEW p \in BOOLEAN, NEW a \in BOOLEAN,
             Plan!Persist(outcome, Plan!Stored(s, r, p, a))
      PROVE  Plan!PlanInv'
  <2> DEFINE b == Plan!Stored(s, r, p, a)
             new == [run |-> r, used |-> planSequence + 1, pending |-> p, active |-> a]
  <2>0. r \in Nat
    BY <1>2
  <2>1. /\ b \in [PlanSession -> Plan!Plans]
        /\ \A t \in PlanSession : b[t] \in {[book EXCEPT ![s] = new][t], Plan!NoPlan}
    BY <1>2, <2>0, PlanStored
  <2>2. \A t \in PlanSession : [book EXCEPT ![s] = new][t] = IF t = s THEN new ELSE book[t]
    BY <1>2
  <2>3. new.run = r
    OBVIOUS
  <2> HIDE DEF b, new
  <2>4. \A t \in PlanSession : b[t] # Plan!NoPlan =>
              \/ b[t] = book[t]
              \/ t = s /\ b[t].run \in {planRunning[s], 0}
    BY <2>1, <2>2, <2>3
  <2> QED
    BY <1>1, <1>2, <1>4, <2>1, <2>4, PlanWritten DEF b
<1> QED
  BY <1>3, <1>4 DEF Plan!Update

\* The plans that the end of a run touches are those of its own session.
LEMMA PlanMatched ==
    ASSUME Plan!PlanInv, NEW s \in PlanSession, NEW named \in BOOLEAN, planRunning[s] # 0,
           NEW t \in Plan!Matched(s, planRunning[s], named)
    PROVE  t = s
BY DEF Plan!PlanInv, Plan!RunsApart, Plan!Matched, Plan!Planned

\* A run that ends leaves no step in progress.
LEMMA PlanFinished ==
    ASSUME Plan!PlanInv, NEW s \in PlanSession, NEW stopped \in BOOLEAN, NEW named \in BOOLEAN,
           Plan!FinishRun(s, stopped, named)
    PROVE  Plan!PlanInv'
<1> USE DEF Plan!PlanInv
<1> DEFINE r == planRunning[s]
           b == [t \in PlanSession |->
                   IF t \in Plan!Matched(s, r, named) /\ t \in Plan!Planned(book)
                   THEN Plan!Finished(book[t], r) ELSE book[t]]
<1>1. /\ r # 0 /\ planRunning' = [planRunning EXCEPT ![s] = 0]
      /\ UNCHANGED <<planSequence, starts>>
      /\ \/ UNCHANGED <<book, bookFile, settled>>
         \/ UNCHANGED <<book, bookFile>> /\ b = book /\ bookFile = book /\ settled' = settled \cup {r}
         \/ \E outcome \in Plan!Outcome :
              /\ Plan!Persist(outcome, b)
              /\ settled' = IF outcome = "saved" THEN settled \cup {r} ELSE settled
  BY DEF Plan!FinishRun
<1>2. /\ book' \in {book, b} /\ bookFile' \in {bookFile, b}
      /\ \/ settled' = settled
         \/ settled' = settled \cup {r} /\ book' = b /\ bookFile' = b
  BY <1>1 DEF Plan!Persist
<1>3. \A t \in PlanSession : /\ book[t] \in Plan!Plans /\ bookFile[t] \in Plan!Plans
                             /\ planRunning[t] \in Nat
  BY DEF Plan!PlanTypes
<1>4. ASSUME NEW t \in PlanSession
      PROVE  /\ b[t] \in Plan!Plans /\ b[t].run \in {book[t].run, 0}
             /\ b[t].active => book[t].active /\ b[t].run = book[t].run
             /\ b[t].active => b[t].run # r
  <2>1. CASE t \in Plan!Matched(s, r, named) /\ t \in Plan!Planned(book)
    <3>1. b[t] = Plan!Finished(book[t], r)
      BY <2>1
    <3>2. /\ Plan!Finished(book[t], r) \in Plan!Plans /\ ~Plan!Finished(book[t], r).active
          /\ Plan!Finished(book[t], r).run \in {book[t].run, 0}
      BY <1>3 DEF Plan!Finished, Plan!Completed, Plan!NoPlan, Plan!Plans
    <3> QED
      BY <3>1, <3>2
  <2>2. CASE ~(t \in Plan!Matched(s, r, named) /\ t \in Plan!Planned(book))
    <3>1. b[t] = book[t]
      BY <2>2
    <3>2. CASE t = s
      <4>1. CASE t \notin Plan!Planned(book)
        BY <1>3, <3>1, <4>1 DEF Plan!Planned, Plan!NoPlan
      <4>2. CASE t \in Plan!Planned(book)
        BY <1>3, <2>2, <3>1, <3>2, <4>2 DEF Plan!Matched
      <4> QED
        BY <4>1, <4>2
    <3>3. CASE t # s
      BY <1>1, <1>3, <3>1, <3>3 DEF Plan!RunsApart
    <3> QED
      BY <3>2, <3>3
  <2> QED
    BY <2>1, <2>2
<1>5. b \in [PlanSession -> Plan!Plans]
  BY <1>4
<1>6. r \in Nat /\ starts \in Nat /\ r <= starts /\ settled \subseteq Nat
  BY DEF Plan!PlanTypes, Plan!RunsApart
<1> HIDE DEF b
<1>7. Plan!PlanTypes'
  BY <1>1, <1>2, <1>5, <1>6 DEF Plan!PlanTypes
<1>8. \A t \in PlanSession : planRunning'[t] = IF t = s THEN 0 ELSE planRunning[t]
  BY <1>1 DEF Plan!PlanTypes
<1>9. \A t \in PlanSession :
         /\ planRunning'[t] <= starts /\ planRunning'[t] \notin settled'
         /\ \A u \in PlanSession : planRunning'[t] # 0 /\ planRunning'[t] = planRunning'[u] => t = u
  BY <1>1, <1>2, <1>6, <1>8 DEF Plan!RunsApart
<1>10. ASSUME NEW c \in {book, bookFile, b}, NEW t \in PlanSession
       PROVE  /\ c[t].run <= starts
              /\ \A u \in PlanSession : c[t].run # 0 /\ c[t].run = planRunning'[u] => t = u
              /\ c[t].active => c[t].run \notin settled
              /\ c = b /\ c[t].active => c[t].run # r
  BY <1>4, <1>6, <1>8, <1>10 DEF Plan!RunsApart, Plan!NoPhantomProgress
<1>11. Plan!RunsApart'
  <2>1. \A q \in settled' : q # 0 /\ q <= starts
    BY <1>1, <1>2, <1>6 DEF Plan!RunsApart
  <2> QED
    BY <1>1, <1>2, <1>9, <1>10, <2>1 DEF Plan!RunsApart
<1>12. Plan!NoPhantomProgress'
  BY <1>1, <1>2, <1>10 DEF Plan!NoPhantomProgress
<1> QED
  BY <1>7, <1>11, <1>12

\* Every step of plan-plugin keeps PlanInv.
LEMMA PlanStep ==
    ASSUME Plan!PlanInv, Plan!Next \/ UNCHANGED planVars
    PROVE  Plan!PlanInv'
<1> USE DEF Plan!PlanInv
<1>1. CASE UNCHANGED planVars
  BY <1>1 DEF planVars, Plan!PlanTypes, Plan!RunsApart, Plan!NoPhantomProgress
<1>2. ASSUME NEW s \in PlanSession, Plan!StartRun(s) PROVE Plan!PlanInv'
  <2>1. /\ planRunning[s] = 0 /\ starts' = starts + 1
        /\ planRunning' = [planRunning EXCEPT ![s] = starts + 1]
        /\ UNCHANGED <<book, bookFile, planSequence, settled>>
    BY <1>2 DEF Plan!StartRun
  <2>2. /\ \A t \in PlanSession : /\ planRunning'[t] = IF t = s THEN starts + 1 ELSE planRunning[t]
                                  /\ planRunning[t] \in Nat
                                  /\ book[t].run \in Nat /\ bookFile[t].run \in Nat
        /\ starts \in Nat /\ settled \subseteq Nat
    BY <2>1 DEF Plan!PlanTypes, Plan!Plans
  <2>3. Plan!PlanTypes'
    BY <2>1 DEF Plan!PlanTypes
  <2>4. \A r \in settled : r <= starts /\ r # 0 /\ r # starts + 1
    BY <2>2 DEF Plan!RunsApart
  <2>5. \A t \in PlanSession :
         /\ planRunning'[t] <= starts + 1 /\ planRunning'[t] \notin settled
         /\ \A u \in PlanSession : planRunning'[t] # 0 /\ planRunning'[t] = planRunning'[u] => t = u
    BY <2>2, <2>4 DEF Plan!RunsApart
  <2>6. \A b \in {book, bookFile} : \A t \in PlanSession :
          /\ b[t].run <= starts + 1
          /\ \A u \in PlanSession : b[t].run # 0 /\ b[t].run = planRunning'[u] => t = u
    BY <2>2 DEF Plan!RunsApart
  <2>7. \A r \in settled : r # 0 /\ r <= starts + 1
    BY <2>2, <2>4
  <2> QED
    BY <2>1, <2>3, <2>5, <2>6, <2>7 DEF Plan!RunsApart, Plan!NoPhantomProgress
<1>3. CASE Plan!Restart
  BY <1>3 DEF Plan!Restart, Plan!PlanTypes, Plan!RunsApart, Plan!NoPhantomProgress
<1> QED
  BY <1>1, <1>2, <1>3, PlanUpdated, PlanFinished DEF Plan!Next

------------------------------------------------------------------------------
\* A place is taken from the plan that was not used for longest.
LEMMA OldestIsOldest ==
    ASSUME NEW b \in [PlanSession -> Plan!Plans], NEW s \in PlanSession,
           NEW t \in Plan!Planned(b) \ {s}
    PROVE  /\ Plan!Oldest(b, s) \in Plan!Planned(b) \ {s}
           /\ \A w \in Plan!Planned(b) \ {s} : b[Plan!Oldest(b, s)].used <= b[w].used
<1> DEFINE P == Plan!Planned(b) \ {s}
           U == {b[v].used : v \in P}
<1>1. P \subseteq PlanSession /\ \A v \in P : b[v].used \in Nat
  BY DEF Plan!Planned, Plan!Plans
<1>2. U \subseteq Nat /\ U # {}
  BY <1>1
<1>3. PICK u \in U : \A w \in U : ~(<<w, u>> \in OpToRel(<, Nat))
  BY <1>2, NatLessThanWellFounded, WFMin
<1>4. ASSUME NEW w \in U PROVE u <= w
  <2> HIDE DEF U
  <2>1. u \in Nat /\ w \in Nat
    BY <1>2
  <2>2. ~(w < u)
    BY <1>3, <2>1 DEF OpToRel
  <2> QED
    BY <2>1, <2>2
<1>5. \E v \in P : \A w \in P : b[v].used <= b[w].used
  BY <1>4
<1> QED
  BY <1>5 DEF Plan!Oldest

\* A step changes the plan of another session only by evicting the one unused longest.
LEMMA PlansApart ==
    ASSUME Plan!PlanInv, Plan!Next \/ UNCHANGED planVars
    PROVE  Plan!PlansKeptApart
<1> USE DEF Plan!PlanInv
<1> SUFFICES ASSUME NEW s \in PlanSession, book'[s] # book[s], concerned' \notin {s, Plan!Nobody}
             PROVE  /\ book'[s] = Plan!NoPlan
                    /\ Plan!Cardinality(Plan!Planned(book) \cup {concerned'}) > MaxPlans
                    /\ \A t \in Plan!Planned(book) \ {concerned'} : book[s].used <= book[t].used
  BY DEF Plan!PlansKeptApart
<1>0. book \in [PlanSession -> Plan!Plans] /\ book' # book /\ Plan!PlanTypes
  BY DEF Plan!PlanTypes
<1>1. ASSUME NEW c \in PlanSession, Plan!FinishRun(c, TRUE, TRUE) \/ Plan!FinishRun(c, TRUE, FALSE)
             \/ Plan!FinishRun(c, FALSE, TRUE) \/ Plan!FinishRun(c, FALSE, FALSE)
      PROVE  FALSE
  <2>1. PICK named \in BOOLEAN, stopped \in BOOLEAN : Plan!FinishRun(c, stopped, named)
    BY <1>1
  <2> DEFINE r == planRunning[c]
             b == [t \in PlanSession |->
                    IF t \in Plan!Matched(c, r, named) /\ t \in Plan!Planned(book)
                    THEN Plan!Finished(book[t], r) ELSE book[t]]
  <2>2. concerned' = c /\ r # 0 /\ (book' = book \/ book' = b)
    BY <2>1 DEF Plan!FinishRun, Plan!Persist
  <2>3. s \notin Plan!Matched(c, r, named)
    BY <2>2, PlanMatched
  <2> QED
    BY <1>0, <2>2, <2>3
<1>2. ASSUME NEW c \in PlanSession, Plan!Update(c)
      PROVE  /\ book'[s] = Plan!NoPlan
             /\ Plan!Cardinality(Plan!Planned(book) \cup {concerned'}) > MaxPlans
             /\ \A t \in Plan!Planned(book) \ {concerned'} : book[s].used <= book[t].used
  <2>1. concerned' = c /\ c # s /\ planSequence \in Nat
    BY <1>2 DEF Plan!Update, Plan!PlanTypes
  <2>2. \/ book' = [book EXCEPT ![c] = Plan!NoPlan]
        \/ \E r \in {planRunning[c], 0}, p, a \in BOOLEAN : book' = Plan!Stored(c, r, p, a)
    BY <1>0, <1>2 DEF Plan!Update, Plan!Persist
  <2>3. PICK r \in {planRunning[c], 0}, p \in BOOLEAN, a \in BOOLEAN : book' = Plan!Stored(c, r, p, a)
    BY <1>0, <2>1, <2>2
  <2> DEFINE new == [run |-> r, used |-> planSequence + 1, pending |-> p, active |-> a]
             b == [book EXCEPT ![c] = new]
  <2>4. r \in Nat
    BY DEF Plan!PlanTypes
  <2>5. book' = Plan!Within(b, c)
    BY <2>3 DEF Plan!Stored
  <2>6. new \in Plan!Plans /\ new # Plan!NoPlan
    BY <2>1, <2>4 DEF Plan!Plans, Plan!NoPlan
  <2> HIDE DEF new
  <2>7. b \in [PlanSession -> Plan!Plans] /\ b[c] = new /\ \A t \in PlanSession \ {c} : b[t] = book[t]
    BY <1>0, <2>6
  <2>8. Plan!Planned(b) = Plan!Planned(book) \cup {c}
    BY <2>6, <2>7 DEF Plan!Planned
  <2> HIDE DEF b
  <2>9. /\ Plan!Cardinality(Plan!Planned(b)) > MaxPlans
        /\ book' = [b EXCEPT ![Plan!Oldest(b, c)] = Plan!NoPlan]
        /\ s = Plan!Oldest(b, c) /\ book'[s] = Plan!NoPlan
    BY <2>1, <2>5, <2>7 DEF Plan!Within
  <2>10. s \in Plan!Planned(b) \ {c}
    BY <2>1, <2>7, <2>9 DEF Plan!Planned
  <2>11. \A t \in Plan!Planned(b) \ {c} : b[s].used <= b[t].used
    BY <2>7, <2>9, <2>10, OldestIsOldest
  <2>12. \A t \in Plan!Planned(book) \ {c} : book[s].used <= book[t].used
    BY <2>1, <2>7, <2>8, <2>11 DEF Plan!Planned
  <2> QED
    BY <2>1, <2>8, <2>9, <2>12
<1> QED
  BY <1>0, <1>1, <1>2 DEF Plan!Next, Plan!StartRun, Plan!Restart, planVars

------------------------------------------------------------------------------
(* The calls of a plugin.                                                  *)

\* GuestCalls and Filters name the same filter.
LEMMA GuestAmong == \A s, at : Guest!Among(s, at) = Among(s, at)
<1> TAKE s, at
<1>1. \A S : Guest!Cardinality(S) = Cardinality(S)
  BY DEF Guest!Cardinality, Cardinality
<1>2. \A i : Guest!Place(at, i) = Place(at, i)
  BY <1>1 DEF Guest!Place, Place
<1> DEFINE a(k) == CHOOSE i \in at : Guest!Place(at, i) = k
           b(k) == CHOOSE i \in at : Place(at, i) = k
<1>3. \A k : a(k) = b(k)
  BY <1>2
<1>4. Guest!Among(s, at) = [k \in 1..Cardinality(at) |-> s[a(k)]]
  BY <1>1 DEF Guest!Among
<1>5. Among(s, at) = [k \in 1..Cardinality(at) |-> s[b(k)]]
  BY DEF Among
<1> HIDE DEF a, b
<1> QED
  BY <1>3, <1>4, <1>5

\* A host without a Store keeps the invariant of calls.
LEMMA GuestBegins ==
    ASSUME Guest!Init PROVE Guest!GuestInv
<1> USE DEF Guest!Init
<1>1. Guest!GuestTypes
  <2>1. waiting \in Seq(Guest!Calls) /\ queued \in Seq(Guest!Event) /\ active \in Guest!Runs
    BY DEF Guest!Runs
  <2> QED
    BY <2>1 DEF Guest!GuestTypes
<1>2. Guest!StoreHeld /\ Guest!AnswerOfOwnCall /\ Guest!NothingOutlivesStore
  BY DEF Guest!StoreHeld, Guest!AnswerOfOwnCall, Guest!NothingOutlivesStore
<1>3. Guest!WaitingFresh /\ Guest!RunningHeard /\ Guest!NothingLeftBehind
  BY DEF Guest!WaitingFresh, Guest!RunningHeard, Guest!NothingLeftBehind
<1>4. Guest!EventsOfTheirRun
  BY DEF Guest!EventsOfTheirRun
<1> QED
  BY <1>1, <1>2, <1>3, <1>4 DEF Guest!GuestInv

\* The loading, and the processes of the guest.
LEMMA GuestLives ==
    ASSUME Guest!GuestInv,
           \/ Guest!Register \/ Guest!Grant \/ Guest!Instantiate \/ Guest!Loaded \/ Guest!Revoked
           \/ \E dropped \in BOOLEAN : Guest!LoadFails(dropped)
           \/ Guest!Spawn \/ Guest!Kill
    PROVE  Guest!GuestInv'
<1> USE DEF Guest!GuestInv
<1>1. UNCHANGED <<waiting, guestRunning, active, latch, queued, guestEnded, answer, calls>>
  BY DEF Guest!Register, Guest!Grant, Guest!Instantiate, Guest!Loaded, Guest!Revoked, Guest!LoadFails,
         Guest!Spawn, Guest!Kill, Guest!work, Guest!kept
<1>2. /\ guestPhase' \in {"new", "known", "granted", "bound", "ready", "failed"}
      /\ store' \in {"none", "idle", "busy", "gone"} /\ processes' \in Nat
      /\ principal' \in {"none", "live", "leaving", "gone"} /\ guestListed' \in BOOLEAN
  <2>1. CASE Guest!Register \/ Guest!Grant \/ Guest!Instantiate \/ Guest!Loaded \/ Guest!Revoked
    BY <2>1 DEF Guest!Register, Guest!Grant, Guest!Instantiate, Guest!Loaded, Guest!Revoked,
                Guest!GuestTypes
  <2>2. CASE \E dropped \in BOOLEAN : Guest!LoadFails(dropped)
    <3>1. \A p \in {"none", "live", "leaving", "gone"} :
             Guest!Leaving(p) \in {"none", "live", "leaving", "gone"}
      BY DEF Guest!Leaving
    <3>2. PICK dropped \in BOOLEAN : Guest!LoadFails(dropped)
      BY <2>2
    <3>3. principal' \in {principal, Guest!Leaving(principal)}
      BY <3>2 DEF Guest!LoadFails
    <3> QED
      BY <3>1, <3>2, <3>3 DEF Guest!LoadFails, Guest!GuestTypes
  <2>3. CASE Guest!Spawn \/ Guest!Kill
    BY <2>3 DEF Guest!Spawn, Guest!Kill, Guest!GuestTypes
  <2> QED
    BY <2>1, <2>2, <2>3
<1>3. Guest!GuestTypes'
  BY <1>1, <1>2 DEF Guest!GuestTypes
<1>4. Guest!StoreHeld'
  BY <1>1 DEF Guest!StoreHeld, Guest!GuestTypes, Guest!Register, Guest!Grant, Guest!Instantiate, Guest!Loaded, Guest!Revoked, Guest!LoadFails,
         Guest!Spawn, Guest!Kill, Guest!Loading
<1>5. Guest!WaitingFresh' /\ Guest!RunningHeard' /\ Guest!NothingLeftBehind' /\ Guest!AnswerOfOwnCall'
  BY <1>1 DEF Guest!WaitingFresh, Guest!RunningHeard, Guest!NothingLeftBehind, Guest!AnswerOfOwnCall
<1>6. Guest!EventsOfTheirRun'
  BY <1>1, <1>4 DEF Guest!EventsOfTheirRun, Guest!StoreHeld, Guest!InGuest
<1>7. Guest!NothingOutlivesStore'
  <2> USE DEF Guest!NothingOutlivesStore, Guest!StoreHeld, Guest!GuestTypes
  <2>1. CASE Guest!Register \/ Guest!Grant \/ Guest!Instantiate \/ Guest!Loaded \/ Guest!Revoked
    BY <2>1 DEF Guest!Register, Guest!Grant, Guest!Instantiate, Guest!Loaded, Guest!Revoked,
                Guest!Loading
  <2>2. CASE \E dropped \in BOOLEAN : Guest!LoadFails(dropped)
    BY <2>2 DEF Guest!LoadFails, Guest!Loading
  <2>3. CASE Guest!Spawn \/ Guest!Kill
    BY <2>3 DEF Guest!Spawn, Guest!Kill, Guest!InGuest
  <2> QED
    BY <2>1, <2>2, <2>3
<1> QED
  BY <1>3, <1>4, <1>5, <1>6, <1>7

\* A call comes to the end of the queue; the end of a run comes once.
LEMMA CallWaits ==
    ASSUME Guest!GuestInv, NEW c \in Guest!Calls, ~c.left, ~c.refused,
           waiting' = Append(waiting, c),
           guestPhase = "ready", UNCHANGED <<guestPhase, store, principal, guestListed, processes,
                       guestRunning, active, latch, queued, answer>>,
           calls' \in Nat,
           \/ c.kind # "finish" /\ UNCHANGED guestEnded
              /\ (c.run # NoRun => guestEnded[c.run] = "open")
           \/ c.kind = "finish" /\ c.run \in Run /\ guestEnded[c.run] \in {"open", "cut"}
              /\ Guest!Unheard(c.run)
              /\ guestEnded' = [guestEnded EXCEPT ![c.run] = "closing"]
    PROVE  Guest!GuestInv'
<1> USE DEF Guest!GuestInv
<1>0. waiting \in Seq(Guest!Calls) /\ guestEnded \in [Run -> {"open", "drained", "closing", "cut", "cleaned"}]
  BY DEF Guest!GuestTypes
<1>1. /\ Len(waiting) \in Nat /\ waiting' \in Seq(Guest!Calls)
      /\ DOMAIN waiting' = 1..(Len(waiting) + 1) /\ DOMAIN waiting = 1..Len(waiting)
      /\ \A i \in 1..Len(waiting) : waiting'[i] = waiting[i]
      /\ waiting'[Len(waiting) + 1] = c
  BY <1>0
<1>2. c.kind \in Guest!Kind /\ c.run \in Run \cup {NoRun}
  BY DEF Guest!Calls, Guest!Runs
<1>3. \A r \in Run : guestEnded'[r] = IF c.kind = "finish" /\ c.run = r THEN "closing" ELSE guestEnded[r]
  BY <1>0
<1>4. Guest!GuestTypes'
  BY <1>0, <1>1 DEF Guest!GuestTypes
<1>5. Guest!StoreHeld' /\ Guest!AnswerOfOwnCall' /\ Guest!NothingOutlivesStore' /\ Guest!EventsOfTheirRun'
  BY DEF Guest!StoreHeld, Guest!AnswerOfOwnCall, Guest!NothingOutlivesStore, Guest!EventsOfTheirRun,
         Guest!InGuest, Guest!Loading
<1>6. \A i \in DOMAIN waiting : c.kind = "finish" => waiting[i].run # c.run
  BY DEF Guest!Unheard
<1>7. \A i \in DOMAIN waiting : c.run \in Run /\ waiting[i].kind = "finish" => waiting[i].run # c.run
  BY <1>6, GuestConstants DEF Guest!WaitingFresh
<1>8. Guest!WaitingFresh'
  <2>1. ASSUME NEW i \in DOMAIN waiting'
        PROVE  /\ ~waiting'[i].left /\ ~waiting'[i].refused
               /\ waiting'[i].kind = "finish" => waiting'[i].run \in Run
               /\ waiting'[i].run \in Run =>
                    guestEnded'[waiting'[i].run] = IF waiting'[i].kind = "finish" THEN "closing" ELSE "open"
    <3>1. CASE i \in 1..Len(waiting)
      BY <3>1, <1>1, <1>3, <1>6 DEF Guest!WaitingFresh
    <3>2. CASE i = Len(waiting) + 1
      BY <3>2, <1>1, <1>2, <1>3, GuestConstants
    <3> QED
      BY <3>1, <3>2, <1>1
  <2>2. ASSUME NEW i \in DOMAIN waiting', NEW j \in DOMAIN waiting',
               waiting'[i].kind = "finish", waiting'[j].run = waiting'[i].run, i # j
        PROVE  FALSE
    <3>1. CASE i \in 1..Len(waiting) /\ j \in 1..Len(waiting)
      BY <3>1, <2>2, <1>1 DEF Guest!WaitingFresh
    <3>2. CASE i = Len(waiting) + 1 /\ j \in 1..Len(waiting)
      BY <3>2, <2>2, <1>1, <1>6
    <3>3. CASE i \in 1..Len(waiting) /\ j = Len(waiting) + 1
      BY <3>3, <2>2, <1>1, <1>7 DEF Guest!WaitingFresh
    <3> QED
      BY <3>1, <3>2, <3>3, <2>2, <1>1
  <2> QED
    BY <2>1, <2>2 DEF Guest!WaitingFresh
<1>9. Guest!RunningHeard'
  <2> SUFFICES ASSUME guestRunning # NoValue
        PROVE /\ guestRunning.kind = "finish" => guestRunning.run \in Run
              /\ guestRunning.run \in Run => guestEnded'[guestRunning.run] # "cleaned"
              /\ guestRunning.run \in Run /\ ~guestRunning.left =>
                   guestEnded'[guestRunning.run] = IF guestRunning.kind = "finish" THEN "closing" ELSE "open"
              /\ guestRunning.kind = "finish" /\ ~guestRunning.left =>
                   \A i \in DOMAIN waiting' : waiting'[i].run # guestRunning.run
    BY DEF Guest!RunningHeard
  <2>1. c.kind = "finish" /\ guestRunning.run = c.run => guestRunning.left
    BY DEF Guest!Unheard
  <2>2. guestRunning.kind = "finish" /\ ~guestRunning.left => guestRunning.run # c.run
    BY <2>1, GuestConstants DEF Guest!RunningHeard
  <2>3. guestRunning.kind = "finish" /\ ~guestRunning.left =>
          \A i \in DOMAIN waiting' : waiting'[i].run # guestRunning.run
    BY <1>1, <2>2 DEF Guest!RunningHeard
  <2> QED
    BY <1>3, <2>1, <2>3 DEF Guest!RunningHeard
<1>10. Guest!NothingLeftBehind'
  <2>1. \A i \in DOMAIN queued : queued[i].run # NoRun => queued[i].run \in Run
    <3>1. \A i \in DOMAIN queued : queued[i] \in Guest!Event
      BY DEF Guest!GuestTypes
    <3> QED
      BY <3>1 DEF Guest!Event, Guest!Runs
  <2> QED
    BY <1>3, <2>1 DEF Guest!NothingLeftBehind
<1> QED
  BY <1>4, <1>5, <1>8, <1>9, <1>10

\* A caller that waits is gone, or finish_run is cut off.
LEMMA CallForgotten ==
    ASSUME Guest!GuestInv, NEW i \in DOMAIN waiting, waiting' = Guest!WithoutAt(waiting, i),
           UNCHANGED <<guestPhase, store, processes, guestRunning, active, latch, queued, answer, calls>>,
           \/ /\ waiting[i].kind # "finish" /\ UNCHANGED guestEnded
              /\ \/ UNCHANGED <<guestListed, principal>>
                 \/ guestListed' = FALSE /\ principal' = Guest!Leaving(principal)
           \/ /\ waiting[i].kind = "finish" /\ UNCHANGED <<guestListed, principal>>
              /\ guestEnded' = [guestEnded EXCEPT ![waiting[i].run] = "cut"]
    PROVE  Guest!GuestInv'
<1> USE DEF Guest!GuestInv
<1> DEFINE at == DOMAIN waiting \ {i}
           r == waiting[i].run
<1>0. waiting \in Seq(Guest!Calls) /\ guestEnded \in [Run -> {"open", "drained", "closing", "cut", "cleaned"}]
      /\ principal \in {"none", "live", "leaving", "gone"} /\ waiting # <<>>
  BY DEF Guest!GuestTypes
<1>1. /\ waiting' \in Seq(Guest!Calls)
      /\ \A k \in DOMAIN waiting' : \E j \in at : waiting'[k] = waiting[j]
      /\ \A k, l \in DOMAIN waiting' : k # l =>
            \E j, m \in at : j # m /\ waiting'[k] = waiting[j] /\ waiting'[l] = waiting[m]
  <2>1. waiting' = Among(waiting, at)
    BY GuestAmong DEF Guest!WithoutAt
  <2>2. at \in SUBSET DOMAIN waiting
    OBVIOUS
  <2> HIDE DEF at
  <2> QED
    BY <1>0, <2>1, <2>2, AmongOf
<1>2. \A k \in DOMAIN waiting' : \E j \in DOMAIN waiting : j # i /\ waiting'[k] = waiting[j]
  BY <1>1
<1>3. waiting[i].kind = "finish" => r \in Run /\ \A j \in DOMAIN waiting : j # i => waiting[j].run # r
  BY DEF Guest!WaitingFresh
<1>4. /\ guestEnded' \in [Run -> {"open", "drained", "closing", "cut", "cleaned"}]
      /\ \A q \in Run : guestEnded'[q] = IF waiting[i].kind = "finish" /\ q = r THEN "cut" ELSE guestEnded[q]
  BY <1>0, <1>3
<1>5. principal' \in {"none", "live", "leaving", "gone"} /\ guestListed' \in BOOLEAN
  BY <1>0 DEF Guest!Leaving, Guest!GuestTypes
<1>6. Guest!GuestTypes'
  BY <1>1, <1>4, <1>5 DEF Guest!GuestTypes
<1>7. Guest!StoreHeld'
  <2>1. guestPhase = "ready"
    BY <1>0 DEF Guest!StoreHeld
  <2> QED
    BY <2>1 DEF Guest!StoreHeld, Guest!Loading
<1>8. Guest!AnswerOfOwnCall' /\ Guest!EventsOfTheirRun'
  BY DEF Guest!AnswerOfOwnCall, Guest!EventsOfTheirRun, Guest!InGuest
<1>9. Guest!NothingOutlivesStore'
  BY <1>0 DEF Guest!NothingOutlivesStore, Guest!Leaving
<1> HIDE DEF at
<1>10. Guest!WaitingFresh'
  <2>1. ASSUME NEW k \in DOMAIN waiting'
        PROVE  /\ ~waiting'[k].left /\ ~waiting'[k].refused
               /\ waiting'[k].kind = "finish" => waiting'[k].run \in Run
               /\ waiting'[k].run \in Run =>
                    guestEnded'[waiting'[k].run] = IF waiting'[k].kind = "finish" THEN "closing" ELSE "open"
    <3>1. PICK j \in DOMAIN waiting : j # i /\ waiting'[k] = waiting[j]
      BY <1>2
    <3>2. waiting[i].kind = "finish" => waiting[j].run # r
      BY <1>3, <3>1
    <3> QED
      BY <1>4, <3>1, <3>2 DEF Guest!WaitingFresh
  <2>2. ASSUME NEW k \in DOMAIN waiting', NEW l \in DOMAIN waiting',
               waiting'[k].kind = "finish", waiting'[l].run = waiting'[k].run, k # l
        PROVE  FALSE
    <3>1. PICK j, m \in at : j # m /\ waiting'[k] = waiting[j] /\ waiting'[l] = waiting[m]
      BY <1>1, <2>2
    <3>2. j \in DOMAIN waiting /\ m \in DOMAIN waiting
      BY <3>1 DEF at
    <3> QED
      BY <2>2, <3>1, <3>2 DEF Guest!WaitingFresh
  <2> QED
    BY <2>1, <2>2 DEF Guest!WaitingFresh
<1>11. Guest!RunningHeard'
  <2> SUFFICES ASSUME guestRunning # NoValue
        PROVE /\ guestRunning.kind = "finish" => guestRunning.run \in Run
              /\ guestRunning.run \in Run => guestEnded'[guestRunning.run] # "cleaned"
              /\ guestRunning.run \in Run /\ ~guestRunning.left =>
                   guestEnded'[guestRunning.run] = IF guestRunning.kind = "finish" THEN "closing" ELSE "open"
              /\ guestRunning.kind = "finish" /\ ~guestRunning.left =>
                   \A k \in DOMAIN waiting' : waiting'[k].run # guestRunning.run
    BY DEF Guest!RunningHeard
  <2>1. waiting[i].kind = "finish" => guestEnded[r] = "closing"
    BY <1>3 DEF Guest!WaitingFresh
  <2>2. waiting[i].kind = "finish" /\ guestRunning.run = r => guestRunning.left
    BY <1>3, <2>1 DEF Guest!RunningHeard
  <2>3. guestRunning.kind = "finish" /\ ~guestRunning.left =>
                   \A k \in DOMAIN waiting' : waiting'[k].run # guestRunning.run
    BY <1>2 DEF Guest!RunningHeard
  <2> QED
    BY <1>4, <2>2, <2>3 DEF Guest!RunningHeard
<1>12. Guest!NothingLeftBehind'
  <2>1. \A k \in DOMAIN queued : queued[k] \in Guest!Event
    BY DEF Guest!GuestTypes
  <2>2. \A k \in DOMAIN queued : queued[k].run # NoRun => queued[k].run \in Run
    BY <2>1 DEF Guest!Event, Guest!Runs
  <2> QED
    BY <1>4, <2>2 DEF Guest!NothingLeftBehind
<1> QED
  BY <1>6, <1>7, <1>8, <1>9, <1>10, <1>11, <1>12

\* The caller of what runs is gone, or finish_run is cut off.
LEMMA CallUnheard ==
    ASSUME Guest!GuestInv, guestRunning # NoValue, ~guestRunning.left,
           guestRunning' = [guestRunning EXCEPT !.left = TRUE],
           UNCHANGED <<guestPhase, store, principal, guestListed, processes, waiting, active, latch,
                       queued, answer, calls>>,
           \/ guestRunning.kind # "finish" /\ UNCHANGED guestEnded
           \/ guestRunning.kind = "finish"
              /\ guestEnded' = [guestEnded EXCEPT ![guestRunning.run] = "cut"]
    PROVE  Guest!GuestInv'
<1> USE DEF Guest!GuestInv
<1> DEFINE r == guestRunning.run
<1>0. guestRunning \in Guest!Calls /\ guestEnded \in [Run -> {"open", "drained", "closing", "cut", "cleaned"}]
  BY DEF Guest!GuestTypes
<1>1. /\ guestRunning' \in Guest!Calls /\ guestRunning' # NoValue
      /\ guestRunning'.kind = guestRunning.kind /\ guestRunning'.run = r /\ guestRunning'.left
      /\ guestRunning'.before = guestRunning.before /\ guestRunning'.refused = guestRunning.refused
  BY <1>0, GuestConstants DEF Guest!Calls
<1>2. guestRunning.kind = "finish" => r \in Run /\ guestEnded[r] = "closing" /\ \A i \in DOMAIN waiting : waiting[i].run # r
  BY DEF Guest!RunningHeard
<1>3. /\ guestEnded' \in [Run -> {"open", "drained", "closing", "cut", "cleaned"}]
      /\ \A q \in Run : guestEnded'[q] = IF guestRunning.kind = "finish" /\ q = r THEN "cut" ELSE guestEnded[q]
  BY <1>0, <1>2
<1>4. Guest!GuestTypes'
  BY <1>1, <1>3 DEF Guest!GuestTypes
<1>5. Guest!StoreHeld'
  BY <1>1 DEF Guest!StoreHeld, Guest!Loading
<1>6. Guest!AnswerOfOwnCall' /\ Guest!NothingOutlivesStore'
  BY DEF Guest!AnswerOfOwnCall, Guest!NothingOutlivesStore
<1>7. Guest!EventsOfTheirRun'
  BY <1>1 DEF Guest!EventsOfTheirRun, Guest!InGuest
<1>8. Guest!WaitingFresh'
  <2>1. \A i \in DOMAIN waiting : waiting[i].run \in Run => guestEnded'[waiting[i].run] = guestEnded[waiting[i].run]
    BY <1>2, <1>3
  <2> QED
    BY <2>1 DEF Guest!WaitingFresh
<1>9. Guest!RunningHeard'
  BY <1>1, <1>3 DEF Guest!RunningHeard
<1>10. Guest!NothingLeftBehind'
  <2>1. \A k \in DOMAIN queued : queued[k] \in Guest!Event
    BY DEF Guest!GuestTypes
  <2>2. \A k \in DOMAIN queued : queued[k].run # NoRun => queued[k].run \in Run
    BY <2>1 DEF Guest!Event, Guest!Runs
  <2> QED
    BY <1>3, <2>2 DEF Guest!NothingLeftBehind
<1> QED
  BY <1>4, <1>5, <1>6, <1>7, <1>8, <1>9, <1>10

\* A call that begins has a Store of its own plugin and what its principal was bound to.
LEMMA CallBegun ==
    ASSUME Guest!GuestInv, Guest!Acquire
    PROVE  Guest!GuestInv'
<1> USE DEF Guest!GuestInv
<1> DEFINE c == waiting[1]
<1>0. /\ waiting \in Seq(Guest!Calls) /\ waiting # <<>> /\ store = "idle" /\ store' = "busy"
      /\ guestRunning = NoValue /\ active = NoRun /\ guestPhase = "ready"
      /\ guestRunning' = [c EXCEPT !.before = active] /\ active' = c.run
      /\ waiting' = Tail(waiting) /\ latch' = Guest!Fresh(c.kind)
      /\ UNCHANGED <<guestPhase, principal, guestListed, processes, queued, guestEnded, answer, calls>>
  BY DEF Guest!Acquire, Guest!GuestTypes, Guest!StoreHeld, Guest!kept
<1>1. /\ waiting' \in Seq(Guest!Calls) /\ 1 \in DOMAIN waiting
      /\ \A k \in DOMAIN waiting' : k + 1 \in DOMAIN waiting /\ waiting'[k] = waiting[k + 1] /\ k \in Nat /\ k + 1 # 1
  BY <1>0
<1>2. /\ c \in Guest!Calls /\ ~c.left /\ ~c.refused
      /\ c.kind = "finish" => c.run \in Run
      /\ c.run \in Run => guestEnded[c.run] = IF c.kind = "finish" THEN "closing" ELSE "open"
      /\ c.kind = "finish" => \A j \in DOMAIN waiting : j # 1 => waiting[j].run # c.run
  BY <1>0, <1>1 DEF Guest!WaitingFresh
<1>3. /\ guestRunning' \in Guest!Calls /\ guestRunning' # NoValue /\ guestRunning'.before = NoRun
      /\ guestRunning'.kind = c.kind /\ guestRunning'.run = c.run /\ ~guestRunning'.left
      /\ ~guestRunning'.refused /\ active' = guestRunning'.run /\ active' \in Guest!Runs
      /\ latch' \in BOOLEAN /\ (c.kind = "tool" => ~latch')
  BY <1>0, <1>2, GuestConstants DEF Guest!Calls, Guest!Fresh, Guest!Runs, Guest!GuestTypes
<1> HIDE DEF c
<1>4. Guest!GuestTypes'
  BY <1>0, <1>1, <1>3 DEF Guest!GuestTypes
<1>5. Guest!StoreHeld'
  BY <1>0, <1>3 DEF Guest!StoreHeld, Guest!Loading
<1>6. Guest!AnswerOfOwnCall' /\ Guest!NothingOutlivesStore' /\ Guest!NothingLeftBehind'
  BY <1>0 DEF Guest!AnswerOfOwnCall, Guest!NothingOutlivesStore, Guest!NothingLeftBehind
<1>7. Guest!EventsOfTheirRun'
  BY <1>0, <1>3 DEF Guest!EventsOfTheirRun, Guest!InGuest
<1>8. Guest!WaitingFresh'
  <2>1. \A k \in DOMAIN waiting' :
        /\ ~waiting'[k].left /\ ~waiting'[k].refused
        /\ waiting'[k].kind = "finish" => waiting'[k].run \in Run
        /\ waiting'[k].run \in Run =>
              guestEnded[waiting'[k].run] = IF waiting'[k].kind = "finish" THEN "closing" ELSE "open"
    BY <1>1 DEF Guest!WaitingFresh
  <2>2. ASSUME NEW k \in DOMAIN waiting', NEW l \in DOMAIN waiting',
               waiting'[k].kind = "finish", waiting'[l].run = waiting'[k].run
        PROVE  k = l
    <3>1. k + 1 = l + 1
      BY <1>1, <2>2 DEF Guest!WaitingFresh
    <3> QED
      BY <1>1, <3>1
  <2> QED
    BY <1>0, <2>1, <2>2 DEF Guest!WaitingFresh
<1>9. Guest!RunningHeard'
  <2>1. c.kind = "finish" => \A i \in DOMAIN waiting' : waiting'[i].run # c.run
    BY <1>1, <1>2
  <2> QED
    BY <1>0, <1>2, <1>3, <2>1 DEF Guest!RunningHeard
<1> QED
  BY <1>4, <1>5, <1>6, <1>7, <1>8, <1>9

\* An event is recorded for the call and the run that emitted it.
LEMMA EventEmitted ==
    ASSUME Guest!GuestInv, Guest!Emit
    PROVE  Guest!GuestInv'
<1> USE DEF Guest!GuestInv
<1> DEFINE e == [run  |-> active,
                 of   |-> IF guestRunning = NoValue THEN NoRun ELSE guestRunning.run,
                 late |-> guestRunning # NoValue /\ guestRunning.left]
<1>0. /\ queued' = Append(queued, e) /\ Guest!InGuest
      /\ UNCHANGED <<guestPhase, store, principal, guestListed, processes, waiting,
                     guestRunning, active, latch, guestEnded, answer, calls>>
  BY DEF Guest!Emit, Guest!life, Guest!work
<1>1. guestRunning # NoValue => guestRunning \in Guest!Calls
  BY DEF Guest!GuestTypes
<1>2. e \in Guest!Event /\ e.run = e.of
  <2>1. CASE guestRunning = NoValue
    BY <2>1 DEF Guest!StoreHeld, Guest!Event, Guest!Runs
  <2>2. CASE guestRunning # NoValue
    BY <1>1, <2>2 DEF Guest!StoreHeld, Guest!Event, Guest!Runs, Guest!Calls
  <2> QED
    BY <2>1, <2>2
<1>3. ASSUME e.run # NoRun
      PROVE  /\ guestEnded[e.run] # "cleaned"
             /\ guestEnded[e.run] = "drained" => e.late
  <2>1. guestRunning # NoValue /\ e.run = guestRunning.run /\ guestRunning.run \in Run
    BY <1>2, <1>3 DEF Guest!StoreHeld, Guest!Event, Guest!Runs
  <2> QED
    BY <2>1 DEF Guest!RunningHeard
<1> HIDE DEF e
<1>4. /\ queued \in Seq(Guest!Event) /\ queued' \in Seq(Guest!Event)
      /\ \A i \in DOMAIN queued' : queued'[i] = e \/ (i \in DOMAIN queued /\ queued'[i] = queued[i])
  BY <1>0, <1>2 DEF Guest!GuestTypes
<1>5. Guest!GuestTypes'
  BY <1>0, <1>4 DEF Guest!GuestTypes
<1>6. Guest!StoreHeld' /\ Guest!WaitingFresh' /\ Guest!RunningHeard' /\ Guest!AnswerOfOwnCall'
      /\ Guest!NothingOutlivesStore'
  BY <1>0 DEF Guest!StoreHeld, Guest!WaitingFresh, Guest!RunningHeard, Guest!AnswerOfOwnCall,
              Guest!NothingOutlivesStore, Guest!Loading
<1>7. Guest!EventsOfTheirRun'
  BY <1>0, <1>2, <1>4 DEF Guest!EventsOfTheirRun, Guest!InGuest
<1>8. Guest!NothingLeftBehind'
  <2>1. ASSUME NEW i \in DOMAIN queued', queued'[i].run # NoRun
        PROVE  /\ guestEnded[queued'[i].run] # "cleaned"
               /\ guestEnded[queued'[i].run] = "drained" => queued'[i].late
    <3>1. CASE queued'[i] = e
      BY <1>3, <2>1, <3>1
    <3>2. CASE i \in DOMAIN queued /\ queued'[i] = queued[i]
      BY <2>1, <3>2 DEF Guest!NothingLeftBehind
    <3> QED
      BY <1>4, <3>1, <3>2
  <2> QED
    BY <1>0, <2>1 DEF Guest!NothingLeftBehind
<1> QED
  BY <1>5, <1>6, <1>7, <1>8

\* A call that is refused leaves all it did behind it, taken back.
LEMMA GuestRefused ==
    ASSUME Guest!GuestInv, Guest!Refuse
    PROVE  Guest!GuestInv'
<1> USE DEF Guest!GuestInv
<1>0. /\ latch' = TRUE
      /\ guestRunning' = IF guestRunning = NoValue THEN NoValue ELSE [guestRunning EXCEPT !.refused = TRUE]
      /\ UNCHANGED <<guestPhase, store, principal, guestListed, processes, waiting, active,
                     queued, guestEnded, answer, calls>>
  BY DEF Guest!Refuse, Guest!life, Guest!kept
<1>1. CASE guestRunning = NoValue
  <2>1. guestRunning' = NoValue
    BY <1>0, <1>1
  <2> QED
    BY <1>0, <1>1, <2>1 DEF Guest!GuestTypes, Guest!StoreHeld, Guest!WaitingFresh, Guest!RunningHeard,
       Guest!AnswerOfOwnCall, Guest!NothingOutlivesStore, Guest!Loading, Guest!EventsOfTheirRun,
       Guest!InGuest, Guest!NothingLeftBehind
<1>2. CASE guestRunning # NoValue
  <2>1. guestRunning \in Guest!Calls
    BY <1>2 DEF Guest!GuestTypes
  <2>2. /\ guestRunning' \in Guest!Calls /\ guestRunning' # NoValue
        /\ guestRunning'.kind = guestRunning.kind /\ guestRunning'.run = guestRunning.run
        /\ guestRunning'.left = guestRunning.left
        /\ guestRunning'.before = guestRunning.before /\ guestRunning'.refused
    BY <1>0, <1>2, <2>1, GuestConstants DEF Guest!Calls
  <2>3. Guest!GuestTypes'
    BY <1>0, <2>2 DEF Guest!GuestTypes
  <2>4. Guest!StoreHeld'
    BY <1>0, <1>2, <2>2 DEF Guest!StoreHeld, Guest!Loading
  <2>5. Guest!RunningHeard'
    BY <1>0, <1>2, <2>2 DEF Guest!RunningHeard
  <2>6. Guest!WaitingFresh' /\ Guest!AnswerOfOwnCall' /\ Guest!NothingOutlivesStore' /\ Guest!NothingLeftBehind'
    BY <1>0 DEF Guest!WaitingFresh, Guest!AnswerOfOwnCall, Guest!NothingOutlivesStore, Guest!NothingLeftBehind
  <2>7. Guest!EventsOfTheirRun'
    BY <1>0, <1>2, <2>2 DEF Guest!EventsOfTheirRun, Guest!InGuest
  <2> QED
    BY <2>3, <2>4, <2>5, <2>6, <2>7
<1> QED
  BY <1>1, <1>2

\* What is drained is of that run, and nothing else.
LEMMA QueueDrained ==
    ASSUME Guest!GuestTypes, NEW r
    PROVE  /\ Guest!Drained(r) \in Seq(Guest!Event)
           /\ \A k \in DOMAIN Guest!Drained(r) : \E i \in DOMAIN queued :
                Guest!Drained(r)[k] = queued[i] /\ queued[i].run # r
<1> DEFINE at == {i \in DOMAIN queued : queued[i].run # r}
<1>1. Guest!Drained(r) = Among(queued, at)
  BY GuestAmong DEF Guest!Drained
<1>2. queued \in Seq(Guest!Event)
  BY DEF Guest!GuestTypes
<1>3. at \in SUBSET DOMAIN queued /\ \A i \in at : i \in DOMAIN queued /\ queued[i].run # r
  OBVIOUS
<1> HIDE DEF at
<1>4. /\ Among(queued, at) \in Seq(Guest!Event)
      /\ \A k \in DOMAIN Among(queued, at) : \E i \in at : Among(queued, at)[k] = queued[i]
  BY <1>2, <1>3, AmongOf
<1> QED
  BY <1>1, <1>3, <1>4

\* The end of a run, or a drain while it goes on.
LEMMA RunDrained ==
    ASSUME Guest!GuestInv, NEW r \in Guest!Runs, queued' = Guest!Drained(r), calls' \in Nat,
           UNCHANGED <<guestPhase, store, principal, guestListed, processes, waiting,
                       guestRunning, active, latch, answer>>,
           \/ UNCHANGED guestEnded
           \/ /\ r \in Run /\ Guest!Unheard(r)
              /\ \/ guestEnded' = [guestEnded EXCEPT ![r] = "drained"]
                 \/ guestRunning = NoValue /\ guestEnded' = [guestEnded EXCEPT ![r] = "cleaned"]
    PROVE  Guest!GuestInv'
<1> USE DEF Guest!GuestInv
<1>0. guestEnded \in [Run -> {"open", "drained", "closing", "cut", "cleaned"}]
  BY DEF Guest!GuestTypes
<1>1. /\ guestEnded' \in [Run -> {"open", "drained", "closing", "cut", "cleaned"}]
      /\ \A q \in Run \ {r} : guestEnded'[q] = guestEnded[q]
  BY <1>0
<1>2. /\ queued' \in Seq(Guest!Event)
      /\ \A k \in DOMAIN queued' : \E i \in DOMAIN queued : queued'[k] = queued[i] /\ queued[i].run # r
  BY QueueDrained
<1>3. Guest!GuestTypes'
  BY <1>1, <1>2 DEF Guest!GuestTypes
<1>4. Guest!StoreHeld' /\ Guest!AnswerOfOwnCall' /\ Guest!NothingOutlivesStore'
  BY DEF Guest!StoreHeld, Guest!AnswerOfOwnCall, Guest!NothingOutlivesStore, Guest!Loading
<1>5. Guest!EventsOfTheirRun'
  BY <1>2 DEF Guest!EventsOfTheirRun, Guest!InGuest
<1>6. Guest!NothingLeftBehind'
  <2>1. \A k \in DOMAIN queued' : queued'[k].run # r /\ (queued'[k].run # NoRun => queued'[k].run \in Run)
    <3>1. \A k \in DOMAIN queued' : queued'[k] \in Guest!Event
      BY <1>2
    <3> QED
      BY <1>2, <3>1 DEF Guest!Event, Guest!Runs
  <2>2. \A k \in DOMAIN queued' : queued'[k].run # NoRun => guestEnded'[queued'[k].run] = guestEnded[queued'[k].run]
    BY <1>1, <2>1
  <2> QED
    BY <1>2, <2>2 DEF Guest!NothingLeftBehind
<1>7. CASE UNCHANGED guestEnded
  BY <1>3, <1>4, <1>5, <1>6, <1>7 DEF Guest!WaitingFresh, Guest!RunningHeard
<1>8. CASE ~UNCHANGED guestEnded
  <2>0. /\ r \in Run /\ \A i \in DOMAIN waiting : waiting[i].run # r
        /\ guestRunning # NoValue /\ guestRunning.run = r => guestRunning.left
        /\ guestRunning = NoValue \/ guestEnded'[r] = "drained"
    BY <1>0, <1>8 DEF Guest!Unheard
  <2>1. Guest!WaitingFresh'
    <3>1. \A i \in DOMAIN waiting : waiting[i].run \in Run => guestEnded'[waiting[i].run] = guestEnded[waiting[i].run]
      BY <1>1, <2>0
    <3> QED
      BY <3>1 DEF Guest!WaitingFresh
  <2>2. Guest!RunningHeard'
    BY <1>1, <2>0 DEF Guest!RunningHeard
  <2> QED
    BY <1>3, <1>4, <1>5, <1>6, <2>1, <2>2
<1> QED
  BY <1>7, <1>8

\* An export comes to an end, in time or at its deadline.
LEMMA CallEnded ==
    ASSUME Guest!GuestInv,
           (\E outcome \in {"ok", "trap"} : Guest!Return(outcome)) \/ Guest!Deadline
    PROVE  Guest!GuestInv'
<1> USE DEF Guest!GuestInv
<1> DEFINE r == guestRunning.run
           over == guestRunning.kind = "finish" /\ ~guestRunning.left
<1>1. /\ guestRunning # NoValue /\ guestRunning' = NoValue /\ active' = guestRunning.before
      /\ UNCHANGED <<guestPhase, waiting, calls>>
      /\ IF over THEN queued' = Guest!Drained(r) /\ guestEnded' = [guestEnded EXCEPT ![r] = "cleaned"]
                 ELSE UNCHANGED <<queued, guestEnded>>
  BY DEF Guest!Return, Guest!Deadline, Guest!Restored
<1>2. \/ store' = "idle" /\ UNCHANGED <<guestListed, principal, processes>>
      \/ /\ store' = "gone" /\ processes' = 0 /\ guestListed' = FALSE
         /\ principal' = Guest!Leaving(principal)
  BY DEF Guest!Return, Guest!Deadline, Guest!Cut, Guest!Retired
<1>3. \/ UNCHANGED <<answer, latch>>
      \/ /\ guestRunning.kind = "tool" /\ latch' = FALSE
         /\ \E outcome \in {"ok", "trap"} :
              answer' = [refused |-> guestRunning.refused, said |-> Guest!Said(outcome)]
  BY DEF Guest!Return, Guest!Deadline
<1>4. store = "busy" /\ active' = NoRun /\ guestPhase = "ready" /\ guestRunning \in Guest!Calls
  BY <1>1 DEF Guest!StoreHeld, Guest!GuestTypes
<1>5. over => /\ r \in Run /\ guestEnded[r] = "closing" /\ \A i \in DOMAIN waiting : waiting[i].run # r
  BY <1>1 DEF Guest!RunningHeard
<1>0. guestEnded \in [Run -> {"open", "drained", "closing", "cut", "cleaned"}] /\ queued \in Seq(Guest!Event)
      /\ principal \in {"none", "live", "leaving", "gone"} /\ guestListed \in BOOLEAN /\ processes \in Nat
  BY DEF Guest!GuestTypes
<1>6. /\ guestEnded' \in [Run -> {"open", "drained", "closing", "cut", "cleaned"}]
      /\ \A q \in Run : guestEnded'[q] = IF over /\ q = r THEN "cleaned" ELSE guestEnded[q]
  BY <1>0, <1>1, <1>5
<1>7. /\ queued' \in Seq(Guest!Event)
      /\ \A k \in DOMAIN queued' : \E i \in DOMAIN queued : queued'[k] = queued[i] /\ (over => queued[i].run # r)
  <2>1. CASE over
    <3>1. queued' = Guest!Drained(r)
      BY <1>1, <2>1
    <3> QED
      BY <3>1, QueueDrained
  <2>2. CASE ~over
    BY <1>0, <1>1, <2>2
  <2> QED
    BY <2>1, <2>2
<1>8. Guest!GuestTypes'
  <2>1. /\ store' \in {"none", "idle", "busy", "gone"} /\ guestListed' \in BOOLEAN
        /\ principal' \in {"none", "live", "leaving", "gone"} /\ processes' \in Nat
    <3>1. \A p \in {"none", "live", "leaving", "gone"} :
             Guest!Leaving(p) \in {"none", "live", "leaving", "gone"}
      BY DEF Guest!Leaving
    <3>2. principal' \in {"none", "live", "leaving", "gone"}
      BY <1>0, <1>2, <3>1
    <3>3. store' \in {"none", "idle", "busy", "gone"}
      BY <1>2
    <3>4. guestListed' \in BOOLEAN
      BY <1>0, <1>2, Zenon
    <3>5. processes' \in Nat
      BY <1>0, <1>2
    <3> QED
      BY <3>2, <3>3, <3>4, <3>5
  <2>2. latch' \in BOOLEAN
    BY <1>3 DEF Guest!GuestTypes
  <2>3. active' \in Guest!Runs
    BY <1>4 DEF Guest!Runs
  <2> QED
    BY <1>1, <1>4, <1>6, <1>7, <2>1, <2>2, <2>3 DEF Guest!GuestTypes
<1>9. Guest!StoreHeld'
  BY <1>1, <1>2, <1>4 DEF Guest!StoreHeld, Guest!Loading
<1>10. Guest!RunningHeard'
  BY <1>1 DEF Guest!RunningHeard
<1>11. Guest!WaitingFresh'
  <2>1. \A i \in DOMAIN waiting : waiting[i].run \in Run => guestEnded'[waiting[i].run] = guestEnded[waiting[i].run]
    BY <1>5, <1>6
  <2> QED
    BY <1>1, <2>1 DEF Guest!WaitingFresh
<1>12. Guest!NothingOutlivesStore'
  BY <1>0, <1>1, <1>2, <1>4 DEF Guest!NothingOutlivesStore, Guest!Leaving
<1>13. Guest!AnswerOfOwnCall'
  <2>1. CASE UNCHANGED <<answer, latch>>
    BY <2>1 DEF Guest!AnswerOfOwnCall
  <2>2. CASE /\ guestRunning.kind = "tool"
             /\ \E outcome \in {"ok", "trap"} :
                  answer' = [refused |-> guestRunning.refused, said |-> Guest!Said(outcome)]
    <3>1. latch <=> guestRunning.refused
      BY <1>1, <2>2 DEF Guest!StoreHeld
    <3> QED
      BY <2>2, <3>1 DEF Guest!AnswerOfOwnCall, Guest!Said
  <2> QED
    BY <1>3, <2>1, <2>2
<1>14. Guest!EventsOfTheirRun'
  BY <1>4, <1>7 DEF Guest!EventsOfTheirRun
<1>15. Guest!NothingLeftBehind'
  <2>1. \A k \in DOMAIN queued : queued[k] \in Guest!Event
    BY <1>0
  <2>2. \A k \in DOMAIN queued : queued[k].run # NoRun => queued[k].run \in Run
    BY <2>1 DEF Guest!Event, Guest!Runs
  <2> HIDE DEF over, r
  <2>3. ASSUME NEW k \in DOMAIN queued', queued'[k].run # NoRun
        PROVE  /\ guestEnded'[queued'[k].run] # "cleaned"
               /\ guestEnded'[queued'[k].run] = "drained" => queued'[k].late
    <3>1. PICK i \in DOMAIN queued : queued'[k] = queued[i] /\ (over => queued[i].run # r)
      BY <1>7
    <3> QED
      BY <1>6, <2>2, <2>3, <3>1 DEF Guest!NothingLeftBehind
  <2> QED
    BY <2>3 DEF Guest!NothingLeftBehind
<1> QED
  BY <1>8, <1>9, <1>10, <1>11, <1>12, <1>13, <1>14, <1>15

\* Every step of a plugin's calls keeps GuestInv.
LEMMA GuestStep ==
    ASSUME Guest!GuestInv, Guest!Next \/ UNCHANGED guestVars
    PROVE  Guest!GuestInv'
<1> USE DEF Guest!GuestInv
<1>1. CASE UNCHANGED guestVars
  <2>1. /\ UNCHANGED <<guestPhase, store, principal, guestListed, processes>>
        /\ UNCHANGED <<waiting, guestRunning, active, latch>>
        /\ UNCHANGED <<queued, guestEnded, answer, calls>>
    BY <1>1 DEF guestVars
  <2> QED
    BY <2>1 DEF Guest!GuestTypes, Guest!StoreHeld, Guest!WaitingFresh, Guest!RunningHeard,
       Guest!AnswerOfOwnCall, Guest!NothingOutlivesStore, Guest!Loading, Guest!EventsOfTheirRun,
       Guest!InGuest, Guest!NothingLeftBehind
<1>0. calls \in Nat /\ calls + 1 \in Nat
  BY DEF Guest!GuestTypes
<1>2. ASSUME NEW kind \in {"tool", "work", "view", "deactivate"}, NEW r \in Guest!Runs, Guest!Request(kind, r)
      PROVE  Guest!GuestInv'
  <2>1. Guest!Call(kind, r) \in Guest!Calls /\ ~Guest!Call(kind, r).left /\ ~Guest!Call(kind, r).refused
        /\ Guest!Call(kind, r).kind = kind /\ Guest!Call(kind, r).run = r
    BY DEF Guest!Call, Guest!Calls, Guest!Kind, Guest!Runs
  <2>2. /\ guestPhase = "ready" /\ waiting' = Append(waiting, Guest!Call(kind, r)) /\ calls' = calls + 1
        /\ UNCHANGED <<guestPhase, store, principal, guestListed, processes,
                       guestRunning, active, latch, queued, guestEnded, answer>>
        /\ (r # NoRun => guestEnded[r] = "open")
    BY <1>2 DEF Guest!Request, Guest!life, Guest!kept
  <2> HIDE DEF Guest!GuestInv
  <2> QED
    BY <1>0, <2>1, <2>2, CallWaits
<1>3. ASSUME \/ \E r \in Run : Guest!CallTool(r) \/ Guest!DispatchEvent(r) \/ Guest!LoadContext(r)
             \/ Guest!HandleService \/ Guest!RenderUi \/ Guest!OnUiInput \/ Guest!Deactivate
      PROVE  Guest!GuestInv'
  BY <1>2, <1>3 DEF Guest!CallTool, Guest!DispatchEvent, Guest!LoadContext, Guest!HandleService,
                    Guest!RenderUi, Guest!OnUiInput, Guest!Deactivate, Guest!Runs
<1>4. ASSUME NEW i \in DOMAIN waiting, Guest!Leave(i) PROVE Guest!GuestInv'
  <2>1. /\ waiting[i].kind # "finish" /\ UNCHANGED guestEnded /\ waiting' = Guest!WithoutAt(waiting, i)
        /\ \/ UNCHANGED <<guestListed, principal>>
           \/ guestListed' = FALSE /\ principal' = Guest!Leaving(principal)
        /\ UNCHANGED <<guestPhase, store, processes, guestRunning, active, latch, queued, answer, calls>>
    BY <1>4 DEF Guest!Leave, Guest!kept
  <2> QED
    BY <2>1, CallForgotten
<1>5. CASE Guest!Abandon
  BY <1>5, CallUnheard DEF Guest!Abandon, Guest!life, Guest!kept
<1>6. ASSUME NEW r \in Run, Guest!Close(r) PROVE Guest!GuestInv'
  BY <1>0, <1>6, RunDrained DEF Guest!Close, Guest!life, Guest!work, Guest!Runs, Guest!GuestTypes
<1>7. ASSUME NEW r \in Run \cup {NoRun}, Guest!Drain(r) PROVE Guest!GuestInv'
  BY <1>0, <1>7, RunDrained DEF Guest!Drain, Guest!life, Guest!work, Guest!Runs, Guest!GuestTypes
<1>8. ASSUME NEW r \in Run, Guest!Finish(r) PROVE Guest!GuestInv'
  <2>1. /\ guestPhase = "ready" /\ guestEnded[r] \in {"open", "cut"} /\ Guest!Unheard(r)
        /\ calls' = calls + 1 /\ r \in Guest!Runs
        /\ UNCHANGED <<guestPhase, store, principal, guestListed, processes, guestRunning, active, latch, answer>>
    BY <1>8 DEF Guest!Finish, Guest!life, Guest!Runs
  <2>2. CASE store = "gone"
    <3>1. /\ queued' = Guest!Drained(r) /\ guestEnded' = [guestEnded EXCEPT ![r] = "cleaned"]
          /\ UNCHANGED waiting
      BY <1>8, <2>2 DEF Guest!Finish
    <3>2. guestRunning = NoValue
      BY <2>2 DEF Guest!StoreHeld
    <3> QED
      BY <1>0, <2>1, <3>1, <3>2, RunDrained
  <2>3. CASE store # "gone"
    <3>1. /\ waiting' = Append(waiting, Guest!Call("finish", r))
          /\ guestEnded' = [guestEnded EXCEPT ![r] = "closing"] /\ UNCHANGED queued
      BY <1>8, <2>3 DEF Guest!Finish
    <3>2. /\ Guest!Call("finish", r) \in Guest!Calls /\ ~Guest!Call("finish", r).left
          /\ ~Guest!Call("finish", r).refused
          /\ Guest!Call("finish", r).kind = "finish" /\ Guest!Call("finish", r).run = r
      BY DEF Guest!Call, Guest!Calls, Guest!Kind, Guest!Runs
    <3> HIDE DEF Guest!GuestInv
    <3> QED
      BY <1>0, <2>1, <3>1, <3>2, CallWaits
  <2> QED
    BY <2>2, <2>3
<1>9. ASSUME NEW r \in Run, Guest!FinishCut(r) PROVE Guest!GuestInv'
  <2>1. CASE \E i \in DOMAIN waiting :
          /\ waiting[i].kind = "finish" /\ waiting[i].run = r
          /\ waiting' = Guest!WithoutAt(waiting, i)
          /\ guestEnded' = [guestEnded EXCEPT ![r] = "cut"]
          /\ UNCHANGED <<guestPhase, store, principal, guestListed, processes,
                         guestRunning, active, latch, queued, answer, calls>>
    BY <2>1, CallForgotten
  <2>2. CASE /\ guestRunning # NoValue /\ guestRunning.kind = "finish" /\ guestRunning.run = r /\ ~guestRunning.left
             /\ guestRunning' = [guestRunning EXCEPT !.left = TRUE]
             /\ guestEnded' = [guestEnded EXCEPT ![r] = "cut"]
             /\ UNCHANGED <<guestPhase, store, principal, guestListed, processes,
                            waiting, active, latch, queued, answer, calls>>
    BY <2>2, CallUnheard
  <2> QED
    BY <1>9, <2>1, <2>2 DEF Guest!FinishCut, Guest!life
<1> QED
  BY <1>1, <1>3, <1>4, <1>5, <1>6, <1>7, <1>8, <1>9, GuestLives, CallBegun, EventEmitted,
     GuestRefused, CallEnded DEF Guest!Next

------------------------------------------------------------------------------
(* The cards of tools.                                                     *)

\* Without a card there is nothing to be drawn wrongly.
LEMMA FramesBegin ==
    ASSUME Cards!Init PROVE Cards!FrameInv
<1> USE DEF Cards!Init
<1>1. Cards!Messages = {}
  BY DEF Cards!Messages, Cards!Absent
<1>2. Cards!CardTypes
  BY DEF Cards!CardTypes
<1>3. Cards!OwnInRun /\ Cards!LatestAsked
  BY <1>1 DEF Cards!OwnInRun, Cards!LatestAsked
<1> QED
  BY <1>2, <1>3 DEF Cards!FrameInv

\* A message has the card of one, in every field.
LEMMA CardFields ==
    ASSUME NEW card \in Cards!Card \cup {Cards!Absent}
    PROVE  /\ card.state # "absent" <=> card \in Cards!Card
           /\ card \in Cards!Card =>
                /\ card.state \in Cards!States /\ card.own \in BOOLEAN /\ card.revision \in Nat
                /\ card.pending \in Width \cup {NoValue} /\ card.frameWidth \in Width \cup {NoValue}
                /\ card.frame \in Cards!Frames \cup {NoValue}
BY DEF Cards!Card, Cards!Absent, Cards!States

Rendering == [call : ToolCall, revision : Nat, width : Width, state : Cards!States, routes : Nat]

\* What asking for the renders of some messages comes to.
LEMMA RendersAsked ==
    ASSUME NEW cs \in [ToolCall -> Cards!Card \cup {Cards!Absent}], NEW S \in SUBSET ToolCall,
           NEW r \in Nat, \A c \in S : cs[c] \in Cards!Card,
           width \in Width, tasks \in SUBSET Rendering, Cards!Scheduled(cs, S, r)
    PROVE  /\ cards' \in [ToolCall -> Cards!Card \cup {Cards!Absent}]
           /\ \A c \in ToolCall \ S : cards'[c] = cs[c]
           /\ \A c \in S :
                /\ cards'[c] \in Cards!Card
                /\ cards'[c].state = cs[c].state /\ cards'[c].own = cs[c].own
                /\ cards'[c].pending = width /\ cards'[c].revision = cs[c].revision + 1
                /\ cards'[c].frame = cs[c].frame /\ cards'[c].frameWidth = cs[c].frameWidth
           /\ tasks' \in SUBSET Rendering /\ tasks \in SUBSET tasks'
           /\ \A t \in tasks' \ tasks :
                /\ t.call \in S /\ t.revision = cs[t.call].revision + 1 /\ t.width = width
                /\ t.state = cs[t.call].state /\ t.routes = r
           /\ \A c \in S : \E t \in tasks' : t.call = c /\ t.revision = cs[c].revision + 1
<1> DEFINE new == [c \in S |-> [call |-> c, revision |-> Cards!Asked(cs[c]).revision, width |-> width,
                               state |-> cs[c].state, routes |-> r]]
<1>1. \A c \in S :
        /\ Cards!Asked(cs[c]) \in Cards!Card
        /\ Cards!Asked(cs[c]).state = cs[c].state /\ Cards!Asked(cs[c]).own = cs[c].own
        /\ Cards!Asked(cs[c]).pending = width /\ Cards!Asked(cs[c]).revision = cs[c].revision + 1
        /\ Cards!Asked(cs[c]).frame = cs[c].frame /\ Cards!Asked(cs[c]).frameWidth = cs[c].frameWidth
  <2> SUFFICES ASSUME NEW c \in S
               PROVE  /\ Cards!Asked(cs[c]) \in Cards!Card
                      /\ Cards!Asked(cs[c]).state = cs[c].state /\ Cards!Asked(cs[c]).own = cs[c].own
                      /\ Cards!Asked(cs[c]).pending = width
                      /\ Cards!Asked(cs[c]).revision = cs[c].revision + 1
                      /\ Cards!Asked(cs[c]).frame = cs[c].frame
                      /\ Cards!Asked(cs[c]).frameWidth = cs[c].frameWidth
    OBVIOUS
  <2> DEFINE card == cs[c]
  <2>1. card \in Cards!Card
    OBVIOUS
  <2> HIDE DEF card
  <2>2. Cards!Asked(card) = [card EXCEPT !.pending = width, !.revision = card.revision + 1]
    BY DEF Cards!Asked
  <2>3. card.revision + 1 \in Nat /\ width \in Width \cup {NoValue}
    BY <2>1 DEF Cards!Card
  <2>4. Cards!Asked(card) \in Cards!Card
    BY <2>1, <2>2, <2>3 DEF Cards!Card
  <2>5. /\ Cards!Asked(card).state = card.state /\ Cards!Asked(card).own = card.own
        /\ Cards!Asked(card).pending = width
        /\ Cards!Asked(card).revision = card.revision + 1
        /\ Cards!Asked(card).frame = card.frame
        /\ Cards!Asked(card).frameWidth = card.frameWidth
    BY <2>1, <2>2 DEF Cards!Card
  <2> QED
    BY <2>4, <2>5 DEF card
<1>2. /\ cards' = [c \in ToolCall |-> IF c \in S THEN Cards!Asked(cs[c]) ELSE cs[c]]
      /\ tasks' = tasks \cup {new[c] : c \in S}
  BY DEF Cards!Scheduled
<1>3. \A c \in S : /\ new[c] \in Rendering /\ new[c].call = c /\ new[c].revision = cs[c].revision + 1
                   /\ new[c].width = width /\ new[c].state = cs[c].state /\ new[c].routes = r
  BY <1>1 DEF Rendering, Cards!Card
<1> HIDE DEF new
<1>4. /\ tasks' \in SUBSET Rendering /\ tasks \in SUBSET tasks'
  BY <1>2, <1>3
<1>5. \A t \in tasks' \ tasks :
                /\ t.call \in S /\ t.revision = cs[t.call].revision + 1 /\ t.width = width
                /\ t.state = cs[t.call].state /\ t.routes = r
  BY <1>2, <1>3
<1>6. \A c \in S : \E t \in tasks' : t.call = c /\ t.revision = cs[c].revision + 1
  BY <1>2, <1>3
<1>7. /\ cards' \in [ToolCall -> Cards!Card \cup {Cards!Absent}]
      /\ \A c \in ToolCall \ S : cards'[c] = cs[c]
      /\ \A c \in S : cards'[c] = Cards!Asked(cs[c])
  BY <1>1, <1>2
<1> QED
  BY <1>1, <1>4, <1>5, <1>6, <1>7

\* The cards and what is being drawn of them have their types.
LEMMA CardTypesOf ==
    Cards!CardTypes <=>
        /\ cardPhase \in {"idle", "running", "stopped"} /\ width \in Width /\ routes \in Nat
        /\ swept \in BOOLEAN /\ cards \in [ToolCall -> Cards!Card \cup {Cards!Absent}]
        /\ tasks \in SUBSET Rendering
BY DEF Cards!CardTypes, Rendering

\* Renders asked for while a run goes on, of messages and their changed cards.
LEMMA CardsRendered ==
    ASSUME Cards!FrameInv, UNCHANGED <<cardPhase, width>>,
           NEW cs \in [ToolCall -> Cards!Card \cup {Cards!Absent}], NEW S \in SUBSET ToolCall,
           \A c \in S : cs[c] \in Cards!Card, routes' \in Nat,
           Cards!Scheduled(cs, S, routes'), swept' \in BOOLEAN,
           \A c \in Cards!Messages : cs[c].state # "absent",
           \A c \in S : cs[c].own => cardPhase # "idle",
           \A c \in Cards!Messages : cs[c].own => cards[c].own,
           \A c \in ToolCall : cs[c].state # "absent" => c \in S \/ c \in Cards!Messages,
           \A c \in S : c \in Cards!Messages => cards[c].revision <= cs[c].revision,
           \A c \in ToolCall \ S : cs[c] = cards[c],
           Cards!Messages \in SUBSET S \/ UNCHANGED routes,
           swept' => \A c \in Cards!Messages \ S : cards[c].pending = width \/ cards[c].frameWidth = width
    PROVE  Cards!FrameInv'
<1> USE DEF Cards!FrameInv
<1>0. /\ cardPhase \in {"idle", "running", "stopped"} /\ width \in Width /\ routes \in Nat
      /\ swept \in BOOLEAN /\ cards \in [ToolCall -> Cards!Card \cup {Cards!Absent}]
      /\ tasks \in SUBSET Rendering
  BY CardTypesOf
<1>1. /\ cards' \in [ToolCall -> Cards!Card \cup {Cards!Absent}]
      /\ \A c \in ToolCall \ S : cards'[c] = cs[c]
      /\ \A c \in S :
           /\ cards'[c] \in Cards!Card
           /\ cards'[c].state = cs[c].state /\ cards'[c].own = cs[c].own
           /\ cards'[c].pending = width /\ cards'[c].revision = cs[c].revision + 1
           /\ cards'[c].frame = cs[c].frame /\ cards'[c].frameWidth = cs[c].frameWidth
      /\ tasks' \in SUBSET Rendering /\ tasks \in SUBSET tasks'
      /\ \A t \in tasks' \ tasks :
           /\ t.call \in S /\ t.revision = cs[t.call].revision + 1 /\ t.width = width
           /\ t.state = cs[t.call].state /\ t.routes = routes'
      /\ \A c \in S : \E t \in tasks' : t.call = c /\ t.revision = cs[c].revision + 1
  <2> HIDE DEF Cards!FrameInv
  <2> QED
    BY ONLY <1>0, RendersAsked, Cards!Scheduled(cs, S, routes'), routes' \in Nat,
            cs \in [ToolCall -> Cards!Card \cup {Cards!Absent}], S \in SUBSET ToolCall,
            \A c \in S : cs[c] \in Cards!Card
<1>2. Cards!CardTypes'
  BY <1>0, <1>1 DEF Cards!CardTypes, Rendering
<1>3. /\ \A c \in S : cards'[c].state # "absent" /\ cs[c].revision \in Nat
      /\ \A c \in Cards!Messages : cards[c].revision \in Nat /\ c \in ToolCall /\ cards[c].state # "absent"
      /\ \A t \in tasks : t.revision \in Nat /\ t.call \in Cards!Messages
  <2>1. \A t \in tasks : t.revision \in Nat
    BY <1>0 DEF Rendering
  <2>2. \A c \in Cards!Messages : c \in ToolCall /\ cards[c].state # "absent"
    BY DEF Cards!Messages
  <2>3. \A c \in Cards!Messages : cards[c].revision \in Nat
    BY <1>0, <2>2, CardFields
  <2>4. \A c \in S : cards'[c].state # "absent" /\ cs[c].revision \in Nat
    BY <1>1, CardFields
  <2> QED
    BY <2>1, <2>2, <2>3, <2>4 DEF Cards!OwnInRun
<1>4. Cards!OwnInRun'
  <2>1. \A c \in ToolCall : cards'[c].state # "absent" => c \in S \/ c \in Cards!Messages
    BY <1>1
  <2>2. \A c \in Cards!Messages \cup S : c \in (Cards!Messages)'
    BY <1>1, <1>3 DEF Cards!Messages
  <2>3. \A t \in tasks' : t.call \in (Cards!Messages)'
    BY <1>1, <1>3, <2>2
  <2>4. ASSUME cardPhase = "idle", NEW c \in (Cards!Messages)' PROVE ~cards'[c].own
    <3>1. c \in ToolCall /\ cards'[c].state # "absent"
      BY <2>4 DEF Cards!Messages
    <3>2. cards'[c].own = cs[c].own
      BY <1>1, <3>1
    <3>3. CASE c \in S
      BY <2>4, <3>2, <3>3
    <3>4. CASE c \in Cards!Messages
      BY <2>4, <3>2, <3>4 DEF Cards!OwnInRun
    <3> QED
      BY <2>1, <3>1, <3>3, <3>4
  <2> QED
    BY <2>3, <2>4 DEF Cards!OwnInRun
<1>5. ASSUME cardPhase = "running", NEW c \in (Cards!Messages)', cards'[c].own
      PROVE  Cards!AskedLast(c)'
  <2>0. c \in ToolCall /\ cards'[c].state # "absent"
    BY <1>5 DEF Cards!Messages
  <2>1. CASE c \in S
    <3>0. \A t \in tasks : t.call = c => t.revision <= cs[c].revision
      <4> SUFFICES ASSUME NEW t \in tasks, t.call = c PROVE t.revision <= cs[c].revision
        OBVIOUS
      <4>1. c \in Cards!Messages
        BY <1>3
      <4>2. cs[c].own
        BY <1>1, <1>5, <2>1
      <4>3. cards[c].own
        BY <4>1, <4>2
      <4>4. Cards!AskedLast(c)
        BY <1>5, <4>1, <4>3 DEF Cards!LatestAsked
      <4>5. t.revision <= cards[c].revision /\ cards[c].revision <= cs[c].revision
        BY <2>1, <4>1, <4>4 DEF Cards!AskedLast
      <4> QED
        BY <1>3, <2>1, <4>1, <4>5
    <3>1. \A t \in tasks' : t.call = c => t.revision <= cards'[c].revision
      BY <1>1, <1>3, <2>1, <3>0
    <3>2. \A t \in tasks' : t.call = c /\ t.revision = cards'[c].revision => t \notin tasks
      <4> SUFFICES ASSUME NEW t \in tasks, t.call = c, t.revision = cs[c].revision + 1 PROVE FALSE
        BY <1>1, <2>1
      <4> QED
        BY <1>3, <2>1, <3>0
    <3>3. \A t \in tasks' : t.call = c /\ t.revision = cards'[c].revision =>
            t.state = cards'[c].state /\ t.routes = routes' /\ t.width = cards'[c].pending
      BY <1>1, <2>1, <3>2
    <3>4. \E t \in tasks' : t.call = c /\ t.revision = cards'[c].revision
      BY <1>1, <2>1
    <3>5. cards'[c].pending = width /\ width # NoValue
      BY <1>0, <1>1, <2>1, CardConstants
    <3> QED
      BY <3>1, <3>3, <3>4, <3>5 DEF Cards!AskedLast
  <2>2. CASE c \notin S
    <3>1. c \in Cards!Messages /\ cs[c] = cards[c] /\ cards'[c] = cards[c] /\ UNCHANGED routes
      BY <1>1, <2>0, <2>2
    <3>2. Cards!AskedLast(c)
      BY <1>5, <3>1 DEF Cards!LatestAsked
    <3>3. \A t \in tasks' : t.call = c => t \in tasks
      BY <1>1, <2>2
    <3> QED
      BY <1>1, <2>2, <3>1, <3>2, <3>3 DEF Cards!AskedLast
  <2> QED
    BY <2>1, <2>2
<1> QED
  BY <1>2, <1>4, <1>5 DEF Cards!LatestAsked

\* A run that begins or ends asks for what its cards show.
LEMMA RunOfCards ==
    ASSUME Cards!FrameInv,
           \/ Cards!StartRun \/ Cards!Interrupt \/ Cards!AgentDone
           \/ \E w \in Width : Cards!Resize(w)
    PROVE  Cards!FrameInv'
<1> USE DEF Cards!FrameInv
<1>0. /\ cardPhase \in {"idle", "running", "stopped"} /\ width \in Width /\ routes \in Nat
      /\ swept \in BOOLEAN /\ cards \in [ToolCall -> Cards!Card \cup {Cards!Absent}]
      /\ tasks \in SUBSET Rendering
  BY CardTypesOf
<1>1. CASE Cards!StartRun
  <2>1. cardPhase = "idle" /\ cardPhase' = "running" /\ UNCHANGED <<cards, width, routes, tasks, swept>>
    BY <1>1 DEF Cards!StartRun
  <2> QED
    BY <2>1 DEF Cards!CardTypes, Cards!OwnInRun, Cards!LatestAsked, Cards!Messages
<1>2. CASE \E w \in Width : Cards!Resize(w)
  <2>1. width' \in Width /\ ~swept' /\ swept' \in BOOLEAN /\ UNCHANGED <<cardPhase, cards, routes, tasks>>
    BY <1>2 DEF Cards!Resize
  <2>2. \A c \in Cards!Messages : Cards!AskedLast(c) => Cards!AskedLast(c)'
    BY <2>1 DEF Cards!AskedLast
  <2> QED
    BY <2>1, <2>2 DEF Cards!CardTypes, Cards!OwnInRun, Cards!LatestAsked, Cards!Messages
<1>3. CASE Cards!Interrupt \/ Cards!AgentDone
  <2>1. /\ cardPhase' \in {"idle", "stopped"} /\ swept' \in BOOLEAN
        /\ UNCHANGED <<tasks, width, routes>>
    BY <1>0, <1>3 DEF Cards!Interrupt, Cards!AgentDone, Cards!Kept
  <2>2. \A c \in Cards!Messages : c \in ToolCall /\ cards[c] \in Cards!Card
    BY <1>0, CardFields DEF Cards!Messages
  <2>3. ASSUME NEW c \in ToolCall
        PROVE  /\ c \in Cards!Messages =>
                    cards'[c] \in Cards!Card /\ (cardPhase' = "idle" => ~cards'[c].own)
               /\ c \notin Cards!Messages => cards'[c] = Cards!Absent
    <3>1. CASE Cards!Interrupt
      <4>1. cards'[c] = IF cards[c].state = "running" THEN [cards[c] EXCEPT !.state = "skipped"] ELSE cards[c]
        BY <3>1 DEF Cards!Interrupt
      <4>2. CASE c \in Cards!Messages
        BY <2>2, <3>1, <4>1, <4>2 DEF Cards!Interrupt, Cards!Card, Cards!States
      <4>3. CASE c \notin Cards!Messages
        <5>1. cards[c].state = "absent" /\ cards[c] = Cards!Absent
          BY <1>0, <4>3, CardFields DEF Cards!Messages
        <5> QED
          BY <4>1, <4>3, <5>1
      <4> QED
        BY <4>2, <4>3
    <3>2. CASE Cards!AgentDone
      <4>1. cards'[c] = IF c \notin Cards!Messages THEN Cards!Absent
                        ELSE IF cardPhase = "stopped" THEN [cards[c] EXCEPT !.own = FALSE]
                        ELSE Cards!Fresh("done", FALSE)
        BY <3>2 DEF Cards!AgentDone
      <4>2. Cards!Fresh("done", FALSE) \in Cards!Card /\ ~Cards!Fresh("done", FALSE).own
        BY DEF Cards!Fresh, Cards!Card, Cards!States
      <4>3. c \in Cards!Messages => [cards[c] EXCEPT !.own = FALSE] \in Cards!Card
                                     /\ ~[cards[c] EXCEPT !.own = FALSE].own
        BY <2>2 DEF Cards!Card
      <4> QED
        BY <4>1, <4>2, <4>3
    <3> QED
      BY <1>3, <3>1, <3>2
  <2>4. cards' \in [ToolCall -> Cards!Card \cup {Cards!Absent}]
    <3>1. \A c \in ToolCall : cards'[c] \in Cards!Card \cup {Cards!Absent}
      BY <2>3
    <3>2. /\ DOMAIN cards' = ToolCall
          /\ cards' = [c \in ToolCall |-> cards'[c]]
      BY <1>3 DEF Cards!Interrupt, Cards!AgentDone
    <3> QED
      BY <3>1, <3>2
  <2>5. (Cards!Messages)' = Cards!Messages
    <3>1. \A c \in ToolCall : cards'[c].state # "absent" <=> c \in Cards!Messages
      BY <2>3, <2>4, CardFields DEF Cards!Absent
    <3> QED
      BY <3>1 DEF Cards!Messages
  <2>6. Cards!CardTypes'
    BY <1>0, <2>1, <2>4 DEF Cards!CardTypes, Rendering
  <2>7. Cards!OwnInRun'
    BY <2>1, <2>2, <2>3, <2>5 DEF Cards!OwnInRun
  <2> QED
    BY <2>1, <2>6, <2>7 DEF Cards!LatestAsked
<1> QED
  BY <1>1, <1>2, <1>3

\* A card that comes or changes is asked for with its last state.
LEMMA CardPut ==
    ASSUME Cards!FrameInv, NEW c \in ToolCall, NEW state \in {"running", "skipped", "done"},
           Cards!Put(c, state)
    PROVE  Cards!FrameInv'
<1> DEFINE card == IF state = "done" THEN [cards[c] EXCEPT !.state = state] ELSE Cards!Fresh(state, TRUE)
           cs == [cards EXCEPT ![c] = card]
<1>0. /\ cardPhase = "running" /\ swept' = FALSE /\ UNCHANGED <<cardPhase, width, routes>>
      /\ Cards!Scheduled(cs, {c}, routes')
      /\ IF state = "done" THEN cards[c].state = "running" ELSE cards[c].state = "absent"
  <2>1. /\ cardPhase = "running" /\ swept' = FALSE /\ UNCHANGED <<cardPhase, width, routes>>
        /\ Cards!Scheduled([cards EXCEPT ![c] = IF state = "done" THEN [@ EXCEPT !.state = state]
                                      ELSE Cards!Fresh(state, TRUE)], {c}, routes)
        /\ IF state = "done" THEN cards[c].state = "running" ELSE cards[c].state = "absent"
    BY DEF Cards!Put, Cards!Kept
  <2>2. cs = [cards EXCEPT ![c] = IF state = "done" THEN [@ EXCEPT !.state = state]
                                      ELSE Cards!Fresh(state, TRUE)]
    OBVIOUS
  <2> HIDE DEF cs
  <2> QED
    BY <2>1, <2>2
<1>1. /\ routes \in Nat /\ cards \in [ToolCall -> Cards!Card \cup {Cards!Absent}]
  BY CardTypesOf DEF Cards!FrameInv
<1>2. /\ card \in Cards!Card
      /\ state = "done" => card.own = cards[c].own /\ card.revision = cards[c].revision
  <2>1. CASE state = "done"
    <3>1. cards[c] \in Cards!Card
      BY <1>0, <1>1, <2>1, CardFields
    <3> QED
      BY <2>1, <3>1 DEF Cards!Card, Cards!States
  <2>2. CASE state # "done"
    BY <2>2 DEF Cards!Fresh, Cards!Card, Cards!States
  <2> QED
    BY <2>1, <2>2
<1>3. c \in Cards!Messages <=> state = "done"
  BY <1>0 DEF Cards!Messages
<1> HIDE DEF card
<1>4. /\ cs \in [ToolCall -> Cards!Card \cup {Cards!Absent}] /\ cs[c] = card
      /\ \A k \in ToolCall \ {c} : cs[k] = cards[k]
  BY <1>1, <1>2
<1> HIDE DEF cs
<1>5. cards[c].revision <= card.revision \/ c \notin Cards!Messages
  BY <1>1, <1>2, <1>3, CardFields DEF Cards!Messages
<1>6. \A k \in Cards!Messages : cs[k].state # "absent"
  BY <1>1, <1>2, <1>4, CardFields DEF Cards!Messages
<1>7. \A k \in Cards!Messages : cs[k].own => cards[k].own
  BY <1>2, <1>3, <1>4 DEF Cards!Messages
<1>8. \A k \in ToolCall : cs[k].state # "absent" => k \in {c} \/ k \in Cards!Messages
  BY <1>4 DEF Cards!Messages
<1> DEFINE S == {c}
<1>9. /\ S \in SUBSET ToolCall /\ routes' \in Nat /\ swept' \in BOOLEAN
      /\ \A k \in S : cs[k] \in Cards!Card
      /\ \A k \in S : cs[k].own => cardPhase # "idle"
      /\ \A k \in S : k \in Cards!Messages => cards[k].revision <= cs[k].revision
      /\ \A k \in ToolCall \ S : cs[k] = cards[k]
      /\ Cards!Messages \in SUBSET S \/ UNCHANGED routes
      /\ swept' => \A k \in Cards!Messages \ S : cards[k].pending = width \/ cards[k].frameWidth = width
  BY <1>0, <1>1, <1>2, <1>4, <1>5
<1>10. /\ Cards!Scheduled(cs, S, routes')
       /\ \A k \in ToolCall : cs[k].state # "absent" => k \in S \/ k \in Cards!Messages
       /\ UNCHANGED <<cardPhase, width>>
  BY <1>0, <1>8
<1> HIDE DEF S
<1> QED
  BY ONLY Cards!FrameInv, <1>4, <1>6, <1>7, <1>9, <1>10, CardsRendered

\* A plugin that is loaded draws what was drawn without it.
LEMMA PluginCame ==
    ASSUME Cards!FrameInv, Cards!PluginReady
    PROVE  Cards!FrameInv'
<1> DEFINE cs == [c \in ToolCall |-> IF c \in Cards!Messages THEN Cards!Invalid(cards[c]) ELSE Cards!Absent]
           S == Cards!Stale(cs)
<1>0. /\ routes' = routes + 1 /\ Cards!Scheduled(cs, S, routes') /\ UNCHANGED <<cardPhase, width, swept>>
  BY DEF Cards!PluginReady
<1>1. /\ routes \in Nat /\ cards \in [ToolCall -> Cards!Card \cup {Cards!Absent}] /\ width \in Width
      /\ cardPhase \in {"idle", "running", "stopped"} /\ swept \in BOOLEAN
  BY CardTypesOf DEF Cards!FrameInv
<1>2. \A c \in Cards!Messages : c \in ToolCall /\ cards[c] \in Cards!Card
  BY <1>1, CardFields DEF Cards!Messages
<1>3. ASSUME NEW c \in Cards!Messages
      PROVE  /\ cs[c] \in Cards!Card /\ cs[c].own = cards[c].own /\ cs[c].state # "absent"
             /\ cs[c].pending = NoValue /\ cs[c].frameWidth = NoValue
             /\ cards[c].revision <= cs[c].revision
  <2> DEFINE card == cards[c]
  <2>1. card \in Cards!Card /\ cs[c] = Cards!Invalid(card)
    BY <1>2
  <2> HIDE DEF card
  <2>2. Cards!Invalid(card) =
          [card EXCEPT !.frame = NoValue, !.frameWidth = NoValue, !.pending = NoValue, !.revision = card.revision + 1]
    BY DEF Cards!Invalid
  <2>3. card.revision \in Nat /\ card.state # "absent"
    BY <2>1, CardFields
  <2> DEFINE bare == [card EXCEPT !.frame = NoValue, !.frameWidth = NoValue]
  <2>a. bare \in Cards!Card
    BY <2>1 DEF Cards!Card
  <2>b. [bare EXCEPT !.pending = NoValue, !.revision = card.revision + 1] \in Cards!Card
    <3>1. NoValue \in Width \cup {NoValue} /\ card.revision + 1 \in Nat
      BY <2>3
    <3> HIDE DEF bare
    <3> QED
      BY <2>a, <3>1 DEF Cards!Card
  <2>c. Cards!Invalid(card) = [bare EXCEPT !.pending = NoValue, !.revision = card.revision + 1]
    BY <2>1, <2>2 DEF Cards!Card
  <2>4. Cards!Invalid(card) \in Cards!Card
    BY <2>b, <2>c, Zenon
  <2>5. /\ Cards!Invalid(card).own = card.own /\ Cards!Invalid(card).state = card.state
        /\ Cards!Invalid(card).pending = NoValue /\ Cards!Invalid(card).frameWidth = NoValue
        /\ Cards!Invalid(card).revision = card.revision + 1
    BY <2>1, <2>2 DEF Cards!Card
  <2> HIDE DEF cs
  <2> QED
    BY <2>1, <2>3, <2>4, <2>5 DEF card
<1>4. \A c \in ToolCall : c \notin Cards!Messages => cs[c] = cards[c] /\ cs[c].state = "absent"
  <2>1. \A c \in ToolCall : c \notin Cards!Messages => cs[c] = Cards!Absent /\ cs[c].state = "absent"
    BY DEF Cards!Absent
  <2>2. \A c \in ToolCall : c \notin Cards!Messages => cards[c] = Cards!Absent
    BY <1>1, CardFields DEF Cards!Messages
  <2> HIDE DEF cs
  <2> QED
    BY <2>1, <2>2
<1>5. cs \in [ToolCall -> Cards!Card \cup {Cards!Absent}]
  BY <1>3
<1> HIDE DEF cs
<1>6. S = Cards!Messages /\ S \in SUBSET ToolCall
  <2>1. width # NoValue
    BY <1>1, CardConstants
  <2> QED
    BY <1>2, <1>3, <1>4, <2>1 DEF Cards!Stale
<1> HIDE DEF S
<1>7. \A c \in S : cs[c] \in Cards!Card
  BY <1>3, <1>6
<1>8. \A c \in S : cs[c].own => cardPhase # "idle"
  BY <1>3, <1>6 DEF Cards!FrameInv, Cards!OwnInRun
<1>9. /\ \A c \in Cards!Messages : cs[c].state # "absent"
      /\ \A c \in Cards!Messages : cs[c].own => cards[c].own
      /\ \A c \in ToolCall : cs[c].state # "absent" => c \in S \/ c \in Cards!Messages
      /\ \A c \in S : c \in Cards!Messages => cards[c].revision <= cs[c].revision
      /\ \A c \in ToolCall \ S : cs[c] = cards[c]
      /\ Cards!Messages \in SUBSET S \/ UNCHANGED routes
      /\ \A c \in Cards!Messages \ S : cards[c].pending = width \/ cards[c].frameWidth = width
      /\ routes' \in Nat /\ swept' \in BOOLEAN
  BY <1>0, <1>1, <1>3, <1>4, <1>6
<1> QED
  BY ONLY Cards!FrameInv, <1>0, <1>5, <1>6, <1>7, <1>8, <1>9, CardsRendered

\* A tick starts what is asked for and nothing older.
LEMMA CardsTicked ==
    ASSUME Cards!FrameInv, Cards!Tick
    PROVE  Cards!FrameInv'
<1> DEFINE S == Cards!Stale(cards)
<1>0. /\ UNCHANGED <<cardPhase, width, routes>> /\ Cards!Scheduled(cards, S, routes') /\ swept' = TRUE
  BY DEF Cards!Tick
<1>1. /\ routes \in Nat /\ cards \in [ToolCall -> Cards!Card \cup {Cards!Absent}] /\ width \in Width
  BY CardTypesOf DEF Cards!FrameInv
<1>2. /\ S \in SUBSET ToolCall
      /\ \A c \in S : cards[c] \in Cards!Card /\ c \in Cards!Messages
      /\ \A c \in Cards!Messages \ S : cards[c].pending = width \/ cards[c].frameWidth = width
  BY <1>1, CardFields DEF Cards!Stale, Cards!Messages
<1> HIDE DEF S
<1>3. \A c \in S : cards[c].own => cardPhase # "idle"
  BY <1>2 DEF Cards!FrameInv, Cards!OwnInRun
<1>4. /\ \A c \in Cards!Messages : cards[c].state # "absent"
      /\ \A c \in ToolCall : cards[c].state # "absent" => c \in S \/ c \in Cards!Messages
      /\ \A c \in S : cards[c] \in Cards!Card
      /\ \A c \in S : c \in Cards!Messages => cards[c].revision <= cards[c].revision
      /\ \A c \in Cards!Messages : cards[c].own => cards[c].own
      /\ \A c \in ToolCall \ S : cards[c] = cards[c]
      /\ Cards!Messages \in SUBSET S \/ UNCHANGED routes
      /\ routes' \in Nat /\ swept' \in BOOLEAN
  <2>1. \A c \in S : cards[c].revision \in Nat
    BY <1>2, CardFields
  <2>2. \A c \in S : c \in Cards!Messages => cards[c].revision <= cards[c].revision
    BY <2>1
  <2>3. \A c \in ToolCall : cards[c].state # "absent" => c \in S \/ c \in Cards!Messages
    BY DEF Cards!Messages
  <2>4. \A c \in Cards!Messages : cards[c].state # "absent"
    BY DEF Cards!Messages
  <2>5. \A c \in S : cards[c] \in Cards!Card
    BY <1>2
  <2> QED
    BY <1>0, <1>1, <2>2, <2>3, <2>4, <2>5
<1> QED
  BY ONLY Cards!FrameInv, <1>0, <1>1, <1>2, <1>3, <1>4, CardsRendered

\* A result comes back: of the last render of its call, or of none that counts.
LEMMA CardLoaded ==
    ASSUME Cards!FrameInv, NEW t \in tasks, NEW some \in BOOLEAN, Cards!Loaded(t, some)
    PROVE  Cards!FrameInv'
<1> USE DEF Cards!FrameInv
<1> DEFINE k == t.call
           frame == IF some THEN [state |-> t.state, width |-> t.width, routes |-> t.routes] ELSE NoValue
           card == [cards[k] EXCEPT !.pending = NoValue, !.frameWidth = t.width, !.frame = frame]
<1>0. /\ cardPhase \in {"idle", "running", "stopped"} /\ width \in Width /\ routes \in Nat
      /\ swept \in BOOLEAN /\ cards \in [ToolCall -> Cards!Card \cup {Cards!Absent}]
      /\ tasks \in SUBSET Rendering
  BY CardTypesOf
<1>1. /\ tasks' = tasks \ {t} /\ UNCHANGED <<cardPhase, width, routes>>
      /\ swept' = (swept /\ (cards' = cards \/ t.width = width))
  BY DEF Cards!Loaded, Cards!Kept
<1>2. /\ k \in Cards!Messages /\ k \in ToolCall /\ cards[k] \in Cards!Card
      /\ t \in Rendering /\ t.width \in Width /\ t.state \in Cards!States /\ t.routes \in Nat
  <2>1. t \in Rendering
    BY <1>0
  <2>2. k \in Cards!Messages
    BY DEF Cards!OwnInRun
  <2> QED
    BY <1>0, <2>1, <2>2, CardFields DEF Rendering, Cards!Messages
<1>3. frame \in Cards!Frames \cup {NoValue}
  BY <1>2 DEF Cards!Frames
<1>a. swept' \in BOOLEAN /\ (swept' => swept)
  BY <1>0, <1>1
<1>4. CASE ~(cardPhase = "running" /\ Cards!Current(t))
  <2>1. cards' = cards
    BY <1>4 DEF Cards!Loaded
  <2>2. Cards!CardTypes'
    BY <1>0, <1>1, <1>a, <2>1 DEF Cards!CardTypes, Rendering
  <2>3. Cards!OwnInRun'
    BY <1>1, <2>1 DEF Cards!OwnInRun, Cards!Messages
  <2>4. ASSUME cardPhase = "running", NEW c \in Cards!Messages, cards[c].own
        PROVE  Cards!AskedLast(c)'
    <3>1. Cards!AskedLast(c)
      BY <2>4 DEF Cards!LatestAsked
    <3>2. t.call = c => t.revision # cards[c].revision
      BY <1>2, <1>4, <2>4 DEF Cards!Current, Cards!Messages
    <3>3. cards[c].pending # NoValue => \E u \in tasks' : u.call = c /\ u.revision = cards[c].revision
      BY <1>1, <3>1, <3>2 DEF Cards!AskedLast
    <3> QED
      BY <1>1, <1>a, <2>1, <3>1, <3>3 DEF Cards!AskedLast
  <2>5. Cards!LatestAsked'
    BY <1>1, <2>1, <2>4 DEF Cards!LatestAsked, Cards!Messages
  <2> QED
    BY <2>2, <2>3, <2>5
<1>5. CASE cardPhase = "running" /\ Cards!Current(t)
  <2>1. cards' = [cards EXCEPT ![k] = card]
    BY <1>5 DEF Cards!Loaded
  <2>2. /\ card \in Cards!Card /\ card.state = cards[k].state /\ card.own = cards[k].own
        /\ card.revision = cards[k].revision /\ card.pending = NoValue /\ card.frameWidth = t.width
        /\ card.frame = frame
    <3> HIDE DEF frame
    <3> QED
      BY <1>2, <1>3 DEF Cards!Card
  <2> HIDE DEF card
  <2>3. /\ cards' \in [ToolCall -> Cards!Card \cup {Cards!Absent}] /\ cards'[k] = card
        /\ \A c \in ToolCall \ {k} : cards'[c] = cards[c]
    BY <1>0, <1>2, <2>1, <2>2
  <2>4. Cards!CardTypes'
    BY <1>0, <1>1, <1>a, <2>3 DEF Cards!CardTypes, Rendering
  <2>5. (Cards!Messages)' = Cards!Messages
    <3>1. \A c \in ToolCall : cards'[c].state = cards[c].state
      BY <2>2, <2>3
    <3> QED
      BY <3>1 DEF Cards!Messages
  <2>6. Cards!OwnInRun'
    BY <1>1, <1>5, <2>5 DEF Cards!OwnInRun
  <2>7. ASSUME NEW c \in Cards!Messages, cards'[c].own
        PROVE  Cards!AskedLast(c)'
    <3>0. c \in ToolCall
      BY DEF Cards!Messages
    <3>1. cards[c].own
      BY <2>2, <2>3, <2>7, <3>0
    <3>2. Cards!AskedLast(c)
      BY <1>5, <3>1 DEF Cards!LatestAsked
    <3>3. CASE c # k
      <4>1. cards'[c] = cards[c] /\ \A u \in tasks : u.call = c => u \in tasks'
        BY <1>1, <2>3, <3>0, <3>3
      <4> QED
        BY <1>1, <1>a, <3>2, <4>1 DEF Cards!AskedLast
    <3>4. CASE c = k
      <4>1. t.revision = cards[k].revision
        BY <1>5 DEF Cards!Current
      <4>2. t.state = cards[k].state /\ t.routes = routes /\ t.width = cards[k].pending
        BY <3>2, <3>4, <4>1 DEF Cards!AskedLast
      <4>3. \A u \in tasks' : u.call = k => u.revision # cards[k].revision
        <5> SUFFICES ASSUME NEW u \in tasks', u.call = k, u.revision = cards[k].revision PROVE FALSE
          OBVIOUS
        <5>1. u \in tasks /\ u # t /\ u \in Rendering
          BY <1>0, <1>1
        <5>2. u.state = cards[k].state /\ u.routes = routes /\ u.width = cards[k].pending
          BY <3>2, <3>4, <5>1 DEF Cards!AskedLast
        <5>3. u = t
          BY <1>2, <4>1, <4>2, <5>1, <5>2 DEF Rendering
        <5> QED
          BY <5>1, <5>3
      <4>4. \A u \in tasks' : u.call = k => u.revision <= cards[k].revision
        BY <1>1, <3>2, <3>4 DEF Cards!AskedLast
      <4>5. card.frame # NoValue => card.frame.state = card.state /\ card.frame.routes = routes
        BY <2>2, <4>2
      <4>6. swept' => card.frameWidth = width \/ card.pending = width
        <5>1. CASE t.width = width
          BY <2>2, <5>1
        <5>2. CASE cards' = cards
          BY <1>a, <2>3, <3>2, <3>4, <5>2 DEF Cards!AskedLast
        <5> QED
          BY <1>1, <5>1, <5>2
      <4> QED
        BY <1>1, <2>2, <2>3, <3>4, <4>3, <4>4, <4>5, <4>6 DEF Cards!AskedLast
    <3> QED
      BY <3>3, <3>4
  <2>8. Cards!LatestAsked'
    BY <2>5, <2>7 DEF Cards!LatestAsked
  <2> QED
    BY <2>4, <2>6, <2>8
<1> QED
  BY <1>4, <1>5

\* Every step of the terminal's cards keeps FrameInv.
LEMMA FrameStep ==
    ASSUME Cards!FrameInv, Cards!Next \/ UNCHANGED toolFrameVars
    PROVE  Cards!FrameInv'
<1>1. CASE UNCHANGED toolFrameVars
  BY <1>1 DEF toolFrameVars, Cards!FrameInv, Cards!CardTypes, Cards!OwnInRun, Cards!LatestAsked,
              Cards!AskedLast, Cards!Messages
<1> QED
  BY <1>1, RunOfCards, CardPut, PluginCame, CardsTicked, CardLoaded DEF Cards!Next

\* When nothing is asked for any more each card shows its last state.
LEMMA FramesAreTheLast == ASSUME Cards!FrameInv PROVE Cards!FrameOfLastState
<1> USE DEF Cards!FrameInv
<1> SUFFICES ASSUME cardPhase = "running", NEW c \in Cards!Messages, cards[c].own, ~Cards!Waits(c)
             PROVE  Cards!Settled(c)
  BY DEF Cards!FrameOfLastState
<1>1. Cards!AskedLast(c)
  BY DEF Cards!LatestAsked
<1>2. cards[c].pending = NoValue
  BY <1>1 DEF Cards!AskedLast, Cards!Waits
<1>3. width # NoValue
  BY CardTypesOf, CardConstants
<1> QED
  BY <1>1, <1>2, <1>3 DEF Cards!AskedLast, Cards!Settled

------------------------------------------------------------------------------
(* The event bus.                                                          *)

\* What DispatchInv says of each dispatch, but for its types.
SoundDispatch(x, t) ==
    /\ x.phase = "collects" <=> x.left # <<>>
    /\ x.standing \subseteq t
    /\ x.bus = "root" => \A r \in x.todo \cup Dispatching!Range(x.called) : r.bus = "root"
    /\ x.bus = "root" => x.left # <<"child", "root">>
    /\ x.phase \in {"idle", "collects"} =>
          x.called = <<>> /\ x.canceller = NoBody /\ x.refused = {} /\ x.seen = {}
    /\ x.phase = "collects" => \A r \in x.standing :
          r \in x.todo \/ r.bus = "root" \/ x.left = <<"child", "root">>
    /\ x.phase \in {"idle", "done"} => x.todo = {}
    /\ \A i \in DOMAIN x.called : \A r \in x.todo : Dispatching!InOrder(x.called[i], r)
    /\ x.phase \in {"calls", "done"} => \A r \in x.standing :
          \/ r \in x.todo \/ r \in Dispatching!Range(x.called)
          \/ r.ignore_cancelled /\ x.canceller # NoBody
    /\ x.refused \subseteq Dispatching!Range(x.called)
    /\ x.seen \subseteq {<<x.canceller, x.data>>}
    /\ x.seen # {} => \A r \in x.todo : Dispatching!ReadOnly(r)
    /\ \A i, j \in 1..Len(x.called) : i < j => Dispatching!InOrder(x.called[i], x.called[j])
    /\ IF x.refused = {} THEN x.canceller = NoBody
       ELSE \E r \in x.refused : /\ x.canceller = r.subscriber
                                 /\ \A other \in x.refused \ {r} : Dispatching!InOrder(r, other)

DispatchesSound == \A d \in BusDispatch : SoundDispatch(dispatches[d], table)

\* DispatchInv is what it says of the registrations and of each dispatch.
LEMMA DispatchParts ==
    Dispatching!DispatchInv <=>
        Dispatching!BusTypes /\ Dispatching!Numbered /\ DispatchesSound
<1>1. ASSUME Dispatching!DispatchInv PROVE DispatchesSound
  BY <1>1 DEF DispatchesSound, SoundDispatch, Dispatching!DispatchInv, Dispatching!Collecting, Dispatching!Calling,
     Dispatching!MonitorsSeeTheEnd, Dispatching!FirstRefusalStands
<1>2. ASSUME DispatchesSound
      PROVE  Dispatching!Collecting /\ Dispatching!Calling /\ Dispatching!NoGateMissed
             /\ Dispatching!MonitorsSeeTheEnd /\ Dispatching!FirstRefusalStands
             /\ Dispatching!GatesStayWithChild
  <2>1. Dispatching!Collecting /\ Dispatching!Calling
    BY <1>2 DEF DispatchesSound, SoundDispatch, Dispatching!Collecting, Dispatching!Calling
  <2>2. Dispatching!FirstRefusalStands
    BY <1>2 DEF DispatchesSound, SoundDispatch, Dispatching!FirstRefusalStands
  <2>3. Dispatching!MonitorsSeeTheEnd
    BY <1>2 DEF DispatchesSound, SoundDispatch, Dispatching!MonitorsSeeTheEnd
  <2>4. Dispatching!NoGateMissed /\ Dispatching!GatesStayWithChild
    BY <1>2 DEF DispatchesSound, SoundDispatch, Dispatching!NoGateMissed, Dispatching!GatesStayWithChild,
                Dispatching!Done
  <2> QED
    BY <2>1, <2>2, <2>3, <2>4
<1> QED
  BY <1>1, <1>2 DEF Dispatching!DispatchInv

\* What is registered, about to be, or in the hands of a dispatch.
KnownOnes == \A r : r \in Dispatching!Known <=>
    \/ r \in table \/ \E s \in Subscriber : r \in arriving[s]
    \/ \E d \in BusDispatch : r \in dispatches[d].todo \cup Dispatching!Range(dispatches[d].called)

\* What a dispatch has or had to call is a registration that has its number.
LEMMA AllKnown == KnownOnes
<1>1. \A r : r \in Dispatching!Coming <=> \E s \in Subscriber : r \in arriving[s]
  BY DEF Dispatching!Coming
<1>2. \A r : r \in Dispatching!Collected <=>
        \E d \in BusDispatch : r \in dispatches[d].todo \cup Dispatching!Range(dispatches[d].called)
  BY DEF Dispatching!Collected
<1> QED
  BY <1>1, <1>2 DEF KnownOnes, Dispatching!Known

\* A dispatch that has not begun is sound whatever the tables hold.
LEMMA IdleSound ==
    /\ Dispatching!Nothing \in Dispatching!Progress
    /\ \A t : SoundDispatch(Dispatching!Nothing, t)
    /\ Dispatching!Nothing.todo = {} /\ Dispatching!Range(Dispatching!Nothing.called) = {}
<1>1. Dispatching!Range(<<>>) = {}
  BY DEF Dispatching!Range
<1>2. Dispatching!Nothing \in Dispatching!Progress
  <2>1. <<>> \in Seq(Dispatching!Registration)
    OBVIOUS
  <2> QED
    BY <2>1 DEF Dispatching!Nothing, Dispatching!Progress, Dispatching!Bus
<1> QED
  BY <1>1, <1>2 DEF Dispatching!Nothing, SoundDispatch

\* Without a listener every dispatch is sound.
LEMMA BusBegins ==
    ASSUME Dispatching!Init PROVE Dispatching!DispatchInv
<1> USE DEF Dispatching!Init
<1>1. Dispatching!BusTypes
  BY IdleSound DEF Dispatching!BusTypes
<1>2. Dispatching!Known = {}
  BY IdleSound, AllKnown DEF KnownOnes
<1>3. Dispatching!Numbered
  BY <1>2 DEF Dispatching!Numbered
<1>4. DispatchesSound
  BY IdleSound DEF DispatchesSound
<1> QED
  BY <1>1, <1>3, <1>4, DispatchParts

\* A number is given once: the counter is past all that are known.
LEMMA ListenerNumbered ==
    ASSUME Dispatching!BusTypes, Dispatching!Numbered, NEW s \in Subscriber, Dispatching!Number(s)
    PROVE  Dispatching!BusTypes' /\ Dispatching!Numbered'
<1>1. PICK b \in Dispatching!Bus, p \in Dispatching!Priority, skip \in BOOLEAN, close \in BOOLEAN :
        arriving' = [arriving EXCEPT ![s] =
             {[sequence |-> busSequence, bus |-> b, subscriber |-> s, priority |-> p,
               ignore_cancelled |-> skip, close |-> close]}]
  BY DEF Dispatching!Number
<1> DEFINE new == [sequence |-> busSequence, bus |-> b, subscriber |-> s, priority |-> p,
                   ignore_cancelled |-> skip, close |-> close]
<1>2. busSequence \in Nat /\ busSequence' = busSequence + 1 /\ UNCHANGED <<table, dispatches>>
  BY DEF Dispatching!Number, Dispatching!BusTypes
<1>3. new \in Dispatching!Registration /\ new.sequence = busSequence
  BY <1>2 DEF Dispatching!Registration
<1> HIDE DEF new
<1>4. arriving' = [arriving EXCEPT ![s] = {new}]
  BY <1>1 DEF new
<1>5. /\ arriving' \in [Subscriber -> SUBSET Dispatching!Registration]
      /\ \A q \in Subscriber : arriving'[q] \in SUBSET (arriving[q] \cup {new})
  BY <1>3, <1>4 DEF Dispatching!BusTypes
<1>6. \A r \in (Dispatching!Known)' : r \in Dispatching!Known \/ r = new
  <2>1. KnownOnes /\ KnownOnes'
    BY AllKnown, PTL
  <2> QED
    BY <1>2, <1>5, <2>1 DEF KnownOnes
<1>7. \A r \in Dispatching!Known : r.sequence < busSequence
  BY DEF Dispatching!Numbered
<1>8. Dispatching!Known \subseteq Dispatching!Registration
  <2>1. \A d \in BusDispatch : dispatches[d] \in Dispatching!Progress
    BY DEF Dispatching!BusTypes
  <2>2. \A d \in BusDispatch : dispatches[d].todo \in SUBSET Dispatching!Registration
                           /\ dispatches[d].called \in Seq(Dispatching!Registration)
    BY <2>1 DEF Dispatching!Progress
  <2>3. \A d \in BusDispatch : Dispatching!Range(dispatches[d].called) \in SUBSET Dispatching!Registration
    BY <2>2 DEF Dispatching!Range
  <2>4. table \in SUBSET Dispatching!Registration
        /\ \A q \in Subscriber : arriving[q] \in SUBSET Dispatching!Registration
    BY DEF Dispatching!BusTypes
  <2>5. KnownOnes
    BY AllKnown
  <2> QED
    BY <2>2, <2>3, <2>4, <2>5 DEF KnownOnes
<1>9. Dispatching!Numbered'
  <2>1. \A r \in Dispatching!Known : r.sequence \in Nat
    BY <1>8 DEF Dispatching!Registration
  <2>2. \A r \in (Dispatching!Known)' : r.sequence < busSequence'
    BY <1>2, <1>3, <1>6, <1>7, <2>1
  <2>3. \A r, q \in (Dispatching!Known)' : r.sequence = q.sequence => r = q
    <3> SUFFICES ASSUME NEW r \in (Dispatching!Known)', NEW q \in (Dispatching!Known)',
                        r.sequence = q.sequence
                 PROVE  r = q
      OBVIOUS
    <3>1. CASE r \in Dispatching!Known /\ q \in Dispatching!Known
      BY <3>1 DEF Dispatching!Numbered
    <3>2. r \in Dispatching!Known => q \in Dispatching!Known
      BY <1>2, <1>3, <1>6, <1>7, <2>1
    <3>3. q \in Dispatching!Known => r \in Dispatching!Known
      BY <1>2, <1>3, <1>6, <1>7, <2>1
    <3> QED
      BY <1>6, <3>1, <3>2, <3>3
  <2> QED
    BY <2>2, <2>3 DEF Dispatching!Numbered
<1> QED
  BY <1>2, <1>5, <1>9 DEF Dispatching!BusTypes

\* Nothing new is known, but through the counter.
LEMMA StillNumbered ==
    ASSUME Dispatching!Numbered, UNCHANGED busSequence,
           (Dispatching!Known)' \in SUBSET Dispatching!Known
    PROVE  Dispatching!Numbered'
BY DEF Dispatching!Numbered

\* Subscribing and leaving keep every dispatch under way sound.
LEMMA ListenersChange ==
    ASSUME Dispatching!DispatchInv,
           \/ \E s \in Subscriber : Dispatching!Number(s) \/ Dispatching!Subscribe(s)
                                    \/ (\E b \in Dispatching!Bus : Dispatching!UnsubscribeAll(s, b))
           \/ \E r \in table : Dispatching!Unsubscribe(r)
    PROVE  Dispatching!DispatchInv'
<1>0. Dispatching!BusTypes /\ Dispatching!Numbered /\ DispatchesSound
  BY DispatchParts
<1>1. ASSUME NEW s \in Subscriber, Dispatching!Number(s) PROVE Dispatching!DispatchInv'
  <2>1. Dispatching!BusTypes' /\ Dispatching!Numbered'
    BY <1>0, <1>1, ListenerNumbered
  <2>2. DispatchesSound'
    BY <1>0, <1>1 DEF DispatchesSound, Dispatching!Number
  <2> QED
    BY <2>1, <2>2, DispatchParts, PTL
<1>2. ASSUME NEW s \in Subscriber, Dispatching!Subscribe(s) PROVE Dispatching!DispatchInv'
  <2>1. /\ table' = table \cup arriving[s] /\ arriving' = [arriving EXCEPT ![s] = {}]
        /\ UNCHANGED <<busSequence, dispatches>>
    BY <1>2 DEF Dispatching!Subscribe
  <2>2. arriving[s] \in SUBSET Dispatching!Registration
        /\ \A q \in Subscriber : arriving'[q] \in SUBSET arriving[q]
    BY <1>0, <2>1 DEF Dispatching!BusTypes
  <2>3. Dispatching!BusTypes'
    BY <1>0, <2>1, <2>2 DEF Dispatching!BusTypes
  <2>4. (Dispatching!Known)' \in SUBSET Dispatching!Known
    <3>1. KnownOnes /\ KnownOnes'
      BY AllKnown, PTL
    <3> QED
      BY <2>1, <2>2, <3>1 DEF KnownOnes
  <2>5. DispatchesSound'
    <3>1. \A x : SoundDispatch(x, table) => SoundDispatch(x, table')
      BY <2>1 DEF SoundDispatch
    <3> QED
      BY <1>0, <2>1, <3>1 DEF DispatchesSound
  <2>6. Dispatching!Numbered'
    BY <1>0, <2>1, <2>4, StillNumbered
  <2> QED
    BY <2>3, <2>5, <2>6, DispatchParts, PTL
<1>3. ASSUME NEW gone, Dispatching!Removed(gone) PROVE Dispatching!DispatchInv'
  <2>1. /\ table' = table \ gone /\ UNCHANGED <<arriving, busSequence>>
        /\ dispatches' = [d \in BusDispatch |-> [dispatches[d] EXCEPT !.standing = @ \ gone]]
    BY <1>3 DEF Dispatching!Removed
  <2>2. ASSUME NEW d \in BusDispatch
        PROVE  /\ dispatches'[d] \in Dispatching!Progress
               /\ SoundDispatch(dispatches'[d], table')
               /\ dispatches'[d].todo = dispatches[d].todo /\ dispatches'[d].called = dispatches[d].called
    <3> DEFINE x == dispatches[d]
               y == [x EXCEPT !.standing = x.standing \ gone]
    <3>1. x \in Dispatching!Progress
      BY <1>0 DEF Dispatching!BusTypes
    <3>2. dispatches'[d] = y
      BY <2>1
    <3>3. SoundDispatch(x, table)
      BY <1>0 DEF DispatchesSound
    <3> HIDE DEF x
    <3>4. /\ y \in Dispatching!Progress /\ y.standing = x.standing \ gone
          /\ y.phase = x.phase /\ y.bus = x.bus /\ y.left = x.left /\ y.todo = x.todo
          /\ y.called = x.called /\ y.canceller = x.canceller /\ y.data = x.data
          /\ y.seen = x.seen /\ y.refused = x.refused
      BY <3>1 DEF Dispatching!Progress
    <3> HIDE DEF y
    <3>5. SoundDispatch(y, table')
      BY <2>1, <3>3, <3>4 DEF SoundDispatch
    <3> QED
      BY <3>2, <3>4, <3>5 DEF x
  <2>3. Dispatching!BusTypes'
    BY <1>0, <2>1, <2>2 DEF Dispatching!BusTypes
  <2>4. (Dispatching!Known)' \in SUBSET Dispatching!Known
    <3>1. KnownOnes /\ KnownOnes'
      BY AllKnown, PTL
    <3> QED
      BY <2>1, <2>2, <3>1 DEF KnownOnes
  <2>5. DispatchesSound'
    BY <2>2 DEF DispatchesSound
  <2>6. Dispatching!Numbered'
    BY <1>0, <2>1, <2>4, StillNumbered
  <2> QED
    BY <2>3, <2>5, <2>6, DispatchParts, PTL
<1> QED
  BY <1>1, <1>2, <1>3 DEF Dispatching!Unsubscribe, Dispatching!UnsubscribeAll

\* One dispatch goes on.
LEMMA DispatchMoves ==
    ASSUME Dispatching!DispatchInv, NEW d \in BusDispatch, NEW y \in Dispatching!Progress,
           dispatches' = [dispatches EXCEPT ![d] = y], UNCHANGED <<table, arriving, busSequence>>,
           SoundDispatch(y, table),
           y.todo \cup Dispatching!Range(y.called)
              \in SUBSET (table \cup dispatches[d].todo \cup Dispatching!Range(dispatches[d].called))
    PROVE  Dispatching!DispatchInv'
<1>0. Dispatching!BusTypes /\ Dispatching!Numbered /\ DispatchesSound
  BY DispatchParts
<1>1. /\ dispatches' \in [BusDispatch -> Dispatching!Progress] /\ dispatches'[d] = y
      /\ \A q \in BusDispatch \ {d} : dispatches'[q] = dispatches[q]
  BY <1>0 DEF Dispatching!BusTypes
<1>2. Dispatching!BusTypes'
  BY <1>0, <1>1 DEF Dispatching!BusTypes
<1>3. (Dispatching!Known)' \in SUBSET Dispatching!Known
  <2>1. KnownOnes /\ KnownOnes'
    BY AllKnown, PTL
  <2>2. \A q \in BusDispatch : dispatches'[q].todo \cup Dispatching!Range(dispatches'[q].called)
           \in SUBSET (table \cup dispatches[q].todo \cup Dispatching!Range(dispatches[q].called))
    BY <1>1
  <2> QED
    BY <2>1, <2>2 DEF KnownOnes
<1>4. Dispatching!Numbered'
  BY <1>0, <1>3, StillNumbered
<1>5. DispatchesSound'
  BY <1>0, <1>1 DEF DispatchesSound
<1> QED
  BY <1>2, <1>4, <1>5, DispatchParts, PTL

\* A dispatch begins, ends, and is forgotten.
LEMMA DispatchTurns ==
    ASSUME Dispatching!DispatchInv, NEW d \in BusDispatch,
           (\E b \in Dispatching!Bus : Dispatching!Begin(d, b)) \/ Dispatching!End(d) \/ Dispatching!Drop(d)
    PROVE  Dispatching!DispatchInv'
<1>0. Dispatching!BusTypes /\ Dispatching!Numbered /\ DispatchesSound
  BY DispatchParts
<1> DEFINE x == dispatches[d]
<1>1. x \in Dispatching!Progress /\ SoundDispatch(x, table) /\ table \in SUBSET Dispatching!Registration
  BY <1>0 DEF Dispatching!BusTypes, DispatchesSound
<1>2. ASSUME NEW b \in Dispatching!Bus, Dispatching!Begin(d, b) PROVE Dispatching!DispatchInv'
  <2> DEFINE s == Dispatching!Of({b, "root"})
             y == [x EXCEPT !.phase = "collects", !.bus = b, !.left = Dispatching!Chain(b), !.standing = s]
  <2>1. /\ x.phase = "idle" /\ dispatches' = [dispatches EXCEPT ![d] = y]
        /\ UNCHANGED <<table, arriving, busSequence>>
    BY <1>2 DEF Dispatching!Begin
  <2>2. /\ s \in SUBSET table /\ s \in SUBSET Dispatching!Registration
        /\ b = "root" => \A r \in s : r.bus = "root"
    BY <1>1 DEF Dispatching!Of
  <2>3. /\ Dispatching!Chain(b) \in {<<"root">>, <<"child", "root">>}
        /\ b = "child" => Dispatching!Chain(b) = <<"child", "root">>
        /\ b = "root" => Dispatching!Chain(b) = <<"root">>
        /\ b \in {"root", "child"} /\ <<"root">> # <<"child", "root">>
        /\ <<>> # <<"child", "root">> /\ <<>> # <<"root">>
    BY DEF Dispatching!Chain, Dispatching!Bus
  <2> DEFINE l == Dispatching!Chain(b)
  <2> HIDE DEF s, x, l
  <2>4. y \in Dispatching!Progress
    <3> DEFINE z == [x EXCEPT !.phase = "collects", !.bus = b]
    <3>1. z \in Dispatching!Progress
      BY <1>1 DEF Dispatching!Progress
    <3>2. y = [z EXCEPT !.left = l, !.standing = s]
      BY <1>1 DEF Dispatching!Progress, l
    <3> HIDE DEF z, y
    <3>3. l \in {<<>>, <<"root">>, <<"child", "root">>}
      BY <2>3 DEF l
    <3> QED
      BY <2>2, <3>1, <3>2, <3>3 DEF Dispatching!Progress
  <2>5. /\ y.phase = "collects" /\ y.bus = b /\ y.left = l /\ y.standing = s
        /\ y.todo = x.todo /\ y.called = x.called /\ y.canceller = x.canceller /\ y.data = x.data
        /\ y.seen = x.seen /\ y.refused = x.refused
    BY <1>1 DEF Dispatching!Progress, l
  <2> HIDE DEF y
  <2>6. x.todo = {} /\ x.called = <<>> /\ x.canceller = NoBody /\ x.refused = {} /\ x.seen = {}
        /\ Dispatching!Range(x.called) = {} /\ DOMAIN x.called = {} /\ Len(x.called) = 0
    <3>1. x.todo = {} /\ x.called = <<>> /\ x.canceller = NoBody /\ x.refused = {} /\ x.seen = {}
      BY <1>1, <2>1 DEF SoundDispatch, x
    <3> QED
      BY <3>1 DEF Dispatching!Range
  <2>7. SoundDispatch(y, table)
    BY <2>2, <2>3, <2>5, <2>6 DEF SoundDispatch, l
  <2>8. y.todo \cup Dispatching!Range(y.called)
              \in SUBSET (table \cup dispatches[d].todo \cup Dispatching!Range(dispatches[d].called))
    BY <2>5, <2>6
  <2> QED
    BY <2>1, <2>4, <2>7, <2>8, DispatchMoves
<1>3. CASE Dispatching!End(d)
  <2> DEFINE y == [x EXCEPT !.phase = "done"]
  <2>1. /\ x.phase = "calls" /\ x.todo = {} /\ dispatches' = [dispatches EXCEPT ![d] = y]
        /\ UNCHANGED <<table, arriving, busSequence>>
    BY <1>3 DEF Dispatching!End
  <2> HIDE DEF x
  <2>2. /\ y \in Dispatching!Progress /\ y.phase = "done" /\ y.bus = x.bus /\ y.left = x.left
        /\ y.standing = x.standing
        /\ y.todo = x.todo /\ y.called = x.called /\ y.canceller = x.canceller /\ y.data = x.data
        /\ y.seen = x.seen /\ y.refused = x.refused
    BY <1>1 DEF Dispatching!Progress
  <2> HIDE DEF y
  <2>3. SoundDispatch(y, table)
    BY <1>1, <2>1, <2>2 DEF SoundDispatch
  <2>4. y.todo \cup Dispatching!Range(y.called)
              \in SUBSET (table \cup dispatches[d].todo \cup Dispatching!Range(dispatches[d].called))
    BY <2>2 DEF x
  <2> QED
    BY <2>1, <2>2, <2>3, <2>4, DispatchMoves
<1>4. CASE Dispatching!Drop(d)
  <2>1. /\ dispatches' = [dispatches EXCEPT ![d] = Dispatching!Nothing]
        /\ UNCHANGED <<table, arriving, busSequence>>
    BY <1>4 DEF Dispatching!Drop
  <2>2. Dispatching!Nothing.todo \cup Dispatching!Range(Dispatching!Nothing.called)
              \in SUBSET (table \cup dispatches[d].todo \cup Dispatching!Range(dispatches[d].called))
    BY IdleSound
  <2> QED
    BY <2>1, <2>2, IdleSound, DispatchMoves
<1> QED
  BY <1>2, <1>3, <1>4

\* The look at a table adds the listeners that stand in it.
LEMMA TableCollected ==
    ASSUME Dispatching!DispatchInv, NEW d \in BusDispatch, Dispatching!Collect(d)
    PROVE  Dispatching!DispatchInv'
<1>0. Dispatching!BusTypes /\ Dispatching!Numbered /\ DispatchesSound
  BY DispatchParts
<1> DEFINE x == dispatches[d]
           of == Dispatching!Of({Head(x.left)})
           to == IF Len(x.left) = 1 THEN "calls" ELSE "collects"
           rest == Tail(x.left)
           all == x.todo \cup of
           y == [x EXCEPT !.left = rest, !.todo = all, !.phase = to]
<1>1. x \in Dispatching!Progress /\ SoundDispatch(x, table) /\ table \in SUBSET Dispatching!Registration
  BY <1>0 DEF Dispatching!BusTypes, DispatchesSound
<1>2. /\ x.phase = "collects" /\ dispatches' = [dispatches EXCEPT ![d] = y]
      /\ UNCHANGED <<table, arriving, busSequence>>
  <2>1. /\ dispatches[d].phase = "collects" /\ UNCHANGED <<table, arriving, busSequence>>
        /\ dispatches' = [dispatches EXCEPT ![d] =
              [dispatches[d] EXCEPT !.left = Tail(dispatches[d].left),
                 !.todo = dispatches[d].todo \cup Dispatching!Of({Head(dispatches[d].left)}),
                 !.phase = IF Len(dispatches[d].left) = 1 THEN "calls" ELSE "collects"]]
    BY DEF Dispatching!Collect
  <2> QED
    BY <2>1
<1>3. x.left \in {<<"root">>, <<"child", "root">>}
  <2>1. x.left # <<>> /\ x.left \in {<<>>, <<"root">>, <<"child", "root">>}
    BY <1>1, <1>2 DEF SoundDispatch, Dispatching!Progress
  <2> QED
    BY <2>1
<1>4. /\ of \in SUBSET table /\ of \in SUBSET Dispatching!Registration
      /\ \A r \in table : r \in of <=> r.bus = Head(x.left)
  BY <1>1 DEF Dispatching!Of
<1>5. \/ x.left = <<"root">> /\ Head(x.left) = "root" /\ rest = <<>> /\ to = "calls"
      \/ x.left = <<"child", "root">> /\ Head(x.left) = "child" /\ rest = <<"root">> /\ to = "collects"
  <2>1. CASE x.left = <<"root">>
    <3>1. Tail(<<"root">>) = <<>> /\ Head(<<"root">>) = "root" /\ Len(<<"root">>) = 1
      OBVIOUS
    <3> QED
      BY <2>1, <3>1, Zenon
  <2>2. CASE x.left = <<"child", "root">>
    <3>1. Tail(<<"child", "root">>) = <<"root">> /\ Head(<<"child", "root">>) = "child"
          /\ Len(<<"child", "root">>) = 2 /\ 2 # 1
      OBVIOUS
    <3> QED
      BY <2>2, <3>1, Zenon
  <2> QED
    BY <1>3, <2>1, <2>2
<1>6. all \in SUBSET Dispatching!Registration /\ rest \in {<<>>, <<"root">>, <<"child", "root">>}
      /\ to \in {"idle", "collects", "calls", "done"} /\ x.standing \in SUBSET table
      /\ all = x.todo \cup of /\ x.bus \in {"root", "child"}
  <2>1. x.todo \in SUBSET Dispatching!Registration /\ x.bus \in {"root", "child"}
    BY <1>1 DEF Dispatching!Progress, Dispatching!Bus
  <2>2. x.standing \in SUBSET table
    BY <1>1 DEF SoundDispatch
  <2> HIDE DEF of
  <2> QED
    BY <1>4, <1>5, <2>1, <2>2
<1> HIDE DEF x, of, to, rest, all
<1>7. y \in Dispatching!Progress
  <2> DEFINE z == [x EXCEPT !.left = rest]
  <2>1. z \in Dispatching!Progress
    BY <1>1, <1>6 DEF Dispatching!Progress
  <2>2. y = [z EXCEPT !.todo = all, !.phase = to]
    BY <1>1 DEF Dispatching!Progress
  <2> HIDE DEF z, y
  <2> QED
    BY <1>6, <2>1, <2>2 DEF Dispatching!Progress
<1>8. /\ y.phase = to /\ y.bus = x.bus /\ y.left = rest /\ y.standing = x.standing
      /\ y.todo = all /\ y.called = x.called /\ y.canceller = x.canceller /\ y.data = x.data
      /\ y.seen = x.seen /\ y.refused = x.refused
  BY <1>1 DEF Dispatching!Progress
<1> HIDE DEF y
<1>9. x.called = <<>> /\ x.canceller = NoBody /\ x.refused = {} /\ x.seen = {}
      /\ Dispatching!Range(x.called) = {} /\ DOMAIN x.called = {} /\ Len(x.called) = 0
  <2>1. x.called = <<>> /\ x.canceller = NoBody /\ x.refused = {} /\ x.seen = {}
    BY <1>1, <1>2 DEF SoundDispatch, x
  <2> QED
    BY <2>1 DEF Dispatching!Range
<1>10. \A r \in table : r.bus \in {"root", "child"}
  BY <1>1 DEF Dispatching!Registration, Dispatching!Bus
<1>11. \A r \in x.standing : \/ r \in all
                             \/ x.left = <<"child", "root">> /\ r.bus = "root"
  <2> SUFFICES ASSUME NEW r \in x.standing, r \notin all
               PROVE  x.left = <<"child", "root">> /\ r.bus = "root"
    OBVIOUS
  <2>1. r \in table /\ r \notin of /\ r \notin x.todo
    BY <1>6
  <2>2. r.bus # Head(x.left) /\ r.bus \in {"root", "child"}
    BY <1>4, <1>10, <2>1
  <2>3. r.bus = "root" \/ x.left = <<"child", "root">>
    BY <1>1, <1>2, <2>1 DEF SoundDispatch, x
  <2> QED
    BY <1>5, <2>2, <2>3
<1>12. x.bus = "root" => x.left = <<"root">> /\ \A r \in all : r.bus = "root"
  <2> SUFFICES ASSUME x.bus = "root" PROVE x.left = <<"root">> /\ \A r \in all : r.bus = "root"
    OBVIOUS
  <2>1. x.left = <<"root">> /\ \A r \in x.todo : r.bus = "root"
    BY <1>1, <1>3 DEF SoundDispatch
  <2>2. Head(x.left) = "root"
    BY <2>1
  <2> QED
    BY <1>4, <1>6, <2>1, <2>2
<1>13. SoundDispatch(y, table)
  <2>1. <<"root">> # <<"child", "root">> /\ <<>> # <<"child", "root">> /\ <<>> # <<"root">>
    OBVIOUS
  <2>2. CASE to = "calls" /\ rest = <<>> /\ x.left = <<"root">>
    BY <1>6, <1>8, <1>9, <1>11, <1>12, <2>1, <2>2 DEF SoundDispatch
  <2>3. CASE to = "collects" /\ rest = <<"root">> /\ x.left = <<"child", "root">>
    BY <1>6, <1>8, <1>9, <1>11, <1>12, <2>1, <2>3 DEF SoundDispatch
  <2> QED
    BY <1>5, <2>2, <2>3
<1>14. y.todo \cup Dispatching!Range(y.called)
              \in SUBSET (table \cup dispatches[d].todo \cup Dispatching!Range(dispatches[d].called))
  BY <1>4, <1>6, <1>8, <1>9 DEF x
<1> QED
  BY <1>2, <1>7, <1>13, <1>14, DispatchMoves

\* The next listener, passed over or awaited.
LEMMA Appended ==
    ASSUME NEW S, NEW s \in Seq(S), NEW e \in S
    PROVE  /\ Append(s, e) \in Seq(S) /\ Len(s) \in Nat /\ Len(Append(s, e)) = Len(s) + 1
           /\ \A i \in 1..Len(s) : Append(s, e)[i] = s[i]
           /\ Append(s, e)[Len(s) + 1] = e
           /\ Dispatching!Range(Append(s, e)) = Dispatching!Range(s) \cup {e}
           /\ Dispatching!Range(s) = {s[i] : i \in 1..Len(s)}
<1>1. /\ Append(s, e) \in Seq(S) /\ Len(s) \in Nat /\ Len(Append(s, e)) = Len(s) + 1
      /\ \A i \in 1..Len(s) : Append(s, e)[i] = s[i]
      /\ Append(s, e)[Len(s) + 1] = e /\ DOMAIN s = 1..Len(s)
      /\ DOMAIN Append(s, e) = 1..(Len(s) + 1)
  OBVIOUS
<1>2. \A i \in 1..(Len(s) + 1) : i \in 1..Len(s) \/ i = Len(s) + 1
  BY <1>1
<1>3. 1..Len(s) \in SUBSET (1..(Len(s) + 1)) /\ Len(s) + 1 \in 1..(Len(s) + 1)
  BY <1>1
<1> DEFINE t == Append(s, e)
<1> HIDE DEF t
<1>4. Dispatching!Range(t) = Dispatching!Range(s) \cup {e}
  BY <1>1, <1>2, <1>3 DEF Dispatching!Range, t
<1> QED
  BY <1>1, <1>4 DEF Dispatching!Range, t

\* The listeners that stand were called, are to be, or want no cancelled event.
LEMMA StandingOf ==
    ASSUME NEW x, NEW t, SoundDispatch(x, t), x.phase = "calls"
    PROVE  \A q \in x.standing :
              \/ q \in x.todo
              \/ q \in Dispatching!Range(x.called)
              \/ q.ignore_cancelled /\ x.canceller # NoBody
<1> USE DEF SoundDispatch
<1>1. x.phase \in {"calls", "done"} => \A q \in x.standing :
         \/ q \in x.todo
         \/ q \in Dispatching!Range(x.called)
         \/ q.ignore_cancelled /\ x.canceller # NoBody
  BY Zenon
<1> QED
  BY <1>1

\* A dispatch after the listener r, passed over or awaited.
Passed(x, r) == [x EXCEPT !.todo = x.todo \ {r}]
Awaited(x, r, cancels, fails, data) ==
    [x EXCEPT !.todo = x.todo \ {r}, !.called = Append(x.called, r),
              !.canceller = Dispatching!Decided(x.canceller, r, cancels, fails), !.data = data,
              !.seen = IF Dispatching!ReadOnly(r) THEN x.seen \cup {<<x.canceller, x.data>>} ELSE x.seen,
              !.refused = IF (cancels \/ (fails /\ r.close)) /\ ~Dispatching!ReadOnly(r)
                          THEN x.refused \cup {r} ELSE x.refused]

\* Passed over: it wants no event that is cancelled already.
LEMMA ListenerSkipped ==
    ASSUME NEW x \in Dispatching!Progress, NEW t, SoundDispatch(x, t), x.phase = "calls",
           NEW r \in x.todo, Dispatching!Skips(r, x.canceller)
    PROVE  /\ Passed(x, r) \in Dispatching!Progress /\ SoundDispatch(Passed(x, r), t)
           /\ Passed(x, r).todo \in SUBSET x.todo /\ Passed(x, r).called = x.called
<1> DEFINE y == Passed(x, r)
<1>1. y \in Dispatching!Progress
  BY DEF Dispatching!Progress, Passed
<1>2. /\ y.phase = x.phase /\ y.bus = x.bus /\ y.left = x.left /\ y.standing = x.standing
      /\ y.todo = x.todo \ {r} /\ y.called = x.called /\ y.canceller = x.canceller /\ y.data = x.data
      /\ y.seen = x.seen /\ y.refused = x.refused
  BY DEF Dispatching!Progress, Passed
<1> HIDE DEF y
<1>3. r.ignore_cancelled /\ x.canceller # NoBody
  BY DEF Dispatching!Skips
<1>4. SoundDispatch(y, t)
  BY <1>2, <1>3 DEF SoundDispatch
<1> QED
  BY <1>1, <1>2, <1>4 DEF y

\* Awaited: it rewrites, cancels, fails, or does several of it.
LEMMA ListenerAwaited ==
    ASSUME NEW x \in Dispatching!Progress, NEW t, SoundDispatch(x, t), x.phase = "calls",
           NEW r \in x.todo, \A other \in x.todo \ {r} : Dispatching!Before(r, other),
           NEW cancels \in BOOLEAN, NEW fails \in BOOLEAN, NEW data \in Nat,
           Dispatching!ReadOnly(r) => data = x.data
    PROVE  LET y == Awaited(x, r, cancels, fails, data)
           IN  /\ y \in Dispatching!Progress /\ SoundDispatch(y, t)
               /\ y.todo \in SUBSET x.todo
               /\ Dispatching!Range(y.called) \in SUBSET (Dispatching!Range(x.called) \cup {r})
<1> DEFINE by == Dispatching!Decided(x.canceller, r, cancels, fails)
           seen == IF Dispatching!ReadOnly(r) THEN x.seen \cup {<<x.canceller, x.data>>} ELSE x.seen
           refused == IF (cancels \/ (fails /\ r.close)) /\ ~Dispatching!ReadOnly(r)
                      THEN x.refused \cup {r} ELSE x.refused
           y == Awaited(x, r, cancels, fails, data)
<1>1. /\ x.todo \in SUBSET Dispatching!Registration /\ x.called \in Seq(Dispatching!Registration)
      /\ x.canceller \in Subscriber \cup {NoBody} /\ x.data \in Nat
      /\ x.seen \in SUBSET ((Subscriber \cup {NoBody}) \X Nat)
      /\ x.refused \in SUBSET Dispatching!Registration
  BY DEF Dispatching!Progress
<1>2. /\ r \in Dispatching!Registration /\ r.subscriber \in Subscriber /\ r.subscriber # NoBody
      /\ \A q \in Dispatching!Registration : q.subscriber # NoBody
  BY <1>1, BusConstants DEF Dispatching!Registration
<1>3. by \in Subscriber \cup {NoBody} /\ (x.canceller # NoBody => by = x.canceller)
      /\ \/ (refused = x.refused /\ by = x.canceller)
         \/ (refused = (x.refused \cup {r}) /\ by = Dispatching!Cancelled(x.canceller, r.subscriber))
      /\ (Dispatching!ReadOnly(r) => by = x.canceller)
  <2> DEFINE says == (cancels \/ (fails /\ r.close)) /\ ~Dispatching!ReadOnly(r)
  <2>1. CASE says
    <3>1. by = Dispatching!Cancelled(x.canceller, r.subscriber) /\ refused = (x.refused \cup {r})
      BY <2>1 DEF Dispatching!Decided
    <3>2. ~Dispatching!ReadOnly(r)
      BY <2>1
    <3> HIDE DEF says
    <3> QED
      BY <1>1, <1>2, <3>1, <3>2 DEF Dispatching!Cancelled
  <2>2. CASE ~says
    <3>1. by = x.canceller /\ refused = x.refused
      BY <2>2 DEF Dispatching!Decided
    <3> HIDE DEF says
    <3> QED
      BY <1>1, <3>1, Zenon
  <2> QED
    BY <2>1, <2>2
<1>4. seen \in SUBSET ((Subscriber \cup {NoBody}) \X Nat) /\ refused \in SUBSET Dispatching!Registration
  BY <1>1, <1>2
<1> DEFINE c == Append(x.called, r)
           n == Len(x.called)
<1>5. /\ c \in Seq(Dispatching!Registration) /\ n \in Nat /\ Len(c) = n + 1
      /\ \A i \in 1..n : c[i] = x.called[i]
      /\ c[n + 1] = r
      /\ Dispatching!Range(c) = Dispatching!Range(x.called) \cup {r}
      /\ Dispatching!Range(x.called) = {x.called[i] : i \in 1..n}
      /\ DOMAIN c = 1..(n + 1) /\ DOMAIN x.called = 1..n
  <2>1. DOMAIN x.called = 1..n
    BY <1>1
  <2>2. c \in Seq(Dispatching!Registration) => DOMAIN c = 1..Len(c)
    OBVIOUS
  <2> QED
    BY <1>1, <1>2, <2>1, <2>2, Appended
<1>s. Dispatching!ReadOnly(r) => seen = x.seen \cup {<<x.canceller, x.data>>}
  OBVIOUS
<1>n. ~Dispatching!ReadOnly(r) => seen = x.seen
  OBVIOUS
<1>y. y = [x EXCEPT !.todo = x.todo \ {r}, !.called = c,
                    !.canceller = by, !.data = data, !.seen = seen, !.refused = refused]
  BY Zenon DEF Awaited
<1> HIDE DEF c, n, by, seen, refused, y
<1>6. y \in Dispatching!Progress
  <2> DEFINE u == [x EXCEPT !.todo = x.todo \ {r}, !.called = c]
             v == [u EXCEPT !.canceller = by, !.data = data]
  <2>1. u \in Dispatching!Progress
    BY <1>1, <1>5 DEF Dispatching!Progress
  <2>2. v \in Dispatching!Progress
    <3> HIDE DEF u
    <3> QED
      BY <1>3, <2>1 DEF Dispatching!Progress
  <2>3. y = [v EXCEPT !.seen = seen, !.refused = refused]
    BY <1>y DEF Dispatching!Progress
  <2> HIDE DEF v
  <2> QED
    BY <1>4, <2>2, <2>3 DEF Dispatching!Progress
<1>7. /\ y.phase = x.phase /\ y.bus = x.bus /\ y.left = x.left /\ y.standing = x.standing
      /\ y.todo = x.todo \ {r} /\ y.called = c /\ y.canceller = by /\ y.data = data
      /\ y.seen = seen /\ y.refused = refused
  BY <1>y DEF Dispatching!Progress
<1> HIDE DEF SoundDispatch
<1>8. \A q \in y.todo : Dispatching!InOrder(r, q)
  BY <1>7 DEF Dispatching!Before, Dispatching!InOrder
<1>9. \A i \in 1..n : Dispatching!InOrder(x.called[i], r) /\ \A q \in x.todo : Dispatching!InOrder(x.called[i], q)
  BY <1>5 DEF SoundDispatch
<1>10. \A i \in DOMAIN y.called : \A q \in y.todo : Dispatching!InOrder(y.called[i], q)
  <2> SUFFICES ASSUME NEW i \in 1..(n + 1), NEW q \in y.todo PROVE Dispatching!InOrder(c[i], q)
    BY <1>5, <1>7
  <2>1. CASE i \in 1..n
    BY <1>5, <1>7, <1>9, <2>1
  <2>2. CASE i = n + 1
    BY <1>5, <1>8, <2>2
  <2> QED
    BY <1>5, <2>1, <2>2
<1>11. \A i, j \in 1..Len(y.called) : i < j => Dispatching!InOrder(y.called[i], y.called[j])
  <2> SUFFICES ASSUME NEW i \in 1..(n + 1), NEW j \in 1..(n + 1), i < j
               PROVE  Dispatching!InOrder(c[i], c[j])
    BY <1>5, <1>7
  <2>1. i \in 1..n
    BY <1>5
  <2>2. CASE j \in 1..n
    <3>1. Dispatching!InOrder(x.called[i], x.called[j])
      BY <2>1, <2>2 DEF SoundDispatch, n
    <3> QED
      BY <1>5, <2>1, <2>2, <3>1
  <2>3. CASE j = n + 1
    BY <1>5, <1>9, <2>1, <2>3
  <2> QED
    BY <1>5, <2>2, <2>3
<1>12. \A q \in y.standing :
          \/ q \in y.todo \/ q \in Dispatching!Range(y.called)
          \/ q.ignore_cancelled /\ y.canceller # NoBody
  <2>1. \A q \in x.standing :
           \/ q \in x.todo
           \/ q \in Dispatching!Range(x.called)
           \/ q.ignore_cancelled /\ x.canceller # NoBody
    BY StandingOf
  <2>2. x.canceller # NoBody => y.canceller # NoBody
    BY <1>3, <1>7
  <2>3. \A q \in x.todo : q \in y.todo \/ q \in Dispatching!Range(y.called)
    BY <1>5, <1>7
  <2>4. Dispatching!Range(x.called) \subseteq Dispatching!Range(y.called) /\ y.standing = x.standing
    BY <1>5, <1>7
  <2> QED
    BY <2>1, <2>2, <2>3, <2>4, Zenon
<1>13. y.refused \subseteq Dispatching!Range(y.called)
  BY <1>3, <1>5, <1>7 DEF SoundDispatch
<1>14. /\ y.seen \subseteq {<<y.canceller, y.data>>}
       /\ y.seen # {} => \A q \in y.todo : Dispatching!ReadOnly(q)
  <2>1. CASE Dispatching!ReadOnly(r)
    <3>1. \A q \in y.todo : Dispatching!ReadOnly(q)
      <4> SUFFICES ASSUME NEW q \in y.todo PROVE Dispatching!ReadOnly(q)
        OBVIOUS
      <4>1. Dispatching!InOrder(r, q) /\ q \in Dispatching!Registration
        BY <1>1, <1>7, <1>8
      <4>2. q.priority \in {"early", "late", "monitor"} /\ r.priority = "monitor"
        BY <2>1, <4>1 DEF Dispatching!Registration, Dispatching!Priority, Dispatching!ReadOnly
      <4> QED
        BY <4>1, <4>2 DEF Dispatching!InOrder, Dispatching!Rank, Dispatching!ReadOnly
    <3>2. y.seen = x.seen \cup {<<x.canceller, x.data>>} /\ y.canceller = x.canceller /\ y.data = x.data
      BY <1>3, <1>7, <1>s, <2>1
    <3> QED
      BY <3>1, <3>2 DEF SoundDispatch
  <2>2. CASE ~Dispatching!ReadOnly(r)
    <3>1. y.seen = x.seen /\ x.seen = {}
      BY <1>7, <1>n, <2>2 DEF SoundDispatch
    <3> QED
      BY <3>1
  <2> QED
    BY <2>1, <2>2
<1>15. IF y.refused = {} THEN y.canceller = NoBody
       ELSE \E q \in y.refused : /\ y.canceller = q.subscriber
                                 /\ \A other \in y.refused \ {q} : Dispatching!InOrder(q, other)
  <2>1. CASE refused = x.refused /\ by = x.canceller
    BY <1>7, <2>1 DEF SoundDispatch
  <2>2. CASE refused = (x.refused \cup {r}) /\ by = Dispatching!Cancelled(x.canceller, r.subscriber)
    <3>1. CASE x.refused = {}
      <4>1. x.canceller = NoBody
        BY <3>1 DEF SoundDispatch
      <4>2. by = r.subscriber /\ refused = {r}
        BY <2>2, <3>1, <4>1 DEF Dispatching!Cancelled
      <4> QED
        BY <1>7, <4>2
    <3>2. CASE x.refused # {}
      <4>1. PICK q \in x.refused : /\ x.canceller = q.subscriber
                                   /\ \A other \in x.refused \ {q} : Dispatching!InOrder(q, other)
        BY <3>2 DEF SoundDispatch
      <4>2. by = q.subscriber
        BY <1>1, <1>2, <1>3, <4>1
      <4>3. Dispatching!InOrder(q, r)
        <5>1. q \in Dispatching!Range(x.called)
          BY <4>1 DEF SoundDispatch
        <5> QED
          BY <1>5, <1>9, <5>1
      <4> QED
        BY <1>7, <2>2, <4>1, <4>2, <4>3
    <3> QED
      BY <3>1, <3>2
  <2> QED
    BY <1>3, <2>1, <2>2
<1>16. /\ y.phase = "calls" /\ y.left = <<>> /\ y.standing \subseteq t
       /\ y.bus = "root" => y.left # <<"child", "root">>
       /\ y.bus = "root" => \A q \in y.todo \cup Dispatching!Range(y.called) : q.bus = "root"
  <2>1. x.left = <<>> /\ x.standing \subseteq t
    BY DEF SoundDispatch
  <2>2. x.bus = "root" => \A q \in x.todo \cup Dispatching!Range(x.called) : q.bus = "root"
    BY DEF SoundDispatch
  <2>3. y.todo \cup Dispatching!Range(y.called) \in SUBSET (x.todo \cup Dispatching!Range(x.called))
    BY <1>5, <1>7
  <2>4. <<>> # <<"child", "root">>
    OBVIOUS
  <2> QED
    BY <1>7, <2>1, <2>2, <2>3, <2>4
<1>17. SoundDispatch(y, t)
  BY <1>10, <1>11, <1>12, <1>13, <1>14, <1>15, <1>16 DEF SoundDispatch
<1>18. y.todo \in SUBSET x.todo /\ Dispatching!Range(y.called) \in SUBSET (Dispatching!Range(x.called) \cup {r})
  BY <1>5, <1>7, SMTT(30)
<1> QED
  BY <1>6, <1>17, <1>18, Zenon DEF y

\* The next listener that is passed over or awaited keeps the dispatch sound.
LEMMA ListenerCalled ==
    ASSUME Dispatching!DispatchInv, NEW d \in BusDispatch, Dispatching!Call(d)
    PROVE  Dispatching!DispatchInv'
<1>0. Dispatching!BusTypes /\ Dispatching!Numbered /\ DispatchesSound
  BY DispatchParts
<1> DEFINE x == dispatches[d]
<1>1. x \in Dispatching!Progress /\ SoundDispatch(x, table)
  BY <1>0 DEF Dispatching!BusTypes, DispatchesSound
<1>2. PICK r \in x.todo :
         /\ x.phase = "calls" /\ UNCHANGED <<table, arriving, busSequence>>
         /\ \A other \in x.todo \ {r} : Dispatching!Before(r, other)
         /\ \/ /\ Dispatching!Skips(r, x.canceller)
               /\ dispatches' = [dispatches EXCEPT ![d] = [x EXCEPT !.todo = x.todo \ {r}]]
            \/ \E rewrites, cancels, fails \in BOOLEAN :
                  LET by == Dispatching!Decided(x.canceller, r, cancels, fails)
                      data == IF rewrites /\ ~Dispatching!ReadOnly(r) THEN x.data + 1 ELSE x.data
                  IN  dispatches' = [dispatches EXCEPT ![d] =
                        [x EXCEPT !.todo = x.todo \ {r}, !.called = Append(x.called, r),
                                  !.canceller = by, !.data = data,
                                  !.seen = IF Dispatching!ReadOnly(r) THEN @ \cup {<<x.canceller, x.data>>} ELSE @,
                                  !.refused = IF (cancels \/ (fails /\ r.close)) /\ ~Dispatching!ReadOnly(r)
                                              THEN @ \cup {r} ELSE @]]
  BY DEF Dispatching!Call
<1>3. CASE /\ Dispatching!Skips(r, x.canceller)
           /\ dispatches' = [dispatches EXCEPT ![d] = [x EXCEPT !.todo = x.todo \ {r}]]
  <2> DEFINE y == Passed(x, r)
  <2>1. y \in Dispatching!Progress /\ SoundDispatch(y, table) /\ y.todo \in SUBSET x.todo /\ y.called = x.called
    <3>1. r \in x.todo /\ x.phase = "calls" /\ Dispatching!Skips(r, x.canceller)
      BY <1>2, <1>3
    <3> HIDE DEF x
    <3> QED
      BY <1>1, <3>1, ListenerSkipped
  <2> HIDE DEF y
  <2>2. y.todo \cup Dispatching!Range(y.called)
              \in SUBSET (table \cup dispatches[d].todo \cup Dispatching!Range(dispatches[d].called))
    BY <2>1
  <2>3. dispatches' = [dispatches EXCEPT ![d] = y]
    BY <1>3 DEF y, Passed
  <2> QED
    BY <1>2, <2>1, <2>2, <2>3, DispatchMoves
<1>4. ASSUME NEW rewrites \in BOOLEAN, NEW cancels \in BOOLEAN, NEW fails \in BOOLEAN,
             dispatches' = [dispatches EXCEPT ![d] =
                        [x EXCEPT !.todo = x.todo \ {r}, !.called = Append(x.called, r),
                                  !.canceller = Dispatching!Decided(x.canceller, r, cancels, fails),
                                  !.data = IF rewrites /\ ~Dispatching!ReadOnly(r) THEN x.data + 1 ELSE x.data,
                                  !.seen = IF Dispatching!ReadOnly(r) THEN @ \cup {<<x.canceller, x.data>>} ELSE @,
                                  !.refused = IF (cancels \/ (fails /\ r.close)) /\ ~Dispatching!ReadOnly(r)
                                              THEN @ \cup {r} ELSE @]]
      PROVE  Dispatching!DispatchInv'
  <2> DEFINE data == IF rewrites /\ ~Dispatching!ReadOnly(r) THEN x.data + 1 ELSE x.data
             y == Awaited(x, r, cancels, fails, data)
  <2>1. dispatches' = [dispatches EXCEPT ![d] = y]
    BY <1>4 DEF Awaited
  <2>2. data \in Nat /\ (Dispatching!ReadOnly(r) => data = x.data)
    BY <1>1, <1>4 DEF Dispatching!Progress
  <2>3. y \in Dispatching!Progress /\ SoundDispatch(y, table)
        /\ y.todo \in SUBSET x.todo
        /\ Dispatching!Range(y.called) \in SUBSET (Dispatching!Range(x.called) \cup {r})
    <3>1. /\ r \in x.todo /\ x.phase = "calls"
          /\ \A other \in x.todo \ {r} : Dispatching!Before(r, other)
          /\ cancels \in BOOLEAN /\ fails \in BOOLEAN
      BY <1>2
    <3> HIDE DEF x, data
    <3> QED
      BY <1>1, <2>2, <3>1, ListenerAwaited, ZenonT(30)
  <2> HIDE DEF y
  <2>4. y.todo \cup Dispatching!Range(y.called)
              \in SUBSET (table \cup dispatches[d].todo \cup Dispatching!Range(dispatches[d].called))
    BY <1>2, <2>3
  <2> QED
    BY <1>2, <2>1, <2>3, <2>4, DispatchMoves
<1> QED
  BY <1>2, <1>3, <1>4, ZenonT(40)

\* Every step of the event bus keeps DispatchInv.
LEMMA DispatchStep ==
    ASSUME Dispatching!DispatchInv, Dispatching!Next \/ UNCHANGED busVars
    PROVE  Dispatching!DispatchInv'
<1>1. CASE UNCHANGED busVars
  <2>1. UNCHANGED <<table, arriving, busSequence, dispatches>>
    BY <1>1 DEF busVars
  <2>2. Dispatching!BusTypes /\ Dispatching!Numbered /\ DispatchesSound
    BY DispatchParts
  <2>3. Dispatching!BusTypes' /\ DispatchesSound'
    BY <2>1, <2>2 DEF Dispatching!BusTypes, DispatchesSound
  <2>4. (Dispatching!Known)' = Dispatching!Known
    BY <2>1 DEF Dispatching!Known, Dispatching!Coming, Dispatching!Collected
  <2>5. Dispatching!Numbered'
    BY <2>1, <2>2, <2>4, StillNumbered
  <2> QED
    BY <2>3, <2>5, DispatchParts, PTL
<1> QED
  BY <1>1, ListenersChange, DispatchTurns, TableCollected, ListenerCalled DEF Dispatching!Next

------------------------------------------------------------------------------
(* The budget of a plugin's requests.                                      *)

\* The bytes of the requests of a set, one pair for each.
PairsOf(S, f) == {p \in S \X (1..MaxBytes) : p[2] <= f[p[1]]}

\* What the model counts, in those pairs.
InPairs ==
    /\ Budgets!Bytes(Budgets!Holders) = Cardinality(PairsOf(Budgets!Holders, size))
    /\ Budgets!Bytes(Budgets!In("granted")) = Cardinality(PairsOf(Budgets!In("granted"), size))
    /\ Budgets!Cardinality(Budgets!In("granted")) = Cardinality(Budgets!In("granted"))

\* The counters of the model count those pairs, and the granted calls.
LEMMA HeldAndGranted == InPairs
<1>1. \A S : Budgets!Cardinality(S) = Cardinality(S)
  BY DEF Budgets!Cardinality, Cardinality
<1>2. \A S : Budgets!Bytes(S) = Budgets!Cardinality(PairsOf(S, size))
  BY Zenon DEF Budgets!Bytes, PairsOf
<1> QED
  BY <1>1, <1>2 DEF InPairs

\* A request has a number of bytes.
LEMMA SizesAreBytes ==
    Budgets!TypeOK => \A r \in PluginRequest : size[r] \in Nat
<1>1. Size \cup {0} \subseteq Nat
  BY BudgetConstants
<1> QED
  BY <1>1 DEF Budgets!TypeOK

\* The pairs of a set of requests are finite, so that they can be counted.
LEMMA PairsAreFinite ==
    ASSUME NEW S \in SUBSET PluginRequest, NEW f
    PROVE  IsFiniteSet(S) /\ IsFiniteSet(PairsOf(S, f)) /\ Cardinality(PairsOf(S, f)) \in Nat
<1>1. IsFiniteSet(S)
  BY FS_Subset, BudgetConstants
<1>2. IsFiniteSet(1..MaxBytes)
  BY FS_Interval, BudgetConstants
<1>3. IsFiniteSet(S \X (1..MaxBytes))
  BY <1>1, <1>2, FS_Product
<1>4. IsFiniteSet(PairsOf(S, f))
  BY <1>3, FS_Subset DEF PairsOf
<1> QED
  BY <1>1, <1>4, FS_CardinalityType

\* One request more holds as many pairs more as it has bytes.
LEMMA OneMoreHolder ==
    ASSUME NEW S \in SUBSET PluginRequest, NEW r \in PluginRequest, r \notin S,
           NEW f, f[r] \in Nat, f[r] <= MaxBytes
    PROVE  Cardinality(PairsOf(S \cup {r}, f)) = Cardinality(PairsOf(S, f)) + f[r]
<1> DEFINE own == {r} \X (1..f[r])
<1>1. IsFiniteSet({r}) /\ Cardinality({r}) = 1
  BY FS_Singleton
<1>2. IsFiniteSet(1..f[r]) /\ Cardinality(1..f[r]) = f[r]
  <2>1. IsFiniteSet(1..f[r]) /\ Cardinality(1..f[r]) = IF 1 > f[r] THEN 0 ELSE f[r] - 1 + 1
    BY FS_Interval
  <2> QED
    BY <2>1
<1>3. IsFiniteSet(own) /\ Cardinality(own) = f[r]
  <2>1. IsFiniteSet(own) /\ Cardinality(own) = 1 * f[r]
    <3>1. IsFiniteSet(own) /\ Cardinality(own) = Cardinality({r}) * Cardinality(1..f[r])
      BY <1>1, <1>2, FS_Product
    <3> QED
      BY <1>1, <1>2, <3>1
  <2> QED
    BY <2>1
<1>4. PairsOf(S \cup {r}, f) = PairsOf(S, f) \cup own
  BY BudgetConstants DEF PairsOf
<1>5. PairsOf(S, f) \cap own = {}
  BY DEF PairsOf
<1> HIDE DEF own
<1>6. IsFiniteSet(PairsOf(S, f)) /\ Cardinality(PairsOf(S, f)) \in Nat
  BY PairsAreFinite
<1>7. Cardinality(PairsOf(S, f) \cup own) = Cardinality(PairsOf(S, f)) + Cardinality(own) - Cardinality({})
  BY <1>3, <1>5, <1>6, FS_Union
<1>8. Cardinality({}) = 0
  BY FS_EmptySet
<1>9. Cardinality(PairsOf(S \cup {r}, f)) = Cardinality(PairsOf(S, f)) + f[r] - 0
  BY <1>3, <1>4, <1>7, <1>8, Zenon
<1> QED
  BY <1>6, <1>9

\* The pairs depend on nothing but the sizes of the holders.
LEMMA SameHolders ==
    ASSUME NEW S, NEW f, NEW g, \A r \in S : f[r] = g[r]
    PROVE  PairsOf(S, f) = PairsOf(S, g)
BY DEF PairsOf

\* A budget nobody has used is sound.
LEMMA BudgetBegins == Budgets!Init => Budgets!BudgetInv
<1> SUFFICES ASSUME Budgets!Init PROVE Budgets!BudgetInv
  OBVIOUS
<1>1. Budgets!Holders = {} /\ Budgets!In("granted") = {} /\ Budgets!In("refusing") = {}
      /\ Budgets!In("refused") = {}
  BY DEF Budgets!Init, Budgets!Holders, Budgets!In
<1>2. PairsOf({}, size) = {}
  BY DEF PairsOf
<1>3. Cardinality({}) = 0
  BY FS_EmptySet
<1>4. Budgets!TypeOK
  BY DEF Budgets!Init, Budgets!TypeOK
<1>5. Budgets!Counted
  BY <1>1, <1>2, <1>3, HeldAndGranted, BudgetConstants DEF InPairs, Budgets!Init, Budgets!Counted
<1>6. Budgets!Refusals
  BY <1>1 DEF Budgets!Refusals
<1> QED
  BY <1>4, <1>5, <1>6 DEF Budgets!BudgetInv

\* One step of the request r, from a stage to another; the others stay.
LEMMA StagesOf ==
    ASSUME Budgets!TypeOK, NEW r \in PluginRequest, NEW from, NEW to, from # to, Budgets!At(r, from, to)
    PROVE  /\ r \in Budgets!In(from) /\ \A s : s # from => r \notin Budgets!In(s)
           /\ (Budgets!In(from))' = Budgets!In(from) \ {r}
           /\ (Budgets!In(to))' = Budgets!In(to) \cup {r}
           /\ \A s : s \notin {from, to} => (Budgets!In(s))' = Budgets!In(s)
BY DEF Budgets!TypeOK, Budgets!At, Budgets!In

\* The granted calls can be counted.
LEMMA GrantedIsFinite ==
    IsFiniteSet(Budgets!In("granted"))
BY FS_Subset, BudgetConstants DEF Budgets!In

\* What becomes of the parts of the invariant when the holders and the granted do not change.
LEMMA SameBudget ==
    ASSUME Budgets!Counted, UNCHANGED <<submitted, completed>>,
           (Budgets!Holders)' = Budgets!Holders, (Budgets!In("granted"))' = Budgets!In("granted"),
           \A r \in Budgets!Holders : size'[r] = size[r]
    PROVE  Budgets!Counted'
<1>1. PairsOf(Budgets!Holders, size') = PairsOf(Budgets!Holders, size)
  BY SameHolders
<1>2. InPairs'
  BY HeldAndGranted, PTL
<1> QED
  BY <1>1, <1>2, HeldAndGranted DEF InPairs, Budgets!Counted

\* A step keeps the stages and the sizes what they are.
LEMMA BudgetTyped ==
    ASSUME Budgets!BudgetInv, Budgets!Next
    PROVE  stage' \in [PluginRequest -> {"idle", "asks", "sized", "refusing", "granted", "refused"}]
           /\ size' \in [PluginRequest -> Size \cup {0}]
BY DEF Budgets!BudgetInv, Budgets!TypeOK, Budgets!Next, Budgets!Ask, Budgets!ReserveBytes,
       Budgets!ReserveCall, Budgets!GiveBack, Budgets!At

\* A request that asks has reserved nothing yet.
LEMMA RequestAsks ==
    ASSUME Budgets!BudgetInv, NEW r \in PluginRequest, NEW n \in Size, Budgets!Ask(r, n)
    PROVE  Budgets!Counted' /\ Budgets!Refusals' /\ submitted' \in Nat /\ completed' \in Nat
<1>1. /\ Budgets!TypeOK /\ Budgets!Counted /\ Budgets!Refusals
      /\ Budgets!At(r, "idle", "asks") /\ size' = [size EXCEPT ![r] = n]
      /\ UNCHANGED <<submitted, completed>>
  BY DEF Budgets!BudgetInv, Budgets!Ask
<1>2. /\ r \in Budgets!In("idle") /\ r \notin Budgets!Holders /\ r \notin Budgets!In("refused")
      /\ \A s \in {"sized", "refusing", "granted", "refused"} : (Budgets!In(s))' = Budgets!In(s)
  BY <1>1, StagesOf, "idle" # "asks" DEF Budgets!Holders
<1>3. (Budgets!Holders)' = Budgets!Holders
  BY <1>2 DEF Budgets!Holders
<1>4. \A q \in PluginRequest : q # r => size'[q] = size[q]
  BY <1>1 DEF Budgets!TypeOK
<1>5. Budgets!Holders \in SUBSET PluginRequest /\ Budgets!In("refused") \in SUBSET PluginRequest
  BY DEF Budgets!Holders, Budgets!In
<1>6. Budgets!Counted'
  BY <1>1, <1>2, <1>3, <1>4, <1>5, SameBudget
<1>7. Budgets!Refusals'
  BY <1>1, <1>2, <1>4, <1>5 DEF Budgets!Refusals
<1> QED
  BY <1>1, <1>6, <1>7 DEF Budgets!TypeOK

\* The bytes are reserved within the limit, or the request is refused for them.
LEMMA BytesReserved ==
    ASSUME Budgets!BudgetInv, NEW r \in PluginRequest, Budgets!ReserveBytes(r)
    PROVE  Budgets!Counted' /\ Budgets!Refusals' /\ submitted' \in Nat /\ completed' \in Nat
<1>1. /\ Budgets!TypeOK /\ Budgets!Counted /\ Budgets!Refusals /\ UNCHANGED <<size, completed>>
      /\ size[r] \in Nat /\ submitted \in Nat /\ completed \in Nat
  BY SizesAreBytes DEF Budgets!BudgetInv, Budgets!ReserveBytes, Budgets!TypeOK
<1>2. CASE /\ submitted + size[r] <= MaxBytes /\ Budgets!At(r, "asks", "sized")
           /\ submitted' = submitted + size[r]
  <2>1. /\ r \in Budgets!In("asks") /\ r \notin Budgets!Holders
        /\ (Budgets!In("sized"))' = Budgets!In("sized") \cup {r}
        /\ \A s \in {"refusing", "granted", "refused"} : (Budgets!In(s))' = Budgets!In(s)
    BY <1>1, <1>2, StagesOf, "asks" # "sized" DEF Budgets!Holders
  <2>2. (Budgets!Holders)' = Budgets!Holders \cup {r} /\ Budgets!Holders \in SUBSET PluginRequest
    BY <2>1 DEF Budgets!Holders, Budgets!In
  <2>3. size[r] <= MaxBytes
    BY <1>1, <1>2, BudgetConstants
  <2>4. Cardinality(PairsOf(Budgets!Holders \cup {r}, size)) = Cardinality(PairsOf(Budgets!Holders, size)) + size[r]
    BY <1>1, <2>1, <2>2, <2>3, OneMoreHolder
  <2>5. InPairs'
    BY HeldAndGranted, PTL
  <2>6. submitted' = (Budgets!Bytes(Budgets!Holders))'
    BY <1>1, <1>2, <2>2, <2>4, <2>5, HeldAndGranted DEF InPairs, Budgets!Counted
  <2>7. completed' = (Budgets!Cardinality(Budgets!In("granted")))'
    BY <1>1, <2>1, <2>5, HeldAndGranted DEF InPairs, Budgets!Counted
  <2>8. \A q \in (Budgets!Holders)' : size'[q] <= MaxBytes
    BY <1>1, <2>2, <2>3 DEF Budgets!Counted
  <2>9. Budgets!Counted'
    BY <1>1, <1>2, <2>6, <2>7, <2>8 DEF Budgets!Counted
  <2>10. Budgets!Refusals'
    <3>1. (Budgets!In("refusing"))' = Budgets!In("refusing") /\ (Budgets!In("refused"))' = Budgets!In("refused")
      BY <2>1
    <3>2. \A q \in Budgets!In("refused") : size[q] \in Nat
      BY <1>1, SizesAreBytes DEF Budgets!In
    <3> QED
      BY <1>1, <1>2, <3>1, <3>2, BudgetConstants DEF Budgets!Refusals
  <2> QED
    BY <1>1, <1>2, <2>9, <2>10
<1>3. CASE /\ submitted + size[r] > MaxBytes /\ Budgets!At(r, "asks", "refused")
           /\ UNCHANGED submitted
  <2>1. /\ (Budgets!In("refused"))' = Budgets!In("refused") \cup {r}
        /\ \A s \in {"sized", "refusing", "granted"} : (Budgets!In(s))' = Budgets!In(s)
    BY <1>1, <1>3, StagesOf, "asks" # "refused"
  <2>2. (Budgets!Holders)' = Budgets!Holders
    BY <2>1 DEF Budgets!Holders
  <2>3. Budgets!Counted'
    BY <1>1, <1>3, <2>1, <2>2, SameBudget
  <2>4. Budgets!Refusals'
    BY <1>1, <1>3, <2>1 DEF Budgets!Refusals
  <2> QED
    BY <1>1, <1>3, <2>3, <2>4
<1> QED
  BY <1>2, <1>3 DEF Budgets!ReserveBytes

\* The call is reserved within the limit, or its bytes are to be given back.
LEMMA CallReserved ==
    ASSUME Budgets!BudgetInv, NEW r \in PluginRequest, Budgets!ReserveCall(r)
    PROVE  Budgets!Counted' /\ Budgets!Refusals' /\ submitted' \in Nat /\ completed' \in Nat
<1>1. /\ Budgets!TypeOK /\ Budgets!Counted /\ Budgets!Refusals /\ UNCHANGED <<size, submitted>>
      /\ submitted \in Nat /\ completed \in Nat
  BY DEF Budgets!BudgetInv, Budgets!ReserveCall, Budgets!TypeOK
<1>2. CASE /\ completed < MaxRequests /\ Budgets!At(r, "sized", "granted") /\ completed' = completed + 1
  <2>1. /\ r \in Budgets!In("sized") /\ r \notin Budgets!In("granted")
        /\ (Budgets!In("sized"))' = Budgets!In("sized") \ {r}
        /\ (Budgets!In("granted"))' = Budgets!In("granted") \cup {r}
        /\ \A s \in {"refusing", "refused"} : (Budgets!In(s))' = Budgets!In(s)
    BY <1>1, <1>2, StagesOf, "sized" # "granted"
  <2>2. (Budgets!Holders)' = Budgets!Holders
    BY <2>1 DEF Budgets!Holders
  <2>3. InPairs'
    BY HeldAndGranted, PTL
  <2>4. submitted' = (Budgets!Bytes(Budgets!Holders))'
    BY <1>1, <2>2, <2>3, HeldAndGranted DEF InPairs, Budgets!Counted
  <2>5. Cardinality(Budgets!In("granted") \cup {r}) = Cardinality(Budgets!In("granted")) + 1
    BY <2>1, GrantedIsFinite, FS_AddElement
  <2>6. completed' = (Budgets!Cardinality(Budgets!In("granted")))'
    BY <1>1, <1>2, <2>1, <2>3, <2>5, HeldAndGranted DEF InPairs, Budgets!Counted
  <2>7. Budgets!Counted'
    BY <1>1, <1>2, <2>2, <2>4, <2>6, BudgetConstants DEF Budgets!Counted
  <2>8. Budgets!Refusals'
    BY <1>1, <1>2, <2>1, BudgetConstants DEF Budgets!Refusals
  <2> QED
    BY <1>1, <1>2, <2>7, <2>8
<1>3. CASE completed >= MaxRequests /\ Budgets!At(r, "sized", "refusing") /\ UNCHANGED completed
  <2>1. /\ r \in Budgets!In("sized") /\ (Budgets!In("sized"))' = Budgets!In("sized") \ {r}
        /\ (Budgets!In("refusing"))' = Budgets!In("refusing") \cup {r}
        /\ \A s \in {"granted", "refused"} : (Budgets!In(s))' = Budgets!In(s)
    BY <1>1, <1>3, StagesOf, "sized" # "refusing"
  <2>2. (Budgets!Holders)' = Budgets!Holders
    BY <2>1 DEF Budgets!Holders
  <2>3. Budgets!Counted'
    BY <1>1, <1>3, <2>1, <2>2, SameBudget
  <2>4. completed = MaxRequests
    BY <1>1, <1>3, BudgetConstants DEF Budgets!Counted
  <2>5. Budgets!Refusals'
    BY <1>1, <1>3, <2>1, <2>4 DEF Budgets!Refusals
  <2> QED
    BY <1>1, <1>3, <2>3, <2>5
<1> QED
  BY <1>2, <1>3 DEF Budgets!ReserveCall

\* A refused call gives back what it had reserved, no more and no less.
LEMMA BytesGivenBack ==
    ASSUME Budgets!BudgetInv, NEW r \in PluginRequest, Budgets!GiveBack(r)
    PROVE  Budgets!Counted' /\ Budgets!Refusals' /\ submitted' \in Nat /\ completed' \in Nat
<1>1. /\ Budgets!TypeOK /\ Budgets!Counted /\ Budgets!Refusals /\ UNCHANGED <<size, completed>>
      /\ submitted \in Nat /\ completed \in Nat /\ size[r] \in Nat
      /\ Budgets!At(r, "refusing", "refused") /\ submitted' = submitted - size[r]
  BY SizesAreBytes DEF Budgets!BudgetInv, Budgets!GiveBack, Budgets!TypeOK, Budgets!Returned
<1>2. /\ r \in Budgets!In("refusing") /\ r \notin Budgets!In("sized") /\ r \notin Budgets!In("granted")
      /\ (Budgets!In("refusing"))' = Budgets!In("refusing") \ {r}
      /\ (Budgets!In("refused"))' = Budgets!In("refused") \cup {r}
      /\ \A s \in {"sized", "granted"} : (Budgets!In(s))' = Budgets!In(s)
  BY <1>1, StagesOf, "refusing" # "refused"
<1> DEFINE rest == Budgets!Holders \ {r}
<1>3. /\ (Budgets!Holders)' = rest /\ Budgets!Holders = rest \cup {r}
      /\ rest \in SUBSET PluginRequest /\ r \notin rest /\ r \in Budgets!Holders
  BY <1>2 DEF Budgets!Holders, Budgets!In
<1> HIDE DEF rest
<1>4. size[r] <= MaxBytes
  BY <1>1, <1>3 DEF Budgets!Counted
<1>5. Cardinality(PairsOf(rest \cup {r}, size)) = Cardinality(PairsOf(rest, size)) + size[r]
  BY <1>1, <1>3, <1>4, OneMoreHolder
<1>6. Cardinality(PairsOf(rest, size)) \in Nat
  BY <1>3, PairsAreFinite
<1>7. submitted = Cardinality(PairsOf(rest, size)) + size[r]
  BY <1>1, <1>3, <1>5, HeldAndGranted DEF InPairs, Budgets!Counted
<1>8. submitted' = Cardinality(PairsOf(rest, size)) /\ submitted' \in Nat /\ submitted' <= MaxBytes
  BY <1>1, <1>6, <1>7, BudgetConstants DEF Budgets!Counted
<1>9. InPairs'
  BY HeldAndGranted, PTL
<1>10. completed' = (Budgets!Cardinality(Budgets!In("granted")))' /\ completed' <= MaxRequests
  BY <1>1, <1>2, <1>9, HeldAndGranted DEF InPairs, Budgets!Counted
<1>11. \A q \in (Budgets!Holders)' : size'[q] <= MaxBytes
  BY <1>1, <1>3 DEF Budgets!Counted
<1>12. Budgets!Counted'
  <2>1. submitted' = (Budgets!Bytes(Budgets!Holders))'
    BY <1>1, <1>3, <1>8, <1>9 DEF InPairs
  <2> QED
    BY <1>8, <1>10, <1>11, <2>1 DEF Budgets!Counted
<1>13. completed = MaxRequests
  BY <1>1, <1>2 DEF Budgets!Refusals
<1>14. Budgets!Refusals'
  BY <1>1, <1>2, <1>13 DEF Budgets!Refusals
<1> QED
  BY <1>1, <1>8, <1>12, <1>14

\* Every step of the budget keeps BudgetInv.
LEMMA BudgetStep ==
    ASSUME Budgets!BudgetInv, Budgets!Next \/ UNCHANGED budgetVars
    PROVE  Budgets!BudgetInv'
<1>1. CASE UNCHANGED budgetVars
  <2>1. UNCHANGED <<stage, size, submitted, completed>>
    BY <1>1 DEF budgetVars
  <2>2. \A s : (Budgets!In(s))' = Budgets!In(s)
    BY <2>1 DEF Budgets!In
  <2>3. (Budgets!Holders)' = Budgets!Holders
    BY <2>2 DEF Budgets!Holders
  <2>4. Budgets!Counted'
    BY <2>1, <2>2, <2>3, SameBudget DEF Budgets!BudgetInv
  <2>5. Budgets!TypeOK' /\ Budgets!Refusals'
    BY <2>1, <2>2 DEF Budgets!BudgetInv, Budgets!TypeOK, Budgets!Refusals
  <2> QED
    BY <2>4, <2>5 DEF Budgets!BudgetInv
<1>2. CASE Budgets!Next
  <2>1. Budgets!Counted' /\ Budgets!Refusals' /\ submitted' \in Nat /\ completed' \in Nat
    BY <1>2, RequestAsks, BytesReserved, CallReserved, BytesGivenBack DEF Budgets!Next
  <2>2. Budgets!TypeOK'
    BY <1>2, <2>1, BudgetTyped DEF Budgets!TypeOK
  <2> QED
    BY <2>1, <2>2 DEF Budgets!BudgetInv
<1> QED
  BY <1>1, <1>2

\* The invariant is enough for both properties of the budget.
LEMMA BudgetHolds ==
    Budgets!BudgetInv => Budgets!NothingLeaks /\ Budgets!RefusedForCause
<1> SUFFICES ASSUME Budgets!BudgetInv PROVE Budgets!NothingLeaks /\ Budgets!RefusedForCause
  OBVIOUS
<1>1. Budgets!Settled => Budgets!Holders = Budgets!In("granted")
  BY DEF Budgets!Settled, Budgets!Holders
<1> QED
  BY <1>1 DEF Budgets!BudgetInv, Budgets!Counted, Budgets!Refusals, Budgets!NothingLeaks, Budgets!RefusedForCause

------------------------------------------------------------------------------
(* The stream of a model.                                                  *)

\* A position with the weights from one to n has n pairs.
LEMMA RowOf ==
    ASSUME NEW r, NEW n \in Nat
    PROVE  IsFiniteSet({r} \X (1..n)) /\ Cardinality({r} \X (1..n)) = n
<1>1. IsFiniteSet({r}) /\ Cardinality({r}) = 1
  BY FS_Singleton
<1>2. IsFiniteSet(1..n) /\ Cardinality(1..n) = n
  <2>1. IsFiniteSet(1..n) /\ Cardinality(1..n) = IF 1 > n THEN 0 ELSE n - 1 + 1
    BY FS_Interval
  <2> QED
    BY <2>1
<1>3. IsFiniteSet({r} \X (1..n)) /\ Cardinality({r} \X (1..n)) = Cardinality({r}) * Cardinality(1..n)
  BY <1>1, <1>2, FS_Product
<1> QED
  BY <1>1, <1>2, <1>3

\* What the events of a sequence weigh, in pairs.
Weighed(es, w) == {p \in (DOMAIN es) \X (1..(MaxWeight + 1)) : p[2] <= w[es[p[1]]]}

\* Amount counts those pairs.
LEMMA AmountIsWeighed ==
    \A es, w : Stream!Amount(es, w) = Cardinality(Weighed(es, w))
<1>1. \A S : Stream!Cardinality(S) = Cardinality(S)
  BY DEF Stream!Cardinality, Cardinality
<1>2. \A es, w : Stream!Amount(es, w) = Stream!Cardinality(Weighed(es, w))
  BY Zenon DEF Stream!Amount, Weighed
<1> QED
  BY <1>1, <1>2

\* The pairs of a sequence are finite.
LEMMA WeighedIsFinite ==
    ASSUME NEW S, NEW es \in Seq(S), NEW w
    PROVE  IsFiniteSet(Weighed(es, w)) /\ Cardinality(Weighed(es, w)) \in Nat
<1>1. DOMAIN es = 1..Len(es) /\ Len(es) \in Nat
  BY LenProperties
<1>2. IsFiniteSet(1..Len(es)) /\ IsFiniteSet(1..(MaxWeight + 1))
  BY <1>1, FS_Interval, StreamConstants
<1>3. IsFiniteSet((DOMAIN es) \X (1..(MaxWeight + 1)))
  BY <1>1, <1>2, FS_Product
<1>4. IsFiniteSet(Weighed(es, w))
  BY <1>3, FS_Subset DEF Weighed
<1> QED
  BY <1>4, FS_CardinalityType

\* An empty sequence weighs nothing.
LEMMA NothingWeighsNothing ==
    ASSUME NEW w
    PROVE  Stream!Amount(<<>>, w) = 0
<1>1. Weighed(<<>>, w) = {}
  BY DEF Weighed
<1> QED
  BY <1>1, AmountIsWeighed, FS_EmptySet

\* An event at the end adds its weight.
LEMMA AmountWithLast ==
    ASSUME NEW S, NEW es \in Seq(S), NEW e \in S, NEW w, w[e] \in Nat, w[e] <= MaxWeight + 1
    PROVE  /\ Stream!Amount(es, w) \in Nat
           /\ Stream!Amount(Append(es, e), w) = Stream!Amount(es, w) + w[e]
<1> DEFINE n == Len(es)
           own == {n + 1} \X (1..w[e])
           longer == Append(es, e)
<1>1. /\ n \in Nat /\ DOMAIN es = 1..n /\ DOMAIN longer = 1..(n + 1)
      /\ \A i \in 1..n : longer[i] = es[i]
      /\ longer[n + 1] = e /\ longer \in Seq(S)
  BY AppendProperties, LenProperties
<1> HIDE DEF longer, n
<1>2. 1..(n + 1) = (1..n) \cup {n + 1} /\ n + 1 \notin 1..n
  BY <1>1
<1>3. Weighed(longer, w) = Weighed(es, w) \cup own
  BY <1>1, <1>2, StreamConstants DEF Weighed
<1>4. Weighed(es, w) \cap own = {}
  BY <1>1, <1>2 DEF Weighed
<1>5. IsFiniteSet(own) /\ Cardinality(own) = w[e]
  BY RowOf
<1> HIDE DEF own
<1>6. IsFiniteSet(Weighed(es, w)) /\ Cardinality(Weighed(es, w)) \in Nat
  BY WeighedIsFinite
<1>7. Cardinality(Weighed(es, w) \cup own) = Cardinality(Weighed(es, w)) + Cardinality(own) - Cardinality({})
  BY <1>4, <1>5, <1>6, FS_Union
<1>8. Cardinality(Weighed(longer, w)) = Cardinality(Weighed(es, w)) + w[e]
  BY <1>3, <1>5, <1>6, <1>7, FS_EmptySet
<1> QED
  BY <1>6, <1>8, AmountIsWeighed DEF longer

\* An event at the front adds its weight: the pairs of the rest move by one position.
LEMMA AmountWithFirst ==
    ASSUME NEW S, NEW es \in Seq(S), NEW e \in S, NEW w, w[e] \in Nat, w[e] <= MaxWeight + 1
    PROVE  /\ Stream!Amount(es, w) \in Nat
           /\ Stream!Amount(<<e>> \o es, w) = w[e] + Stream!Amount(es, w)
<1> DEFINE n == Len(es)
           own == {1} \X (1..w[e])
           longer == <<e>> \o es
           old == Weighed(es, w)
           moved == [p \in old |-> <<p[1] + 1, p[2]>>]
           later == {moved[p] : p \in old}
<1>1. /\ n \in Nat /\ DOMAIN es = 1..n /\ DOMAIN longer = 1..(n + 1)
      /\ \A i \in 1..n : longer[i + 1] = es[i]
      /\ longer[1] = e /\ longer \in Seq(S)
  <2>1. /\ <<e>> \in Seq(S) /\ Len(<<e>>) = 1 /\ <<e>>[1] = e
    OBVIOUS
  <2>2. /\ longer \in Seq(S) /\ Len(longer) = 1 + n
        /\ \A i \in 1..(1 + n) : longer[i] = IF i <= 1 THEN <<e>>[i] ELSE es[i - 1]
    BY <2>1, ConcatProperties
  <2>3. n \in Nat /\ DOMAIN es = 1..n /\ DOMAIN longer = 1..Len(longer)
    BY <2>2, LenProperties
  <2> HIDE DEF longer, n
  <2>4. \A i \in 1..n : i + 1 \in 1..(1 + n) /\ ~(i + 1 <= 1) /\ (i + 1) - 1 = i
    BY <2>3
  <2>5. ASSUME NEW i \in 1..n PROVE longer[i + 1] = es[i]
    <3>1. longer[i + 1] = IF i + 1 <= 1 THEN <<e>>[i + 1] ELSE es[(i + 1) - 1]
      BY <2>2, <2>4
    <3> QED
      BY <3>1, <2>4
  <2>6. 1 \in 1..(1 + n) /\ 1 + n = n + 1 /\ 1 <= 1
    BY <2>3
  <2>7. longer[1] = e
    BY <2>1, <2>2, <2>6
  <2>8. DOMAIN longer = 1..(n + 1)
    BY <2>2, <2>3, <2>6
  <2> QED
    BY <2>2, <2>3, <2>5, <2>7, <2>8
<1> HIDE DEF longer, n
<1>2. /\ \A j \in 1..(n + 1) : j # 1 => j - 1 \in 1..n /\ j = (j - 1) + 1
      /\ \A i \in 1..n : i + 1 # 1
  BY <1>1
<1>3. \A p \in old : p[1] \in 1..n /\ p[2] \in 1..(MaxWeight + 1) /\ p = <<p[1], p[2]>>
  BY <1>1 DEF Weighed
<1>4. IsFiniteSet(old) /\ Cardinality(old) \in Nat
  BY WeighedIsFinite
<1>5. Weighed(longer, w) = own \cup later
  <2>1. ASSUME NEW p \in Weighed(longer, w) PROVE p \in own \cup later
    <3>1. p[1] \in 1..(n + 1) /\ p[2] \in 1..(MaxWeight + 1) /\ p = <<p[1], p[2]>> /\ p[2] <= w[longer[p[1]]]
      BY <1>1, <2>1 DEF Weighed
    <3>2. CASE p[1] = 1
      BY <1>1, <3>1, <3>2, StreamConstants
    <3>3. CASE p[1] # 1
      <4>1. PICK i \in 1..n : p[1] = i + 1
        BY <1>2, <3>1, <3>3
      <4>2. <<i, p[2]>> \in old
        BY <1>1, <3>1, <4>1 DEF Weighed
      <4>3. moved[<<i, p[2]>>] = p
        BY <3>1, <4>1, <4>2
      <4> HIDE DEF moved
      <4> QED
        BY <4>2, <4>3
    <3> QED
      BY <3>2, <3>3
  <2>2. ASSUME NEW p \in own PROVE p \in Weighed(longer, w)
    <3>1. p[1] = 1 /\ p[2] \in 1..w[e] /\ p = <<p[1], p[2]>>
      OBVIOUS
    <3>2. p[2] \in 1..(MaxWeight + 1) /\ p[2] <= w[e] /\ 1 \in 1..(n + 1)
      BY <1>1, <3>1, StreamConstants
    <3> QED
      BY <1>1, <3>1, <3>2 DEF Weighed
  <2>3. ASSUME NEW q \in old PROVE moved[q] \in Weighed(longer, w)
    <3>1. q[1] \in 1..n /\ q[2] \in 1..(MaxWeight + 1) /\ q[2] <= w[es[q[1]]]
      BY <1>3, <2>3 DEF Weighed
    <3>2. q[1] + 1 \in 1..(n + 1) /\ longer[q[1] + 1] = es[q[1]]
      BY <1>1, <3>1
    <3> QED
      BY <1>1, <3>1, <3>2 DEF Weighed
  <2> HIDE DEF old, moved, own
  <2> QED
    BY <2>1, <2>2, <2>3
<1>6. own \cap later = {}
  <2>1. ASSUME NEW q \in old PROVE moved[q] \notin own
    <3>1. moved[q] = <<q[1] + 1, q[2]>> /\ q[1] + 1 # 1
      BY <1>2, <1>3, <2>1
    <3> QED
      BY <3>1
  <2> HIDE DEF old, moved, own
  <2> QED
    BY <2>1
<1>7. moved \in Surjection(old, later) /\ moved \in Injection(old, later)
  <2>1. \A p, q \in old : moved[p] = moved[q] => p = q
    <3> SUFFICES ASSUME NEW p \in old, NEW q \in old, moved[p] = moved[q] PROVE p = q
      OBVIOUS
    <3>1. p[1] + 1 = q[1] + 1 /\ p[2] = q[2]
      OBVIOUS
    <3>2. p[1] \in Nat /\ q[1] \in Nat
      BY <1>1, <1>3
    <3> HIDE DEF old
    <3> QED
      BY <1>3, <3>1, <3>2
  <2>2. moved \in [old -> later] /\ DOMAIN moved = old
    OBVIOUS
  <2> HIDE DEF old, moved
  <2> QED
    BY <2>1, <2>2 DEF Surjection, Injection, IsInjective
<1> HIDE DEF own, old, later, moved
<1>8. IsFiniteSet(later) /\ Cardinality(later) = Cardinality(old)
  BY <1>4, <1>7, FS_Surjection
<1>9. IsFiniteSet(own) /\ Cardinality(own) = w[e]
  BY RowOf DEF own
<1>10. Cardinality(own \cup later) = Cardinality(own) + Cardinality(later) - Cardinality({})
  BY <1>6, <1>8, <1>9, FS_Union
<1>11. Cardinality(Weighed(longer, w)) = w[e] + Cardinality(old)
  BY <1>4, <1>5, <1>8, <1>9, <1>10, FS_EmptySet
<1> QED
  BY <1>4, <1>11, AmountIsWeighed DEF longer, old

\* An event weighs what the definitions of the model say, at most one more than the limit.
LEMMA WeightsOf ==
    \A e \in Stream!Shown :
        /\ Stream!Ones[e] \in Nat /\ Stream!Ones[e] <= MaxWeight + 1
        /\ Stream!Weights[e] \in Nat /\ Stream!Weights[e] <= MaxWeight + 1
        /\ Stream!Weights[e] = Stream!Weight(e)
        /\ Stream!Ones[e] = IF e = "overflow" THEN 0 ELSE 1
<1>1. \A e \in Stream!Shown : Stream!Weight(e) \in Nat /\ Stream!Weight(e) <= MaxWeight + 1
  BY StreamConstants DEF Stream!Weight, Stream!Shown, Stream!Event
<1> QED
  BY <1>1, StreamConstants DEF Stream!Ones, Stream!Weights

\* A stream nobody has used is sound.
LEMMA StreamBegins == Stream!Init => Stream!StreamInv
<1> SUFFICES ASSUME Stream!Init PROVE Stream!StreamInv
  OBVIOUS
<1> USE DEF Stream!Init
<1>1. Stream!InHand = <<>> /\ Stream!Pushed = <<>>
  <2>1. <<>> \o <<>> = <<>>
    BY ConcatEmptySeq, EmptySeq
  <2> QED
    BY <2>1 DEF Stream!InHand, Stream!Pushed
<1>2. Stream!StreamTypes
  <2>1. Stream!Unread \in [events : Nat, weight : Nat, terminal : BOOLEAN, overflowed : BOOLEAN, failure : BOOLEAN]
    BY DEF Stream!Unread
  <2> QED
    BY <2>1 DEF Stream!StreamTypes, Stream!TypeOK, Stream!Unread
<1>3. Stream!StreamWhole
  BY <1>1 DEF Stream!StreamWhole, Stream!Unread
<1>4. Stream!StreamCounted
  BY <1>1, NothingWeighsNothing, StreamConstants DEF Stream!StreamCounted, Stream!Texts, Stream!Total, Stream!Unread
<1>5. Stream!StreamEnds /\ Stream!RetryOfItsError /\ Stream!RequestStopped
  BY DEF Stream!StreamEnds, Stream!RetryOfItsError, Stream!RequestStopped
<1> QED
  BY <1>2, <1>3, <1>4, <1>5 DEF Stream!StreamInv

\* The types of a stream, in the terms of what is shown.
Ledgers == [events : Nat, weight : Nat, terminal : BOOLEAN, overflowed : BOOLEAN, failure : BOOLEAN]
StreamShape ==
    /\ channel \in Seq(Stream!Shown) /\ received \in Seq(Stream!Shown) /\ offered \in Seq(Stream!Event)
    /\ taken \in Stream!Shown \cup {NoEvent} /\ ledger \in Ledgers
    /\ task \in {"loose", "bound", "aborted"} /\ reader \in {"open", "dropped"}
    /\ sender \in [Sender -> Stream!Event \cup {NoEvent, "gone"}]
    /\ result \in {"none", "response", "retry", "failure"}

\* StreamTypes is StreamShape.
LEMMA TypesAreShape == Stream!StreamTypes <=> StreamShape
<1>1. Stream!StreamTypes => StreamShape
  BY DEF StreamShape, Ledgers, Stream!StreamTypes, Stream!TypeOK, Stream!Shown
<1>2. StreamShape => ledger.events \in Nat /\ ledger.weight \in Nat
  BY DEF StreamShape, Ledgers
<1>3. StreamShape => Stream!StreamTypes
  BY <1>2 DEF StreamShape, Ledgers, Stream!StreamTypes, Stream!TypeOK, Stream!Shown
<1> QED
  BY <1>1, <1>3

\* Sending an event keeps the types.
LEMMA PushKeepsShape ==
    ASSUME StreamShape, NEW s \in Sender, Stream!Push(s)
    PROVE  StreamShape'
<1>1. /\ sender[s] \in Stream!Event /\ sender' = [sender EXCEPT ![s] = NoEvent]
      /\ UNCHANGED <<taken, reader, result, received>>
  BY DEF Stream!Push
<1>2. sender[s] \in Stream!Shown /\ "overflow" \in Stream!Shown
  BY <1>1 DEF Stream!Shown
<1>3. \A e \in Stream!Shown : Stream!Arrive(e) \in Seq(Stream!Shown)
  BY DEF Stream!Arrive, StreamShape
<1>4. \A e \in Stream!Event : Stream!Weight(e) \in Nat /\ Stream!IsTerminal(e) \in BOOLEAN
  BY StreamConstants DEF Stream!Weight, Stream!IsTerminal
<1>5. sender' \in [Sender -> Stream!Event \cup {NoEvent, "gone"}]
  BY <1>1 DEF StreamShape
<1>6. task' \in {"loose", "bound", "aborted"}
  BY DEF Stream!Push, StreamShape
<1>7. offered' \in Seq(Stream!Event)
  <2>1. offered' = offered \/ offered' = Append(offered, sender[s])
    BY DEF Stream!Push
  <2>2. offered \in Seq(Stream!Event)
    BY DEF StreamShape
  <2> QED
    BY <1>1, <2>1, <2>2, AppendProperties
<1>8. channel' \in Seq(Stream!Shown)
  BY <1>2, <1>3 DEF Stream!Push, StreamShape
<1>9. ledger' \in Ledgers
  <2>1. CASE ledger' = ledger
    BY <2>1 DEF StreamShape
  <2>2. CASE ledger' = Stream!Overflowed(ledger)
    BY <2>2 DEF StreamShape, Stream!Overflowed, Ledgers
  <2>3. CASE ledger' = [ledger EXCEPT !.events = @ + 1, !.weight = @ + Stream!Weight(sender[s]),
                                      !.terminal = Stream!IsTerminal(sender[s]), !.failure = (sender[s] = "lost")]
    <3> DEFINE u == [ledger EXCEPT !.events = ledger.events + 1, !.weight = ledger.weight + Stream!Weight(sender[s])]
    <3>1. u \in Ledgers
      <4>1. ledger.events + 1 \in Nat /\ ledger.weight + Stream!Weight(sender[s]) \in Nat
        BY <1>1, <1>4 DEF StreamShape, Ledgers
      <4> QED
        BY <4>1 DEF StreamShape, Ledgers
    <3>2. ledger' = [u EXCEPT !.terminal = Stream!IsTerminal(sender[s]), !.failure = (sender[s] = "lost")]
      BY <2>3 DEF StreamShape, Ledgers
    <3>3. Stream!IsTerminal(sender[s]) \in BOOLEAN /\ (sender[s] = "lost") \in BOOLEAN
      BY <1>1, <1>4
    <3> HIDE DEF u
    <3> QED
      BY <3>1, <3>2, <3>3 DEF Ledgers
  <2> QED
    BY <2>1, <2>2, <2>3 DEF Stream!Push
<1> QED
  BY <1>1, <1>5, <1>6, <1>7, <1>8, <1>9 DEF StreamShape

\* Giving back the weight of an event keeps the types.
LEMMA SettleKeepsShape ==
    ASSUME StreamShape, Stream!Settle
    PROVE  StreamShape'
<1>1. /\ taken \in Stream!Shown /\ received' = Append(received, taken) /\ taken' = NoEvent
      /\ UNCHANGED <<channel, sender, reader, task, offered>>
      /\ result' = Stream!Outcome(taken)
      /\ ledger' = [ledger EXCEPT !.events = Stream!Less(@, 1), !.weight = Stream!Less(@, Stream!Weight(taken)),
                                !.failure = @ /\ taken \notin {"lost", "error", "overflow"}]
  BY DEF Stream!Settle, StreamShape
<1>2. received' \in Seq(Stream!Shown)
  BY <1>1 DEF StreamShape
<1>3. result' \in {"none", "response", "retry", "failure"}
  BY <1>1 DEF Stream!Outcome
<1>4. ledger' \in Ledgers
  <2> DEFINE u == [ledger EXCEPT !.events = Stream!Less(ledger.events, 1),
                                 !.weight = Stream!Less(ledger.weight, Stream!Weight(taken))]
             fails == ledger.failure /\ taken \notin {"lost", "error", "overflow"}
  <2>1. ledger.events \in Nat /\ ledger.weight \in Nat /\ Stream!Weight(taken) \in Nat
    BY <1>1, StreamConstants DEF StreamShape, Ledgers, Stream!Weight
  <2>2. Stream!Less(ledger.events, 1) \in Nat /\ Stream!Less(ledger.weight, Stream!Weight(taken)) \in Nat
    BY <2>1 DEF Stream!Less
  <2>3. u \in Ledgers
    BY <2>2 DEF StreamShape, Ledgers
  <2>4. ledger' = [u EXCEPT !.failure = fails]
    BY <1>1 DEF StreamShape, Ledgers
  <2>5. fails \in BOOLEAN
    OBVIOUS
  <2> HIDE DEF u, fails
  <2> QED
    BY <2>3, <2>4, <2>5 DEF Ledgers
<1> QED
  BY <1>1, <1>2, <1>3, <1>4 DEF StreamShape

\* Every step of a stream keeps its types.
LEMMA StreamTyped ==
    ASSUME StreamShape, Stream!Next
    PROVE  StreamShape'
<1>1. ASSUME NEW s \in Sender, NEW e \in Stream!Event, Stream!Offer(s, e) PROVE StreamShape'
  BY <1>1 DEF Stream!Offer, StreamShape
<1>2. ASSUME NEW s \in Sender, Stream!Leave(s) PROVE StreamShape'
  BY <1>2 DEF Stream!Leave, StreamShape
<1>3. ASSUME Stream!Bind PROVE StreamShape'
  BY <1>3 DEF Stream!Bind, Stream!Bound, StreamShape
<1>4. ASSUME Stream!Receive PROVE StreamShape'
  <2>1. Head(channel) \in Stream!Shown /\ Tail(channel) \in Seq(Stream!Shown)
    BY <1>4, HeadTailProperties DEF Stream!Receive, StreamShape
  <2> QED
    BY <1>4, <2>1 DEF Stream!Receive, StreamShape
<1>5. ASSUME Stream!Close PROVE StreamShape'
  BY <1>5 DEF Stream!Close, StreamShape
<1>6. ASSUME Stream!DropStream PROVE StreamShape'
  BY <1>6 DEF Stream!DropStream, StreamShape
<1> QED
  BY <1>1, <1>2, <1>3, <1>4, <1>5, <1>6, PushKeepsShape, SettleKeepsShape DEF Stream!Next

\* What is in hand, and what was pushed.
HandsHold ==
    /\ taken = NoEvent => Stream!InHand = channel
    /\ taken # NoEvent => Stream!InHand = <<taken>> \o channel /\ taken \in Stream!Shown
    /\ Stream!InHand \in Seq(Stream!Shown)
    /\ Stream!Pushed = received \o Stream!InHand /\ Stream!Pushed \in Seq(Stream!Shown)

\* What is in hand is the event taken and the channel behind it.
LEMMA HandsAre == StreamShape => HandsHold
<1> SUFFICES ASSUME StreamShape PROVE HandsHold
  OBVIOUS
<1> USE DEF StreamShape
<1>1. taken = NoEvent => Stream!InHand = channel
  BY ConcatEmptySeq DEF Stream!InHand
<1>2. taken # NoEvent => Stream!InHand = <<taken>> \o channel /\ taken \in Stream!Shown
  BY DEF Stream!InHand
<1>3. taken # NoEvent => <<taken>> \in Seq(Stream!Shown)
  BY <1>2
<1>4. Stream!InHand \in Seq(Stream!Shown)
  <2>1. CASE taken = NoEvent
    BY <1>1, <2>1
  <2>2. CASE taken # NoEvent
    <3>1. <<taken>> \in Seq(Stream!Shown) /\ channel \in Seq(Stream!Shown)
      BY <1>3, <2>2
    <3>2. <<taken>> \o channel \in Seq(Stream!Shown)
      BY <3>1, ConcatProperties
    <3> QED
      BY <1>2, <2>2, <3>2
  <2> QED
    BY <2>1, <2>2
<1>5. Stream!Pushed = received \o Stream!InHand
  BY DEF Stream!Pushed
<1>6. Stream!Pushed \in Seq(Stream!Shown)
  BY <1>4, <1>5, ConcatProperties
<1> QED
  BY <1>1, <1>2, <1>4, <1>5, <1>6 DEF HandsHold

\* What StreamWhole says of what was pushed and offered.
Whole(P, O, l, r) ==
    /\ Len(P) = Len(O)
    /\ \A i \in 1..Len(P) : i < Len(P) => P[i] = O[i] /\ ~Stream!IsTerminal(P[i])
    /\ P # <<>> => /\ P[Len(P)] = IF l.overflowed THEN "overflow" ELSE O[Len(P)]
                   /\ l.terminal <=> Stream!IsTerminal(P[Len(P)])
                   /\ r = "none" => (l.failure <=> P[Len(P)] = "lost")
    /\ P = <<>> => l = Stream!Unread
    /\ l.overflowed => P # <<>>

StreamIsWhole ==
    /\ reader = "open" => Whole(Stream!Pushed, offered, ledger, result)
    /\ reader = "dropped" => channel = <<>> /\ taken = NoEvent

\* StreamWhole, in the terms of Whole.
LEMMA WholeIs == StreamShape => (Stream!StreamWhole <=> StreamIsWhole)
<1> SUFFICES ASSUME StreamShape PROVE Stream!StreamWhole <=> StreamIsWhole
  OBVIOUS
<1> DEFINE P == Stream!Pushed
           n == Len(P)
<1>1. P \in Seq(Stream!Shown)
  BY HandsAre DEF HandsHold
<1>2. DOMAIN P = 1..n /\ n \in Nat /\ (P # <<>> <=> n # 0)
  BY <1>1, LenProperties, EmptySeq
<1> HIDE DEF P
<1>3. P # <<>> => n \in DOMAIN P
  BY <1>2
<1>4. (\A i \in DOMAIN P : (i < n => P[i] = offered[i] /\ ~Stream!IsTerminal(P[i]))
                        /\ (i = n => /\ P[i] = IF ledger.overflowed THEN "overflow" ELSE offered[i]
                                     /\ ledger.terminal <=> Stream!IsTerminal(P[i])
                                     /\ result = "none" => (ledger.failure <=> P[i] = "lost")))
      <=> ((\A i \in 1..n : i < n => P[i] = offered[i] /\ ~Stream!IsTerminal(P[i]))
           /\ (P # <<>> => /\ P[n] = IF ledger.overflowed THEN "overflow" ELSE offered[n]
                           /\ ledger.terminal <=> Stream!IsTerminal(P[n])
                           /\ result = "none" => (ledger.failure <=> P[n] = "lost")))
  BY <1>2, <1>3
<1> QED
  BY <1>4, Zenon DEF Stream!StreamWhole, StreamIsWhole, Whole, P

\* A stream without a terminal event has had no overflow and no failure.
LEMMA LiveStream ==
    ASSUME NEW P \in Seq(Stream!Shown), NEW O, NEW l \in Ledgers, NEW r, Whole(P, O, l, r), ~l.terminal
    PROVE  /\ ~l.overflowed
           /\ \A i \in 1..Len(P) : P[i] = O[i] /\ ~Stream!IsTerminal(P[i])
           /\ r = "none" => ~l.failure
<1> DEFINE n == Len(P)
<1>1. n \in Nat /\ (P # <<>> <=> n # 0)
  BY LenProperties, EmptySeq
<1>2. /\ \A i \in 1..n : i < n => P[i] = O[i] /\ ~Stream!IsTerminal(P[i])
      /\ P # <<>> => /\ P[n] = IF l.overflowed THEN "overflow" ELSE O[n]
                     /\ l.terminal <=> Stream!IsTerminal(P[n])
                     /\ r = "none" => (l.failure <=> P[n] = "lost")
      /\ P = <<>> => l = Stream!Unread
      /\ l.overflowed => P # <<>>
  BY DEF Whole
<1> HIDE DEF n
<1>3. Stream!IsTerminal("overflow") /\ Stream!IsTerminal("lost")
  BY DEF Stream!IsTerminal
<1>4. ~l.overflowed
  BY <1>2, <1>3
<1>5. \A i \in 1..n : P[i] = O[i] /\ ~Stream!IsTerminal(P[i])
  <2> SUFFICES ASSUME NEW i \in 1..n PROVE P[i] = O[i] /\ ~Stream!IsTerminal(P[i])
    OBVIOUS
  <2>1. CASE i < n
    BY <1>2, <2>1
  <2>2. CASE i = n
    BY <1>1, <1>2, <1>4, <2>2
  <2> QED
    BY <1>1, <2>1, <2>2
<1>6. r = "none" => ~l.failure
  BY <1>2, <1>3 DEF Stream!Unread
<1> QED
  BY <1>4, <1>5, <1>6 DEF n

\* An event pushed into a live stream, or the overflow in its place, keeps it whole.
LEMMA WholeAppended ==
    ASSUME NEW P \in Seq(Stream!Shown), NEW O \in Seq(Stream!Event), NEW l \in Ledgers, NEW r,
           Whole(P, O, l, r), ~l.terminal, NEW e \in Stream!Event, NEW x \in Stream!Shown, NEW m,
           x = IF m.overflowed THEN "overflow" ELSE e,
           m.terminal <=> Stream!IsTerminal(x), r = "none" => (m.failure <=> x = "lost")
    PROVE  Whole(Append(P, x), Append(O, e), m, r)
<1> DEFINE n == Len(P)
           Q == Append(P, x)
           R == Append(O, e)
<1>1. /\ n \in Nat /\ Len(Q) = n + 1 /\ \A i \in 1..n : Q[i] = P[i]
      /\ Q[n + 1] = x /\ Q # <<>>
  BY AppendProperties, LenProperties
<1>2. /\ Len(O) = n
  BY DEF Whole
<1>3. /\ Len(R) = n + 1 /\ \A i \in 1..n : R[i] = O[i]
      /\ R[n + 1] = e
  BY <1>2, AppendProperties
<1>4. \A i \in 1..n : P[i] = O[i] /\ ~Stream!IsTerminal(P[i])
  BY LiveStream
<1> HIDE DEF Q, R, n
<1>5. \A i \in 1..Len(Q) : i < Len(Q) => Q[i] = R[i] /\ ~Stream!IsTerminal(Q[i])
  <2> SUFFICES ASSUME NEW i \in 1..n PROVE Q[i] = R[i] /\ ~Stream!IsTerminal(Q[i])
    BY <1>1
  <2> QED
    BY <1>1, <1>3, <1>4
<1>6. /\ Q[Len(Q)] = IF m.overflowed THEN "overflow" ELSE R[Len(Q)]
      /\ m.terminal <=> Stream!IsTerminal(Q[Len(Q)])
      /\ r = "none" => (m.failure <=> Q[Len(Q)] = "lost")
  BY <1>1, <1>3
<1>7. Len(Q) = Len(R)
  BY <1>1, <1>3
<1>8. Whole(Q, R, m, r)
  BY <1>1, <1>5, <1>6, <1>7, Zenon DEF Whole
<1> QED
  BY <1>8 DEF Q, R

\* Appending to the second of two sequences appends to both together.
LEMMA AppendInside ==
    ASSUME NEW S, NEW s \in Seq(S), NEW t \in Seq(S), NEW x \in S
    PROVE  s \o Append(t, x) = Append(s \o t, x)
<1>1. s \o t \in Seq(S) /\ <<x>> \in Seq(S)
  BY ConcatProperties
<1>2. Append(t, x) = t \o <<x>> /\ Append(s \o t, x) = (s \o t) \o <<x>>
  BY <1>1, AppendIsConcat
<1>3. (s \o t) \o <<x>> = s \o (t \o <<x>>)
  BY <1>1, ConcatAssociative
<1> QED
  BY <1>2, <1>3

\* An event that is pushed comes last of all that is in hand.
LEMMA HandsAppended ==
    ASSUME StreamShape, StreamShape', NEW x \in Stream!Shown,
           channel' = Append(channel, x), UNCHANGED <<taken, received>>
    PROVE  /\ Stream!InHand' = Append(Stream!InHand, x)
           /\ Stream!Pushed' = Append(Stream!Pushed, x)
<1>1. HandsHold /\ HandsHold'
  BY HandsAre, PTL
<1>2. channel \in Seq(Stream!Shown) /\ received \in Seq(Stream!Shown) /\ Stream!InHand \in Seq(Stream!Shown)
  BY <1>1 DEF StreamShape, HandsHold
<1>3. Stream!InHand' = Append(Stream!InHand, x)
  <2>1. CASE taken = NoEvent
    BY <1>1, <2>1 DEF HandsHold
  <2>2. CASE taken # NoEvent
    <3>1. Stream!InHand' = <<taken>> \o Append(channel, x) /\ Stream!InHand = <<taken>> \o channel
          /\ taken \in Stream!Shown
      BY <1>1, <2>2 DEF HandsHold
    <3>2. <<taken>> \in Seq(Stream!Shown)
      BY <3>1
    <3>3. <<taken>> \o Append(channel, x) = Append(<<taken>> \o channel, x)
      BY <1>2, <3>2, AppendInside
    <3> QED
      BY <3>1, <3>3
  <2> QED
    BY <2>1, <2>2
<1>4. Stream!Pushed' = received \o Append(Stream!InHand, x) /\ Stream!Pushed = received \o Stream!InHand
  BY <1>1, <1>3 DEF HandsHold
<1>5. received \o Append(Stream!InHand, x) = Append(received \o Stream!InHand, x)
  BY <1>2, AppendInside
<1> QED
  BY <1>3, <1>4, <1>5

\* What the invariant says, in these terms.
LEMMA StreamParts ==
    Stream!StreamInv <=> /\ StreamShape /\ StreamIsWhole /\ Stream!StreamCounted /\ Stream!StreamEnds
                         /\ Stream!RetryOfItsError /\ Stream!RequestStopped
BY TypesAreShape, WholeIs, Zenon DEF Stream!StreamInv

\* A step that touches neither the events nor the ledger keeps what is said of them.
LEMMA SameHands ==
    ASSUME Stream!StreamInv, UNCHANGED <<channel, ledger, taken, reader, result, offered, received>>
    PROVE  StreamIsWhole' /\ Stream!StreamCounted' /\ Stream!StreamEnds' /\ Stream!RetryOfItsError'
<1>1. Stream!InHand' = Stream!InHand
  BY DEF Stream!InHand
<1>2. Stream!Pushed' = Stream!Pushed
  BY <1>1 DEF Stream!Pushed
<1>3. StreamIsWhole /\ Stream!StreamCounted /\ Stream!StreamEnds /\ Stream!RetryOfItsError
  BY StreamParts
<1>4. StreamIsWhole'
  BY <1>2, <1>3 DEF StreamIsWhole
<1>5. Stream!StreamCounted'
  BY <1>1, <1>3 DEF Stream!StreamCounted, Stream!Texts, Stream!Total, Stream!Amount, Stream!Ones, Stream!Weights
<1>6. Stream!StreamEnds' /\ Stream!RetryOfItsError'
  BY <1>3 DEF Stream!StreamEnds, Stream!RetryOfItsError
<1> QED
  BY <1>4, <1>5, <1>6

\* Sending an event keeps the invariant: it is refused, becomes the overflow, or is pushed.
LEMMA EventPushed ==
    ASSUME Stream!StreamInv, StreamShape', NEW s \in Sender, Stream!Push(s)
    PROVE  Stream!StreamInv'
<1>0. /\ StreamShape /\ StreamIsWhole /\ Stream!StreamCounted /\ Stream!StreamEnds
      /\ Stream!RetryOfItsError /\ Stream!RequestStopped
  BY StreamParts
<1> DEFINE e == sender[s]
<1>1. /\ e \in Stream!Event /\ e \in Stream!Shown /\ "overflow" \in Stream!Shown
      /\ UNCHANGED <<taken, reader, result, received>>
  BY DEF Stream!Push, Stream!Shown
<1>2. CASE UNCHANGED <<channel, ledger, task, offered>>
  <2>1. StreamIsWhole' /\ Stream!StreamCounted' /\ Stream!StreamEnds' /\ Stream!RetryOfItsError'
    BY <1>1, <1>2, SameHands
  <2>2. Stream!RequestStopped'
    BY <1>0, <1>1, <1>2 DEF Stream!RequestStopped
  <2> QED
    BY <2>1, <2>2, StreamParts, PTL
<1>3. ASSUME ~ledger.terminal, NEW x \in Stream!Shown, channel' = Stream!Arrive(x), offered' = Append(offered, e),
             reader = "open" => x = IF ledger'.overflowed THEN "overflow" ELSE e,
             ledger'.terminal <=> Stream!IsTerminal(x),
             result = "none" /\ reader = "open" => (ledger'.failure <=> x = "lost"),
             ledger'.events <= MaxWaiting, ledger'.weight <= MaxWeight,
             ledger'.events = ledger.events + Stream!Ones[x],
             ledger'.weight = ledger.weight + Stream!Weight(x),
             Stream!RequestStopped'
      PROVE  Stream!StreamInv'
  <2>1. CASE reader = "open"
    <3>1. channel' = Append(channel, x)
      BY <1>3, <2>1 DEF Stream!Arrive
    <3>2. Stream!InHand' = Append(Stream!InHand, x) /\ Stream!Pushed' = Append(Stream!Pushed, x)
      BY <1>0, <1>1, <3>1, HandsAppended
    <3>3. Stream!InHand \in Seq(Stream!Shown) /\ Stream!Pushed \in Seq(Stream!Shown)
      BY <1>0, HandsAre DEF HandsHold
    <3>4. offered \in Seq(Stream!Event) /\ ledger \in Ledgers
      BY <1>0 DEF StreamShape
    <3>5. Whole(Stream!Pushed, offered, ledger, result)
      BY <1>0, <2>1 DEF StreamIsWhole
    <3>6. Whole(Append(Stream!Pushed, x), Append(offered, e), ledger', result)
      <4>1. /\ result = "none" => (ledger'.failure <=> x = "lost")
            /\ x = IF ledger'.overflowed THEN "overflow" ELSE e
        BY <1>3, <2>1
      <4> HIDE DEF e
      <4> QED
        BY ONLY <1>1, <1>3, <3>3, <3>4, <3>5, <4>1, WholeAppended
    <3>7. StreamIsWhole'
      BY <1>1, <1>3, <2>1, <3>2, <3>6 DEF StreamIsWhole
    <3> HIDE DEF e
    <3>8. /\ Stream!Amount(Stream!InHand', Stream!Ones) = Stream!Amount(Stream!InHand, Stream!Ones) + Stream!Ones[x]
          /\ Stream!Amount(Stream!InHand', Stream!Weights) = Stream!Amount(Stream!InHand, Stream!Weights) + Stream!Weights[x]
          /\ Stream!Amount(Stream!InHand, Stream!Ones) \in Nat
          /\ Stream!Amount(Stream!InHand, Stream!Weights) \in Nat
      BY <3>2, <3>3, WeightsOf, AmountWithLast
    <3>9. Stream!Weights[x] = Stream!Weight(x) /\ Stream!Weights[x] \in Nat /\ Stream!Ones[x] \in Nat
      BY WeightsOf
    <3>10. ledger.events \in Nat /\ ledger.weight \in Nat
      BY <3>4 DEF Ledgers
    <3>11. Stream!StreamCounted'
      <4>1. Stream!Amount(Stream!InHand', Stream!Ones) <= ledger'.events
        BY <1>0, <1>3, <3>8, <3>9, <3>10 DEF Stream!StreamCounted, Stream!Texts
      <4>2. Stream!Amount(Stream!InHand', Stream!Weights) <= ledger'.weight
        BY <1>0, <1>3, <3>8, <3>9, <3>10 DEF Stream!StreamCounted, Stream!Total
      <4>3. (Stream!Texts(Stream!InHand))' = Stream!Amount(Stream!InHand', Stream!Ones)
            /\ (Stream!Total(Stream!InHand))' = Stream!Amount(Stream!InHand', Stream!Weights)
        BY DEF Stream!Texts, Stream!Total, Stream!Amount, Stream!Ones, Stream!Weights
      <4> QED
        BY <1>3, <4>1, <4>2, <4>3 DEF Stream!StreamCounted
    <3>12. Stream!StreamEnds' /\ Stream!RetryOfItsError'
      BY <1>0, <1>1, <1>3 DEF Stream!StreamEnds, Stream!RetryOfItsError
    <3> QED
      BY <1>3, <3>7, <3>11, <3>12, StreamParts, PTL
  <2>2. CASE reader # "open"
    <3>1. channel' = channel
      BY <1>3, <2>2 DEF Stream!Arrive
    <3>2. Stream!InHand' = Stream!InHand
      BY <1>1, <3>1 DEF Stream!InHand
    <3>3. StreamIsWhole'
      BY <1>0, <1>1, <2>2, <3>1 DEF StreamIsWhole
    <3>4. (Stream!Texts(Stream!InHand))' = Stream!Texts(Stream!InHand)
          /\ (Stream!Total(Stream!InHand))' = Stream!Total(Stream!InHand)
      BY <3>2 DEF Stream!Texts, Stream!Total, Stream!Amount, Stream!Ones, Stream!Weights
    <3>5. Stream!InHand \in Seq(Stream!Shown)
      BY <1>0, HandsAre DEF HandsHold
    <3>6. Stream!Texts(Stream!InHand) \in Nat /\ Stream!Total(Stream!InHand) \in Nat
      BY <3>5, WeighedIsFinite, AmountIsWeighed DEF Stream!Texts, Stream!Total
    <3>7. Stream!Weight(x) \in Nat /\ Stream!Ones[x] \in Nat /\ ledger.events \in Nat /\ ledger.weight \in Nat
      BY <1>0, WeightsOf DEF StreamShape, Ledgers
    <3>8. Stream!StreamCounted'
      BY <1>0, <1>3, <3>4, <3>6, <3>7, StreamConstants DEF Stream!StreamCounted
    <3>9. Stream!StreamEnds' /\ Stream!RetryOfItsError'
      BY <1>0, <1>1, <1>3 DEF Stream!StreamEnds, Stream!RetryOfItsError
    <3> QED
      BY <1>3, <3>3, <3>8, <3>9, StreamParts, PTL
  <2> QED
    BY <2>1, <2>2
<1>l. ledger \in Ledgers /\ ledger.events \in Nat /\ ledger.weight \in Nat
  BY <1>0 DEF StreamShape, Ledgers
<1>o. reader = "open" /\ ~ledger.terminal => ~ledger.overflowed /\ (result = "none" => ~ledger.failure)
  <2>1. Stream!Pushed \in Seq(Stream!Shown)
    BY <1>0, HandsAre DEF HandsHold
  <2> QED
    BY <1>0, <1>l, <2>1, LiveStream DEF StreamIsWhole
<1>4. CASE /\ ~Stream!Ended(ledger) /\ Stream!TooMuch(ledger, e)
           /\ ledger' = Stream!Overflowed(ledger) /\ channel' = Stream!Arrive("overflow")
           /\ task' = IF task = "bound" THEN "aborted" ELSE task
           /\ offered' = Append(offered, e)
  <2>1. /\ ledger'.events = ledger.events /\ ledger'.weight = ledger.weight
        /\ ledger'.terminal = TRUE /\ ledger'.overflowed = TRUE /\ ledger'.failure = ledger.failure
    BY <1>l, <1>4 DEF Stream!Overflowed, Ledgers
  <2>2. Stream!Weight("overflow") = 0 /\ Stream!Ones["overflow"] = 0 /\ Stream!IsTerminal("overflow")
    BY <1>1, WeightsOf DEF Stream!Weight, Stream!IsTerminal
  <2>3. ~ledger.terminal
    BY <1>4 DEF Stream!Ended
  <2>4. Stream!RequestStopped'
    BY <1>0, <1>1, <1>4 DEF Stream!RequestStopped, StreamShape
  <2>5. ledger'.events <= MaxWaiting /\ ledger'.weight <= MaxWeight
    BY <1>0, <2>1 DEF Stream!StreamCounted
  <2>6. result = "none" /\ reader = "open" => (ledger'.failure <=> "overflow" = "lost")
    BY <1>o, <2>1, <2>3
  <2> HIDE DEF e
  <2> QED
    BY <1>1, <1>3, <1>4, <1>l, <2>1, <2>2, <2>3, <2>4, <2>5, <2>6
<1>5. CASE /\ ~Stream!Ended(ledger) /\ ~Stream!TooMuch(ledger, e)
           /\ ledger' = [ledger EXCEPT !.events = @ + 1, !.weight = @ + Stream!Weight(e),
                                       !.terminal = Stream!IsTerminal(e), !.failure = (e = "lost")]
           /\ channel' = Stream!Arrive(e) /\ offered' = Append(offered, e) /\ UNCHANGED task
  <2>1. /\ ledger'.events = ledger.events + 1 /\ ledger'.weight = ledger.weight + Stream!Weight(e)
        /\ ledger'.terminal = Stream!IsTerminal(e) /\ ledger'.overflowed = ledger.overflowed
        /\ ledger'.failure = (e = "lost")
    BY <1>l, <1>5 DEF Ledgers
  <2>2. Stream!Ones[e] = 1 /\ Stream!Weight(e) \in Nat
    <3>1. e # "overflow"
      BY <1>1 DEF Stream!Event
    <3> HIDE DEF e
    <3> QED
      BY <1>1, <3>1, WeightsOf
  <2>3. ~ledger.terminal
    BY <1>5 DEF Stream!Ended
  <2>4. Stream!RequestStopped'
    BY <1>0, <1>1, <1>5, <2>1 DEF Stream!RequestStopped
  <2>5. ledger'.events <= MaxWaiting /\ ledger'.weight <= MaxWeight
    BY <1>5, <1>l, <2>1, <2>2, StreamConstants DEF Stream!TooMuch
  <2>6. reader = "open" => e = IF ledger'.overflowed THEN "overflow" ELSE e
    BY <1>o, <2>1, <2>3
  <2>7. (result = "none" /\ reader = "open" => (ledger'.failure <=> e = "lost"))
        /\ (ledger'.terminal <=> Stream!IsTerminal(e))
    BY <2>1
  <2>8. ledger'.events = ledger.events + Stream!Ones[e]
    BY <2>1, <2>2
  <2> HIDE DEF e
  <2> QED
    BY <1>1, <1>3, <1>5, <2>1, <2>3, <2>4, <2>5, <2>6, <2>7, <2>8
<1> QED
  BY <1>2, <1>4, <1>5 DEF Stream!Push

\* Receiving moves an event from the channel into the hand.
LEMMA EventReceived ==
    ASSUME Stream!StreamInv, StreamShape', Stream!Receive
    PROVE  Stream!StreamInv'
<1>0. /\ StreamShape /\ StreamIsWhole /\ Stream!StreamCounted /\ Stream!StreamEnds
      /\ Stream!RetryOfItsError /\ Stream!RequestStopped
  BY StreamParts
<1>1. /\ taken = NoEvent /\ channel # <<>> /\ reader = "open" /\ result = "none"
      /\ taken' = Head(channel) /\ channel' = Tail(channel)
      /\ UNCHANGED <<ledger, sender, reader, task, result, offered, received>>
  BY DEF Stream!Receive, Stream!Reading
<1>2. HandsHold /\ HandsHold' /\ channel \in Seq(Stream!Shown)
  BY <1>0, HandsAre, PTL DEF StreamShape
<1>3. Head(channel) \in Stream!Shown /\ Tail(channel) \in Seq(Stream!Shown)
  BY <1>1, <1>2, HeadTailProperties
<1>4. taken' # NoEvent
  BY <1>1, <1>3, StreamConstants DEF Stream!Shown
<1>5. Stream!InHand' = <<Head(channel)>> \o Tail(channel) /\ Stream!InHand = channel
  BY <1>1, <1>2, <1>4 DEF HandsHold
<1>6. <<Head(channel)>> \o Tail(channel) = channel
  <2> DEFINE h == <<Head(channel)>>
             t == Tail(channel)
  <2>1. h \in Seq(Stream!Shown) /\ Len(h) = 1 /\ h[1] = Head(channel)
    BY <1>3
  <2>2. /\ t \in Seq(Stream!Shown) /\ Len(t) = Len(channel) - 1
        /\ \A i \in 1..Len(t) : t[i] = channel[i + 1]
    BY <1>1, <1>2, HeadTailProperties
  <2>3. /\ h \o t \in Seq(Stream!Shown) /\ Len(h \o t) = Len(h) + Len(t)
        /\ \A i \in 1..(Len(h) + Len(t)) : (h \o t)[i] = IF i <= Len(h) THEN h[i] ELSE t[i - Len(h)]
    BY <2>1, <2>2, ConcatProperties
  <2>4. Len(channel) \in Nat \ {0} /\ Head(channel) = channel[1]
    BY <1>1, <1>2, EmptySeq
  <2> HIDE DEF h, t
  <2>5. Len(h \o t) = Len(channel)
    BY <2>1, <2>2, <2>3, <2>4
  <2>6. \A i \in 1..Len(channel) : (h \o t)[i] = channel[i]
    <3> SUFFICES ASSUME NEW i \in 1..Len(channel) PROVE (h \o t)[i] = channel[i]
      OBVIOUS
    <3>1. CASE i = 1
      BY <2>1, <2>2, <2>3, <2>4, <3>1
    <3>2. CASE i # 1
      <4>1. i - 1 \in 1..Len(t) /\ i \in 1..(Len(h) + Len(t)) /\ ~(i <= Len(h)) /\ (i - 1) + 1 = i
        BY <2>1, <2>2, <2>4, <3>2
      <4> QED
        BY <2>1, <2>2, <2>3, <4>1
    <3> QED
      BY <3>1, <3>2
  <2>7. h \o t = channel
    BY <1>2, <2>3, <2>5, <2>6, SeqEqual
  <2> QED
    BY <2>7 DEF h, t
<1>7. Stream!InHand' = Stream!InHand
  BY <1>5, <1>6
<1>8. Stream!Pushed' = Stream!Pushed
  BY <1>1, <1>2, <1>7 DEF HandsHold
<1>9. StreamIsWhole'
  BY <1>0, <1>1, <1>8 DEF StreamIsWhole
<1>10. Stream!StreamCounted'
  BY <1>0, <1>1, <1>7 DEF Stream!StreamCounted, Stream!Texts, Stream!Total, Stream!Amount, Stream!Ones, Stream!Weights
<1>11. Stream!StreamEnds' /\ Stream!RetryOfItsError' /\ Stream!RequestStopped'
  BY <1>0, <1>1 DEF Stream!StreamEnds, Stream!RetryOfItsError, Stream!RequestStopped
<1> QED
  BY <1>9, <1>10, <1>11, StreamParts, PTL

\* Where the event that is settled is among those pushed, and what is left without it.
LEMMA HandsSettled ==
    ASSUME StreamShape, StreamShape', Stream!Settle
    PROVE  /\ Stream!Pushed' = Stream!Pushed
           /\ Stream!InHand = <<taken>> \o channel /\ Stream!InHand' = channel /\ taken \in Stream!Shown
           /\ Len(Stream!Pushed) = Len(received) + 1 + Len(channel)
           /\ Stream!Pushed[Len(received) + 1] = taken
           /\ channel = <<>> => Stream!Pushed = received'
<1>1. /\ taken # NoEvent /\ received' = Append(received, taken) /\ taken' = NoEvent /\ channel' = channel
  BY DEF Stream!Settle
<1>2. HandsHold /\ HandsHold'
  BY HandsAre, PTL
<1>3. /\ channel \in Seq(Stream!Shown) /\ received \in Seq(Stream!Shown)
  BY DEF StreamShape
<1>4. /\ Stream!InHand = <<taken>> \o channel /\ taken \in Stream!Shown /\ Stream!InHand' = channel
      /\ Stream!Pushed = received \o Stream!InHand /\ Stream!Pushed' = Append(received, taken) \o channel
  BY <1>1, <1>2 DEF HandsHold
<1>5. <<taken>> \in Seq(Stream!Shown) /\ Len(<<taken>>) = 1 /\ <<taken>>[1] = taken
  BY <1>4
<1>6. Append(received, taken) = received \o <<taken>>
  BY <1>3, <1>4, AppendIsConcat
<1>7. (received \o <<taken>>) \o channel = received \o (<<taken>> \o channel)
  BY <1>3, <1>5, ConcatAssociative
<1>8. Stream!Pushed' = Stream!Pushed /\ Stream!Pushed = Append(received, taken) \o channel
  BY <1>4, <1>6, <1>7
<1>9. /\ Append(received, taken) \in Seq(Stream!Shown) /\ Len(Append(received, taken)) = Len(received) + 1
      /\ Append(received, taken)[Len(received) + 1] = taken /\ Len(received) \in Nat /\ Len(channel) \in Nat
  BY <1>3, <1>4, AppendProperties, LenProperties
<1> DEFINE w == Append(received, taken)
<1> HIDE DEF w
<1>10. /\ Len(w \o channel) = Len(w) + Len(channel)
       /\ \A i \in 1..(Len(w) + Len(channel)) : (w \o channel)[i] = IF i <= Len(w) THEN w[i] ELSE channel[i - Len(w)]
  BY <1>3, <1>9, ConcatProperties DEF w
<1>11. Len(Stream!Pushed) = Len(received) + 1 + Len(channel) /\ Stream!Pushed[Len(received) + 1] = taken
  <2>1. /\ Len(w) = Len(received) + 1 /\ w[Len(received) + 1] = taken /\ Stream!Pushed = w \o channel
    BY <1>8, <1>9 DEF w
  <2>2. Len(received) + 1 \in 1..(Len(w) + Len(channel)) /\ Len(received) + 1 <= Len(w)
    BY <1>9, <2>1
  <2> QED
    BY <1>9, <1>10, <2>1, <2>2
<1>12. channel = <<>> => Stream!Pushed = received'
  BY <1>1, <1>8, <1>9, ConcatEmptySeq
<1> QED
  BY <1>4, <1>8, <1>11, <1>12

\* Giving back the weight of an event ends the stream exactly with its terminal event.
LEMMA EventSettled ==
    ASSUME Stream!StreamInv, StreamShape', Stream!Settle
    PROVE  Stream!StreamInv'
<1>0. /\ StreamShape /\ StreamIsWhole /\ Stream!StreamCounted /\ Stream!StreamEnds
      /\ Stream!RetryOfItsError /\ Stream!RequestStopped
  BY StreamParts
<1>1. /\ taken # NoEvent /\ result' = Stream!Outcome(taken) /\ received' = Append(received, taken)
      /\ taken' = NoEvent /\ UNCHANGED <<channel, sender, reader, task, offered>>
  BY DEF Stream!Settle
<1>2. /\ result = "none" /\ reader = "open"
      /\ \A i \in DOMAIN received : ~Stream!IsTerminal(received[i])
  BY <1>0, <1>1 DEF Stream!StreamEnds, StreamIsWhole, StreamShape
<1>3. /\ ledger'.events = Stream!Less(ledger.events, 1)
      /\ ledger'.weight = Stream!Less(ledger.weight, Stream!Weight(taken))
      /\ ledger'.terminal = ledger.terminal /\ ledger'.overflowed = ledger.overflowed
      /\ ledger'.failure = (ledger.failure /\ taken \notin {"lost", "error", "overflow"})
      /\ ledger.events \in Nat /\ ledger.weight \in Nat /\ ledger.failure \in BOOLEAN
  BY <1>0 DEF Stream!Settle, StreamShape, Ledgers
<1> DEFINE P == Stream!Pushed
           k == Len(received) + 1
           n == Len(P)
<1>4. /\ Stream!Pushed' = P
      /\ Stream!InHand = <<taken>> \o channel /\ Stream!InHand' = channel /\ taken \in Stream!Shown
      /\ n = k + Len(channel) /\ P[k] = taken
      /\ channel = <<>> => P = received'
  BY <1>0, HandsSettled
<1>5. /\ channel \in Seq(Stream!Shown) /\ received \in Seq(Stream!Shown) /\ offered \in Seq(Stream!Event)
      /\ P \in Seq(Stream!Shown)
  BY <1>0, HandsAre DEF StreamShape, HandsHold
<1>6. /\ Len(channel) \in Nat /\ k \in Nat /\ k # 0 /\ n \in Nat
      /\ channel = <<>> <=> Len(channel) = 0
      /\ P # <<>> /\ k \in 1..n
  <2>1. Len(channel) \in Nat /\ Len(received) \in Nat /\ n \in Nat /\ (channel = <<>> <=> Len(channel) = 0)
        /\ (P # <<>> <=> n # 0)
    BY <1>5, LenProperties, EmptySeq
  <2> HIDE DEF P, n
  <2> QED
    BY <1>4, <2>1
<1>7. Whole(P, offered, ledger, "none")
  BY <1>0, <1>2 DEF StreamIsWhole
<1> HIDE DEF P, k
<1>8. /\ n = Len(offered)
      /\ \A i \in 1..n : i < n => P[i] = offered[i] /\ ~Stream!IsTerminal(P[i])
      /\ P[n] = IF ledger.overflowed THEN "overflow" ELSE offered[n]
      /\ ledger.terminal <=> Stream!IsTerminal(P[n])
      /\ ledger.failure <=> P[n] = "lost"
  BY <1>6, <1>7 DEF Whole
<1> HIDE DEF n
\* A terminal event is the last there is.
<1>9. ASSUME Stream!IsTerminal(taken) PROVE k = n /\ channel = <<>>
  <2>1. n = k + Len(channel) /\ P[k] = taken
    BY <1>4
  <2>2. ~(k < n)
    BY <1>6, <1>8, <1>9, <2>1
  <2>3. k = n /\ Len(channel) = 0
    BY <1>6, <2>1, <2>2
  <2> QED
    BY <1>6, <2>3
<1>10. ASSUME ~Stream!IsTerminal(taken)
       PROVE StreamIsWhole' /\ Stream!StreamEnds' /\ Stream!RetryOfItsError'
  <2>1. result' = "none" /\ ledger'.failure = ledger.failure
    BY <1>1, <1>3, <1>4, <1>10 DEF Stream!Outcome, Stream!IsTerminal
  <2>2. StreamIsWhole'
    <3>1. Whole(P, offered, ledger', "none")
      BY <1>3, <1>6, <1>7, <2>1 DEF Whole
    <3> QED
      BY <1>1, <1>2, <1>4, <2>1, <3>1 DEF StreamIsWhole
  <2>3. \A i \in DOMAIN received' : ~Stream!IsTerminal(received'[i])
    <3>1. /\ DOMAIN received = 1..Len(received) /\ DOMAIN received' = 1..(Len(received) + 1) /\ Len(received) \in Nat
          /\ \A i \in 1..Len(received) : received'[i] = received[i]
          /\ received'[Len(received) + 1] = taken
      BY <1>1, <1>4, <1>5, AppendProperties, LenProperties
    <3> QED
      BY <1>2, <1>10, <3>1
  <2>4. Stream!StreamEnds' /\ Stream!RetryOfItsError'
    BY <2>1, <2>3 DEF Stream!StreamEnds, Stream!RetryOfItsError
  <2> QED
    BY <2>2, <2>4
<1>11. ASSUME Stream!IsTerminal(taken)
       PROVE StreamIsWhole' /\ Stream!StreamEnds' /\ Stream!RetryOfItsError'
  <2>1. channel = <<>> /\ k = n /\ taken = P[n] /\ P = received' /\ ledger.terminal
    BY <1>4, <1>8, <1>9, <1>11
  <2>2. result' = IF taken = "done" THEN "response" ELSE IF taken = "lost" THEN "retry" ELSE "failure"
    BY <1>1, <1>8, <1>11, <2>1 DEF Stream!Outcome, Stream!IsTerminal
  <2>3. StreamIsWhole'
    <3>1. Whole(P, offered, ledger', result')
      BY <1>3, <1>6, <1>7, <2>2 DEF Whole
    <3> QED
      BY <1>1, <1>2, <1>4, <3>1 DEF StreamIsWhole
  <2>4. result' = "response" => received' = offered
    <3> SUFFICES ASSUME taken = "done" PROVE P = offered
      BY <2>1, <2>2
    <3>1. ~ledger.overflowed /\ P[n] = offered[n]
      BY <1>8, <2>1
    <3>2. \A i \in 1..n : P[i] = offered[i]
      BY <1>6, <1>8, <3>1
    <3>3. offered \in Seq(Stream!Shown)
      BY <1>5, SeqMonotonic DEF Stream!Shown
    <3> QED
      BY <1>5, <1>8, <3>2, <3>3, SeqEqual DEF n
  <2>5. Stream!StreamEnds'
    BY <1>1, <1>3, <2>1, <2>2, <2>4 DEF Stream!StreamEnds
  <2>6. Stream!RetryOfItsError'
    <3>1. received' # <<>> /\ Stream!Last(received') = taken
      BY <1>6, <2>1 DEF Stream!Last, n
    <3>2. "lost" # "overflow"
      OBVIOUS
    <3> QED
      BY <1>11, <2>2, <3>1 DEF Stream!RetryOfItsError
  <2> QED
    BY <2>3, <2>5, <2>6
<1>12. Stream!RequestStopped'
  BY <1>0, <1>1, <1>3 DEF Stream!RequestStopped
<1>13. Stream!StreamCounted'
  <2>1. /\ Stream!Amount(<<taken>> \o channel, Stream!Ones) = Stream!Ones[taken] + Stream!Amount(channel, Stream!Ones)
        /\ Stream!Amount(<<taken>> \o channel, Stream!Weights) = Stream!Weights[taken] + Stream!Amount(channel, Stream!Weights)
        /\ Stream!Amount(channel, Stream!Ones) \in Nat /\ Stream!Amount(channel, Stream!Weights) \in Nat
    BY <1>4, <1>5, WeightsOf, AmountWithFirst
  <2>2. Stream!Weights[taken] = Stream!Weight(taken) /\ Stream!Weights[taken] \in Nat
        /\ Stream!Ones[taken] = IF taken = "overflow" THEN 0 ELSE 1
    BY <1>4, WeightsOf
  <2>3. /\ ledger.events <= MaxWaiting /\ ledger.weight <= MaxWeight
        /\ Stream!Amount(<<taken>> \o channel, Stream!Ones) <= ledger.events
        /\ Stream!Amount(<<taken>> \o channel, Stream!Weights) <= ledger.weight
    BY <1>0, <1>4 DEF Stream!StreamCounted, Stream!Texts, Stream!Total
  <2>4. (Stream!Texts(Stream!InHand))' = Stream!Amount(channel, Stream!Ones)
        /\ (Stream!Total(Stream!InHand))' = Stream!Amount(channel, Stream!Weights)
    BY <1>4 DEF Stream!Texts, Stream!Total, Stream!Amount, Stream!Ones, Stream!Weights
  \* Only the overflow is not counted; with it the channel is empty.
  <2>5. Stream!Amount(channel, Stream!Ones) <= ledger'.events
    <3>1. CASE taken = "overflow"
      <4>1. channel = <<>>
        BY <1>9, <3>1 DEF Stream!IsTerminal
      <4>2. Stream!Amount(channel, Stream!Ones) = 0
        BY <4>1, NothingWeighsNothing
      <4>3. ledger'.events \in Nat
        BY <1>3 DEF Stream!Less
      <4> QED
        BY <4>2, <4>3
    <3>2. CASE taken # "overflow"
      BY <1>3, <2>1, <2>2, <2>3, <3>2 DEF Stream!Less
    <3> QED
      BY <3>1, <3>2
  <2>6. Stream!Amount(channel, Stream!Weights) <= ledger'.weight
    BY <1>3, <2>1, <2>2, <2>3 DEF Stream!Less
  <2>7. ledger'.events <= MaxWaiting /\ ledger'.weight <= MaxWeight
    BY <1>3, <2>2, <2>3, StreamConstants DEF Stream!Less
  <2> QED
    BY <2>4, <2>5, <2>6, <2>7 DEF Stream!StreamCounted
<1> QED
  BY <1>10, <1>11, <1>12, <1>13, StreamParts, PTL

\* Senders that look or leave, the binding of the task, the end and the drop of the stream.
LEMMA StreamGoesOn ==
    ASSUME Stream!StreamInv, StreamShape',
           \/ \E s \in Sender, e \in Stream!Event : Stream!Offer(s, e)
           \/ \E s \in Sender : Stream!Leave(s)
           \/ Stream!Bind \/ Stream!Close \/ Stream!DropStream
    PROVE  Stream!StreamInv'
<1>0. /\ StreamShape /\ StreamIsWhole /\ Stream!StreamCounted /\ Stream!StreamEnds
      /\ Stream!RetryOfItsError /\ Stream!RequestStopped
  BY StreamParts
<1>1. CASE /\ UNCHANGED <<channel, ledger, taken, reader, result, offered, received>>
           /\ task' = task \/ (task' = Stream!Bound(ledger) /\ reader = "open")
  <2>1. StreamIsWhole' /\ Stream!StreamCounted' /\ Stream!StreamEnds' /\ Stream!RetryOfItsError'
    BY <1>1, SameHands
  <2>2. Stream!RequestStopped'
    BY <1>0, <1>1 DEF Stream!RequestStopped, Stream!Bound
  <2> QED
    BY <2>1, <2>2, StreamParts, PTL
<1>2. CASE Stream!Close
  <2>1. /\ reader = "open" /\ result = "none" /\ taken = NoEvent /\ result' = "retry"
        /\ UNCHANGED <<channel, ledger, sender, taken, reader, task, offered, received>>
    BY <1>2 DEF Stream!Close, Stream!Reading
  <2>2. Stream!InHand' = Stream!InHand
    BY <2>1 DEF Stream!InHand
  <2>3. Stream!Pushed' = Stream!Pushed
    BY <2>1, <2>2 DEF Stream!Pushed
  <2>4. StreamIsWhole'
    <3>1. Whole(Stream!Pushed, offered, ledger, result)
      BY <1>0, <2>1 DEF StreamIsWhole
    <3>2. Whole(Stream!Pushed, offered, ledger, "retry")
      BY <2>1, <3>1 DEF Whole
    <3> QED
      BY <2>1, <2>3, <3>2 DEF StreamIsWhole
  <2>5. Stream!StreamCounted'
    BY <1>0, <2>1, <2>2 DEF Stream!StreamCounted, Stream!Texts, Stream!Total, Stream!Amount, Stream!Ones, Stream!Weights
  <2>6. \A i \in DOMAIN received : ~Stream!IsTerminal(received[i])
    BY <1>0, <2>1 DEF Stream!StreamEnds
  <2>7. Stream!StreamEnds' /\ Stream!RequestStopped'
    BY <1>0, <2>1 DEF Stream!StreamEnds, Stream!RequestStopped
  <2>8. received # <<>> => ~Stream!IsTerminal(Stream!Last(received)) /\ Stream!Last(received) # "lost"
    <3> SUFFICES ASSUME received # <<>>
                 PROVE  ~Stream!IsTerminal(Stream!Last(received)) /\ Stream!Last(received) # "lost"
      OBVIOUS
    <3>1. received \in Seq(Stream!Shown)
      BY <1>0 DEF StreamShape
    <3>2. Len(received) \in DOMAIN received
      BY <3>1, LenProperties, EmptySeq
    <3>3. ~Stream!IsTerminal(received[Len(received)])
      BY <2>6, <3>2
    <3> QED
      BY <3>3 DEF Stream!Last, Stream!IsTerminal
  <2>9. Stream!RetryOfItsError'
    BY <2>1, <2>8 DEF Stream!RetryOfItsError, Stream!IsTerminal
  <2> QED
    BY <2>4, <2>5, <2>7, <2>9, StreamParts, PTL
<1>3. CASE Stream!DropStream
  <2>1. /\ reader' = "dropped" /\ channel' = <<>> /\ taken = NoEvent
        /\ task' = IF task = "loose" THEN task ELSE "aborted"
        /\ UNCHANGED <<ledger, sender, taken, result, offered, received>>
    BY <1>3 DEF Stream!DropStream
  <2>2. StreamIsWhole'
    BY <2>1 DEF StreamIsWhole
  <2>3. Stream!InHand' = <<>>
    <3>1. HandsHold'
      BY HandsAre, PTL
    <3> QED
      BY <2>1, <3>1 DEF HandsHold
  <2>4. (Stream!Texts(Stream!InHand))' = 0 /\ (Stream!Total(Stream!InHand))' = 0
    <3>1. (Stream!Texts(Stream!InHand))' = Stream!Amount(Stream!InHand', Stream!Ones)
          /\ (Stream!Total(Stream!InHand))' = Stream!Amount(Stream!InHand', Stream!Weights)
      BY DEF Stream!Texts, Stream!Total, Stream!Amount, Stream!Ones, Stream!Weights
    <3> QED
      BY <2>3, <3>1, NothingWeighsNothing
  <2>5. Stream!StreamCounted'
    <3>1. ledger.events \in Nat /\ ledger.weight \in Nat
      BY <1>0 DEF StreamShape, Ledgers
    <3> QED
      BY <1>0, <2>1, <2>4, <3>1 DEF Stream!StreamCounted
  <2>6. Stream!StreamEnds' /\ Stream!RetryOfItsError'
    BY <1>0, <2>1 DEF Stream!StreamEnds, Stream!RetryOfItsError
  <2>7. Stream!RequestStopped'
    BY <2>1 DEF Stream!RequestStopped
  <2> QED
    BY <2>2, <2>5, <2>6, <2>7, StreamParts, PTL
<1>4. (\E s \in Sender, e \in Stream!Event : Stream!Offer(s, e)) \/ (\E s \in Sender : Stream!Leave(s))
        => UNCHANGED <<channel, ledger, taken, reader, result, offered, received>> /\ task' = task
  BY DEF Stream!Offer, Stream!Leave
<1>5. Stream!Bind => /\ UNCHANGED <<channel, ledger, taken, reader, result, offered, received>>
                     /\ task' = Stream!Bound(ledger) /\ reader = "open"
  BY DEF Stream!Bind
<1> QED
  BY <1>1, <1>2, <1>3, <1>4, <1>5

\* Every step of a model stream keeps StreamInv.
LEMMA StreamStep ==
    ASSUME Stream!StreamInv, Stream!Next \/ UNCHANGED streamVars
    PROVE  Stream!StreamInv'
<1>0. /\ StreamShape /\ StreamIsWhole /\ Stream!StreamCounted /\ Stream!StreamEnds
      /\ Stream!RetryOfItsError /\ Stream!RequestStopped
  BY StreamParts
<1>1. CASE UNCHANGED streamVars
  <2>1. UNCHANGED <<channel, ledger, sender, taken, reader, task, result, offered, received>>
    BY <1>1 DEF streamVars
  <2>2. StreamShape' /\ Stream!RequestStopped'
    BY <1>0, <2>1 DEF StreamShape, Stream!RequestStopped
  <2>3. StreamIsWhole' /\ Stream!StreamCounted' /\ Stream!StreamEnds' /\ Stream!RetryOfItsError'
    BY <2>1, SameHands
  <2> QED
    BY <2>2, <2>3, StreamParts, PTL
<1>2. CASE Stream!Next
  <2>1. StreamShape'
    BY <1>0, <1>2, StreamTyped
  <2> QED
    BY <1>2, <2>1, EventPushed, EventReceived, EventSettled, StreamGoesOn DEF Stream!Next
<1> QED
  BY <1>1, <1>2

\* The channel is part of what is in hand, which is counted.
LEMMA WaitingIsBounded ==
    Stream!StreamInv => Stream!PendingBounded
<1> SUFFICES ASSUME Stream!StreamInv PROVE Stream!PendingBounded
  OBVIOUS
<1>1. StreamShape /\ Stream!StreamCounted
  BY StreamParts
<1>2. HandsHold /\ channel \in Seq(Stream!Shown) /\ ledger.events \in Nat /\ ledger.weight \in Nat
  BY <1>1, HandsAre DEF StreamShape, Ledgers
<1>3. /\ ledger.events <= MaxWaiting /\ ledger.weight <= MaxWeight
      /\ Stream!Amount(Stream!InHand, Stream!Ones) <= ledger.events
      /\ Stream!Amount(Stream!InHand, Stream!Weights) <= ledger.weight
  BY <1>1 DEF Stream!StreamCounted, Stream!Texts, Stream!Total
<1>4. Stream!Amount(channel, Stream!Ones) \in Nat /\ Stream!Amount(channel, Stream!Weights) \in Nat
  BY <1>2, WeighedIsFinite, AmountIsWeighed
<1>5. /\ Stream!Amount(channel, Stream!Ones) <= Stream!Amount(Stream!InHand, Stream!Ones)
      /\ Stream!Amount(channel, Stream!Weights) <= Stream!Amount(Stream!InHand, Stream!Weights)
      /\ Stream!Amount(Stream!InHand, Stream!Ones) \in Nat /\ Stream!Amount(Stream!InHand, Stream!Weights) \in Nat
  <2>1. CASE taken = NoEvent
    BY <1>2, <1>4, <2>1 DEF HandsHold
  <2>2. CASE taken # NoEvent
    <3>1. Stream!InHand = <<taken>> \o channel /\ taken \in Stream!Shown
      BY <1>2, <2>2 DEF HandsHold
    <3>2. Stream!Weights[taken] \in Nat /\ Stream!Ones[taken] \in Nat
      BY <3>1, WeightsOf
    <3>3. /\ Stream!Amount(Stream!InHand, Stream!Ones) = Stream!Ones[taken] + Stream!Amount(channel, Stream!Ones)
          /\ Stream!Amount(Stream!InHand, Stream!Weights) = Stream!Weights[taken] + Stream!Amount(channel, Stream!Weights)
      BY <1>2, <3>1, WeightsOf, AmountWithFirst
    <3> QED
      BY <1>4, <3>2, <3>3
  <2> QED
    BY <2>1, <2>2
<1> QED
  BY <1>2, <1>3, <1>4, <1>5, StreamConstants DEF Stream!PendingBounded, Stream!Texts, Stream!Total

\* A stream that has not ended holds all that was offered, or ends with the overflow.
LEMMA NothingIsLost ==
    Stream!StreamInv => Stream!NoSilentLoss
<1> SUFFICES ASSUME Stream!StreamInv PROVE Stream!NoSilentLoss
  OBVIOUS
<1>1. StreamShape /\ StreamIsWhole /\ Stream!StreamEnds
  BY StreamParts
<1>2. /\ HandsHold /\ channel \in Seq(Stream!Shown) /\ received \in Seq(Stream!Shown)
      /\ offered \in Seq(Stream!Event) /\ offered \in Seq(Stream!Shown)
  BY <1>1, HandsAre, SeqMonotonic DEF StreamShape, Stream!Shown
<1>3. result = "response" => received = offered
  BY <1>1 DEF Stream!StreamEnds
<1>4. ASSUME result = "none", reader = "open"
      PROVE  \/ received \o (IF taken = NoEvent THEN <<>> ELSE <<taken>>) \o channel = offered
             \/ ledger.overflowed /\ Stream!Last(<<taken>> \o channel) = "overflow"
  <2> DEFINE P == Stream!Pushed
             n == Len(P)
             hand == IF taken = NoEvent THEN <<>> ELSE <<taken>>
  <2>1. P \in Seq(Stream!Shown) /\ n \in Nat /\ (P # <<>> <=> n # 0)
    BY <1>2, LenProperties, EmptySeq DEF HandsHold
  <2>2. Whole(P, offered, ledger, result)
    BY <1>1, <1>4 DEF StreamIsWhole
  <2>3. received \o hand \o channel = P
    <3>1. hand \in Seq(Stream!Shown)
      BY <1>2, EmptySeq DEF HandsHold
    <3>2. (received \o hand) \o channel = received \o (hand \o channel)
      <4> HIDE DEF hand, P
      <4> QED
        BY <1>2, <3>1, ConcatAssociative
    <3>3. Stream!InHand = hand \o channel
      BY Zenon DEF Stream!InHand
    <3> QED
      BY <3>2, <3>3 DEF Stream!Pushed
  <2>4. CASE ~ledger.overflowed
    <3>1. \A i \in 1..n : P[i] = offered[i]
      <4> SUFFICES ASSUME NEW i \in 1..n PROVE P[i] = offered[i]
        OBVIOUS
      <4> HIDE DEF P
      <4>1. CASE i < n
        BY <2>2, <4>1 DEF Whole
      <4>2. CASE i = n
        <5>1. P # <<>>
          BY <2>1, <4>2
        <5> QED
          BY <2>2, <2>4, <4>2, <5>1 DEF Whole
      <4> QED
        BY <2>1, <4>1, <4>2
    <3>2. Len(P) = Len(offered)
      BY <2>2 DEF Whole
    <3>3. P = offered
      BY <1>2, <2>1, <3>1, <3>2, SeqEqual
    <3> QED
      BY <2>3, <3>3
  <2>5. CASE ledger.overflowed
    <3> HIDE DEF P
    <3>1. P # <<>> /\ P[n] = "overflow"
      BY <2>2, <2>5 DEF Whole
    <3>2. \A i \in DOMAIN received : ~Stream!IsTerminal(received[i])
      BY <1>1, <1>4 DEF Stream!StreamEnds
    <3>3. Stream!IsTerminal("overflow")
      BY DEF Stream!IsTerminal
    <3> DEFINE h == Stream!InHand
    <3>4. /\ P = received \o h /\ h \in Seq(Stream!Shown)
          /\ taken = NoEvent => h = channel
          /\ taken # NoEvent => h = <<taken>> \o channel /\ taken \in Stream!Shown
      BY <1>2 DEF HandsHold, P
    <3> HIDE DEF h
    <3>5. /\ n = Len(received) + Len(h) /\ Len(received) \in Nat /\ Len(h) \in Nat /\ DOMAIN received = 1..Len(received)
          /\ \A i \in 1..(Len(received) + Len(h)) : P[i] = IF i <= Len(received) THEN received[i] ELSE h[i - Len(received)]
      BY <1>2, <3>4, ConcatProperties, LenProperties
    <3>6. Len(h) # 0 /\ h[Len(h)] = "overflow"
      <4>1. n \in 1..(Len(received) + Len(h))
        BY <2>1, <3>1, <3>5
      <4>2. ~(n <= Len(received))
        BY <2>1, <3>1, <3>2, <3>3, <3>5, <4>1
      <4> QED
        BY <3>1, <3>5, <4>1, <4>2
    <3>7. CASE taken # NoEvent
      BY <2>5, <3>4, <3>6, <3>7 DEF Stream!Last
    <3>8. CASE taken = NoEvent
      <4>1. Len(channel) \in Nat \ {0} /\ channel[Len(channel)] = "overflow"
        BY <3>4, <3>5, <3>6, <3>8
      <4>2. /\ <<taken>> \in Seq(Stream!Shown \cup {NoEvent}) /\ channel \in Seq(Stream!Shown \cup {NoEvent})
            /\ Len(<<taken>>) = 1
        BY <1>2, <3>8, SeqMonotonic
      <4>3. /\ Len(<<taken>> \o channel) = 1 + Len(channel)
            /\ \A i \in 1..(1 + Len(channel)) : (<<taken>> \o channel)[i] = IF i <= 1 THEN <<taken>>[i] ELSE channel[i - 1]
        BY <4>2, ConcatProperties
      <4>4. (<<taken>> \o channel)[1 + Len(channel)] = channel[Len(channel)]
        BY <4>1, <4>3
      <4> QED
        BY <2>5, <4>1, <4>3, <4>4 DEF Stream!Last
    <3> QED
      BY <3>7, <3>8
  <2> QED
    BY <2>4, <2>5
<1> QED
  BY <1>3, <1>4 DEF Stream!NoSilentLoss
------------------------------------------------------------------------------
(* The parts together.                                                     *)

\* The inductive invariant: that of the component this behaviour is one of.
PartsInv ==
    /\ part = "history" => History!IndexInv
    /\ part = "memory" => Memory!MemoryInv
    /\ part = "plan" => Plan!PlanInv
    /\ part = "approval" => Approval!ApprovalInv
    /\ part = "dispatch" => Dispatching!DispatchInv
    /\ part = "guest" => Guest!GuestInv
    /\ part = "cards" => Cards!FrameInv
    /\ part = "budget" => Budgets!BudgetInv
    /\ part = "stream" => Stream!StreamInv

\* Every part begins as its invariant says.
LEMMA PartsBegin == PartsInit => PartsInv
BY IndexBegins, MemoryBegins, PlanBegins, ApprovalBegins, BusBegins, GuestBegins, FramesBegin,
   BudgetBegins, StreamBegins DEF PartsInit, PartsInv

\* A step is one of the part it belongs to, or leaves that part alone.
LEMMA StepOfAPart ==
    ASSUME [PartsNext]_partsVars
    PROVE  /\ UNCHANGED part
           /\ part = "history" => History!Next \/ UNCHANGED historyVars
           /\ part = "memory" => Memory!Next \/ UNCHANGED memoryVars
           /\ part = "plan" => Plan!Next \/ UNCHANGED planVars
           /\ part = "approval" => Approval!Next \/ UNCHANGED approvalVars
           /\ part = "dispatch" => Dispatching!Next \/ UNCHANGED busVars
           /\ part = "guest" => Guest!Next \/ UNCHANGED guestVars
           /\ part = "cards" => Cards!Next \/ UNCHANGED toolFrameVars
           /\ part = "budget" => Budgets!Next \/ UNCHANGED budgetVars
           /\ part = "stream" => Stream!Next \/ UNCHANGED streamVars
BY DEF PartsNext, PartsStay, PartsGo, OwnParts, partsVars

\* Every step of the module keeps the invariant.
LEMMA PartsStep == PartsInv /\ [PartsNext]_partsVars => PartsInv'
<1> SUFFICES ASSUME PartsInv, [PartsNext]_partsVars PROVE PartsInv'
  OBVIOUS
<1>1. /\ part = "history" => History!IndexInv'
      /\ part = "memory" => Memory!MemoryInv'
  BY StepOfAPart, IndexStep, MemoryStep DEF PartsInv
<1>2. /\ part = "plan" => Plan!PlanInv'
      /\ part = "approval" => Approval!ApprovalInv'
  BY StepOfAPart, PlanStep, ApprovalStep DEF PartsInv
<1>3. /\ part = "dispatch" => Dispatching!DispatchInv'
      /\ part = "guest" => Guest!GuestInv'
      /\ part = "cards" => Cards!FrameInv'
  BY StepOfAPart, DispatchStep, GuestStep, FrameStep DEF PartsInv
<1>4. /\ part = "budget" => Budgets!BudgetInv'
      /\ part = "stream" => Stream!StreamInv'
  BY StepOfAPart, BudgetStep, StreamStep DEF PartsInv
<1> QED
  BY <1>1, <1>2, <1>3, <1>4, StepOfAPart DEF PartsInv

\* The invariant holds of every behaviour.
LEMMA PartsHold == PartsSpec => []PartsInv
BY PartsBegin, PartsStep, PTL DEF PartsSpec

\* knowledge-plugin, memory-plugin, for any sessions, processes, memories, failed writes and
\* restarts: a session marked as read is in the index, unless a failed write was about its
\* new excerpts (the code marks it as read all the same), and an id of a memory is never
\* given again.
THEOREM StoredCorrect == PartsSpec => []StoredSound
<1>1. PartsInv => StoredSound
  <2>1. History!IndexInv => History!IndexCovers
    BY DEF History!IndexInv, History!IndexCovers, History!Covers, History!NotedOnce,
           History!ExcerptsAhead, History!IndexTypes, History!Revisions, History!StoredPair
  <2> QED
    BY <2>1 DEF PartsInv, StoredSound, Memory!MemoryInv
<1> QED
  BY <1>1, PartsHold, PTL

\* permission-plugin: for any runs and calls, no call runs that the user did not allow, and
\* no two cards on screen ask for the same.
THEOREM ApprovalsCorrect == PartsSpec => ApprovalsKept
<1>1. PartsInv => (part = "approval" => Approval!AskedOnce)
  BY DEF PartsInv, Approval!ApprovalInv
<1>2. PartsInv /\ [PartsNext]_partsVars => (part = "approval" => Approval!NeverUnasked)
  BY StepOfAPart, RunsAllowed DEF PartsInv
<1> QED
  BY <1>1, <1>2, PartsHold, PTL DEF PartsSpec, ApprovalsKept

\* plan-plugin: for any sessions and plans, a session's plan is changed by its own runs, or
\* evicted as the one unused longest, and no run that is over leaves a step in progress.
THEOREM PlansCorrect == PartsSpec => PlansKept
<1>1. PartsInv => (part = "plan" => Plan!NoPhantomProgress)
  BY DEF PartsInv, Plan!PlanInv
<1>2. PartsInv /\ [PartsNext]_partsVars => (part = "plan" => Plan!PlansKeptApart)
  BY StepOfAPart, PlansApart DEF PartsInv
<1> QED
  BY <1>1, <1>2, PartsHold, PTL DEF PartsSpec, PlansKept

\* The event bus, the calls of a plugin, the cards of its tools, its budget and the stream of
\* a model, for any number of listeners, dispatches, runs, calls, cards, requests and events:
\* all that HostSound says.
THEOREM HostCorrect == PartsSpec => []HostSound
<1>1. PartsInv => HostSound
  <2>1. Dispatching!DispatchInv =>
          /\ Dispatching!NoGateMissed /\ Dispatching!MonitorsSeeTheEnd
          /\ Dispatching!FirstRefusalStands /\ Dispatching!GatesStayWithChild
    BY DEF Dispatching!DispatchInv
  <2>2. Guest!GuestInv =>
          /\ Guest!EventsOfTheirRun /\ Guest!NothingLeftBehind
          /\ Guest!AnswerOfOwnCall /\ Guest!NothingOutlivesStore
    BY DEF Guest!GuestInv
  <2>3. Cards!FrameInv => Cards!FrameOfLastState
    BY FramesAreTheLast
  <2>4. Budgets!BudgetInv => Budgets!NothingLeaks /\ Budgets!RefusedForCause
    BY BudgetHolds
  <2>5. Stream!StreamInv =>
          /\ Stream!PendingBounded /\ Stream!NoSilentLoss
          /\ Stream!RetryOfItsError /\ Stream!RequestStopped
    BY WaitingIsBounded, NothingIsLost DEF Stream!StreamInv
  <2> QED
    BY <2>1, <2>2, <2>3, <2>4, <2>5 DEF PartsInv, HostSound
<1> QED
  BY <1>1, PartsHold, PTL
==============================================================================
