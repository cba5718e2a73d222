------------------------------ MODULE Memories ------------------------------
(***************************************************************************)
(* The memory plugin (examples/plugins/memory-plugin/src/lib.rs): facts    *)
(* the model records, in a collection for the project and one for the      *)
(* user.  Each collection is one key of the plugin's durable store, so     *)
(* that a write replaces all of it; it is changed in memory first and      *)
(* written after that, and a write may fail before or after it took        *)
(* effect.  A memory is known to the model by its short id: the letter of  *)
(* the scope and a sequence number.                                        *)
(*                                                                         *)
(* One process only.  A text is a member of a small set; its length, tags  *)
(* and the injected prompt are left out.                                   *)
(***************************************************************************)
EXTENDS Naturals, FiniteSets

CONSTANTS
    Text,
    MaxMemories,            \* MAX_MEMORIES_PER_SCOPE
    MaxSequence, MaxWriteFaults     \* bounds of the model

VARIABLES
    collectionFile,         \* the stored collection of each scope
    collection,             \* the one in memory
    activated,              \* the plugin is active
    available,              \* the scopes that can be written
    stored,                 \* every memory that was in a file once: scope, text, sequence
    writeFaults

memoryVars == <<collectionFile, collection, activated, available, stored, writeFaults>>

Scope == {"project", "user"}
Empty == [entries |-> {}, next_sequence |-> 0]

Init ==
    /\ collectionFile = [c \in Scope |-> Empty] /\ collection = [c \in Scope |-> Empty]
    /\ activated = FALSE /\ available = {} /\ stored = {} /\ writeFaults = 0

-----------------------------------------------------------------------------
\* activate: a store of the project that cannot be read is as if there were none; one of
\* the user makes the activation fail.
Activate ==
    /\ ~activated /\ activated' = TRUE
    /\ \E readable \in {Scope, {"user"}} :
         /\ available' = readable
         /\ collection' = [c \in Scope |-> IF c \in readable THEN collectionFile[c] ELSE Empty]
    /\ UNCHANGED <<collectionFile, stored, writeFaults>>

\* The process ends at any time, or the plugin is reloaded.
Stop ==
    /\ activated /\ activated' = FALSE
    /\ collection' = [c \in Scope |-> Empty] /\ available' = {}
    /\ UNCHANGED <<collectionFile, stored, writeFaults>>

\* save: the collection of the scope as it is in memory by now
Write(c, after) ==
    /\ collectionFile' = [collectionFile EXCEPT ![c] = after]
    /\ stored' = stored \cup {[scope |-> c, text |-> e.text, sequence |-> e.sequence] :
                              e \in after.entries}
Save(c, after) ==
    \/ Write(c, after) /\ UNCHANGED writeFaults
    \/ /\ writeFaults < MaxWriteFaults /\ writeFaults' = writeFaults + 1
       /\ \/ Write(c, after)
          \/ UNCHANGED <<collectionFile, stored>>

Numbered_ByCount(c) == Cardinality(collection[c].entries) + 1  \* mutant
\* next_sequence only grows, also when memories are forgotten
Numbered(c) == collection[c].next_sequence + 1

Replace(c, after) == collection' = [collection EXCEPT ![c] = after]

\* record: a text that is there already is answered with the id it has; after a failed
\* write the memory stays in memory all the same.
Record(c, t) ==
    /\ activated /\ c \in available
    /\ \A e \in collection[c].entries : e.text # t
    /\ Cardinality(collection[c].entries) < MaxMemories /\ Numbered(c) <= MaxSequence
    /\ LET after == [entries |-> collection[c].entries
                                    \cup {[text |-> t, sequence |-> Numbered(c)]},
                     next_sequence |-> Numbered(c)]
       IN Replace(c, after) /\ Save(c, after)
    /\ UNCHANGED <<activated, available>>

\* forget: by id; the letter of the id tells the scope
Forget(c) ==
    /\ activated
    /\ \E e \in collection[c].entries :
         LET after == [collection[c] EXCEPT !.entries = @ \ {e}]
         IN Replace(c, after) /\ Save(c, after)
    /\ UNCHANGED <<activated, available>>

-----------------------------------------------------------------------------
Next == \/ Activate \/ Stop
        \/ \E c \in Scope : Forget(c) \/ \E t \in Text : Record(c, t)

Spec == Init /\ [][Next]_memoryVars

-----------------------------------------------------------------------------
\* The id of a stored memory means that memory for ever: it is not given to another text
\* after the memory was forgotten, the process restarted, or a write failed with or
\* without effect.
IdsNeverReused == \A m, n \in stored : m.scope = n.scope /\ m.sequence = n.sequence => m = n

-----------------------------------------------------------------------------
(* What makes IdsNeverReused inductive.                                    *)
Entry == [text : Text, sequence : Nat]
Collections == [entries : SUBSET Entry, next_sequence : Nat]

MemoryTypes ==
    /\ collectionFile \in [Scope -> Collections] /\ collection \in [Scope -> Collections]
    /\ available \subseteq Scope /\ activated \in BOOLEAN
    /\ stored \subseteq [scope : Scope, text : Text, sequence : Nat]

\* The entries of a collection agree with every memory that was stored in its scope, and
\* with each other, on what a number means; all numbers are among those it has given.
Agrees(c, held) ==
    /\ \A e \in held.entries :
         /\ e.sequence <= held.next_sequence
         /\ \A f \in held.entries : e.sequence = f.sequence => e = f
         /\ \A m \in stored : m.scope = c /\ m.sequence = e.sequence => m.text = e.text
    /\ \A m \in stored : m.scope = c => m.sequence <= held.next_sequence

\* A scope that cannot be read has nothing in memory and is not written.
MemoryInv ==
    /\ MemoryTypes /\ IdsNeverReused
    /\ \A c \in Scope :
         /\ Agrees(c, collectionFile[c])
         /\ activated /\ c \in available => Agrees(c, collection[c])
         /\ ~(activated /\ c \in available) => collection[c].entries = {}
=============================================================================
