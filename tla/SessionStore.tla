---------------------------- MODULE SessionStore ----------------------------
(***************************************************************************)
(* What a SessionStore promises (crates/agent-core/session/src/            *)
(* protocol.rs): one atomic compare-and-swap per save.  A record holds its *)
(* revision and, in place of messages, the numbers of the saves whose      *)
(* content it carries.  This is also what MemorySessionStore does, under   *)
(* its write lock.                                                         *)
(***************************************************************************)
EXTENDS Naturals

CONSTANTS Id, Save          \* session ids; numbers of the saves

VARIABLES
    store,                  \* the records
    acked                   \* saves whose caller was told that they succeeded

Record == [rev : Nat, saves : SUBSET Save]
Absent == [rev |-> 0, saves |-> {}]

Init == store \in [Id -> {Absent}] /\ acked = {}

\* save: the new record goes on from the one that is stored, and from no other.
Swap(id, n) ==
    /\ \A i \in Id : n \notin store[i].saves
    /\ store' = [store EXCEPT ![id] = [rev   |-> @.rev + 1,
                                       saves |-> @.saves \cup {n}]]
    /\ UNCHANGED acked

\* The caller learns of it.  A caller may also be told of an error after the
\* record was stored, so not every save that took place is acknowledged.
Acknowledge(n) ==
    /\ \E id \in Id : n \in store[id].saves
    /\ acked' = acked \cup {n}
    /\ UNCHANGED store

\* delete: nothing of the record needs to be there any more.
Delete(id) ==
    /\ store[id] # Absent
    /\ store' = [store EXCEPT ![id] = Absent]
    /\ acked' = acked \ store[id].saves

\* A failure of the power may undo what nobody has been told of, the last saves
\* of a record, or a delete, and may leave what the caller waits to hear of.
PowerLoss ==
    /\ store' \in [Id -> Record]
    /\ \A n \in acked : \E id \in Id : n \in store'[id].saves
    /\ \A id \in Id : \/ store'[id].saves \subseteq store[id].saves
                      \/ store[id] = Absent
    /\ UNCHANGED acked

Next == \/ \E id \in Id, n \in Save : Swap(id, n)
        \/ \E n \in Save : Acknowledge(n)
        \/ \E id \in Id : Delete(id)
        \/ PowerLoss

Spec == Init /\ [][Next]_<<store, acked>>
=============================================================================
