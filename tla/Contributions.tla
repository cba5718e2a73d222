---------------------------- MODULE Contributions ----------------------------
(***************************************************************************)
(* What one plugin has contributed to the agent (host/src/contribution.rs):*)
(* tools and prompts under their names, each replaced or removed at will,  *)
(* and events that wait for their run or, without one, for the screen.     *)
(* Counters of bytes are carried along with each change; what is over a    *)
(* limit is refused.                                                       *)
(***************************************************************************)
EXTENDS Naturals, Sequences, SequencesExt, FiniteSetsExt

CONSTANTS Name,         \* names of tools and ids of prompts
          Run, NoRun,
          Size,         \* the sizes of what a guest submits
          MaxItem,      \* MAX_ITEM_BYTES
          MaxBytes,     \* MAX_CONTRIBUTION_BYTES
          MaxNames,     \* MAX_TOOLS, MAX_PROMPTS
          MaxEvents     \* MAX_EVENTS

VARIABLES held,         \* kind -> name -> the size of what is registered, 0 for nothing
          events,       \* the queue: run, number of the event in its run, size
          bytes,        \* tool_bytes, prompt_bytes, event_bytes
          emitted,      \* run -> events accepted for it, modulo Wrap
          received,     \* run -> the next event a drain has to give it, modulo Wrap
          inOrder       \* whether every drain gave its run what was due

contributionVars == <<held, events, bytes, emitted, received, inOrder>>

Kind == {"tool", "prompt"}
Owner == Run \cup {NoRun}
Wrap == MaxEvents + 1
Entries(f) == {n \in DOMAIN f : f[n] > 0}
Total(f) == FoldFunctionOnSet(LAMBDA a, b : a + b, 0, f, DOMAIN f)

Init ==
    /\ held = [k \in Kind |-> [n \in Name |-> 0]]
    /\ events = <<>>
    /\ bytes = [k \in Kind \cup {"event"} |-> 0]
    /\ emitted = [r \in Owner |-> 0] /\ received = emitted /\ inOrder = TRUE

Fits_AfterReplacing(size, total, count, replacing, limit) ==       \* mutant
    size <= MaxItem /\ total <= MaxBytes
(* ensure_budget: the item, the sum and, unless it replaces one, the count. *)
Fits(size, total, count, replacing, limit) ==
    size <= MaxItem /\ total <= MaxBytes /\ (replacing \/ count < limit)

Counted_Added(k, n, size) == bytes[k] + size                       \* mutant
(* What the counter comes to when n is replaced.                            *)
Counted(k, n, size) == bytes[k] - held[k][n] + size

(* upsert_tool, upsert_static_tools, upsert_prompt.                         *)
Upsert(k, n, size) ==
    /\ Fits(size, Counted(k, n, size), Cardinality(Entries(held[k])), held[k][n] > 0, MaxNames)
    /\ held' = [held EXCEPT ![k][n] = size]
    /\ bytes' = [bytes EXCEPT ![k] = Counted(k, n, size)]
    /\ UNCHANGED <<events, emitted, received, inOrder>>

(* remove_tool, remove_prompt: nothing to remove is no error.               *)
Delete(k, n) ==
    /\ held' = [held EXCEPT ![k][n] = 0]
    /\ bytes' = [bytes EXCEPT ![k] = @ - held[k][n]]
    /\ UNCHANGED <<events, emitted, received, inOrder>>

(* emit_event, for the run that is active.                                  *)
Emit(r, size) ==
    /\ Fits(size, bytes["event"] + size, Len(events), FALSE, MaxEvents)
    /\ events' = Append(events, [run |-> r, number |-> emitted[r], size |-> size])
    /\ bytes' = [bytes EXCEPT !["event"] = @ + size]
    /\ emitted' = [emitted EXCEPT ![r] = (@ + 1) % Wrap]
    /\ UNCHANGED <<held, received, inOrder>>

Matched_All(r) == events                                           \* mutant
Matched(r) == SelectSeq(events, LAMBDA e : e.run = r)

(* drain_events_matching: the rest stays, in its order.                     *)
Drain(r) ==
    LET out == Matched(r)
    IN  /\ out # <<>>
        /\ events' = SelectSeq(events, LAMBDA e : e.run # r)
        /\ bytes' = [bytes EXCEPT !["event"] = @ - FoldSeq(LAMBDA e, t : e.size + t, 0, out)]
        /\ received' = [received EXCEPT ![r] = (@ + Len(out)) % Wrap]
        /\ inOrder' = (inOrder /\ \A i \in DOMAIN out :
               out[i].run = r /\ out[i].number = (received[r] + i - 1) % Wrap)
        /\ UNCHANGED <<held, emitted>>

Next ==
    \/ \E k \in Kind, n \in Name : Delete(k, n) \/ \E size \in Size : Upsert(k, n, size)
    \/ \E r \in Owner : Drain(r) \/ \E size \in Size : Emit(r, size)

Spec == Init /\ [][Next]_contributionVars

-----------------------------------------------------------------------------
(* The counters are what is held, over every replacement, removal, refusal  *)
(* and drain: a plugin that gives back what it has may contribute again,    *)
(* and holds no more than its limits.                                       *)
BytesExact ==
    /\ \A k \in Kind :
          /\ bytes[k] = Total(held[k]) /\ bytes[k] <= MaxBytes
          /\ Cardinality(Entries(held[k])) <= MaxNames
    /\ bytes["event"] = FoldSeq(LAMBDA e, t : e.size + t, 0, events)
    /\ bytes["event"] <= MaxBytes /\ Len(events) <= MaxEvents

(* A run receives its events and no others, each once and in the order in   *)
(* which they were accepted, whoever else drains meanwhile.                 *)
EventsToTheirRun ==
    /\ inOrder
    /\ \A r \in Owner : LET due == SelectSeq(events, LAMBDA e : e.run = r) IN
          /\ emitted[r] = (received[r] + Len(due)) % Wrap
          /\ \A i \in DOMAIN due : due[i].number = (received[r] + i - 1) % Wrap
=============================================================================
