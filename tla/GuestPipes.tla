----------------------------- MODULE GuestPipes -----------------------------
(***************************************************************************)
(* The children and the sockets a guest holds by handle                    *)
(* (host/src/capability/process.rs, socket.rs).  What a child writes comes *)
(* in pieces; the guest asks for lines, and each time it may wait too      *)
(* short.  What it has seen of a line then stays with the handle.  A       *)
(* socket gives bytes, no more in all than its budget.                     *)
(*                                                                         *)
(* A byte is "x", a carriage return "r" or a line feed "n".                *)
(***************************************************************************)
EXTENDS Naturals, Sequences, SequencesExt, FiniteSets

CONSTANTS Output,       \* what a child may write before it closes its output
          MaxLine,      \* MAX_PROCESS_LINE_BYTES
          Policy,       \* max_processes of the execution policy
          MaxChildren, MaxSockets,      \* MAX_PLUGIN_PROCESSES, MAX_PLUGIN_SOCKETS
          MaxTransfer, ReadBudget,      \* MAX_SOCKET_TRANSFER_BYTES, _READ_BUDGET
          MaxHandles    \* bound of the model: children and sockets opened

VARIABLES children,     \* handle -> output, what is consumed of it, pending_line
          told,         \* handle, open or not -> the lines its guest was given, its end
          sockets,      \* handle -> bytes_read
          nextChild, nextSocket

pipeVars == <<children, told, sockets, nextChild, nextSocket>>

(* The lines of an output as its guest should have them: reference.         *)
Chomped(line) ==
    IF line # <<>> /\ Last(line) = "n"
    THEN IF Len(line) > 1 /\ Last(Front(line)) = "r" THEN Front(Front(line)) ELSE Front(line)
    ELSE line
Ends(o) == {i \in DOMAIN o : o[i] = "n" \/ i = Len(o)}
Whole(o) ==
    LET from(i) == 1 + (IF \E j \in Ends(o) : j < i
                        THEN CHOOSE j \in Ends(o) : j < i /\ \A k \in Ends(o) : k < i => k <= j
                        ELSE 0)
        e == SetToSortSeq(Ends(o), <)
    IN  [k \in DOMAIN e |-> Chomped(SubSeq(o, from(e[k]), e[k]))]

Init == children = <<>> /\ told = <<>> /\ sockets = <<>> /\ nextChild = 1 /\ nextSocket = 1

Put(f, h, v) == [k \in DOMAIN f \cup {h} |-> IF k = h THEN v ELSE f[k]]
Without(f, h) == [k \in (DOMAIN f) \ {h} |-> f[k]]
Smaller(a, b) == IF a < b THEN a ELSE b

-----------------------------------------------------------------------------
Room_Counted(used, max) == used <= Smaller(Policy, max)             \* mutant
(* A policy may tighten the host's limit, and never widens it.              *)
Room(used, max) == used < Smaller(Policy, max)

Handle_Reused(f, next) == 1 + Cardinality(DOMAIN f)                 \* mutant
(* A handle names one child or socket for ever.                             *)
Handle(f, next) == next

(* spawn_process *)
Spawn(o) ==
    LET h == Handle(children, nextChild)
    IN  /\ Room(Cardinality(DOMAIN children), MaxChildren) /\ nextChild <= MaxHandles
        /\ children' = Put(children, h, [output |-> o, at |-> 0, pending |-> <<>>])
        /\ told' = Put(told, h, [output |-> o, lines |-> <<>>, end |-> "open"])
        /\ nextChild' = nextChild + 1
        /\ UNCHANGED <<sockets, nextSocket>>

(* kill_process, or the deadline of a call that has them all.               *)
Kill(h) ==
    /\ h \in DOMAIN children
    /\ children' = Without(children, h)
    /\ told' = [told EXCEPT ![h].end = "killed"]
    /\ UNCHANGED <<sockets, nextChild, nextSocket>>

Available(c, n) == SubSeq(c.output, c.at + 1, c.at + n)
FirstFeed(s) == IF \E i \in DOMAIN s : s[i] = "n"
                THEN CHOOSE i \in DOMAIN s : s[i] = "n" /\ \A j \in 1..(i - 1) : s[j] # "n"
                ELSE 0
(* How much of a piece of n bytes belongs to the line.                      *)
Taken(c, n) ==
    LET feed == FirstFeed(Available(c, n)) IN IF feed = 0 THEN n ELSE feed

(* A line or its part that is too long ends the child.                      *)
Overflow(h) ==
    /\ children' = Without(children, h)
    /\ told' = [told EXCEPT ![h].end = "overflow"]
    /\ UNCHANGED <<sockets, nextChild, nextSocket>>

TooLong_Always(s) == Len(s) > MaxLine                               \* mutant
(* The end of the line may still be to come off.                            *)
TooLong(s) == Len(s) > MaxLine + 2

(* read_process_line, one turn of its loop: a piece of n bytes that has no  *)
(* end of line.  The read goes on, or its time is up: that leaves the same. *)
ReadPart(h, n) ==
    LET c == children[h]
        line == c.pending \o Available(c, n)
    IN  /\ n \in 1..(Len(c.output) - c.at) /\ FirstFeed(Available(c, n)) = 0
        /\ IF TooLong(line) THEN Overflow(h)
           ELSE /\ children' = [children EXCEPT ![h].at = @ + n, ![h].pending = line]
                /\ UNCHANGED <<told, sockets, nextChild, nextSocket>>

Kept_Pending(line) == line                                          \* mutant
(* The line is taken out of pending_line.                                   *)
Kept(line) == <<>>

Give(h, line, n) ==
    IF Len(Chomped(line)) > MaxLine THEN Overflow(h)
    ELSE /\ told' = [told EXCEPT ![h].lines = Append(@, Chomped(line))]
         /\ children' = [children EXCEPT ![h].at = @ + n, ![h].pending = Kept(line)]
         /\ UNCHANGED <<sockets, nextChild, nextSocket>>

(* The last turn: the piece that ends the line, the rest stays in the pipe. *)
ReadLine(h, n) ==
    LET c == children[h]
        line == c.pending \o Available(c, Taken(c, n))
    IN  /\ n \in 1..(Len(c.output) - c.at) /\ FirstFeed(Available(c, n)) # 0
        /\ IF TooLong(line) THEN Overflow(h) ELSE Give(h, line, Taken(c, n))

(* The child has closed its output: the rest is a line, and then null.      *)
ReadEnd(h) ==
    LET c == children[h]
    IN  /\ c.at = Len(c.output) /\ c.pending # <<>>
        /\ Give(h, c.pending, 0)

(* The pipe breaks, or what was read is not UTF-8: that ends the child too.  *)
ReadFails(h) ==
    /\ children' = Without(children, h)
    /\ told' = [told EXCEPT ![h].end = "broken"]
    /\ UNCHANGED <<sockets, nextChild, nextSocket>>

-----------------------------------------------------------------------------
(* socket_connect, socket_close *)
Connect ==
    /\ Room(Cardinality(DOMAIN sockets), MaxSockets) /\ nextSocket <= MaxHandles
    /\ sockets' = Put(sockets, Handle(sockets, nextSocket), 0)
    /\ nextSocket' = nextSocket + 1
    /\ UNCHANGED <<children, told, nextChild>>
Close(h) ==
    /\ h \in DOMAIN sockets
    /\ sockets' = Without(sockets, h)
    /\ UNCHANGED <<children, told, nextChild, nextSocket>>

Open_Never(h) == TRUE                                               \* mutant
(* The budget is looked at before a read.                                   *)
Open(h) == sockets[h] < ReadBudget

(* socket_recv: what the peer has sent, of what the guest asked for.        *)
Receive(h, n) ==
    /\ Open(h)
    /\ sockets' = [sockets EXCEPT ![h] = @ + n]
    /\ UNCHANGED <<children, told, nextChild, nextSocket>>

Next ==
    \/ \E o \in Output : Spawn(o)
    \/ \E h \in DOMAIN children :
          \/ Kill(h) \/ ReadEnd(h) \/ ReadFails(h)
          \/ \E n \in 1..Len(children[h].output) : ReadPart(h, n) \/ ReadLine(h, n)
    \/ Connect
    \/ \E h \in DOMAIN sockets : Close(h) \/ \E n \in 1..MaxTransfer : Receive(h, n)

Spec == Init /\ [][Next]_pipeVars

-----------------------------------------------------------------------------
(* Whatever pieces its output comes in and however often the guest stops    *)
(* waiting, it gets the lines of the child whole, once and in order, and    *)
(* only a line over the limit, or one that cannot be read, ends a child     *)
(* that nobody kills.                                                       *)
LinesWhole ==
    \A h \in DOMAIN told :
        LET t == told[h]
            all == Whole(t.output)
            n == Len(t.lines)
        IN  /\ n <= Len(all) /\ t.lines = SubSeq(all, 1, n)
            /\ t.end = "overflow" => n < Len(all) /\ Len(all[n + 1]) > MaxLine
            /\ h \in DOMAIN children /\ children[h].pending = <<>>
                   /\ children[h].at = Len(t.output) => n = Len(all)

(* The handles in use keep to the tighter of both limits, what a socket     *)
(* gives to its budget and one transfer, and a handle names one child for   *)
(* ever.                                                                    *)
HandlesBounded ==
    /\ Cardinality(DOMAIN children) <= Smaller(Policy, MaxChildren)
    /\ Cardinality(DOMAIN sockets) <= Smaller(Policy, MaxSockets)
    /\ \A h \in DOMAIN sockets : sockets[h] < ReadBudget + MaxTransfer
    /\ DOMAIN told = 1..(nextChild - 1)
=============================================================================
