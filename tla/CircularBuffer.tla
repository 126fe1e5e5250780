--------------------------- MODULE CircularBuffer ---------------------------
(***************************************************************************)
(* src/circular_buffer.c: an array of Capacity slots, the index head of   *)
(* the next slot to write, the index tail of the oldest frame and the     *)
(* flag full that tells a full buffer from an empty one (head = tail in   *)
(* both).  got is the out parameter of circular_buf_get.                   *)
(***************************************************************************)
EXTENDS Integers, Sequences

CONSTANTS Items, Capacity, NoItem

VARIABLES slots, head, tail, full, got

vars == <<slots, head, tail, full, got>>

\* circular_buf_init and circular_buf_reset; the slots are uninitialised
\* memory that is never read before it is written.
Init ==
    /\ slots = [i \in 0 .. Capacity - 1 |-> NoItem]
    /\ head = 0 /\ tail = 0 /\ full = FALSE
    /\ got = NoItem

\* circular_buf_full, circular_buf_empty
IsFull == full
IsEmpty == ~full /\ head = tail

\* circular_buf_size
Size ==
    IF IsFull THEN Capacity
    ELSE IF head >= tail THEN head - tail
    ELSE Capacity + head - tail

\* Mutant: the write index is not wrapped.
AdvanceNoWrap(h, t, f) ==
    [head |-> h + 1, tail |-> IF f THEN (t + 1) % Capacity ELSE t,
     full |-> (h + 1) = (IF f THEN (t + 1) % Capacity ELSE t)]

\* Mutant: a full buffer overwritten keeps its read index.
AdvanceKeepTail(h, t, f) ==
    [head |-> (h + 1) % Capacity, tail |-> t, full |-> (h + 1) % Capacity = t]

\* advance_pointer on (head, tail, full)
Advance(h, t, f) ==
    LET t1 == IF f THEN (t + 1) % Capacity ELSE t
        h1 == (h + 1) % Capacity
    IN  [head |-> h1, tail |-> t1, full |-> h1 = t1]

Write(x) ==
    LET a == Advance(head, tail, full)
    IN  /\ slots' = [slots EXCEPT ![head] = x]
        /\ head' = a.head /\ tail' = a.tail /\ full' = a.full

\* circular_buf_put: refused (-1) when full.
Put(x) ==
    /\ IF IsFull THEN UNCHANGED <<slots, head, tail, full>> ELSE Write(x)
    /\ UNCHANGED got

\* circular_buf_put_override
PutOverride(x) == Write(x) /\ UNCHANGED got

\* circular_buf_get: retreat_pointer clears full and advances tail.
Get(peek) ==
    /\ got' = IF IsEmpty THEN NoItem ELSE slots[tail]
    /\ IF IsEmpty \/ peek THEN UNCHANGED <<tail, full>>
       ELSE tail' = (tail + 1) % Capacity /\ full' = FALSE
    /\ UNCHANGED <<slots, head>>

\* circular_buf_reset
Reset ==
    /\ head' = 0 /\ tail' = 0 /\ full' = FALSE
    /\ UNCHANGED <<slots, got>>

Next ==
    \/ \E x \in Items : Put(x) \/ PutOverride(x)
    \/ \E peek \in BOOLEAN : Get(peek)
    \/ Reset

Spec == Init /\ [][Next]_vars

-----------------------------------------------------------------------------
TypeOK ==
    /\ slots \in [0 .. Capacity - 1 -> Items \cup {NoItem}]
    /\ head \in 0 .. Capacity - 1 /\ tail \in 0 .. Capacity - 1
    /\ full \in BOOLEAN
    /\ got \in Items \cup {NoItem}

\* The frames in the buffer, oldest first.
Contents == [i \in 1 .. Size |-> slots[(tail + i - 1) % Capacity]]

\* The ring of slots with its two indices and the full flag is a FIFO
\* queue of at most Capacity frames: put, put_override, get, peek and
\* reset do to the frames between tail and head what FrameQueue says.
FQ == INSTANCE FrameQueue WITH q <- Contents
BufferIsFifo == FQ!Spec
=============================================================================
