----------------------------- MODULE FrameQueue -----------------------------
(***************************************************************************)
(* What the frame buffer of the daemon promises: a FIFO of at most        *)
(* Capacity frames.  put refuses a frame when the queue is full,          *)
(* put_override drops the oldest frame instead, get takes the oldest      *)
(* frame out (peek leaves it in) and reports NoItem when there is none.   *)
(* got is the frame the last get or peek handed out.                      *)
(***************************************************************************)
EXTENDS Integers, Sequences

CONSTANTS Items, Capacity, NoItem

VARIABLES q, got

Init == q = <<>> /\ got = NoItem

Put(x) ==
    /\ q' = IF Len(q) < Capacity THEN Append(q, x) ELSE q
    /\ UNCHANGED got

PutOverride(x) ==
    /\ q' = IF Len(q) < Capacity THEN Append(q, x) ELSE Append(Tail(q), x)
    /\ UNCHANGED got

Get(peek) ==
    /\ got' = IF q = <<>> THEN NoItem ELSE Head(q)
    /\ q' = IF q = <<>> \/ peek THEN q ELSE Tail(q)

Reset == q' = <<>> /\ UNCHANGED got

Next ==
    \/ \E x \in Items : Put(x) \/ PutOverride(x)
    \/ \E peek \in BOOLEAN : Get(peek)
    \/ Reset

Spec == Init /\ [][Next]_<<q, got>>
=============================================================================
