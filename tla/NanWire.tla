------------------------------ MODULE NanWire ------------------------------
(***************************************************************************)
(* The cursor buffer of src/src/wire.c.                                    *)
(*                                                                         *)
(* A struct buf is a byte array with a cursor.  The model keeps the bytes  *)
(* as a sequence, the cursor as the number of bytes before it (pos, the    *)
(* code's buf_position, measured from data), the end of the working window *)
(* and the error flag.  Every read and write checks only buf_rest, never   *)
(* the error flag: after a failed access a shorter later access still      *)
(* succeeds.  A failed access sets err to -1 and leaves the cursor where   *)
(* it was; a read that fails leaves the caller's variable unset, which the *)
(* model returns as 0 because every parser tests buf_error before it uses  *)
(* a value it read.                                                        *)
(*                                                                         *)
(* A buffer being built (buf_new_owned) is the same record whose data is   *)
(* the prefix written so far: its cursor is Len(data), its window ends at  *)
(* the size it was allocated with.                                         *)
(***************************************************************************)
EXTENDS Integers, Sequences

\* A little-endian integer of the bytes bs, the first byte least significant
\* (le16toh, le32toh, le64toh on the little-endian hosts the daemon runs on).
RECURSIVE LeValue(_)
LeValue(bs) == IF bs = <<>> THEN 0 ELSE Head(bs) + 256 * LeValue(Tail(bs))

\* A write of the whole value into each byte position, without the
\* truncation to a byte (a wider type stored through a uint8_t field).
RECURSIVE LeBytesUnmasked(_, _)
LeBytesUnmasked(v, n) == IF n = 0 THEN <<>> ELSE <<v>> \o LeBytesUnmasked(v \div 256, n - 1)

\* The n bytes of v, least significant first (htole16, htole32, htole64).
RECURSIVE LeBytes(_, _)
LeBytes(v, n) == IF n = 0 THEN <<>> ELSE <<v % 256>> \o LeBytes(v \div 256, n - 1)

\* buf_new_const: a read-only view of bytes, window over all of them.
BufNewConst(bytes) == [data |-> bytes, pos |-> 0, end |-> Len(bytes), err |-> 0]

\* buf_new_owned: an empty buffer of the given size to be written.
BufNewOwned(size) == [data |-> <<>>, pos |-> 0, end |-> size, err |-> 0]

\* buf_rest: bytes between the cursor and the end of the window.
BufRest(b) == b.end - b.pos

\* buf_advance: move the cursor, or fail when fewer bytes are left.
BufAdvance(b, n) ==
    IF n > BufRest(b) THEN [b EXCEPT !.err = -1] ELSE [b EXCEPT !.pos = @ + n]

\* buf_take: drop n bytes from the end of the window (the FCS).
BufTake(b, n) ==
    IF BufRest(b) < n THEN [b EXCEPT !.err = -1] ELSE [b EXCEPT !.end = @ - n]

\* read_bytes / read_bytes_copy: the next n bytes, and the cursor after them.
ReadBytes(b, n) ==
    IF BufRest(b) < n
    THEN [buf |-> [b EXCEPT !.err = -1], val |-> <<>>]
    ELSE [buf |-> [b EXCEPT !.pos = @ + n], val |-> SubSeq(b.data, b.pos + 1, b.pos + n)]

\* read_u8, read_le16, read_le32, read_le64 (the read macro): an n-byte
\* little-endian integer.
ReadLe(b, n) ==
    IF BufRest(b) < n
    THEN [buf |-> [b EXCEPT !.err = -1], val |-> 0]
    ELSE [buf |-> [b EXCEPT !.pos = @ + n], val |-> LeValue(SubSeq(b.data, b.pos + 1, b.pos + n))]

\* write_bytes and write_ether_addr; the writes through a struct pointer
\* followed by buf_advance have the same effect and the same check.
WriteBytes(b, bytes) ==
    IF BufRest(b) < Len(bytes)
    THEN [b EXCEPT !.err = -1]
    ELSE [b EXCEPT !.data = @ \o bytes, !.pos = @ + Len(bytes)]

\* write_u8, write_le16, write_le32, write_le64 (the write macro).
WriteLe(b, v, n) == WriteBytes(b, LeBytes(v, n))

\* The bytes written so far (buf_data up to buf_position).
Written(b) == b.data
=============================================================================
