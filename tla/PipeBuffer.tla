------------------------------ MODULE PipeBuffer ------------------------------
(* The bounded in-memory pipe of crates/wasmsh-vm/src/pipe.rs.  A pipe is a   *)
(* value: the bytes it holds and its two closed flags.  An operation that     *)
(* returns something is an operator that returns it beside the pipe after the *)
(* call; n is the number of bytes moved.                                      *)
EXTENDS Integers, Sequences

(* PipeBuffer::new: an open, empty pipe.                                      *)
NewPipe == [data |-> <<>>, write_closed |-> FALSE, read_closed |-> FALSE]

PipeType(Byte) ==
    [data : Seq(Byte), write_closed : BOOLEAN, read_closed : BOOLEAN]

(* The first n bytes of a buffer, and what follows them.                      *)
TakeBytes(buf, n) == SubSeq(buf, 1, n)
DropBytes(buf, n) == SubSeq(buf, n + 1, Len(buf))

Least(a, b) == IF a < b THEN a ELSE b

(* PipeBuffer::write: as much as fits, and would_block when not all does.     *)
Write(p, buf, cap) ==
    LET room == IF cap > Len(p.data) THEN cap - Len(p.data) ELSE 0
        n    == Least(Len(buf), room)
    IN  IF p.read_closed THEN [res |-> "broken", n |-> 0, pipe |-> p]
        ELSE [res  |-> IF n < Len(buf) THEN "would_block" ELSE "written",
              n    |-> n,
              pipe |-> [p EXCEPT !.data = @ \o TakeBytes(buf, n)]]

(* PipeBuffer::read into a buffer of max bytes (max > 0).                     *)
Read(p, max) ==
    LET n == Least(max, Len(p.data))
    IN  IF n > 0 THEN [res  |-> "read", bytes |-> TakeBytes(p.data, n),
                       pipe |-> [p EXCEPT !.data = DropBytes(@, n)]]
        ELSE [res  |-> IF p.write_closed THEN "eof" ELSE "would_block",
              bytes |-> <<>>, pipe |-> p]

CloseWrite(p) == [p EXCEPT !.write_closed = TRUE]
CloseRead(p)  == [p EXCEPT !.read_closed = TRUE]

=============================================================================
