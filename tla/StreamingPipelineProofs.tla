------------------------ MODULE StreamingPipelineProofs ------------------------
(* Proofs about StreamingPipeline, for pipelines of any length and any stages *)
(* and for every source, capacity, chunk size and limit.                      *)
(*                                                                            *)
(* A poll of a stage is treated in three layers: what every part of a poll    *)
(* keeps (Keeps), what the poll of a built-in stage promises its neighbours   *)
(* (Serves), and what that means for the state (Leaves).  The invariant is    *)
(* then preserved action by action.                                           *)
EXTENDS StreamingPipeline, RecursionProofs, SequenceTheorems, TLAPS

-----------------------------------------------------------------------------
(* What the operations of a pipe promise, for any bytes and any capacity: the *)
(* facts about crates/wasmsh-vm/src/pipe.rs on which the rest is built.       *)

(* Taking and dropping cut a buffer in two.                                   *)
LEMMA Cut ==
  ASSUME NEW B, NEW buf \in Seq(B), NEW n \in 0..Len(buf)
  PROVE  /\ TakeBytes(buf, n) \in Seq(B) /\ Len(TakeBytes(buf, n)) = n
         /\ DropBytes(buf, n) \in Seq(B) /\ Len(DropBytes(buf, n)) = Len(buf) - n
         /\ TakeBytes(buf, n) \o DropBytes(buf, n) = buf
         /\ \A k \in 1..n : TakeBytes(buf, n)[k] = buf[k]
         /\ \A k \in 1..(Len(buf) - n) : DropBytes(buf, n)[k] = buf[n + k]
<1>1. Len(buf) \in Nat
  BY LenProperties
<1>2. TakeBytes(buf, n) \in Seq(B) /\ Len(TakeBytes(buf, n)) = n
  BY <1>1, SubSeqProperties DEF TakeBytes
<1>3. DropBytes(buf, n) \in Seq(B) /\ Len(DropBytes(buf, n)) = Len(buf) - n
  BY <1>1, SubSeqProperties DEF DropBytes
<1>4. \A k \in 1..n : TakeBytes(buf, n)[k] = buf[k]
  BY <1>1, SubSeqProperties DEF TakeBytes
<1>5. \A k \in 1..(Len(buf) - n) : DropBytes(buf, n)[k] = buf[n + k]
  BY <1>1, SubSeqProperties DEF DropBytes
<1>6. TakeBytes(buf, n) \o DropBytes(buf, n) = buf
  <2>1. SubSeq(buf, 1, n) \o SubSeq(buf, n + 1, Len(buf)) = SubSeq(buf, 1, Len(buf))
    <3>1. 1 \in 1..(Len(buf) + 1) /\ n \in (1 - 1)..Len(buf) /\ Len(buf) \in n..Len(buf)
      BY <1>1
    <3> QED BY <3>1, ConcatAdjacentSubSeq, Zenon
  <2> QED BY <2>1, SubSeqFull DEF TakeBytes, DropBytes
<1> QED BY <1>2, <1>3, <1>4, <1>5, <1>6

(* PipeBuffer::write appends a prefix of the buffer, at most as much as fits, *)
(* never touches the flags, and moves nothing only if the pipe is full or its *)
(* reader has gone.                                                           *)
Wrote(B, p, buf, cap, w) ==
    /\ w.res \in {"broken", "would_block", "written"} /\ w.n \in 0..Len(buf)
    /\ w.pipe \in PipeType(B)
    /\ w.pipe.read_closed = p.read_closed /\ w.pipe.write_closed = p.write_closed
    /\ w.pipe.data = p.data \o TakeBytes(buf, w.n)
    /\ w.res = "broken" <=> p.read_closed
    /\ Len(p.data) <= cap => Len(w.pipe.data) <= cap
    /\ w.n = 0 => w.pipe = p
    /\ w.n = 0 /\ buf # <<>> /\ ~p.read_closed => p.data # <<>>

(* PipeBuffer::write.                                                         *)
LEMMA WriteFacts ==
  ASSUME NEW B, NEW p \in PipeType(B), NEW buf \in Seq(B), NEW cap \in Nat \ {0},
         NEW w, w = Write(p, buf, cap)
  PROVE  Wrote(B, p, buf, cap, w)
<1>1. PICK data \in Seq(B) : data = p.data
  BY DEF PipeType
<1>2. PICK gone \in BOOLEAN : gone = p.read_closed
  BY DEF PipeType
<1>3. PICK n : n = Least(Len(buf), IF cap > Len(data) THEN cap - Len(data) ELSE 0)
  OBVIOUS
<1>4. PICK part : part = TakeBytes(buf, n)
  OBVIOUS
<1>5. Len(data) \in Nat /\ Len(buf) \in Nat
  BY LenProperties
<1>6. /\ n \in 0..Len(buf) /\ (Len(data) <= cap => Len(data) + n <= cap)
      /\ n = 0 => Len(buf) = 0 \/ Len(data) > 0
  BY <1>3, <1>5 DEF Least
<1>7. n = 0 /\ buf # <<>> => data # <<>>
  BY <1>6, EmptySeq
<1>8. part \in Seq(B) /\ Len(part) = n
  BY <1>4, <1>6, Cut, Zenon
<1>9. TakeBytes(buf, 0) = <<>> /\ data \o <<>> = data
  BY SubSeqEmpty DEF TakeBytes
<1>10. data \o part \in Seq(B) /\ Len(data \o part) = Len(data) + n
  BY <1>8
<1>11. CASE gone
  <2>1. w = [res |-> "broken", n |-> 0, pipe |-> p]
    BY <1>2, <1>11 DEF Write
  <2>2. w.res = "broken" /\ w.n = 0 /\ w.pipe = p
    BY <2>1
  <2>3. 0 \in 0..Len(buf) /\ p.data = p.data \o TakeBytes(buf, 0)
    BY <1>1, <1>5, <1>9
  <2> QED BY <1>2, <1>11, <2>2, <2>3 DEF Wrote
<1>12. CASE ~gone
  <2>1. PICK full : full = [p EXCEPT !.data = data \o part]
    OBVIOUS
  <2>2. PICK res : res = IF n < Len(buf) THEN "would_block" ELSE "written"
    OBVIOUS
  <2>3. w = [res |-> res, n |-> n, pipe |-> full]
    BY <1>1, <1>2, <1>3, <1>4, <1>12, <2>1, <2>2 DEF Write
  <2>4. full \in PipeType(B) /\ full.data = data \o part
        /\ full.read_closed = p.read_closed /\ full.write_closed = p.write_closed
    BY <1>10, <2>1 DEF PipeType
  <2>5. n = 0 => full = p
    BY <1>1, <1>4, <1>9, <2>1 DEF PipeType
  <2>6. w.res = res /\ w.n = n /\ w.pipe = full
    BY <2>3
  <2>7. res \in {"would_block", "written"}
    BY <2>2
  <2> QED BY <1>1, <1>2, <1>4, <1>6, <1>7, <1>10, <1>12, <2>4, <2>5, <2>6, <2>7
       DEF Wrote
<1> QED BY <1>11, <1>12

(* PipeBuffer::read takes a prefix of what the pipe holds, at least one byte  *)
(* if it holds any, never touches the flags, and says would_block only of an  *)
(* empty pipe whose writer is still there.                                    *)
Fetched(B, p, r) ==
    /\ r.res \in {"read", "eof", "would_block"}
    /\ r.bytes \in Seq(B) /\ r.pipe \in PipeType(B)
    /\ r.pipe.read_closed = p.read_closed /\ r.pipe.write_closed = p.write_closed
    /\ p.data = r.bytes \o r.pipe.data
    /\ Len(r.pipe.data) <= Len(p.data)
    /\ r.res = "read" <=> r.bytes # <<>>
    /\ r.res # "read" => p.data = <<>> /\ r.pipe = p /\ (r.res = "eof" <=> p.write_closed)

(* PipeBuffer::read.                                                          *)
LEMMA ReadFacts ==
  ASSUME NEW B, NEW p \in PipeType(B), NEW max \in Nat \ {0}, NEW r, r = Read(p, max)
  PROVE  Fetched(B, p, r)
<1> DEFINE n == Least(max, Len(p.data))
<1>1. p.data \in Seq(B) /\ p.read_closed \in BOOLEAN /\ p.write_closed \in BOOLEAN
  BY DEF PipeType
<1>2. Len(p.data) \in Nat /\ <<>> \in Seq(B)
  BY <1>1, LenProperties, EmptySeq
<1>3. n \in 0..Len(p.data) /\ (n = 0 => p.data = <<>>)
  BY <1>1, <1>2, EmptySeq DEF Least
<1> HIDE DEF n
<1> DEFINE t == TakeBytes(p.data, n)
           d == DropBytes(p.data, n)
<1>4. /\ t \in Seq(B) /\ d \in Seq(B) /\ p.data = t \o d
      /\ Len(t) = n /\ Len(d) = Len(p.data) - n
  <2>1. n \in 0..Len(p.data) /\ p.data \in Seq(B)
    BY <1>1, <1>3
  <2> QED BY <2>1, Cut, Zenon
<1>5. CASE n > 0
  <2> DEFINE rest == [p EXCEPT !.data = d]
  <2>1. r = [res |-> "read", bytes |-> t, pipe |-> rest]
    BY <1>5 DEF Read, n
  <2>2. rest \in PipeType(B) /\ rest.data = d
        /\ rest.read_closed = p.read_closed /\ rest.write_closed = p.write_closed
    BY <1>4 DEF PipeType
  <2> HIDE DEF rest, t, d
  <2>3. r.res = "read" /\ r.bytes = t /\ r.pipe = rest
    BY <2>1
  <2>4. t # <<>> /\ Len(d) <= Len(p.data)
    BY <1>2, <1>3, <1>4, <1>5, EmptySeq
  <2> QED BY <1>4, <2>2, <2>3, <2>4 DEF Fetched
<1>6. CASE ~(n > 0)
  <2> DEFINE res == IF p.write_closed THEN "eof" ELSE "would_block"
  <2>1. r = [res |-> res, bytes |-> <<>>, pipe |-> p]
    BY <1>6 DEF Read, n
  <2>2. res \in {"eof", "would_block"} /\ (res = "eof" <=> p.write_closed)
    OBVIOUS
  <2>3. p.data = <<>>
    BY <1>2, <1>3, <1>6
  <2> HIDE DEF res
  <2>4. r.res = res /\ r.bytes = <<>> /\ r.pipe = p
    BY <2>1
  <2>5. p.data = <<>> \o p.data
    BY <1>1, ConcatEmptySeq
  <2> QED BY <1>2, <2>2, <2>3, <2>4, <2>5 DEF Fetched
<1> QED BY <1>5, <1>6

(* close_write and close_read each set one flag.                              *)
LEMMA CloseFacts ==
  ASSUME NEW B, NEW p \in PipeType(B)
  PROVE  /\ CloseRead(p) \in PipeType(B) /\ CloseRead(p).data = p.data
         /\ CloseRead(p).read_closed /\ CloseRead(p).write_closed = p.write_closed
         /\ CloseWrite(p) \in PipeType(B) /\ CloseWrite(p).data = p.data
         /\ CloseWrite(p).write_closed /\ CloseWrite(p).read_closed = p.read_closed
BY DEF CloseRead, CloseWrite, PipeType

-----------------------------------------------------------------------------
(* The invariant.                                                             *)

(* The pipeline: drive_streaming_pipeline has no external stages.             *)
Config ==
    /\ conf \in [kinds : Seq(Kind), mode : {"sync", "pending"}, pipefail : BOOLEAN,
                 faults : SUBSET Fault]
    /\ N > 0
    /\ conf.mode = "sync" => \A i \in 1..N : Kinds[i] # "external"

Buffering == {"buffered", "bounded"}

(* Only an external stage has a child, only a buffered one a staging file.    *)
Fit(s) == (s.live => s.kind = "external") /\ (s.staging => s.kind \in Buffering)

(* Where the scheduler is, and that the stages stay of their kind.            *)
Shape ==
    /\ phase = "poll" => cur \in 1..N
    /\ phase = "drain" => cur = 0
    /\ phase # "over" => ended = "no"
    /\ \A i \in 1..N : st[i].kind = Kinds[i] /\ Fit(st[i])

WithinCapacity == \A i \in 1..N : Len(pipes[i].data) <= Cap

(* A stage that is done has closed its output and, unless it has failed, its  *)
(* input; a buffered stage closes its input before it runs its command.       *)
Wiring(i) ==
    /\ done[i] => pipes[i].write_closed
    /\ done[i] /\ i > 1 /\ st[i].rc = 0 => pipes[i - 1].read_closed
    /\ st[i].kind \in Buffering /\ i > 1 /\ (st[i].eof \/ st[i].pend # <<>>)
           => pipes[i - 1].read_closed

(* Stage i has nothing to read and may get more; it has no room to write and  *)
(* may get some.                                                              *)
Starved(i) == pipes[i - 1].data = <<>> /\ ~pipes[i - 1].write_closed
Blocked(i) == pipes[i].data # <<>> /\ ~pipes[i].read_closed

(* In a pass that has moved nothing so far, every stage polled waits.         *)
Waiting ==
    phase \in {"poll", "drain"} /\ ~progressed =>
        \A i \in (cur + 1)..N : done[i] \/ Starved(i) \/ Blocked(i)

(* What holds of the built-in pipelines besides.                              *)
SyncInv ==
    conf.mode = "sync" =>
        /\ pipes[0].write_closed
        /\ phase # "over" => \A i \in 1..N : Wiring(i)
        /\ Waiting

PipelineInv == TypeOK /\ Config /\ Shape /\ WithinCapacity /\ SyncInv /\ Released /\ NoStall

-----------------------------------------------------------------------------
(* A poll works on a view of its stage and the two pipes beside it.           *)

Outcome == {"going", "ready", "exited", "pending_read", "pending_write"}
ViewType == [s : Stage, in : PipeType(Byte), out : PipeType(Byte), res : Outcome]

(* What every part of a poll respects: the stage's kind, the ends of the      *)
(* pipes that belong to its neighbours, and the capacity.                     *)
KeepsStage(s, t) == t \in Stage /\ t.kind = s.kind /\ (Fit(s) => Fit(t))
KeepsIn(p, q) ==
    /\ q \in PipeType(Byte) /\ q.write_closed = p.write_closed
    /\ p.read_closed => q.read_closed
    /\ Len(q.data) <= Len(p.data)
KeepsOut(p, q) ==
    /\ q \in PipeType(Byte) /\ q.read_closed = p.read_closed
    /\ p.write_closed => q.write_closed
    /\ Len(p.data) <= Cap => Len(q.data) <= Cap
Keeps(x, y) ==
    /\ y \in ViewType
    /\ KeepsStage(x.s, y.s) /\ KeepsIn(x.in, y.in) /\ KeepsOut(x.out, y.out)

(* What the assumption on the constants says of the bytes and the buffer      *)
(* sizes.                                                                     *)
LEMMA Constants ==
  /\ Chunk \in Nat \ {0} /\ Capacity \in Nat \ {0} /\ Source \in Seq(Byte) /\ HeadBytes \in Nat
  /\ 0 \in Byte /\ \A i : Diagnostic(i) \in Seq(Byte)
<1>1. Source \in Seq(Byte)
  BY StreamingAssumption DEF Byte
<1>2. 0 \in Byte
  BY DEF Byte
<1>3. <<0>> \in Seq(Byte) /\ <<>> \in Seq(Byte)
  BY <1>2
<1> QED BY <1>1, <1>2, <1>3, StreamingAssumption DEF Diagnostic

(* An output pipe has room for at least one byte, a built-in pipeline's for   *)
(* exactly one.                                                               *)
LEMMA CapType ==
  ASSUME Config
  PROVE  Cap \in Nat \ {0} /\ (conf.mode = "sync" => Cap = 1)
BY Constants DEF Cap, Config

(* The parts of a view, and that it has no others.                            *)
LEMMA ViewParts ==
  ASSUME NEW x \in ViewType
  PROVE  /\ x.s \in Stage /\ x.in \in PipeType(Byte) /\ x.out \in PipeType(Byte)
         /\ x.res \in Outcome
         /\ x = [s |-> x.s, in |-> x.in, out |-> x.out, res |-> x.res]
BY DEF ViewType

(* A view put together from parts that keep what they must.                   *)
LEMMA MakeView ==
  ASSUME NEW x, NEW s \in Stage, NEW p \in PipeType(Byte), NEW q \in PipeType(Byte),
         NEW r \in Outcome, NEW y, y = [s |-> s, in |-> p, out |-> q, res |-> r],
         KeepsStage(x.s, s), KeepsIn(x.in, p), KeepsOut(x.out, q)
  PROVE  Keeps(x, y) /\ y.s = s /\ y.in = p /\ y.out = q /\ y.res = r
<1>1. y \in ViewType /\ y.s = s /\ y.in = p /\ y.out = q /\ y.res = r
  BY DEF ViewType
<1> QED BY <1>1 DEF Keeps

(* Closing one end of a pipe touches neither the other end nor the bytes.     *)
LEMMA PipeKept ==
  ASSUME NEW p \in PipeType(Byte)
  PROVE  /\ KeepsIn(p, p) /\ KeepsOut(p, p)
         /\ KeepsIn(p, CloseRead(p)) /\ KeepsOut(p, CloseWrite(p))
<1>1. p.data \in Seq(Byte)
  BY DEF PipeType
<1>2. Len(p.data) \in Nat
  BY <1>1, LenProperties
<1>3. PICK c : c = CloseRead(p)
  OBVIOUS
<1>4. PICK d : d = CloseWrite(p)
  OBVIOUS
<1>5. /\ c \in PipeType(Byte) /\ c.data = p.data /\ c.read_closed /\ c.write_closed = p.write_closed
      /\ d \in PipeType(Byte) /\ d.data = p.data /\ d.write_closed /\ d.read_closed = p.read_closed
  BY <1>3, <1>4, CloseFacts
<1> QED BY <1>2, <1>3, <1>4, <1>5 DEF KeepsIn, KeepsOut

(* finish closes both pipes of the stage and changes nothing else of it.      *)
LEMMA FinishKeeps ==
  ASSUME NEW x \in ViewType, NEW y, y = Finish(x)
  PROVE  /\ Keeps(x, y) /\ y.res = "exited" /\ y.out.write_closed /\ y.in.read_closed
         /\ y.s = [x.s EXCEPT !.fin = TRUE]
<1>1. PICK t : t = [x.s EXCEPT !.fin = TRUE]
  OBVIOUS
<1>2. t \in Stage /\ KeepsStage(x.s, t)
  BY ZenonT(40), <1>1, ViewParts DEF Stage, KeepsStage, Fit
<1>3. y = [s |-> t, in |-> CloseRead(x.in), out |-> CloseWrite(x.out), res |-> "exited"]
  BY <1>1 DEF Finish
<1>4. /\ CloseRead(x.in) \in PipeType(Byte) /\ CloseRead(x.in).read_closed
      /\ CloseWrite(x.out) \in PipeType(Byte) /\ CloseWrite(x.out).write_closed
      /\ KeepsIn(x.in, CloseRead(x.in)) /\ KeepsOut(x.out, CloseWrite(x.out))
  BY ViewParts, CloseFacts, PipeKept
<1>5. "exited" \in Outcome
  BY DEF Outcome
<1>6. /\ Keeps(x, y) /\ y.s = t /\ y.in = CloseRead(x.in) /\ y.out = CloseWrite(x.out)
      /\ y.res = "exited"
  BY <1>2, <1>3, <1>4, <1>5, MakeView
<1> QED BY <1>1, <1>4, <1>6

(* The parts of a poll may be taken one after the other.                      *)
LEMMA KeepsTrans ==
  ASSUME NEW x \in ViewType, NEW y \in ViewType, NEW z, Keeps(x, y), Keeps(y, z)
  PROVE  Keeps(x, z)
<1>1. KeepsStage(x.s, z.s)
  BY DEF Keeps, KeepsStage
<1>2. Len(x.in.data) \in Nat /\ Len(y.in.data) \in Nat /\ Len(z.in.data) \in Nat
  <2>1. x.in.data \in Seq(Byte) /\ y.in.data \in Seq(Byte) /\ z.in.data \in Seq(Byte)
    BY ViewParts DEF Keeps, KeepsIn, PipeType
  <2> QED BY <2>1, LenProperties
<1>3. KeepsIn(x.in, z.in)
  BY <1>2 DEF Keeps, KeepsIn
<1>4. KeepsOut(x.out, z.out)
  BY DEF Keeps, KeepsOut
<1> QED BY <1>1, <1>3, <1>4 DEF Keeps

(* A stage writes to its output pipe.                                         *)
Written(p, buf, w) ==
    /\ KeepsOut(p, w.pipe)
    /\ w.res = "broken" <=> p.read_closed
    /\ w.n = 0 => w.pipe = p
    /\ w.n = 0 /\ buf # <<>> /\ w.res # "broken" => p.data # <<>>
    /\ DropBytes(buf, w.n) \in Seq(Byte) /\ TakeBytes(buf, w.n) \in Seq(Byte)

(* PipeBuffer::write as a stage uses it.                                      *)
LEMMA WriteKeeps ==
  ASSUME Config, NEW p \in PipeType(Byte), NEW buf \in Seq(Byte), NEW w, w = Write(p, buf, Cap)
  PROVE  Written(p, buf, w)
<1>1. Cap \in Nat \ {0}
  BY CapType
<1>2. Wrote(Byte, p, buf, Cap, w)
  BY <1>1, WriteFacts
<1>3. DropBytes(buf, w.n) \in Seq(Byte) /\ TakeBytes(buf, w.n) \in Seq(Byte)
  BY <1>2, Cut DEF Wrote
<1>4. KeepsOut(p, w.pipe)
  BY <1>2 DEF KeepsOut, Wrote
<1> QED BY <1>2, <1>3, <1>4 DEF Wrote, Written

(* A stage reads from its input pipe.                                         *)
Taken(p, r) ==
    /\ KeepsIn(p, r.pipe)
    /\ r.res \in {"read", "eof", "would_block"} /\ r.bytes \in Seq(Byte)
    /\ r.res = "read" <=> r.bytes # <<>>
    /\ r.res # "read" => p.data = <<>> /\ r.pipe = p /\ (r.res = "eof" <=> p.write_closed)

(* PipeBuffer::read as a stage uses it.                                       *)
LEMMA ReadKeeps ==
  ASSUME NEW p \in PipeType(Byte), NEW max \in Nat \ {0}, NEW r, r = Read(p, max)
  PROVE  Taken(p, r)
<1>1. Fetched(Byte, p, r)
  BY ReadFacts
<1> QED BY <1>1 DEF Fetched, Taken, KeepsIn

-----------------------------------------------------------------------------
(* PipeReadProcess, TeePipeProcess and HeadPipeProcess.  Whatever they hand   *)
(* on, they say pending_write only of a pipe that holds bytes and has its     *)
(* reader, and leave nothing open behind them.                                *)
Handed(x, y) ==
    /\ Keeps(x, y) /\ y.res \in {"ready", "exited", "pending_write"}
    /\ y.res = "pending_write" => y.out = x.out /\ x.out.data # <<>> /\ ~x.out.read_closed
    /\ y.res = "exited" => y.out.write_closed /\ y.in.read_closed

(* read_drain_pending and tee_drain_pending.                                  *)
LEMMA DrainPendingHands ==
  ASSUME Config, NEW x \in ViewType, x.s.pend # <<>>, NEW y, y = DrainPending(x)
  PROVE  Handed(x, y)
<1>1. /\ x.s \in Stage /\ x.in \in PipeType(Byte) /\ x.out \in PipeType(Byte)
      /\ x = [s |-> x.s, in |-> x.in, out |-> x.out, res |-> x.res]
  BY ViewParts
<1>2. x.s.pend \in Seq(Byte) /\ x.s.file \in Seq(Byte)
  BY <1>1 DEF Stage
<1>3. PICK w : w = Write(x.out, x.s.pend, Cap)
  OBVIOUS
<1>4. /\ KeepsOut(x.out, w.pipe) /\ (w.res = "broken" <=> x.out.read_closed)
      /\ w.n = 0 => w.pipe = x.out
      /\ w.n = 0 /\ w.res # "broken" => x.out.data # <<>>
      /\ DropBytes(x.s.pend, w.n) \in Seq(Byte) /\ TakeBytes(x.s.pend, w.n) \in Seq(Byte)
  <2>1. Written(x.out, x.s.pend, w)
    BY <1>1, <1>2, <1>3, WriteKeeps
  <2> QED BY <2>1 DEF Written
<1>5. CASE w.res = "broken"
  <2>1. y = Finish(x)
    BY <1>3, <1>5 DEF DrainPending
  <2> QED BY <2>1, FinishKeeps DEF Handed
<1>6. CASE w.res # "broken"
  <2>1. PICK f : f = IF x.s.kind = "tee" THEN x.s.file \o TakeBytes(x.s.pend, w.n) ELSE x.s.file
    OBVIOUS
  <2>2. f \in Seq(Byte)
    BY <1>2, <1>4, <2>1
  <2>3. PICK t : t = [x.s EXCEPT !.pend = DropBytes(x.s.pend, w.n), !.file = f]
    OBVIOUS
  <2>4. t \in Stage /\ KeepsStage(x.s, t)
    BY <1>1, <1>4, <2>2, <2>3 DEF Stage, KeepsStage, Fit
  <2>5. PICK r : r = IF w.n = 0 THEN "pending_write" ELSE "ready"
    OBVIOUS
  <2>6. r \in Outcome /\ r \in {"ready", "pending_write"} /\ (r = "pending_write" => w.n = 0)
    BY <2>5 DEF Outcome
  <2>7. y = [s |-> t, in |-> x.in, out |-> w.pipe, res |-> r]
    BY <1>1, <1>3, <1>6, <2>1, <2>3, <2>5 DEF DrainPending
  <2>8. Keeps(x, y) /\ y.out = w.pipe /\ y.res = r
    BY <1>1, <1>4, <2>4, <2>6, <2>7, MakeView, PipeKept DEF KeepsOut
  <2> QED BY <1>4, <1>6, <2>6, <2>8 DEF Handed
<1> QED BY <1>5, <1>6

(* poll_stderr and tee_drain_stderr.                                          *)
LEMMA DrainStderrHands ==
  ASSUME Config, NEW x \in ViewType, x.s.se # <<>>, NEW y, y = DrainStderr(x)
  PROVE  Handed(x, y)
<1>1. /\ x.s \in Stage /\ x.in \in PipeType(Byte) /\ x.out \in PipeType(Byte)
      /\ x = [s |-> x.s, in |-> x.in, out |-> x.out, res |-> x.res]
  BY ViewParts
<1>2. x.s.se \in Seq(Byte)
  BY <1>1 DEF Stage
<1>3. PICK w : w = Write(x.out, x.s.se, Cap)
  OBVIOUS
<1>4. /\ KeepsOut(x.out, w.pipe) /\ (w.res = "broken" <=> x.out.read_closed)
      /\ w.n = 0 => w.pipe = x.out
      /\ w.n = 0 /\ w.res # "broken" => x.out.data # <<>>
      /\ DropBytes(x.s.se, w.n) \in Seq(Byte)
  <2>1. Written(x.out, x.s.se, w)
    BY <1>1, <1>2, <1>3, WriteKeeps
  <2> QED BY <2>1 DEF Written
<1>5. CASE w.res = "broken"
  <2>1. y = Finish(x)
    BY <1>3, <1>5 DEF DrainStderr
  <2> QED BY <2>1, FinishKeeps DEF Handed
<1>6. CASE w.res # "broken"
  <2>1. PICK t : t = [x.s EXCEPT !.se = DropBytes(x.s.se, w.n)]
    OBVIOUS
  <2>2. t \in Stage /\ KeepsStage(x.s, t)
    BY <1>1, <1>4, <2>1 DEF Stage, KeepsStage, Fit
  <2>3. PICK r : r = IF w.n = 0 THEN "pending_write" ELSE "ready"
    OBVIOUS
  <2>4. r \in Outcome /\ r \in {"ready", "pending_write"} /\ (r = "pending_write" => w.n = 0)
    BY <2>3 DEF Outcome
  <2>5. y = [s |-> t, in |-> x.in, out |-> w.pipe, res |-> r]
    BY <1>1, <1>3, <1>6, <2>1, <2>3 DEF DrainStderr
  <2>6. Keeps(x, y) /\ y.out = w.pipe /\ y.res = r
    BY <1>1, <1>4, <2>2, <2>4, <2>5, MakeView, PipeKept DEF KeepsOut
  <2> QED BY <1>4, <1>6, <2>4, <2>6 DEF Handed
<1> QED BY <1>5, <1>6

(* A stage with nothing to hand on and more to come goes on to its reader.    *)
LEMMA DeliverHands ==
  ASSUME Config, NEW x \in ViewType, NEW y, y = Deliver(x)
  PROVE  /\ x.s.pend # <<>> \/ x.s.se # <<>> \/ x.s.eof => Handed(x, y)
         /\ ~(x.s.pend # <<>> \/ x.s.se # <<>> \/ x.s.eof) => y = x
<1>1. CASE x.s.pend # <<>>
  <2>1. y = DrainPending(x)
    BY <1>1 DEF Deliver
  <2> QED BY <1>1, <2>1, DrainPendingHands
<1>2. CASE x.s.pend = <<>> /\ x.s.se # <<>>
  <2>1. y = DrainStderr(x)
    BY <1>2 DEF Deliver
  <2> QED BY <1>2, <2>1, DrainStderrHands
<1>3. CASE x.s.pend = <<>> /\ x.s.se = <<>> /\ x.s.eof
  <2>1. y = Finish(x)
    BY <1>3 DEF Deliver
  <2> QED BY <1>3, <2>1, FinishKeeps DEF Handed
<1>4. CASE x.s.pend = <<>> /\ x.s.se = <<>> /\ ~x.s.eof
  BY <1>4 DEF Deliver
<1> QED BY <1>1, <1>2, <1>3, <1>4

(* What one poll of a built-in stage leaves behind: it moved something, or it *)
(* has told the truth about the pipe it waits for; and when it is over, so is *)
(* its use of the pipes, unless it failed.                                    *)
Waits(x, y) ==
    \/ y.res \in {"ready", "exited"}
    \/ y.res = "pending_write" /\ y.out = x.out /\ x.out.data # <<>> /\ ~x.out.read_closed
    \/ y.res = "pending_read" /\ y.out = x.out /\ y.in = x.in
           /\ x.in.data = <<>> /\ ~x.in.write_closed
Tidy(x, first) ==
    x.s.kind \in Buffering /\ ~first /\ (x.s.eof \/ x.s.pend # <<>>) => x.in.read_closed
Serves(x, y, first) ==
    /\ Keeps(x, y) /\ Waits(x, y) /\ (Tidy(x, first) => Tidy(y, first))
    /\ y.res = "exited" /\ Tidy(x, first) =>
           y.out.write_closed /\ (first \/ y.s.rc # 0 \/ y.in.read_closed)

(* A stage that is not buffered serves by handing on, perhaps after it has    *)
(* read; the reading has touched its input only.                              *)
LEMMA HandingServes ==
  ASSUME NEW x \in ViewType, NEW y \in ViewType, NEW z, NEW first,
         Keeps(x, y), y.out = x.out, Handed(y, z), x.s.kind \notin Buffering
  PROVE  Serves(x, z, first)
<1>1. Keeps(x, z)
  BY KeepsTrans DEF Handed
<1>2. z.s.kind \notin Buffering
  BY <1>1 DEF Keeps, KeepsStage
<1> QED BY <1>1, <1>2 DEF Handed, Serves, Waits, Tidy

(* A poll that found nothing to read.                                         *)
LEMMA WaitingServes ==
  ASSUME NEW x \in ViewType, NEW y, NEW first, y = Return(x, "pending_read"),
         x.in.data = <<>>, ~x.in.write_closed
  PROVE  Serves(x, y, first) /\ y.res = "pending_read"
<1>1. y = [s |-> x.s, in |-> x.in, out |-> x.out, res |-> "pending_read"]
  BY DEF Return, ViewType
<1>2. "pending_read" \in Outcome /\ KeepsStage(x.s, x.s) /\ KeepsIn(x.in, x.in)
      /\ KeepsOut(x.out, x.out)
  BY ViewParts, PipeKept DEF Outcome, KeepsStage
<1>3. Keeps(x, y) /\ y.s = x.s /\ y.in = x.in /\ y.out = x.out /\ y.res = "pending_read"
  BY <1>1, <1>2, ViewParts, MakeView
<1> QED BY <1>3 DEF Serves, Waits, Tidy

(* A poll may leave everything as it was.                                     *)
LEMMA KeepsRefl ==
  ASSUME NEW x \in ViewType
  PROVE  Keeps(x, x)
BY ViewParts, PipeKept DEF Keeps, KeepsStage

(* PipeReadProcess::poll and TeePipeProcess::poll.                            *)
LEMMA ReadPollServes ==
  ASSUME Config, NEW x \in ViewType, NEW first, x.s.kind \notin Buffering, x.res = "going",
         NEW z, z = ReadPoll(x)
  PROVE  Serves(x, z, first)
<1>1. /\ x.s \in Stage /\ x.in \in PipeType(Byte) /\ x.out \in PipeType(Byte)
      /\ x.res \in Outcome
      /\ x = [s |-> x.s, in |-> x.in, out |-> x.out, res |-> x.res]
  BY ViewParts
<1> DEFINE r == Read(x.in, Chunk)
           d == Deliver(x)
           eof == (r.res = "eof")
           t == [x.s EXCEPT !.pend = r.bytes, !.eof = eof]
           y == [s |-> t, in |-> r.pipe, out |-> x.out, res |-> "going"]
           busy == x.s.pend # <<>> \/ x.s.se # <<>> \/ x.s.eof
<1>2. z = IF d.res # "going" THEN d
          ELSE IF r.res = "would_block" THEN Return(x, "pending_read") ELSE Deliver(y)
  BY DEF ReadPoll
<1>3. Taken(x.in, r)
  BY <1>1, Constants, ReadKeeps
<1>4. eof \in BOOLEAN
  OBVIOUS
<1>5. (busy => Handed(x, d)) /\ (~busy => d = x)
  BY DeliverHands
<1> HIDE DEF r, d, eof
<1>6. CASE busy
  <2>1. Handed(x, d) /\ z = d
    BY <1>2, <1>5, <1>6 DEF Handed
  <2> QED BY <2>1, KeepsRefl, HandingServes
<1>7. CASE ~busy /\ r.res = "would_block"
  <2>1. z = Return(x, "pending_read")
    BY <1>2, <1>5, <1>7
  <2>2. x.in.data = <<>> /\ ~x.in.write_closed
    BY <1>3, <1>7 DEF Taken
  <2> QED BY <2>1, <2>2, WaitingServes
<1>8. CASE ~busy /\ r.res # "would_block"
  <2>1. z = Deliver(y)
    BY <1>2, <1>5, <1>8
  <2>2. t \in Stage /\ KeepsStage(x.s, t) /\ t.pend = r.bytes /\ t.eof = eof
    BY <1>1, <1>3, <1>4 DEF Stage, KeepsStage, Fit, Taken
  <2> HIDE DEF t
  <2>3. KeepsIn(x.in, r.pipe) /\ r.pipe \in PipeType(Byte) /\ "going" \in Outcome
    BY <1>3 DEF Taken, KeepsIn, Outcome
  <2>4. y = [s |-> t, in |-> r.pipe, out |-> x.out, res |-> "going"]
    OBVIOUS
  <2> HIDE DEF y
  <2>5. Keeps(x, y) /\ y.s = t /\ y.out = x.out
    <3>1. t \in Stage /\ KeepsStage(x.s, t) /\ KeepsOut(x.out, x.out) /\ x.out \in PipeType(Byte)
      BY <1>1, <2>2, PipeKept
    <3> QED BY <2>3, <2>4, <3>1, MakeView
  <2>6. y \in ViewType
    BY <2>5 DEF Keeps
  <2>7. y.s.pend # <<>> \/ y.s.eof
    BY <1>3, <1>8, <2>2, <2>5 DEF Taken, eof
  <2>8. Handed(y, z)
    BY <2>1, <2>6, <2>7, DeliverHands
  <2> QED BY <2>5, <2>6, <2>8, HandingServes
<1> QED BY <1>6, <1>7, <1>8

(* The poll of a first stage whose reader fails.                              *)
LEMMA ReadFailsServes ==
  ASSUME Config, NEW x \in ViewType, NEW first, x.s.kind \notin Buffering, NEW i,
         NEW z, z = ReadFails(x, i)
  PROVE  Serves(x, z, first)
<1>1. /\ x.s \in Stage /\ x.in \in PipeType(Byte) /\ x.out \in PipeType(Byte)
      /\ x.res \in Outcome
      /\ x = [s |-> x.s, in |-> x.in, out |-> x.out, res |-> x.res]
  BY ViewParts
<1> DEFINE e == x.s.se \o Diagnostic(i)
           t == [x.s EXCEPT !.rc = 1, !.eof = TRUE, !.se = e]
           y == [x EXCEPT !.s = t]
<1>2. z = Deliver(y)
  BY DEF ReadFails
<1>3. e \in Seq(Byte)
  <2>1. x.s.se \in Seq(Byte) /\ Diagnostic(i) \in Seq(Byte)
    BY <1>1, Constants DEF Stage
  <2> QED BY <2>1
<1>4. y = [s |-> t, in |-> x.in, out |-> x.out, res |-> x.res]
  BY <1>1 DEF ViewType
<1> HIDE DEF e, y
<1>5. t \in Stage /\ KeepsStage(x.s, t) /\ t.eof
  BY <1>1, <1>3 DEF Stage, KeepsStage, Fit
<1> HIDE DEF t
<1>6. Keeps(x, y) /\ y.s = t /\ y.out = x.out
  BY <1>1, <1>4, <1>5, MakeView, PipeKept
<1>7. y \in ViewType
  BY <1>6 DEF Keeps
<1>8. Handed(y, z)
  BY <1>2, <1>5, <1>6, <1>7, DeliverHands
<1> QED BY <1>6, <1>7, <1>8, HandingServes

(* HeadPipeProcess.                                                           *)
LEMMA HeadFlushHands ==
  ASSUME Config, NEW x \in ViewType, x.s.pend # <<>>, NEW z, z = HeadFlush(x)
  PROVE  Handed(x, z)
<1> DEFINE d == DrainPending(x)
<1>1. Handed(x, d)
  BY DrainPendingHands
<1>2. z = IF d.res = "ready" /\ d.s.pend = <<>> /\ d.s.eof THEN Finish(d) ELSE d
  BY DEF HeadFlush
<1> HIDE DEF d
<1>3. CASE z = Finish(d)
  <2>1. d \in ViewType /\ Keeps(x, d)
    BY <1>1 DEF Handed, Keeps
  <2>2. Keeps(d, z) /\ z.res = "exited" /\ z.out.write_closed /\ z.in.read_closed
    BY <1>3, <2>1, FinishKeeps
  <2>3. Keeps(x, z)
    BY <2>1, <2>2, KeepsTrans
  <2> QED BY <2>2, <2>3 DEF Handed
<1> QED BY <1>1, <1>2, <1>3

(* HeadPipeProcess::poll.                                                     *)
LEMMA HeadPollServes ==
  ASSUME Config, NEW x \in ViewType, NEW first, x.s.kind \notin Buffering,
         NEW z, z = HeadPoll(x)
  PROVE  Serves(x, z, first)
<1>1. /\ x.s \in Stage /\ x.in \in PipeType(Byte) /\ x.out \in PipeType(Byte)
      /\ x.res \in Outcome
      /\ x = [s |-> x.s, in |-> x.in, out |-> x.out, res |-> x.res]
  BY ViewParts
<1> DEFINE r == Read(x.in, 1)
           more == IF x.s.left > 0 THEN x.s.left - 1 ELSE 0
           p == IF more = 0 THEN CloseRead(r.pipe) ELSE r.pipe
           eof == (more = 0)
           t == [x.s EXCEPT !.pend = r.bytes, !.left = more, !.eof = eof]
           y == [s |-> t, in |-> p, out |-> x.out, res |-> "going"]
<1>2. z = IF x.s.pend # <<>> THEN HeadFlush(x)
          ELSE IF x.s.eof \/ r.res = "eof" THEN Finish(x)
          ELSE IF r.res = "would_block" THEN Return(x, "pending_read")
          ELSE HeadFlush(y)
  BY DEF HeadPoll
<1>3. Taken(x.in, r)
  BY <1>1, Constants, ReadKeeps
<1>4. more \in Nat
  <2>1. x.s.left \in Nat
    BY <1>1 DEF Stage
  <2> QED BY <2>1
<1>5. eof \in BOOLEAN
  OBVIOUS
<1> HIDE DEF r, more, eof, p, t
<1>6. "going" \in Outcome
  BY DEF Outcome
<1>7. p \in PipeType(Byte) /\ KeepsIn(x.in, p)
  <2>1. r.pipe \in PipeType(Byte) /\ KeepsIn(x.in, r.pipe)
    BY <1>3 DEF Taken, KeepsIn
  <2>2. /\ CloseRead(r.pipe) \in PipeType(Byte) /\ CloseRead(r.pipe).data = r.pipe.data
        /\ CloseRead(r.pipe).read_closed
        /\ CloseRead(r.pipe).write_closed = r.pipe.write_closed
    BY <2>1, CloseFacts
  <2> QED BY <2>1, <2>2 DEF KeepsIn, p
<1>8. t \in Stage /\ KeepsStage(x.s, t) /\ t.pend = r.bytes
  BY <1>1, <1>3, <1>4, <1>5 DEF Stage, KeepsStage, Fit, Taken, t
<1>9. y = [s |-> t, in |-> p, out |-> x.out, res |-> "going"]
  OBVIOUS
<1> HIDE DEF y
<1>10. Keeps(x, y) /\ y.s = t /\ y.out = x.out
  <2>1. t \in Stage /\ KeepsStage(x.s, t) /\ KeepsOut(x.out, x.out) /\ x.out \in PipeType(Byte)
    BY <1>1, <1>8, PipeKept
  <2> QED BY <1>6, <1>7, <1>9, <2>1, MakeView
<1>11. y \in ViewType
  BY <1>10 DEF Keeps
<1>12. CASE x.s.pend # <<>>
  <2>1. Handed(x, z)
    BY <1>2, <1>12, HeadFlushHands
  <2> QED BY <2>1, KeepsRefl, HandingServes
<1>13. CASE x.s.pend = <<>> /\ (x.s.eof \/ r.res = "eof")
  <2>1. Handed(x, z)
    BY <1>2, <1>13, FinishKeeps DEF Handed
  <2> QED BY <2>1, KeepsRefl, HandingServes
<1>14. CASE x.s.pend = <<>> /\ ~(x.s.eof \/ r.res = "eof") /\ r.res = "would_block"
  <2>1. z = Return(x, "pending_read")
    BY <1>2, <1>14
  <2>2. x.in.data = <<>> /\ ~x.in.write_closed
    BY <1>3, <1>14 DEF Taken
  <2> QED BY <2>1, <2>2, WaitingServes
<1>15. CASE x.s.pend = <<>> /\ ~(x.s.eof \/ r.res = "eof") /\ r.res # "would_block"
  <2>1. z = HeadFlush(y)
    BY <1>2, <1>15
  <2>2. y.s.pend # <<>>
    BY <1>3, <1>8, <1>10, <1>15 DEF Taken
  <2>3. Handed(y, z)
    BY <1>11, <2>1, <2>2, HeadFlushHands
  <2> QED BY <1>10, <1>11, <2>3, HandingServes
<1> QED BY <1>12, <1>13, <1>14, <1>15

-----------------------------------------------------------------------------
(* BufferedPipeProcess: it has closed its input before its command runs.      *)

(* Returning an outcome touches neither the stage nor its pipes.              *)
LEMMA ReturnKeeps ==
  ASSUME NEW x \in ViewType, NEW r \in Outcome, NEW y, y = Return(x, r)
  PROVE  Keeps(x, y) /\ y.s = x.s /\ y.in = x.in /\ y.out = x.out /\ y.res = r
<1>1. y = [s |-> x.s, in |-> x.in, out |-> x.out, res |-> r]
  BY DEF Return, ViewType
<1>2. /\ x.s \in Stage /\ x.in \in PipeType(Byte) /\ x.out \in PipeType(Byte)
      /\ KeepsStage(x.s, x.s) /\ KeepsIn(x.in, x.in) /\ KeepsOut(x.out, x.out)
  BY ViewParts, PipeKept DEF KeepsStage
<1> QED BY <1>1, <1>2, MakeView

(* A poll that touches the stage only.                                        *)
LEMMA PutStage ==
  ASSUME NEW x \in ViewType, NEW t \in Stage, KeepsStage(x.s, t), NEW y, y = [x EXCEPT !.s = t]
  PROVE  Keeps(x, y) /\ y.s = t /\ y.in = x.in /\ y.out = x.out /\ y.res = x.res
<1>1. y = [s |-> t, in |-> x.in, out |-> x.out, res |-> x.res]
  BY DEF ViewType
<1>2. /\ x.in \in PipeType(Byte) /\ x.out \in PipeType(Byte) /\ x.res \in Outcome
      /\ KeepsIn(x.in, x.in) /\ KeepsOut(x.out, x.out)
  BY ViewParts, PipeKept
<1> QED BY <1>1, <1>2, MakeView

(* close_write and finished, of a buffered stage.                             *)
LEMMA BufferedEndKeeps ==
  ASSUME NEW x \in ViewType, NEW y, y = BufferedEnd(x)
  PROVE  /\ Keeps(x, y) /\ y.res = "exited" /\ y.out.write_closed /\ y.in = x.in
         /\ y.s.rc = x.s.rc /\ y.s.eof = x.s.eof /\ y.s.pend = x.s.pend
<1>1. PICK t : t = [x.s EXCEPT !.fin = TRUE]
  OBVIOUS
<1>2. t \in Stage /\ KeepsStage(x.s, t) /\ t.rc = x.s.rc /\ t.eof = x.s.eof /\ t.pend = x.s.pend
  BY ZenonT(40), <1>1, ViewParts DEF Stage, KeepsStage, Fit
<1>3. y = [s |-> t, in |-> x.in, out |-> CloseWrite(x.out), res |-> "exited"]
  BY <1>1 DEF BufferedEnd
<1>4. /\ x.in \in PipeType(Byte) /\ KeepsIn(x.in, x.in)
      /\ CloseWrite(x.out) \in PipeType(Byte) /\ CloseWrite(x.out).write_closed
      /\ KeepsOut(x.out, CloseWrite(x.out))
  BY ViewParts, CloseFacts, PipeKept
<1>5. "exited" \in Outcome
  BY DEF Outcome
<1>6. Keeps(x, y) /\ y.s = t /\ y.in = x.in /\ y.out = CloseWrite(x.out) /\ y.res = "exited"
  BY <1>2, <1>3, <1>4, <1>5, MakeView
<1> QED BY <1>2, <1>4, <1>6

(* A stage that ends after its command has run.                               *)
LEMMA EndServes ==
  ASSUME NEW x \in ViewType, NEW y \in ViewType, NEW z, NEW first, Keeps(x, y),
         z = BufferedEnd(y), Tidy(x, first) => (first \/ y.s.rc # 0 \/ y.in.read_closed),
         Tidy(x, first) => Tidy(y, first)
  PROVE  Serves(x, z, first)
<1>1. /\ Keeps(y, z) /\ z.res = "exited" /\ z.out.write_closed /\ z.in = y.in
      /\ z.s.rc = y.s.rc /\ z.s.eof = y.s.eof /\ z.s.pend = y.s.pend
  BY BufferedEndKeeps
<1>2. Keeps(x, z)
  BY <1>1, KeepsTrans
<1>3. z.s.kind = y.s.kind
  BY <1>1 DEF Keeps, KeepsStage
<1> QED BY <1>1, <1>2, <1>3 DEF Serves, Waits, Tidy

(* run_command, at the end of the input, which has been closed.               *)
LEMMA RunCommandServes ==
  ASSUME NEW x \in ViewType, NEW y \in ViewType, NEW z, NEW first, NEW input \in Seq(Byte),
         Keeps(x, y), y.s.kind \in Buffering, first \/ y.in.read_closed,
         z = RunCommand(y, input)
  PROVE  Serves(x, z, first)
<1> DEFINE t == [y.s EXCEPT !.staging = FALSE, !.eof = TRUE, !.pend = input, !.file = <<>>]
           u == [y EXCEPT !.s = t]
<1>1. z = IF input = <<>> THEN BufferedEnd(u) ELSE Return(u, "ready")
  BY DEF RunCommand
<1>2. t \in Stage /\ KeepsStage(y.s, t)
  <2>1. y.s \in Stage /\ <<>> \in Seq(Byte)
    BY ViewParts
  <2> QED BY <2>1 DEF Stage, KeepsStage, Fit
<1> HIDE DEF t
<1>3. Keeps(y, u) /\ u.s = t /\ u.in = y.in
  BY <1>2, PutStage
<1> HIDE DEF u
<1>4. u \in ViewType /\ Keeps(x, u) /\ (first \/ u.in.read_closed)
  BY <1>3, KeepsTrans DEF Keeps
<1>5. CASE input = <<>>
  <2>1. z = BufferedEnd(u)
    BY <1>1, <1>5
  <2>2. Tidy(u, first)
    BY <1>4 DEF Tidy
  <2> QED BY <1>4, <2>1, <2>2, EndServes
<1>6. CASE input # <<>>
  <2>1. z = Return(u, "ready") /\ "ready" \in Outcome
    BY <1>1, <1>6 DEF Outcome
  <2>2. Keeps(u, z) /\ z.in = u.in /\ z.res = "ready"
    BY <1>4, <2>1, ReturnKeeps
  <2>3. Keeps(x, z)
    BY <1>4, <2>2, KeepsTrans
  <2> QED BY <1>4, <2>2, <2>3 DEF Serves, Waits, Tidy
<1> QED BY <1>5, <1>6

(* A buffered stage hands on the output of its command.                       *)
LEMMA BufferedDrainServes ==
  ASSUME Config, NEW x \in ViewType, NEW z, NEW first, x.s.pend # <<>>,
         x.s.kind \in Buffering, z = BufferedDrain(x)
  PROVE  Serves(x, z, first)
<1>1. /\ x.s \in Stage /\ x.in \in PipeType(Byte) /\ x.out \in PipeType(Byte)
  BY ViewParts
<1>2. x.s.pend \in Seq(Byte)
  BY <1>1 DEF Stage
<1> DEFINE w == Write(x.out, x.s.pend, Cap)
           t == [x.s EXCEPT !.pend = DropBytes(@, w.n)]
           y == [s |-> t, in |-> x.in, out |-> w.pipe, res |-> "going"]
           r == IF w.n = 0 THEN "pending_write" ELSE "ready"
<1>3. z = IF w.res = "broken" \/ y.s.pend = <<>> THEN BufferedEnd(y) ELSE Return(y, r)
  BY DEF BufferedDrain
<1>4. Written(x.out, x.s.pend, w)
  BY <1>1, <1>2, WriteKeeps
<1>5. r \in Outcome /\ r \in {"ready", "pending_write"} /\ (r = "pending_write" => w.n = 0)
  BY DEF Outcome
<1> HIDE DEF w, r
<1>6. t \in Stage /\ KeepsStage(x.s, t) /\ t.eof = x.s.eof /\ t.rc = x.s.rc
  BY <1>1, <1>4 DEF Stage, KeepsStage, Fit, Written
<1>7. y = [s |-> t, in |-> x.in, out |-> w.pipe, res |-> "going"]
  OBVIOUS
<1> HIDE DEF t, y
<1>8. /\ KeepsOut(x.out, w.pipe) /\ w.pipe \in PipeType(Byte) /\ KeepsIn(x.in, x.in)
      /\ "going" \in Outcome
  BY <1>1, <1>4, PipeKept DEF Written, KeepsOut, Outcome
<1>9. Keeps(x, y) /\ y.s = t /\ y.in = x.in /\ y.out = w.pipe
  BY <1>1, <1>6, <1>7, <1>8, MakeView
<1>10. y \in ViewType /\ y.s.kind = x.s.kind
  BY <1>9 DEF Keeps, KeepsStage
<1>11. Tidy(x, first) => Tidy(y, first) /\ (first \/ y.in.read_closed)
  BY <1>9 DEF Tidy
<1>12. CASE w.res = "broken" \/ y.s.pend = <<>>
  <2>1. z = BufferedEnd(y)
    BY <1>3, <1>12
  <2> QED BY <1>9, <1>10, <1>11, <2>1, EndServes
<1>13. CASE ~(w.res = "broken" \/ y.s.pend = <<>>)
  <2>1. z = Return(y, r)
    BY <1>3, <1>13
  <2>2. Keeps(y, z) /\ z.s = y.s /\ z.in = y.in /\ z.out = y.out /\ z.res = r
    BY <1>5, <1>10, <2>1, ReturnKeeps
  <2>3. Keeps(x, z)
    BY <1>9, <1>10, <2>2, KeepsTrans
  <2>4. Waits(x, z)
    BY <1>4, <1>5, <1>9, <1>13, <2>2 DEF Waits, Written
  <2>5. Tidy(x, first) => Tidy(z, first)
    BY <1>11, <2>2 DEF Tidy
  <2>6. z.res # "exited"
    BY <1>5, <2>2
  <2> QED BY <2>3, <2>4, <2>5, <2>6 DEF Serves
<1> QED BY <1>12, <1>13

(* emit_input_limit_error and emit_error: the input stays open, the status    *)
(* tells.                                                                     *)
LEMMA BufferedRefusesServes ==
  ASSUME NEW x \in ViewType, NEW y \in ViewType, NEW z, NEW first, NEW status \in Nat \ {0},
         Keeps(x, y), y.s = x.s, z = BufferedRefuses(y, status)
  PROVE  Serves(x, z, first)
<1> DEFINE t == [y.s EXCEPT !.rc = status]
           u == [y EXCEPT !.s = t]
           t2 == [u.s EXCEPT !.staging = FALSE]
           v == [u EXCEPT !.s = t2]
<1>1. z = BufferedEnd(v)
  BY DEF BufferedRefuses, BufferedClose
<1>2. y.s \in Stage
  BY ViewParts
<1>3. t \in Stage /\ KeepsStage(y.s, t) /\ t.eof = y.s.eof /\ t.pend = y.s.pend /\ t.rc = status
  BY <1>2 DEF Stage, KeepsStage, Fit
<1> HIDE DEF t
<1>4. Keeps(y, u) /\ u.s = t /\ u.in = y.in
  BY <1>3, PutStage
<1> HIDE DEF u
<1>5. u \in ViewType
  BY <1>4 DEF Keeps
<1>6. t2 \in Stage /\ KeepsStage(u.s, t2) /\ t2.eof = t.eof /\ t2.pend = t.pend /\ t2.rc = status
  BY <1>3, <1>4 DEF Stage, KeepsStage, Fit
<1> HIDE DEF t2
<1>7. Keeps(u, v) /\ v.s = t2 /\ v.in = u.in
  BY <1>5, <1>6, PutStage
<1> HIDE DEF v
<1>8. v \in ViewType /\ Keeps(x, v)
  <2>1. Keeps(x, u)
    BY <1>4, <1>5, KeepsTrans
  <2> QED BY <1>5, <1>7, <2>1, KeepsTrans DEF Keeps
<1>9. v.s.rc # 0
  BY <1>6, <1>7
<1>10. Tidy(x, first) => Tidy(v, first)
  <2>1. v.s.eof = x.s.eof /\ v.s.pend = x.s.pend /\ (x.in.read_closed => v.in.read_closed)
    BY <1>3, <1>4, <1>6, <1>7 DEF Keeps, KeepsIn
  <2>2. v.s.kind = x.s.kind
    BY <1>8 DEF Keeps, KeepsStage
  <2> QED BY <2>1, <2>2 DEF Tidy
<1> QED BY <1>1, <1>8, <1>9, <1>10, EndServes

(* buffered_pump_input, whether the input is staged, ends or is refused.      *)
LEMMA BufferedPumpServes ==
  ASSUME Config, NEW x \in ViewType, NEW z, NEW first \in BOOLEAN, NEW broken \in BOOLEAN,
         x.s.kind \in Buffering, ~x.s.eof, x.s.pend = <<>>, z = BufferedPump(x, first, broken)
  PROVE  Serves(x, z, first)
<1>1. x.s \in Stage /\ x.in \in PipeType(Byte) /\ x.out \in PipeType(Byte)
  BY ViewParts
<1>2. x.s.file \in Seq(Byte)
  BY <1>1 DEF Stage
<1> DEFINE r == Read(x.in, Chunk)
           y == [x EXCEPT !.in = r.pipe]
           c == [y EXCEPT !.in = CloseRead(@)]
           t == [y.s EXCEPT !.file = @ \o r.bytes, !.staging = TRUE]
           f == [y EXCEPT !.s = t]
<1>3. z = IF first THEN RunCommand(x, Source)
          ELSE IF r.res = "eof" THEN RunCommand(c, x.s.file)
          ELSE IF r.res = "would_block" THEN Return(x, "pending_read")
          ELSE IF OverInput(x.s, r.bytes) THEN BufferedRefuses(y, 125)
          ELSE IF broken THEN BufferedRefuses(y, 1)
          ELSE Return(f, "ready")
  BY DEF BufferedPump
<1>4. Taken(x.in, r)
  BY <1>1, Constants, ReadKeeps
<1> HIDE DEF r
<1>5. r.pipe \in PipeType(Byte) /\ KeepsIn(x.in, r.pipe)
  BY <1>4 DEF Taken, KeepsIn
<1>6. Keeps(x, y) /\ y.s = x.s /\ y.in = r.pipe /\ y.out = x.out
  <2>1. y = [s |-> x.s, in |-> r.pipe, out |-> x.out, res |-> x.res]
    BY DEF ViewType
  <2>2. /\ x.res \in Outcome /\ KeepsStage(x.s, x.s) /\ KeepsOut(x.out, x.out)
    BY <1>1, ViewParts, PipeKept DEF KeepsStage
  <2> HIDE DEF y
  <2> QED BY <1>1, <1>5, <2>1, <2>2, MakeView
<1> HIDE DEF y
<1>7. y \in ViewType
  BY <1>6 DEF Keeps
<1>8. CASE first
  <2>1. z = RunCommand(x, Source)
    BY <1>3, <1>8
  <2> QED BY <1>8, <2>1, Constants, KeepsRefl, RunCommandServes
<1>9. CASE ~first /\ r.res = "eof"
  <2>1. z = RunCommand(c, x.s.file)
    BY <1>3, <1>9
  <2>2. c = [s |-> y.s, in |-> CloseRead(y.in), out |-> y.out, res |-> y.res]
    BY <1>7 DEF ViewType
  <2>3. /\ y.res \in Outcome /\ KeepsStage(y.s, y.s) /\ KeepsOut(y.out, y.out)
        /\ CloseRead(y.in) \in PipeType(Byte) /\ CloseRead(y.in).read_closed
        /\ KeepsIn(y.in, CloseRead(y.in)) /\ y.s \in Stage /\ y.out \in PipeType(Byte)
    BY <1>7, ViewParts, PipeKept, CloseFacts DEF KeepsStage
  <2> HIDE DEF c
  <2>4. Keeps(y, c) /\ c.in = CloseRead(y.in)
    BY <2>2, <2>3, MakeView
  <2>5. Keeps(x, c) /\ c \in ViewType /\ c.s.kind \in Buffering /\ c.in.read_closed
    <3>1. Keeps(x, c)
      BY <1>6, <1>7, <2>4, KeepsTrans
    <3> QED BY <2>3, <2>4, <3>1 DEF Keeps, KeepsStage
  <2> QED BY <1>2, <2>1, <2>5, RunCommandServes
<1>10. CASE ~first /\ r.res = "would_block"
  <2>1. z = Return(x, "pending_read")
    BY <1>3, <1>10
  <2>2. x.in.data = <<>> /\ ~x.in.write_closed
    BY <1>4, <1>10 DEF Taken
  <2> QED BY <2>1, <2>2, WaitingServes
<1>11. CASE z = BufferedRefuses(y, 125)
  BY <1>6, <1>7, <1>11, BufferedRefusesServes
<1>12. CASE z = BufferedRefuses(y, 1)
  BY <1>6, <1>7, <1>12, BufferedRefusesServes
<1>13. CASE z = Return(f, "ready")
  <2>1. r.bytes \in Seq(Byte) /\ y.s \in Stage /\ "ready" \in Outcome
    BY <1>4, <1>7, ViewParts DEF Taken, Outcome
  <2> DEFINE g == y.s.file \o r.bytes
  <2>2. g \in Seq(Byte)
    BY <1>2, <1>6, <2>1
  <2>3. y.s.kind \in Buffering
    BY <1>6
  <2>4. t = [y.s EXCEPT !.file = g, !.staging = TRUE]
    OBVIOUS
  <2> HIDE DEF g, t
  <2>5. t \in Stage /\ KeepsStage(y.s, t) /\ t.eof = y.s.eof /\ t.pend = y.s.pend
    BY <2>1, <2>2, <2>3, <2>4 DEF Stage, KeepsStage, Fit
  <2>6. Keeps(y, f) /\ f.s = t
    BY <1>7, <2>5, PutStage
  <2> HIDE DEF f
  <2>7. f \in ViewType
    BY <2>6 DEF Keeps
  <2>8. Keeps(f, z) /\ z.s = f.s /\ z.res = "ready"
    BY <1>13, <2>1, <2>7, ReturnKeeps
  <2>9. Keeps(x, z)
    BY <1>6, <1>7, <2>6, <2>7, <2>8, KeepsTrans
  <2>10. ~z.s.eof /\ z.s.pend = <<>>
    BY <1>6, <2>5, <2>6, <2>8
  <2> QED BY <2>8, <2>9, <2>10 DEF Serves, Waits, Tidy
<1> QED BY <1>3, <1>8, <1>9, <1>10, <1>11, <1>12, <1>13

(* BufferedPipeProcess::poll.                                                 *)
LEMMA BufferedPollServes ==
  ASSUME Config, NEW x \in ViewType, NEW z, NEW first \in BOOLEAN, NEW broken \in BOOLEAN,
         x.s.kind \in Buffering, z = BufferedPoll(x, first, broken)
  PROVE  Serves(x, z, first)
<1>1. CASE x.s.pend # <<>>
  <2>1. z = BufferedDrain(x)
    BY <1>1 DEF BufferedPoll
  <2> QED BY <1>1, <2>1, BufferedDrainServes
<1>2. CASE x.s.pend = <<>> /\ x.s.eof
  <2>1. z = BufferedEnd(x)
    BY <1>2 DEF BufferedPoll
  <2>2. Tidy(x, first) => (first \/ x.s.rc # 0 \/ x.in.read_closed)
    BY <1>2 DEF Tidy
  <2> QED BY <2>1, <2>2, KeepsRefl, EndServes
<1>3. CASE x.s.pend = <<>> /\ ~x.s.eof
  <2>1. z = BufferedPump(x, first, broken)
    BY <1>3 DEF BufferedPoll
  <2> QED BY <1>3, <2>1, BufferedPumpServes
<1> QED BY <1>1, <1>2, <1>3

-----------------------------------------------------------------------------
(* ExternalPipeProcess.                                                       *)

(* cancel_process.                                                            *)
LEMMA CancelKeeps ==
  ASSUME NEW x \in ViewType, NEW status \in Nat, NEW y, y = CancelProcess(x, status)
  PROVE  Keeps(x, y)
<1> DEFINE code == IF x.s.status # NoStatus THEN x.s.status ELSE status
           t == [x.s EXCEPT !.live = FALSE, !.stdin = <<>>, !.sclosed = TRUE,
                            !.status = code, !.rc = code, !.fin = TRUE]
<1>1. y = [s |-> t, in |-> CloseRead(x.in), out |-> CloseWrite(x.out), res |-> "exited"]
  BY DEF CancelProcess
<1>2. x.s \in Stage /\ <<>> \in Seq(Byte)
  BY ViewParts
<1>3. code \in Nat /\ code \in Nat \cup {NoStatus}
  BY <1>2 DEF Stage, NoStatus
<1> HIDE DEF code
<1>4. t \in Stage /\ KeepsStage(x.s, t)
  BY <1>2, <1>3 DEF Stage, KeepsStage, Fit
<1> HIDE DEF t
<1>5. /\ CloseRead(x.in) \in PipeType(Byte) /\ CloseWrite(x.out) \in PipeType(Byte)
      /\ KeepsIn(x.in, CloseRead(x.in)) /\ KeepsOut(x.out, CloseWrite(x.out))
      /\ "exited" \in Outcome
  BY ViewParts, CloseFacts, PipeKept DEF Outcome
<1> QED BY <1>1, <1>4, <1>5, MakeView

(* The end of an external stage: close_write, finished.                       *)
LEMMA ExternalEndKeeps ==
  ASSUME NEW x \in ViewType, NEW y, y = ExternalEnd(x)
  PROVE  Keeps(x, y)
<1>1. y = BufferedEnd(x)
  BY DEF ExternalEnd, BufferedEnd
<1> QED BY <1>1, BufferedEndKeeps

(* A part of the output reaches the pipe.                                     *)
LEMMA FlushPartKeeps ==
  ASSUME Config, NEW x \in ViewType, NEW buf \in Seq(Byte), NEW w, w = FlushPart(x, buf),
         NEW t \in Stage, KeepsStage(x.s, t),
         NEW y, y = [s |-> t, in |-> x.in, out |-> w.pipe, res |-> "going"]
  PROVE  Keeps(x, y) /\ y.s = t /\ y.in = x.in
<1>1. /\ x.in \in PipeType(Byte) /\ x.out \in PipeType(Byte) /\ KeepsIn(x.in, x.in)
      /\ "going" \in Outcome
  BY ViewParts, PipeKept DEF Outcome
<1>2. Written(x.out, buf, w)
  BY <1>1, WriteKeeps DEF FlushPart
<1>3. w.pipe \in PipeType(Byte) /\ KeepsOut(x.out, w.pipe)
  BY <1>2 DEF Written, KeepsOut
<1> QED BY <1>1, <1>3, MakeView

(* flush_pending_output, its stdout and its stderr part.                      *)
LEMMA FlushKeeps ==
  ASSUME Config, NEW x \in ViewType, NEW f, f = Flush(x)
  PROVE  Keeps(x, f)
<1>1. x.s \in Stage /\ x.out \in PipeType(Byte)
  BY ViewParts
<1>2. x.s.pend \in Seq(Byte) /\ x.s.se \in Seq(Byte)
  BY <1>1 DEF Stage
<1> DEFINE a == FlushPart(x, x.s.pend)
           t == [x.s EXCEPT !.pend = DropBytes(@, a.n)]
           y == [s |-> t, in |-> x.in, out |-> a.pipe, res |-> "going"]
           b == FlushPart(y, x.s.se)
           u == [y.s EXCEPT !.se = DropBytes(@, b.n)]
           z == [s |-> u, in |-> x.in, out |-> b.pipe, res |-> "going"]
<1>3. \/ f = CancelProcess(x, 141) \/ f = Return(y, "pending_write")
      \/ f = CancelProcess(y, 141) \/ f = Return(z, "pending_write") \/ f = z
  BY DEF Flush
<1>4. Written(x.out, x.s.pend, a)
  BY <1>1, <1>2, WriteKeeps DEF FlushPart
<1>5. t \in Stage /\ KeepsStage(x.s, t) /\ t.se = x.s.se
  <2> HIDE DEF a
  <2> QED BY <1>1, <1>4 DEF Stage, KeepsStage, Fit, Written
<1>6. a = FlushPart(x, x.s.pend) /\ y = [s |-> t, in |-> x.in, out |-> a.pipe, res |-> "going"]
  OBVIOUS
<1> HIDE DEF a, t, y
<1>7. Keeps(x, y) /\ y.s = t /\ y.in = x.in
  BY <1>2, <1>5, <1>6, FlushPartKeeps
<1>8. y \in ViewType /\ y.s \in Stage /\ y.s.se = x.s.se
  BY <1>5, <1>7 DEF Keeps
<1>9. y.out \in PipeType(Byte)
  BY <1>8, ViewParts
<1>10. Written(y.out, x.s.se, b)
  BY <1>2, <1>9, WriteKeeps DEF FlushPart
<1>11. u \in Stage /\ KeepsStage(y.s, u)
  <2> HIDE DEF b
  <2> QED BY <1>8, <1>10 DEF Stage, KeepsStage, Fit, Written
<1>12. b = FlushPart(y, x.s.se) /\ z = [s |-> u, in |-> y.in, out |-> b.pipe, res |-> "going"]
  BY <1>7
<1> HIDE DEF b, u, z
<1>13. Keeps(y, z)
  BY <1>2, <1>8, <1>11, <1>12, FlushPartKeeps
<1>14. z \in ViewType /\ Keeps(x, z)
  BY <1>7, <1>8, <1>13, KeepsTrans DEF Keeps
<1>15. "pending_write" \in Outcome
  BY DEF Outcome
<1>16. CASE f = CancelProcess(x, 141)
  BY <1>16, CancelKeeps
<1>17. CASE f = Return(y, "pending_write")
  <2>1. Keeps(y, f)
    BY <1>8, <1>15, <1>17, ReturnKeeps
  <2> QED BY <1>7, <1>8, <2>1, KeepsTrans
<1>18. CASE f = CancelProcess(y, 141)
  <2>1. Keeps(y, f)
    BY <1>8, <1>18, CancelKeeps
  <2> QED BY <1>7, <1>8, <2>1, KeepsTrans
<1>19. CASE f = Return(z, "pending_write")
  <2>1. Keeps(z, f)
    BY <1>14, <1>15, <1>19, ReturnKeeps
  <2> QED BY <1>14, <2>1, KeepsTrans
<1> QED BY <1>3, <1>14, <1>16, <1>17, <1>18, <1>19

(* fail: the child is cancelled and the diagnostic flushed.                   *)
LEMMA FailKeeps ==
  ASSUME Config, NEW x \in ViewType, NEW status \in Nat, NEW i, NEW z, z = Fail(x, status, i)
  PROVE  Keeps(x, z)
<1>1. x.s \in Stage /\ x.in \in PipeType(Byte) /\ x.out \in PipeType(Byte)
  BY ViewParts
<1> DEFINE e == x.s.se \o Diagnostic(i)
           t == [x.s EXCEPT !.live = FALSE, !.stdin = <<>>, !.sclosed = TRUE,
                            !.status = status, !.rc = status, !.eof = TRUE, !.se = e]
           y == [s |-> t, in |-> CloseRead(x.in), out |-> x.out, res |-> "going"]
           f == Flush(y)
<1>2. z = Return(f, "pending_write") \/ z = ExternalEnd(f)
  BY DEF Fail
<1>3. e \in Seq(Byte)
  <2>1. x.s.se \in Seq(Byte) /\ Diagnostic(i) \in Seq(Byte)
    BY <1>1, Constants DEF Stage
  <2> QED BY <2>1
<1> HIDE DEF e
<1>4. t \in Stage /\ KeepsStage(x.s, t)
  <2>1. <<>> \in Seq(Byte)
    OBVIOUS
  <2> QED BY <1>1, <1>3, <2>1 DEF Stage, KeepsStage, Fit
<1> HIDE DEF t
<1>5. y = [s |-> t, in |-> CloseRead(x.in), out |-> x.out, res |-> "going"]
  OBVIOUS
<1> HIDE DEF y
<1>6. /\ CloseRead(x.in) \in PipeType(Byte) /\ KeepsIn(x.in, CloseRead(x.in))
      /\ KeepsOut(x.out, x.out) /\ "going" \in Outcome
  BY <1>1, CloseFacts, PipeKept DEF Outcome
<1>7. Keeps(x, y)
  BY <1>1, <1>4, <1>5, <1>6, MakeView
<1>8. y \in ViewType
  BY <1>7 DEF Keeps
<1>9. Keeps(y, f)
  BY <1>8, FlushKeeps
<1> HIDE DEF f
<1>10. f \in ViewType /\ "pending_write" \in Outcome
  BY <1>9 DEF Keeps, Outcome
<1>11. Keeps(f, z)
  BY <1>2, <1>10, ReturnKeeps, ExternalEndKeeps
<1> QED BY <1>7, <1>8, <1>9, <1>10, <1>11, KeepsTrans

(* fill_stdin.                                                                *)
LEMMA FillStdinKeeps ==
  ASSUME Config, NEW x \in ViewType, NEW first \in BOOLEAN, NEW y, y = FillStdin(x, first)
  PROVE  Keeps(x, y)
<1>1. x.s \in Stage /\ x.in \in PipeType(Byte) /\ x.out \in PipeType(Byte)
  BY ViewParts
<1> DEFINE r == Read(x.in, Chunk)
           t == [x.s EXCEPT !.sclosed = TRUE]
           u == [x.s EXCEPT !.stdin = r.bytes]
           p == IF first THEN x.in ELSE CloseRead(x.in)
<1>2. \/ y = x
      \/ y = [s |-> t, in |-> p, out |-> x.out, res |-> "going"]
      \/ y = [s |-> u, in |-> r.pipe, out |-> x.out, res |-> "going"]
  BY DEF FillStdin
<1>3. Taken(x.in, r)
  BY <1>1, Constants, ReadKeeps
<1> HIDE DEF r
<1>4. t \in Stage /\ KeepsStage(x.s, t) /\ u \in Stage /\ KeepsStage(x.s, u)
  BY <1>1, <1>3 DEF Stage, KeepsStage, Fit, Taken
<1>5. p \in PipeType(Byte) /\ KeepsIn(x.in, p)
  BY <1>1, CloseFacts, PipeKept
<1>6. r.pipe \in PipeType(Byte) /\ KeepsIn(x.in, r.pipe)
  BY <1>3 DEF Taken, KeepsIn
<1> HIDE DEF t, u, p
<1>7. KeepsOut(x.out, x.out) /\ "going" \in Outcome
  BY <1>1, PipeKept DEF Outcome
<1>8. CASE y = x
  BY <1>8, KeepsRefl
<1>9. CASE y = [s |-> t, in |-> p, out |-> x.out, res |-> "going"]
  BY <1>1, <1>4, <1>5, <1>7, <1>9, MakeView
<1>10. CASE y = [s |-> u, in |-> r.pipe, out |-> x.out, res |-> "going"]
  BY <1>1, <1>4, <1>6, <1>7, <1>10, MakeView
<1> QED BY <1>2, <1>8, <1>9, <1>10

(* write_stdin, whatever the host answers.                                    *)
LEMMA WriteStdinKeeps ==
  ASSUME Config, NEW x \in ViewType, NEW w, w \in HostWrites(x.s), NEW i,
         NEW v, v = WriteStdin(x, w, i)
  PROVE  Keeps(x, v)
<1>1. x.s \in Stage
  BY ViewParts
<1>2. x.s.stdin \in Seq(Byte) /\ x.s.inbox \in Seq(Byte) /\ x.s.nin \in Nat
  BY <1>1 DEF Stage
<1>3. Len(x.s.stdin) \in Nat
  BY <1>2, LenProperties
<1>4. w.accepted \in Nat /\ w.would_block \in BOOLEAN
  <2> DEFINE k == IF "over" \in Faults THEN 1 ELSE 0
  <2>1. k \in Nat
    OBVIOUS
  <2>2. w.accepted \in 0..(Len(x.s.stdin) + k) /\ w.would_block \in BOOLEAN
    BY DEF HostWrites
  <2> HIDE DEF k
  <2> QED BY <1>3, <2>1, <2>2
<1>5. CASE w.accepted > Len(x.s.stdin) \/ ~Writing(x.s)
  <2>1. v = x \/ v = Fail(x, 126, i)
    BY <1>5 DEF WriteStdin
  <2> QED BY <2>1, KeepsRefl, FailKeeps
<1>6. CASE ~(w.accepted > Len(x.s.stdin)) /\ Writing(x.s)
  <2> DEFINE d == DropBytes(x.s.stdin, w.accepted)
             e == x.s.inbox \o TakeBytes(x.s.stdin, w.accepted)
             t == [x.s EXCEPT !.stdin = d, !.inbox = e]
             y == [x EXCEPT !.s = t]
             n == y.s.nin + w.accepted
             blocked == ~w.would_block
             u == [y.s EXCEPT !.nin = n, !.writable = blocked]
             z == [y EXCEPT !.s = u]
  <2>1. v = Fail(y, 141, i) \/ v = Fail(y, 125, i) \/ v = z
    BY <1>6 DEF WriteStdin
  <2>2. w.accepted \in 0..Len(x.s.stdin)
    BY <1>3, <1>4, <1>6
  <2>3. d \in Seq(Byte) /\ TakeBytes(x.s.stdin, w.accepted) \in Seq(Byte)
    BY <1>2, <2>2, Cut
  <2>4. e \in Seq(Byte)
    BY <1>2, <2>3
  <2> HIDE DEF d, e
  <2>5. t \in Stage /\ KeepsStage(x.s, t) /\ t.nin = x.s.nin
    BY <1>1, <2>3, <2>4 DEF Stage, KeepsStage, Fit
  <2> HIDE DEF t
  <2>6. Keeps(x, y) /\ y.s = t
    BY <2>5, PutStage
  <2> HIDE DEF y
  <2>7. y \in ViewType
    BY <2>6 DEF Keeps
  <2>8. n \in Nat /\ blocked \in BOOLEAN /\ y.s \in Stage
    BY <1>2, <1>4, <2>5, <2>6
  <2> HIDE DEF n, blocked
  <2>9. u \in Stage /\ KeepsStage(y.s, u)
    BY <2>8 DEF Stage, KeepsStage, Fit
  <2> HIDE DEF u
  <2>10. Keeps(y, z)
    BY <2>7, <2>9, PutStage
  <2> HIDE DEF z
  <2>11. Keeps(y, v)
    BY <2>1, <2>7, <2>10, FailKeeps
  <2> QED BY <2>6, <2>7, <2>11, KeepsTrans
<1> QED BY <1>5, <1>6

(* append_output, whatever the host reports.                                  *)
LEMMA AppendOutputKeeps ==
  ASSUME Config, NEW x \in ViewType, NEW r, r \in HostPolls(x.s), NEW i,
         NEW v, v = AppendOutput(x, r, i)
  PROVE  Keeps(x, v)
<1>1. x.s \in Stage
  BY ViewParts
<1>2. /\ x.s.inbox \in Seq(Byte) /\ x.s.pend \in Seq(Byte) /\ x.s.se \in Seq(Byte)
      /\ x.s.nout \in Nat /\ x.s.status \in Nat \cup {NoStatus} /\ x.s.eof \in BOOLEAN
      /\ x.s.rc \in Nat
  BY <1>1 DEF Stage
<1>3. Len(x.s.inbox) \in Nat
  BY <1>2, LenProperties
<1>4. /\ r.stdout \in 0..Len(x.s.inbox) /\ r.stderr \in Nat /\ r.exits \in BOOLEAN
      /\ r.eof \in BOOLEAN
      /\ r.status \in Nat /\ r.writable \in BOOLEAN
  <2> DEFINE k == IF "flood" \in Faults THEN 1 ELSE 0
             A == 0..Least(Len(x.s.inbox), Chunk + k)
             B == 0..(IF "stderr" \in Faults THEN 1 ELSE 0)
             C == 0..(IF "exit" \in Faults THEN 1 ELSE 0)
             D == IF "block" \in Faults THEN BOOLEAN ELSE {TRUE}
             E == IF "error" \in Faults THEN BOOLEAN ELSE {FALSE}
  <2>1. r \in [stdout : A, stderr : B, eof : BOOLEAN, exits : BOOLEAN, status : C, writable : D,
              error : E]
    BY DEF HostPolls
  <2>2. B \subseteq Nat /\ C \subseteq Nat /\ D \subseteq BOOLEAN /\ k \in Nat
    <3>1. B \subseteq Nat
      OBVIOUS
    <3>2. C \subseteq Nat
      OBVIOUS
    <3>3. D \subseteq BOOLEAN
      BY Zenon
    <3>4. k \in Nat
      OBVIOUS
    <3> QED BY <3>1, <3>2, <3>3, <3>4
  <2> HIDE DEF B, C, D, E, k
  <2>3. A \subseteq 0..Len(x.s.inbox)
    <3>1. Chunk + k \in Nat
      BY <2>2, Constants
    <3>2. Least(Len(x.s.inbox), Chunk + k) <= Len(x.s.inbox)
      BY <1>3, <3>1 DEF Least
    <3>3. Least(Len(x.s.inbox), Chunk + k) \in Nat
      BY <1>3, <3>1 DEF Least
    <3> QED BY <1>3, <3>2, <3>3
  <2> HIDE DEF A
  <2>4. r.stdout \in A /\ r.stderr \in B /\ r.exits \in BOOLEAN /\ r.status \in C /\ r.eof \in BOOLEAN
        /\ r.writable \in D
    BY <2>1
  <2> QED BY <2>2, <2>3, <2>4
<1> DEFINE total == x.s.nout + r.stdout + r.stderr
           box == DropBytes(x.s.inbox, r.stdout)
           pend == x.s.pend \o TakeBytes(x.s.inbox, r.stdout)
           se == IF r.stderr > 0 THEN x.s.se \o Diagnostic(i) ELSE x.s.se
           eof == IF r.eof THEN TRUE ELSE x.s.eof
           status == IF r.exits THEN r.status ELSE x.s.status
           rc == IF r.exits THEN r.status ELSE x.s.rc
           s2 == [x.s EXCEPT !.nout = total, !.inbox = box, !.pend = pend, !.se = se, !.eof = eof,
                             !.status = status, !.rc = rc, !.writable = r.writable]
           y == [x EXCEPT !.s = s2]
           code == IF s2.status # NoStatus THEN s2.status ELSE 126
<1>5. v = Fail(x, 125, i) \/ v = Fail(x, 126, i) \/ v = Fail(y, code, i) \/ v = y
  BY DEF AppendOutput
<1>6. total \in Nat /\ status \in Nat \cup {NoStatus} /\ rc \in Nat /\ eof \in BOOLEAN
  <2>1. r.stdout \in Nat
    BY <1>3, <1>4
  <2>2. total \in Nat
    BY <1>2, <1>4, <2>1
  <2> QED BY <1>2, <1>4, <2>2
<1>7. box \in Seq(Byte) /\ pend \in Seq(Byte) /\ se \in Seq(Byte)
  <2>1. box \in Seq(Byte) /\ TakeBytes(x.s.inbox, r.stdout) \in Seq(Byte)
    BY <1>2, <1>4, Cut
  <2>2. Diagnostic(i) \in Seq(Byte)
    BY Constants
  <2>3. x.s.se \o Diagnostic(i) \in Seq(Byte)
    BY <1>2, <2>2
  <2>4. pend \in Seq(Byte)
    BY <1>2, <2>1
  <2> QED BY <1>2, <2>1, <2>3, <2>4
<1> HIDE DEF total, box, pend, se, eof, status, rc
<1>8. s2 \in Stage /\ KeepsStage(x.s, s2)
  BY <1>1, <1>4, <1>6, <1>7 DEF Stage, KeepsStage, Fit
<1> HIDE DEF s2
<1>9. code \in Nat
  BY <1>8 DEF Stage, NoStatus
<1> HIDE DEF code
<1>10. Keeps(x, y)
  BY <1>8, PutStage
<1> HIDE DEF y
<1>11. y \in ViewType
  BY <1>10 DEF Keeps
<1>12. CASE v = Fail(x, 125, i) \/ v = Fail(x, 126, i)
  BY <1>12, FailKeeps
<1>13. CASE v = Fail(y, code, i)
  <2>1. Keeps(y, v)
    BY <1>9, <1>11, <1>13, FailKeeps
  <2> QED BY <1>10, <1>11, <2>1, KeepsTrans
<1> QED BY <1>5, <1>10, <1>12, <1>13

(* The end of ExternalPipeProcess::poll.                                      *)
LEMMA ExternalSettleKeeps ==
  ASSUME Config, NEW x \in ViewType, NEW y, y = ExternalSettle(x)
  PROVE  Keeps(x, y)
<1> DEFINE f == Flush(x)
<1>1. y = x \/ y = f \/ y = ExternalEnd(f) \/ y = Return(f, "ready")
  BY DEF ExternalSettle
<1>2. Keeps(x, f)
  BY FlushKeeps
<1> HIDE DEF f
<1>3. f \in ViewType /\ "ready" \in Outcome
  BY <1>2 DEF Keeps, Outcome
<1>4. CASE y = x
  BY <1>4, KeepsRefl
<1>5. CASE y = ExternalEnd(f) \/ y = Return(f, "ready")
  <2>1. Keeps(f, y)
    BY <1>3, <1>5, ExternalEndKeeps, ReturnKeeps
  <2> QED BY <1>2, <1>3, <2>1, KeepsTrans
<1> QED BY <1>1, <1>2, <1>4, <1>5

-----------------------------------------------------------------------------
(* The schedulers.                                                            *)

Base == TypeOK /\ Config /\ Shape /\ WithinCapacity

(* A pipeline has at least one stage.                                         *)
LEMMA ConfigFacts ==
  ASSUME Config
  PROVE  N \in Nat /\ N > 0 /\ Kinds \in Seq(Kind) /\ \A i \in 1..N : Kinds[i] \in Kind
<1>1. Kinds \in Seq(Kind)
  BY DEF Config, Kinds
<1> QED BY <1>1, LenProperties, ElementOfSeq DEF Config, N

(* The view a poll of stage i starts from.                                    *)
LEMMA ViewFacts ==
  ASSUME Base, NEW i \in 1..N
  PROVE  /\ View(i) \in ViewType /\ View(i).s = st[i] /\ View(i).in = pipes[i - 1]
         /\ View(i).out = pipes[i] /\ View(i).res = "going" /\ View(i).s.kind = Kinds[i]
         /\ i - 1 \in 0..N /\ i \in 0..N
<1>1. N \in Nat /\ i \in 0..N /\ i - 1 \in 0..N
  BY ConfigFacts DEF Base
<1>2. st[i] \in Stage /\ pipes[i - 1] \in PipeType(Byte) /\ pipes[i] \in PipeType(Byte)
  BY <1>1 DEF Base, TypeOK
<1>3. PICK x : x = View(i)
  OBVIOUS
<1>4. x.s = st[i] /\ x.in = pipes[i - 1] /\ x.out = pipes[i] /\ x.res = "going"
      /\ x \in ViewType
  BY <1>2, <1>3 DEF View, ViewType, Outcome
<1>5. st[i].kind = Kinds[i]
  BY DEF Base, Shape
<1> QED BY <1>1, <1>3, <1>4, <1>5

(* The step a poll of stage i takes when it leaves the view y behind.         *)
Leaves(i, y) ==
    /\ st' = [st EXCEPT ![i] = y.s]
    /\ pipes' = [pipes EXCEPT ![i - 1] = y.in, ![i] = y.out]
    /\ done' = [done EXCEPT ![i] = (y.res = "exited")]
    /\ progressed' = (progressed \/ y.res \in {"ready", "exited"})
    /\ cur' = i - 1
    /\ phase' = IF i = 1 THEN "drain" ELSE "poll"
    /\ UNCHANGED <<conf, late, exhausted, out, ended, result>>

(* A poll of stage i touches that stage and the two pipes beside it.          *)
LEMMA LeavesFacts ==
  ASSUME Base, NEW i \in 1..N, NEW y, Keeps(View(i), y), Leaves(i, y)
  PROVE  /\ st' \in [1..N -> Stage] /\ pipes' \in [0..N -> PipeType(Byte)]
         /\ done' \in [1..N -> BOOLEAN]
         /\ st'[i] = y.s /\ pipes'[i - 1] = y.in /\ pipes'[i] = y.out
         /\ done'[i] = (y.res = "exited")
         /\ \A j \in 1..N : j # i => st'[j] = st[j] /\ done'[j] = done[j]
         /\ \A j \in 0..N : j # i - 1 /\ j # i => pipes'[j] = pipes[j]
<1>1. N \in Nat /\ i \in 0..N /\ i - 1 \in 0..N /\ i # i - 1
  BY ConfigFacts DEF Base
<1>2. y \in ViewType
  BY DEF Keeps
<1>3. y.s \in Stage /\ y.in \in PipeType(Byte) /\ y.out \in PipeType(Byte)
  BY <1>2, ViewParts
<1>4. st \in [1..N -> Stage] /\ pipes \in [0..N -> PipeType(Byte)] /\ done \in [1..N -> BOOLEAN]
  BY DEF Base, TypeOK
<1>5. PICK e \in BOOLEAN : e = (y.res = "exited")
  OBVIOUS
<1>6. st' = [st EXCEPT ![i] = y.s] /\ done' = [done EXCEPT ![i] = e]
      /\ pipes' = [pipes EXCEPT ![i - 1] = y.in, ![i] = y.out]
  BY <1>5 DEF Leaves
<1>7. /\ st' \in [1..N -> Stage] /\ st'[i] = y.s
      /\ \A j \in 1..N : j # i => st'[j] = st[j]
  BY <1>3, <1>4, <1>6
<1>8. /\ done' \in [1..N -> BOOLEAN] /\ done'[i] = e
      /\ \A j \in 1..N : j # i => done'[j] = done[j]
  BY <1>4, <1>6
<1>9. /\ pipes' \in [0..N -> PipeType(Byte)] /\ pipes'[i - 1] = y.in /\ pipes'[i] = y.out
      /\ \A j \in 0..N : j # i - 1 /\ j # i => pipes'[j] = pipes[j]
  BY <1>1, <1>3, <1>4, <1>6
<1> QED BY <1>5, <1>7, <1>8, <1>9

(* The pipeline itself never changes.                                         *)
LEMMA ConfigKept ==
  ASSUME Config, conf' = conf
  PROVE  Config' /\ N' = N /\ Kinds' = Kinds /\ Cap' = Cap
BY DEF Config, N, Kinds, Cap

(* A poll that keeps what it must preserves the types, the shape and the      *)
(* capacity.                                                                  *)
LEMMA LeavesBase ==
  ASSUME Base, NEW i \in 1..N, phase = "poll", NEW y, Keeps(View(i), y), Leaves(i, y)
  PROVE  Base'
<1>1. /\ st' \in [1..N -> Stage] /\ pipes' \in [0..N -> PipeType(Byte)]
      /\ done' \in [1..N -> BOOLEAN]
      /\ st'[i] = y.s /\ pipes'[i - 1] = y.in /\ pipes'[i] = y.out
      /\ \A j \in 1..N : j # i => st'[j] = st[j]
      /\ \A j \in 0..N : j # i - 1 /\ j # i => pipes'[j] = pipes[j]
  BY LeavesFacts
<1>2. Config' /\ N' = N /\ Kinds' = Kinds /\ Cap' = Cap
  BY ConfigKept DEF Base, Leaves
<1>3. N \in Nat /\ i - 1 \in 0..N
  BY ConfigFacts DEF Base
<1>4. /\ View(i).s = st[i] /\ View(i).in = pipes[i - 1] /\ View(i).out = pipes[i]
      /\ View(i).s.kind = Kinds[i]
  BY ViewFacts
<1>5. TypeOK'
  <2>1. progressed' \in BOOLEAN
    BY Zenon DEF Base, TypeOK, Leaves
  <2>2. cur' \in 0..N /\ phase' \in {"begin", "poll", "drain", "over"}
    BY <1>3 DEF Leaves
  <2>3. /\ late' \in BOOLEAN /\ exhausted' \in BOOLEAN
        /\ out' \in Seq(Byte) /\ result' \in Nat \cup {NoStatus}
        /\ ended' \in {"no", "finished", "deadline", "cancelled", "exhausted", "stalled"}
    BY DEF Base, TypeOK, Leaves
  <2> QED BY <1>1, <1>2, <2>1, <2>2, <2>3 DEF TypeOK
<1>6. Shape'
  <2>1. phase' = "poll" => cur' \in 1..N
    BY <1>3 DEF Leaves
  <2>2. phase' = "drain" => cur' = 0
    BY DEF Leaves
  <2>3. ended' = "no"
    BY DEF Base, Shape, Leaves
  <2>4. \A j \in 1..N : st'[j].kind = Kinds[j] /\ Fit(st'[j])
    <3> SUFFICES ASSUME NEW j \in 1..N
                 PROVE  st'[j].kind = Kinds[j] /\ Fit(st'[j])
      OBVIOUS
    <3>1. CASE j = i
      <4>1. KeepsStage(View(i).s, y.s)
        BY DEF Keeps
      <4>2. Fit(View(i).s)
        BY <1>4 DEF Base, Shape
      <4> QED BY <1>1, <1>4, <3>1, <4>1, <4>2 DEF KeepsStage
    <3>2. CASE j # i
      BY <1>1, <3>2 DEF Base, Shape
    <3> QED BY <3>1, <3>2
  <2> QED BY <1>2, <2>1, <2>2, <2>3, <2>4 DEF Shape, Fit
<1>7. WithinCapacity'
  <2> SUFFICES ASSUME NEW j \in 1..N
               PROVE  Len(pipes'[j].data) <= Cap
    BY <1>2 DEF WithinCapacity
  <2>1. j \in 0..N /\ Len(pipes[j].data) <= Cap
    BY <1>3 DEF Base, WithinCapacity
  <2>2. CASE j = i
    BY <1>1, <1>4, <2>1, <2>2 DEF Keeps, KeepsOut
  <2>3. CASE j = i - 1
    <3>1. Len(y.in.data) <= Len(pipes[j].data)
      BY <1>4, <2>3 DEF Keeps, KeepsIn
    <3>2. pipes[j].data \in Seq(Byte) /\ y.in.data \in Seq(Byte)
      BY <2>1 DEF Base, TypeOK, PipeType, Keeps, KeepsIn
    <3>3. Len(pipes[j].data) \in Nat /\ Len(y.in.data) \in Nat /\ Cap \in Nat
      BY <3>2, LenProperties, CapType DEF Base
    <3> QED BY <1>1, <2>1, <2>3, <3>1, <3>3
  <2>4. CASE j # i /\ j # i - 1
    BY <1>1, <2>1, <2>4
  <2> QED BY <2>2, <2>3, <2>4
<1> QED BY <1>2, <1>5, <1>6, <1>7 DEF Base


(* Polling a built-in stage keeps the account of who waits for whom: a stage  *)
(* closes what it is done with, and a poll that moved nothing leaves the      *)
(* pipes of the stages after it as they were.                                 *)
LEMMA LeavesServes ==
  ASSUME Base, SyncInv, conf.mode = "sync", NEW i \in 1..N, Running(i),
         NEW y, Serves(View(i), y, i = 1), Leaves(i, y)
  PROVE  SyncInv'
<1>1. Keeps(View(i), y)
  BY DEF Serves
<1>2. /\ st'[i] = y.s /\ pipes'[i - 1] = y.in /\ pipes'[i] = y.out
      /\ done'[i] = (y.res = "exited")
      /\ \A j \in 1..N : j # i => st'[j] = st[j] /\ done'[j] = done[j]
      /\ \A j \in 0..N : j # i - 1 /\ j # i => pipes'[j] = pipes[j]
  BY <1>1, LeavesFacts
<1>3. /\ View(i).s = st[i] /\ View(i).in = pipes[i - 1] /\ View(i).out = pipes[i]
  BY ViewFacts
<1>4. Config' /\ N' = N /\ Kinds' = Kinds /\ Cap' = Cap /\ conf' = conf
  BY ConfigKept DEF Base, Leaves
<1>5. N \in Nat /\ i \in 0..N /\ i - 1 \in 0..N
  BY ConfigFacts DEF Base
<1>6. phase = "poll" /\ cur = i /\ pipes[0].write_closed /\ Waiting /\ \A j \in 1..N : Wiring(j)
  BY DEF SyncInv, Running
<1>7. \A k \in 0..N : /\ pipes[k].write_closed => pipes'[k].write_closed
                      /\ pipes[k].read_closed => pipes'[k].read_closed
  BY <1>1, <1>2, <1>3, <1>5 DEF Keeps, KeepsIn, KeepsOut
<1>8. Tidy(View(i), i = 1)
  BY <1>3, <1>6 DEF Tidy, Wiring
<1>9. \A j \in 1..N : Wiring(j)'
  <2> SUFFICES ASSUME NEW j \in 1..N
               PROVE  Wiring(j)'
    OBVIOUS
  <2>1. j \in 0..N /\ j - 1 \in 0..N
    BY <1>5
  <2>2. CASE j = i
    <3>1. Tidy(y, i = 1) /\ (y.res = "exited" => /\ y.out.write_closed
                                                 /\ i = 1 \/ y.s.rc # 0 \/ y.in.read_closed)
      BY <1>8 DEF Serves
    <3>2. (i > 1 => i # 1) /\ st'[j] = y.s /\ pipes'[j - 1] = y.in /\ pipes'[j] = y.out
      BY <1>2, <1>5, <2>2
    <3>3. done'[j] => y.res = "exited"
      BY <1>2, <2>2
    <3>4. pipes'[j].write_closed \/ ~done'[j]
      BY <3>1, <3>2, <3>3
    <3>5. done'[j] /\ j > 1 /\ st'[j].rc = 0 => pipes'[j - 1].read_closed
      BY <2>2, <3>1, <3>2, <3>3
    <3>6. st'[j].kind \in Buffering /\ j > 1 /\ (st'[j].eof \/ st'[j].pend # <<>>)
             => pipes'[j - 1].read_closed
      BY <2>2, <3>1, <3>2 DEF Tidy
    <3> QED BY <3>4, <3>5, <3>6 DEF Wiring, Buffering
  <2>3. CASE j # i
    <3>1. Wiring(j) /\ st'[j] = st[j] /\ done'[j] = done[j]
      BY <1>2, <1>6, <2>3
    <3> QED BY <1>7, <2>1, <3>1 DEF Wiring
  <2> QED BY <2>2, <2>3
<1>10. Waiting'
  <2> SUFFICES ASSUME ~progressed', NEW k \in i..N
               PROVE  (done[k] \/ Starved(k) \/ Blocked(k))'
    <3>1. cur' + 1 = i
      BY <1>5 DEF Leaves
    <3> QED BY <1>4, <3>1 DEF Waiting
  <2>1. ~progressed /\ y.res \notin {"ready", "exited"}
    BY DEF Leaves
  <2>2. y.out = pipes[i] /\ Waits(View(i), y)
    BY <1>3, <2>1 DEF Serves, Waits
  <2>3. CASE k = i
    BY <1>2, <1>3, <2>1, <2>2, <2>3 DEF Waits, Starved, Blocked
  <2>4. CASE k # i
    <3>1. k \in (cur + 1)..N /\ k \in 0..N /\ k - 1 \in 0..N /\ k # i - 1 /\ k - 1 # i - 1
          /\ k \in 1..N
      BY <1>5, <1>6, <2>4
    <3>2. done[k] \/ Starved(k) \/ Blocked(k)
      BY <1>6, <2>1, <3>1 DEF Waiting
    <3>3. pipes'[k] = pipes[k] /\ pipes'[k - 1] = pipes[k - 1] /\ done'[k] = done[k]
      BY <1>2, <2>2, <2>4, <3>1
    <3> QED BY <3>2, <3>3 DEF Starved, Blocked
  <2> QED BY <2>3, <2>4
<1>11. pipes'[0].write_closed
  BY <1>5, <1>6, <1>7
<1> QED BY <1>4, <1>9, <1>10, <1>11 DEF SyncInv

(* What each of the five kinds of poll amounts to.                            *)
PollStep(i) ==
    \E y : /\ Leaves(i, y) /\ Keeps(View(i), y)
           /\ conf.mode = "sync" => Serves(View(i), y, i = 1)

(* Polled, of a poll with one outcome ...                                     *)
LEMMA PolledLeaves ==
  ASSUME NEW i, NEW y, Polled(i, {y})
  PROVE  Leaves(i, y)
BY DEF Polled, Leaves

(* ... and of one with several.                                               *)
LEMMA PolledSome ==
  ASSUME NEW i, NEW V, Polled(i, V)
  PROVE  \E y \in V : Leaves(i, y)
BY DEF Polled, Leaves

(* A poll that serves is a poll step.                                         *)
LEMMA ServesSteps ==
  ASSUME NEW i, NEW y, Leaves(i, y), Serves(View(i), y, i = 1)
  PROVE  PollStep(i)
BY DEF PollStep, Serves

(* PollRead is a poll step.                                                   *)
LEMMA ReadSteps ==
  ASSUME Base, NEW i \in 1..N, PollRead(i)
  PROVE  PollStep(i)
<1> DEFINE x == View(i)
<1>1. /\ x \in ViewType /\ x.res = "going" /\ x.s.kind = Kinds[i]
  BY ViewFacts
<1>2. Config
  BY DEF Base
<1> HIDE DEF x
<1>3. x.s.kind \notin Buffering
  BY <1>1 DEF PollRead, Buffering
<1>4. CASE Polled(i, {ReadPoll(x)})
  <2>1. PICK y : y = ReadPoll(x)
    OBVIOUS
  <2>2. Serves(x, y, i = 1)
    BY <1>1, <1>2, <1>3, <2>1, ReadPollServes
  <2>3. Leaves(i, y)
    BY <1>4, <2>1, PolledLeaves
  <2> QED BY <2>2, <2>3, ServesSteps DEF x
<1>5. CASE Polled(i, {ReadFails(x, i)})
  <2>1. PICK y : y = ReadFails(x, i)
    OBVIOUS
  <2>2. Serves(x, y, i = 1)
    BY <1>1, <1>2, <1>3, <2>1, ReadFailsServes
  <2>3. Leaves(i, y)
    BY <1>5, <2>1, PolledLeaves
  <2> QED BY <2>2, <2>3, ServesSteps DEF x
<1> QED BY <1>4, <1>5 DEF PollRead, x

(* PollHead is a poll step.                                                   *)
LEMMA HeadSteps ==
  ASSUME Base, NEW i \in 1..N, PollHead(i)
  PROVE  PollStep(i)
<1> DEFINE x == View(i)
<1>1. /\ x \in ViewType /\ x.s.kind = Kinds[i]
  BY ViewFacts
<1>2. Config
  BY DEF Base
<1> HIDE DEF x
<1>3. x.s.kind \notin Buffering
  BY <1>1 DEF PollHead, Buffering
<1>4. PICK y : y = HeadPoll(x)
  OBVIOUS
<1>5. Serves(x, y, i = 1)
  BY <1>1, <1>2, <1>3, <1>4, HeadPollServes
<1>6. Leaves(i, y)
  BY <1>4, PolledLeaves DEF PollHead, x
<1> QED BY <1>5, <1>6, ServesSteps DEF x

(* PollBuffered is a poll step.                                               *)
LEMMA BufferedSteps ==
  ASSUME Base, NEW i \in 1..N, PollBuffered(i)
  PROVE  PollStep(i)
<1> DEFINE x == View(i)
<1>1. /\ x \in ViewType /\ x.s.kind = Kinds[i]
  BY ViewFacts
<1>2. Config
  BY DEF Base
<1>3. PICK choices : choices = IF "io" \in Faults THEN BOOLEAN ELSE {FALSE}
  OBVIOUS
<1>4. choices \subseteq BOOLEAN
  BY <1>3
<1>5. PICK first \in BOOLEAN : first = (i = 1)
  OBVIOUS
<1> HIDE DEF x
<1>6. x.s.kind \in Buffering
  BY <1>1 DEF PollBuffered, Buffering
<1>7. Polled(i, {BufferedPoll(x, first, broken) : broken \in choices})
  BY <1>3, <1>5 DEF PollBuffered, x
<1>8. PICK y \in {BufferedPoll(x, first, broken) : broken \in choices} : Leaves(i, y)
  BY <1>7, PolledSome
<1>9. PICK broken \in BOOLEAN : y = BufferedPoll(x, first, broken)
  BY <1>4
<1>10. Serves(x, y, first)
  BY <1>1, <1>2, <1>6, <1>9, BufferedPollServes
<1> QED BY <1>5, <1>8, <1>10, ServesSteps DEF x

(* ExternalQuits is a poll step; only the pending scheduler takes it.         *)
LEMMA ExternalQuitsSteps ==
  ASSUME Base, NEW i \in 1..N, ExternalQuits(i)
  PROVE  PollStep(i)
<1> DEFINE x == View(i)
<1>1. /\ x \in ViewType /\ x.s.kind = Kinds[i]
  BY ViewFacts
<1>2. Config /\ conf.mode # "sync"
  BY DEF Base, Config, ExternalQuits
<1> HIDE DEF x
<1>3. PICK f : f = Flush(x)
  OBVIOUS
<1>4. Keeps(x, f) /\ f \in ViewType
  BY <1>1, <1>2, <1>3, FlushKeeps DEF Keeps
<1>5. PICK y : y = IF x.s.fin THEN Return(x, "exited")
                   ELSE IF x.out.read_closed THEN CancelProcess(x, 141)
                   ELSE IF f.res # "going" THEN f
                   ELSE ExternalEnd(f)
  OBVIOUS
<1>6. Leaves(i, y)
  BY <1>3, <1>5, PolledLeaves DEF ExternalQuits, x
<1>7. Keeps(x, y)
  <2>1. CASE y = Return(x, "exited")
    BY <1>1, <2>1, ReturnKeeps DEF Outcome
  <2>2. CASE y = CancelProcess(x, 141)
    BY <1>1, <2>2, CancelKeeps
  <2>3. CASE y = f
    BY <1>4, <2>3
  <2>4. CASE y = ExternalEnd(f)
    BY <1>1, <1>4, <2>4, ExternalEndKeeps, KeepsTrans
  <2> QED BY <1>5, <2>1, <2>2, <2>3, <2>4
<1> QED BY <1>2, <1>6, <1>7 DEF PollStep, x

(* ExternalRuns is a poll step; only the pending scheduler takes it.          *)
LEMMA ExternalRunsSteps ==
  ASSUME Base, NEW i \in 1..N, ExternalRuns(i)
  PROVE  PollStep(i)
<1> DEFINE x == View(i)
<1>1. /\ x \in ViewType /\ x.s.kind = Kinds[i]
  BY ViewFacts
<1>2. Config /\ conf.mode # "sync"
  BY DEF Base, Config, ExternalRuns
<1>3. PICK f : f = Flush(x)
  OBVIOUS
<1>4. PICK first \in BOOLEAN : first = (i = 1)
  OBVIOUS
<1>5. PICK y : y = FillStdin(f, first)
  OBVIOUS
<1>6. \E v \in {y} : \E z \in {WriteStdin(v, w, i) : w \in HostWrites(v.s)} :
          IF ~z.s.live THEN Polled(i, {ExternalEnd(z)})
          ELSE \E a \in {AppendOutput(z, r, i) : r \in HostPolls(z.s)} :
                  Polled(i, {ExternalSettle(a)})
  BY <1>3, <1>4, <1>5 DEF ExternalRuns, x
<1> HIDE DEF x
<1>7. PICK z \in {WriteStdin(y, w, i) : w \in HostWrites(y.s)} :
          IF ~z.s.live THEN Polled(i, {ExternalEnd(z)})
          ELSE \E a \in {AppendOutput(z, r, i) : r \in HostPolls(z.s)} :
                  Polled(i, {ExternalSettle(a)})
  BY <1>6
<1>8. PICK w : w \in HostWrites(y.s) /\ z = WriteStdin(y, w, i)
  OBVIOUS
<1>9. Keeps(x, z) /\ z \in ViewType
  <2>1. Keeps(x, f) /\ f \in ViewType
    BY <1>1, <1>2, <1>3, FlushKeeps DEF Keeps
  <2>2. Keeps(f, y) /\ y \in ViewType
    BY <1>2, <1>5, <2>1, FillStdinKeeps DEF Keeps
  <2>3. Keeps(y, z) /\ z \in ViewType
    BY <1>2, <1>8, <2>2, WriteStdinKeeps DEF Keeps
  <2>4. Keeps(x, y)
    BY <1>1, <2>1, <2>2, KeepsTrans
  <2> QED BY <1>1, <2>2, <2>3, <2>4, KeepsTrans
<1>10. CASE ~z.s.live
  <2>1. PICK v : v = ExternalEnd(z)
    OBVIOUS
  <2>2. Keeps(z, v)
    BY <1>9, <2>1, ExternalEndKeeps
  <2>3. Keeps(x, v)
    BY <1>1, <1>9, <2>2, KeepsTrans
  <2>4. Leaves(i, v)
    BY <1>7, <1>10, <2>1, PolledLeaves
  <2> QED BY <1>2, <2>3, <2>4 DEF PollStep, x
<1>11. CASE z.s.live
  <2>1. PICK a \in {AppendOutput(z, r, i) : r \in HostPolls(z.s)} : Polled(i, {ExternalSettle(a)})
    BY <1>7, <1>11
  <2>2. PICK r : r \in HostPolls(z.s) /\ a = AppendOutput(z, r, i)
    OBVIOUS
  <2>3. Keeps(z, a) /\ a \in ViewType
    BY <1>2, <1>9, <2>2, AppendOutputKeeps DEF Keeps
  <2>4. PICK v : v = ExternalSettle(a)
    OBVIOUS
  <2>5. Keeps(a, v)
    BY <1>2, <2>3, <2>4, ExternalSettleKeeps
  <2>6. Keeps(x, v)
    <3>1. Keeps(x, a)
      BY <1>1, <1>9, <2>3, KeepsTrans
    <3> QED BY <1>1, <2>3, <2>5, <3>1, KeepsTrans
  <2>7. Leaves(i, v)
    BY <2>1, <2>4, PolledLeaves
  <2> QED BY <1>2, <2>6, <2>7 DEF PollStep, x
<1> QED BY <1>10, <1>11

(* A poll step preserves the invariant.                                       *)
LEMMA PollStepKeeps ==
  ASSUME PipelineInv, NEW i \in 1..N, Running(i), PollStep(i)
  PROVE  PipelineInv'
<1>1. Base
  BY DEF PipelineInv, Base
<1>2. PICK y : /\ Leaves(i, y) /\ Keeps(View(i), y)
               /\ conf.mode = "sync" => Serves(View(i), y, i = 1)
  BY DEF PollStep
<1>3. Base'
  BY <1>1, <1>2, LeavesBase DEF Running
<1>4. SyncInv'
  <2>1. CASE conf.mode = "sync"
    BY <1>1, <1>2, <2>1, LeavesServes DEF PipelineInv
  <2>2. CASE conf.mode # "sync"
    BY <1>2, <2>2 DEF Leaves, SyncInv
  <2> QED BY <2>1, <2>2
<1>5. phase' # "over" /\ ended' = "no"
  BY <1>2 DEF Leaves, PipelineInv, Shape, Running
<1> QED BY <1>3, <1>4, <1>5 DEF PipelineInv, Base, Released, NoStall

(* A finished stage is passed over.                                           *)
LEMMA SkipKeeps ==
  ASSUME PipelineInv, NEW i \in 1..N, SkipStage(i)
  PROVE  PipelineInv'
<1>1. N \in Nat /\ i - 1 \in 0..N /\ i \in 0..N
  BY ConfigFacts DEF PipelineInv
<1>2. Config' /\ N' = N /\ Kinds' = Kinds /\ Cap' = Cap
  BY ConfigKept DEF PipelineInv, SkipStage
<1>3. /\ phase = "poll" /\ cur = i /\ done[i]
      /\ cur' = i - 1 /\ phase' = IF i = 1 THEN "drain" ELSE "poll"
      /\ UNCHANGED <<conf, pipes, st, done, late, progressed, exhausted, out, ended, result>>
  BY DEF SkipStage
<1>4. TypeOK'
  BY <1>1, <1>2, <1>3 DEF PipelineInv, TypeOK
<1>5. Shape'
  BY <1>1, <1>2, <1>3 DEF PipelineInv, Shape, Fit
<1>6. WithinCapacity'
  BY <1>2, <1>3 DEF PipelineInv, WithinCapacity
<1>7. SyncInv'
  <2> SUFFICES ASSUME conf.mode = "sync"
               PROVE  SyncInv'
    BY <1>3 DEF SyncInv
  <2>1. pipes'[0].write_closed /\ \A j \in 1..N : Wiring(j)'
    BY <1>3 DEF PipelineInv, SyncInv, Wiring
  <2>2. Waiting'
    <3> SUFFICES ASSUME ~progressed, NEW k \in i..N
                 PROVE  done[k] \/ Starved(k) \/ Blocked(k)
      <4>1. cur' + 1 = i
        BY <1>1, <1>3
      <4> QED BY <1>2, <1>3, <4>1 DEF Waiting, Starved, Blocked
    <3>1. k = i \/ k \in (cur + 1)..N
      BY <1>1, <1>3
    <3> QED BY <1>3, <3>1 DEF PipelineInv, SyncInv, Waiting
  <2> QED BY <1>2, <2>1, <2>2 DEF SyncInv
<1>8. phase' # "over" /\ ended' = "no"
  BY <1>3 DEF PipelineInv, Shape
<1> QED BY <1>2, <1>4, <1>5, <1>6, <1>7, <1>8 DEF PipelineInv, Released, NoStall

(* Whatever stage is polled, and however, the invariant is preserved.         *)
LEMMA PollKeeps ==
  ASSUME PipelineInv, Poll
  PROVE  PipelineInv'
<1>1. PICK i \in 1..N : \/ PollRead(i) \/ PollHead(i) \/ PollBuffered(i)
                        \/ ExternalQuits(i) \/ ExternalRuns(i) \/ SkipStage(i)
  BY DEF Poll
<1>2. Base
  BY DEF PipelineInv, Base
<1>3. CASE PollRead(i)
  BY <1>2, <1>3, ReadSteps, PollStepKeeps DEF PollRead
<1>4. CASE PollHead(i)
  BY <1>2, <1>4, HeadSteps, PollStepKeeps DEF PollHead
<1>5. CASE PollBuffered(i)
  BY <1>2, <1>5, BufferedSteps, PollStepKeeps DEF PollBuffered
<1>6. CASE ExternalQuits(i)
  BY <1>2, <1>6, ExternalQuitsSteps, PollStepKeeps DEF ExternalQuits
<1>7. CASE ExternalRuns(i)
  BY <1>2, <1>7, ExternalRunsSteps, PollStepKeeps DEF ExternalRuns
<1>8. CASE SkipStage(i)
  BY <1>8, SkipKeeps
<1> QED BY <1>1, <1>3, <1>4, <1>5, <1>6, <1>7, <1>8

-----------------------------------------------------------------------------
(* The end of a pipeline: every stage is closed.                              *)

(* StreamingPipeProcess::close leaves no child and no staging file, and does  *)
(* not touch the stage's status.                                              *)
Closes(x, c) ==
    /\ c.s \in Stage /\ c.s.kind = x.s.kind /\ c.s.rc = x.s.rc
    /\ ~c.s.live /\ ~c.s.staging

(* close, of each kind of stage.                                              *)
LEMMA CloseFreesStage ==
  ASSUME NEW x \in ViewType, Fit(x.s), NEW c, c = Close(x)
  PROVE  Closes(x, c)
<1>1. x.s \in Stage /\ x.s.kind \in Kind
  BY ViewParts DEF Stage
<1>2. CASE x.s.kind = "external"
  <2>1. PICK t : t = [x.s EXCEPT !.live = FALSE, !.fin = TRUE]
    OBVIOUS
  <2>2. c = [s |-> t, in |-> CloseRead(x.in), out |-> CloseWrite(x.out), res |-> x.res]
    BY <1>2, <2>1 DEF Close, ExternalClose
  <2>3. c.s = t
    BY <2>2
  <2>4. t \in Stage /\ t.kind = x.s.kind /\ t.rc = x.s.rc /\ ~t.live /\ t.staging = x.s.staging
    BY <1>1, <2>1 DEF Stage
  <2>5. ~x.s.staging
    BY <1>2 DEF Fit, Buffering
  <2> QED BY <2>3, <2>4, <2>5 DEF Closes
<1>3. CASE x.s.kind \in {"buffered", "bounded"}
  <2>1. PICK t : t = [x.s EXCEPT !.staging = FALSE]
    OBVIOUS
  <2>2. c = [x EXCEPT !.s = t]
    BY <1>3, <2>1 DEF Close, BufferedClose
  <2>3. c.s = t
    BY <2>2 DEF ViewType
  <2>4. t \in Stage /\ t.kind = x.s.kind /\ t.rc = x.s.rc /\ ~t.staging /\ t.live = x.s.live
    BY <1>1, <2>1 DEF Stage
  <2>5. ~x.s.live
    BY <1>3 DEF Fit
  <2> QED BY <2>3, <2>4, <2>5 DEF Closes
<1>4. CASE x.s.kind \notin {"external", "buffered", "bounded"}
  <2>1. c = x \/ c = [x EXCEPT !.in = CloseRead(x.in)]
    BY <1>1, <1>4 DEF Close, Kind
  <2>2. c.s = x.s
    BY <2>1 DEF ViewType
  <2>3. ~x.s.live /\ ~x.s.staging
    BY <1>4 DEF Fit, Buffering
  <2> QED BY <1>1, <2>2, <2>3 DEF Closes
<1> QED BY <1>2, <1>3, <1>4

(* Closing every stage frees what each of them holds.                         *)
LEMMA ClosedStagesFree ==
  ASSUME Base
  PROVE  /\ ClosedStages \in [1..N -> Stage]
         /\ \A i \in 1..N : /\ ClosedStages[i].kind = Kinds[i] /\ ClosedStages[i].rc = st[i].rc
                            /\ ~ClosedStages[i].live /\ ~ClosedStages[i].staging
<1>1. \A i \in 1..N : Closes(View(i), Close(View(i)))
  BY ViewFacts, CloseFreesStage DEF Base, Shape
<1>2. \A i \in 1..N : View(i).s = st[i] /\ View(i).s.kind = Kinds[i]
  BY ViewFacts
<1> QED BY <1>1, <1>2 DEF Closes, ClosedStages

(* Closing every stage leaves the bytes in the pipes and reopens no end.      *)
LEMMA ClosedPipesKeep ==
  ASSUME NEW ps \in [0..N -> PipeType(Byte)], NEW qs, qs = ClosedPipes(ps)
  PROVE  /\ qs \in [0..N -> PipeType(Byte)]
         /\ \A i \in 0..N : /\ qs[i].data = ps[i].data
                            /\ ps[i].write_closed => qs[i].write_closed
<1> DEFINE r(i) == ps[i].read_closed \/ (i < N /\ Close(View(i + 1)).in.read_closed)
           w(i) == ps[i].write_closed \/ (i > 0 /\ Close(View(i)).out.write_closed)
<1>1. qs = [i \in 0..N |-> [data |-> ps[i].data, read_closed |-> r(i), write_closed |-> w(i)]]
  BY DEF ClosedPipes
<1>2. \A i \in 0..N : r(i) \in BOOLEAN /\ w(i) \in BOOLEAN /\ (ps[i].write_closed => w(i))
  OBVIOUS
<1> HIDE DEF r, w
<1>3. \A i \in 0..N : ps[i].data \in Seq(Byte)
  BY DEF PipeType
<1>4. \A i \in 0..N : /\ qs[i] \in PipeType(Byte) /\ qs[i].data = ps[i].data
                      /\ ps[i].write_closed => qs[i].write_closed
  BY <1>1, <1>2, <1>3 DEF PipeType
<1> QED BY <1>1, <1>4

-----------------------------------------------------------------------------
(* resolve_pipeline_exit_status returns a status of one of the stages, or 0.  *)
LEMMA ResolveType ==
  ASSUME Config, NEW rc \in [1..N -> Nat]
  PROVE  Resolve(rc) \in Nat
<1>1. N \in Nat /\ N \in 1..N
  BY ConfigFacts
<1>2. PICK bad : bad = {i \in 1..N : rc[i] # 0}
  OBVIOUS
<1>3. PICK last : last = CHOOSE i \in bad : \A j \in bad : j <= i
  OBVIOUS
<1>4. bad # {} => last \in 1..N
  <2> SUFFICES ASSUME bad # {}
               PROVE  last \in 1..N
    OBVIOUS
  <2>1. bad \subseteq 0..N /\ bad \subseteq 1..N
    BY <1>1, <1>2
  <2>2. \E i \in bad : \A j \in bad : j <= i
    BY <1>1, <2>1, GreatestElement
  <2>3. last \in bad
    BY <1>3, <2>2
  <2> QED BY <2>1, <2>3
<1>5. Resolve(rc) = IF ~conf.pipefail THEN rc[N] ELSE IF bad = {} THEN 0 ELSE rc[last]
  BY <1>2, <1>3 DEF Resolve
<1> QED BY <1>1, <1>4, <1>5

(* Division rounds a positive number of bytes up to whole chunks.             *)
LEMMA WholeChunks ==
  ASSUME NEW a \in Int, NEW c \in Nat \ {0}, a >= 1
  PROVE  ((a + c - 1) \div c) * c \in Nat \ {0}
<1>1. a + c - 1 >= c /\ a + c - 1 \in Nat
  OBVIOUS
<1>2. PICK q : q = (a + c - 1) \div c
  OBVIOUS
<1>3. q \in Nat /\ q >= 1
  BY <1>1, <1>2
<1>4. q * c \in Nat /\ q * c >= 1
  BY <1>3
<1> QED BY <1>2, <1>4

(* drain_final_pipe_to_stdout takes something from a pipe that is not empty.  *)
LEMMA DrainedFacts ==
  ASSUME Base
  PROVE  /\ pipes[N].data \in Seq(Byte) /\ N \in 0..N
         /\ Drained \in 0..Len(pipes[N].data)
         /\ Drained = 0 => pipes[N].data = <<>>
<1>1. N \in Nat /\ N \in 0..N
  BY ConfigFacts DEF Base
<1>2. pipes[N].data \in Seq(Byte) /\ out \in Seq(Byte)
  BY <1>1 DEF Base, TypeOK, PipeType
<1>3. PICK have : have = Len(pipes[N].data)
  OBVIOUS
<1>4. have \in Nat /\ (have = 0 => pipes[N].data = <<>>) /\ Len(out) \in Nat
  BY <1>2, <1>3, LenProperties, EmptySeq
<1>5. PICK need : need = OutputLimit + 1 - Len(out)
  OBVIOUS
<1>6. PICK upto : upto = IF need <= 0 THEN Chunk ELSE ((need + Chunk - 1) \div Chunk) * Chunk
  OBVIOUS
<1>7. upto \in Nat \ {0}
  <2>1. need \in Int /\ Chunk \in Nat \ {0}
    BY <1>4, <1>5, StreamingAssumption
  <2>2. CASE need <= 0
    BY <1>6, <2>1, <2>2
  <2>3. CASE need >= 1
    <3>1. upto = ((need + Chunk - 1) \div Chunk) * Chunk
      BY <1>6, <2>1, <2>3
    <3> QED BY <2>1, <2>3, <3>1, WholeChunks
  <2> QED BY <2>1, <2>2, <2>3
<1>8. Drained = IF "budget" \notin Faults \/ OutputLimit = 0 THEN have ELSE Least(have, upto)
  BY <1>3, <1>5, <1>6 DEF Drained
<1>9. Drained \in 0..have /\ (Drained = 0 => have = 0)
  BY <1>4, <1>7, <1>8 DEF Least
<1> QED BY <1>1, <1>2, <1>3, <1>4, <1>9

-----------------------------------------------------------------------------
(* The ways in which a pipeline ends: the stages it leaves hold nothing.      *)
Ended(stages, ps) ==
    /\ phase' = "over" /\ st' = stages /\ pipes' = ps
    /\ stages \in [1..N -> Stage] /\ ps \in [0..N -> PipeType(Byte)]
    /\ \A i \in 1..N : /\ stages[i].kind = Kinds[i] /\ ~stages[i].live /\ ~stages[i].staging
                       /\ Len(ps[i].data) <= Cap
    /\ pipes[0].write_closed => ps[0].write_closed
    /\ conf' = conf /\ cur' = cur /\ late' = late /\ progressed' = progressed

(* A pipeline that ends in one of these ways preserves the invariant.         *)
LEMMA EndedKeeps ==
  ASSUME PipelineInv, NEW stages, NEW ps, Ended(stages, ps),
         done' \in [1..N -> BOOLEAN], exhausted' \in BOOLEAN, out' \in Seq(Byte),
         result' \in Nat \cup {NoStatus},
         ended' \in {"no", "finished", "deadline", "cancelled", "exhausted", "stalled"},
         ended' = "stalled" => \E i \in 1..N : stages[i].rc # 0
  PROVE  PipelineInv'
<1>1. Config' /\ N' = N /\ Kinds' = Kinds /\ Cap' = Cap
  BY ConfigKept DEF PipelineInv, Ended
<1>2. TypeOK'
  BY <1>1 DEF PipelineInv, TypeOK, Ended
<1>3. Shape'
  BY <1>1 DEF Shape, Ended, Fit
<1>4. WithinCapacity'
  BY <1>1 DEF WithinCapacity, Ended
<1>5. SyncInv'
  BY DEF PipelineInv, SyncInv, Ended, Waiting
<1>6. Released' /\ NoStall'
  BY <1>1 DEF Released, NoStall, Ended
<1> QED BY <1>1, <1>2, <1>3, <1>4, <1>5, <1>6 DEF PipelineInv

(* The status of a pipeline that is over.                                     *)
LEMMA OverResult ==
  ASSUME Config, NEW stages \in [1..N -> Stage], NEW why, NEW ps, NEW spent,
         Over(why, stages, ps, spent)
  PROVE  result' \in Nat \cup {NoStatus}
<1>1. PICK rc : rc = [i \in 1..N |-> stages[i].rc]
  OBVIOUS
<1>2. rc \in [1..N -> Nat]
  <2>1. \A i \in 1..N : stages[i].rc \in Nat
    BY DEF Stage
  <2> QED BY <1>1, <2>1
<1>3. Resolve(rc) \in Nat
  BY <1>2, ResolveType
<1> QED BY <1>1, <1>3 DEF Over

(* The step budget refuses another pass of drive_streaming_pipeline.          *)
LEMMA StepsRefusedKeeps ==
  ASSUME PipelineInv, StepsRefused
  PROVE  PipelineInv'
<1>1. Base
  BY DEF PipelineInv, Base
<1>2. /\ ClosedStages \in [1..N -> Stage]
      /\ \A i \in 1..N : /\ ClosedStages[i].kind = Kinds[i]
                         /\ ~ClosedStages[i].live /\ ~ClosedStages[i].staging
  BY <1>1, ClosedStagesFree
<1>3. PICK qs : qs = ClosedPipes(pipes)
  OBVIOUS
<1>4. /\ qs \in [0..N -> PipeType(Byte)]
      /\ \A i \in 0..N : /\ qs[i].data = pipes[i].data
                         /\ pipes[i].write_closed => qs[i].write_closed
  BY <1>1, <1>3, ClosedPipesKeep DEF Base, TypeOK
<1>5. N \in Nat /\ N \in 0..N /\ 0 \in 0..N /\ \A i \in 1..N : i \in 0..N
  BY <1>1, ConfigFacts DEF Base
<1>6. PICK ps : ps = [qs EXCEPT ![N] = CloseRead(qs[N])]
  OBVIOUS
<1>7. /\ CloseRead(qs[N]) \in PipeType(Byte) /\ CloseRead(qs[N]).data = qs[N].data
      /\ CloseRead(qs[N]).write_closed = qs[N].write_closed
  BY <1>4, <1>5, CloseFacts
<1>8. /\ ps \in [0..N -> PipeType(Byte)]
      /\ \A i \in 0..N : /\ ps[i].data = pipes[i].data
                         /\ pipes[i].write_closed => ps[i].write_closed
  BY <1>4, <1>5, <1>6, <1>7
<1>9. Over("exhausted", ClosedStages, ps, TRUE)
  BY <1>3, <1>6 DEF StepsRefused
<1>10. Ended(ClosedStages, ps)
  BY <1>2, <1>5, <1>8, <1>9 DEF Ended, Over, StepsRefused, PipelineInv, WithinCapacity
<1>11. result' \in Nat \cup {NoStatus}
  BY <1>1, <1>2, <1>9, OverResult DEF Base
<1>12. /\ done' \in [1..N -> BOOLEAN] /\ exhausted' \in BOOLEAN /\ out' \in Seq(Byte)
       /\ ended' = "exhausted"
  BY <1>9 DEF Over, StepsRefused, PipelineInv, TypeOK
<1> QED BY <1>10, <1>11, <1>12, EndedKeeps

(* apply_streaming_deadline.                                                  *)
LEMMA DeadlinePassesKeeps ==
  ASSUME PipelineInv, DeadlinePasses
  PROVE  PipelineInv'
<1>1. Base
  BY DEF PipelineInv, Base
<1>2. /\ ClosedStages \in [1..N -> Stage]
      /\ \A i \in 1..N : /\ ClosedStages[i].kind = Kinds[i]
                         /\ ~ClosedStages[i].live /\ ~ClosedStages[i].staging
  BY <1>1, ClosedStagesFree
<1>3. PICK ps : ps = ClosedPipes(pipes)
  OBVIOUS
<1>4. /\ ps \in [0..N -> PipeType(Byte)]
      /\ \A i \in 0..N : /\ ps[i].data = pipes[i].data
                         /\ pipes[i].write_closed => ps[i].write_closed
  BY <1>1, <1>3, ClosedPipesKeep DEF Base, TypeOK
<1>5. N \in Nat /\ 0 \in 0..N /\ \A i \in 1..N : i \in 0..N
  BY <1>1, ConfigFacts DEF Base
<1>6. PICK stages : stages = [i \in 1..N |-> IF DeadlineStatus(i)
                                             THEN [ClosedStages[i] EXCEPT !.rc = 124]
                                             ELSE ClosedStages[i]]
  OBVIOUS
<1>7. \A i \in 1..N : /\ stages[i] \in Stage /\ stages[i].kind = Kinds[i]
                      /\ ~stages[i].live /\ ~stages[i].staging
  <2> SUFFICES ASSUME NEW i \in 1..N
               PROVE  /\ stages[i] \in Stage /\ stages[i].kind = Kinds[i]
                      /\ ~stages[i].live /\ ~stages[i].staging
    OBVIOUS
  <2>1. PICK c : c = ClosedStages[i]
    OBVIOUS
  <2>2. c \in Stage /\ c.kind = Kinds[i] /\ ~c.live /\ ~c.staging
    BY <1>2, <2>1
  <2>3. PICK t : t = [c EXCEPT !.rc = 124]
    OBVIOUS
  <2>4. t \in Stage /\ t.kind = c.kind /\ t.live = c.live /\ t.staging = c.staging
    BY ZenonT(40), <2>2, <2>3 DEF Stage
  <2>5. stages[i] = c \/ stages[i] = t
    BY <1>6, <2>1, <2>3
  <2> QED BY <2>2, <2>4, <2>5
<1>8. stages \in [1..N -> Stage]
  BY <1>6, <1>7
<1>9. Over("deadline", stages, ps, FALSE)
  BY <1>3, <1>6 DEF DeadlinePasses
<1>10. Ended(stages, ps)
  BY <1>4, <1>5, <1>7, <1>8, <1>9 DEF Ended, Over, DeadlinePasses, PipelineInv, WithinCapacity
<1>11. result' \in Nat \cup {NoStatus}
  BY <1>1, <1>8, <1>9, OverResult DEF Base
<1>12. /\ done' \in [1..N -> BOOLEAN] /\ exhausted' \in BOOLEAN /\ out' \in Seq(Byte)
       /\ ended' = "deadline"
  BY <1>9 DEF Over, DeadlinePasses, PipelineInv, TypeOK
<1> QED BY <1>10, <1>11, <1>12, EndedKeeps

(* cancel_pending_streaming_pipeline.                                         *)
LEMMA CancelKeepsInv ==
  ASSUME PipelineInv, Cancel
  PROVE  PipelineInv'
<1>1. Base
  BY DEF PipelineInv, Base
<1>2. /\ ClosedStages \in [1..N -> Stage]
      /\ \A i \in 1..N : /\ ClosedStages[i].kind = Kinds[i]
                         /\ ~ClosedStages[i].live /\ ~ClosedStages[i].staging
  BY <1>1, ClosedStagesFree
<1>3. PICK qs : qs = ClosedPipes(pipes)
  OBVIOUS
<1>4. /\ qs \in [0..N -> PipeType(Byte)]
      /\ \A i \in 0..N : pipes[i].write_closed => qs[i].write_closed
  BY <1>1, <1>3, ClosedPipesKeep DEF Base, TypeOK
<1>5. N \in Nat /\ 0 \in 0..N /\ \A i \in 1..N : i \in 0..N
  BY <1>1, ConfigFacts DEF Base
<1>6. PICK ps : ps = [i \in 0..N |-> IF i = 0 THEN qs[0] ELSE CloseRead(CloseWrite(pipes[i]))]
  OBVIOUS
<1>7. \A i \in 0..N : /\ CloseRead(CloseWrite(pipes[i])) \in PipeType(Byte)
                      /\ CloseRead(CloseWrite(pipes[i])).data = pipes[i].data
  <2> SUFFICES ASSUME NEW i \in 0..N
               PROVE  /\ CloseRead(CloseWrite(pipes[i])) \in PipeType(Byte)
                      /\ CloseRead(CloseWrite(pipes[i])).data = pipes[i].data
    OBVIOUS
  <2>1. pipes[i] \in PipeType(Byte)
    BY <1>1 DEF Base, TypeOK
  <2>2. CloseWrite(pipes[i]) \in PipeType(Byte) /\ CloseWrite(pipes[i]).data = pipes[i].data
    BY <2>1, CloseFacts
  <2> QED BY <2>2, CloseFacts
<1>8. /\ ps \in [0..N -> PipeType(Byte)] /\ ps[0] = qs[0]
      /\ \A i \in 1..N : ps[i].data = pipes[i].data
  BY <1>4, <1>5, <1>6, <1>7
<1>9. /\ phase' = "over" /\ ended' = "cancelled" /\ st' = ClosedStages /\ pipes' = ps
      /\ UNCHANGED <<conf, done, cur, late, progressed, exhausted, out, result>>
  BY <1>3, <1>6 DEF Cancel
<1>10. Ended(ClosedStages, ps)
  BY <1>2, <1>4, <1>5, <1>8, <1>9 DEF Ended, PipelineInv, WithinCapacity
<1>11. /\ done' \in [1..N -> BOOLEAN] /\ exhausted' \in BOOLEAN /\ out' \in Seq(Byte)
       /\ ended' = "cancelled" /\ result' \in Nat \cup {NoStatus}
  BY <1>9 DEF PipelineInv, TypeOK
<1> QED BY <1>10, <1>11, EndedKeeps

(* A pass begins: nothing has moved yet and no stage has been polled.         *)
LEMMA BeginPassKeeps ==
  ASSUME PipelineInv, BeginPass
  PROVE  PipelineInv'
<1>1. N \in Nat /\ N \in 1..N /\ N \in 0..N
  BY ConfigFacts DEF PipelineInv
<1>2. Config' /\ N' = N /\ Kinds' = Kinds /\ Cap' = Cap
  BY ConfigKept DEF PipelineInv, BeginPass
<1>3. /\ phase = "begin" /\ phase' = "poll" /\ cur' = N /\ progressed' = FALSE
      /\ UNCHANGED <<conf, pipes, st, done, late, exhausted, out, ended, result>>
  BY DEF BeginPass
<1>4. TypeOK'
  BY <1>1, <1>2, <1>3 DEF PipelineInv, TypeOK
<1>5. Shape'
  BY <1>1, <1>2, <1>3 DEF PipelineInv, Shape, Fit
<1>6. WithinCapacity'
  BY <1>2, <1>3 DEF PipelineInv, WithinCapacity
<1>7. SyncInv'
  <2>1. Waiting'
    BY <1>1, <1>2, <1>3 DEF Waiting
  <2> QED BY <1>2, <1>3, <2>1 DEF PipelineInv, SyncInv, Wiring
<1>8. Released' /\ NoStall'
  BY <1>3 DEF PipelineInv, Shape, Released, NoStall
<1> QED BY <1>2, <1>4, <1>5, <1>6, <1>7, <1>8 DEF PipelineInv

(* The clock passes the deadline: only the scheduler will notice.             *)
LEMMA ClockPassesKeeps ==
  ASSUME PipelineInv, ClockPasses
  PROVE  PipelineInv'
<1>1. Config' /\ N' = N /\ Kinds' = Kinds /\ Cap' = Cap
  BY ConfigKept DEF PipelineInv, ClockPasses
<1>2. /\ late' = TRUE
      /\ UNCHANGED <<conf, pipes, st, done, phase, cur, progressed, exhausted, out, ended, result>>
  BY DEF ClockPasses
<1>3. TypeOK'
  BY <1>1, <1>2 DEF PipelineInv, TypeOK
<1>4. Shape'
  BY <1>1, <1>2 DEF PipelineInv, Shape, Fit
<1>5. WithinCapacity' /\ Released' /\ NoStall'
  BY <1>1, <1>2 DEF PipelineInv, WithinCapacity, Released, NoStall
<1>6. SyncInv'
  BY <1>1, <1>2 DEF PipelineInv, SyncInv, Wiring, Waiting, Starved, Blocked
<1> QED BY <1>1, <1>3, <1>4, <1>5, <1>6 DEF PipelineInv

-----------------------------------------------------------------------------
(* Stages do not wait for each other in a circle.  If every stage is done or  *)
(* waits and the last pipe is empty, then the last stage that is blocked      *)
(* would be blocked by a stage that reads, and the first that is starved      *)
(* would be starved by a stage that is done and has closed its output; so     *)
(* every stage is done, unless one of them has failed.                        *)
LEMMA NoCircle ==
  ASSUME N \in Nat, pipes[0].write_closed, \A i \in 1..N : Wiring(i),
         \A i \in 1..N : done[i] \/ Starved(i) \/ Blocked(i),
         pipes[N].data = <<>>, \A i \in 1..N : st[i].rc = 0
  PROVE  \A i \in 1..N : done[i]
<1>1. PICK U : U = {i \in 1..N : ~done[i]}
  OBVIOUS
<1>2. PICK B : B = {i \in U : Blocked(i)}
  OBVIOUS
<1>3. B = {}
  <2> SUFFICES ASSUME B # {}
               PROVE  FALSE
    OBVIOUS
  <2>1. B \subseteq 0..N
    BY <1>1, <1>2
  <2>2. PICK m \in B : \A j \in B : j <= m
    BY <2>1, GreatestElement
  <2>3. m \in 1..N /\ ~done[m] /\ pipes[m].data # <<>> /\ ~pipes[m].read_closed
    BY <1>1, <1>2 DEF Blocked
  <2>4. m + 1 \in 1..N /\ (m + 1) - 1 = m /\ m + 1 > 1 /\ ~(m + 1 <= m)
    BY <2>3
  <2>5. CASE done[m + 1]
    <3>1. Wiring(m + 1) /\ st[m + 1].rc = 0
      BY <2>4
    <3> QED BY <2>3, <2>4, <2>5, <3>1 DEF Wiring
  <2>6. CASE ~done[m + 1]
    <3>1. ~Starved(m + 1)
      BY <2>3, <2>4 DEF Starved
    <3>2. m + 1 \in B
      BY <1>1, <1>2, <2>4, <2>6, <3>1
    <3> QED BY <2>2, <2>4, <3>2
  <2> QED BY <2>5, <2>6
<1>4. U = {}
  <2> SUFFICES ASSUME U # {}
               PROVE  FALSE
    OBVIOUS
  <2>1. U \subseteq Nat
    BY <1>1
  <2>2. PICK m \in U : \A j \in U : m <= j
    BY <2>1, LeastElement
  <2>3. m \in 1..N /\ ~done[m] /\ ~Blocked(m)
    BY <1>1, <1>2, <1>3
  <2>4. ~pipes[m - 1].write_closed
    BY <2>3 DEF Starved
  <2>5. CASE m = 1
    BY <2>4, <2>5
  <2>6. CASE m # 1
    <3>1. m - 1 \in 1..N /\ ~(m <= m - 1)
      BY <2>3, <2>6
    <3>2. done[m - 1]
      BY <1>1, <2>2, <3>1
    <3> QED BY <2>4, <3>1, <3>2 DEF Wiring
  <2> QED BY <2>5, <2>6
<1> QED BY <1>1, <1>4

(* What the drain leaves of the pipes.                                        *)
LEMMA DrainedPipesKeep ==
  ASSUME Base
  PROVE  /\ DrainedPipes \in [0..N -> PipeType(Byte)]
         /\ \A i \in 0..N : /\ pipes[i].write_closed => DrainedPipes[i].write_closed
                            /\ pipes[i].read_closed => DrainedPipes[i].read_closed
         /\ \A i \in 1..N : Len(DrainedPipes[i].data) <= Cap
<1>1. /\ N \in Nat /\ N \in 0..N /\ \A i \in 1..N : i \in 0..N
  BY ConfigFacts DEF Base
<1>2. /\ pipes \in [0..N -> PipeType(Byte)] /\ \A i \in 1..N : Len(pipes[i].data) <= Cap
      /\ Cap \in Nat
  BY CapType DEF Base, TypeOK, WithinCapacity
<1>3. PICK p : p = pipes[N]
  OBVIOUS
<1>4. p \in PipeType(Byte) /\ p.data \in Seq(Byte) /\ Len(p.data) \in Nat
  BY <1>1, <1>2, <1>3, LenProperties DEF PipeType
<1>5. CASE DrainedPipes = pipes
  BY <1>2, <1>5
<1>6. CASE \E q : DrainedPipes = [pipes EXCEPT ![N] = q] /\ KeepsIn(p, q)
  <2>1. PICK q : DrainedPipes = [pipes EXCEPT ![N] = q] /\ KeepsIn(p, q)
    BY <1>6
  <2>2. /\ q \in PipeType(Byte) /\ q.write_closed = p.write_closed
        /\ p.read_closed => q.read_closed
        /\ Len(q.data) <= Len(p.data)
    BY <2>1 DEF KeepsIn
  <2>3. Len(q.data) \in Nat
    BY <2>2, LenProperties DEF PipeType
  <2>4. /\ DrainedPipes \in [0..N -> PipeType(Byte)] /\ DrainedPipes[N] = q
        /\ \A i \in 0..N : i # N => DrainedPipes[i] = pipes[i]
    BY <1>1, <1>2, <2>1, <2>2
  <2>5. N \in 1..N /\ Len(q.data) <= Cap
    BY <1>1, <1>2, <1>3, <1>4, <2>2, <2>3, ConfigFacts DEF Base
  <2> QED BY <1>1, <1>2, <1>3, <2>2, <2>4, <2>5
<1>7. CASE OverPipes
  <2>1. KeepsIn(p, CloseRead(p))
    BY <1>4, PipeKept
  <2>2. DrainedPipes = pipes \/ DrainedPipes = [pipes EXCEPT ![N] = CloseRead(p)]
    BY <1>3, <1>7 DEF DrainedPipes
  <2> QED BY <1>5, <1>6, <2>1, <2>2
<1>8. CASE ~OverPipes
  <2>1. PICK d : d = DropBytes(p.data, Drained)
    OBVIOUS
  <2>2. d \in Seq(Byte) /\ Len(d) <= Len(p.data)
    <3>1. Drained \in 0..Len(p.data)
      BY <1>3, DrainedFacts
    <3>2. d \in Seq(Byte) /\ Len(d) = Len(p.data) - Drained
      BY <1>4, <2>1, <3>1, Cut
    <3> QED BY <1>4, <3>1, <3>2
  <2>3. PICK r \in BOOLEAN : r = (p.read_closed \/ OverOutput)
    OBVIOUS
  <2>4. PICK q : q = [data |-> d, read_closed |-> r, write_closed |-> p.write_closed]
    OBVIOUS
  <2>5. KeepsIn(p, q)
    BY <1>4, <2>2, <2>3, <2>4 DEF KeepsIn, PipeType
  <2>6. DrainedPipes = [pipes EXCEPT ![N] = q]
    BY <1>3, <1>8, <2>1, <2>3, <2>4 DEF DrainedPipes
  <2> QED BY <1>6, <2>5, <2>6
<1> QED BY <1>7, <1>8

(* The end of a pass, whether the pipeline goes on, is done, has spent its    *)
(* budget or stalls.                                                          *)
LEMMA EndPassKeeps ==
  ASSUME PipelineInv, EndPass
  PROVE  PipelineInv'
<1>1. Base
  BY DEF PipelineInv, Base
<1>2. PICK all \in BOOLEAN : all = \A i \in 1..N : done[i]
  OBVIOUS
<1>3. PICK spent \in BOOLEAN : spent = (OverPipes \/ OverOutput)
  OBVIOUS
<1>4. PICK stalled \in BOOLEAN : stalled = (conf.mode = "sync" /\ ~progressed /\ Drained = 0)
  OBVIOUS
<1>5. PICK ps : ps = DrainedPipes
  OBVIOUS
<1>6. /\ ps \in [0..N -> PipeType(Byte)]
      /\ \A i \in 0..N : /\ pipes[i].write_closed => ps[i].write_closed
                         /\ pipes[i].read_closed => ps[i].read_closed
      /\ \A i \in 1..N : Len(ps[i].data) <= Cap
  BY <1>1, <1>5, DrainedPipesKeep
<1>7. /\ phase = "drain" /\ cur = 0 /\ ended = "no" /\ conf' = conf /\ cur' = cur
      /\ late' = late /\ progressed' = progressed
  BY DEF EndPass, PipelineInv, Shape
<1>8. out' \in Seq(Byte)
  <2>1. out \in Seq(Byte)
    BY DEF PipelineInv, TypeOK
  <2>2. TakeBytes(pipes[N].data, Drained) \in Seq(Byte)
    BY <1>1, DrainedFacts, Cut
  <2>3. out' = out \/ out' = out \o TakeBytes(pipes[N].data, Drained)
    BY DEF EndPass
  <2>4. \A a, b \in Seq(Byte) : a \o b \in Seq(Byte)
    OBVIOUS
  <2> QED BY <2>1, <2>2, <2>3, <2>4, Zenon
<1>9. N \in Nat /\ 0 \in 0..N /\ \A i \in 1..N : i \in 0..N
  BY <1>1, ConfigFacts DEF Base
<1>10. CASE spent \/ all \/ stalled
  <2>1. PICK why : why = IF spent THEN "exhausted" ELSE IF all THEN "finished" ELSE "stalled"
    OBVIOUS
  <2>2. PICK qs : qs = ClosedPipes(ps)
    OBVIOUS
  <2>3. /\ Over(why, ClosedStages, qs, spent)
        /\ done' = IF conf.mode = "pending" THEN [i \in 1..N |-> TRUE] ELSE done
    BY <1>2, <1>3, <1>4, <1>5, <1>10, <2>1, <2>2 DEF EndPass
  <2>4. /\ qs \in [0..N -> PipeType(Byte)]
        /\ \A i \in 0..N : /\ qs[i].data = ps[i].data
                           /\ ps[i].write_closed => qs[i].write_closed
    BY <1>6, <2>2, ClosedPipesKeep
  <2>5. /\ ClosedStages \in [1..N -> Stage]
        /\ \A i \in 1..N : /\ ClosedStages[i].kind = Kinds[i] /\ ClosedStages[i].rc = st[i].rc
                           /\ ~ClosedStages[i].live /\ ~ClosedStages[i].staging
    BY <1>1, ClosedStagesFree
  <2>6. Ended(ClosedStages, qs)
    BY <1>6, <1>7, <1>9, <2>3, <2>4, <2>5 DEF Ended, Over
  <2>7. result' \in Nat \cup {NoStatus}
    BY <1>1, <2>3, <2>5, OverResult DEF Base
  <2>8. done' \in [1..N -> BOOLEAN] /\ exhausted' \in BOOLEAN /\ ended' = why
    BY <2>3 DEF Over, PipelineInv, TypeOK
  <2>9. ended' = "stalled" => \E i \in 1..N : ClosedStages[i].rc # 0
    <3> SUFFICES ASSUME ~all, stalled, \A i \in 1..N : st[i].rc = 0
                 PROVE  FALSE
      BY <1>10, <2>1, <2>5, <2>8
    <3>1. pipes[N].data = <<>>
      BY <1>1, <1>4, DrainedFacts
    <3>2. pipes[0].write_closed /\ (\A i \in 1..N : Wiring(i)) /\ Waiting
      BY <1>4, <1>7 DEF PipelineInv, SyncInv
    <3>3. \A i \in 1..N : done[i] \/ Starved(i) \/ Blocked(i)
      BY <1>4, <1>7, <3>2 DEF Waiting
    <3> QED BY <1>2, <1>9, <3>1, <3>2, <3>3, NoCircle
  <2>10. why \in {"exhausted", "finished", "stalled"}
    BY <2>1
  <2> QED BY <1>8, <2>6, <2>7, <2>8, <2>9, <2>10, EndedKeeps
<1>11. CASE ~(spent \/ all \/ stalled)
  <2>1. /\ phase' = "begin" /\ pipes' = ps /\ st' = st /\ done' = done
        /\ exhausted' = exhausted /\ ended' = ended /\ result' = result
    BY <1>2, <1>3, <1>4, <1>5, <1>11 DEF EndPass
  <2>2. Config' /\ N' = N /\ Kinds' = Kinds /\ Cap' = Cap
    BY <1>7, ConfigKept DEF PipelineInv
  <2>3. TypeOK'
    BY <1>6, <1>7, <1>8, <2>1, <2>2 DEF PipelineInv, TypeOK
  <2>4. Shape'
    BY <1>7, <2>1, <2>2 DEF PipelineInv, Shape, Fit
  <2>5. WithinCapacity'
    BY <1>6, <2>1, <2>2 DEF WithinCapacity
  <2>6. SyncInv'
    <3> SUFFICES ASSUME conf.mode = "sync"
                 PROVE  SyncInv'
      BY <1>7 DEF SyncInv
    <3>1. pipes'[0].write_closed
      BY <1>6, <1>9, <2>1 DEF PipelineInv, SyncInv
    <3>2. \A i \in 1..N : Wiring(i)'
      <4> SUFFICES ASSUME NEW i \in 1..N
                   PROVE  Wiring(i)'
        OBVIOUS
      <4>1. Wiring(i) /\ i \in 0..N /\ i - 1 \in 0..N
        BY <1>7, <1>9 DEF PipelineInv, SyncInv
      <4> QED BY <1>6, <2>1, <4>1 DEF Wiring
    <3>3. Waiting'
      BY <2>1 DEF Waiting
    <3> QED BY <2>2, <3>1, <3>2, <3>3 DEF SyncInv
  <2>7. Released' /\ NoStall'
    BY <1>7, <2>1 DEF Released, NoStall
  <2> QED BY <2>2, <2>3, <2>4, <2>5, <2>6, <2>7 DEF PipelineInv
<1> QED BY <1>10, <1>11

-----------------------------------------------------------------------------
(* The constructors of the stages.                                            *)
Fresh(k, s) ==
    s \in Stage /\ s.kind = k /\ Fit(s) /\ (k # "external" => ~s.eof /\ s.pend = <<>>)

(* The constructors of the five process types.                                *)
LEMMA NewStageFresh ==
  ASSUME NEW k \in Kind, NEW first \in BOOLEAN, NEW s, s = NewStage(k, first)
  PROVE  Fresh(k, s)
<1>1. PICK ext \in BOOLEAN : ext = (k = "external")
  OBVIOUS
<1>2. PICK inb : inb = IF k = "external" /\ first THEN Source ELSE <<>>
  OBVIOUS
<1>3. inb \in Seq(Byte) /\ <<>> \in Seq(Byte) /\ HeadBytes \in Nat
  BY <1>2, Constants
<1>4. s = [kind |-> k, fin |-> FALSE, pend |-> <<>>, se |-> <<>>, eof |-> FALSE, rc |-> 0,
           left |-> HeadBytes, file |-> <<>>, staging |-> FALSE,
           live |-> ext, stdin |-> <<>>, sclosed |-> FALSE,
           writable |-> ext, nin |-> 0, nout |-> 0, status |-> NoStatus, inbox |-> inb]
  BY <1>1, <1>2 DEF NewStage
<1>5. s \in Stage
  BY <1>3, <1>4 DEF Stage
<1>6. s.kind = k /\ s.live = ext /\ ~s.staging /\ ~s.eof /\ s.pend = <<>>
  BY <1>4
<1> QED BY <1>1, <1>5, <1>6 DEF Fresh, Fit

(* ExternalPipeProcess::failed.                                               *)
LEMMA FailedStageFresh ==
  ASSUME NEW i, NEW s, s = FailedStage(i)
  PROVE  Fresh("external", s)
<1>1. PICK d \in Seq(Byte) : d = Diagnostic(i)
  BY Constants
<1>2. <<>> \in Seq(Byte) /\ HeadBytes \in Nat /\ 126 \in Nat /\ "external" \in Kind
  BY Constants DEF Kind
<1>3. s = [kind |-> "external", fin |-> FALSE, pend |-> <<>>, se |-> d, eof |-> TRUE, rc |-> 126,
           left |-> HeadBytes, file |-> <<>>, staging |-> FALSE,
           live |-> FALSE, stdin |-> <<>>, sclosed |-> TRUE,
           writable |-> FALSE, nin |-> 0, nout |-> 0, status |-> 126, inbox |-> <<>>]
  BY ZenonT(40), <1>1 DEF FailedStage, NewStage
<1>4. s \in Stage
  BY <1>2, <1>3 DEF Stage
<1>5. s.kind = "external" /\ ~s.staging /\ ~s.live
  BY <1>3
<1> QED BY <1>4, <1>5 DEF Fresh, Fit

(* A stage as a pipeline starts it.                                           *)
LEMMA StartedFresh ==
  ASSUME NEW i \in Nat, NEW k \in Kind, NEW s \in Started(i, k)
  PROVE  Fresh(k, s)
<1>1. CASE s = NewStage(k, i = 1)
  <2>1. PICK first \in BOOLEAN : first = (i = 1)
    OBVIOUS
  <2> QED BY <1>1, <2>1, NewStageFresh
<1>2. CASE k = "external" /\ s = FailedStage(i)
  BY <1>2, FailedStageFresh
<1> QED BY <1>1, <1>2 DEF Started

(* A pipeline starts with the invariant.                                      *)
LEMMA InitEstablishes ==
  ASSUME Init
  PROVE  PipelineInv
<1>1. PICK c \in Scenarios, pf \in BOOLEAN :
          conf = [kinds |-> c.kinds, mode |-> SchedulerOf(c.kinds), pipefail |-> pf,
                  faults |-> c.faults]
  BY DEF Init
<1>2. c.kinds \in Seq(Kind) /\ c.faults \in SUBSET Fault /\ Len(c.kinds) > 0
  BY StreamingAssumption
<1>3. PICK m : m = SchedulerOf(c.kinds)
  OBVIOUS
<1>4. /\ m \in {"sync", "pending"}
      /\ m = "sync" => \A i \in 1..Len(c.kinds) : c.kinds[i] # "external"
  <2>1. DOMAIN c.kinds = 1..Len(c.kinds)
    BY <1>2
  <2> QED BY <1>3, <2>1 DEF SchedulerOf
<1>5. /\ conf \in [kinds : Seq(Kind), mode : {"sync", "pending"}, pipefail : BOOLEAN,
                   faults : SUBSET Fault]
      /\ conf.kinds = c.kinds /\ conf.mode = m
  BY <1>1, <1>2, <1>3, <1>4
<1>6. Config
  BY <1>2, <1>4, <1>5 DEF Config, N, Kinds
<1>7. N \in Nat /\ N > 0 /\ Kinds \in Seq(Kind) /\ \A i \in 1..N : Kinds[i] \in Kind
  BY <1>6, ConfigFacts
<1>8. \A i \in 1..N : Fresh(Kinds[i], st[i])
  <2> SUFFICES ASSUME NEW i \in 1..N
               PROVE  Fresh(Kinds[i], st[i])
    OBVIOUS
  <2>1. st[i] \in Started(i, Kinds[i]) /\ Kinds[i] \in Kind /\ i \in Nat
    BY <1>7 DEF Init
  <2> QED BY <2>1, StartedFresh
<1>9. st \in [1..N -> Stage]
  <2>1. PICK T : T = UNION {Started(i, Kinds[i]) : i \in 1..N}
    OBVIOUS
  <2>2. st \in [1..N -> T]
    BY <2>1 DEF Init
  <2> QED BY <1>8, <2>2 DEF Fresh
<1>10. /\ pipes \in [0..N -> PipeType(Byte)] /\ pipes[0].write_closed
       /\ \A i \in 1..N : Len(pipes[i].data) = 0
  <2>1. PICK src : src = [data |-> Source, write_closed |-> TRUE, read_closed |-> FALSE]
    OBVIOUS
  <2>2. src \in PipeType(Byte) /\ src.write_closed
    BY <2>1, Constants DEF PipeType
  <2>3. NewPipe \in PipeType(Byte) /\ Len(NewPipe.data) = 0
    BY DEF PipeType, NewPipe
  <2>4. pipes = [i \in 0..N |-> IF i = 0 THEN src ELSE NewPipe]
    BY <2>1 DEF Init
  <2>5. 0 \in 0..N /\ \A i \in 1..N : i \in 0..N /\ i # 0
    BY <1>7
  <2> HIDE DEF NewPipe
  <2> QED BY <2>2, <2>3, <2>4, <2>5
<1>11. /\ done = [i \in 1..N |-> FALSE] /\ phase = "begin" /\ cur = 0 /\ late = FALSE
       /\ progressed = FALSE /\ exhausted = FALSE /\ out = <<>> /\ ended = "no"
       /\ result = NoStatus
  BY DEF Init
<1>12. TypeOK
  BY <1>7, <1>9, <1>10, <1>11 DEF TypeOK
<1>13. Shape
  BY <1>8, <1>11 DEF Shape, Fresh
<1>14. WithinCapacity
  BY <1>6, <1>10, CapType DEF WithinCapacity
<1>15. SyncInv
  <2>1. \A i \in 1..N : Wiring(i)
    BY <1>8, <1>11 DEF Wiring, Fresh, Buffering
  <2> QED BY <1>10, <1>11, <2>1 DEF SyncInv, Waiting
<1>16. Released /\ NoStall
  BY <1>11 DEF Released, NoStall
<1> QED BY <1>6, <1>12, <1>13, <1>14, <1>15, <1>16 DEF PipelineInv

(* A step that changes nothing preserves the invariant.                       *)
LEMMA StutterKeeps ==
  ASSUME PipelineInv, UNCHANGED vars
  PROVE  PipelineInv'
<1>1. UNCHANGED <<conf, pipes, st, done, phase, cur, late, progressed, exhausted, out, ended,
                  result>>
  BY DEF vars
<1>2. Config' /\ N' = N /\ Kinds' = Kinds /\ Cap' = Cap
  BY <1>1, ConfigKept DEF PipelineInv
<1>3. TypeOK' /\ WithinCapacity' /\ Released' /\ NoStall'
  BY <1>1, <1>2 DEF PipelineInv, TypeOK, WithinCapacity, Released, NoStall
<1>4. Shape'
  BY <1>1, <1>2 DEF PipelineInv, Shape, Fit
<1>5. SyncInv'
  BY <1>1, <1>2 DEF PipelineInv, SyncInv, Wiring, Waiting, Starved, Blocked
<1> QED BY <1>2, <1>3, <1>4, <1>5 DEF PipelineInv

(* PipelineInv holds at every step of every pipeline.                         *)
THEOREM PipelineInvariant == Spec => []PipelineInv
<1>1. Init => PipelineInv
  BY InitEstablishes
<1>2. PipelineInv /\ [Next]_vars => PipelineInv'
  <2> SUFFICES ASSUME PipelineInv, [Next]_vars
               PROVE  PipelineInv'
    OBVIOUS
  <2>1. CASE BeginPass
    BY <2>1, BeginPassKeeps
  <2>2. CASE Poll
    BY <2>2, PollKeeps
  <2>3. CASE EndPass
    BY <2>3, EndPassKeeps
  <2>4. CASE DeadlinePasses
    BY <2>4, DeadlinePassesKeeps
  <2>5. CASE StepsRefused
    BY <2>5, StepsRefusedKeeps
  <2>6. CASE ClockPasses
    BY <2>6, ClockPassesKeeps
  <2>7. CASE Cancel
    BY <2>7, CancelKeepsInv
  <2>8. CASE UNCHANGED vars
    BY <2>8, StutterKeeps
  <2> QED BY <2>1, <2>2, <2>3, <2>4, <2>5, <2>6, <2>7, <2>8 DEF Next, Scheduler
<1> QED BY <1>1, <1>2, PTL DEF Spec

(* Every stage and pipe stays in its type, whatever the scenario: in          *)
(* particular what a stage holds and what it writes are bytes of the source   *)
(* or of stderr.                                                              *)
THEOREM PipelineTypes == Spec => []TypeOK
<1>1. PipelineInv => TypeOK
  BY DEF PipelineInv
<1> QED BY <1>1, PipelineInvariant, PTL

(* No output pipe ever holds more than its capacity: one byte under           *)
(* drive_streaming_pipeline, EXTERNAL_STREAM_PIPE_CAPACITY under              *)
(* poll_pending_streaming_pipeline.                                           *)
THEOREM PipesWithinCapacity == Spec => []WithinCapacity
<1>1. PipelineInv => WithinCapacity
  BY DEF PipelineInv
<1> QED BY <1>1, PipelineInvariant, PTL

(* However a pipeline of any length ends (its stages are done, it stalls, the *)
(* deadline passes, it is cancelled or a budget is spent), no child process   *)
(* and no staging file of it is left.                                         *)
THEOREM PipelineReleases == Spec => []Released
<1>1. PipelineInv => Released
  BY DEF PipelineInv
<1> QED BY <1>1, PipelineInvariant, PTL

(* drive_streaming_pipeline stops for lack of progress only after a stage has *)
(* failed: in a pipeline of any length, of any built-in stages, the stages    *)
(* and their one-byte pipes never wait for each other in a circle.            *)
THEOREM PipelineNeverStalls == Spec => []NoStall
<1>1. PipelineInv => NoStall
  BY DEF PipelineInv
<1> QED BY <1>1, PipelineInvariant, PTL

=============================================================================
