------------------------------ MODULE LossProofs ------------------------------
(* Proof that a pipeline which reports success has lost nothing.              *)
(*                                                                            *)
(* ConservationProofs says where the bytes of the source are at any time.     *)
(* What is added here is why a stage may end: a stage that has not failed     *)
(* ends only when it has handed on all it held and its input has ended, or    *)
(* when a stage further on wants no more (Firm, Emptied); and that a head has *)
(* read just the bytes it no longer wants (Counted).  At the end of a         *)
(* pipeline without failures the places of the bytes then leave only one      *)
(* possibility.                                                               *)
EXTENDS ConservationProofs

-----------------------------------------------------------------------------
(* The invariant.                                                             *)

(* No child exits before it has read its input.                               *)
Calm == "exit" \notin Faults

(* No stderr is merged into the output of a child.                            *)
Unmerged == PipeStderr = {} \/ {"stderr", "error"} \cap Faults = {}

(* A pipe that has ended.                                                     *)
Eof(p) == p.data = <<>> /\ p.write_closed

(* What the flags of a stage mean: a child that is still there has not        *)
(* failed; a stage that has not failed and has seen the end of its input has  *)
(* really got all of it.                                                      *)
Firm(s, p, i) ==
    /\ s.kind = "external" /\ s.live => s.rc = 0
    /\ s.kind = "head" => (s.left = 0 <=> s.eof)
    /\ s.kind \in Buffering /\ s.pend # <<>> => s.eof
    /\ s.rc = 0 =>
           /\ s.kind \in {"read", "tee"} /\ s.eof => Eof(p)
           /\ s.kind \in Buffering /\ s.eof => s.file = <<>> /\ (i > 1 => Eof(p))
           /\ s.kind = "external" /\ ~s.live => s.fin
           /\ s.kind = "external" /\ s.status # NoStatus => s.sclosed
           /\ s.kind = "external" /\ s.eof => s.sclosed /\ s.inbox = <<>>
           /\ s.kind = "external" /\ s.sclosed /\ i > 1 => Eof(p)

(* A stage that ended of itself and without failing has nothing left.         *)
Emptied(s, p) ==
    s.fin /\ s.rc = 0 =>
        /\ s.pend = <<>>
        /\ s.kind \in {"read", "tee"} \cup Buffering => s.eof
        /\ s.kind = "external" => s.eof
        /\ s.kind = "head" => s.left = 0 \/ Eof(p)

(* No byte of stderr is in the buffers of a view.                             *)
Pure == Nat \ {0}
Clear(x) ==
    /\ x.s.se = <<>> /\ x.s.pend \in Seq(Pure) /\ x.s.inbox \in Seq(Pure)
    /\ x.s.stdin \in Seq(Pure) /\ x.s.file \in Seq(Pure)
    /\ x.in.data \in Seq(Pure) /\ x.out.data \in Seq(Pure)

(* A part of a poll that respects all this: it hides no failure, and ends the *)
(* stage only as it may.                                                      *)
Secures(x, y, i) ==
    /\ y.s.rc = 0 => x.s.rc = 0
    /\ Firm(x.s, x.in, i) => Firm(y.s, y.in, i)
    /\ Firm(x.s, x.in, i) /\ ~x.out.read_closed /\ Emptied(x.s, x.in) => Emptied(y.s, y.in)
    /\ Unmerged /\ y.s.rc = 0 /\ Clear(x) => Clear(y)
    /\ y.res = "exited" => y.s.fin

-----------------------------------------------------------------------------
(* Parts of a poll.                                                           *)

(* They may be taken one after the other.                                     *)
LEMMA SecuresTrans ==
  ASSUME NEW x, NEW y, NEW z, NEW i, Secures(x, y, i), Secures(y, z, i),
         y.out.read_closed = x.out.read_closed
  PROVE  Secures(x, z, i)
BY DEF Secures

(* A part that changes nothing that matters here.                             *)
LEMMA FirmKept ==
  ASSUME NEW s, NEW t, NEW p, NEW q, NEW i, SameControl(s, t), t.inbox = s.inbox,
         s.kind \in Buffering => t.file = s.file /\ (t.pend # <<>> => s.pend # <<>>),
         q.data = p.data, q.write_closed = p.write_closed, s.fin => t.fin, Firm(s, p, i)
  PROVE  Firm(t, q, i)
BY DEF Firm, SameControl, Eof

(* Writing and reading bytes that are not of stderr.                          *)
LEMMA PurePipe ==
  ASSUME NEW p \in PipeType(Byte), p.data \in Seq(Pure)
  PROVE  p \in PipeType(Pure)
BY DEF PipeType

LEMMA WritesPure ==
  ASSUME Config, NEW p \in PipeType(Byte), p.data \in Seq(Pure), NEW buf \in Seq(Pure),
         NEW w, w = Write(p, buf, Cap)
  PROVE  /\ w.pipe.data \in Seq(Pure) /\ DropBytes(buf, w.n) \in Seq(Pure)
         /\ TakeBytes(buf, w.n) \in Seq(Pure)
<1>1. Wrote(Pure, p, buf, Cap, w)
  BY CapType, PurePipe, WriteFacts
<1>2. w.pipe \in PipeType(Pure) /\ w.n \in 0..Len(buf)
  BY <1>1 DEF Wrote
<1> QED BY <1>2, Cut DEF PipeType

LEMMA ReadsPure ==
  ASSUME NEW p \in PipeType(Byte), p.data \in Seq(Pure), NEW max \in Nat \ {0},
         NEW r, r = Read(p, max)
  PROVE  r.bytes \in Seq(Pure) /\ r.pipe.data \in Seq(Pure)
<1>1. Fetched(Pure, p, r)
  BY PurePipe, ReadFacts
<1> QED BY <1>1 DEF Fetched, PipeType

-----------------------------------------------------------------------------
(* PipeReadProcess, TeePipeProcess and HeadPipeProcess.                       *)

(* finish, of a stage that has nothing left or whose reader has gone.         *)
LEMMA FinishSecures ==
  ASSUME NEW i, NEW x \in ViewType, x.s.kind \in Reading, NEW y, y = Finish(x),
         \/ x.out.read_closed
         \/ x.s.pend = <<>> /\ (IF x.s.kind = "head" THEN x.s.left = 0 \/ Eof(x.in) ELSE x.s.eof)
  PROVE  Secures(x, y, i) /\ y.s.left = x.s.left /\ y.in.data = x.in.data
<1>1. x.s \in Stage /\ x.in \in PipeType(Byte) /\ x.out \in PipeType(Byte)
  BY ViewParts
<1>2. y.s = [x.s EXCEPT !.fin = TRUE]
  BY FinishKeeps
<1>3. SameBuffers(x.s, y.s) /\ SameControl(x.s, y.s) /\ y.s.fin
  BY <1>1, <1>2 DEF Stage, SameBuffers, SameControl
<1>4. y.in = CloseRead(x.in) /\ y.out = CloseWrite(x.out)
  BY DEF Finish
<1>5. y.in.data = x.in.data /\ y.out.data = x.out.data /\ y.in.write_closed = x.in.write_closed
  BY <1>1, <1>4, CloseFacts
<1>6. Firm(x.s, x.in, i) => Firm(y.s, y.in, i)
  BY <1>3, <1>5, FirmKept DEF SameBuffers
<1>7. ~x.out.read_closed => Emptied(y.s, y.in)
  BY <1>3, <1>5 DEF Emptied, SameBuffers, SameControl, Reading, Buffering, Eof
<1>8. Clear(x) => Clear(y)
  BY <1>3, <1>5 DEF Clear, SameBuffers
<1> QED BY <1>3, <1>5, <1>6, <1>7, <1>8 DEF Secures, SameControl

(* read_drain_pending, tee_drain_pending.                                     *)
LEMMA DrainPendingSecures ==
  ASSUME Config, NEW i, NEW x \in ViewType, x.s.kind \in Reading, ~x.s.fin,
         NEW y, y = DrainPending(x)
  PROVE  /\ Secures(x, y, i) /\ y.s.left = x.s.left /\ y.in.data = x.in.data
         /\ y.res = "ready" => y.in = x.in /\ SameControl(x.s, y.s) /\ ~y.s.fin
<1>1. x.s \in Stage /\ x.in \in PipeType(Byte) /\ x.out \in PipeType(Byte)
      /\ x.s.pend \in Seq(Byte) /\ x.s.file \in Seq(Byte)
  BY ViewParts DEF Stage
<1>2. PICK w : w = Write(x.out, x.s.pend, Cap)
  OBVIOUS
<1>3. w.res = "broken" <=> x.out.read_closed
  <2>1. Written(x.out, x.s.pend, w)
    BY <1>1, <1>2, WriteKeeps
  <2> QED BY <2>1 DEF Written
<1>4. CASE w.res = "broken"
  <2>1. y = Finish(x)
    BY <1>2, <1>4 DEF DrainPending
  <2>2. y.res # "ready"
    BY <2>1 DEF Finish
  <2> QED BY <1>3, <1>4, <2>1, <2>2, FinishSecures
<1>5. CASE w.res # "broken"
  <2>1. PICK f : f = IF x.s.kind = "tee" THEN x.s.file \o TakeBytes(x.s.pend, w.n) ELSE x.s.file
    OBVIOUS
  <2>2. PICK t : t = [x.s EXCEPT !.pend = DropBytes(x.s.pend, w.n), !.file = f]
    OBVIOUS
  <2>3. y.s = t /\ y.in = x.in /\ y.out = w.pipe /\ y.res # "exited"
    BY <1>2, <1>5, <2>1, <2>2 DEF DrainPending
  <2>4. /\ SameControl(x.s, t) /\ t.fin = x.s.fin /\ t.pend = DropBytes(x.s.pend, w.n)
        /\ t.inbox = x.s.inbox /\ t.stdin = x.s.stdin /\ t.se = x.s.se /\ t.file = f
    BY <1>1, <2>2 DEF Stage, SameControl
  <2>5. Firm(x.s, x.in, i) => Firm(y.s, y.in, i)
    BY <2>3, <2>4, FirmKept DEF Reading, Buffering
  <2>6. Emptied(y.s, y.in)
    BY <2>3, <2>4 DEF Emptied
  <2>7. ASSUME Clear(x)
        PROVE  Clear(y)
    <3>1. /\ w.pipe.data \in Seq(Pure) /\ DropBytes(x.s.pend, w.n) \in Seq(Pure)
          /\ TakeBytes(x.s.pend, w.n) \in Seq(Pure) /\ x.s.file \in Seq(Pure)
      BY <1>1, <1>2, <2>7, WritesPure DEF Clear
    <3>2. f \in Seq(Pure)
      BY <2>1, <3>1
    <3> QED BY <2>3, <2>4, <2>7, <3>1, <3>2 DEF Clear
  <2> QED BY <2>3, <2>4, <2>5, <2>6, <2>7 DEF Secures, SameControl
<1> QED BY <1>4, <1>5

(* poll_stderr, tee_drain_stderr.                                             *)
LEMMA DrainStderrSecures ==
  ASSUME Config, NEW i, NEW x \in ViewType, x.s.kind \in Reading, ~x.s.fin, x.s.se # <<>>,
         NEW y, y = DrainStderr(x)
  PROVE  Secures(x, y, i)
<1>1. x.s \in Stage /\ x.in \in PipeType(Byte) /\ x.out \in PipeType(Byte)
      /\ x.s.se \in Seq(Byte)
  BY ViewParts DEF Stage
<1>2. PICK w : w = Write(x.out, x.s.se, Cap)
  OBVIOUS
<1>3. w.res = "broken" <=> x.out.read_closed
  <2>1. Written(x.out, x.s.se, w)
    BY <1>1, <1>2, WriteKeeps
  <2> QED BY <2>1 DEF Written
<1>4. CASE w.res = "broken"
  <2>1. y = Finish(x)
    BY <1>2, <1>4 DEF DrainStderr
  <2> QED BY <1>3, <1>4, <2>1, FinishSecures
<1>5. CASE w.res # "broken"
  <2>1. PICK t : t = [x.s EXCEPT !.se = DropBytes(x.s.se, w.n)]
    OBVIOUS
  <2>2. y.s = t /\ y.in = x.in /\ y.res # "exited"
    BY <1>2, <1>5, <2>1 DEF DrainStderr
  <2>3. SameControl(x.s, t) /\ t.fin = x.s.fin /\ t.inbox = x.s.inbox
    BY <1>1, <2>1 DEF Stage, SameControl
  <2>4. Firm(x.s, x.in, i) => Firm(y.s, y.in, i)
    BY <2>2, <2>3, FirmKept DEF Reading, Buffering
  <2>5. Emptied(y.s, y.in) /\ ~Clear(x)
    BY <2>2, <2>3 DEF Emptied, Clear
  <2> QED BY <2>2, <2>3, <2>4, <2>5 DEF Secures, SameControl
<1> QED BY <1>4, <1>5

(* A poll that has touched nothing.                                           *)
LEMMA UntouchedSecures ==
  ASSUME NEW i, NEW x \in ViewType, NEW y, NEW r, y = Return(x, r), r # "exited" \/ x.s.fin
  PROVE  Secures(x, y, i) /\ y.s = x.s /\ y.in = x.in /\ y.out = x.out
<1>1. y.s = x.s /\ y.in = x.in /\ y.out = x.out /\ y.res = r
  BY DEF Return, ViewType
<1> QED BY <1>1 DEF Secures, Clear

(* Delivering what a reader or tee has.                                       *)
LEMMA DeliverSecures ==
  ASSUME Config, NEW i, NEW x \in ViewType, x.s.kind \in {"read", "tee"}, ~x.s.fin,
         x.res = "going", NEW y, y = Deliver(x)
  PROVE  Secures(x, y, i)
<1>1. x.s.kind \in Reading /\ x.s.kind # "head"
  BY DEF Reading
<1>2. CASE x.s.pend # <<>>
  <2>1. y = DrainPending(x)
    BY <1>2 DEF Deliver
  <2> QED BY <1>1, <2>1, DrainPendingSecures
<1>3. CASE x.s.pend = <<>> /\ x.s.se # <<>>
  <2>1. y = DrainStderr(x)
    BY <1>3 DEF Deliver
  <2> QED BY <1>1, <1>3, <2>1, DrainStderrSecures
<1>4. CASE x.s.pend = <<>> /\ x.s.se = <<>> /\ x.s.eof
  <2>1. y = Finish(x)
    BY <1>4 DEF Deliver
  <2> QED BY <1>1, <1>4, <2>1, FinishSecures
<1>5. CASE x.s.pend = <<>> /\ x.s.se = <<>> /\ ~x.s.eof
  <2>1. y = x
    BY <1>5 DEF Deliver
  <2> QED BY <2>1 DEF Secures
<1> QED BY <1>2, <1>3, <1>4, <1>5

(* PipeReadProcess::poll and TeePipeProcess::poll.                            *)
LEMMA ReadPollSecures ==
  ASSUME Config, NEW i, NEW x \in ViewType, x.s.kind \in {"read", "tee"}, ~x.s.fin,
         x.res = "going", NEW z, z = ReadPoll(x)
  PROVE  Secures(x, z, i)
<1>1. x.s \in Stage /\ x.in \in PipeType(Byte) /\ x.out \in PipeType(Byte)
  BY ViewParts
<1>2. PICK r : r = Read(x.in, Chunk)
  OBVIOUS
<1>3. PICK d : d = Deliver(x)
  OBVIOUS
<1>4. PICK eof : eof = (r.res = "eof")
  OBVIOUS
<1>5. PICK t : t = [x.s EXCEPT !.pend = r.bytes, !.eof = eof]
  OBVIOUS
<1>6. PICK y : y = [s |-> t, in |-> r.pipe, out |-> x.out, res |-> "going"]
  OBVIOUS
<1>7. z = IF d.res # "going" THEN d
          ELSE IF r.res = "would_block" THEN Return(x, "pending_read") ELSE Deliver(y)
  BY <1>2, <1>3, <1>4, <1>5, <1>6 DEF ReadPoll
<1>8. CASE d.res # "going"
  BY <1>3, <1>7, <1>8, DeliverSecures
<1>9. CASE d.res = "going" /\ r.res = "would_block"
  BY <1>7, <1>9, UntouchedSecures
<1>10. CASE d.res = "going" /\ r.res # "would_block"
  <2>1. Fetched(Byte, x.in, r)
    BY <1>1, <1>2, Constants, ReadFacts
  <2>2. /\ eof \in BOOLEAN /\ r.bytes \in Seq(Byte) /\ r.pipe \in PipeType(Byte)
        /\ eof => r.pipe = x.in /\ Eof(x.in)
    BY <1>4, <2>1 DEF Fetched, Eof
  <2>3. /\ t \in Stage /\ t.kind = x.s.kind /\ t.pend = r.bytes /\ t.eof = eof
        /\ t.fin = x.s.fin /\ t.se = x.s.se /\ t.inbox = x.s.inbox /\ t.file = x.s.file
        /\ t.stdin = x.s.stdin /\ t.rc = x.s.rc
    BY <1>1, <1>5, <2>2 DEF Stage
  <2>4. y \in ViewType /\ y.s = t /\ y.in = r.pipe /\ y.out = x.out /\ y.res = "going"
    BY <1>1, <1>6, <2>2, <2>3 DEF ViewType, Outcome
  <2>5. Firm(y.s, y.in, i)
    BY <2>2, <2>3, <2>4 DEF Firm, Buffering
  <2>6. Emptied(y.s, y.in)
    BY <2>3, <2>4 DEF Emptied
  <2>7. Clear(x) => Clear(y)
    <3>1. Clear(x) => r.bytes \in Seq(Pure) /\ r.pipe.data \in Seq(Pure)
      BY <1>1, <1>2, Constants, ReadsPure DEF Clear
    <3> QED BY <2>3, <2>4, <3>1 DEF Clear
  <2>8. Secures(x, y, i)
    BY <2>3, <2>4, <2>5, <2>6, <2>7 DEF Secures
  <2>9. Secures(y, z, i)
    BY <1>7, <1>10, <2>3, <2>4, DeliverSecures
  <2> QED BY <2>4, <2>8, <2>9, SecuresTrans
<1> QED BY <1>8, <1>9, <1>10

(* A first stage whose reader fails.                                          *)
LEMMA ReadFailsSecures ==
  ASSUME Config, NEW i, NEW x \in ViewType, x.s.kind \in {"read", "tee"}, ~x.s.fin,
         x.res = "going", NEW z, z = ReadFails(x, i)
  PROVE  Secures(x, z, i)
<1>1. x.s \in Stage
  BY ViewParts
<1>2. PICK e : e = x.s.se \o Diagnostic(i)
  OBVIOUS
<1>3. PICK t : t = [x.s EXCEPT !.rc = 1, !.eof = TRUE, !.se = e]
  OBVIOUS
<1>4. PICK y : y = [x EXCEPT !.s = t]
  OBVIOUS
<1>5. z = Deliver(y)
  BY <1>2, <1>3, <1>4 DEF ReadFails
<1>6. e \in Seq(Byte)
  <2>1. x.s.se \in Seq(Byte) /\ Diagnostic(i) \in Seq(Byte)
    BY <1>1, Constants DEF Stage
  <2> QED BY <1>2, <2>1
<1>7. t \in Stage /\ t.kind = x.s.kind /\ t.fin = x.s.fin /\ t.rc = 1 /\ KeepsStage(x.s, t)
  BY <1>1, <1>3, <1>6 DEF Stage, KeepsStage, Fit
<1>8. y \in ViewType /\ y.s = t /\ y.in = x.in /\ y.out = x.out /\ y.res = "going"
  BY <1>4, <1>7, PutStage DEF Keeps
<1>9. Firm(y.s, y.in, i) /\ Emptied(y.s, y.in) /\ y.s.rc # 0
  BY <1>7, <1>8 DEF Firm, Emptied, Buffering
<1>10. Secures(x, y, i)
  BY <1>8, <1>9 DEF Secures
<1>11. Secures(y, z, i)
  BY <1>5, <1>7, <1>8, DeliverSecures
<1> QED BY <1>8, <1>10, <1>11, SecuresTrans

(* A head that has taken n bytes from its input wants n fewer.                *)
Counts(x, y) == Len(x.in.data) + y.s.left = Len(y.in.data) + x.s.left

(* try_flush_pending.                                                         *)
LEMMA HeadFlushSecures ==
  ASSUME Config, NEW i, NEW x, Good(x, i), x.s.kind = "head", ~x.s.fin, x.s.pend # <<>>,
         NEW z, z = HeadFlush(x), x.s.left = 0 <=> x.s.eof
  PROVE  Secures(x, z, i) /\ z.s.left = x.s.left /\ z.in.data = x.in.data
<1>1. x \in ViewType /\ x.s.kind \in Reading
  BY DEF Good, Reading
<1>2. PICK d : d = DrainPending(x)
  OBVIOUS
<1>3. z = IF d.res = "ready" /\ d.s.pend = <<>> /\ d.s.eof THEN Finish(d) ELSE d
  BY <1>2 DEF HeadFlush
<1>4. /\ Secures(x, d, i) /\ d.s.left = x.s.left /\ d.in.data = x.in.data
      /\ d.res = "ready" => d.in = x.in /\ SameControl(x.s, d.s) /\ ~d.s.fin
  BY <1>1, <1>2, DrainPendingSecures
<1>5. Keeps(x, d)
  BY <1>1, <1>2, DrainPendingHands DEF Handed
<1>6. CASE d.res = "ready" /\ d.s.pend = <<>> /\ d.s.eof
  <2>1. d \in ViewType /\ d.s.kind = "head" /\ d.s.left = 0 /\ d.s.kind \in Reading
    BY <1>4, <1>5, <1>6 DEF Keeps, SameControl, Reading
  <2>2. Secures(d, z, i) /\ z.s.left = d.s.left /\ z.in.data = d.in.data
    BY <1>3, <1>6, <2>1, FinishSecures
  <2>3. d.out.read_closed = x.out.read_closed
    BY <1>5 DEF Keeps, KeepsOut
  <2> QED BY <1>4, <2>2, <2>3, SecuresTrans
<1> QED BY <1>3, <1>4, <1>6

(* HeadPipeProcess::poll; a read of one byte takes one byte.                  *)
LEMMA HeadPollSecures ==
  ASSUME Config, NEW i, NEW x, Good(x, i), x.s.kind = "head", ~x.s.fin, ~Deaf(x.s, i),
         NEW z, z = HeadPoll(x), x.s.left = 0 <=> x.s.eof
  PROVE  Secures(x, z, i) /\ Counts(x, z)
<1>1. x \in ViewType /\ x.s.kind \in Reading
  BY DEF Good, Reading
<1>2. x.s \in Stage /\ x.in \in PipeType(Byte) /\ x.out \in PipeType(Byte) /\ x.s.left \in Nat
      /\ x.in.data \in Seq(Byte) /\ x.s.eof \in BOOLEAN
  BY <1>1, ViewParts DEF Stage, PipeType
<1>3. PICK r : r = Read(x.in, 1)
  OBVIOUS
<1>4. PICK more : more = IF x.s.left > 0 THEN x.s.left - 1 ELSE 0
  OBVIOUS
<1>5. PICK p : p = IF more = 0 THEN CloseRead(r.pipe) ELSE r.pipe
  OBVIOUS
<1>6. PICK eof : eof = (more = 0)
  OBVIOUS
<1>7. PICK t : t = [x.s EXCEPT !.pend = r.bytes, !.left = more, !.eof = eof]
  OBVIOUS
<1>8. PICK y : y = [s |-> t, in |-> p, out |-> x.out, res |-> "going"]
  OBVIOUS
<1>9. z = IF x.s.pend # <<>> THEN HeadFlush(x)
          ELSE IF x.s.eof \/ r.res = "eof" THEN Finish(x)
          ELSE IF r.res = "would_block" THEN Return(x, "pending_read")
          ELSE HeadFlush(y)
  BY <1>3, <1>4, <1>5, <1>6, <1>7, <1>8 DEF HeadPoll
<1>10. Fetched(Byte, x.in, r)
  BY <1>2, <1>3, ReadFacts
<1>11. CASE x.s.pend # <<>>
  BY <1>9, <1>11, HeadFlushSecures DEF Counts
<1>12. CASE x.s.pend = <<>> /\ (x.s.eof \/ r.res = "eof")
  <2>1. x.s.left = 0 \/ Eof(x.in)
    BY <1>10, <1>12 DEF Fetched, Eof
  <2> QED BY <1>1, <1>9, <1>12, <2>1, FinishSecures DEF Counts
<1>13. CASE x.s.pend = <<>> /\ ~(x.s.eof \/ r.res = "eof") /\ r.res = "would_block"
  BY <1>1, <1>9, <1>13, UntouchedSecures DEF Counts
<1>14. CASE x.s.pend = <<>> /\ ~(x.s.eof \/ r.res = "eof") /\ r.res # "would_block"
  <2>1. /\ eof \in BOOLEAN /\ more \in Nat /\ r.bytes \in Seq(Byte) /\ r.bytes # <<>>
        /\ r.pipe \in PipeType(Byte) /\ x.s.left = more + 1
    <3>1. r.bytes \in Seq(Byte) /\ r.bytes # <<>> /\ r.pipe \in PipeType(Byte)
      BY <1>10, <1>14 DEF Fetched
    <3>2. x.s.left # 0
      BY <1>14
    <3>3. more \in Nat /\ x.s.left = more + 1
      BY <1>2, <1>4, <3>2
    <3>4. eof \in BOOLEAN
      BY <1>6
    <3> QED BY <3>1, <3>3, <3>4
  <2>2. p \in PipeType(Byte) /\ p.data = r.pipe.data
    <3>1. CloseRead(r.pipe) \in PipeType(Byte) /\ CloseRead(r.pipe).data = r.pipe.data
      BY <2>1, CloseFacts
    <3> QED BY <1>5, <2>1, <3>1
  <2>3. /\ t \in Stage /\ t.kind = x.s.kind /\ t.pend = r.bytes /\ t.eof = eof
        /\ t.fin = x.s.fin /\ t.se = x.s.se /\ t.inbox = x.s.inbox /\ t.file = x.s.file
        /\ t.stdin = x.s.stdin /\ t.rc = x.s.rc /\ t.live = x.s.live /\ t.left = more
        /\ t.staging = x.s.staging
    BY <1>2, <1>7, <2>1 DEF Stage
  <2>4. y \in ViewType /\ y.s = t /\ y.in = p /\ y.out = x.out /\ y.res = "going"
    BY <1>2, <1>8, <2>2, <2>3 DEF ViewType, Outcome
  <2>5. Good(y, i) /\ (y.s.left = 0 <=> y.s.eof)
    <3>1. eof <=> more = 0
      BY <1>6
    <3>2. Sane(t, i)
      BY <2>3 DEF Good, Sane, Buffering
    <3>3. AtEnd(t, p, i)
      BY <2>3, <3>1 DEF AtEnd
    <3>4. Fit(t)
      BY <2>3 DEF Good, Fit
    <3> QED BY <2>3, <2>4, <3>1, <3>2, <3>3, <3>4 DEF Good
  <2>6. Firm(y.s, y.in, i) /\ Emptied(y.s, y.in)
    BY <1>6, <2>3, <2>4 DEF Firm, Emptied, Buffering
  <2>7. Clear(x) => Clear(y)
    <3>1. 1 \in Nat \ {0}
      OBVIOUS
    <3>2. Clear(x) => r.bytes \in Seq(Pure) /\ r.pipe.data \in Seq(Pure)
      BY <1>2, <1>3, <3>1, ReadsPure DEF Clear
    <3> QED BY <2>2, <2>3, <2>4, <3>2 DEF Clear
  <2>8. Secures(x, y, i)
    BY <2>3, <2>4, <2>6, <2>7 DEF Secures
  <2>9. Len(x.in.data) = Len(r.pipe.data) + 1 /\ Len(r.pipe.data) \in Nat
    <3>1. PICK m : m = Len(x.in.data)
      OBVIOUS
    <3>2. PICK n : n = Least(1, m)
      OBVIOUS
    <3>3. m \in Nat
      BY <1>2, <3>1
    <3>4. n \in 0..m /\ (n = 0 \/ n = 1)
      BY <3>2, <3>3 DEF Least
    <3>5. n # 0
      BY <1>3, <1>14, <2>1, <3>1, <3>2 DEF Read
    <3>6. n = 1 /\ n > 0
      BY <3>4, <3>5
    <3>7. r.pipe = [x.in EXCEPT !.data = DropBytes(x.in.data, n)]
      BY <1>3, <3>1, <3>2, <3>6 DEF Read
    <3>8. r.pipe.data = DropBytes(x.in.data, n)
      BY <1>2, <3>7 DEF PipeType
    <3>9. Len(DropBytes(x.in.data, n)) = m - n
      BY <1>2, <3>1, <3>4, Cut
    <3> QED BY <3>1, <3>3, <3>4, <3>6, <3>8, <3>9
  <2>10. PICK k : k = Len(r.pipe.data)
    OBVIOUS
  <2>11. Counts(x, y)
    <3>1. Len(x.in.data) = k + 1 /\ k \in Nat /\ Len(y.in.data) = k /\ y.s.left = more
          /\ more \in Nat /\ x.s.left = more + 1
      BY <2>1, <2>2, <2>3, <2>4, <2>9, <2>10
    <3> QED BY <3>1 DEF Counts
  <2>12. Secures(y, z, i) /\ z.s.left = y.s.left /\ z.in.data = y.in.data
    <3>1. z = HeadFlush(y)
      BY <1>9, <1>14
    <3> QED BY <2>1, <2>3, <2>4, <2>5, <3>1, HeadFlushSecures
  <2> QED BY <2>4, <2>8, <2>11, <2>12, SecuresTrans DEF Counts
<1> QED BY <1>11, <1>12, <1>13, <1>14

-----------------------------------------------------------------------------
(* BufferedPipeProcess.                                                       *)

(* The end of a stage that has nothing left or whose reader has gone.         *)
LEMMA BufferedEndSecures ==
  ASSUME NEW i, NEW x \in ViewType, x.s.kind \in Buffering, NEW y, y = BufferedEnd(x),
         x.out.read_closed \/ x.s.rc # 0 \/ (x.s.pend = <<>> /\ x.s.eof)
  PROVE  Secures(x, y, i)
<1>1. x.s \in Stage /\ x.in \in PipeType(Byte) /\ x.out \in PipeType(Byte)
  BY ViewParts
<1>2. PICK t : t = [x.s EXCEPT !.fin = TRUE]
  OBVIOUS
<1>3. y = [s |-> t, in |-> x.in, out |-> CloseWrite(x.out), res |-> "exited"]
  BY <1>2 DEF BufferedEnd
<1>4. y.s = t /\ y.in = x.in /\ y.out = CloseWrite(x.out)
  BY <1>3
<1>5. SameBuffers(x.s, t) /\ SameControl(x.s, t) /\ t.fin
  BY <1>1, <1>2 DEF Stage, SameBuffers, SameControl
<1>6. y.out.data = x.out.data
  BY <1>1, <1>4, CloseFacts
<1>7. Firm(x.s, x.in, i) => Firm(y.s, y.in, i)
  BY <1>4, <1>5, FirmKept DEF SameBuffers
<1>8. ~x.out.read_closed => Emptied(y.s, y.in)
  BY <1>4, <1>5 DEF Emptied, SameBuffers, SameControl, Buffering
<1>9. Clear(x) => Clear(y)
  BY <1>4, <1>5, <1>6 DEF Clear, SameBuffers
<1> QED BY <1>4, <1>5, <1>7, <1>8, <1>9 DEF Secures, SameControl


(* The output of the command is handed on.                                    *)
LEMMA BufferedDrainSecures ==
  ASSUME Config, NEW i, NEW x, Good(x, i), x.s.kind \in Buffering, x.s.pend # <<>>, ~x.s.fin,
         Firm(x.s, x.in, i), NEW z, z = BufferedDrain(x)
  PROVE  Secures(x, z, i)
<1>1. x \in ViewType
  BY DEF Good
<1>2. x.s \in Stage /\ x.in \in PipeType(Byte) /\ x.out \in PipeType(Byte)
      /\ x.s.pend \in Seq(Byte)
  BY <1>1, ViewParts DEF Stage
<1>3. PICK w : w = Write(x.out, x.s.pend, Cap)
  OBVIOUS
<1>4. PICK t : t = [x.s EXCEPT !.pend = DropBytes(x.s.pend, w.n)]
  OBVIOUS
<1>5. PICK y : y = [s |-> t, in |-> x.in, out |-> w.pipe, res |-> "going"]
  OBVIOUS
<1>6. z = IF w.res = "broken" \/ y.s.pend = <<>> THEN BufferedEnd(y)
          ELSE Return(y, IF w.n = 0 THEN "pending_write" ELSE "ready")
  BY <1>3, <1>4, <1>5 DEF BufferedDrain
<1>7. Written(x.out, x.s.pend, w)
  BY <1>2, <1>3, WriteKeeps
<1>8. /\ t \in Stage /\ SameControl(x.s, t) /\ t.fin = x.s.fin
      /\ t.pend = DropBytes(x.s.pend, w.n) /\ t.inbox = x.s.inbox /\ t.stdin = x.s.stdin
      /\ t.se = x.s.se /\ t.file = x.s.file
  BY <1>2, <1>4, <1>7 DEF Stage, SameControl, Written
<1>9. /\ y \in ViewType /\ y.s = t /\ y.in = x.in /\ y.out = w.pipe /\ y.res = "going"
      /\ y.out.read_closed = x.out.read_closed /\ (w.res = "broken" => x.out.read_closed)
  BY <1>2, <1>5, <1>7, <1>8 DEF ViewType, Outcome, Written, KeepsOut
<1>10. Secures(x, y, i)
  <2>1. Firm(y.s, y.in, i)
    BY <1>8, <1>9, FirmKept
  <2>2. Emptied(y.s, y.in)
    BY <1>8, <1>9 DEF Emptied
  <2>3. Clear(x) => Clear(y)
    <3>1. Clear(x) => w.pipe.data \in Seq(Pure) /\ DropBytes(x.s.pend, w.n) \in Seq(Pure)
      BY <1>2, <1>3, WritesPure DEF Clear
    <3> QED BY <1>8, <1>9, <3>1 DEF Clear
  <2> QED BY <1>8, <1>9, <2>1, <2>2, <2>3 DEF Secures, SameControl
<1>11. Secures(y, z, i)
  <2>1. y.s.kind \in Buffering /\ y.s.eof
    BY <1>8, <1>9 DEF SameControl, Firm
  <2>2. CASE w.res = "broken" \/ y.s.pend = <<>>
    BY <1>6, <1>9, <2>1, <2>2, BufferedEndSecures
  <2>3. CASE ~(w.res = "broken" \/ y.s.pend = <<>>)
    <3>1. PICK r : z = Return(y, r) /\ r # "exited"
      BY <1>6, <2>3
    <3> QED BY <1>9, <3>1, UntouchedSecures
  <2> QED BY <2>2, <2>3
<1> QED BY <1>9, <1>10, <1>11, SecuresTrans

(* run_command, once the input has ended.                                     *)
LEMMA RunCommandSecures ==
  ASSUME NEW i, NEW x \in ViewType, x.s.kind \in Buffering, ~x.s.fin, i > 1 => Eof(x.in),
         NEW input \in Seq(Byte), Clear(x) => input \in Seq(Pure),
         NEW z, z = RunCommand(x, input), x.res = "going"
  PROVE  Secures(x, z, i)
<1>1. x.s \in Stage
  BY ViewParts
<1>2. PICK t : t = [x.s EXCEPT !.staging = FALSE, !.eof = TRUE, !.pend = input, !.file = <<>>]
  OBVIOUS
<1>3. PICK y : y = [x EXCEPT !.s = t]
  OBVIOUS
<1>4. z = IF input = <<>> THEN BufferedEnd(y) ELSE Return(y, "ready")
  BY <1>2, <1>3 DEF RunCommand
<1>5. /\ t \in Stage /\ KeepsStage(x.s, t) /\ t.kind = x.s.kind /\ t.pend = input
      /\ t.file = <<>> /\ t.eof /\ t.fin = x.s.fin /\ t.rc = x.s.rc
      /\ t.inbox = x.s.inbox /\ t.stdin = x.s.stdin /\ t.se = x.s.se
  <2>1. <<>> \in Seq(Byte)
    OBVIOUS
  <2>2. /\ t \in Stage /\ t.kind = x.s.kind /\ t.pend = input /\ t.live = x.s.live
        /\ t.file = <<>> /\ t.eof /\ t.fin = x.s.fin /\ t.rc = x.s.rc /\ ~t.staging
        /\ t.inbox = x.s.inbox /\ t.stdin = x.s.stdin /\ t.se = x.s.se
    BY <1>1, <1>2, <2>1 DEF Stage
  <2> QED BY <2>2 DEF KeepsStage, Fit
<1>6. y \in ViewType /\ y.s = t /\ y.in = x.in /\ y.out = x.out /\ y.res = "going"
  BY <1>3, <1>5, PutStage DEF Keeps
<1>7. Secures(x, y, i)
  <2>1. Firm(y.s, y.in, i)
    BY <1>5, <1>6 DEF Firm, Buffering
  <2>2. Emptied(y.s, y.in)
    BY <1>5, <1>6 DEF Emptied
  <2>3. Clear(x) => Clear(y)
    <3>1. <<>> \in Seq(Pure)
      OBVIOUS
    <3> QED BY <1>5, <1>6, <3>1 DEF Clear
  <2> QED BY <1>5, <1>6, <2>1, <2>2, <2>3 DEF Secures
<1>8. Secures(y, z, i)
  <2>1. CASE input = <<>>
    BY <1>4, <1>5, <1>6, <2>1, BufferedEndSecures
  <2>2. CASE input # <<>>
    BY <1>4, <1>6, <2>2, UntouchedSecures
  <2> QED BY <2>1, <2>2
<1> QED BY <1>6, <1>7, <1>8, SecuresTrans

(* emit_input_limit_error and emit_error: a failure that shows.               *)
LEMMA BufferedRefusesSecures ==
  ASSUME NEW i, NEW x \in ViewType, x.s.kind \in Buffering, NEW p \in PipeType(Byte),
         NEW y, y = [x EXCEPT !.in = p], NEW status \in Nat \ {0},
         NEW z, z = BufferedRefuses(y, status)
  PROVE  Secures(x, z, i)
<1>1. x.s \in Stage
  BY ViewParts
<1>2. y \in ViewType /\ y.s = x.s
  BY DEF ViewType
<1>3. PICK a : a = [x.s EXCEPT !.rc = status]
  OBVIOUS
<1>4. PICK b : b = [a EXCEPT !.staging = FALSE]
  OBVIOUS
<1>5. PICK c : c = [b EXCEPT !.fin = TRUE]
  OBVIOUS
<1>6. z.s = c
  <2>1. PICK u : u = [y EXCEPT !.s = a]
    OBVIOUS
  <2>2. u.s = a /\ u = [s |-> a, in |-> y.in, out |-> y.out, res |-> y.res]
    BY <1>2, <2>1 DEF ViewType
  <2>3. PICK v : v = [u EXCEPT !.s = b]
    OBVIOUS
  <2>4. v.s = b
    BY <2>2, <2>3
  <2>5. z = BufferedEnd(v)
    BY <1>2, <1>3, <1>4, <2>1, <2>2, <2>3 DEF BufferedRefuses, BufferedClose
  <2>6. PICK w : w = BufferedEnd(v)
    OBVIOUS
  <2>7. w.s = [v.s EXCEPT !.fin = TRUE]
    BY <2>6 DEF BufferedEnd
  <2> QED BY <1>5, <2>4, <2>5, <2>6, <2>7
<1>7. c.rc # 0 /\ c.kind = x.s.kind /\ c.pend = x.s.pend /\ c.eof = x.s.eof /\ c.fin
  <2>1. a.rc = status /\ a.kind = x.s.kind /\ a.pend = x.s.pend /\ a.eof = x.s.eof /\ a \in Stage
    BY <1>1, <1>3 DEF Stage
  <2>2. b.rc = status /\ b.kind = x.s.kind /\ b.pend = x.s.pend /\ b.eof = x.s.eof /\ b \in Stage
    BY <1>4, <2>1 DEF Stage
  <2> QED BY <1>5, <2>2 DEF Stage
<1>8. Firm(x.s, x.in, i) => Firm(z.s, z.in, i)
  BY <1>6, <1>7 DEF Firm, Buffering
<1>9. Emptied(z.s, z.in)
  BY <1>6, <1>7 DEF Emptied
<1> QED BY <1>6, <1>7, <1>8, <1>9 DEF Secures

(* buffered_pump_input.                                                       *)
LEMMA BufferedPumpSecures ==
  ASSUME Config, NEW i \in Nat \ {0}, NEW x, Good(x, i), x.s.kind \in Buffering, ~x.s.fin,
         x.s.pend = <<>>, ~x.s.eof, x.res = "going", NEW broken,
         NEW z, z = BufferedPump(x, i = 1, broken)
  PROVE  Secures(x, z, i)
<1>1. x \in ViewType
  BY DEF Good
<1>2. x.s \in Stage /\ x.in \in PipeType(Byte) /\ x.out \in PipeType(Byte)
      /\ x.s.file \in Seq(Byte)
  BY <1>1, ViewParts DEF Stage
<1>3. PICK r : r = Read(x.in, Chunk)
  OBVIOUS
<1>4. PICK y : y = [x EXCEPT !.in = r.pipe]
  OBVIOUS
<1>5. z = IF i = 1 THEN RunCommand(x, Source)
          ELSE IF r.res = "eof" THEN RunCommand([y EXCEPT !.in = CloseRead(@)], x.s.file)
          ELSE IF r.res = "would_block" THEN Return(x, "pending_read")
          ELSE IF OverInput(x.s, r.bytes) THEN BufferedRefuses(y, 125)
          ELSE IF broken THEN BufferedRefuses(y, 1)
          ELSE Return([y EXCEPT !.s = [y.s EXCEPT !.file = @ \o r.bytes, !.staging = TRUE]],
                      "ready")
  BY <1>3, <1>4 DEF BufferedPump
<1>6. Fetched(Byte, x.in, r)
  BY <1>2, <1>3, Constants, ReadFacts
<1>7. r.pipe \in PipeType(Byte) /\ r.bytes \in Seq(Byte)
  BY <1>6 DEF Fetched
<1>8. CASE i = 1
  <2>1. z = RunCommand(x, Source) /\ Source \in Seq(Byte) /\ Source \in Seq(Pure) /\ ~(i > 1)
    BY <1>5, <1>8, Constants, StreamingAssumption DEF Pure
  <2> QED BY <1>1, <2>1, RunCommandSecures
<1>9. CASE i # 1 /\ r.res = "eof"
  <2>1. PICK c : c = CloseRead(x.in)
    OBVIOUS
  <2>2. PICK v : v = [y EXCEPT !.in = c]
    OBVIOUS
  <2>3. r.pipe = x.in /\ Eof(x.in)
    BY <1>6, <1>9 DEF Fetched, Eof
  <2>4. y = x
    BY <1>1, <1>4, <2>3 DEF ViewType
  <2>5. z = RunCommand(v, x.s.file)
    BY <1>5, <1>9, <2>1, <2>2, <2>4
  <2>6. c \in PipeType(Byte) /\ c.data = x.in.data /\ c.write_closed = x.in.write_closed
    BY <1>2, <2>1, CloseFacts
  <2>7. v \in ViewType /\ v.s = x.s /\ v.in = c /\ v.out = x.out /\ v.res = "going"
    BY <1>1, <2>2, <2>4, <2>6 DEF ViewType
  <2>8. Secures(x, v, i)
    <3>1. Eof(c)
      BY <2>3, <2>6 DEF Eof
    <3>2. Firm(x.s, x.in, i) => Firm(v.s, v.in, i)
      BY <2>3, <2>7, <3>1 DEF Firm
    <3>3. Emptied(v.s, v.in)
      BY <2>7 DEF Emptied
    <3> QED BY <2>6, <2>7, <3>2, <3>3 DEF Secures, Clear
  <2>9. Secures(v, z, i)
    <3>1. Eof(v.in)
      BY <2>3, <2>6, <2>7 DEF Eof
    <3> QED BY <1>2, <2>5, <2>7, <3>1, RunCommandSecures DEF Clear
  <2> QED BY <2>7, <2>8, <2>9, SecuresTrans
<1>10. CASE i # 1 /\ r.res = "would_block"
  <2>1. z = Return(x, "pending_read")
    BY <1>5, <1>10
  <2> QED BY <1>1, <2>1, UntouchedSecures
<1>11. CASE i # 1 /\ r.res \notin {"eof", "would_block"}
            /\ (z = BufferedRefuses(y, 125) \/ z = BufferedRefuses(y, 1))
  <2>1. PICK status \in {125, 1} : z = BufferedRefuses(y, status)
    BY <1>11
  <2>2. status \in Nat \ {0}
    OBVIOUS
  <2> QED BY <1>1, <1>4, <1>7, <2>1, <2>2, BufferedRefusesSecures
<1>12. CASE i # 1 /\ r.res \notin {"eof", "would_block"}
            /\ z = Return([y EXCEPT !.s = [y.s EXCEPT !.file = @ \o r.bytes, !.staging = TRUE]],
                          "ready")
  <2>1. PICK file : file = x.s.file \o r.bytes
    OBVIOUS
  <2>2. PICK t : t = [x.s EXCEPT !.file = file, !.staging = TRUE]
    OBVIOUS
  <2>3. PICK v : v = [s |-> t, in |-> r.pipe, out |-> x.out, res |-> x.res]
    OBVIOUS
  <2>4. y = [s |-> x.s, in |-> r.pipe, out |-> x.out, res |-> x.res]
    <3>1. x = [s |-> x.s, in |-> x.in, out |-> x.out, res |-> x.res]
      BY <1>1, ViewParts
    <3> QED BY <1>4, <3>1
  <2>5. z = Return(v, "ready")
    BY <1>12, <2>1, <2>2, <2>3, <2>4
  <2>6. file \in Seq(Byte)
    BY <1>2, <1>7, <2>1
  <2>7. /\ t \in Stage /\ SameControl(x.s, t) /\ t.pend = x.s.pend
        /\ t.file = file /\ t.fin = x.s.fin /\ t.inbox = x.s.inbox /\ t.stdin = x.s.stdin
        /\ t.se = x.s.se
    BY <1>2, <2>2, <2>6 DEF Stage, SameControl
  <2>8. v \in ViewType /\ v.s = t /\ v.in = r.pipe /\ v.out = x.out /\ v.res = "going"
    BY <1>2, <1>7, <2>3, <2>7 DEF ViewType, Outcome
  <2>9. Secures(x, v, i)
    <3>1. Firm(v.s, v.in, i)
      BY <2>7, <2>8 DEF Firm, SameControl, Buffering
    <3>2. Emptied(v.s, v.in)
      BY <2>7, <2>8 DEF Emptied
    <3>3. ASSUME Clear(x)
          PROVE  Clear(v)
      <4>1. r.bytes \in Seq(Pure) /\ r.pipe.data \in Seq(Pure) /\ x.s.file \in Seq(Pure)
        BY <1>2, <1>3, <3>3, Constants, ReadsPure DEF Clear
      <4>2. file \in Seq(Pure)
        BY <2>1, <4>1
      <4> QED BY <2>7, <2>8, <3>3, <4>1, <4>2 DEF Clear
    <3> QED BY <2>7, <2>8, <3>1, <3>2, <3>3 DEF Secures, SameControl
  <2>10. Secures(v, z, i)
    BY <2>5, <2>8, UntouchedSecures
  <2> QED BY <2>8, <2>9, <2>10, SecuresTrans
<1> QED BY <1>5, <1>8, <1>9, <1>10, <1>11, <1>12

(* BufferedPipeProcess::poll.                                                 *)
LEMMA BufferedPollSecures ==
  ASSUME Config, NEW i \in Nat \ {0}, NEW x, Good(x, i), x.s.kind \in Buffering, ~x.s.fin,
         x.res = "going", Firm(x.s, x.in, i), NEW broken,
         NEW z, z = BufferedPoll(x, i = 1, broken)
  PROVE  Secures(x, z, i)
<1>1. x \in ViewType
  BY DEF Good
<1>2. CASE x.s.pend # <<>>
  BY <1>2, BufferedDrainSecures DEF BufferedPoll
<1>3. CASE x.s.pend = <<>> /\ x.s.eof
  BY <1>1, <1>3, BufferedEndSecures DEF BufferedPoll
<1>4. CASE x.s.pend = <<>> /\ ~x.s.eof
  BY <1>4, BufferedPumpSecures DEF BufferedPoll
<1> QED BY <1>2, <1>3, <1>4

-----------------------------------------------------------------------------
(* ExternalPipeProcess.                                                       *)

(* cancel_process, once the reader has gone.                                  *)
LEMMA CancelSecures ==
  ASSUME NEW i, NEW x, Good(x, i), x.s.kind = "external", x.out.read_closed,
         Firm(x.s, x.in, i), NEW status \in Nat \ {0}, NEW y, y = CancelProcess(x, status)
  PROVE  Secures(x, y, i) /\ (~x.s.live => y.s.rc = x.s.rc)
<1>1. x \in ViewType
  BY DEF Good
<1>2. x.s \in Stage /\ x.in \in PipeType(Byte) /\ x.out \in PipeType(Byte) /\ x.s.rc \in Nat
  BY <1>1, ViewParts DEF Stage
<1>3. PICK code : code = IF x.s.status # NoStatus THEN x.s.status ELSE status
  OBVIOUS
<1>4. PICK t : t = [x.s EXCEPT !.live = FALSE, !.stdin = <<>>, !.sclosed = TRUE,
                               !.status = code, !.rc = code, !.fin = TRUE]
  OBVIOUS
<1>5. y.s = t /\ y.in = CloseRead(x.in) /\ y.out = CloseWrite(x.out)
  BY <1>3, <1>4 DEF CancelProcess
<1>6. /\ t.kind = x.s.kind /\ t.pend = x.s.pend /\ t.inbox = x.s.inbox /\ t.stdin = <<>>
      /\ t.se = x.s.se /\ t.status = code /\ t.rc = code /\ t.fin /\ ~t.live /\ t.sclosed
      /\ t.file = x.s.file /\ t.eof = x.s.eof
  BY <1>2, <1>4 DEF Stage
<1>7. /\ y.in.data = x.in.data /\ y.out.data = x.out.data
      /\ y.in.write_closed = x.in.write_closed
  BY <1>2, <1>5, CloseFacts
<1>8. ~x.s.live => code = x.s.rc
  BY <1>2, <1>3 DEF Good, Sane, NoStatus
<1>9. code = 0 => x.s.rc = 0 /\ x.s.status # NoStatus
  BY <1>3, <1>8 DEF Firm
<1>10. Firm(y.s, y.in, i)
  BY <1>5, <1>6, <1>7, <1>9 DEF Firm, Buffering, Eof
<1>11. Clear(x) => Clear(y)
  <2>1. <<>> \in Seq(Pure)
    OBVIOUS
  <2> QED BY <1>5, <1>6, <1>7, <2>1 DEF Clear
<1> QED BY <1>5, <1>6, <1>8, <1>9, <1>10, <1>11 DEF Secures

(* close_write, finished: everything has been handed on.                      *)
LEMMA ExternalEndSecures ==
  ASSUME NEW i, NEW x \in ViewType, x.s.kind = "external", NEW y, y = ExternalEnd(x),
         x.s.rc = 0 => x.s.pend = <<>> /\ x.s.eof
  PROVE  Secures(x, y, i)
<1>1. x.s \in Stage /\ x.in \in PipeType(Byte) /\ x.out \in PipeType(Byte)
  BY ViewParts
<1>2. PICK t : t = [x.s EXCEPT !.fin = TRUE]
  OBVIOUS
<1>3. y = [s |-> t, in |-> x.in, out |-> CloseWrite(x.out), res |-> "exited"]
  BY <1>2 DEF ExternalEnd
<1>4. y.s = t /\ y.in = x.in /\ y.out = CloseWrite(x.out)
  BY <1>3
<1>5. SameBuffers(x.s, t) /\ SameControl(x.s, t) /\ t.fin
  BY <1>1, <1>2 DEF Stage, SameBuffers, SameControl
<1>6. y.out.data = x.out.data
  BY <1>1, <1>4, CloseFacts
<1>7. Firm(x.s, x.in, i) => Firm(y.s, y.in, i)
  BY <1>4, <1>5, FirmKept DEF SameBuffers
<1>8. Emptied(y.s, y.in)
  BY <1>4, <1>5 DEF Emptied, SameBuffers, SameControl, Buffering
<1>9. Clear(x) => Clear(y)
  BY <1>4, <1>5, <1>6 DEF Clear, SameBuffers
<1> QED BY <1>4, <1>5, <1>7, <1>8, <1>9 DEF Secures, SameControl

(* flush_pending_output, its stdout part.                                     *)
LEMMA FlushOutputSecures ==
  ASSUME Config, NEW i, NEW x \in ViewType, x.s.kind = "external", ~x.s.fin,
         NEW w, w = FlushPart(x, x.s.pend),
         NEW t, t = [x.s EXCEPT !.pend = DropBytes(x.s.pend, w.n)],
         NEW y, y = [s |-> t, in |-> x.in, out |-> w.pipe, res |-> "going"]
  PROVE  Secures(x, y, i) /\ ~y.s.fin
<1>1. x.s \in Stage /\ x.out \in PipeType(Byte) /\ x.s.pend \in Seq(Byte)
  BY ViewParts DEF Stage
<1>2. w = Write(x.out, x.s.pend, Cap)
  BY DEF FlushPart
<1>3. /\ SameControl(x.s, t) /\ t.fin = x.s.fin /\ t.pend = DropBytes(x.s.pend, w.n)
      /\ t.inbox = x.s.inbox /\ t.stdin = x.s.stdin /\ t.se = x.s.se /\ t.file = x.s.file
  BY <1>1 DEF Stage, SameControl
<1>4. y.s = t /\ y.in = x.in /\ y.out = w.pipe /\ y.res = "going"
  OBVIOUS
<1>5. Firm(x.s, x.in, i) => Firm(y.s, y.in, i)
  BY <1>3, <1>4, FirmKept DEF Buffering
<1>6. Clear(x) => Clear(y)
  <2>1. Clear(x) => w.pipe.data \in Seq(Pure) /\ DropBytes(x.s.pend, w.n) \in Seq(Pure)
    BY <1>1, <1>2, WritesPure DEF Clear
  <2> QED BY <1>3, <1>4, <2>1 DEF Clear
<1> QED BY <1>3, <1>4, <1>5, <1>6 DEF Secures, SameControl, Emptied

(* ... and its stderr part.                                                   *)
LEMMA FlushErrorsSecures ==
  ASSUME Config, NEW i, NEW x \in ViewType, x.s.kind = "external", ~x.s.fin,
         NEW w, w = FlushPart(x, x.s.se),
         NEW t, t = [x.s EXCEPT !.se = DropBytes(x.s.se, w.n)],
         NEW y, y = [s |-> t, in |-> x.in, out |-> w.pipe, res |-> "going"]
  PROVE  Secures(x, y, i) /\ ~y.s.fin /\ y.s.pend = x.s.pend
<1>1. x.s \in Stage /\ x.out \in PipeType(Byte) /\ x.s.se \in Seq(Byte)
  BY ViewParts DEF Stage
<1>2. w = Write(x.out, x.s.se, Cap)
  BY DEF FlushPart
<1>3. /\ SameControl(x.s, t) /\ t.fin = x.s.fin /\ t.pend = x.s.pend
      /\ t.inbox = x.s.inbox /\ t.stdin = x.s.stdin /\ t.file = x.s.file
      /\ t.se = DropBytes(x.s.se, w.n)
  BY <1>1 DEF Stage, SameControl
<1>4. y.s = t /\ y.in = x.in /\ y.out = w.pipe /\ y.res = "going"
  OBVIOUS
<1>5. Firm(x.s, x.in, i) => Firm(y.s, y.in, i)
  BY <1>3, <1>4, FirmKept DEF Buffering
<1>6. ASSUME Clear(x)
      PROVE  Clear(y)
  <2>1. x.s.se = <<>> /\ <<>> \in Seq(Pure) /\ x.out.data \in Seq(Pure)
    BY <1>6 DEF Clear
  <2>2. w.pipe.data \in Seq(Pure)
    BY <1>1, <1>2, <2>1, WritesPure
  <2>3. DropBytes(x.s.se, w.n) = <<>>
    <3>1. w.n \in 0..Len(x.s.se)
      <4>1. Wrote(Byte, x.out, x.s.se, Cap, w)
        BY <1>1, <1>2, CapType, WriteFacts
      <4> QED BY <4>1 DEF Wrote
    <3>2. w.n = 0
      BY <2>1, <3>1
    <3> QED BY <2>1, <3>2 DEF DropBytes
  <2> QED BY <1>3, <1>4, <1>6, <2>2, <2>3 DEF Clear
<1> QED BY <1>3, <1>4, <1>5, <1>6 DEF Secures, SameControl, Emptied

(* flush_pending_output.                                                      *)
LEMMA FlushSecures ==
  ASSUME Config, NEW i, NEW x, Good(x, i), x.s.kind = "external", ~x.s.fin,
         Firm(x.s, x.in, i), NEW f, f = Flush(x)
  PROVE  /\ Secures(x, f, i) /\ (~x.s.live => f.s.rc = x.s.rc)
         /\ f.res = "going" => f.s.pend = <<>> /\ ~f.s.fin
<1>1. x \in ViewType
  BY DEF Good
<1>2. x.s \in Stage /\ x.out \in PipeType(Byte) /\ x.s.pend \in Seq(Byte)
      /\ x.s.se \in Seq(Byte)
  BY <1>1, ViewParts DEF Stage
<1>3. PICK a : a = FlushPart(x, x.s.pend)
  OBVIOUS
<1>4. PICK t : t = [x.s EXCEPT !.pend = DropBytes(x.s.pend, a.n)]
  OBVIOUS
<1>5. PICK y : y = [s |-> t, in |-> x.in, out |-> a.pipe, res |-> "going"]
  OBVIOUS
<1>6. PICK b : b = FlushPart(y, x.s.se)
  OBVIOUS
<1>7. PICK u : u = [y.s EXCEPT !.se = DropBytes(y.s.se, b.n)]
  OBVIOUS
<1>8. PICK z : z = [s |-> u, in |-> x.in, out |-> b.pipe, res |-> "going"]
  OBVIOUS
<1>9. f = IF x.s.pend # <<>> /\ a.res = "broken" THEN CancelProcess(x, 141)
          ELSE IF y.s.pend # <<>> THEN Return(y, "pending_write")
          ELSE IF x.s.se # <<>> /\ b.res = "broken" THEN CancelProcess(y, 141)
          ELSE IF z.s.se # <<>> THEN Return(z, "pending_write")
          ELSE z
  BY <1>3, <1>4, <1>5, <1>6, <1>7, <1>8 DEF Flush
<1>10. Flushed(x, y, i) /\ y.s.se = x.s.se
  BY <1>3, <1>4, <1>5, FlushOutput
<1>11. Good(y, i) /\ y.s.kind = "external" /\ y \in ViewType /\ y.in = x.in
       /\ y.out.read_closed = x.out.read_closed
  <2>1. y.in = x.in
    BY <1>5
  <2> QED BY <1>10, <2>1 DEF Flushed, Moves, Links, Keeps, KeepsOut, KeepsStage, Good
<1>12. b = FlushPart(y, y.s.se) /\ z = [s |-> u, in |-> y.in, out |-> b.pipe, res |-> "going"]
  BY <1>6, <1>8, <1>10, <1>11
<1>13. Flushed(y, z, i)
  BY <1>7, <1>11, <1>12, FlushErrors
<1>14. Secures(x, y, i) /\ ~y.s.fin
  BY <1>1, <1>3, <1>4, <1>5, FlushOutputSecures
<1>15. Secures(y, z, i) /\ ~z.s.fin /\ z.s.pend = y.s.pend
  BY <1>7, <1>11, <1>12, <1>14, FlushErrorsSecures
<1>16. Secures(x, z, i)
  BY <1>11, <1>14, <1>15, SecuresTrans
<1>17. z \in ViewType /\ z.out.read_closed = x.out.read_closed
  BY <1>11, <1>13 DEF Flushed, Moves, Links, Keeps, KeepsOut
<1>18. /\ y.s.live = x.s.live /\ y.s.rc = x.s.rc /\ z.s.live = x.s.live /\ z.s.rc = x.s.rc
       /\ Firm(y.s, y.in, i)
  BY <1>10, <1>13, <1>14 DEF Flushed, SameControl, Secures
<1>19. (a.res = "broken" \/ b.res = "broken") => x.out.read_closed
  <2>1. y.out \in PipeType(Byte)
    BY <1>11, ViewParts
  <2>2. Written(x.out, x.s.pend, a) /\ Written(y.out, x.s.se, b)
    BY <1>2, <1>3, <1>6, <2>1, WriteKeeps DEF FlushPart
  <2> QED BY <1>11, <2>2 DEF Written
<1>20. 141 \in Nat \ {0}
  OBVIOUS
<1>21. CASE x.s.pend # <<>> /\ a.res = "broken"
  <2>1. f = CancelProcess(x, 141)
    BY <1>9, <1>21
  <2>2. f.res # "going"
    BY <2>1 DEF CancelProcess
  <2> QED BY <1>19, <1>20, <1>21, <2>1, <2>2, CancelSecures
<1>22. CASE f = Return(y, "pending_write")
  <2>1. Secures(y, f, i) /\ f.s = y.s
    BY <1>11, <1>22, UntouchedSecures
  <2>2. f.res # "going"
    BY <1>11, <1>22, ReturnKeeps DEF Outcome
  <2> QED BY <1>11, <1>14, <1>18, <2>1, <2>2, SecuresTrans
<1>23. CASE f = CancelProcess(y, 141) /\ b.res = "broken"
  <2>1. f.res # "going"
    BY <1>23 DEF CancelProcess
  <2>2. Secures(y, f, i) /\ (~y.s.live => f.s.rc = y.s.rc)
    BY <1>11, <1>18, <1>19, <1>20, <1>23, CancelSecures
  <2> QED BY <1>11, <1>14, <1>18, <2>1, <2>2, SecuresTrans
<1>24. CASE f = Return(z, "pending_write")
  <2>1. Secures(z, f, i) /\ f.s = z.s
    BY <1>17, <1>24, UntouchedSecures
  <2>2. f.res # "going"
    BY <1>17, <1>24, ReturnKeeps DEF Outcome
  <2> QED BY <1>16, <1>17, <1>18, <2>1, <2>2, SecuresTrans
<1>25. CASE f = z /\ y.s.pend = <<>>
  BY <1>15, <1>16, <1>18, <1>25
<1> QED BY <1>9, <1>21, <1>22, <1>23, <1>24, <1>25

(* fail: the failure shows.                                                   *)
LEMMA FailSecures ==
  ASSUME Config, NEW i, NEW x, Good(x, i), x.s.kind = "external", x.s.live, ~x.s.fin,
         Firm(x.s, x.in, i), NEW status \in Nat \ {0},
         NEW z, z = Fail(x, status, i)
  PROVE  Secures(x, z, i) /\ z.s.rc = status /\ ~z.s.live /\ z.res # "going"
<1>1. x \in ViewType
  BY DEF Good
<1>2. x.s \in Stage /\ x.in \in PipeType(Byte) /\ x.out \in PipeType(Byte)
      /\ x.s.se \in Seq(Byte)
  BY <1>1, ViewParts DEF Stage
<1>3. PICK e : e = x.s.se \o Diagnostic(i)
  OBVIOUS
<1>4. PICK t : t = [x.s EXCEPT !.live = FALSE, !.stdin = <<>>, !.sclosed = TRUE,
                               !.status = status, !.rc = status, !.eof = TRUE, !.se = e]
  OBVIOUS
<1>5. PICK y : y = [s |-> t, in |-> CloseRead(x.in), out |-> x.out, res |-> "going"]
  OBVIOUS
<1>6. PICK f : f = Flush(y)
  OBVIOUS
<1>7. z = IF f.res # "going" THEN Return(f, "pending_write") ELSE ExternalEnd(f)
  BY <1>3, <1>4, <1>5, <1>6 DEF Fail
<1>8. e \in Seq(Byte) /\ Payload(e) = <<>>
  BY <1>2, <1>3, QuietDiagnostic DEF Good, Sane
<1>9. /\ t \in Stage /\ KeepsStage(x.s, t)
      /\ t.kind = x.s.kind /\ t.pend = x.s.pend /\ t.inbox = x.s.inbox /\ t.stdin = <<>>
      /\ t.se = e /\ t.status = status /\ t.rc = status /\ t.fin = x.s.fin /\ ~t.live
      /\ t.sclosed /\ t.file = x.s.file
  <2>1. <<>> \in Seq(Byte)
    OBVIOUS
  <2> QED BY <1>2, <1>4, <1>8, <2>1 DEF Stage, KeepsStage, Fit
<1>10. Keeps(x, y) /\ y.s = t /\ y.in = CloseRead(x.in) /\ y.out = x.out
  <2>1. /\ CloseRead(x.in) \in PipeType(Byte) /\ KeepsIn(x.in, CloseRead(x.in))
        /\ KeepsOut(x.out, x.out) /\ "going" \in Outcome
    BY <1>2, CloseFacts, PipeKept DEF Outcome
  <2> QED BY <1>2, <1>5, <1>9, <2>1, MakeView
<1>11. y.in.data = x.in.data /\ y.in.write_closed = x.in.write_closed /\ y.res = "going"
  BY <1>2, <1>5, <1>10, CloseFacts
<1>12. Good(y, i)
  <2>1. Sane(t, i) /\ AtEnd(t, y.in, i) /\ Fit(t)
    BY <1>8, <1>9 DEF Good, Sane, AtEnd, Buffering, KeepsStage
  <2> QED BY <1>10, <2>1 DEF Good, Keeps
<1>13. Firm(y.s, y.in, i)
  BY <1>9, <1>10, <1>11 DEF Firm, Buffering, Eof
<1>14. Secures(x, y, i)
  <2>1. x.s.rc = 0
    BY DEF Firm
  <2>2. Emptied(y.s, y.in)
    BY <1>9, <1>10 DEF Emptied
  <2>3. y.s.rc # 0
    BY <1>9, <1>10
  <2> QED BY <1>11, <1>13, <2>1, <2>2, <2>3 DEF Secures
<1>15. /\ Secures(y, f, i) /\ f.s.rc = status
       /\ f.res = "going" => f.s.pend = <<>> /\ ~f.s.fin
  BY <1>6, <1>9, <1>10, <1>12, <1>13, FlushSecures
<1>16. Conveys(y, f, i) /\ (f.res = "going" => Flushed(y, f, i))
  BY <1>6, <1>9, <1>10, <1>12, FlushConveys
<1>17. /\ f \in ViewType /\ f.s.kind = "external" /\ ~f.s.live
       /\ f.out.read_closed = y.out.read_closed
       /\ f.res = "going" => f.s.status = status
  BY <1>9, <1>10, <1>16 DEF Conveys, Moves, Drops, Links, Keeps, KeepsStage, KeepsOut, Flushed,
                          SameControl
<1>18. Secures(x, f, i) /\ f.out.read_closed = x.out.read_closed
  BY <1>10, <1>14, <1>15, <1>17, SecuresTrans
<1>19. CASE f.res # "going"
  <2>1. Secures(f, z, i) /\ z.s = f.s
    BY <1>7, <1>17, <1>19, UntouchedSecures
  <2>2. z.res # "going"
    BY <1>7, <1>17, <1>19, ReturnKeeps DEF Outcome
  <2> QED BY <1>15, <1>17, <1>18, <2>1, <2>2, SecuresTrans
<1>20. CASE f.res = "going"
  <2>1. z = ExternalEnd(f) /\ f.s.rc # 0
    BY <1>7, <1>15, <1>20
  <2>2. Secures(f, z, i)
    BY <1>15, <1>17, <1>20, <2>1, ExternalEndSecures
  <2>3. z.s.rc = f.s.rc /\ z.s.live = f.s.live /\ z.res # "going"
    <3>1. f.s \in Stage
      BY <1>17, ViewParts
    <3>2. PICK q : q = [f.s EXCEPT !.fin = TRUE]
      OBVIOUS
    <3>3. q.rc = f.s.rc /\ q.live = f.s.live
      BY <3>1, <3>2 DEF Stage
    <3>4. PICK v : v = ExternalEnd(f)
      OBVIOUS
    <3>5. v.s = q /\ v.res = "exited"
      BY <3>2, <3>4 DEF ExternalEnd
    <3> QED BY <2>1, <3>3, <3>4, <3>5
  <2> QED BY <1>15, <1>17, <1>18, <2>2, <2>3, SecuresTrans
<1> QED BY <1>19, <1>20

(* fill_stdin.                                                                *)
LEMMA FillStdinSecures ==
  ASSUME Config, NEW i \in Nat \ {0}, NEW x, Good(x, i), x.s.kind = "external", x.s.live,
         ~x.s.fin, Firm(x.s, x.in, i), x.res = "going", NEW y, y = FillStdin(x, i = 1)
  PROVE  Secures(x, y, i) /\ ~y.s.fin /\ y.res = "going" /\ y.out = x.out
<1>1. x \in ViewType
  BY DEF Good
<1>2. x.s \in Stage /\ x.in \in PipeType(Byte) /\ x.out \in PipeType(Byte)
  BY <1>1, ViewParts
<1>3. PICK r : r = Read(x.in, Chunk)
  OBVIOUS
<1>4. PICK p : p = IF i = 1 THEN x.in ELSE CloseRead(x.in)
  OBVIOUS
<1>5. PICK t : t = [x.s EXCEPT !.sclosed = TRUE]
  OBVIOUS
<1>6. PICK u : u = [x.s EXCEPT !.stdin = r.bytes]
  OBVIOUS
<1>7. y = IF x.s.sclosed \/ ~x.s.writable \/ x.s.stdin # <<>> THEN x
          ELSE IF i = 1 \/ r.res = "eof"
          THEN [s |-> t, in |-> p, out |-> x.out, res |-> "going"]
          ELSE [s |-> u, in |-> r.pipe, out |-> x.out, res |-> "going"]
  BY <1>3, <1>4, <1>5, <1>6 DEF FillStdin
<1>8. Fetched(Byte, x.in, r)
  BY <1>2, <1>3, Constants, ReadFacts
<1>9. x.s.rc = 0
  BY DEF Firm
<1>10. CASE y = x
  BY <1>10 DEF Secures
<1>11. CASE ~x.s.sclosed /\ x.s.stdin = <<>> /\ (i = 1 \/ r.res = "eof")
            /\ y = [s |-> t, in |-> p, out |-> x.out, res |-> "going"]
  <2>1. p.data = x.in.data /\ (i > 1 => Eof(p))
    <3>1. r.res = "eof" => Eof(x.in)
      BY <1>8 DEF Fetched, Eof
    <3>2. CloseRead(x.in).data = x.in.data
          /\ CloseRead(x.in).write_closed = x.in.write_closed
      BY <1>2, CloseFacts
    <3> QED BY <1>4, <1>11, <3>1, <3>2 DEF Eof
  <2>2. /\ SameBuffers(x.s, t) /\ t.fin = x.s.fin /\ t.rc = x.s.rc /\ t.status = x.s.status
        /\ t.live = x.s.live /\ t.sclosed /\ t.eof = x.s.eof
    BY <1>2, <1>5 DEF Stage, SameBuffers
  <2>3. y.s = t /\ y.in = p /\ y.out = x.out /\ y.res = "going"
    BY <1>11
  <2>4. Firm(y.s, y.in, i)
    BY <1>9, <1>11, <2>1, <2>2, <2>3 DEF Firm, SameBuffers, Buffering
  <2>5. Clear(x) => Clear(y)
    BY <2>1, <2>2, <2>3 DEF Clear, SameBuffers
  <2> QED BY <1>9, <2>2, <2>3, <2>4, <2>5 DEF Secures, Emptied
<1>12. CASE ~x.s.sclosed /\ x.s.stdin = <<>> /\ i # 1
            /\ y = [s |-> u, in |-> r.pipe, out |-> x.out, res |-> "going"]
  <2>1. /\ SameControl(x.s, u) /\ u.fin = x.s.fin /\ u.file = x.s.file
        /\ u.pend = x.s.pend /\ u.inbox = x.s.inbox /\ u.stdin = r.bytes /\ u.se = x.s.se
    BY <1>2, <1>6 DEF Stage, SameControl
  <2>2. y.s = u /\ y.in = r.pipe /\ y.out = x.out /\ y.res = "going"
    BY <1>12
  <2>3. Firm(y.s, y.in, i)
    BY <1>9, <1>12, <2>1, <2>2 DEF Firm, SameControl, Buffering
  <2>4. Clear(x) => Clear(y)
    <3>1. Clear(x) => r.bytes \in Seq(Pure) /\ r.pipe.data \in Seq(Pure)
      BY <1>2, <1>3, Constants, ReadsPure DEF Clear
    <3> QED BY <2>1, <2>2, <3>1 DEF Clear
  <2> QED BY <1>9, <2>1, <2>2, <2>3, <2>4 DEF Secures, SameControl, Emptied
<1> QED BY <1>7, <1>10, <1>11, <1>12

(* write_stdin_chunk, whatever the host answers.                              *)
LEMMA WriteStdinSecures ==
  ASSUME Config, NEW i, NEW x, Good(x, i), x.s.kind = "external", x.s.live, ~x.s.fin,
         Firm(x.s, x.in, i), x.res = "going",
         NEW w, w \in HostWrites(x.s), NEW v, v = WriteStdin(x, w, i)
  PROVE  /\ Secures(x, v, i) /\ (~v.s.live => v.s.rc # 0)
         /\ v.s.live => ~v.s.fin /\ v.res = "going"
<1>1. x \in ViewType
  BY DEF Good
<1>2. x.s \in Stage
  BY <1>1, ViewParts
<1>3. /\ x.s.stdin \in Seq(Byte) /\ x.s.inbox \in Seq(Byte) /\ x.s.nin \in Nat
      /\ Len(x.s.stdin) \in Nat
  BY <1>2, LenProperties DEF Stage
<1>4. w.accepted \in Nat /\ w.would_block \in BOOLEAN
  <2> DEFINE k == IF "over" \in Faults THEN 1 ELSE 0
  <2>1. k \in Nat
    OBVIOUS
  <2>2. w.accepted \in 0..(Len(x.s.stdin) + k) /\ w.would_block \in BOOLEAN
    BY DEF HostWrites
  <2> HIDE DEF k
  <2> QED BY <1>3, <2>1, <2>2
<1>5. CASE ~Writing(x.s)
  <2>1. v = x
    BY <1>5 DEF WriteStdin
  <2> QED BY <2>1 DEF Secures
<1>6. CASE Writing(x.s) /\ w.accepted > Len(x.s.stdin)
  <2>1. v = Fail(x, 126, i)
    BY <1>6 DEF WriteStdin
  <2>2. 126 \in Nat /\ 126 # 0
    OBVIOUS
  <2> QED BY <2>1, <2>2, FailSecures
<1>7. CASE Writing(x.s) /\ ~(w.accepted > Len(x.s.stdin))
  <2>1. PICK d : d = DropBytes(x.s.stdin, w.accepted)
    OBVIOUS
  <2>2. PICK e : e = x.s.inbox \o TakeBytes(x.s.stdin, w.accepted)
    OBVIOUS
  <2>3. PICK t : t = [x.s EXCEPT !.stdin = d, !.inbox = e]
    OBVIOUS
  <2>4. PICK y : y = [x EXCEPT !.s = t]
    OBVIOUS
  <2>5. PICK n : n = y.s.nin + w.accepted
    OBVIOUS
  <2>6. PICK open : open = ~w.would_block
    OBVIOUS
  <2>7. PICK u : u = [y.s EXCEPT !.nin = n, !.writable = open]
    OBVIOUS
  <2>8. PICK z : z = [y EXCEPT !.s = u]
    OBVIOUS
  <2>9. v = Fail(y, 141, i) \/ v = Fail(y, 125, i) \/ v = z
    BY <1>7, <2>1, <2>2, <2>3, <2>4, <2>5, <2>6, <2>7, <2>8 DEF WriteStdin
  <2>10. w.accepted \in 0..Len(x.s.stdin)
    BY <1>3, <1>4, <1>7
  <2>11. d \in Seq(Byte) /\ TakeBytes(x.s.stdin, w.accepted) \in Seq(Byte)
    BY <1>3, <2>1, <2>10, Cut
  <2>12. e \in Seq(Byte)
    BY <1>3, <2>2, <2>11
  <2>13. /\ t \in Stage /\ KeepsStage(x.s, t) /\ SameControl(x.s, t) /\ t.fin = x.s.fin
         /\ t.pend = x.s.pend /\ t.inbox = e /\ t.stdin = d /\ t.se = x.s.se
         /\ t.nin = x.s.nin /\ t.file = x.s.file
    BY <1>2, <2>3, <2>11, <2>12 DEF Stage, KeepsStage, Fit, SameControl
  <2>14. Keeps(x, y) /\ y.s = t /\ y.in = x.in /\ y.out = x.out /\ y.res = "going"
    BY <1>1, <2>4, <2>13, PutStage
  <2>15. Good(y, i) /\ y.s.kind = "external" /\ y.s.live /\ ~y.s.fin
    <3>1. Sane(t, i)
      BY <1>7, <2>13 DEF Good, Sane, SameControl, Buffering, Writing
    <3>2. AtEnd(t, x.in, i) /\ Fit(t)
      BY <2>13 DEF Good, AtEnd, KeepsStage, SameControl
    <3> QED BY <2>13, <2>14, <3>1, <3>2 DEF Good, Keeps, SameControl
  <2>16. Firm(y.s, y.in, i)
    BY <1>7, <2>13, <2>14 DEF Firm, SameControl, Writing, Buffering
  <2>17. Secures(x, y, i)
    <3>1. ASSUME Clear(x)
          PROVE  Clear(y)
      <4>1. x.s.stdin \in Seq(Pure) /\ x.s.inbox \in Seq(Pure)
        BY <3>1 DEF Clear
      <4>2. d \in Seq(Pure) /\ TakeBytes(x.s.stdin, w.accepted) \in Seq(Pure)
        BY <2>1, <2>10, <4>1, Cut
      <4>3. e \in Seq(Pure)
        BY <2>2, <4>1, <4>2
      <4> QED BY <2>13, <2>14, <3>1, <4>2, <4>3 DEF Clear
    <3> QED BY <2>13, <2>14, <2>15, <2>16, <3>1 DEF Secures, SameControl, Emptied
  <2>18. n \in Nat /\ open \in BOOLEAN /\ y.s \in Stage
    <3>1. y.s.nin \in Nat /\ y.s \in Stage
      BY <1>3, <2>13, <2>14
    <3>2. n \in Nat
      BY <1>4, <2>5, <3>1
    <3>3. open \in BOOLEAN
      BY <2>6
    <3> QED BY <3>1, <3>2, <3>3
  <2>19. CASE v = z
    <3>1. /\ u \in Stage /\ KeepsStage(y.s, u) /\ SameControl(y.s, u) /\ SameBuffers(y.s, u)
          /\ u.fin = y.s.fin
      BY <2>7, <2>18 DEF Stage, KeepsStage, Fit, SameControl, SameBuffers
    <3>2. z.s = u /\ z.in = y.in /\ z.out = y.out /\ z.res = "going"
      <4>1. y \in ViewType
        BY <2>15 DEF Good
      <4> QED BY <2>8, <2>14, <3>1, <4>1, PutStage
    <3>3. Firm(z.s, z.in, i)
      BY <2>16, <3>1, <3>2, FirmKept DEF SameBuffers
    <3>4. Secures(y, z, i)
      <4>1. Clear(y) => Clear(z)
        BY <3>1, <3>2 DEF Clear, SameBuffers
      <4> QED BY <2>15, <3>1, <3>2, <3>3, <4>1 DEF Secures, SameControl, Emptied
    <3>5. Secures(x, z, i)
      BY <2>14, <2>17, <3>4, SecuresTrans
    <3> QED BY <2>15, <2>19, <3>1, <3>2, <3>5 DEF SameControl
  <2>20. CASE v = Fail(y, 141, i) \/ v = Fail(y, 125, i)
    <3>1. PICK status \in {141, 125} : v = Fail(y, status, i)
      BY <2>20
    <3>2. status \in Nat /\ status # 0
      OBVIOUS
    <3>3. Secures(y, v, i) /\ v.s.rc # 0 /\ ~v.s.live
      BY <2>15, <2>16, <3>1, <3>2, FailSecures
    <3> QED BY <2>14, <2>17, <3>3, SecuresTrans
  <2> QED BY <2>9, <2>19, <2>20
<1> QED BY <1>5, <1>6, <1>7

(* What a host reports of a child that reads its input to the end.            *)
LEMMA CalmHost ==
  ASSUME NEW s \in Stage, NEW r, r \in HostPolls(s), Calm
  PROVE  /\ r.status = 0 /\ (r.exits => s.sclosed)
         /\ r.eof => s.sclosed /\ r.stdout = Len(s.inbox)
         /\ r.error => ~r.exits /\ s.status = NoStatus
         /\ r.stderr # 0 => "stderr" \in Faults
<1> DEFINE A == 0..Least(Len(s.inbox), Chunk + IF "flood" \in Faults THEN 1 ELSE 0)
           B == 0..(IF "stderr" \in Faults THEN 1 ELSE 0)
           C == 0..(IF "exit" \in Faults THEN 1 ELSE 0)
           D == IF "block" \in Faults THEN BOOLEAN ELSE {TRUE}
           E == IF "error" \in Faults THEN BOOLEAN ELSE {FALSE}
<1>1. r \in [stdout : A, stderr : B, eof : BOOLEAN, exits : BOOLEAN, status : C, writable : D,
            error : E]
  BY DEF HostPolls
<1>2. \A c \in C : c = 0
  BY DEF Calm
<1>3. \A b \in B : b # 0 => "stderr" \in Faults
  OBVIOUS
<1> HIDE DEF A, B, C, D, E
<1>4. r.stderr \in B /\ r.status \in C
  BY <1>1
<1>5. /\ r.exits => s.sclosed
      /\ r.eof => s.sclosed /\ r.stdout = Len(s.inbox)
      /\ r.error => ~r.exits /\ s.status = NoStatus
  BY DEF HostPolls, Calm
<1> QED BY <1>2, <1>3, <1>4, <1>5

(* append_poll_output, whatever the host reports.                             *)
LEMMA AppendOutputSecures ==
  ASSUME Config, Calm, NEW i, NEW x, Good(x, i), x.s.kind = "external", x.s.live, ~x.s.fin,
         Firm(x.s, x.in, i), x.res = "going",
         NEW r, r \in HostPolls(x.s), NEW v, v = AppendOutput(x, r, i)
  PROVE  Secures(x, v, i) /\ (v.res = "going" => ~v.s.fin)
<1>1. x \in ViewType
  BY DEF Good
<1>2. x.s \in Stage
  BY <1>1, ViewParts
<1>3. /\ x.s.inbox \in Seq(Byte) /\ x.s.pend \in Seq(Byte) /\ x.s.se \in Seq(Byte)
      /\ x.s.nout \in Nat /\ x.s.status \in Nat \cup {NoStatus} /\ x.s.eof \in BOOLEAN
      /\ x.s.rc \in Nat /\ Len(x.s.inbox) \in Nat
  BY <1>2, LenProperties DEF Stage
<1>4. /\ r.stdout \in 0..Len(x.s.inbox) /\ r.stderr \in Nat /\ r.exits \in BOOLEAN
      /\ r.eof \in BOOLEAN
      /\ r.status \in Nat /\ r.writable \in BOOLEAN
      /\ r.error => "error" \in Faults
  BY <1>2, HostPollFacts
<1>5. PICK total : total = x.s.nout + r.stdout + r.stderr
  OBVIOUS
<1>6. PICK box : box = DropBytes(x.s.inbox, r.stdout)
  OBVIOUS
<1>7. PICK pend : pend = x.s.pend \o TakeBytes(x.s.inbox, r.stdout)
  OBVIOUS
<1>8. PICK se : se = IF r.stderr > 0 THEN x.s.se \o Diagnostic(i) ELSE x.s.se
  OBVIOUS
<1>9. PICK eof : eof = IF r.eof THEN TRUE ELSE x.s.eof
  OBVIOUS
<1>10. PICK status : status = IF r.exits THEN r.status ELSE x.s.status
  OBVIOUS
<1>11. PICK rc : rc = IF r.exits THEN r.status ELSE x.s.rc
  OBVIOUS
<1>12. PICK t : t = [x.s EXCEPT !.nout = total, !.inbox = box, !.pend = pend, !.se = se,
                                !.eof = eof, !.status = status, !.rc = rc,
                                !.writable = r.writable]
  OBVIOUS
<1>13. PICK y : y = [x EXCEPT !.s = t]
  OBVIOUS
<1>14. PICK code : code = IF t.status # NoStatus THEN t.status ELSE 126
  OBVIOUS
<1>15. \/ v = Fail(x, 125, i) \/ v = Fail(x, 126, i)
       \/ v = Fail(y, code, i) /\ r.error
       \/ v = y
  BY <1>5, <1>6, <1>7, <1>8, <1>9, <1>10, <1>11, <1>12, <1>13, <1>14 DEF AppendOutput
<1>16. total \in Nat /\ status \in Nat \cup {NoStatus} /\ rc \in Nat /\ eof \in BOOLEAN
  <2>1. r.stdout \in Nat
    BY <1>3, <1>4
  <2>2. total \in Nat
    BY <1>3, <1>4, <1>5, <2>1
  <2> QED BY <1>3, <1>4, <1>9, <1>10, <1>11, <2>2
<1>17. box \in Seq(Byte) /\ pend \in Seq(Byte) /\ se \in Seq(Byte) /\ Payload(se) = <<>>
  <2>1. box \in Seq(Byte) /\ TakeBytes(x.s.inbox, r.stdout) \in Seq(Byte)
    BY <1>3, <1>4, <1>6, Cut
  <2>2. Payload(x.s.se) = <<>>
    BY DEF Good, Sane
  <2>3. x.s.se \o Diagnostic(i) \in Seq(Byte) /\ Payload(x.s.se \o Diagnostic(i)) = <<>>
    BY <1>3, <2>2, QuietDiagnostic
  <2>4. pend \in Seq(Byte)
    BY <1>3, <1>7, <2>1
  <2> QED BY <1>3, <1>8, <2>1, <2>2, <2>3, <2>4
<1>18. /\ t \in Stage /\ KeepsStage(x.s, t) /\ t.kind = x.s.kind /\ t.live = x.s.live
       /\ t.sclosed = x.s.sclosed /\ t.fin = x.s.fin /\ t.stdin = x.s.stdin
       /\ t.pend = pend /\ t.inbox = box /\ t.se = se /\ t.status = status /\ t.rc = rc
       /\ t.file = x.s.file /\ t.eof = eof
  BY <1>2, <1>4, <1>12, <1>16, <1>17 DEF Stage, KeepsStage, Fit
<1>19. Keeps(x, y) /\ y.s = t /\ y.in = x.in /\ y.out = x.out /\ y.res = "going"
  BY <1>1, <1>13, <1>18, PutStage
<1>20. r.status = 0 /\ (r.exits => x.s.sclosed)
       /\ (r.eof => x.s.sclosed /\ r.stdout = Len(x.s.inbox))
       /\ (r.error => ~r.exits /\ x.s.status = NoStatus)
       /\ (r.stderr # 0 => "stderr" \in Faults)
  BY <1>2, CalmHost
<1>21. rc = 0
  BY <1>11, <1>20 DEF Firm
<1>22. (status # NoStatus => x.s.sclosed) /\ (eof => x.s.sclosed /\ box = <<>>)
  <2>1. ASSUME r.stdout = Len(x.s.inbox)
        PROVE  box = <<>>
    <3>1. box \in Seq(Byte) /\ Len(box) = Len(x.s.inbox) - r.stdout
      BY <1>3, <1>4, <1>6, Cut
    <3>2. Len(box) = 0
      BY <1>3, <2>1, <3>1
    <3> QED BY <3>1, <3>2
  <2>2. status # NoStatus => x.s.sclosed
    BY <1>10, <1>20 DEF Firm
  <2>3. CASE r.eof
    BY <1>20, <2>1, <2>2, <2>3
  <2>4. CASE ~r.eof
    <3>1. eof => x.s.sclosed /\ x.s.inbox = <<>>
      BY <1>9, <2>4 DEF Firm
    <3>2. x.s.inbox = <<>> => r.stdout = Len(x.s.inbox)
      BY <1>4
    <3> QED BY <2>1, <2>2, <3>1, <3>2
  <2> QED BY <2>3, <2>4
<1>23. Firm(y.s, y.in, i)
  BY <1>18, <1>19, <1>21, <1>22 DEF Firm, Buffering
<1>24. Good(y, i) /\ y.s.kind = "external" /\ y.s.live /\ ~y.s.fin
  <2>1. Sane(t, i)
    BY <1>17, <1>18, <1>22 DEF Good, Sane, Buffering
  <2>2. AtEnd(t, x.in, i) /\ Fit(t)
    BY <1>18 DEF Good, AtEnd, KeepsStage
  <2> QED BY <1>18, <1>19, <2>1, <2>2 DEF Good, Keeps
<1>25. Secures(x, y, i)
  <2>1. ASSUME Unmerged, Clear(x)
        PROVE  Clear(y)
    <3>1. x.s.inbox \in Seq(Pure) /\ x.s.pend \in Seq(Pure) /\ x.s.se = <<>>
      BY <2>1 DEF Clear
    <3>2. box \in Seq(Pure) /\ TakeBytes(x.s.inbox, r.stdout) \in Seq(Pure)
      BY <1>4, <1>6, <3>1, Cut
    <3>3. pend \in Seq(Pure)
      BY <1>7, <3>1, <3>2
    <3>4. se = <<>>
      <4>1. r.stderr = 0 \/ PipeStderr = {}
        BY <1>20, <2>1 DEF Unmerged
      <4>2. CASE r.stderr = 0
        BY <1>8, <3>1, <4>2
      <4>3. CASE PipeStderr = {}
        BY <1>8, <3>1, <4>3 DEF Diagnostic
      <4> QED BY <4>1, <4>2, <4>3
    <3> QED BY <1>18, <1>19, <2>1, <3>2, <3>3, <3>4 DEF Clear
  <2>2. x.s.rc = 0
    BY DEF Firm
  <2> QED BY <1>19, <1>23, <1>24, <2>1, <2>2 DEF Secures, Emptied
<1>26. CASE v = Fail(x, 125, i) \/ v = Fail(x, 126, i)
  <2>1. PICK n \in {125, 126} : v = Fail(x, n, i)
    BY <1>26
  <2>2. n \in Nat /\ n # 0
    OBVIOUS
  <2> QED BY <2>1, <2>2, FailSecures
<1>27. CASE v = Fail(y, code, i) /\ r.error
  <2>1. code = 126 /\ 126 \in Nat \ {0}
    BY <1>10, <1>14, <1>18, <1>20, <1>27
  <2>2. Secures(y, v, i) /\ v.res # "going"
    BY <1>23, <1>24, <1>27, <2>1, FailSecures
  <2> QED BY <1>19, <1>25, <2>2, SecuresTrans
<1> QED BY <1>15, <1>24, <1>25, <1>26, <1>27

(* The end of ExternalPipeProcess::poll.                                      *)
LEMMA ExternalSettleSecures ==
  ASSUME Config, NEW i, NEW x, Good(x, i), x.s.kind = "external", Firm(x.s, x.in, i), ~x.s.fin,
         x.res = "going", NEW y, y = ExternalSettle(x)
  PROVE  Secures(x, y, i)
<1>1. x \in ViewType
  BY DEF Good
<1>2. PICK f : f = Flush(x)
  OBVIOUS
<1>3. \/ y = f
      \/ f.res = "going" /\ f.s.eof /\ y = ExternalEnd(f)
      \/ f.res = "going" /\ y = Return(f, "ready")
  BY <1>2 DEF ExternalSettle
<1>4. Secures(x, f, i) /\ (f.res = "going" => f.s.pend = <<>> /\ ~f.s.fin)
  BY <1>2, FlushSecures
<1>5. Conveys(x, f, i)
  BY <1>2, FlushConveys
<1>6. f \in ViewType /\ f.s.kind = "external" /\ f.out.read_closed = x.out.read_closed
  BY <1>5 DEF Conveys, Moves, Drops, Links, Keeps, KeepsStage, KeepsOut
<1>7. CASE f.res = "going" /\ f.s.eof /\ y = ExternalEnd(f)
  <2>1. Secures(f, y, i)
    BY <1>4, <1>6, <1>7, ExternalEndSecures
  <2> QED BY <1>4, <1>6, <2>1, SecuresTrans
<1>8. CASE f.res = "going" /\ y = Return(f, "ready")
  <2>1. Secures(f, y, i)
    BY <1>6, <1>8, UntouchedSecures
  <2> QED BY <1>4, <1>6, <2>1, SecuresTrans
<1> QED BY <1>3, <1>4, <1>7, <1>8

(* ExternalPipeProcess::poll up to the host calls.                            *)
LEMMA QuitsSecures ==
  ASSUME Config, NEW i, NEW x, Good(x, i), x.s.kind = "external", Firm(x.s, x.in, i), Quits(x),
         NEW y, y = IF x.s.fin THEN Return(x, "exited")
                    ELSE IF x.out.read_closed THEN CancelProcess(x, 141)
                    ELSE IF Flush(x).res # "going" THEN Flush(x)
                    ELSE ExternalEnd(Flush(x))
  PROVE  Secures(x, y, i) /\ (x.s.fin => y.out = x.out)
<1>1. x \in ViewType
  BY DEF Good
<1>2. PICK f : f = Flush(x)
  OBVIOUS
<1>3. CASE x.s.fin
  BY <1>1, <1>3, UntouchedSecures
<1>4. CASE ~x.s.fin /\ x.out.read_closed
  <2>1. y = CancelProcess(x, 141) /\ 141 \in Nat \ {0}
    BY <1>4
  <2> QED BY <1>4, <2>1, CancelSecures
<1>5. CASE ~x.s.fin /\ ~x.out.read_closed
  <2>1. Secures(x, f, i) /\ (f.res = "going" => f.s.pend = <<>> /\ ~f.s.fin)
    BY <1>2, <1>5, FlushSecures
  <2>2. CASE f.res # "going"
    BY <1>2, <1>5, <2>1, <2>2
  <2>3. CASE f.res = "going"
    <3>1. y = ExternalEnd(f) /\ ~x.s.live
      BY <1>2, <1>5, <2>3 DEF Quits
    <3>2. Flushed(x, f, i)
      BY <1>2, <2>3, FlushConveys
    <3>3. /\ f \in ViewType /\ f.s.kind = "external" /\ f.out.read_closed = x.out.read_closed
          /\ Good(f, i) /\ ~f.s.live
      BY <3>1, <3>2 DEF Flushed, Moves, Links, Keeps, KeepsStage, KeepsOut, SameControl
    <3>4. f.s.rc # 0
      BY <2>1, <2>3, <3>3 DEF Secures, Firm
    <3>5. Secures(f, y, i)
      BY <2>1, <2>3, <3>1, <3>3, <3>4, ExternalEndSecures
    <3> QED BY <1>5, <2>1, <3>3, <3>5, SecuresTrans
  <2> QED BY <2>2, <2>3
<1> QED BY <1>3, <1>4, <1>5

(* A poll that calls the host.                                                *)
LEMMA RunsSecures ==
  ASSUME Config, Calm, NEW i \in Nat \ {0}, NEW x, Good(x, i), x.s.kind = "external", x.s.live,
         ~x.s.fin, Firm(x.s, x.in, i),
         NEW f, f = Flush(x), f.res = "going", NEW y, y = FillStdin(f, i = 1),
         NEW w, w \in HostWrites(y.s), NEW z, z = WriteStdin(y, w, i)
  PROVE  /\ ~z.s.live => Secures(x, ExternalEnd(z), i)
         /\ z.s.live => \A r \in HostPolls(z.s) :
                            Secures(x, ExternalSettle(AppendOutput(z, r, i)), i)
<1>1. x \in ViewType
  BY DEF Good
<1>2. Moves(x, f, i) /\ Good(f, i) /\ f.s.kind = "external" /\ f.s.live
      /\ f.out.read_closed = x.out.read_closed
  <2>1. Flushed(x, f, i)
    BY FlushConveys
  <2> QED BY <2>1 DEF Flushed, Moves, Links, SameControl, Keeps, KeepsOut
<1>3. Secures(x, f, i) /\ ~f.s.fin /\ Firm(f.s, f.in, i)
  <2>1. Secures(x, f, i) /\ ~f.s.fin
    BY FlushSecures
  <2> QED BY <2>1 DEF Secures
<1>4. Moves(f, y, i) /\ y.s.live
  BY <1>2, FillStdinMoves
<1>5. Good(y, i) /\ y.s.kind = "external"
  BY <1>2, <1>4 DEF Moves, Links, Keeps, KeepsStage
<1>6. Secures(f, y, i) /\ ~y.s.fin /\ y.res = "going" /\ y.out = f.out
  BY <1>2, <1>3, FillStdinSecures
<1>7. Secures(x, y, i) /\ Firm(y.s, y.in, i)
  <2>1. Secures(x, y, i)
    BY <1>2, <1>3, <1>6, SecuresTrans
  <2> QED BY <2>1 DEF Secures
<1>8. Conveys(y, z, i)
  BY <1>4, <1>5, WriteStdinConveys
<1>9. Good(z, i) /\ z.s.kind = "external" /\ z.out.read_closed = x.out.read_closed
      /\ z \in ViewType
  BY <1>2, <1>5, <1>6, <1>8 DEF Conveys, Moves, Drops, Links, Keeps, KeepsStage, KeepsOut, Good
<1>10. /\ Secures(y, z, i) /\ (~z.s.live => z.s.rc # 0)
       /\ z.s.live => ~z.s.fin /\ z.res = "going"
  BY <1>4, <1>5, <1>6, <1>7, WriteStdinSecures
<1>11. Secures(x, z, i) /\ Firm(z.s, z.in, i)
  <2>1. Secures(x, z, i)
    BY <1>2, <1>6, <1>7, <1>10, SecuresTrans
  <2> QED BY <2>1 DEF Secures
<1>12. ASSUME ~z.s.live
       PROVE  Secures(x, ExternalEnd(z), i)
  <2>1. Secures(z, ExternalEnd(z), i)
    BY <1>9, <1>10, <1>12, ExternalEndSecures
  <2> QED BY <1>9, <1>11, <2>1, SecuresTrans
<1>13. ASSUME z.s.live, NEW r \in HostPolls(z.s)
       PROVE  Secures(x, ExternalSettle(AppendOutput(z, r, i)), i)
  <2>1. PICK a : a = AppendOutput(z, r, i)
    OBVIOUS
  <2>2. Secures(z, a, i) /\ (a.res = "going" => ~a.s.fin)
    BY <1>9, <1>10, <1>11, <1>13, <2>1, AppendOutputSecures
  <2>3. Conveys(z, a, i)
    BY <1>9, <1>13, <2>1, AppendOutputConveys
  <2>4. Good(a, i) /\ a.s.kind = "external" /\ a.out.read_closed = x.out.read_closed
    BY <1>9, <2>3 DEF Conveys, Moves, Drops, Links, Keeps, KeepsStage, KeepsOut
  <2>5. Secures(x, a, i) /\ Firm(a.s, a.in, i)
    <3>1. Secures(x, a, i)
      BY <1>9, <1>11, <2>2, SecuresTrans
    <3> QED BY <3>1 DEF Secures
  <2>6. CASE a.res # "going"
    <3>1. ExternalSettle(a) = a
      BY <2>6 DEF ExternalSettle
    <3> QED BY <2>1, <2>5, <3>1
  <2>7. CASE a.res = "going"
    <3>1. Secures(a, ExternalSettle(a), i)
      BY <2>2, <2>4, <2>5, <2>7, ExternalSettleSecures
    <3> QED BY <2>1, <2>4, <2>5, <3>1, SecuresTrans
  <2> QED BY <2>6, <2>7
<1> QED BY <1>12, <1>13

-----------------------------------------------------------------------------
(* What a poll does, whatever the stage.                                      *)

(* A poll of a stage that has ended leaves its output alone; a head counts; a *)
(* buffered first stage has all of its output at once.                        *)
Settles(x, y, i) ==
    /\ Delivers(x, y, i) /\ Secures(x, y, i)
    /\ x.s.fin => y.out = x.out
    /\ x.s.kind = "head" => Counts(x, y)
    /\ i = 1 /\ x.s.kind \in Buffering /\ ~x.s.eof => Payload(HeldBy(y.s)) = Source

Settlement(i) == \E y : Leaves(i, y) /\ Settles(View(i), y, i)

(* PollRead.                                                                  *)
LEMMA ReadSettles ==
  ASSUME Base, Order, NEW i \in 1..N, PollRead(i)
  PROVE  Settlement(i)
<1>1. PICK x : x = View(i)
  OBVIOUS
<1>2. /\ Config /\ Good(x, i) /\ x.s.kind \in {"read", "tee"} /\ x.res = "going" /\ ~x.s.fin
      /\ ~Deaf(x.s, i) /\ x \in ViewType
  BY <1>1, PolledStage DEF PollRead, Deaf, Buffering, Good
<1>3. \A y : Passes(x, y, i) /\ Secures(x, y, i) => Settles(x, y, i)
  BY <1>2 DEF Passes, Delivers, Settles, Buffering
<1>4. CASE Polled(i, {ReadPoll(x)})
  <2>1. PICK y : y = ReadPoll(x)
    OBVIOUS
  <2>2. Passes(x, y, i)
    BY <1>2, <2>1, ReadPollPasses
  <2>3. Secures(x, y, i)
    BY <1>2, <2>1, ReadPollSecures
  <2>4. Leaves(i, y)
    BY <1>4, <2>1, PolledLeaves
  <2> QED BY <1>1, <1>3, <2>2, <2>3, <2>4 DEF Settlement
<1>5. CASE Polled(i, {ReadFails(x, i)})
  <2>1. PICK y : y = ReadFails(x, i)
    OBVIOUS
  <2>2. Passes(x, y, i)
    BY <1>2, <2>1, ReadFailsPasses
  <2>3. Secures(x, y, i)
    BY <1>2, <2>1, ReadFailsSecures
  <2>4. Leaves(i, y)
    BY <1>5, <2>1, PolledLeaves
  <2> QED BY <1>1, <1>3, <2>2, <2>3, <2>4 DEF Settlement
<1> QED BY <1>1, <1>4, <1>5 DEF PollRead

(* PollHead.                                                                  *)
LEMMA HeadSettles ==
  ASSUME Base, Order, NEW i \in 1..N, PollHead(i), Firm(st[i], pipes[i - 1], i)
  PROVE  Settlement(i)
<1>1. PICK x : x = View(i)
  OBVIOUS
<1>2. /\ Config /\ Good(x, i) /\ x.s.kind = "head" /\ ~x.s.fin /\ ~Deaf(x.s, i)
      /\ x.s = st[i]
  BY <1>1, PolledStage DEF PollHead, Deaf, Buffering
<1>3. PICK y : y = HeadPoll(x)
  OBVIOUS
<1>4. Passes(x, y, i)
  BY <1>2, <1>3, HeadPollPasses
<1>5. Leaves(i, y)
  BY <1>1, <1>3, PolledLeaves DEF PollHead
<1>6. x.s.left = 0 <=> x.s.eof
  BY <1>2 DEF Firm
<1>7. Secures(x, y, i) /\ Counts(x, y)
  BY <1>2, <1>3, <1>6, HeadPollSecures
<1>8. Settles(x, y, i)
  BY <1>2, <1>4, <1>7 DEF Passes, Delivers, Settles, Buffering
<1> QED BY <1>1, <1>5, <1>8 DEF Settlement

(* PollBuffered.                                                              *)
LEMMA BufferedSettles ==
  ASSUME Base, Order, NEW i \in 1..N, PollBuffered(i), Firm(st[i], pipes[i - 1], i)
  PROVE  Settlement(i)
<1>1. PICK x : x = View(i)
  OBVIOUS
<1>2. /\ Config /\ Good(x, i) /\ x.s.kind \in Buffering /\ ~x.s.fin /\ i \in Nat \ {0}
      /\ x.res = "going" /\ Firm(x.s, x.in, i)
  BY <1>1, PolledStage DEF PollBuffered, Buffering
<1>3. PICK choices : choices = IF "io" \in Faults THEN BOOLEAN ELSE {FALSE}
  OBVIOUS
<1>4. Polled(i, {BufferedPoll(x, i = 1, broken) : broken \in choices})
  BY <1>1, <1>3 DEF PollBuffered
<1>5. PICK y \in {BufferedPoll(x, i = 1, broken) : broken \in choices} : Leaves(i, y)
  BY <1>4, PolledSome
<1>6. PICK broken : y = BufferedPoll(x, i = 1, broken)
  OBVIOUS
<1>7. /\ \/ Passes(x, y, i)
         \/ Drops(x, y, i) /\ y.res = "exited"
         \/ Starts(x, y, i) /\ (y.s.fin => x.s.fin \/ y.res = "exited")
      /\ i = 1 => y.s.eof
  BY <1>2, <1>6, BufferedPollMoves
<1>8. Delivers(x, y, i)
  BY <1>2, <1>7 DEF Delivers, Passes
<1>9. Secures(x, y, i)
  BY <1>2, <1>6, BufferedPollSecures
<1>10. i = 1 /\ ~x.s.eof => Payload(HeldBy(y.s)) = Source
  <2> SUFFICES ASSUME i = 1, ~x.s.eof
               PROVE  Payload(HeldBy(y.s)) = Source
    OBVIOUS
  <2>1. x.s.pend = <<>>
    BY <1>2 DEF Good, Sane
  <2>2. y = RunCommand(x, Source) /\ Source \in Seq(Byte)
    BY <1>6, <2>1, Constants DEF BufferedPoll, BufferedPump
  <2>3. HeldBy(y.s) = Source
    BY <1>2, <2>1, <2>2, RunCommandRuns
  <2> QED BY <2>3, PayloadPure, StreamingAssumption
<1>11. Settles(x, y, i)
  BY <1>2, <1>8, <1>9, <1>10 DEF Settles, Buffering
<1> QED BY <1>1, <1>5, <1>11 DEF Settlement

(* ExternalQuits.                                                             *)
LEMMA QuitsSettles ==
  ASSUME Base, Order, NEW i \in 1..N, ExternalQuits(i), Firm(st[i], pipes[i - 1], i)
  PROVE  Settlement(i)
<1>1. PICK x : x = View(i)
  OBVIOUS
<1>2. /\ Config /\ Good(x, i) /\ x.s.kind = "external" /\ Firm(x.s, x.in, i) /\ Quits(x)
  BY <1>1, PolledStage DEF ExternalQuits
<1>3. PICK y : y = IF x.s.fin THEN Return(x, "exited")
                   ELSE IF x.out.read_closed THEN CancelProcess(x, 141)
                   ELSE IF Flush(x).res # "going" THEN Flush(x)
                   ELSE ExternalEnd(Flush(x))
  OBVIOUS
<1>4. Leaves(i, y)
  BY <1>1, <1>3, PolledLeaves DEF ExternalQuits
<1>5. Conveys(x, y, i)
  BY <1>2, <1>3, QuitsConveys
<1>6. x.s.fin => y.s = x.s /\ y.in = x.in
  BY <1>2, <1>3, ReturnKeeps DEF Good, Outcome
<1>7. Secures(x, y, i) /\ (x.s.fin => y.out = x.out)
  BY <1>2, <1>3, QuitsSecures
<1>8. Settles(x, y, i)
  BY <1>2, <1>5, <1>6, <1>7 DEF Delivers, Settles, Conveys, Buffering
<1> QED BY <1>1, <1>4, <1>8 DEF Settlement

(* ExternalRuns.                                                              *)
LEMMA RunsSettles ==
  ASSUME Base, Order, Calm, NEW i \in 1..N, ExternalRuns(i), Firm(st[i], pipes[i - 1], i)
  PROVE  Settlement(i)
<1>1. PICK x : x = View(i)
  OBVIOUS
<1>2. PICK f : f = Flush(x)
  OBVIOUS
<1>3. PICK y : y = FillStdin(f, i = 1)
  OBVIOUS
<1>4. /\ Config /\ Good(x, i) /\ x.s.kind = "external" /\ i \in Nat \ {0}
      /\ ~x.s.fin /\ x.s.live /\ f.res = "going" /\ Firm(x.s, x.in, i)
  BY <1>1, <1>2, PolledStage DEF ExternalRuns, Quits
<1>5. \E v \in {y} : \E z \in {WriteStdin(v, w, i) : w \in HostWrites(v.s)} :
          IF ~z.s.live THEN Polled(i, {ExternalEnd(z)})
          ELSE \E a \in {AppendOutput(z, r, i) : r \in HostPolls(z.s)} :
                  Polled(i, {ExternalSettle(a)})
  BY <1>1, <1>2, <1>3 DEF ExternalRuns
<1>6. PICK z \in {WriteStdin(y, w, i) : w \in HostWrites(y.s)} :
          IF ~z.s.live THEN Polled(i, {ExternalEnd(z)})
          ELSE \E a \in {AppendOutput(z, r, i) : r \in HostPolls(z.s)} :
                  Polled(i, {ExternalSettle(a)})
  BY <1>5
<1>7. PICK w : w \in HostWrites(y.s) /\ z = WriteStdin(y, w, i)
  OBVIOUS
<1>8. /\ ~z.s.live => Conveys(x, ExternalEnd(z), i)
      /\ z.s.live => \A r \in HostPolls(z.s) :
                         Conveys(x, ExternalSettle(AppendOutput(z, r, i)), i)
  BY <1>2, <1>3, <1>4, <1>7, RunsConveys
<1>9. /\ ~z.s.live => Secures(x, ExternalEnd(z), i)
      /\ z.s.live => \A r \in HostPolls(z.s) :
                         Secures(x, ExternalSettle(AppendOutput(z, r, i)), i)
  BY <1>2, <1>3, <1>4, <1>7, RunsSecures
<1>10. \A v : Conveys(x, v, i) /\ Secures(x, v, i) => Settles(x, v, i)
  BY <1>4 DEF Delivers, Settles, Conveys, Buffering
<1>11. CASE ~z.s.live
  <2>1. PICK v : v = ExternalEnd(z)
    OBVIOUS
  <2>2. Leaves(i, v)
    BY <1>6, <1>11, <2>1, PolledLeaves
  <2>3. Settles(x, v, i)
    BY <1>8, <1>9, <1>10, <1>11, <2>1
  <2> QED BY <1>1, <2>2, <2>3 DEF Settlement
<1>12. CASE z.s.live
  <2>1. PICK a \in {AppendOutput(z, r, i) : r \in HostPolls(z.s)} : Polled(i, {ExternalSettle(a)})
    BY <1>6, <1>12
  <2>2. PICK r : r \in HostPolls(z.s) /\ a = AppendOutput(z, r, i)
    OBVIOUS
  <2>3. PICK v : v = ExternalSettle(a)
    OBVIOUS
  <2>4. Leaves(i, v)
    BY <2>1, <2>3, PolledLeaves
  <2>5. Settles(x, v, i)
    BY <1>8, <1>9, <1>10, <1>12, <2>2, <2>3
  <2> QED BY <1>1, <2>4, <2>5 DEF Settlement
<1> QED BY <1>11, <1>12

-----------------------------------------------------------------------------
(* The invariant of the pipeline, while no child exits early.                 *)

(* A stage without a failure behind it ends with nothing left.                *)
Ending(i) ==
    /\ Firm(st[i], pipes[i - 1], i)
    /\ Cause(i) \/ Emptied(st[i], pipes[i - 1])
    /\ done[i] => st[i].fin

Unfailed == \A i \in 1..N : st[i].rc = 0

Settled ==
    Calm /\ phase # "over" =>
        /\ \A i \in 1..N : Ending(i)
        /\ Unmerged /\ Unfailed => \A i \in 1..N : Clear(View(i))

(* A poll of a stage, or of one that is done.                                 *)
LEMMA PollSettles ==
  ASSUME Base, Order, Calm, Settled, Poll
  PROVE  \E i \in 1..N : (Settlement(i) /\ Running(i)) \/ SkipStage(i)
<1>1. PICK i \in 1..N : \/ PollRead(i) \/ PollHead(i) \/ PollBuffered(i)
                        \/ ExternalQuits(i) \/ ExternalRuns(i) \/ SkipStage(i)
  BY DEF Poll
<1>2. SkipStage(i) \/ Running(i)
  BY <1>1 DEF PollRead, PollHead, PollBuffered, ExternalQuits, ExternalRuns
<1>3. ~SkipStage(i) => Firm(st[i], pipes[i - 1], i)
  BY <1>2 DEF Settled, Running, Ending
<1>4. SkipStage(i) \/ Settlement(i)
  BY <1>1, <1>3, ReadSettles, HeadSettles, BufferedSettles, QuitsSettles, RunsSettles
<1> QED BY <1>2, <1>4

(* What the end of a pipe says stays true.                                    *)
LEMMA EofKept ==
  ASSUME NEW s, NEW p, NEW q, NEW i, Eof(p) => Eof(q)
  PROVE  /\ Firm(s, p, i) => Firm(s, q, i)
         /\ Emptied(s, p) => Emptied(s, q)
BY DEF Firm, Emptied

(* A poll disturbs its own stage and the input of the next one.               *)
LEMMA PollEndings ==
  ASSUME Base, Order, Calm, NEW i \in 1..N, Running(i), NEW y, Leaves(i, y),
         Settles(View(i), y, i), \A j \in 1..N : Ending(j)
  PROVE  \A j \in 1..N : Ending(j)'
<1>1. PICK x : x = View(i)
  OBVIOUS
<1>2. /\ x.s = st[i] /\ x.in = pipes[i - 1] /\ x.out = pipes[i] /\ Config /\ phase # "over"
      /\ N \in Nat
  BY <1>1, PolledStage, ConfigFacts
<1>3. Delivers(x, y, i) /\ Secures(x, y, i) /\ (x.s.fin => y.out = x.out)
  BY <1>1 DEF Settles
<1>4. Keeps(x, y)
  BY <1>3, DeliveryLinks DEF Links
<1>5. /\ st'[i] = y.s /\ pipes'[i - 1] = y.in /\ pipes'[i] = y.out
      /\ done'[i] = (y.res = "exited")
      /\ \A j \in 1..N : j # i => st'[j] = st[j] /\ done'[j] = done[j]
      /\ \A j \in 0..N : j # i - 1 /\ j # i => pipes'[j] = pipes[j]
  BY <1>1, <1>4, LeavesFacts
<1>6. \A j \in 1..N : Cause(j) => Cause(j)'
  <2>1. \A j \in 1..N : Gave(st[j]) => Gave(st'[j])
    BY <1>1, <1>3, PollOrder
  <2>2. \A j \in 0..N : Cause(j) => Cause(j)'
    BY <1>2, <2>1, CauseKept DEF Leaves
  <2> QED BY <1>2, <2>2
<1>7. Reasoned(i) /\ Trusty
  BY <1>2 DEF Order, Calm, Trusty
<1>8. ~x.s.fin => ~x.out.write_closed /\ (x.out.read_closed => Cause(i))
  BY <1>2, <1>7 DEF Reasoned
<1>9. Firm(x.s, x.in, i) /\ (Cause(i) \/ Emptied(x.s, x.in))
  BY <1>2 DEF Ending
<1>10. Firm(y.s, y.in, i) /\ (y.res = "exited" => y.s.fin)
  BY <1>3, <1>9 DEF Secures
<1>11. Cause(i) \/ Emptied(y.s, y.in)
  <2>1. CASE x.s.fin
    BY <1>3, <1>9, <2>1 DEF Delivers
  <2>2. CASE ~x.s.fin
    BY <1>3, <1>8, <1>9, <2>2 DEF Secures
  <2> QED BY <2>1, <2>2
<1>12. Eof(x.out) => Eof(y.out)
  BY <1>3, <1>8 DEF Eof
<1>13. ASSUME NEW j \in 1..N
       PROVE  Ending(j)'
  <2>1. CASE j = i
    BY <1>5, <1>6, <1>10, <1>11, <2>1 DEF Ending
  <2>2. CASE j # i
    <3>1. Firm(st[j], pipes[j - 1], j) /\ (Cause(j) \/ Emptied(st[j], pipes[j - 1]))
          /\ (done[j] => st[j].fin)
      BY DEF Ending
    <3>2. st'[j] = st[j] /\ done'[j] = done[j] /\ j - 1 # i - 1 /\ j - 1 \in 0..N
      BY <1>2, <1>5, <2>2
    <3>3. Eof(pipes[j - 1]) => Eof(pipes'[j - 1])
      <4>1. CASE j - 1 = i
        BY <1>2, <1>5, <1>12, <4>1
      <4>2. CASE j - 1 # i
        BY <1>5, <3>2, <4>2
      <4> QED BY <4>1, <4>2
    <3>4. Firm(st'[j], pipes'[j - 1], j) /\ (Cause(j)' \/ Emptied(st'[j], pipes'[j - 1]))
      BY <1>6, <3>1, <3>2, <3>3, EofKept
    <3> QED BY <3>1, <3>2, <3>4 DEF Ending
  <2> QED BY <2>1, <2>2
<1> QED BY <1>13

(* No poll brings stderr into the pipeline, and none hides a failure.         *)
LEMMA PollClear ==
  ASSUME Base, Order, NEW i \in 1..N, Running(i), NEW y, Leaves(i, y),
         Settles(View(i), y, i), Unfailed', Unmerged
  PROVE  /\ Unfailed
         /\ (\A j \in 1..N : Clear(View(j))) => Clear(y) /\ \A j \in 1..N : Clear(View(j))'
<1>1. PICK x : x = View(i)
  OBVIOUS
<1>2. /\ x.s = st[i] /\ x.in = pipes[i - 1] /\ x.out = pipes[i] /\ Config /\ N \in Nat
  BY <1>1, PolledStage, ConfigFacts
<1>3. Delivers(x, y, i) /\ Secures(x, y, i)
  BY <1>1 DEF Settles
<1>4. Keeps(x, y) /\ N' = N
  BY <1>2, <1>3, DeliveryLinks, SameConf DEF Links, Leaves
<1>5. /\ st'[i] = y.s /\ pipes'[i - 1] = y.in /\ pipes'[i] = y.out
      /\ \A j \in 1..N : j # i => st'[j] = st[j]
      /\ \A j \in 0..N : j # i - 1 /\ j # i => pipes'[j] = pipes[j]
  BY <1>1, <1>4, LeavesFacts
<1>6. \A j \in 1..N : st'[j].rc = 0
  BY <1>4 DEF Unfailed
<1>7. Unfailed
  <2>1. st[i].rc = 0
    BY <1>2, <1>3, <1>5, <1>6 DEF Secures
  <2> QED BY <1>5, <1>6, <2>1 DEF Unfailed
<1>8. ASSUME \A j \in 1..N : Clear(View(j))
      PROVE  Clear(y) /\ \A j \in 1..N : Clear(View(j))'
  <2>1. Clear(y)
    BY <1>1, <1>3, <1>5, <1>6, <1>8 DEF Secures
  <2>2. ASSUME NEW j \in 1..N
        PROVE  Clear(View(j))'
    <3>1. PICK s : s = st'[j]
      OBVIOUS
    <3>2. PICK p : p = pipes'[j - 1]
      OBVIOUS
    <3>3. PICK q : q = pipes'[j]
      OBVIOUS
    <3>4. /\ View(j).s = st[j] /\ View(j).in = pipes[j - 1] /\ View(j).out = pipes[j]
          /\ Clear(View(j))
      BY <1>8, ViewFacts
    <3>5. j \in 0..N /\ j - 1 \in 0..N
      BY <1>2
    <3>6. /\ s.se = <<>> /\ s.pend \in Seq(Pure) /\ s.inbox \in Seq(Pure)
          /\ s.stdin \in Seq(Pure) /\ s.file \in Seq(Pure)
      <4>1. CASE j = i
        BY <1>5, <2>1, <3>1, <4>1 DEF Clear
      <4>2. CASE j # i
        BY <1>5, <3>1, <3>4, <4>2 DEF Clear
      <4> QED BY <4>1, <4>2
    <3>7. \A k \in 0..N : k = j - 1 \/ k = j => pipes'[k].data \in Seq(Pure)
      <4> SUFFICES ASSUME NEW k \in 0..N, k = j - 1 \/ k = j
                   PROVE  pipes'[k].data \in Seq(Pure)
        OBVIOUS
      <4>1. CASE k = i
        BY <1>5, <2>1, <4>1 DEF Clear
      <4>2. CASE k = i - 1
        BY <1>5, <2>1, <4>2 DEF Clear
      <4>3. CASE k # i /\ k # i - 1
        BY <1>5, <3>4, <4>3 DEF Clear
      <4> QED BY <4>1, <4>2, <4>3
    <3>8. p.data \in Seq(Pure) /\ q.data \in Seq(Pure)
      BY <3>2, <3>3, <3>5, <3>7
    <3>9. View(j)' = [s |-> s, in |-> p, out |-> q, res |-> "going"]
      BY <3>1, <3>2, <3>3 DEF View
    <3>10. PICK v : v = View(j)'
      OBVIOUS
    <3>11. v.s = s /\ v.in = p /\ v.out = q
      BY <3>9, <3>10
    <3>12. Clear(v)
      BY <3>6, <3>8, <3>11 DEF Clear
    <3> QED BY <3>9, <3>10, <3>12 DEF Clear
  <2> QED BY <2>1, <2>2
<1> QED BY <1>7, <1>8

(* The pipeline's faults and the joints of its stages never change.           *)
LEMMA SameFaults ==
  ASSUME Config, conf' = conf
  PROVE  (Calm' <=> Calm) /\ (Unmerged' <=> Unmerged)
<1>1. Faults' = Faults
  BY SameConf
<1> QED BY <1>1 DEF Calm, Unmerged

LEMMA PollSettled ==
  ASSUME Base, Order, Settled, NEW i \in 1..N, Running(i), NEW y, Leaves(i, y),
         Settles(View(i), y, i)
  PROVE  Settled'
<1>1. Config /\ phase # "over" /\ N' = N /\ (Calm' <=> Calm) /\ (Unmerged' <=> Unmerged)
  BY PolledStage, SameConf, SameFaults DEF Leaves
<1> SUFFICES ASSUME Calm
             PROVE  /\ \A j \in 1..N : Ending(j)'
                    /\ Unmerged /\ Unfailed' => \A j \in 1..N : Clear(View(j))'
  BY <1>1 DEF Settled
<1>2. /\ \A j \in 1..N : Ending(j)
      /\ Unmerged /\ Unfailed => \A j \in 1..N : Clear(View(j))
  BY <1>1 DEF Settled
<1>3. \A j \in 1..N : Ending(j)'
  BY <1>2, PollEndings
<1>4. Unmerged /\ Unfailed' => \A j \in 1..N : Clear(View(j))'
  BY <1>2, PollClear
<1> QED BY <1>3, <1>4

(* A step in which no stage is polled and stdout may take bytes.              *)
LEMMA QuietSettled ==
  ASSUME Base, Settled, conf' = conf, st' = st, done' = done, phase # "over",
         \A j \in 0..N : j # N => pipes'[j] = pipes[j],
         pipes[N].data \in Seq(Pure) => pipes'[N].data \in Seq(Pure)
  PROVE  Settled'
<1>1. Config /\ N \in Nat /\ \A j \in 1..N : j \in 0..N /\ j - 1 \in 0..N /\ j - 1 # N
  BY ConfigFacts DEF Base
<1>2. N' = N /\ (Calm' <=> Calm) /\ (Unmerged' <=> Unmerged)
  BY <1>1, SameConf, SameFaults
<1> SUFFICES ASSUME Calm
             PROVE  /\ \A j \in 1..N : Ending(j)'
                    /\ Unmerged /\ Unfailed' => \A j \in 1..N : Clear(View(j))'
  BY <1>2 DEF Settled
<1>3. /\ \A j \in 1..N : Ending(j)
      /\ Unmerged /\ Unfailed => \A j \in 1..N : Clear(View(j))
  BY DEF Settled
<1>4. \A j \in 1..N : Cause(j)' <=> Cause(j)
  BY <1>2 DEF Cause
<1>5. \A j \in 1..N : Ending(j)'
  BY <1>1, <1>3, <1>4 DEF Ending
<1>6. ASSUME Unmerged, Unfailed', NEW j \in 1..N
      PROVE  Clear(View(j))'
  <2>1. Unfailed
    BY <1>2, <1>6 DEF Unfailed
  <2>2. View(j).s = st[j] /\ View(j).in = pipes[j - 1] /\ View(j).out = pipes[j] /\ Clear(View(j))
    BY <1>3, <1>6, <2>1, ViewFacts
  <2>3. PICK s : s = st[j]
    OBVIOUS
  <2>4. PICK p : p = pipes[j - 1]
    OBVIOUS
  <2>5. PICK q : q = pipes'[j]
    OBVIOUS
  <2>6. q.data \in Seq(Pure)
    BY <1>1, <2>2, <2>5 DEF Clear
  <2>7. View(j)' = [s |-> s, in |-> p, out |-> q, res |-> "going"]
    BY <1>1, <2>3, <2>4, <2>5 DEF View
  <2>8. PICK v : v = View(j)'
    OBVIOUS
  <2>9. v.s = s /\ v.in = p /\ v.out = q
    BY <2>7, <2>8
  <2>10. Clear(v)
    BY <2>2, <2>3, <2>4, <2>6, <2>9 DEF Clear
  <2> QED BY <2>7, <2>8, <2>10 DEF Clear
<1> QED BY <1>5, <1>6

-----------------------------------------------------------------------------
(* How many bytes have passed.                                                *)

(* A first stage that makes its data itself has made all of it, unless it is  *)
(* gone or has yet to run its command.                                        *)
Begun(have) ==
    Kinds[1] # "read" =>
        have[1] = Len(Source) \/ Lost(1) \/ (Kinds[1] \in Buffering /\ ~st[1].eof)

(* What a head has read and what it still wants are what it wanted at first.  *)
Counted(got) ==
    Unmerged /\ Unfailed =>
        \A h \in 1..N : Kinds[h] = "head" => got[h - 1] + st[h].left = HeadBytes

Tally(have, got) == Calm /\ phase # "over" => Begun(have) /\ Counted(got)

PlacesInv ==
    \E put, have, got \in [0..N -> Place] : Flows(put, have, got) /\ Tally(have, got)

(* The places of a buffer say how long it is.                                 *)
LEMMA PieceLength ==
  ASSUME NEW buf, NEW a \in Place, NEW b \in Place, Piece(buf, a, b)
  PROVE  /\ Len(Payload(buf)) = b - a
         /\ buf \in Seq(Pure) => Len(buf) = b - a
         /\ buf = <<>> => a = b
<1>1. a <= b /\ Payload(buf) = Seg(a, b)
  BY DEF Piece
<1>2. Len(Payload(buf)) = b - a
  BY <1>1, SegFacts
<1>3. buf \in Seq(Pure) => Payload(buf) = buf
  BY PayloadPure DEF Pure
<1>4. ASSUME buf = <<>>
      PROVE  a = b
  <2>1. Payload(buf) = <<>> /\ Len(<<>>) = 0
    BY <1>4, PayloadEmpty
  <2>2. b - a = 0
    BY <1>2, <2>1
  <2>3. a \in Nat /\ b \in Nat
    BY StreamingAssumption DEF Place
  <2> QED BY <2>2, <2>3
<1> QED BY <1>2, <1>3, <1>4

(* An empty buffer begins where it ends.                                      *)
LEMMA NoPiece ==
  ASSUME NEW a \in Place, NEW b \in Place, Piece(<<>>, a, b)
  PROVE  a = b
BY PieceLength

(* A poll of the first stage.                                                 *)
LEMMA FirstBegun ==
  ASSUME Base, Order, Running(1), NEW y, Leaves(1, y), Settles(View(1), y, 1),
         NEW put \in [0..N -> Place], NEW have \in [0..N -> Place],
         NEW got \in [0..N -> Place], Flows(put, have, got),
         NEW put2 \in [0..N -> Place], NEW have2 \in [0..N -> Place],
         NEW got2 \in [0..N -> Place], Flows(put2, have2, got2)', got2[1] = got[1],
         Kinds[1] # "read", Begun(have)
  PROVE  have2[1] = Len(Source) \/ Lost(1)'
<1>1. 1 \in 1..N /\ 1 \in 0..N /\ 0 \in 0..N /\ N \in Nat
  BY ConfigFacts DEF Base
<1>2. PICK x : x = View(1)
  OBVIOUS
<1>3. /\ x.s = st[1] /\ x.in = pipes[0] /\ x.out = pipes[1] /\ Config /\ x \in ViewType
      /\ x.s.kind = Kinds[1]
  BY <1>1, <1>2, PolledStage DEF Good
<1>4. Delivers(x, y, 1)
  BY <1>2 DEF Settles
<1>5. Keeps(x, y) /\ Links(x, y, 1) /\ N' = N /\ y \in ViewType
  BY <1>3, <1>4, DeliveryLinks, SameConf DEF Links, Leaves, Keeps
<1>6. st'[1] = y.s /\ pipes'[0] = y.in /\ pipes'[1] = y.out
  BY <1>1, <1>2, <1>5, LeavesFacts
<1>7. /\ Piece(pipes[0].data, got[0], put[0]) /\ Piece(pipes[1].data, got[1], put[1])
      /\ Piece(HeldBy(st[1]), put[1], have[1])
  BY <1>1 DEF Flows
<1>8. /\ Piece(pipes'[0].data, got2[0], put2[0]) /\ Piece(pipes'[1].data, got2[1], put2[1])
      /\ Piece(HeldBy(st'[1]), put2[1], have2[1])
  BY <1>1, <1>5 DEF Flows, Piece
<1>9. Lands(x, got[1], put[1], have[1], got[0], put[0])
      /\ Lands(y, got2[1], put2[1], have2[1], got2[0], put2[0])
  BY <1>3, <1>6, <1>7, <1>8 DEF Lands
<1>10. PICK L : L = Len(Source)
  OBVIOUS
<1>11. /\ L \in Nat /\ put2[1] \in 0..L /\ have2[1] \in 0..L /\ have[1] \in 0..L /\ got[1] \in 0..L
       /\ Place = 0..L
  BY <1>1, <1>10, StreamingAssumption DEF Place
<1>12. Lost(1) => Lost(1)'
  BY <1>1, <1>2, <1>4, LossKept
<1>13. Drops(x, y, 1) => Lost(1)'
  BY <1>1, <1>2, <1>4, LossKept
<1>14. CASE Payload(HeldBy(y.s)) = Source
  <2>1. PICK b : b = HeldBy(y.s)
    OBVIOUS
  <2>2. Piece(b, put2[1], have2[1]) /\ put2[1] \in Place /\ have2[1] \in Place
    BY <1>1, <1>6, <1>8, <2>1
  <2>3. Len(Payload(b)) = have2[1] - put2[1]
    BY <2>2, PieceLength
  <2> QED BY <1>10, <1>11, <1>14, <2>1, <2>3
<1>15. CASE have[1] = L /\ Moves(x, y, 1)
  <2>1. y.in.data = x.in.data
    BY <1>3, <1>5 DEF Links, Deaf
  <2>2. PICK u \in Seq(Nat) : x.in.data = u \o y.in.data /\ Ahead(y) = Ahead(x) \o Payload(u)
    BY <1>15 DEF Moves, Flow
  <2>3. x.in.data \in Seq(Nat) /\ Ahead(x) \in Seq(Nat)
    BY <1>3, ViewBytes
  <2>4. u = <<>>
    BY <2>1, <2>2, <2>3, NothingAdded
  <2>5. Ahead(y) = Ahead(x)
    BY <2>2, <2>3, <2>4, PayloadEmpty
  <2>6. got[1] <= have[1] /\ Ahead(x) = Seg(got[1], have[1])
    BY <1>1, <1>3, <1>9, LandsAhead
  <2>7. got2[1] <= have2[1] /\ Ahead(y) = Seg(got2[1], have2[1])
    BY <1>1, <1>5, <1>9, LandsAhead
  <2>8. Len(Seg(got[1], have[1])) = have[1] - got[1]
    BY <1>1, <2>6, SegFacts
  <2>9. Len(Seg(got2[1], have2[1])) = have2[1] - got2[1]
    BY <1>1, <2>7, SegFacts
  <2>10. have[1] - got[1] = have2[1] - got[1]
    BY <2>5, <2>6, <2>7, <2>8, <2>9
  <2> QED BY <1>10, <1>11, <1>15, <2>10
<1>16. Starts(x, y, 1) \/ (x.s.kind \in Buffering /\ ~x.s.eof) => Payload(HeldBy(y.s)) = Source
  BY <1>2, <1>4 DEF Settles, Starts
<1>17. Moves(x, y, 1) \/ Drops(x, y, 1) \/ Starts(x, y, 1)
  BY <1>4 DEF Delivers
<1> QED BY <1>3, <1>10, <1>12, <1>13, <1>14, <1>15, <1>16, <1>17 DEF Begun

(* A poll of a head, or of another stage.                                     *)
LEMMA PollCounted ==
  ASSUME Base, Order, Calm, Settled, NEW i \in 1..N, Running(i), NEW y, Leaves(i, y),
         Settles(View(i), y, i),
         NEW put \in [0..N -> Place], NEW have \in [0..N -> Place],
         NEW got \in [0..N -> Place], Flows(put, have, got),
         NEW put2, NEW have2, NEW got2, Flows(put2, have2, got2)',
         Moved(i, put, have, got, put2, have2, got2), Counted(got)
  PROVE  Counted(got2)'
<1>1. PICK x : x = View(i)
  OBVIOUS
<1>2. /\ x.s = st[i] /\ x.in = pipes[i - 1] /\ x.out = pipes[i] /\ Config /\ phase # "over"
      /\ N \in Nat /\ x.s.kind = Kinds[i] /\ i \in 0..N /\ i - 1 \in 0..N /\ x \in ViewType
  BY <1>1, PolledStage, ConfigFacts DEF Good
<1>3. Delivers(x, y, i) /\ (x.s.kind = "head" => Counts(x, y))
  BY <1>1 DEF Settles
<1>4. Keeps(x, y) /\ N' = N /\ Kinds' = Kinds /\ (Unmerged' <=> Unmerged) /\ y \in ViewType
  BY <1>2, <1>3, DeliveryLinks, SameConf, SameFaults DEF Links, Leaves, Keeps
<1>5. /\ st'[i] = y.s /\ pipes'[i - 1] = y.in
      /\ \A j \in 1..N : j # i => st'[j] = st[j]
  BY <1>1, <1>4, LeavesFacts
<1> SUFFICES ASSUME Unmerged, Unfailed', NEW h \in 1..N, Kinds[h] = "head"
             PROVE  got2[h - 1] + st'[h].left = HeadBytes
  BY <1>4 DEF Counted
<1>6. Unfailed
  BY PollClear
<1>7. \A j \in 1..N : Clear(View(j))
  BY <1>2, <1>6 DEF Settled
<1>8. Clear(x) /\ Clear(y)
  BY <1>1, <1>7, PollClear
<1>9. got[h - 1] + st[h].left = HeadBytes /\ h - 1 \in 0..N
  BY <1>2, <1>6 DEF Counted
<1>10. CASE h # i
  BY <1>2, <1>5, <1>9, <1>10 DEF Moved
<1>11. CASE h = i
  <2>1. /\ got2[i - 1] \in Place /\ put[i - 1] \in Place /\ got[i - 1] \in Place
        /\ put2[i - 1] = put[i - 1]
    <3>1. i - 1 # i
      BY <1>2
    <3>2. got2 \in [0..N -> Place] /\ \A j \in 0..N : j # i => put2[j] = put[j]
      BY DEF Moved
    <3> QED BY <1>2, <3>1, <3>2
  <2>2. Piece(x.in.data, got[i - 1], put[i - 1]) /\ Piece(y.in.data, got2[i - 1], put[i - 1])
    <3>1. Piece(pipes[i - 1].data, got[i - 1], put[i - 1])
      BY <1>2 DEF Flows
    <3>2. Piece(pipes'[i - 1].data, got2[i - 1], put2[i - 1])
      BY <1>2, <1>4 DEF Flows, Piece
    <3> QED BY <1>2, <1>5, <2>1, <3>1, <3>2
  <2>3. PICK e \in Place, f \in Place, g \in Place :
            e = got[i - 1] /\ f = put[i - 1] /\ g = got2[i - 1]
    BY <2>1
  <2>4. PICK a \in Seq(Pure), b \in Seq(Pure) : a = x.in.data /\ b = y.in.data
    BY <1>8 DEF Clear
  <2>5. Piece(a, e, f) /\ Piece(b, g, f)
    BY <2>2, <2>3, <2>4
  <2>6. Len(a) = f - e
    BY <2>5, PieceLength
  <2>7. Len(b) = f - g
    BY <2>5, PieceLength
  <2>8. PICK k \in Nat, l \in Nat : k = y.s.left /\ l = x.s.left
    BY <1>2, <1>4, ViewParts DEF Stage
  <2>9. g + k = e + l
    <3>1. Len(a) + k = Len(b) + l
      BY <1>2, <1>3, <1>11, <2>4, <2>8 DEF Counts
    <3>2. e \in Nat /\ f \in Nat /\ g \in Nat
      BY StreamingAssumption DEF Place
    <3>3. (f - e) + k = (f - g) + l
      BY <2>6, <2>7, <3>1
    <3> QED BY <3>2, <3>3
  <2> QED BY <1>2, <1>5, <1>9, <1>11, <2>3, <2>8, <2>9
<1> QED BY <1>10, <1>11

(* A poll moves the places and keeps the count.                               *)
LEMMA PollTallies ==
  ASSUME Base, Order, Settled, PlacesInv, Calm, NEW i \in 1..N, Running(i), NEW y, Leaves(i, y),
         Settles(View(i), y, i)
  PROVE  PlacesInv'
<1>1. PICK put \in [0..N -> Place], have \in [0..N -> Place], got \in [0..N -> Place] :
          Flows(put, have, got) /\ Tally(have, got)
  BY DEF PlacesInv
<1>2. Delivers(View(i), y, i)
  BY DEF Settles
<1>3. PICK put2, have2, got2 :
          Moved(i, put, have, got, put2, have2, got2) /\ Flows(put2, have2, got2)'
  BY <1>1, <1>2, PollPlaces
<1>4. /\ N' = N /\ Kinds' = Kinds /\ phase # "over" /\ N \in Nat /\ 1 \in 1..N /\ 1 \in 0..N
      /\ (Calm' <=> Calm)
  BY PolledStage, SameConf, SameFaults, ConfigFacts DEF Leaves
<1>5. Begun(have) /\ Counted(got)
  BY <1>1, <1>4 DEF Tally
<1>6. put2 \in [0..N -> Place] /\ have2 \in [0..N -> Place] /\ got2 \in [0..N -> Place]
  BY <1>3 DEF Moved
<1>7. Counted(got2)'
  BY <1>1, <1>3, <1>5, PollCounted
<1>8. Begun(have2)'
  <2>1. CASE i = 1
    <3>1. got2[1] = got[1]
      BY <1>3, <1>4, <2>1 DEF Moved
    <3>2. Kinds[1] # "read" => have2[1] = Len(Source) \/ Lost(1)'
      BY <1>1, <1>3, <1>5, <1>6, <2>1, <3>1, FirstBegun
    <3> QED BY <1>4, <3>2 DEF Begun
  <2>2. CASE i # 1
    <3>1. have2[1] = have[1]
      BY <1>3, <1>4, <2>2 DEF Moved
    <3>2. Lost(1) => Lost(1)'
      BY <1>2, <1>4, <2>2, LossKept
    <3>3. Keeps(View(i), y)
      BY <1>2, DeliveryLinks DEF Links
    <3>4. st'[1] = st[1]
      BY <1>4, <2>2, <3>3, LeavesFacts
    <3> QED BY <1>4, <1>5, <3>1, <3>2, <3>4 DEF Begun
  <2> QED BY <2>1, <2>2
<1>9. Tally(have2, got2)'
  BY <1>7, <1>8 DEF Tally
<1> QED BY <1>3, <1>4, <1>6, <1>9 DEF PlacesInv

(* A step in which no stage is polled keeps the count.                        *)
LEMMA QuietTallies ==
  ASSUME Base, PlacesInv, NEW n, n \in 0..Len(pipes[N].data), Rests(n), phase # "over",
         st' = st, done' = done
  PROVE  PlacesInv'
<1>1. PICK put \in [0..N -> Place], have \in [0..N -> Place], got \in [0..N -> Place] :
          Flows(put, have, got) /\ Tally(have, got)
  BY DEF PlacesInv
<1>2. PICK got2 \in [0..N -> Place] :
          (\A j \in 0..N : j # N => got2[j] = got[j]) /\ Flows(put, have, got2)'
  BY <1>1, RestPlaces
<1>3. /\ N' = N /\ Kinds' = Kinds /\ (Trusty' <=> Trusty) /\ (Calm' <=> Calm)
      /\ (Unmerged' <=> Unmerged) /\ N \in Nat
  BY SameConf, SameFaults, ConfigFacts DEF Base, Rests
<1>4. Lost(1) => Lost(1)'
  BY <1>3 DEF Lost, Cause
<1>5. Begun(have) => Begun(have)'
  BY <1>3, <1>4 DEF Begun
<1>6. Counted(got) => Counted(got2)'
  <2>1. \A h \in 1..N : got2[h - 1] = got[h - 1]
    BY <1>2, <1>3
  <2> QED BY <1>3, <2>1 DEF Counted, Unfailed
<1>7. Tally(have, got2)'
  BY <1>1, <1>3, <1>5, <1>6 DEF Tally
<1> QED BY <1>1, <1>2, <1>3, <1>7 DEF PlacesInv

(* Without a pipeline in progress there is nothing to count.                  *)
LEMMA OverTallies ==
  ASSUME FlowInv, ~Calm \/ phase = "over"
  PROVE  PlacesInv
BY DEF FlowInv, PlacesInv, Tally

-----------------------------------------------------------------------------
(* The end of a pipeline without failures.                                    *)

(* drain_final_pipe_to_stdout empties the last pipe, unless that takes the    *)
(* run over its output limit.                                                 *)
LEMMA DrainsAll ==
  ASSUME Base, ~OverOutput
  PROVE  Drained = Len(pipes[N].data)
<1>1. pipes[N].data \in Seq(Byte) /\ out \in Seq(Byte) /\ Drained \in 0..Len(pipes[N].data)
      /\ (Drained = 0 => pipes[N].data = <<>>)
  BY DrainedFacts DEF Base, TypeOK
<1>2. PICK have : have = Len(pipes[N].data)
  OBVIOUS
<1>3. PICK shown : shown = Len(out)
  OBVIOUS
<1>4. PICK need : need = OutputLimit + 1 - shown
  OBVIOUS
<1>5. PICK upto : upto = IF need <= 0 THEN Chunk ELSE ((need + Chunk - 1) \div Chunk) * Chunk
  OBVIOUS
<1>6. /\ have \in Nat /\ shown \in Nat /\ OutputLimit \in Nat /\ Chunk \in Nat \ {0}
      /\ need \in Int /\ Drained \in 0..have /\ (Drained = 0 => have = 0)
  <2>1. have \in Nat /\ shown \in Nat /\ OutputLimit \in Nat /\ Chunk \in Nat \ {0}
    BY <1>1, <1>2, <1>3, StreamingAssumption
  <2>2. Drained = 0 => have = 0
    BY <1>1, <1>2
  <2> QED BY <1>1, <1>2, <1>4, <2>1, <2>2
<1>7. Drained = IF "budget" \notin Faults \/ OutputLimit = 0 THEN have ELSE Least(have, upto)
  BY <1>2, <1>3, <1>4, <1>5 DEF Drained
<1>8. CASE "budget" \notin Faults \/ OutputLimit = 0
  BY <1>2, <1>7, <1>8
<1>9. CASE "budget" \in Faults /\ OutputLimit # 0 /\ Drained # 0
  <2>1. shown + Drained <= OutputLimit
    BY <1>3, <1>6, <1>9 DEF OverOutput
  <2>2. need >= 1
    BY <1>4, <1>6, <1>9, <2>1
  <2>3. upto >= need /\ upto \in Int
    <3>1. PICK a \in Int : a = need + Chunk - 1
      BY <1>6
    <3>2. PICK q : q = a \div Chunk
      OBVIOUS
    <3>3. upto = q * Chunk
      BY <1>5, <1>6, <2>2, <3>1, <3>2
    <3>4. PICK r : r = a % Chunk
      OBVIOUS
    <3>5. a = q * Chunk + r /\ r \in 0..(Chunk - 1) /\ q \in Int
      BY <1>6, <3>1, <3>2, <3>4
    <3> QED BY <1>6, <3>1, <3>3, <3>5
  <2>4. Drained = Least(have, upto)
    BY <1>7, <1>9
  <2> QED BY <1>2, <1>4, <1>6, <2>1, <2>3, <2>4 DEF Least
<1>10. CASE Drained = 0
  BY <1>2, <1>6, <1>10
<1> QED BY <1>8, <1>9, <1>10

(* resolve_pipeline_exit_status: with pipefail, success means that every      *)
(* stage succeeded.                                                           *)
LEMMA AllSucceeded ==
  ASSUME Config, NEW rc, conf.pipefail, Resolve(rc) = 0
  PROVE  \A i \in 1..N : rc[i] = 0
<1>1. N \in Nat
  BY ConfigFacts
<1>2. PICK bad : bad = {i \in 1..N : rc[i] # 0}
  OBVIOUS
<1>3. PICK last : last = CHOOSE i \in bad : \A j \in bad : j <= i
  OBVIOUS
<1>4. Resolve(rc) = IF ~conf.pipefail THEN rc[N] ELSE IF bad = {} THEN 0 ELSE rc[last]
  BY <1>2, <1>3 DEF Resolve
<1>5. ASSUME bad # {}
      PROVE  FALSE
  <2>1. bad \subseteq 0..N
    BY <1>1, <1>2
  <2>2. \E i \in bad : \A j \in bad : j <= i
    BY <1>1, <1>5, <2>1, GreatestElement
  <2>3. last \in bad
    BY <1>3, <2>2
  <2> QED BY <1>2, <1>4, <1>5, <2>3
<1> QED BY <1>2, <1>5

(* A stage that ended without a failure behind it holds nothing, and its      *)
(* input has ended unless it is a head that got what it wanted.               *)
LEMMA EndedStage ==
  ASSUME Base, Order, phase # "over", NEW i \in 1..N, Ending(i), done[i], st[i].rc = 0, ~Cause(i)
  PROVE  /\ HeldBy(st[i]) = <<>>
         /\ Linked(i) /\ ~Gave(st[i]) => Eof(pipes[i - 1])
         /\ Kinds[i] \in Buffering => st[i].eof
<1>1. PICK s : s = st[i]
  OBVIOUS
<1>2. PICK p : p = pipes[i - 1]
  OBVIOUS
<1>3. s \in Stage /\ s.kind = Kinds[i] /\ s.kind \in Kind /\ i \in Nat
  <2>1. s \in Stage
    BY <1>1 DEF Base, TypeOK
  <2>2. s.kind = Kinds[i]
    BY <1>1 DEF Base, Shape
  <2>3. N \in Nat
    BY DEF Base, Config, N
  <2> QED BY <2>1, <2>2, <2>3 DEF Stage
<1>4. Firm(s, p, i) /\ Emptied(s, p) /\ s.fin /\ s.rc = 0
  BY <1>1, <1>2 DEF Ending
<1>5. Sane(s, i)
  BY <1>1 DEF Order
<1>6. /\ s.pend = <<>>
      /\ s.kind \in {"read", "tee"} \cup Buffering => s.eof
      /\ s.kind = "external" => s.eof
      /\ s.kind = "head" => s.left = 0 \/ Eof(p)
  BY <1>4 DEF Emptied
<1>7. s.kind = "external" => s.sclosed /\ s.inbox = <<>>
  BY <1>4, <1>6 DEF Firm
<1>8. s.inbox = <<>> /\ s.stdin = <<>>
  BY <1>5, <1>7 DEF Sane
<1>9. Staged(s) = <<>>
  BY <1>4, <1>6 DEF Staged, Firm
<1>10. HeldBy(s) = <<>>
  <2>1. <<>> \o <<>> = <<>>
    OBVIOUS
  <2> QED BY <1>6, <1>8, <1>9, <2>1 DEF HeldBy, Behind
<1>11. ASSUME Linked(i), ~Gave(s)
       PROVE  Eof(p)
  <2>1. CASE s.kind \in {"read", "tee"}
    BY <1>4, <1>6, <2>1 DEF Firm
  <2>2. CASE s.kind = "head"
    BY <1>6, <1>11, <2>2 DEF Gave
  <2>3. CASE s.kind \in Buffering \cup {"external"}
    <3>1. i > 1
      BY <1>3, <1>11, <2>3 DEF Linked, Buffering
    <3> QED BY <1>4, <1>6, <1>7, <2>3, <3>1 DEF Firm, Buffering
  <2> QED BY <1>3, <2>1, <2>2, <2>3 DEF Kind, Buffering
<1> QED BY <1>1, <1>2, <1>3, <1>6, <1>10, <1>11

(* What stdout should have at the end.                                        *)
Wanted == IF "head" \in {Kinds[i] : i \in 1..N} THEN Least(HeadBytes, Len(Source)) ELSE Len(Source)

(* Stage i has passed on all that was written to its input.                   *)
Relayed(put, got, i) == put[i] = put[i - 1] /\ (i > 1 => got[i - 1] = put[i - 1])

(* A stage that neither gave up nor has a stage behind it that did.           *)
LEMMA PassedOn ==
  ASSUME Base, Order, phase # "over", Calm, NEW i \in 1..N, Ending(i), done[i], st[i].rc = 0,
         ~Cause(i), ~Gave(st[i]),
         NEW put \in [0..N -> Place], NEW have \in [0..N -> Place],
         NEW got \in [0..N -> Place], Flows(put, have, got), Begun(have)
  PROVE  Relayed(put, got, i)
<1>1. N \in Nat /\ i \in 0..N /\ i - 1 \in 0..N /\ i \in Nat
  BY ConfigFacts DEF Base
<1>2. Trusty
  BY DEF Calm, Trusty
<1>3. ~Lost(i)
  BY <1>2 DEF Lost
<1>4. HeldBy(st[i]) = <<>> /\ (Linked(i) => Eof(pipes[i - 1])) /\ (Kinds[i] \in Buffering => st[i].eof)
  BY EndedStage
<1>5. /\ put[i] \in Place /\ have[i] \in Place /\ got[i - 1] \in Place /\ put[i - 1] \in Place
      /\ Piece(HeldBy(st[i]), put[i], have[i]) /\ Piece(pipes[i - 1].data, got[i - 1], put[i - 1])
      /\ (Linked(i) => have[i] = got[i - 1]) /\ put[0] = Len(Source)
  BY <1>1, <1>3 DEF Flows
<1>6. put[i] = have[i]
  <2>1. Piece(<<>>, put[i], have[i])
    BY <1>4, <1>5
  <2> QED BY <1>5, <2>1, NoPiece
<1>7. CASE Linked(i)
  <2>1. got[i - 1] = put[i - 1]
    <3>1. Piece(<<>>, got[i - 1], put[i - 1])
      BY <1>4, <1>5, <1>7 DEF Eof
    <3> QED BY <1>5, <3>1, NoPiece
  <2> QED BY <1>5, <1>6, <1>7, <2>1 DEF Relayed
<1>8. CASE ~Linked(i)
  <2>1. i = 1 /\ Kinds[1] # "read"
    BY <1>1, <1>8 DEF Linked
  <2>2. have[1] = Len(Source)
    BY <1>3, <1>4, <2>1 DEF Begun
  <2> QED BY <1>5, <1>6, <2>1, <2>2 DEF Relayed
<1> QED BY <1>7, <1>8

(* A head that got what it wanted has passed on just that.                    *)
LEMMA HeadPassedOn ==
  ASSUME Base, Order, phase # "over", Unmerged, Unfailed, NEW h \in 1..N, Ending(h), done[h],
         ~Cause(h), Gave(st[h]),
         NEW put \in [0..N -> Place], NEW have \in [0..N -> Place],
         NEW got \in [0..N -> Place], Flows(put, have, got), Counted(got)
  PROVE  put[h] = HeadBytes
<1>1. N \in Nat /\ h \in 0..N /\ h - 1 \in 0..N /\ h \in Nat
  BY ConfigFacts DEF Base
<1>2. st[h].rc = 0 /\ st[h].kind = "head" /\ st[h].left = 0 /\ Kinds[h] = "head"
  BY DEF Unfailed, Gave, Base, Shape
<1>3. h > 1
  BY <1>1, <1>2 DEF Order, Buffering
<1>4. ~Lost(h) /\ Linked(h)
  BY <1>2, <1>3 DEF Lost, Linked, Buffering
<1>5. HeldBy(st[h]) = <<>>
  BY <1>2, EndedStage
<1>6. /\ put[h] \in Place /\ have[h] \in Place /\ Piece(HeldBy(st[h]), put[h], have[h])
      /\ have[h] = got[h - 1] /\ got[h - 1] \in Place
  BY <1>1, <1>4 DEF Flows
<1>7. put[h] = have[h]
  <2>1. Piece(<<>>, put[h], have[h])
    BY <1>5, <1>6
  <2> QED BY <1>6, <2>1, NoPiece
<1>8. got[h - 1] + 0 = HeadBytes /\ got[h - 1] \in Nat
  BY <1>2, <1>6, StreamingAssumption DEF Counted, Place
<1> QED BY <1>6, <1>7, <1>8

(* So the last stage has written what was wanted.                             *)
LEMMA AllPassedOn ==
  ASSUME Base, Order, phase # "over", Calm, Settled, Unfailed, ~Merged, \A i \in 1..N : done[i],
         NEW put \in [0..N -> Place], NEW have \in [0..N -> Place],
         NEW got \in [0..N -> Place], Flows(put, have, got), Tally(have, got)
  PROVE  put[N] = Wanted
<1>1. /\ N \in Nat /\ N > 0 /\ \A i \in 1..N : i \in 0..N /\ i - 1 \in 0..N
      /\ HeadBytes \in Nat /\ Len(Source) \in Nat
  BY ConfigFacts, StreamingAssumption DEF Base
<1>2. (\A i \in 1..N : Ending(i)) /\ Begun(have) /\ Counted(got)
  BY DEF Settled, Tally
<1>3. "head" \in {Kinds[i] : i \in 1..N} => Unmerged
  BY DEF Merged, Unmerged
<1>4. ASSUME NEW i \in 1..N, ~Cause(i), ~Gave(st[i])
      PROVE  put[i] = put[i - 1] /\ (i > 1 => got[i - 1] = put[i - 1])
  <2>1. Ending(i) /\ done[i] /\ st[i].rc = 0 /\ Begun(have)
    BY <1>2 DEF Unfailed
  <2>2. Relayed(put, got, i)
    BY <1>4, <2>1, PassedOn
  <2> QED BY <2>2 DEF Relayed
<1>5. put[0] = Len(Source)
  BY DEF Flows
<1>6. PICK G : G = {i \in 1..N : Gave(st[i])}
  OBVIOUS
<1>7. CASE G = {}
  <2>1. \A i \in 1..N : ~Gave(st[i])
    BY <1>6, <1>7
  <2>2. \A i \in 1..N : ~Cause(i)
    <3>1. \A i \in 1..N : \A j \in (i + 1)..N : j \in 1..N
      BY <1>1
    <3> QED BY <2>1, <3>1 DEF Cause
  <2> DEFINE T == {k \in 0..N : put[k] = Len(Source)}
  <2>3. 0 \in T
    BY <1>1, <1>5
  <2>4. \A k \in 1..N : k - 1 \in T => k \in T
    BY <1>1, <1>4, <2>1, <2>2
  <2> HIDE DEF T
  <2>5. \A k \in 0..N : k \in T
    BY <1>1, <2>3, <2>4, UpTo
  <2>6. \A k \in 0..N : put[k] = Len(Source)
    BY <2>5 DEF T
  <2>7. put[N] = Len(Source)
    BY <1>1, <2>6
  <2>8. CASE "head" \in {Kinds[i] : i \in 1..N}
    <3>1. PICK h \in 1..N : Kinds[h] = "head"
      BY <2>8
    <3>2. got[h - 1] + st[h].left = HeadBytes
      BY <1>2, <1>3, <2>8, <3>1 DEF Counted
    <3>3. h > 1
      BY <1>1, <3>1 DEF Order, Buffering
    <3>4. got[h - 1] = Len(Source)
      BY <1>1, <1>4, <2>1, <2>2, <2>6, <3>3
    <3>5. st[h].left \in Nat
      BY DEF Base, TypeOK, Stage
    <3>6. Least(HeadBytes, Len(Source)) = Len(Source)
      <4>1. PICK l \in Nat, k \in Nat : l = st[h].left /\ k = Len(Source)
        BY <1>1, <3>5
      <4>2. k + l = HeadBytes
        BY <3>2, <3>4, <4>1
      <4>3. Least(HeadBytes, k) = k
        BY <4>1, <4>2 DEF Least
      <4> QED BY <4>1, <4>3
    <3> QED BY <2>7, <2>8, <3>6 DEF Wanted
  <2>9. CASE "head" \notin {Kinds[i] : i \in 1..N}
    BY <2>7, <2>9 DEF Wanted
  <2> QED BY <2>8, <2>9
<1>8. CASE G # {}
  <2>1. PICK c \in G : \A i \in G : i <= c
    <3>1. G \subseteq 0..N
      BY <1>1, <1>6
    <3> QED BY <1>1, <1>8, <3>1, GreatestElement
  <2>2. c \in 1..N /\ Gave(st[c])
    BY <1>6, <2>1
  <2>3. \A i \in 1..N : i >= c => ~Cause(i)
    <3>1. \A i \in 1..N : i >= c => \A j \in (i + 1)..N : j \in 1..N /\ ~(j <= c)
      BY <1>1, <2>2
    <3> QED BY <1>6, <2>1, <3>1 DEF Cause
  <2>4. \A i \in 1..N : i > c => ~Gave(st[i])
    BY <1>1, <1>6, <2>1, <2>2
  <2>5. "head" \in {Kinds[i] : i \in 1..N}
    BY <2>2 DEF Gave, Unfailed, Base, Shape
  <2>6. put[c] = HeadBytes
    <3>1. ~Cause(c)
      BY <1>1, <2>2, <2>3
    <3>2. Ending(c) /\ done[c] /\ Unmerged /\ Flows(put, have, got)
      BY <1>2, <1>3, <2>2, <2>5
    <3> QED BY <1>2, <2>2, <3>1, <3>2, HeadPassedOn
  <2> DEFINE T == {k \in 0..N : k >= c => put[k] = HeadBytes}
  <2>7. 0 \in T
    BY <1>1, <2>2
  <2>8. ASSUME NEW k \in 1..N, k - 1 \in T
        PROVE  k \in T
    <3>1. CASE k < c
      BY <1>1, <2>2, <3>1
    <3>2. CASE k = c
      BY <1>1, <2>6, <3>2
    <3>3. CASE k > c
      BY <1>1, <1>4, <2>2, <2>3, <2>4, <2>8, <3>3
    <3> QED BY <1>1, <2>2, <3>1, <3>2, <3>3
  <2> HIDE DEF T
  <2>9. \A k \in 0..N : k \in T
    BY <1>1, <2>7, <2>8, UpTo
  <2>10. put[N] = HeadBytes
    BY <1>1, <2>2, <2>9 DEF T
  <2>11. HeadBytes <= Len(Source)
    <3>1. put[N] \in Place
      BY <1>1
    <3> QED BY <1>1, <2>10, <3>1 DEF Place
  <2>12. Least(HeadBytes, Len(Source)) = HeadBytes
    BY <1>1, <2>11 DEF Least
  <2> QED BY <2>5, <2>10, <2>12 DEF Wanted
<1> QED BY <1>7, <1>8

(* The pass in which a pipeline finishes.                                     *)
LEMMA FinishedWhole ==
  ASSUME Base, Order, Settled, PlacesInv, EndPass
  PROVE  NoSilentLoss'
<1>1. /\ N' = N /\ Kinds' = Kinds /\ Faults' = Faults /\ conf' = conf /\ Config /\ N \in Nat
      /\ phase # "over" /\ N \in 0..N
  BY SameConf, DrainedFacts, ConfigFacts DEF Base, EndPass
<1>2. Merged' <=> Merged
  BY <1>1 DEF Merged
<1> SUFFICES ASSUME ended' = "finished", conf.pipefail, result' = 0, Calm, ~Merged
             PROVE  Payload(out') = IF "head" \in {Kinds[i] : i \in 1..N}
                                    THEN TakeBytes(Source, Least(HeadBytes, Len(Source)))
                                    ELSE Source
  BY <1>1, <1>2 DEF NoSilentLoss, Calm
<1>3. ended = "no"
  BY <1>1 DEF Base, Shape
<1>4. /\ ~OverPipes /\ ~OverOutput /\ (\A i \in 1..N : done[i]) /\ phase' = "over"
      /\ result' = Resolve([i \in 1..N |-> ClosedStages[i].rc])
  BY <1>3 DEF EndPass, Over
<1>5. Unfailed
  <2>1. PICK rc : rc = [i \in 1..N |-> ClosedStages[i].rc]
    OBVIOUS
  <2>2. \A i \in 1..N : rc[i] = 0
    BY <1>1, <1>4, <2>1, AllSucceeded
  <2>3. ASSUME NEW i \in 1..N
        PROVE  st[i].rc = 0
    <3>1. View(i) \in ViewType /\ View(i).s = st[i] /\ Fit(st[i])
      BY ViewFacts DEF Base, Shape
    <3>2. Closes(View(i), Close(View(i)))
      BY <3>1, CloseFreesStage
    <3>3. ClosedStages[i] = Close(View(i)).s
      BY DEF ClosedStages
    <3> QED BY <2>1, <2>2, <3>1, <3>2, <3>3 DEF Closes
  <2> QED BY <2>3 DEF Unfailed
<1>6. PICK n : n = IF OverPipes THEN 0 ELSE Drained
  OBVIOUS
<1>7. n \in 0..Len(pipes[N].data) /\ Rests(n) /\ n = Len(pipes[N].data)
  BY <1>4, <1>6, EndPassRests, DrainsAll
<1>8. PICK put \in [0..N -> Place], have \in [0..N -> Place], got \in [0..N -> Place] :
          Flows(put, have, got) /\ Tally(have, got)
  BY DEF PlacesInv
<1>9. PICK got2 \in [0..N -> Place] : Flows(put, have, got2)'
  BY <1>7, <1>8, RestPlaces
<1>10. put[N] = Wanted
  BY <1>1, <1>4, <1>5, <1>8, AllPassedOn
<1>11. Piece(pipes'[N].data, got2[N], put[N]) /\ Piece(out', 0, got2[N])
       /\ put[N] \in Place /\ got2[N] \in Place
  BY <1>1, <1>8, <1>9 DEF Flows, Piece
<1>12. pipes'[N].data = <<>>
  <2>1. PICK d : d = pipes[N].data
    OBVIOUS
  <2>2. d \in Seq(Byte) /\ pipes'[N].data = DropBytes(d, Len(d))
    BY <1>7, <2>1, DrainedFacts DEF Rests
  <2> QED BY <2>2 DEF DropBytes
<1>13. got2[N] = put[N]
  BY <1>11, <1>12, PieceLength
<1>14. Payload(out') = Seg(0, Wanted)
  BY <1>10, <1>11, <1>13 DEF Piece
<1>15. Seg(0, Wanted) = TakeBytes(Source, Wanted)
  BY DEF Seg, TakeBytes
<1>16. Seg(0, Len(Source)) = Source
  <2>1. 0 \in Place /\ 0 <= 0
    BY StreamingAssumption DEF Place
  <2> QED BY <2>1, SegFacts
<1> QED BY <1>14, <1>15, <1>16 DEF Wanted

-----------------------------------------------------------------------------
(* The invariant, from the start of a pipeline to its end.                    *)

(* The constructors of the stages and ExternalPipeProcess::failed.            *)
Untouched(s, i) ==
    /\ ~s.fin /\ (\A p : Firm(s, p, i))
    /\ s.kind = "head" => s.left = HeadBytes
    /\ s.kind \in Buffering => ~s.eof
    /\ s.rc = 0 => /\ s.se = <<>> /\ s.pend = <<>> /\ s.file = <<>> /\ s.stdin = <<>>
                   /\ s.inbox = IF s.kind = "external" /\ i = 1 THEN Source ELSE <<>>
    /\ s.rc = 0 \/ (s.kind = "external" /\ ~s.live)

LEMMA StartedUntouched ==
  ASSUME HeadBytes > 0, NEW i \in Nat, NEW k \in Kind, NEW s, s \in Started(i, k)
  PROVE  Untouched(s, i)
<1>1. Fresh(k, s)
  BY StartedFresh
<1>2. s \in Stage /\ s.kind = k /\ (k # "external" => ~s.eof)
  BY <1>1 DEF Fresh
<1>3. CASE s = NewStage(k, i = 1)
  <2>1. PICK inb : inb = IF k = "external" /\ i = 1 THEN Source ELSE <<>>
    OBVIOUS
  <2>2. PICK ext \in BOOLEAN : ext = (k = "external")
    OBVIOUS
  <2>3. s = [kind |-> k, fin |-> FALSE, pend |-> <<>>, se |-> <<>>, eof |-> FALSE, rc |-> 0,
             left |-> HeadBytes, file |-> <<>>, staging |-> FALSE, live |-> ext,
             stdin |-> <<>>, sclosed |-> FALSE, writable |-> ext, nin |-> 0, nout |-> 0,
             status |-> NoStatus, inbox |-> inb]
    BY <1>3, <2>1, <2>2 DEF NewStage
  <2>4. /\ ~s.fin /\ s.pend = <<>> /\ s.se = <<>> /\ ~s.eof /\ s.rc = 0 /\ s.left = HeadBytes
        /\ s.file = <<>> /\ s.stdin = <<>> /\ ~s.sclosed /\ s.status = NoStatus /\ s.inbox = inb
        /\ s.live = ext
    BY <2>3
  <2>5. HeadBytes # 0
    BY StreamingAssumption
  <2>6. \A p : Firm(s, p, i)
    BY <1>2, <2>2, <2>4, <2>5 DEF Firm
  <2> QED BY <1>2, <2>1, <2>4, <2>6 DEF Untouched
<1>4. CASE k = "external" /\ s = FailedStage(i)
  <2>1. PICK n : n = NewStage("external", FALSE)
    OBVIOUS
  <2>2. PICK d : d = Diagnostic(i)
    OBVIOUS
  <2>3. /\ n \in [DOMAIN n -> {n[x] : x \in DOMAIN n}]
        /\ {"fin", "live", "sclosed", "writable", "eof", "status", "rc", "se"} \subseteq DOMAIN n
        /\ ~n.fin
    BY <2>1 DEF NewStage
  <2>4. s = [n EXCEPT !.live = FALSE, !.sclosed = TRUE, !.writable = FALSE, !.eof = TRUE,
                      !.status = 126, !.rc = 126, !.se = d]
    BY <1>4, <2>1, <2>2 DEF FailedStage
  <2>5. ~s.fin /\ ~s.live /\ s.rc = 126
    BY <2>3, <2>4
  <2>6. \A p : Firm(s, p, i)
    BY <1>2, <1>4, <2>5 DEF Firm, Buffering
  <2> QED BY <1>2, <1>4, <2>5, <2>6 DEF Untouched, Buffering
<1> QED BY <1>3, <1>4 DEF Started

(* A pipeline starts with empty pipes and no byte of stderr.                  *)
LEMMA InitSettled ==
  ASSUME HeadBytes > 0, Init
  PROVE  Settled
<1>1. Base /\ N \in Nat /\ N > 0 /\ \A i \in 1..N : Kinds[i] \in Kind
  BY InitEstablishes, ConfigFacts DEF PipelineInv, Base
<1>2. ASSUME NEW i \in 1..N
      PROVE  Untouched(st[i], i)
  <2>1. i \in Nat /\ Kinds[i] \in Kind /\ st[i] \in Started(i, Kinds[i])
    BY <1>1 DEF Init
  <2> QED BY <2>1, StartedUntouched
<1>3. \A i \in 1..N : ~done[i]
  BY DEF Init
<1>4. \A i \in 1..N : Ending(i)
  BY <1>2, <1>3 DEF Ending, Untouched, Emptied
<1>5. <<>> \in Seq(Pure) /\ Source \in Seq(Pure)
  BY StreamingAssumption DEF Pure
<1>6. \A j \in 0..N : pipes[j].data \in Seq(Pure)
  <2>1. PICK src : src = [data |-> Source, write_closed |-> TRUE, read_closed |-> FALSE]
    OBVIOUS
  <2>2. PICK np : np = NewPipe
    OBVIOUS
  <2>3. pipes = [i \in 0..N |-> IF i = 0 THEN src ELSE np]
    BY <2>1, <2>2 DEF Init
  <2>4. src.data = Source /\ np.data = <<>>
    BY <2>1, <2>2 DEF NewPipe
  <2> QED BY <1>5, <2>3, <2>4
<1>7. ASSUME Unfailed, NEW i \in 1..N
      PROVE  Clear(View(i))
  <2>1. View(i).s = st[i] /\ View(i).in = pipes[i - 1] /\ View(i).out = pipes[i]
    BY <1>1, ViewFacts
  <2>2. /\ st[i].se = <<>> /\ st[i].pend = <<>> /\ st[i].file = <<>> /\ st[i].stdin = <<>>
        /\ st[i].inbox \in {Source, <<>>}
    BY <1>2, <1>7 DEF Untouched, Unfailed
  <2>3. i \in 0..N /\ i - 1 \in 0..N
    BY <1>1
  <2> QED BY <1>5, <1>6, <2>1, <2>2, <2>3 DEF Clear
<1> QED BY <1>4, <1>7 DEF Settled

(* Its heads want all they ever will.                                         *)
LEMMA InitTallies ==
  ASSUME HeadBytes > 0, Init
  PROVE  PlacesInv
<1>1. /\ Base /\ N \in Nat /\ 1 \in 1..N /\ (\A i \in 1..N : Kinds[i] \in Kind)
      /\ (\A i \in 1..N : st[i].kind = Kinds[i])
  BY InitEstablishes, ConfigFacts DEF PipelineInv, Base, Shape
<1>2. ASSUME NEW i \in 1..N
      PROVE  Untouched(st[i], i)
  <2>1. i \in Nat /\ Kinds[i] \in Kind /\ st[i] \in Started(i, Kinds[i])
    BY <1>1 DEF Init
  <2> QED BY <2>1, StartedUntouched
<1>3. PICK put \in [0..N -> Place], have \in [0..N -> Place], got \in [0..N -> Place] :
          /\ Flows(put, have, got) /\ \A j \in 0..N : got[j] = 0
          /\ have[1] = Len(Payload(HeldBy(st[1])))
  BY InitPlaces
<1>4. Counted(got)
  <2>1. \A h \in 1..N : h - 1 \in 0..N
    BY <1>1
  <2>2. 0 + HeadBytes = HeadBytes
    BY StreamingAssumption
  <2> QED BY <1>1, <1>2, <1>3, <2>1, <2>2 DEF Counted, Untouched
<1>5. Begun(have)
  <2> SUFFICES ASSUME Kinds[1] # "read", ~Lost(1), ~(Kinds[1] \in Buffering /\ ~st[1].eof)
               PROVE  have[1] = Len(Source)
    BY DEF Begun
  <2>1. Kinds[1] = "external"
    <3>1. Kinds[1] \in {"read", "external"} \cup Buffering
      BY DEF Init, Buffering
    <3> QED BY <1>1, <1>2, <3>1 DEF Untouched
  <2>2. PICK s : s = st[1]
    OBVIOUS
  <2>3. s.kind = "external" /\ Untouched(s, 1)
    BY <1>1, <1>2, <2>1, <2>2
  <2>4. s.rc = 0
    BY <2>2, <2>3 DEF Lost, Gave, Untouched
  <2>5. /\ s.pend = <<>> /\ s.stdin = <<>> /\ s.inbox = Source /\ Staged(s) = <<>>
    BY <2>3, <2>4 DEF Untouched, Staged, Buffering
  <2>6. HeldBy(s) = Source
    <3>1. Source \in Seq(Nat)
      BY StreamingAssumption
    <3>2. <<>> \o <<>> = <<>> /\ Source \o <<>> = Source /\ <<>> \o Source = Source
      BY <3>1
    <3> QED BY <2>5, <3>2 DEF HeldBy, Behind
  <2>7. Payload(Source) = Source
    BY PayloadPure, StreamingAssumption
  <2> QED BY <1>3, <2>2, <2>6, <2>7
<1> QED BY <1>3, <1>4, <1>5 DEF PlacesInv, Tally

(* A poll happens before the end, which it does not bring about.              *)
LEMMA PollGoesOn ==
  ASSUME Poll
  PROVE  conf' = conf /\ ended' = ended /\ phase # "over"
<1>1. PICK i \in 1..N : \/ PollRead(i) \/ PollHead(i) \/ PollBuffered(i)
                        \/ ExternalQuits(i) \/ ExternalRuns(i) \/ SkipStage(i)
  BY DEF Poll
<1>2. \A V : Polled(i, V) => conf' = conf /\ ended' = ended
  BY DEF Polled
<1>3. CASE PollRead(i)
  BY <1>2, <1>3 DEF PollRead, Running
<1>4. CASE PollHead(i)
  BY <1>2, <1>4 DEF PollHead, Running
<1>5. CASE PollBuffered(i)
  BY <1>2, <1>5 DEF PollBuffered, Running
<1>6. CASE ExternalQuits(i)
  BY <1>2, <1>6 DEF ExternalQuits, Running
<1>7. CASE ExternalRuns(i)
  BY <1>2, <1>7 DEF ExternalRuns, Running
<1>8. CASE SkipStage(i)
  BY <1>8 DEF SkipStage
<1> QED BY <1>1, <1>3, <1>4, <1>5, <1>6, <1>7, <1>8

(* The invariant is kept by every step.                                       *)
LEMMA SettledStep ==
  ASSUME Base, Order, FlowInv', Settled, PlacesInv, [Next]_vars
  PROVE  Settled' /\ PlacesInv'
<1>1. conf' = conf /\ Config
  BY PollGoesOn DEF Next, Scheduler, BeginPass, EndPass, DeadlinePasses, StepsRefused,
     ClockPasses, Cancel, vars, Base
<1>2. Calm' <=> Calm
  BY <1>1, SameFaults
<1>3. CASE ~Calm \/ phase' = "over"
  BY <1>2, <1>3, OverTallies DEF Settled, FlowInv, PlacesInv, Tally
<1>4. CASE Calm /\ phase' # "over" /\ UNCHANGED <<pipes, st, done, out>> /\ phase # "over"
  <2>1. Settled'
    BY <1>1, <1>4, QuietSettled
  <2>2. Rests(0) /\ 0 \in 0..Len(pipes[N].data)
    BY <1>1, <1>4, NothingDrained DEF Rests, Shut, SameBuffers
  <2> QED BY <1>4, <2>1, <2>2, QuietTallies
<1>5. CASE Calm /\ Poll
  <2>1. PICK i \in 1..N : (Settlement(i) /\ Running(i)) \/ SkipStage(i)
    BY <1>5, PollSettles
  <2>2. CASE SkipStage(i)
    BY <1>3, <1>4, <1>5, <2>2 DEF SkipStage
  <2>3. CASE Settlement(i) /\ Running(i)
    <3>1. PICK y : Leaves(i, y) /\ Settles(View(i), y, i)
      BY <2>3 DEF Settlement
    <3> QED BY <1>5, <2>3, <3>1, PollSettled, PollTallies
  <2> QED BY <2>1, <2>2, <2>3
<1>6. CASE Calm /\ EndPass /\ phase' # "over"
  <2>1. PICK n : n = IF OverPipes THEN 0 ELSE Drained
    OBVIOUS
  <2>2. /\ n \in 0..Len(pipes[N].data) /\ Rests(n) /\ phase = "drain"
        /\ st' = st /\ done' = done /\ \A j \in 0..N : j # N => pipes'[j] = pipes[j]
    BY <1>6, <2>1, EndPassRests
  <2>3. pipes[N].data \in Seq(Pure) => pipes'[N].data \in Seq(Pure)
    <3>1. pipes'[N].data = DropBytes(pipes[N].data, n)
      BY <2>2 DEF Rests
    <3> QED BY <2>2, <3>1, Cut
  <2>4. Settled'
    BY <1>1, <2>2, <2>3, QuietSettled
  <2> QED BY <2>2, <2>4, QuietTallies
<1>7. CASE Calm /\ UNCHANGED vars /\ phase = "over"
  BY <1>3, <1>7 DEF vars
<1>8. CASE Calm /\ UNCHANGED vars /\ phase # "over"
  BY <1>4, <1>8 DEF vars
<1>9. CASE Calm /\ (BeginPass \/ ClockPasses)
  BY <1>3, <1>4, <1>9 DEF BeginPass, ClockPasses
<1>10. CASE DeadlinePasses \/ StepsRefused \/ Cancel
  BY <1>3, <1>10 DEF DeadlinePasses, StepsRefused, Cancel, Over
<1> QED BY <1>3, <1>5, <1>6, <1>7, <1>8, <1>9, <1>10 DEF Next, Scheduler

(* A pipeline that ran to its end and reports success under pipefail has      *)
(* delivered to stdout its whole source, or what head asked for: no poll of   *)
(* the five process types ends a stage that has not failed before it has      *)
(* handed on all it got, and a failed stage cannot be hidden behind those     *)
(* that follow it (resolve_pipeline_exit_status).  It is so for every         *)
(* pipeline, source, capacity, chunk size and limit, if head is asked for at  *)
(* least one byte.                                                            *)
THEOREM NothingLostSilently == HeadBytes > 0 => (Spec => []NoSilentLoss)
<1> DEFINE Inv == Settled /\ PlacesInv /\ NoSilentLoss
<1> SUFFICES ASSUME HeadBytes > 0
             PROVE  Spec => []NoSilentLoss
  OBVIOUS
<1>1. Init => Inv
  <2> SUFFICES ASSUME Init
               PROVE  Inv
    OBVIOUS
  <2>1. Settled /\ PlacesInv
    BY InitSettled, InitTallies
  <2>2. NoSilentLoss
    BY DEF Init, NoSilentLoss
  <2> QED BY <2>1, <2>2
<1>2. PipelineInv /\ Order /\ FlowInv' /\ Inv /\ [Next]_vars => Inv'
  <2> SUFFICES ASSUME Base, Order, FlowInv', Settled, PlacesInv, NoSilentLoss, [Next]_vars
               PROVE  Settled' /\ PlacesInv' /\ NoSilentLoss'
    BY DEF PipelineInv, Base
  <2>1. Settled' /\ PlacesInv'
    BY SettledStep
  <2>2. CASE EndPass
    BY <2>1, <2>2, FinishedWhole
  <2>3. CASE UNCHANGED vars
    <3>1. NoSilentLoss'
      BY <2>3 DEF vars, NoSilentLoss, Kinds, N, Faults, Merged
    <3> QED BY <2>1, <3>1
  <2>4. CASE Next /\ ~EndPass
    <3>1. ended' # "finished"
      <4>1. phase # "over" => ended = "no"
        BY DEF Base, Shape
      <4> QED BY <2>4, <4>1, PollGoesOn DEF Next, Scheduler, BeginPass, DeadlinePasses,
                 StepsRefused, ClockPasses, Cancel, Over
    <3> QED BY <2>1, <3>1 DEF NoSilentLoss
  <2> QED BY <2>2, <2>3, <2>4
<1> QED BY <1>1, <1>2, FlowInvariant, PTL DEF Spec
=============================================================================
